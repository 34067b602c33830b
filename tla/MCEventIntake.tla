---------------------------- MODULE MCEventIntake ----------------------------
\* Instances of EventIntake for TLC.
EXTENDS EventIntake, TLC

CONSTANTS e1, e2, w1, w2, s1, s2, p1, p2

OneConversation == [e \in Event |-> "c"]

=============================================================================
