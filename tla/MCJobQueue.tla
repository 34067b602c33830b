----------------------------- MODULE MCJobQueue -----------------------------
\* Instances of JobQueue for TLC.
EXTENDS JobQueue, TLC

CONSTANTS e1, e2, e3, w1, w2

\* Two turns of one private conversation and one turn of another.
TwoConversations == [e \in Event |-> IF e = e3 THEN "other" ELSE "shared"]

\* The workers are interchangeable; the events differ by their conversation.
Symmetry == Permutations(Worker)

=============================================================================
