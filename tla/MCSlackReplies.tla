--------------------------- MODULE MCSlackReplies ---------------------------
\* Instances of SlackReplies for TLC.
EXTENDS SlackReplies, TLC

CONSTANTS e1, e2, w1, w2

Symmetry == Permutations(Sender)

=============================================================================
