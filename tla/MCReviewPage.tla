---------------------------- MODULE MCReviewPage ----------------------------
\* Instances of ReviewPage for TLC.
EXTENDS ReviewPage

CONSTANTS p1, p2

=============================================================================
