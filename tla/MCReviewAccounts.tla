-------------------------- MODULE MCReviewAccounts --------------------------
\* An instance of ReviewAccounts for TLC.
EXTENDS ReviewAccounts, TLC

CONSTANTS u1, r1, r2, old, o1

TwoEach == ("login-peer" :> 2) @@ ("login-user" :> 2) @@ ("session" :> 2)

=============================================================================
