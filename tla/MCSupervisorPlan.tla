-------------------------- MODULE MCSupervisorPlan --------------------------
\* Instances of SupervisorPlan for TLC.
EXTENDS SupervisorPlan, TLC

CONSTANTS t1, t2, t3, w1, w2, a, b

\* A clarification, a ticket, and a ticket after a search and a read.
ThreePlans == {{}, {"propose"}, {"rag", "read", "propose"}}
OnePlan == {{"read"}}

Symmetry == Permutations(Turn) \union Permutations(Worker) \union Permutations(Scope)

=============================================================================
