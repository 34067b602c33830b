---------------------------- MODULE MCTicketFlow ----------------------------
\* Instances of TicketFlow for TLC.
EXTENDS TicketFlow, TLC

CONSTANTS e1, e2, w1, w2, ann, bob, op

\* Every request is one of ann for the same invoice in one conversation.
OneScope == [e \in Event |-> "invoice"]
OneConversation == [e \in Event |-> "c"]
AskedByAnn == [e \in Event |-> ann]

Symmetry == Permutations(Worker) \union Permutations(Event)

=============================================================================
