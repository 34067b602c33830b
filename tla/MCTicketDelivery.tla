-------------------------- MODULE MCTicketDelivery --------------------------
\* Instances of TicketDelivery for TLC.
EXTENDS TicketDelivery, TLC

CONSTANTS p1, p2, w1, w2, o1, o2

=============================================================================
