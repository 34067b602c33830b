--------------------------- MODULE TicketContract ---------------------------
(***************************************************************************)
(* What AssistOps promises about the ticket of one request, without jobs,  *)
(* leases, locks, transactions or messages: the request becomes a          *)
(* proposal, a second person decides it once, an approved proposal makes   *)
(* at most one ticket at the provider, and the outcome that is reported is *)
(* true or admits doubt.                                                   *)
(***************************************************************************)
EXTENDS Integers

VARIABLES
    report,   \* what the status of the request says
    made      \* tickets that really exist for the request

contractVars == <<report, made>>

ContractInit == report = "none" /\ made = 0

Moves(from, to) == report = from /\ report' = to

Propose == Moves("none", "proposed") /\ UNCHANGED made

\* Rejected by a person, or out of time.
Refuse == Moves("proposed", "refused") /\ UNCHANGED made

Approve == Moves("proposed", "approved") /\ UNCHANGED made

\* The simulator makes the ticket in the very transaction of the approval.
ApproveAndMake == Moves("proposed", "created") /\ made' = 1

\* The provider makes the ticket, once, for an approved request only.
Make ==
    /\ report \in {"approved", "unknown"}
    /\ made = 0
    /\ made' = 1
    /\ UNCHANGED report

\* Success is reported of a ticket that exists.
Confirm ==
    /\ Moves("approved", "created") \/ Moves("unknown", "created")
    /\ made = 1
    /\ UNCHANGED made

\* Failure is reported when there is no ticket, and none is made later.
Fail == Moves("approved", "failed") /\ made = 0 /\ UNCHANGED made

Doubt == Moves("approved", "unknown") /\ UNCHANGED made

ContractNext ==
    \/ Propose \/ Refuse \/ Approve \/ ApproveAndMake
    \/ Make \/ Confirm \/ Fail \/ Doubt

ContractStep == UNCHANGED contractVars \/ ContractNext

=============================================================================
