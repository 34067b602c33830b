------------------------------ MODULE JobStage ------------------------------
(***************************************************************************)
(* What somebody outside sees of a job and its proposal while workers, the *)
(* outbox, reviewers and operators work on it: the part of event_jobs and  *)
(* ticket_proposals that the Slack connector reads.  SlackReplies assumes  *)
(* no more of the job than this; TicketFlow does no more than this.        *)
(***************************************************************************)
CONSTANT Event   \* accepted requests

VARIABLES
    stage,      \* the status of the job, with its outcome once it is completed
    overdue,    \* its proposal has passed expires_at
    review      \* a review transaction: "none", or what it found, "intime", "late"

jobVars == <<stage, overdue, review>>

Final == {"answered", "created", "refused", "lapsed", "failed"}
Parked == {"awaiting", "delivering", "doubt"}
Stage == {"none", "running"} \union Parked \union Final

StageInit ==
    /\ stage = [e \in Event |-> "none"]
    /\ overdue = [e \in Event |-> FALSE]
    /\ review = [e \in Event |-> "none"]

Arrives(e) ==
    /\ stage[e] = "none"
    /\ stage' = [stage EXCEPT ![e] = "running"]
    /\ UNCHANGED <<overdue, review>>

-----------------------------------------------------------------------------
\* What workers, the outbox and operators make of the job.
Moves == [running    |-> {"answered", "failed", "awaiting"},
          delivering |-> {"created", "failed", "doubt"},
          doubt      |-> {"created"}]

JobMoves(e) ==
    /\ stage[e] \in DOMAIN Moves
    /\ \E s \in Moves[stage[e]] : stage' = [stage EXCEPT ![e] = s]
    /\ UNCHANGED <<overdue, review>>

\* review evaluates the expiry once and commits later.
ReviewReads(e) ==
    /\ stage[e] = "awaiting"
    /\ review[e] = "none"
    /\ review' = [review EXCEPT ![e] = IF overdue[e] THEN "late" ELSE "intime"]
    /\ UNCHANGED <<stage, overdue>>

ReviewCommits(e) ==
    /\ review[e] # "none"
    /\ \E s \in IF review[e] = "late" THEN {"lapsed"} ELSE {"refused", "created", "delivering"} :
          stage' = [stage EXCEPT ![e] = s]
    /\ review' = [review EXCEPT ![e] = "none"]
    /\ UNCHANGED overdue

ReviewRollsBack(e) ==
    /\ review[e] # "none"
    /\ review' = [review EXCEPT ![e] = "none"]
    /\ UNCHANGED <<stage, overdue>>

\* A proposal that nobody has decided: its job waits for that, is still to be
\* finished by a retry, or ended without hearing of what an abandoned thread stored.
Expires(e) ==
    /\ stage[e] \in {"running", "awaiting", "answered", "failed"}
    /\ ~overdue[e]
    /\ overdue' = [overdue EXCEPT ![e] = TRUE]
    /\ UNCHANGED <<stage, review>>

JobStep(e) ==
    JobMoves(e) \/ ReviewReads(e) \/ ReviewCommits(e) \/ ReviewRollsBack(e) \/ Expires(e)

StageNext == \E e \in Event : Arrives(e) \/ JobStep(e)

StageSpec == StageInit /\ [][StageNext]_jobVars

=============================================================================
