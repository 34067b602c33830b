----------------------------- MODULE TicketFlow -----------------------------
(***************************************************************************)
(* A ticket from its request to its outcome: BusinessTools.execute and     *)
(* BusinessTools.review of business.py over the table ticket_proposals,    *)
(* composed with the job queue whose workers run execute and with the      *)
(* outbox that the approval fills.  An event makes at most one proposal    *)
(* (ticket_proposals.event_id is UNIQUE), so an event names its proposal.  *)
(***************************************************************************)
EXTENDS JobQueue, FiniteSets

CONSTANTS
    ScopeOf,      \* the conversation and invoice an event asks a ticket for
    User,         \* people who consult or decide
    Approver,     \* users with the role ticket_approver
    RequesterOf,  \* the user who sent an event
    Operator,     \* operators who reconcile deliveries
    RetryLimit,   \* see TicketDelivery
    Backends,     \* the values settings.ticket_backend takes over time
    ZombieLimit   \* bound: abandoned threads that run at one time

ASSUME FlowAssumption ==
    /\ IsFiniteSet(Event) /\ Cardinality(Event) <= MaxStamp
    /\ DOMAIN ScopeOf = Event
    /\ RequesterOf \in [Event -> User]
    /\ Approver \subseteq User
    /\ RetryLimit \in Nat
    /\ Backends \subseteq {"jira", "synthetic"}
    /\ ZombieLimit \in Nat

VARIABLES
    proposal,   \* ticket_proposals.status: "pending", "approved", "rejected" or
                \* "expired", and "none" without a row
    provider,   \* the ticket_target bound into the arguments, or "synthetic"
    overdue,    \* expires_at <= clock_timestamp()
    decider,    \* decided_by
    simulated,  \* a row of synthetic_tickets exists
    thread,     \* execute as the worker awaits it: its event, and "running", Holding
                \* or Result
    zombie,     \* execute running on after asyncio.timeout gave it up
    review      \* the review transaction of a user: its event, and "approved",
                \* "rejected" or "expired"

VARIABLES delivery, tries, ready, stalled, issueKey, post, wire, issues, found

Outbox == INSTANCE TicketDelivery
              WITH Proposal <- Event, Sender <- Worker, NoPost <- Idle

flowVars == <<proposal, provider, overdue, decider, simulated, thread, zombie, review>>
outboxVars == <<delivery, tries, ready, stalled, issueKey, post, wire, issues, found>>
vars == <<jobVars, flowVars, outboxVars>>

\* "free" and "blocked" hold the advisory lock of the scope, with the answer of
\* the query for an open proposal; the last two are results.
Holding == {"free", "blocked"}
Result == {"awaiting_approval", "completed"}

Thread == [event : Event, at : {"running"} \union Holding \union Result]
Review == [event : Event, verdict : {"approved", "rejected", "expired"}]

\* Idle is none of the things it stands for the absence of.
ASSUME NothingAssumption ==
    /\ Idle \notin Thread /\ Idle \notin Review
    /\ Idle \notin Outbox!Post /\ Idle \notin Outbox!Found

Init ==
    /\ JobInit
    /\ Outbox!DeliveryInit
    /\ proposal = [e \in Event |-> "none"]
    /\ provider = [e \in Event |-> "none"]
    /\ overdue = [e \in Event |-> FALSE]
    /\ decider = [e \in Event |-> Idle]
    /\ simulated = [e \in Event |-> FALSE]
    /\ thread = [w \in Worker |-> Idle]
    /\ zombie = [w \in Worker |-> Idle]
    /\ review = [u \in User |-> Idle]

-----------------------------------------------------------------------------
\* Another proposal of the scope awaits a decision or its ticket is not settled.
Open(e) ==
    \/ proposal[e] = "pending" /\ ~overdue[e]
    \/ delivery[e] \in {"pending", "sending", "uncertain"}

ScopeIsOpen(e) ==
    \E x \in Event \ {e} : ScopeOf[x] = ScopeOf[e] /\ Open(x)

HoldsScope(x, e) == x # Idle /\ x.at \in Holding /\ ScopeOf[x.event] = ScopeOf[e]

\* Mutant: no advisory lock.
NeverLocked(e) == FALSE

ScopeLocked(e) ==
    \E w \in Worker : HoldsScope(thread[w], e) \/ HoldsScope(zombie[w], e)

\* pg_advisory_xact_lock, then the query; an existing proposal of the same event
\* overrides the answer.
LockScope(x) ==
    /\ x # Idle
    /\ x.at = "running"
    /\ ~ScopeLocked(x.event)

AfterLock(x) ==
    [x EXCEPT !.at = IF ScopeIsOpen(x.event) /\ proposal[x.event] = "none"
                     THEN "blocked" ELSE "free"]

\* INSERT ... ON CONFLICT (event_id) DO NOTHING, when the scope was free.
InsertProposal(x) ==
    IF x.at = "free" /\ proposal[x.event] = "none"
    THEN /\ proposal' = [proposal EXCEPT ![x.event] = "pending"]
         /\ \E b \in Backends : provider' = [provider EXCEPT ![x.event] = b]
         /\ overdue' = [overdue EXCEPT ![x.event] = FALSE]
    ELSE UNCHANGED <<proposal, provider, overdue>>

\* clarification_required completes the job, a pending proposal makes it wait for
\* a decision.  An existing proposal may also be refused as proposal_conflict,
\* when a changed configuration makes its fingerprint differ.
ResultOf(x) ==
    CASE x.at = "blocked" -> {"completed"}
      [] x.at = "free" /\ proposal[x.event] = "none" -> {"awaiting_approval"}
      [] x.at = "free" /\ proposal[x.event] = "pending" -> Result
      [] OTHER -> {"completed"}

-----------------------------------------------------------------------------
\* A worker is either in run_once or in deliver_once.
StartJob(w, e) ==
    /\ post[w] = Idle
    /\ Claim(w, e)
    /\ thread' = [thread EXCEPT ![w] = [event |-> e, at |-> "running"]]
    /\ UNCHANGED <<proposal, provider, overdue, decider, simulated, zombie, review, outboxVars>>

DropJob(w, e) ==
    /\ post[w] = Idle
    /\ Exhaust(w, e)
    /\ UNCHANGED <<flowVars, outboxVars>>

ExecuteLock(w) ==
    /\ LockScope(thread[w])
    /\ thread' = [thread EXCEPT ![w] = AfterLock(thread[w])]
    /\ UNCHANGED <<proposal, provider, overdue, decider, simulated, zombie, review>>
    /\ UNCHANGED <<jobVars, outboxVars>>

ExecuteCommit(w) ==
    /\ thread[w] # Idle
    /\ thread[w].at \in Holding
    /\ InsertProposal(thread[w])
    /\ \E r \in ResultOf(thread[w]) : thread' = [thread EXCEPT ![w].at = r]
    /\ UNCHANGED <<decider, simulated, zombie, review, jobVars, outboxVars>>

\* A refused role or record, or a request that is no ticket: no proposal.
ExecuteElse(w) ==
    /\ thread[w] # Idle
    /\ thread[w].at = "running"
    /\ thread' = [thread EXCEPT ![w].at = "completed"]
    /\ UNCHANGED <<proposal, provider, overdue, decider, simulated, zombie, review>>
    /\ UNCHANGED <<jobVars, outboxVars>>

\* The abandoned thread goes on, and nobody hears its result.
ZombieLock(w) ==
    /\ LockScope(zombie[w])
    /\ zombie' = [zombie EXCEPT ![w] = AfterLock(zombie[w])]
    /\ UNCHANGED <<proposal, provider, overdue, decider, simulated, thread, review>>
    /\ UNCHANGED <<jobVars, outboxVars>>

ZombieCommit(w) ==
    /\ zombie[w] # Idle
    /\ zombie[w].at \in Holding
    /\ InsertProposal(zombie[w])
    /\ zombie' = [zombie EXCEPT ![w] = Idle]
    /\ UNCHANGED <<decider, simulated, thread, review, jobVars, outboxVars>>

\* It fails, or its process dies: its transaction is rolled back.
ZombieEnds(w) ==
    /\ zombie[w] # Idle
    /\ zombie' = [zombie EXCEPT ![w] = Idle]
    /\ UNCHANGED <<proposal, provider, overdue, decider, simulated, thread, review>>
    /\ UNCHANGED <<jobVars, outboxVars>>

\* What process_lease hands to finish: the result of execute, or an error.  A
\* processor_error includes a commit whose acknowledgement was lost.
Answers(w, o) ==
    \/ o \in Result /\ thread[w].at = o
    \/ o = "processor_error"
    \/ o = "invalid_event" /\ thread[w].at = "running"

SaveJob(w, o) ==
    /\ lease[w] # Idle
    /\ Answers(w, o)
    /\ Finish(w, o) \/ FinishTooLate(w)
    /\ thread' = [thread EXCEPT ![w] = Idle]
    /\ UNCHANGED <<proposal, provider, overdue, decider, simulated, zombie, review, outboxVars>>

\* asyncio.timeout does not stop asyncio.to_thread.  Bounds: ZombieLimit, and one
\* abandoned thread per worker.
TimeOut(w) ==
    /\ lease[w] # Idle
    /\ thread[w].at \notin Result
    /\ zombie[w] = Idle
    /\ Cardinality({v \in Worker : zombie[v] # Idle}) < ZombieLimit
    /\ Finish(w, "processor_timeout") \/ FinishTooLate(w)
    /\ zombie' = [zombie EXCEPT ![w] = thread[w]]
    /\ thread' = [thread EXCEPT ![w] = Idle]
    /\ UNCHANGED <<proposal, provider, overdue, decider, simulated, review, outboxVars>>

Crash(w) ==
    /\ Abandon(w)
    /\ thread' = [thread EXCEPT ![w] = Idle]
    /\ UNCHANGED <<proposal, provider, overdue, decider, simulated, zombie, review, outboxVars>>

-----------------------------------------------------------------------------
\* UPDATE event_jobs SET status: neither review nor save_result has a condition
\* on the status it replaces.
MoveJobs(move) ==
    /\ status' = [e \in Event |-> IF e \in DOMAIN move THEN move[e] ELSE status[e]]
    /\ UNCHANGED <<received, attempts, token, live, due, lease, written, known>>

\* Mutant: the role alone decides.
MayDecideAnything(u, e) == u \in Approver

\* Deciding needs the role and somebody else's request; consulting needs the
\* role or one's own request.
MayDecide(u, e) == u \in Approver /\ u # RequesterOf[e]
MayConsult(u, e) == u \in Approver \/ u = RequesterOf[e]

\* Mutant: the status of the job is not compared.
ReviewReadAnyJob(u, e, decision) ==
    /\ review[u] = Idle
    /\ \A v \in User : review[v] # Idle => review[v].event # e
    /\ proposal[e] = "pending"
    /\ IF decision = "none" THEN MayConsult(u, e) /\ overdue[e] ELSE MayDecide(u, e)
    /\ review' = [review EXCEPT ![u] =
           [event |-> e, verdict |-> IF overdue[e] THEN "expired" ELSE decision]]
    /\ UNCHANGED <<proposal, provider, overdue, decider, simulated, thread, zombie>>
    /\ UNCHANGED <<jobVars, outboxVars>>

\* The proposal and the job are locked, the expiry is evaluated.  A review that
\* finds nothing to write ends here: proposal_not_ready, decision_conflict, a
\* plain consultation.
ReviewRead(u, e, decision) ==
    /\ review[u] = Idle
    /\ \A v \in User : review[v] # Idle => review[v].event # e
    /\ proposal[e] = "pending"
    /\ status[e] = "awaiting_approval"
    /\ IF decision = "none" THEN MayConsult(u, e) /\ overdue[e] ELSE MayDecide(u, e)
    /\ review' = [review EXCEPT ![u] =
           [event |-> e, verdict |-> IF overdue[e] THEN "expired" ELSE decision]]
    /\ UNCHANGED <<proposal, provider, overdue, decider, simulated, thread, zombie>>
    /\ UNCHANGED <<jobVars, outboxVars>>

\* "Decision, outbox/simulator, job result and audit commit atomically."
ReviewCommit(u) ==
    /\ review[u] # Idle
    /\ LET e == review[u].event
           v == review[u].verdict
       IN  /\ proposal' = [proposal EXCEPT ![e] = v]
           /\ decider' = [decider EXCEPT ![e] = IF v = "expired" THEN Idle ELSE u]
           /\ IF v = "approved" /\ provider[e] = "jira"
              THEN /\ Outbox!Enqueue(e)
                   /\ MoveJobs([x \in {e} |-> "awaiting_delivery"])
                   /\ UNCHANGED simulated
              ELSE /\ simulated' = [simulated EXCEPT ![e] = v = "approved"]
                   /\ MoveJobs([x \in {e} |-> "completed"])
                   /\ UNCHANGED outboxVars
    /\ review' = [review EXCEPT ![u] = Idle]
    /\ UNCHANGED <<provider, overdue, thread, zombie>>

\* The requester lost access, the destination changed, or the process died.
ReviewRollback(u) ==
    /\ review[u] # Idle
    /\ review' = [review EXCEPT ![u] = Idle]
    /\ UNCHANGED <<proposal, provider, overdue, decider, simulated, thread, zombie>>
    /\ UNCHANGED <<jobVars, outboxVars>>

ProposalExpires(e) ==
    /\ proposal[e] = "pending"
    /\ ~overdue[e]
    /\ overdue' = [overdue EXCEPT ![e] = TRUE]
    /\ UNCHANGED <<proposal, provider, decider, simulated, thread, zombie, review>>
    /\ UNCHANGED <<jobVars, outboxVars>>

-----------------------------------------------------------------------------
\* save_result writes the job beside the outbox row; the sending marker alone
\* leaves the job awaiting_delivery.
JobStatusOf ==
    [pending |-> "awaiting_delivery", sending |-> "awaiting_delivery",
     succeeded |-> "completed", failed |-> "failed",
     uncertain |-> "delivery_uncertain"]

\* Mutant: the recovery of a marker leaves the job as it was.
JobMissesDoubt ==
    /\ LET saved == {e \in Event : delivery'[e] # delivery[e]
                                  /\ delivery'[e] \notin {"sending", "uncertain"}}
       IN  MoveJobs([e \in saved |-> JobStatusOf[delivery'[e]]])
    /\ UNCHANGED flowVars

JobFollows ==
    /\ LET saved == {e \in Event : delivery'[e] # delivery[e] /\ delivery'[e] # "sending"}
       IN  MoveJobs([e \in saved |-> JobStatusOf[delivery'[e]]])
    /\ UNCHANGED flowVars

Deliver(w) ==
    /\ lease[w] = Idle
    /\ Outbox!SenderStep(w)
    /\ JobFollows

OutboxElse ==
    /\ Outbox!JiraStep \/ Outbox!DeliveryTime \/ \E o \in Operator : Outbox!OperatorStep(o)
    /\ JobFollows

\* Events are accepted one after the other: EventIntake has the details.
Receive(e) ==
    /\ Arrive(e, Cardinality({x \in Event : received[x] # 0}) + 1)
    /\ UNCHANGED <<flowVars, outboxVars>>

QueueTime == TimeStep /\ UNCHANGED <<flowVars, outboxVars>>

-----------------------------------------------------------------------------
ExecuteStep(w) == ExecuteLock(w) \/ ExecuteCommit(w) \/ ExecuteElse(w)
ZombieStep(w) == ZombieLock(w) \/ ZombieCommit(w) \/ ZombieEnds(w)
EndJob(w) == (\E o \in Outcome : SaveJob(w, o)) \/ TimeOut(w) \/ Crash(w)
ReviewStep(u) ==
    \/ \E e \in Event, d \in {"none", "approved", "rejected"} : ReviewRead(u, e, d)
    \/ ReviewCommit(u)
    \/ ReviewRollback(u)

Next ==
    \/ \E w \in Worker :
          \/ \E e \in Event : StartJob(w, e) \/ DropJob(w, e)
          \/ ExecuteStep(w) \/ ZombieStep(w) \/ EndJob(w)
          \/ Deliver(w)
    \/ \E u \in User : ReviewStep(u)
    \/ \E e \in Event : Receive(e) \/ ProposalExpires(e)
    \/ OutboxElse
    \/ QueueTime

Spec == Init /\ [][Next]_vars

\* Workers poll, processors end, clocks advance, and somebody consults every
\* proposal again and again, whose review does not fail forever.
Consultation(e) == \E u \in User : ReviewRead(u, e, "none")

ConsultedSpec ==
    /\ Spec
    /\ \A w \in Worker :
          /\ WF_vars(\E e \in Event : StartJob(w, e) \/ DropJob(w, e))
          /\ WF_vars(ExecuteStep(w) \/ EndJob(w))
          /\ WF_vars(ZombieStep(w))
    /\ WF_vars(QueueTime)
    /\ \A e \in Event : WF_vars(ProposalExpires(e)) /\ WF_vars(Consultation(e))
    /\ \A u \in User : SF_vars(ReviewCommit(u))

-----------------------------------------------------------------------------
\* Nothing reaches a provider without the decision of a second person: a
\* ticket, an issue or a request on its way belongs to a proposal approved by
\* an approver who did not ask for it (business.py:274, ticket_delivery.py:83).
TicketNeedsSecondPerson ==
    \A e \in Event :
        \/ simulated[e]
        \/ delivery[e] # "none"
        \/ issues[e] # {}
        \/ \E m \in wire : m.proposal = e
        => proposal[e] = "approved" /\ decider[e] \in Approver \ {RequesterOf[e]}

\* The status of the job tells the state of the ticket, though the worker, the
\* reviewer and the sender write it in transactions of their own
\* (business.py:343, ticket_delivery.py:22): a decision is never overwritten by
\* a late worker, a job never waits for a decision that was taken.
JobTellsTicket ==
    \A e \in Event :
        /\ status[e] = "awaiting_approval" => proposal[e] = "pending"
        /\ proposal[e] \in {"rejected", "expired"} => status[e] = "completed"
        /\ proposal[e] = "approved" =>
              IF provider[e] = "jira" THEN status[e] = JobStatusOf[delivery[e]]
              ELSE status[e] = "completed" /\ simulated[e]

\* docs/development.md:385: the advisory lock keeps concurrent calls, abandoned
\* threads included, from leaving two proposals of one scope open to decision.
OneUndecidedProposal ==
    \A e, f \in Event :
        /\ e # f /\ ScopeOf[e] = ScopeOf[f]
        /\ proposal[e] = "pending" /\ proposal[f] = "pending"
        => overdue[e] \/ overdue[f]

\* What the requester is told, and what exists at the provider.
Reported(e) ==
    CASE proposal[e] = "none" -> "none"
      [] proposal[e] = "pending" -> "proposed"
      [] proposal[e] \in {"rejected", "expired"} -> "refused"
      [] proposal[e] = "approved" /\ provider[e] = "synthetic" -> "created"
      [] proposal[e] = "approved" /\ delivery[e] \in {"pending", "sending"} -> "approved"
      [] proposal[e] = "approved" /\ delivery[e] = "succeeded" -> "created"
      [] proposal[e] = "approved" /\ delivery[e] = "failed" -> "failed"
      [] proposal[e] = "approved" /\ delivery[e] = "uncertain" -> "unknown"

Made(e) == Cardinality(issues[e]) + IF simulated[e] THEN 1 ELSE 0

Contract(e) == INSTANCE TicketContract WITH report <- Reported(e), made <- Made(e)

\* The whole flow implements the contract of every request: one decision, at
\* most one ticket, only when approved, and a report that is true or admits
\* doubt.
KeepsContract ==
    /\ \A e \in Event : Contract(e)!ContractInit
    /\ [][\A e \in Event : Contract(e)!ContractStep]_vars

\* The flow uses the queue as its proofs expect: neither a review nor a result
\* of the outbox, which update event_jobs without a condition on its status,
\* touches a job that a worker may still hold (business.py:343,
\* ticket_delivery.py:28).
KeepsQueue == JobInit /\ [][UNCHANGED jobVars \/ JobNext]_vars

\* What the Slack connector reads of the job and its proposal: the status, the
\* outcome of a job that is completed, and what an open review has found.
OutcomeOf == [none |-> "answered", pending |-> "answered", approved |-> "created",
              rejected |-> "refused", expired |-> "lapsed"]

StageOf(e) ==
    CASE status[e] \in {"none", "failed"} -> status[e]
      [] status[e] \in Waiting -> "running"
      [] status[e] = "awaiting_approval" -> "awaiting"
      [] status[e] = "awaiting_delivery" -> "delivering"
      [] status[e] = "delivery_uncertain" -> "doubt"
      [] status[e] = "completed" -> OutcomeOf[proposal[e]]

ReviewOf(e) ==
    LET verdicts == {review[u].verdict : u \in {v \in User :
                        review[v] # Idle /\ review[v].event = e}}
    IN  IF verdicts = {} THEN "none"
        ELSE IF "expired" \in verdicts THEN "late" ELSE "intime"

Seen == INSTANCE JobStage
            WITH stage <- [e \in Event |-> StageOf(e)],
                 review <- [e \in Event |-> ReviewOf(e)]

\* Workers, abandoned threads, reviewers, senders and operators together do no more
\* to a job than the connector expects: it is told of no decision that was not
\* taken, no outcome that may still change, no expiry of a decided proposal.
ShowsStages == Seen!StageSpec

\* What the Supervisor relies on of the jobs of one private conversation.
TurnsOf(c) == {e \in Event : ConversationOf[e] = c}

TurnStatusOf == [none |-> "none", pending |-> "open", processing |-> "open",
                 awaiting_approval |-> "awaiting_approval",
                 awaiting_delivery |-> "awaiting_delivery",
                 delivery_uncertain |-> "awaiting_delivery",
                 completed |-> "completed", failed |-> "failed"]

AttemptOf(w, c) ==
    IF lease[w] # Idle /\ lease[w].event \in TurnsOf(c) THEN lease[w] ELSE Idle

Turns(c) == INSTANCE TurnJobs
               WITH Turn <- TurnsOf(c),
                    received <- [e \in TurnsOf(c) |-> received[e]],
                    status <- [e \in TurnsOf(c) |-> TurnStatusOf[status[e]]],
                    attempts <- [e \in TurnsOf(c) |-> attempts[e]],
                    lease <- [w \in Worker |-> AttemptOf(w, c)]

\* In supervisor mode the turns of every conversation are taken, attempted and settled
\* as the Supervisor expects, whatever other conversations, reviewers and senders do.
TakesTurns ==
    /\ \A e \in Event : Turns(ConversationOf[e])!TurnInit
    /\ [][\A e \in Event :
             LET c == ConversationOf[e]
             IN  Turns(c)!TurnNext \/ UNCHANGED Turns(c)!turnVars]_vars

\* docs/development.md:508: "Une proposition périmée devient `expired` lors de sa
\* consultation ou d'une tentative de décision."
StaleProposalIsFinalised ==
    \A e \in Event :
        proposal[e] = "pending" /\ overdue[e] ~> proposal[e] # "pending"

\* docs/jira.md:99: "Les nouvelles propositions pour la même facture dans la même
\* conversation sont bloquées tant que l'envoi est en attente ou incertain."
NewProposalsWaitForDelivery ==
    [][\A e, f \in Event :
          /\ e # f /\ ScopeOf[e] = ScopeOf[f]
          /\ delivery[e] \in {"pending", "sending", "uncertain"}
          => ~(proposal[f] = "none" /\ proposal'[f] = "pending")]_vars

=============================================================================
