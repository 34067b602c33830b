--------------------------- MODULE TicketFlowProofs ---------------------------
(***************************************************************************)
(* A ticket from its request to its outcome, for any events, workers,      *)
(* scopes, users and operators.  The flow runs the queue and the outbox as *)
(* their own specifications allow, so what JobQueueProofs and              *)
(* TicketDeliveryProofs show holds of it; the invariant adds how the rows, *)
(* the threads, the reviews and the advisory lock fit each other.          *)
(***************************************************************************)
EXTENDS TicketFlow, FiniteSetTheorems, TLAPS

\* The results about the outbox, and those about the queue with nobody at the
\* intake: Receive commits an event in one step.
Delivery == INSTANCE TicketDeliveryProofs
                WITH Proposal <- Event, Sender <- Worker, NoPost <- Idle

Queue == INSTANCE JobQueueProofs
             WITH Session <- {}, Payload <- {}, NoPayload <- Idle, clock <- 0,
                  session <- <<>>, stored <- <<>>, acked <- <<>>

\* A thread runs for each lease, on its event.
ThreadsHaveLeases ==
    \A w \in Worker :
        /\ thread[w] = Idle <=> lease[w] = Idle
        /\ thread[w] # Idle => thread[w].event = lease[w].event

\* What execute has done: only a stored event is worked on, it asked for a
\* decision only beside a proposal, and no abandoned thread has a result.
ThreadsAreTrue ==
    \A w \in Worker :
        /\ thread[w] # Idle /\ thread[w].at = "awaiting_approval" =>
              proposal[thread[w].event] # "none"
        /\ zombie[w] # Idle =>
              zombie[w].at \notin Result /\ status[zombie[w].event] # "none"

\* The rows of one event fit each other.
RowsAgree(e) ==
    /\ status[e] = "none" => proposal[e] = "none"
    /\ status[e] = "awaiting_approval" => proposal[e] = "pending"
    /\ status[e] \in {"awaiting_delivery", "delivery_uncertain"} => proposal[e] = "approved"
    /\ proposal[e] # "none" => provider[e] \in Backends
    /\ proposal[e] = "none" => ~overdue[e]
    /\ proposal[e] # "approved" => delivery[e] = "none" /\ ~simulated[e]
    /\ proposal[e] \in {"rejected", "expired"} => status[e] = "completed"
    /\ proposal[e] = "approved" =>
          /\ decider[e] \in Approver \ {RequesterOf[e]}
          /\ IF provider[e] = "jira"
             THEN /\ delivery[e] # "none" /\ ~simulated[e]
                  /\ status[e] = JobStatusOf[delivery[e]]
             ELSE /\ delivery[e] = "none" /\ simulated[e]
                  /\ status[e] = "completed"

\* A review holds the rows of its event, and nobody else reviews it: what it
\* read is still true.
ReviewIsCurrent(u) ==
    review[u] # Idle =>
        LET e == review[u].event
        IN  /\ proposal[e] = "pending" /\ status[e] = "awaiting_approval"
            /\ review[u].verdict # "expired" => MayDecide(u, e)
            /\ \A v \in User : review[v] # Idle /\ review[v].event = e => v = u

Holds(x) == x # Idle /\ x.at \in Holding

Undecided(e) == proposal[e] = "pending" /\ ~overdue[e]

\* One thread holds the lock of a scope.
OneHolder ==
    /\ \A v, w \in Worker :
          Holds(thread[v]) /\ Holds(thread[w])
          /\ ScopeOf[thread[v].event] = ScopeOf[thread[w].event] => v = w
    /\ \A v, w \in Worker :
          Holds(zombie[v]) /\ Holds(zombie[w])
          /\ ScopeOf[zombie[v].event] = ScopeOf[zombie[w].event] => v = w
    /\ \A v, w \in Worker :
          Holds(thread[v]) /\ Holds(zombie[w]) =>
              ScopeOf[thread[v].event] # ScopeOf[zombie[w].event]

\* The holder of the lock that found its scope free and will insert a proposal
\* is still right: no proposal of the scope awaits a decision.
FreeIsFree(x) ==
    Holds(x) /\ x.at = "free" /\ proposal[x.event] = "none" =>
        \A e \in Event : ScopeOf[e] = ScopeOf[x.event] => ~Undecided(e)

FreeStaysFree == \A w \in Worker : FreeIsFree(thread[w]) /\ FreeIsFree(zombie[w])

FlowTypeOK ==
    /\ proposal \in [Event -> {"none", "pending", "approved", "rejected", "expired"}]
    /\ provider \in [Event -> Backends \union {"none"}]
    /\ overdue \in [Event -> BOOLEAN]
    /\ decider \in [Event -> User \union {Idle}]
    /\ simulated \in [Event -> BOOLEAN]
    /\ thread \in [Worker -> Thread \union {Idle}]
    /\ zombie \in [Worker -> Thread \union {Idle}]
    /\ review \in [User -> Review \union {Idle}]

FlowInv ==
    /\ FlowTypeOK
    /\ ThreadsHaveLeases
    /\ ThreadsAreTrue
    /\ \A e \in Event : RowsAgree(e)
    /\ \A u \in User : ReviewIsCurrent(u)
    /\ OneHolder
    /\ FreeStaysFree
    /\ OneUndecidedProposal
-----------------------------------------------------------------------------
\* The instances of the proofs speak of the queue and the outbox of the flow.
LEMMA SameQueue ==
    /\ JobInit = Queue!JobInit
    /\ JobNext = Queue!JobNext
    /\ jobVars = Queue!jobVars
  BY DEF JobInit, Queue!JobInit, jobVars, Queue!jobVars, JobNext, Queue!JobNext,
         WorkerStep, Queue!WorkerStep, TimeStep, Queue!TimeStep,
         NeighbourStep, Queue!NeighbourStep, Claim, Queue!Claim, TakeJob, Queue!TakeJob,
         Exhaust, Queue!Exhaust, Claimable, Queue!Claimable, Blocked, Queue!Blocked,
         Earlier, Queue!Earlier, Finish, Queue!Finish, HoldsLease, Queue!HoldsLease,
         StatusAfter, Queue!StatusAfter, FinishTooLate, Queue!FinishTooLate,
         Abandon, Queue!Abandon, LeaseExpires, Queue!LeaseExpires,
         BecomesDue, Queue!BecomesDue, Arrive, Queue!Arrive, Settle, Queue!Settle,
         Parked, Queue!Parked, Routed, Queue!Routed, Waiting, Queue!Waiting,
         Outcome, Queue!Outcome

LEMMA SameOutbox ==
    /\ Outbox!DeliveryInit = Delivery!DeliveryInit
    /\ Outbox!DeliveryNext = Delivery!DeliveryNext
    /\ Outbox!deliveryVars = Delivery!deliveryVars
    /\ outboxVars = Delivery!deliveryVars
  BY DEF Outbox!DeliveryInit, Delivery!DeliveryInit, outboxVars,
         Outbox!deliveryVars, Delivery!deliveryVars,
         Outbox!DeliveryNext, Delivery!DeliveryNext, Outbox!Enqueue, Delivery!Enqueue,
         Outbox!SenderStep, Delivery!SenderStep, Outbox!Pick, Delivery!Pick,
         Outbox!RecoverStalled, Delivery!RecoverStalled, Outbox!Reject, Delivery!Reject,
         Outbox!MarkSending, Delivery!MarkSending, Outbox!SaveResult, Delivery!SaveResult,
         Outbox!SendPost, Delivery!SendPost, Outbox!SaveAnswer, Delivery!SaveAnswer,
         Outbox!Verdict, Delivery!Verdict, Outbox!DropPost, Delivery!DropPost,
         Outbox!JiraStep, Delivery!JiraStep, Outbox!JiraCreates, Delivery!JiraCreates,
         Outbox!JiraRefuses, Delivery!JiraRefuses, Outbox!Hear, Delivery!Hear,
         Outbox!Step, Delivery!Step, Outbox!OperatorStep, Delivery!OperatorStep,
         Outbox!Verify, Delivery!Verify, Outbox!Reconcile, Delivery!Reconcile,
         Outbox!DeliveryTime, Delivery!DeliveryTime,
         Outbox!BecomesReady, Delivery!BecomesReady, Outbox!Stalls, Delivery!Stalls

\* The assumptions of the two components are those of the flow.
LEMMA QueueStarts == JobInit => Queue!QueueInv
  BY Queue!InitEstablishes, SameQueue, EventAssumption, AttemptsAssumption,
     StampAssumption, OrderedAssumption, IdleAssumption
  DEF Queue!EventAssumption, Queue!AttemptsAssumption, Queue!StampAssumption,
      Queue!OrderedAssumption, Queue!IdleAssumption, Queue!PayloadAssumption

LEMMA QueueKeeps == Queue!QueueInv /\ [JobNext]_jobVars => Queue!QueueInv'
<1>1. [JobNext]_jobVars => [Queue!JobNext]_(Queue!jobVars)
  BY SameQueue DEF jobVars, Queue!jobVars
<1>2. Queue!QueueInv /\ [Queue!JobNext]_(Queue!jobVars) => Queue!QueueInv'
  BY Queue!StepPreserves, EventAssumption, AttemptsAssumption,
     StampAssumption, OrderedAssumption, IdleAssumption
  DEF Queue!EventAssumption, Queue!AttemptsAssumption, Queue!StampAssumption,
      Queue!OrderedAssumption, Queue!IdleAssumption, Queue!PayloadAssumption
<1> QED  BY <1>1, <1>2

LEMMA OutboxAssumptions ==
    /\ RetryLimit \in Nat
    /\ Idle \notin Delivery!Post /\ Idle \notin Delivery!Found
  BY FlowAssumption, NothingAssumption
  DEF FlowAssumption, NothingAssumption, Outbox!Post, Delivery!Post,
      Outbox!Found, Delivery!Found, Outbox!MaxTries, Delivery!MaxTries,
      Outbox!Step, Delivery!Step

LEMMA OutboxStarts == Outbox!DeliveryInit => Delivery!DeliveryInv
  BY Delivery!DeliveryStarts, SameOutbox, OutboxAssumptions
  DEF Delivery!RetryAssumption, Delivery!NoPostAssumption

LEMMA OutboxKeeps ==
    Delivery!DeliveryInv /\ [Outbox!DeliveryNext]_outboxVars => Delivery!DeliveryInv'
<1>1. [Outbox!DeliveryNext]_outboxVars => [Delivery!DeliveryNext]_(Delivery!deliveryVars)
  BY SameOutbox DEF outboxVars, Delivery!deliveryVars
<1>2. Delivery!DeliveryInv /\ [Delivery!DeliveryNext]_(Delivery!deliveryVars)
          => Delivery!DeliveryInv'
  BY Delivery!DeliveryStepPreserves, OutboxAssumptions
  DEF Delivery!RetryAssumption, Delivery!NoPostAssumption
<1> QED  BY <1>1, <1>2

-----------------------------------------------------------------------------
\* What the flow uses of the queue: a leased event is stored, and a claim leaves
\* a lease that is none of the values that stand for nothing.
LEMMA QueueFacts ==
    ASSUME Queue!QueueInv
    PROVE  /\ JobTypeOK
           /\ \A e \in Event : status[e] = "none" <=> received[e] = 0
           /\ \A w \in Worker : lease[w] # Idle =>
                 lease[w].event \in Event /\ status[lease[w].event] # "none"
<1>1. JobTypeOK
  BY DEF Queue!QueueInv, Queue!JobTypeOK, JobTypeOK, Queue!Status, Status, Queue!Waiting,
         Waiting, Queue!Routed, Routed, Queue!Lease, Lease
<1>2. \A e \in Event : status[e] = "none" <=> received[e] = 0
  BY DEF Queue!QueueInv, Queue!RowShape
<1>3. ASSUME NEW w \in Worker, lease[w] # Idle
      PROVE  lease[w].event \in Event /\ status[lease[w].event] # "none"
  <2>1. lease[w].event \in Event /\ lease[w].attempt \in 1..MaxAttempts
    BY <1>1, <1>3 DEF JobTypeOK, Lease
  <2>2. lease[w].attempt <= attempts[lease[w].event]
    BY <1>3 DEF Queue!QueueInv, Queue!LeaseShape
  <2>3. attempts[lease[w].event] # 0
    BY <1>1, <2>1, <2>2, AttemptsAssumption DEF JobTypeOK
  <2> QED  BY <2>1, <2>3 DEF Queue!QueueInv, Queue!RowShape
<1> QED  BY <1>1, <1>2, <1>3

\* What the flow uses of the outbox: Jira has heard of a row only while it is
\* under way or has succeeded, and has made at most one issue of it.
LEMMA OutboxFacts ==
    ASSUME Delivery!DeliveryInv, NEW e \in Event
    PROVE  /\ delivery[e] \in {"none", "pending", "sending", "succeeded", "failed", "uncertain"}
           /\ delivery \in [Event -> Outbox!DeliveryStatus]
           /\ delivery[e] \in {"none", "pending", "failed"} => issues[e] = {}
           /\ \A m \in wire : m.proposal = e =>
                 delivery[e] \notin {"none", "pending", "failed"} /\ issues[e] = {}
           /\ delivery[e] = "succeeded" => issues[e] # {}
           /\ \E n : issues[e] \subseteq {n}
<1>1. delivery[e] \in {"none", "pending", "sending", "succeeded", "failed", "uncertain"}
  BY DEF Delivery!DeliveryInv, Delivery!DeliveryTypeOK, Delivery!DeliveryStatus
<1>2. delivery \in [Event -> Outbox!DeliveryStatus]
  BY DEF Delivery!DeliveryInv, Delivery!DeliveryTypeOK, Delivery!DeliveryStatus,
         Outbox!DeliveryStatus
<1>3. delivery[e] \in {"none", "pending", "failed"} =>
          issues[e] = {} /\ \A m \in wire : m.proposal # e
  BY DEF Delivery!DeliveryInv, Delivery!NoTrace, Delivery!Quiet
<1>4. \A m \in wire : m.proposal = e => issues[e] = {}
  BY DEF Delivery!DeliveryInv, Delivery!JiraIsCurrent
<1>5. delivery[e] = "succeeded" => issues[e] # {}
  BY DEF Delivery!DeliveryInv, Delivery!KeysAreIssues
<1>6. issues[e] \subseteq {tries[e]}
  BY DEF Delivery!DeliveryInv, Delivery!JiraIsCurrent
<1> QED  BY <1>1, <1>2, <1>3, <1>4, <1>5, <1>6

\* What the outbox does by itself: everything but the approval.
OutboxWork ==
    \/ \E w \in Worker : Outbox!SenderStep(w)
    \/ Outbox!JiraStep \/ Outbox!DeliveryTime
    \/ \E o \in Operator : Outbox!OperatorStep(o)

\* The moves of one row: it is sent, answered, recovered or reconciled.
RowMoves(from, to) ==
    \/ from = "pending" /\ to \in {"sending", "failed"}
    \/ from = "sending" /\ to \in {"succeeded", "failed", "pending", "uncertain"}
    \/ from = "uncertain" /\ to = "succeeded"

\* A step of the outbox moves at most one row, and makes no issue meanwhile.
LEMMA OutboxMovesOneRow ==
    ASSUME Delivery!DeliveryInv, OutboxWork, delivery' # delivery
    PROVE  /\ issues' = issues
           /\ \E p \in Event, s \in Outbox!DeliveryStatus :
                 RowMoves(delivery[p], s) /\ delivery' = [delivery EXCEPT ![p] = s]
<1> DEFINE Goal == /\ issues' = issues
                   /\ \E p \in Event, s \in Outbox!DeliveryStatus :
                         RowMoves(delivery[p], s) /\ delivery' = [delivery EXCEPT ![p] = s]
<1> USE DEF Outbox!DeliveryStatus, RowMoves
<1>1. ASSUME NEW w \in Worker, NEW p \in Event,
             Outbox!RecoverStalled(w, p) \/ Outbox!Reject(w, p) \/ Outbox!MarkSending(w, p)
      PROVE  Goal
  BY <1>1 DEF Outbox!RecoverStalled, Outbox!Reject, Outbox!MarkSending, Outbox!SaveResult
<1>2. ASSUME NEW w \in Worker, Outbox!SaveAnswer(w)
      PROVE  Goal
  <2>1. post[w] \in Delivery!Post
    BY <1>2, OutboxAssumptions
    DEF Outbox!SaveAnswer, Delivery!DeliveryInv, Delivery!DeliveryTypeOK
  <2> DEFINE p == post[w].proposal
             s == Outbox!Verdict(post[w])
  <2>2. p \in Event /\ post[w].step \in Delivery!Step /\ post[w].step # "marked"
    BY <1>2, <2>1 DEF Delivery!Post, Outbox!SaveAnswer
  <2>3. s \in {"succeeded", "failed", "pending", "uncertain"}
    BY <2>2 DEF Outbox!Verdict, Delivery!Step
  <2>4. delivery[p] = "sending" /\ delivery' = [delivery EXCEPT ![p] = s] /\ issues' = issues
    BY <1>2 DEF Outbox!SaveAnswer, Outbox!SaveResult
  <2> HIDE DEF p, s
  <2> QED  BY <2>2, <2>3, <2>4
<1>3. ASSUME NEW w \in Worker, Outbox!SendPost(w) \/ Outbox!DropPost(w)
      PROVE  Goal
  BY <1>3 DEF Outbox!SendPost, Outbox!DropPost
<1>4. CASE Outbox!JiraStep
  BY <1>4 DEF Outbox!JiraStep, Outbox!JiraCreates, Outbox!JiraRefuses
<1>5. CASE Outbox!DeliveryTime
  BY <1>5 DEF Outbox!DeliveryTime, Outbox!BecomesReady, Outbox!Stalls
<1>6. ASSUME NEW o \in Operator, Outbox!OperatorStep(o)
      PROVE  Goal
  <2>1. CASE Outbox!Reconcile(o)
    <3>1. found[o] \in Delivery!Found
      BY <2>1, OutboxAssumptions
      DEF Outbox!Reconcile, Delivery!DeliveryInv, Delivery!DeliveryTypeOK
    <3>2. found[o].proposal \in Event
      BY <3>1 DEF Delivery!Found
    <3> QED  BY <2>1, <3>2 DEF Outbox!Reconcile, Outbox!SaveResult
  <2>2. ASSUME NEW p \in Event, Outbox!Verify(o, p)
        PROVE  Goal
    BY <2>2 DEF Outbox!Verify
  <2> QED  BY <1>6, <2>1, <2>2 DEF Outbox!OperatorStep
<1> QED  BY <1>1, <1>2, <1>3, <1>4, <1>5, <1>6 DEF OutboxWork, Outbox!SenderStep, Outbox!Pick

\* Where Jira makes an issue, the row is under way or in doubt, and it is the first.
LEMMA OutboxMakesOneIssue ==
    ASSUME Delivery!DeliveryInv, OutboxWork, issues' # issues
    PROVE  /\ delivery' = delivery
           /\ \E p \in Event, n \in Nat :
                 /\ delivery[p] \in {"sending", "uncertain"} /\ issues[p] = {}
                 /\ issues' = [issues EXCEPT ![p] = {n}]
<1>1. PICK m \in wire, r \in Outbox!Step : Outbox!JiraCreates(m, r)
  BY DEF OutboxWork, Outbox!SenderStep, Outbox!Pick, Outbox!RecoverStalled, Outbox!Reject,
         Outbox!MarkSending, Outbox!SendPost, Outbox!SaveAnswer, Outbox!DropPost,
         Outbox!JiraStep, Outbox!JiraRefuses, Outbox!DeliveryTime, Outbox!BecomesReady,
         Outbox!Stalls, Outbox!OperatorStep, Outbox!Reconcile, Outbox!Verify
<1>2. m.proposal \in Event /\ m.try \in Nat
  BY <1>1 DEF Delivery!DeliveryInv, Delivery!DeliveryTypeOK, Delivery!Found
<1>3. issues[m.proposal] = {} /\ delivery[m.proposal] \in {"sending", "uncertain"}
  BY <1>2, OutboxFacts
<1>4. issues' = [issues EXCEPT ![m.proposal] = {m.try}] /\ delivery' = delivery
  BY <1>1, <1>2, <1>3 DEF Outbox!JiraCreates, Delivery!DeliveryInv, Delivery!DeliveryTypeOK
<1> QED  BY <1>2, <1>3, <1>4

\* What save_result writes into the row of the job.
LEMMA JobStatusIs ==
    /\ JobStatusOf["pending"] = "awaiting_delivery"
    /\ JobStatusOf["sending"] = "awaiting_delivery"
    /\ JobStatusOf["succeeded"] = "completed"
    /\ JobStatusOf["failed"] = "failed"
    /\ JobStatusOf["uncertain"] = "delivery_uncertain"
  BY DEF JobStatusOf

-----------------------------------------------------------------------------
\* Beside a row of the outbox that moves, the row of its job moves along, and no
\* other.
LEMMA JobFollowsRow ==
    ASSUME Queue!QueueInv, Delivery!DeliveryInv, \A e \in Event : RowsAgree(e),
           OutboxWork, JobFollows
    PROVE  /\ UNCHANGED <<received, attempts, token, live, due, lease, written, known>>
           /\ \/ delivery' = delivery /\ status' = status
              \/ \E p \in Event, s \in Outbox!DeliveryStatus :
                    /\ RowMoves(delivery[p], s)
                    /\ proposal[p] = "approved" /\ provider[p] = "jira"
                    /\ delivery' = [delivery EXCEPT ![p] = s]
                    /\ status' = [status EXCEPT ![p] = JobStatusOf[s]]
<1> DEFINE saved == {e \in Event : delivery'[e] # delivery[e] /\ delivery'[e] # "sending"}
<1>1. /\ UNCHANGED <<received, attempts, token, live, due, lease, written, known>>
      /\ status' = [e \in Event |->
                       IF e \in saved THEN JobStatusOf[delivery'[e]] ELSE status[e]]
  BY DEF JobFollows, MoveJobs
<1>2. status \in [Event -> Status] /\ delivery \in [Event -> Outbox!DeliveryStatus]
  BY QueueFacts, OutboxFacts DEF JobTypeOK, Delivery!DeliveryInv,
     Delivery!DeliveryTypeOK, Delivery!DeliveryStatus, Outbox!DeliveryStatus
<1>3. CASE delivery' = delivery
  <2>1. status' = status
    BY <1>1, <1>2, <1>3
  <2> QED  BY <1>1, <1>3, <2>1
<1>4. CASE delivery' # delivery
  <2>1. PICK p \in Event, s \in Outbox!DeliveryStatus :
             RowMoves(delivery[p], s) /\ delivery' = [delivery EXCEPT ![p] = s]
    BY <1>4, OutboxMovesOneRow
  <2>2. /\ proposal[p] = "approved" /\ provider[p] = "jira"
        /\ status[p] = JobStatusOf[delivery[p]]
    BY <2>1 DEF RowsAgree, RowMoves
  <2>3. delivery'[p] = s /\ s # delivery[p] /\ \A e \in Event \ {p} : e \notin saved
    BY <1>2, <2>1 DEF RowMoves
  <2>4. CASE s = "sending"
    <3>1. p \notin saved
      BY <2>3, <2>4
    <3>2. status' = status
      BY <1>1, <1>2, <2>3, <3>1
    <3>3. status[p] = JobStatusOf[s]
      BY <2>1, <2>2, <2>4, JobStatusIs DEF RowMoves
    <3>4. status' = [status EXCEPT ![p] = JobStatusOf[s]]
      BY <1>2, <3>2, <3>3
    <3> QED  BY <1>1, <2>1, <2>2, <3>4
  <2>5. CASE s # "sending"
    <3>1. p \in saved
      BY <2>3, <2>5
    <3>2. status' = [status EXCEPT ![p] = JobStatusOf[s]]
      BY <1>1, <1>2, <2>3, <3>1
    <3> QED  BY <1>1, <2>1, <2>2, <3>2
  <2> QED  BY <2>4, <2>5
<1> QED  BY <1>3, <1>4

\* To the queue, a result of the outbox settles a parked job or does nothing.
LEMMA FollowingSettles ==
    ASSUME Queue!QueueInv, Delivery!DeliveryInv, \A e \in Event : RowsAgree(e),
           OutboxWork, JobFollows
    PROVE  [JobNext]_jobVars
<1>1. CASE delivery' = delivery /\ status' = status
  BY <1>1, JobFollowsRow DEF jobVars
<1>2. ASSUME NEW p \in Event, NEW s \in Outbox!DeliveryStatus,
             RowMoves(delivery[p], s), proposal[p] = "approved", provider[p] = "jira",
             status' = [status EXCEPT ![p] = JobStatusOf[s]]
      PROVE  JobNext
  <2>1. status[p] = JobStatusOf[delivery[p]]
    BY <1>2 DEF RowsAgree
  <2>2. status[p] \in Parked
    BY <1>2, <2>1, JobStatusIs DEF RowMoves, Parked
  <2>3. JobStatusOf[s] \in Routed \ {"awaiting_approval"}
    BY <1>2, JobStatusIs DEF RowMoves, Routed
  <2>4. Settle(p, JobStatusOf[s])
    BY <1>2, <2>2, <2>3, JobFollowsRow DEF Settle
  <2> QED  BY <2>3, <2>4 DEF JobNext, NeighbourStep
<1> QED  BY <1>1, <1>2, JobFollowsRow

\* To the queue, a review that commits settles a job that awaits a decision.
LEMMA CommitSettles ==
    ASSUME JobTypeOK, FlowTypeOK, NEW u \in User, ReviewIsCurrent(u), ReviewCommit(u)
    PROVE  LET e == review[u].event
               s == IF review[u].verdict = "approved" /\ provider[e] = "jira"
                    THEN "awaiting_delivery" ELSE "completed"
           IN  /\ e \in Event
               /\ status' = [status EXCEPT ![e] = s]
               /\ UNCHANGED <<received, attempts, token, live, due, lease, written, known>>
               /\ JobNext
<1> DEFINE e == review[u].event
           s == IF review[u].verdict = "approved" /\ provider[e] = "jira"
                THEN "awaiting_delivery" ELSE "completed"
<1>1. review[u] \in Review
  BY DEF FlowTypeOK, ReviewCommit
<1>2. e \in Event
  BY <1>1 DEF Review
<1>3. status[e] = "awaiting_approval"
  BY DEF ReviewIsCurrent, ReviewCommit
<1>4. MoveJobs([x \in {e} |-> s])
  BY DEF ReviewCommit
<1>5. s \in Routed \ {"awaiting_approval"}
  BY DEF Routed
<1> HIDE DEF e, s
<1>6. /\ status' = [status EXCEPT ![e] = s]
      /\ UNCHANGED <<received, attempts, token, live, due, lease, written, known>>
  BY <1>2, <1>4 DEF MoveJobs, JobTypeOK
<1>7. Settle(e, s)
  BY <1>3, <1>5, <1>6 DEF Settle, Parked
<1>8. JobNext
  BY <1>2, <1>5, <1>7 DEF JobNext, NeighbourStep
<1> QED  BY <1>2, <1>6, <1>8 DEF e, s

\* The stamp of an arrival is one of those the queue reckons with.
LEMMA ReceiveArrives ==
    ASSUME Queue!QueueInv, NEW e \in Event, Receive(e)
    PROVE  JobNext /\ \E n \in 1..MaxStamp : Arrive(e, n)
<1> DEFINE S == {x \in Event : received[x] # 0}
<1>1. Arrive(e, Cardinality(S) + 1)
  BY DEF Receive
<1>2. e \notin S
  BY <1>1, QueueFacts DEF Arrive
<1>3. S \subseteq Event \ {e} /\ IsFiniteSet(Event) /\ Cardinality(Event) <= MaxStamp
  BY <1>2, FlowAssumption DEF FlowAssumption
<1>4. IsFiniteSet(Event \ {e}) /\ Cardinality(Event \ {e}) = Cardinality(Event) - 1
  BY <1>3, FS_RemoveElement
<1>5. IsFiniteSet(S) /\ Cardinality(S) <= Cardinality(Event) - 1
  BY <1>3, <1>4, FS_Subset
<1>6. Cardinality(S) \in Nat /\ Cardinality(Event) \in Nat
  BY <1>3, <1>5, FS_CardinalityType
<1>7. Cardinality(S) + 1 \in 1..MaxStamp
  BY <1>3, <1>5, <1>6, StampAssumption
<1> QED  BY <1>1, <1>7 DEF JobNext, NeighbourStep

-----------------------------------------------------------------------------
\* Every step of the flow is one of the queue, or none.
LEMMA StepOfQueue ==
    ASSUME Queue!QueueInv, Delivery!DeliveryInv, FlowInv, [Next]_vars
    PROVE  [JobNext]_jobVars
<1> USE DEF FlowInv
<1>1. ASSUME NEW w \in Worker, NEW e \in Event, StartJob(w, e) \/ DropJob(w, e)
      PROVE  JobNext
  BY <1>1 DEF StartJob, DropJob, JobNext, WorkerStep
<1>2. ASSUME NEW w \in Worker, ExecuteStep(w) \/ ZombieStep(w)
      PROVE  UNCHANGED jobVars
  BY <1>2 DEF ExecuteStep, ExecuteLock, ExecuteCommit, ExecuteElse,
              ZombieStep, ZombieLock, ZombieCommit, ZombieEnds
<1>3. ASSUME NEW w \in Worker, EndJob(w)
      PROVE  JobNext
  <2>1. "processor_timeout" \in Outcome
    BY DEF Outcome
  <2> QED  BY <1>3, <2>1 DEF EndJob, SaveJob, TimeOut, Crash, JobNext, WorkerStep
<1>4. ASSUME NEW w \in Worker, Deliver(w)
      PROVE  [JobNext]_jobVars
  BY <1>4, FollowingSettles DEF Deliver, OutboxWork
<1>5. ASSUME NEW u \in User, ReviewStep(u)
      PROVE  [JobNext]_jobVars
  <2>1. CASE ReviewCommit(u)
    BY <2>1, QueueFacts, CommitSettles
  <2>2. CASE ~ReviewCommit(u)
    BY <1>5, <2>2 DEF ReviewStep, ReviewRead, ReviewRollback
  <2> QED  BY <2>1, <2>2
<1>6. ASSUME NEW e \in Event, Receive(e)
      PROVE  JobNext
  BY <1>6, ReceiveArrives
<1>7. ASSUME NEW e \in Event, ProposalExpires(e)
      PROVE  UNCHANGED jobVars
  BY <1>7 DEF ProposalExpires
<1>8. CASE OutboxElse
  BY <1>8, FollowingSettles DEF OutboxElse, OutboxWork
<1>9. CASE QueueTime
  BY <1>9 DEF QueueTime, JobNext
<1>10. CASE UNCHANGED vars
  BY <1>10 DEF vars, jobVars
<1> QED
  BY <1>1, <1>2, <1>3, <1>4, <1>5, <1>6, <1>7, <1>8, <1>9, <1>10 DEF Next

\* Every step of the flow is one of the outbox, or none.
LEMMA StepOfOutbox ==
    ASSUME FlowTypeOK, [Next]_vars
    PROVE  [Outbox!DeliveryNext]_outboxVars
<1>1. ASSUME NEW w \in Worker, NEW e \in Event, StartJob(w, e) \/ DropJob(w, e)
      PROVE  UNCHANGED outboxVars
  BY <1>1 DEF StartJob, DropJob
<1>2. ASSUME NEW w \in Worker, ExecuteStep(w) \/ ZombieStep(w)
      PROVE  UNCHANGED outboxVars
  BY <1>2 DEF ExecuteStep, ExecuteLock, ExecuteCommit, ExecuteElse,
              ZombieStep, ZombieLock, ZombieCommit, ZombieEnds
<1>3. ASSUME NEW w \in Worker, EndJob(w)
      PROVE  UNCHANGED outboxVars
  BY <1>3 DEF EndJob, SaveJob, TimeOut, Crash
<1>4. ASSUME NEW w \in Worker, Deliver(w)
      PROVE  Outbox!DeliveryNext
  BY <1>4 DEF Deliver, Outbox!DeliveryNext
<1>5. ASSUME NEW u \in User, ReviewStep(u)
      PROVE  [Outbox!DeliveryNext]_outboxVars
  <2>1. CASE ReviewCommit(u)
    <3>1. review[u].event \in Event
      BY <2>1 DEF ReviewCommit, FlowTypeOK, Review
    <3> QED  BY <2>1, <3>1 DEF ReviewCommit, Outbox!DeliveryNext
  <2>2. CASE ~ReviewCommit(u)
    BY <1>5, <2>2 DEF ReviewStep, ReviewRead, ReviewRollback
  <2> QED  BY <2>1, <2>2
<1>6. ASSUME NEW e \in Event, Receive(e) \/ ProposalExpires(e)
      PROVE  UNCHANGED outboxVars
  BY <1>6 DEF Receive, ProposalExpires
<1>7. CASE OutboxElse
  BY <1>7 DEF OutboxElse, Outbox!DeliveryNext
<1>8. CASE QueueTime
  BY <1>8 DEF QueueTime
<1>9. CASE UNCHANGED vars
  BY <1>9 DEF vars
<1> QED
  BY <1>1, <1>2, <1>3, <1>4, <1>5, <1>6, <1>7, <1>8, <1>9 DEF Next

-----------------------------------------------------------------------------
\* A job that routing has not left has no decided proposal.
LEMMA WaitingIsUndecided ==
    ASSUME NEW e \in Event, RowsAgree(e), Delivery!DeliveryInv,
           status[e] \in {"none"} \union Waiting
    PROVE  proposal[e] \notin {"approved", "rejected", "expired"}
  BY OutboxFacts, JobStatusIs DEF RowsAgree, Waiting

\* What routing makes of a job.
OfRouting == Waiting \union {"failed", "completed", "awaiting_approval"}

\* Routing changes the status of waiting jobs only, and asks for a decision only
\* beside a proposal: the other rows, and every review under way, keep fitting.
LEMMA RoutingKeepsRows ==
    ASSUME Delivery!DeliveryInv, FlowInv,
           UNCHANGED <<proposal, provider, overdue, decider, simulated, review, delivery>>,
           \A e \in Event :
               \/ status'[e] = status[e]
               \/ /\ status[e] \in {"none"} \union Waiting
                  /\ status'[e] \in OfRouting
                  /\ status'[e] = "awaiting_approval" => proposal[e] # "none"
    PROVE  /\ \A e \in Event : RowsAgree(e)'
           /\ \A u \in User : ReviewIsCurrent(u)'
           /\ OneUndecidedProposal'
           /\ \A e \in Event : status[e] # "none" => status'[e] # "none"
<1>1. ASSUME NEW e \in Event
      PROVE  RowsAgree(e)'
  <2>1. CASE status'[e] = status[e]
    BY <2>1 DEF FlowInv, RowsAgree
  <2>2. CASE status'[e] # status[e]
    <3>1. RowsAgree(e) /\ proposal[e] \in {"none", "pending"}
      BY <2>2, WaitingIsUndecided DEF FlowInv, FlowTypeOK
    <3> QED  BY <2>2, <3>1 DEF RowsAgree, OfRouting, Waiting
  <2> QED  BY <2>1, <2>2
<1>2. ASSUME NEW u \in User
      PROVE  ReviewIsCurrent(u)'
  <2>1. review[u] # Idle => review[u].event \in Event
    BY DEF FlowInv, FlowTypeOK, Review
  <2> QED  BY <2>1 DEF FlowInv, ReviewIsCurrent, MayDecide, Waiting
<1>3. OneUndecidedProposal'
  BY DEF FlowInv, OneUndecidedProposal
<1>4. \A e \in Event : status[e] # "none" => status'[e] # "none"
  BY DEF OfRouting, Waiting
<1> QED  BY <1>1, <1>2, <1>3, <1>4

\* Where threads only let go of the lock and no proposal begins to await a
\* decision, the lock goes on protecting its scope.
LEMMA LockIsLeft ==
    ASSUME FlowInv,
           \A w \in Worker : thread'[w] = thread[w] \/ ~Holds(thread'[w]),
           \A w \in Worker : zombie'[w] = zombie[w] \/ ~Holds(zombie'[w]),
           \A e \in Event : Undecided(e)' => Undecided(e),
           \A e \in Event : proposal'[e] = "none" => proposal[e] = "none"
    PROVE  OneHolder' /\ FreeStaysFree'
<1>1. OneHolder'
  BY DEF FlowInv, OneHolder
<1>2. ASSUME NEW x \in Thread \union {Idle}, FreeIsFree(x)
      PROVE  Holds(x) /\ x.at = "free" /\ proposal'[x.event] = "none" =>
                 \A e \in Event : ScopeOf[e] = ScopeOf[x.event] => ~Undecided(e)'
  <2>1. Holds(x) => x.event \in Event
    BY DEF Holds, Thread
  <2> QED  BY <1>2, <2>1 DEF FreeIsFree
<1>3. ASSUME NEW w \in Worker
      PROVE  FreeIsFree(thread[w])' /\ FreeIsFree(zombie[w])'
  <2>1. FreeIsFree(thread[w])'
    <3>1. CASE thread'[w] = thread[w]
      BY <1>2, <3>1 DEF FlowInv, FlowTypeOK, FreeStaysFree, FreeIsFree, Holds
    <3>2. CASE ~Holds(thread'[w])
      BY <3>2 DEF FreeIsFree, Holds
    <3> QED  BY <3>1, <3>2
  <2>2. FreeIsFree(zombie[w])'
    <3>1. CASE zombie'[w] = zombie[w]
      BY <1>2, <3>1 DEF FlowInv, FlowTypeOK, FreeStaysFree, FreeIsFree, Holds
    <3>2. CASE ~Holds(zombie'[w])
      BY <3>2 DEF FreeIsFree, Holds
    <3> QED  BY <3>1, <3>2
  <2> QED  BY <2>1, <2>2
<1> QED  BY <1>1, <1>3 DEF FreeStaysFree

\* A claim starts a thread on a job that waited.
LEMMA StartPreserves ==
    ASSUME Queue!QueueInv, Delivery!DeliveryInv, FlowInv,
           NEW w \in Worker, NEW e \in Event, StartJob(w, e)
    PROVE  FlowInv'
<1> DEFINE x == [event |-> e, at |-> "running"]
<1>1. /\ status[e] \in Waiting /\ lease[w] = Idle
      /\ status' = [status EXCEPT ![e] = "processing"]
      /\ lease' = [lease EXCEPT ![w] = [event |-> e, attempt |-> attempts[e] + 1]]
      /\ thread' = [thread EXCEPT ![w] = x]
      /\ UNCHANGED <<proposal, provider, overdue, decider, simulated, zombie, review, delivery>>
  BY DEF StartJob, Claim, Claimable, TakeJob, Waiting, outboxVars
<1>2. x \in Thread /\ x # Idle /\ x.event = e /\ x.at = "running"
  BY NothingAssumption DEF Thread, NothingAssumption
<1>3. /\ status \in [Event -> Status] /\ lease \in [Worker -> Lease \union {Idle}]
      /\ [event |-> e, attempt |-> attempts[e] + 1] # Idle
  <2>1. attempts[e] + 1 \in 1..MaxAttempts
    BY QueueFacts, AttemptsAssumption DEF StartJob, Claim, JobTypeOK
  <2> QED  BY <2>1, QueueFacts, IdleAssumption DEF JobTypeOK
<1> HIDE DEF x
<1>4. FlowTypeOK'
  BY <1>1, <1>2 DEF FlowInv, FlowTypeOK
<1>5. ThreadsHaveLeases'
  BY <1>1, <1>2, <1>3 DEF FlowInv, FlowTypeOK, ThreadsHaveLeases
<1>6. /\ \A f \in Event : RowsAgree(f)'
      /\ \A u \in User : ReviewIsCurrent(u)'
      /\ OneUndecidedProposal'
      /\ \A f \in Event : status[f] # "none" => status'[f] # "none"
  BY <1>1, <1>3, RoutingKeepsRows DEF OfRouting, Waiting
<1>7. ThreadsAreTrue'
  <2>1. \A v \in Worker : zombie[v] # Idle => zombie[v].event \in Event
    BY DEF FlowInv, FlowTypeOK, Thread
  <2> QED  BY <1>1, <1>2, <1>6, <2>1 DEF FlowInv, FlowTypeOK, ThreadsAreTrue
<1>8. OneHolder' /\ FreeStaysFree'
  <2>1. ~Holds(x)
    BY <1>2 DEF Holds, Holding
  <2>2. \A v \in Worker : thread'[v] = thread[v] \/ thread'[v] = x
    BY <1>1 DEF FlowInv, FlowTypeOK
  <2> QED  BY <1>1, <2>1, <2>2, LockIsLeft DEF Undecided
<1> QED  BY <1>4, <1>5, <1>6, <1>7, <1>8 DEF FlowInv

\* An arrival, the exhaustion of a job and the passing of time leave the threads
\* alone.
LEMMA QueueAlonePreserves ==
    ASSUME Queue!QueueInv, Delivery!DeliveryInv, FlowInv,
           \/ \E w \in Worker, e \in Event : DropJob(w, e)
           \/ \E e \in Event : Receive(e)
           \/ QueueTime
    PROVE  FlowInv'
<1>1. UNCHANGED <<proposal, provider, overdue, decider, simulated, thread, zombie, review,
                  delivery, lease>>
  BY DEF DropJob, Exhaust, Receive, Arrive, QueueTime, TimeStep, LeaseExpires, BecomesDue,
         flowVars, outboxVars
<1>2. \A e \in Event :
          \/ status'[e] = status[e]
          \/ /\ status[e] \in {"none"} \union Waiting
             /\ status'[e] \in {"failed", "pending"}
  <2>1. status \in [Event -> Status]
    BY QueueFacts DEF JobTypeOK
  <2> QED  BY <2>1 DEF DropJob, Exhaust, Claimable, Receive, Arrive, QueueTime, TimeStep,
                       LeaseExpires, BecomesDue, Waiting
<1>3. /\ \A e \in Event : RowsAgree(e)'
      /\ \A u \in User : ReviewIsCurrent(u)'
      /\ OneUndecidedProposal'
      /\ \A e \in Event : status[e] # "none" => status'[e] # "none"
  BY <1>1, <1>2, RoutingKeepsRows DEF OfRouting, Waiting
<1>4. FlowTypeOK' /\ ThreadsHaveLeases'
  BY <1>1 DEF FlowInv, FlowTypeOK, ThreadsHaveLeases
<1>5. ThreadsAreTrue'
  <2>1. \A v \in Worker : zombie[v] # Idle => zombie[v].event \in Event
    BY DEF FlowInv, FlowTypeOK, Thread
  <2> QED  BY <1>1, <1>3, <2>1 DEF FlowInv, ThreadsAreTrue
<1>6. OneHolder' /\ FreeStaysFree'
  BY <1>1, LockIsLeft DEF Undecided
<1> QED  BY <1>3, <1>4, <1>5, <1>6 DEF FlowInv

\* The end of a job: its lease goes with its thread, and it waits for a decision
\* only if execute has left a proposal.
LEMMA LeaseEnds ==
    ASSUME Queue!QueueInv, FlowInv, NEW w \in Worker,
           \/ \E o \in Outcome :
                 /\ Finish(w, o)
                 /\ o = "awaiting_approval" => thread[w].at = "awaiting_approval"
           \/ FinishTooLate(w)
           \/ Abandon(w)
    PROVE  /\ lease[w] # Idle /\ lease' = [lease EXCEPT ![w] = Idle]
           /\ \A e \in Event :
                 \/ status'[e] = status[e]
                 \/ /\ status[e] \in Waiting
                    /\ status'[e] \in OfRouting
                    /\ status'[e] = "awaiting_approval" => proposal[e] # "none"
<1>1. lease[w] # Idle /\ lease' = [lease EXCEPT ![w] = Idle]
  BY DEF Finish, FinishTooLate, Abandon
<1>2. CASE UNCHANGED status
  BY <1>1, <1>2
<1>3. ASSUME NEW o \in Outcome, Finish(w, o),
             o = "awaiting_approval" => thread[w].at = "awaiting_approval",
             NEW e \in Event, status'[e] # status[e]
      PROVE  /\ status[e] \in Waiting
             /\ status'[e] \in OfRouting
             /\ status'[e] = "awaiting_approval" => proposal[e] # "none"
  <2>1. status \in [Event -> Status] /\ lease[w] \in Lease
    BY <1>1, QueueFacts DEF JobTypeOK
  <2> DEFINE a == lease[w].attempt
  <2>2. /\ e = lease[w].event /\ status[e] = "processing"
        /\ status'[e] = StatusAfter(o, a)
    BY <1>3, <2>1 DEF Finish, HoldsLease
  <2>3. StatusAfter(o, a) \in OfRouting /\ (StatusAfter(o, a) = "awaiting_approval" => o = "awaiting_approval")
    BY DEF StatusAfter, Outcome, OfRouting, Waiting
  <2>4. thread[w] # Idle /\ thread[w].event = e
    BY <1>1, <2>2 DEF FlowInv, ThreadsHaveLeases
  <2>5. thread[w].at = "awaiting_approval" => proposal[e] # "none"
    BY <2>4 DEF FlowInv, ThreadsAreTrue
  <2> QED  BY <1>3, <2>2, <2>3, <2>5 DEF Waiting
<1> QED  BY <1>1, <1>2, <1>3 DEF FinishTooLate, Abandon

\* The result of execute is stored, its answer comes too late, or the process
\* dies; a timeout leaves the thread behind, with the lock it holds.
LEMMA EndPreserves ==
    ASSUME Queue!QueueInv, Delivery!DeliveryInv, FlowInv, NEW w \in Worker, EndJob(w)
    PROVE  FlowInv'
<1>1. /\ thread' = [thread EXCEPT ![w] = Idle]
      /\ \/ zombie' = zombie
         \/ /\ zombie[w] = Idle /\ zombie' = [zombie EXCEPT ![w] = thread[w]]
            /\ thread[w].at \notin Result
      /\ UNCHANGED <<proposal, provider, overdue, decider, simulated, review, delivery>>
  BY DEF EndJob, SaveJob, TimeOut, Crash, outboxVars
<1>2. /\ lease[w] # Idle /\ lease' = [lease EXCEPT ![w] = Idle]
      /\ \A e \in Event :
             \/ status'[e] = status[e]
             \/ /\ status[e] \in Waiting
                /\ status'[e] \in OfRouting
                /\ status'[e] = "awaiting_approval" => proposal[e] # "none"
  <2>1. \/ \E o \in Outcome :
              /\ Finish(w, o)
              /\ o = "awaiting_approval" => thread[w].at = "awaiting_approval"
        \/ FinishTooLate(w)
        \/ Abandon(w)
    <3>1. "processor_timeout" \in Outcome
      BY DEF Outcome
    <3> QED  BY <3>1 DEF EndJob, SaveJob, Answers, TimeOut, Crash
  <2> QED  BY <2>1, LeaseEnds
<1>3. /\ \A e \in Event : RowsAgree(e)'
      /\ \A u \in User : ReviewIsCurrent(u)'
      /\ OneUndecidedProposal'
      /\ \A e \in Event : status[e] # "none" => status'[e] # "none"
  BY <1>1, <1>2, RoutingKeepsRows
<1>4. FlowTypeOK'
  BY <1>1 DEF FlowInv, FlowTypeOK
<1>5. ThreadsHaveLeases'
  BY <1>1, <1>2, QueueFacts DEF FlowInv, FlowTypeOK, ThreadsHaveLeases, JobTypeOK
<1>6. thread[w] # Idle /\ thread[w].event \in Event /\ status[thread[w].event] # "none"
  BY <1>2, QueueFacts DEF FlowInv, ThreadsHaveLeases
<1>7. ThreadsAreTrue'
  <2>1. \A v \in Worker : zombie[v] # Idle => zombie[v].event \in Event
    BY DEF FlowInv, FlowTypeOK, Thread
  <2>2. ASSUME NEW v \in Worker, zombie'[v] # Idle
        PROVE  zombie'[v].at \notin Result /\ status'[zombie'[v].event] # "none"
    <3>1. \/ zombie'[v] = zombie[v]
          \/ v = w /\ zombie'[v] = thread[w] /\ thread[w].at \notin Result
      BY <1>1 DEF FlowInv, FlowTypeOK
    <3> QED  BY <1>3, <1>6, <2>1, <2>2, <3>1 DEF FlowInv, ThreadsAreTrue
  <2>3. ASSUME NEW v \in Worker, thread'[v] # Idle
        PROVE  thread'[v].at = "awaiting_approval" => proposal'[thread'[v].event] # "none"
    BY <1>1, <2>3 DEF FlowInv, FlowTypeOK, ThreadsAreTrue
  <2> QED  BY <2>2, <2>3 DEF ThreadsAreTrue
<1>8. OneHolder' /\ FreeStaysFree'
  <2>1. CASE zombie' = zombie
    <3>1. \A v \in Worker : thread'[v] = thread[v] \/ ~Holds(thread'[v])
      BY <1>1 DEF FlowInv, FlowTypeOK, Holds
    <3> QED  BY <1>1, <2>1, <3>1, LockIsLeft DEF Undecided
  <2>2. CASE zombie[w] = Idle /\ zombie' = [zombie EXCEPT ![w] = thread[w]]
    <3>1. \A v \in Worker : zombie'[v] = IF v = w THEN thread[w] ELSE zombie[v]
      BY <2>2 DEF FlowInv, FlowTypeOK
    <3>2. \A v \in Worker : thread'[v] = IF v = w THEN Idle ELSE thread[v]
      BY <1>1 DEF FlowInv, FlowTypeOK
    <3>3. OneHolder'
      BY <3>1, <3>2 DEF FlowInv, OneHolder, Holds
    <3>4. FreeStaysFree'
      BY <1>1, <3>1, <3>2 DEF FlowInv, FreeStaysFree, FreeIsFree, Holds, Undecided
    <3> QED  BY <3>3, <3>4
  <2> QED  BY <1>1, <2>1, <2>2
<1> QED  BY <1>3, <1>4, <1>5, <1>7, <1>8 DEF FlowInv

-----------------------------------------------------------------------------
\* Who takes the lock of a scope finds nobody else holding it, and what the query
\* tells is true.
LEMMA LockTaken ==
    ASSUME FlowInv, NEW x \in Thread \union {Idle}, LockScope(x)
    PROVE  /\ AfterLock(x) \in Thread /\ AfterLock(x) # Idle
           /\ AfterLock(x).event = x.event /\ x.event \in Event
           /\ Holds(AfterLock(x)) /\ FreeIsFree(AfterLock(x))
           /\ \A w \in Worker :
                 /\ Holds(thread[w]) => ScopeOf[thread[w].event] # ScopeOf[x.event]
                 /\ Holds(zombie[w]) => ScopeOf[zombie[w].event] # ScopeOf[x.event]
<1> DEFINE at == IF ScopeIsOpen(x.event) /\ proposal[x.event] = "none"
                 THEN "blocked" ELSE "free"
           y == AfterLock(x)
<1>1. x \in Thread /\ x.event \in Event
  BY DEF LockScope, Thread
<1>2. at \in Holding
  BY DEF Holding
<1>3. y = [x EXCEPT !.at = at]
  BY DEF AfterLock
<1> HIDE DEF at, y
<1>4. y \in Thread /\ y.event = x.event /\ y.at = at
  BY <1>1, <1>2, <1>3 DEF Thread
<1>5. y # Idle
  BY <1>4, NothingAssumption DEF NothingAssumption
<1>6. FreeIsFree(y)
  <2> SUFFICES ASSUME y.at = "free", proposal[x.event] = "none",
                      NEW e \in Event, ScopeOf[e] = ScopeOf[x.event]
               PROVE  ~Undecided(e)
    BY <1>4 DEF FreeIsFree
  <2>1. ~ScopeIsOpen(x.event)
    BY <1>4 DEF at
  <2> QED  BY <1>1, <2>1 DEF ScopeIsOpen, Open, Undecided
<1>7. \A w \in Worker :
          /\ Holds(thread[w]) => ScopeOf[thread[w].event] # ScopeOf[x.event]
          /\ Holds(zombie[w]) => ScopeOf[zombie[w].event] # ScopeOf[x.event]
  BY DEF LockScope, ScopeLocked, HoldsScope, Holds
<1> QED  BY <1>1, <1>2, <1>4, <1>5, <1>6, <1>7 DEF y, Holds

\* A step of execute or of an abandoned thread that inserts nothing: the rows
\* and the reviews stay as they are.
LEMMA ThreadAloneKeepsRows ==
    ASSUME Delivery!DeliveryInv, FlowInv,
           UNCHANGED <<proposal, provider, overdue, decider, simulated, review, delivery, status>>
    PROVE  /\ \A e \in Event : RowsAgree(e)'
           /\ \A u \in User : ReviewIsCurrent(u)'
           /\ OneUndecidedProposal'
  BY RoutingKeepsRows

LEMMA ExecuteLockPreserves ==
    ASSUME Queue!QueueInv, Delivery!DeliveryInv, FlowInv,
           NEW w \in Worker, ExecuteLock(w)
    PROVE  FlowInv'
<1>1. /\ thread' = [thread EXCEPT ![w] = AfterLock(thread[w])] /\ thread[w] # Idle
      /\ UNCHANGED <<proposal, provider, overdue, decider, simulated, zombie, review,
                     delivery, status, lease>>
  BY DEF ExecuteLock, LockScope, jobVars, outboxVars
<1>2. thread[w] \in Thread \union {Idle} /\ LockScope(thread[w])
  BY DEF ExecuteLock, FlowInv, FlowTypeOK
<1>3. PICK y \in Thread :
          /\ y = AfterLock(thread[w]) /\ y # Idle
          /\ y.event = thread[w].event /\ Holds(y) /\ FreeIsFree(y)
  BY <1>2, LockTaken
<1>4. \A v \in Worker : thread'[v] = IF v = w THEN y ELSE thread[v]
  BY <1>1, <1>3 DEF FlowInv, FlowTypeOK
<1>5. FlowTypeOK'
  BY <1>1, <1>3 DEF FlowInv, FlowTypeOK
<1>6. ThreadsHaveLeases'
  BY <1>1, <1>3, <1>4 DEF FlowInv, ThreadsHaveLeases
<1>7. ThreadsAreTrue'
  BY <1>1, <1>3, <1>4 DEF FlowInv, ThreadsAreTrue, Holds, Holding
<1>8. /\ \A e \in Event : RowsAgree(e)'
      /\ \A u \in User : ReviewIsCurrent(u)'
      /\ OneUndecidedProposal'
  BY <1>1, ThreadAloneKeepsRows
<1>9. OneHolder'
  BY <1>1, <1>2, <1>3, <1>4, LockTaken DEF FlowInv, OneHolder, Holds
<1>10. FreeStaysFree'
  BY <1>1, <1>3, <1>4 DEF FlowInv, FreeStaysFree, FreeIsFree, Holds, Undecided
<1> QED  BY <1>5, <1>6, <1>7, <1>8, <1>9, <1>10 DEF FlowInv

LEMMA ZombieLockPreserves ==
    ASSUME Queue!QueueInv, Delivery!DeliveryInv, FlowInv,
           NEW w \in Worker, ZombieLock(w)
    PROVE  FlowInv'
<1>1. /\ zombie' = [zombie EXCEPT ![w] = AfterLock(zombie[w])] /\ zombie[w] # Idle
      /\ UNCHANGED <<proposal, provider, overdue, decider, simulated, thread, review,
                     delivery, status, lease>>
  BY DEF ZombieLock, LockScope, jobVars, outboxVars
<1>2. zombie[w] \in Thread \union {Idle} /\ LockScope(zombie[w])
  BY DEF ZombieLock, FlowInv, FlowTypeOK
<1>3. PICK y \in Thread :
          /\ y = AfterLock(zombie[w]) /\ y # Idle
          /\ y.event = zombie[w].event /\ Holds(y) /\ FreeIsFree(y)
  BY <1>2, LockTaken
<1>4. \A v \in Worker : zombie'[v] = IF v = w THEN y ELSE zombie[v]
  BY <1>1, <1>3 DEF FlowInv, FlowTypeOK
<1>5. FlowTypeOK'
  BY <1>1, <1>3 DEF FlowInv, FlowTypeOK
<1>6. ThreadsHaveLeases'
  BY <1>1 DEF FlowInv, ThreadsHaveLeases
<1>7. ThreadsAreTrue'
  BY <1>1, <1>3, <1>4 DEF FlowInv, ThreadsAreTrue, Holds, Holding, Result
<1>8. /\ \A e \in Event : RowsAgree(e)'
      /\ \A u \in User : ReviewIsCurrent(u)'
      /\ OneUndecidedProposal'
  BY <1>1, ThreadAloneKeepsRows
<1>9. OneHolder'
  BY <1>1, <1>2, <1>3, <1>4, LockTaken DEF FlowInv, OneHolder, Holds
<1>10. FreeStaysFree'
  BY <1>1, <1>3, <1>4 DEF FlowInv, FreeStaysFree, FreeIsFree, Holds, Undecided
<1> QED  BY <1>5, <1>6, <1>7, <1>8, <1>9, <1>10 DEF FlowInv

\* A request that is no ticket, and an abandoned thread that ends.
LEMMA ThreadEndsPreserves ==
    ASSUME Queue!QueueInv, Delivery!DeliveryInv, FlowInv,
           NEW w \in Worker, ExecuteElse(w) \/ ZombieEnds(w)
    PROVE  FlowInv'
<1>1. UNCHANGED <<proposal, provider, overdue, decider, simulated, review,
                  delivery, status, lease>>
  BY DEF ExecuteElse, ZombieEnds, jobVars, outboxVars
<1>2. /\ \A e \in Event : RowsAgree(e)'
      /\ \A u \in User : ReviewIsCurrent(u)'
      /\ OneUndecidedProposal'
  BY <1>1, ThreadAloneKeepsRows
<1>3. CASE ExecuteElse(w)
  <2>1. PICK y : y = [thread[w] EXCEPT !.at = "completed"]
    OBVIOUS
  <2>2. /\ y \in Thread /\ y # Idle /\ y.event = thread[w].event /\ y.at = "completed"
        /\ thread[w] # Idle
    BY <1>3, <2>1, NothingAssumption
    DEF ExecuteElse, FlowInv, FlowTypeOK, Thread, Result, NothingAssumption
  <2>3. zombie' = zombie /\ thread' = [thread EXCEPT ![w] = y]
    BY <1>3, <2>1 DEF ExecuteElse
  <2>4. \A v \in Worker : thread'[v] = IF v = w THEN y ELSE thread[v]
    BY <2>3 DEF FlowInv, FlowTypeOK
  <2>5. FlowTypeOK'
    BY <1>1, <2>2, <2>3 DEF FlowInv, FlowTypeOK
  <2>6. ThreadsHaveLeases' /\ ThreadsAreTrue'
    BY <1>1, <2>2, <2>3, <2>4 DEF FlowInv, ThreadsHaveLeases, ThreadsAreTrue
  <2>7. OneHolder' /\ FreeStaysFree'
    BY <1>1, <2>2, <2>3, <2>4, LockIsLeft DEF Undecided, Holds, Holding
  <2> QED  BY <1>2, <2>5, <2>6, <2>7 DEF FlowInv
<1>4. CASE ZombieEnds(w)
  <2>1. thread' = thread /\ zombie' = [zombie EXCEPT ![w] = Idle]
    BY <1>4 DEF ZombieEnds
  <2>2. \A v \in Worker : zombie'[v] = IF v = w THEN Idle ELSE zombie[v]
    BY <2>1 DEF FlowInv, FlowTypeOK
  <2>3. FlowTypeOK' /\ ThreadsHaveLeases' /\ ThreadsAreTrue'
    BY <1>1, <2>1, <2>2 DEF FlowInv, FlowTypeOK, ThreadsHaveLeases, ThreadsAreTrue
  <2>4. OneHolder' /\ FreeStaysFree'
    BY <1>1, <2>1, <2>2, LockIsLeft DEF Undecided, Holds
  <2> QED  BY <1>2, <2>3, <2>4 DEF FlowInv
<1> QED  BY <1>3, <1>4

-----------------------------------------------------------------------------
\* After the insertion of x: the variables have their types, no proposal is
\* lost, the rows and the reviews under way fit, and the holders of other scopes
\* are still right.
Inserted(x) ==
    /\ proposal' \in [Event -> {"none", "pending", "approved", "rejected", "expired"}]
    /\ provider' \in [Event -> Backends \union {"none"}]
    /\ overdue' \in [Event -> BOOLEAN]
    /\ \A e \in Event : proposal[e] # "none" => proposal'[e] = proposal[e]
    /\ x.at = "free" => proposal'[x.event] # "none"
    /\ \A e \in Event : RowsAgree(e)'
    /\ \A u \in User : ReviewIsCurrent(u)'
    /\ OneUndecidedProposal'
    /\ \A y \in Thread \union {Idle} :
          /\ FreeIsFree(y)
          /\ Holds(y) => ScopeOf[y.event] # ScopeOf[x.event]
          => (Holds(y) /\ y.at = "free" /\ proposal'[y.event] = "none" =>
                 \A e \in Event : ScopeOf[e] = ScopeOf[y.event] => ~Undecided(e)')

\* The proposal that the holder of a free scope inserts is the only undecided one
\* of its scope; the rows of other events, the reviews under way and the answers
\* of the holders of other scopes stay true.
LEMMA InsertKeepsRows ==
    ASSUME FlowInv, NEW x \in Thread, Holds(x), FreeIsFree(x), status[x.event] # "none",
           InsertProposal(x),
           UNCHANGED <<decider, simulated, review, delivery, status>>
    PROVE  Inserted(x)
<1> USE DEF Inserted
<1> DEFINE e == x.event
<1>1. e \in Event
  BY DEF Thread
<1>2. CASE ~(x.at = "free" /\ proposal[e] = "none")
  <2>1. UNCHANGED <<proposal, provider, overdue>>
    BY <1>2 DEF InsertProposal
  <2>2. /\ \A f \in Event : RowsAgree(f)'
        /\ \A u \in User : ReviewIsCurrent(u)'
        /\ OneUndecidedProposal'
    BY <2>1 DEF FlowInv, RowsAgree, ReviewIsCurrent, MayDecide, OneUndecidedProposal
  <2> QED  BY <1>2, <2>1, <2>2 DEF FlowInv, FlowTypeOK, FreeIsFree, Undecided
<1>3. CASE x.at = "free" /\ proposal[e] = "none"
  <2>1. PICK b \in Backends :
            /\ proposal' = [proposal EXCEPT ![e] = "pending"]
            /\ provider' = [provider EXCEPT ![e] = b]
            /\ overdue' = [overdue EXCEPT ![e] = FALSE]
    BY <1>3 DEF InsertProposal
  <2>2. \A f \in Event : ScopeOf[f] = ScopeOf[e] => ~Undecided(f)
    BY <1>3 DEF FreeIsFree
  <2> HIDE DEF e
  <2>3. /\ proposal' \in [Event -> {"none", "pending", "approved", "rejected", "expired"}]
        /\ provider' \in [Event -> Backends \union {"none"}]
        /\ overdue' \in [Event -> BOOLEAN]
    BY <2>1 DEF FlowInv, FlowTypeOK
  <2>4. \A f \in Event :
            /\ proposal'[f] = IF f = e THEN "pending" ELSE proposal[f]
            /\ provider'[f] = IF f = e THEN b ELSE provider[f]
            /\ overdue'[f] = IF f = e THEN FALSE ELSE overdue[f]
    BY <2>1 DEF FlowInv, FlowTypeOK
  <2>5. ASSUME NEW f \in Event
        PROVE  RowsAgree(f)'
    <3>1. CASE f = e
      BY <1>3, <2>4, <3>1 DEF FlowInv, RowsAgree, e
    <3>2. CASE f # e
      BY <2>4, <3>2 DEF FlowInv, RowsAgree
    <3> QED  BY <3>1, <3>2
  <2>6. ASSUME NEW u \in User
        PROVE  ReviewIsCurrent(u)'
    <3>1. review[u] # Idle => review[u].event \in Event
      BY DEF FlowInv, FlowTypeOK, Review
    <3> QED  BY <1>3, <2>4, <3>1 DEF FlowInv, ReviewIsCurrent, MayDecide, e
  <2>7. OneUndecidedProposal'
    BY <1>1, <2>2, <2>4 DEF FlowInv, OneUndecidedProposal, Undecided, e
  <2>8. ASSUME NEW y \in Thread \union {Idle}, FreeIsFree(y), Holds(y),
               ScopeOf[y.event] # ScopeOf[e], y.at = "free", proposal'[y.event] = "none",
               NEW f \in Event, ScopeOf[f] = ScopeOf[y.event]
        PROVE  ~Undecided(f)'
    <3>1. f # e /\ y.event \in Event
      BY <2>8 DEF Holds, Thread
    <3>2. ~Undecided(f)
      BY <2>4, <2>8, <3>1 DEF FreeIsFree
    <3> QED  BY <2>4, <3>1, <3>2 DEF Undecided
  <2>9. \A y \in Thread \union {Idle} :
            /\ FreeIsFree(y)
            /\ Holds(y) => ScopeOf[y.event] # ScopeOf[e]
            => (Holds(y) /\ y.at = "free" /\ proposal'[y.event] = "none" =>
                   \A f \in Event : ScopeOf[f] = ScopeOf[y.event] => ~Undecided(f)')
    BY <2>8
  <2>10. /\ \A f \in Event : proposal[f] # "none" => proposal'[f] = proposal[f]
         /\ proposal'[e] # "none"
    BY <1>1, <1>3, <2>4 DEF e
  <2> QED  BY <2>3, <2>5, <2>6, <2>7, <2>9, <2>10 DEF e
<1> QED  BY <1>2, <1>3

LEMMA ExecuteCommitPreserves ==
    ASSUME Queue!QueueInv, Delivery!DeliveryInv, FlowInv,
           NEW w \in Worker, ExecuteCommit(w)
    PROVE  FlowInv'
<1>1. /\ Holds(thread[w]) /\ InsertProposal(thread[w])
      /\ UNCHANGED <<decider, simulated, zombie, review, delivery, status, lease>>
  BY DEF ExecuteCommit, Holds, jobVars, outboxVars
<1>2. PICK r \in ResultOf(thread[w]) : thread' = [thread EXCEPT ![w].at = r]
  BY DEF ExecuteCommit
<1>3. thread[w] \in Thread /\ FreeIsFree(thread[w])
  BY <1>1 DEF FlowInv, FlowTypeOK, FreeStaysFree, Holds
<1>4. thread[w].event \in Event /\ status[thread[w].event] # "none"
  BY <1>1, QueueFacts DEF FlowInv, ThreadsHaveLeases, Holds
<1>5. Inserted(thread[w])
  BY <1>1, <1>3, <1>4, InsertKeepsRows
<1> USE DEF Inserted
<1>6. PICK y : y = [thread[w] EXCEPT !.at = r]
  OBVIOUS
<1>7. /\ r \in Result /\ y \in Thread /\ y.event = thread[w].event /\ y.at = r
      /\ r = "awaiting_approval" => thread[w].at = "free"
  BY <1>1, <1>3, <1>6 DEF ResultOf, Result, Thread, Holds, Holding
<1>8. y # Idle /\ ~Holds(y)
  BY <1>7, NothingAssumption DEF NothingAssumption, Holds, Holding, Result
<1>9. thread' = [thread EXCEPT ![w] = y]
  BY <1>2, <1>6
<1>10. \A v \in Worker : thread'[v] = IF v = w THEN y ELSE thread[v]
  BY <1>9 DEF FlowInv, FlowTypeOK
<1>11. FlowTypeOK'
  BY <1>1, <1>5, <1>7, <1>9 DEF FlowInv, FlowTypeOK
<1>12. ThreadsHaveLeases'
  BY <1>1, <1>7, <1>8, <1>10 DEF FlowInv, ThreadsHaveLeases, Holds
<1>13. ThreadsAreTrue'
  <2>1. \A v \in Worker : thread[v] # Idle => thread[v].event \in Event
    BY DEF FlowInv, FlowTypeOK, Thread
  <2> QED  BY <1>1, <1>5, <1>7, <1>10, <2>1 DEF FlowInv, ThreadsAreTrue
<1>14. OneHolder'
  BY <1>1, <1>8, <1>10 DEF FlowInv, OneHolder, Holds
<1>15. FreeStaysFree'
  <2>1. ASSUME NEW v \in Worker
        PROVE  FreeIsFree(thread[v])' /\ FreeIsFree(zombie[v])'
    <3>1. /\ FreeIsFree(thread[v]) /\ FreeIsFree(zombie[v])
          /\ thread[v] \in Thread \union {Idle} /\ zombie[v] \in Thread \union {Idle}
      BY DEF FlowInv, FlowTypeOK, FreeStaysFree
    <3>2. Holds(zombie[v]) => ScopeOf[zombie[v].event] # ScopeOf[thread[w].event]
      BY <1>1 DEF FlowInv, OneHolder
    <3>3. FreeIsFree(zombie[v])'
      BY <1>1, <1>5, <3>1, <3>2 DEF FreeIsFree, Holds
    <3>4. CASE v = w
      BY <1>8, <1>10, <3>3, <3>4 DEF FreeIsFree, Holds
    <3>5. CASE v # w
      <4>1. Holds(thread[v]) => ScopeOf[thread[v].event] # ScopeOf[thread[w].event]
        BY <1>1, <3>5 DEF FlowInv, OneHolder
      <4>2. FreeIsFree(thread[v])'
        BY <1>5, <1>10, <3>1, <3>5, <4>1 DEF FreeIsFree, Holds
      <4> QED  BY <3>3, <4>2
    <3> QED  BY <3>4, <3>5
  <2> QED  BY <2>1 DEF FreeStaysFree
<1> QED  BY <1>5, <1>11, <1>12, <1>13, <1>14, <1>15 DEF FlowInv

LEMMA ZombieCommitPreserves ==
    ASSUME Queue!QueueInv, Delivery!DeliveryInv, FlowInv,
           NEW w \in Worker, ZombieCommit(w)
    PROVE  FlowInv'
<1>1. /\ Holds(zombie[w]) /\ InsertProposal(zombie[w])
      /\ zombie' = [zombie EXCEPT ![w] = Idle]
      /\ UNCHANGED <<decider, simulated, thread, review, delivery, status, lease>>
  BY DEF ZombieCommit, Holds, jobVars, outboxVars
<1>2. zombie[w] \in Thread /\ FreeIsFree(zombie[w])
  BY <1>1 DEF FlowInv, FlowTypeOK, FreeStaysFree, Holds
<1>3. status[zombie[w].event] # "none"
  BY <1>1 DEF FlowInv, ThreadsAreTrue, Holds
<1>4. Inserted(zombie[w])
  BY <1>1, <1>2, <1>3, InsertKeepsRows
<1> USE DEF Inserted
<1>5. \A v \in Worker : zombie'[v] = IF v = w THEN Idle ELSE zombie[v]
  BY <1>1 DEF FlowInv, FlowTypeOK
<1>6. FlowTypeOK'
  BY <1>1, <1>4 DEF FlowInv, FlowTypeOK
<1>7. ThreadsHaveLeases'
  BY <1>1 DEF FlowInv, ThreadsHaveLeases
<1>8. ThreadsAreTrue'
  <2>1. \A v \in Worker : thread[v] # Idle => thread[v].event \in Event
    BY DEF FlowInv, FlowTypeOK, Thread
  <2> QED  BY <1>1, <1>4, <1>5, <2>1 DEF FlowInv, ThreadsAreTrue
<1>9. OneHolder'
  BY <1>1, <1>5 DEF FlowInv, OneHolder, Holds
<1>10. FreeStaysFree'
  <2>1. ASSUME NEW v \in Worker
        PROVE  FreeIsFree(thread[v])' /\ FreeIsFree(zombie[v])'
    <3>1. /\ FreeIsFree(thread[v]) /\ FreeIsFree(zombie[v])
          /\ thread[v] \in Thread \union {Idle} /\ zombie[v] \in Thread \union {Idle}
      BY DEF FlowInv, FlowTypeOK, FreeStaysFree
    <3>2. Holds(thread[v]) => ScopeOf[thread[v].event] # ScopeOf[zombie[w].event]
      BY <1>1 DEF FlowInv, OneHolder
    <3>3. FreeIsFree(thread[v])'
      BY <1>1, <1>4, <3>1, <3>2 DEF FreeIsFree, Holds
    <3>4. CASE v = w
      BY <1>5, <3>3, <3>4 DEF FreeIsFree, Holds
    <3>5. CASE v # w
      <4>1. Holds(zombie[v]) => ScopeOf[zombie[v].event] # ScopeOf[zombie[w].event]
        BY <1>1, <3>5 DEF FlowInv, OneHolder
      <4>2. FreeIsFree(zombie[v])'
        BY <1>4, <1>5, <3>1, <3>5, <4>1 DEF FreeIsFree, Holds
      <4> QED  BY <3>3, <4>2
    <3> QED  BY <3>4, <3>5
  <2> QED  BY <2>1 DEF FreeStaysFree
<1> QED  BY <1>4, <1>6, <1>7, <1>8, <1>9, <1>10 DEF FlowInv

-----------------------------------------------------------------------------
\* A review takes the rows of an event that nobody else reviews, or lets them go.
LEMMA ReviewPreserves ==
    ASSUME Queue!QueueInv, Delivery!DeliveryInv, FlowInv, NEW u \in User,
           \/ \E e \in Event, d \in {"none", "approved", "rejected"} : ReviewRead(u, e, d)
           \/ ReviewRollback(u)
    PROVE  FlowInv'
<1>1. UNCHANGED <<proposal, provider, overdue, decider, simulated, thread, zombie,
                  delivery, status, lease>>
  BY DEF ReviewRead, ReviewRollback, jobVars, outboxVars
<1>2. /\ ThreadsHaveLeases' /\ ThreadsAreTrue' /\ OneHolder' /\ FreeStaysFree'
      /\ OneUndecidedProposal'
  BY <1>1 DEF FlowInv, ThreadsHaveLeases, ThreadsAreTrue, OneHolder, FreeStaysFree,
              FreeIsFree, Holds, Undecided, OneUndecidedProposal
<1>3. \A e \in Event : RowsAgree(e)'
  BY <1>1 DEF FlowInv, RowsAgree
<1>4. FlowTypeOK' /\ \A v \in User : ReviewIsCurrent(v)'
  <2>1. ASSUME NEW e \in Event, NEW d \in {"none", "approved", "rejected"}, ReviewRead(u, e, d)
        PROVE  FlowTypeOK' /\ \A v \in User : ReviewIsCurrent(v)'
    <3>1. PICK x : x = [event |-> e, verdict |-> IF overdue[e] THEN "expired" ELSE d]
      OBVIOUS
    <3>2. /\ x.event = e /\ x.verdict = IF overdue[e] THEN "expired" ELSE d
          /\ x \in Review /\ x # Idle
      BY <2>1, <3>1, NothingAssumption DEF ReviewRead, Review, NothingAssumption
    <3>3. review' = [review EXCEPT ![u] = x]
      BY <2>1, <3>1 DEF ReviewRead
    <3>4. \A v \in User : review'[v] = IF v = u THEN x ELSE review[v]
      BY <3>3 DEF FlowInv, FlowTypeOK
    <3>5. FlowTypeOK'
      BY <1>1, <3>2, <3>3 DEF FlowInv, FlowTypeOK
    <3>6. x.verdict # "expired" => MayDecide(u, e)
      BY <2>1, <3>2 DEF ReviewRead
    <3>7. /\ \A v \in User : review[v] # Idle => review[v].event # e
          /\ proposal[e] = "pending" /\ status[e] = "awaiting_approval" /\ review[u] = Idle
      BY <2>1 DEF ReviewRead
    <3>8. \A v \in User : ReviewIsCurrent(v)'
      BY <1>1, <3>2, <3>4, <3>6, <3>7 DEF FlowInv, ReviewIsCurrent, MayDecide
    <3> QED  BY <3>5, <3>8
  <2>2. CASE ReviewRollback(u)
    <3>1. review' = [review EXCEPT ![u] = Idle]
      BY <2>2 DEF ReviewRollback
    <3>2. \A v \in User : review'[v] = IF v = u THEN Idle ELSE review[v]
      BY <3>1 DEF FlowInv, FlowTypeOK
    <3>3. FlowTypeOK'
      BY <1>1, <3>1 DEF FlowInv, FlowTypeOK
    <3>4. \A v \in User : ReviewIsCurrent(v)'
      BY <1>1, <3>2 DEF FlowInv, ReviewIsCurrent, MayDecide
    <3> QED  BY <3>3, <3>4
  <2> QED  BY <2>1, <2>2
<1> QED  BY <1>2, <1>3, <1>4 DEF FlowInv

\* What the transaction of a review writes: its verdict v into the rows of the
\* event e, which were as it had read them.
Decides(u, e, v) ==
    /\ review[u] # Idle /\ review[u].event = e
    /\ proposal[e] = "pending" /\ delivery[e] = "none" /\ ~simulated[e]
    /\ provider[e] \in {"jira", "synthetic"}
    /\ v = "approved" => u \in Approver \ {RequesterOf[e]}
    /\ review' = [review EXCEPT ![u] = Idle]
    /\ proposal' = [proposal EXCEPT ![e] = v]
    /\ decider' = [decider EXCEPT ![e] = IF v = "expired" THEN Idle ELSE u]
    /\ \/ /\ v = "approved" /\ provider[e] = "jira"
          /\ delivery' = [delivery EXCEPT ![e] = "pending"]
          /\ status' = [status EXCEPT ![e] = "awaiting_delivery"]
          /\ simulated' = simulated
       \/ /\ ~(v = "approved" /\ provider[e] = "jira")
          /\ delivery' = delivery
          /\ status' = [status EXCEPT ![e] = "completed"]
          /\ simulated' = [simulated EXCEPT ![e] = v = "approved"]
    /\ UNCHANGED <<provider, overdue, thread, zombie, lease, issues>>

LEMMA CommitWrites ==
    ASSUME Queue!QueueInv, Delivery!DeliveryInv, FlowInv, NEW u \in User, ReviewCommit(u)
    PROVE  \E e \in Event, v \in {"approved", "rejected", "expired"} : Decides(u, e, v)
<1> DEFINE e == review[u].event
           v == review[u].verdict
<1>1. review[u] # Idle /\ review[u] \in Review
  BY DEF ReviewCommit, FlowInv, FlowTypeOK
<1>2. e \in Event /\ v \in {"approved", "rejected", "expired"}
  BY <1>1 DEF Review
<1>3. proposal[e] = "pending" /\ (v # "expired" => MayDecide(u, e))
  BY <1>1 DEF FlowInv, ReviewIsCurrent
<1>4. /\ delivery[e] = "none" /\ ~simulated[e]
      /\ provider[e] \in {"jira", "synthetic"}
  BY <1>2, <1>3, FlowAssumption DEF FlowInv, RowsAgree, FlowAssumption
<1>5. v = "approved" => u \in Approver \ {RequesterOf[e]}
  BY <1>3 DEF MayDecide
<1>6. /\ status' = [status EXCEPT ![e] = IF v = "approved" /\ provider[e] = "jira"
                                         THEN "awaiting_delivery" ELSE "completed"]
      /\ lease' = lease
  BY QueueFacts, CommitSettles DEF FlowInv
<1>7. /\ review' = [review EXCEPT ![u] = Idle]
      /\ proposal' = [proposal EXCEPT ![e] = v]
      /\ decider' = [decider EXCEPT ![e] = IF v = "expired" THEN Idle ELSE u]
      /\ UNCHANGED <<provider, overdue, thread, zombie>>
  BY DEF ReviewCommit
<1>8. CASE v = "approved" /\ provider[e] = "jira"
  <2>1. delivery' = [delivery EXCEPT ![e] = "pending"] /\ issues' = issues /\ simulated' = simulated
    BY <1>8 DEF ReviewCommit, Outbox!Enqueue
  <2> HIDE DEF e, v
  <2> QED  BY <1>1, <1>2, <1>3, <1>4, <1>5, <1>6, <1>7, <1>8, <2>1 DEF e, Decides
<1>9. CASE ~(v = "approved" /\ provider[e] = "jira")
  <2>1. /\ delivery' = delivery /\ issues' = issues
        /\ simulated' = [simulated EXCEPT ![e] = v = "approved"]
    BY <1>9 DEF ReviewCommit, outboxVars
  <2> HIDE DEF e, v
  <2> QED  BY <1>1, <1>2, <1>3, <1>4, <1>5, <1>6, <1>7, <1>9, <2>1 DEF e, Decides
<1> QED  BY <1>8, <1>9

\* A decision is taken of a pending proposal, by the one who reviews it.
LEMMA CommitPreserves ==
    ASSUME Queue!QueueInv, Delivery!DeliveryInv, FlowInv, NEW u \in User, ReviewCommit(u)
    PROVE  FlowInv'
<1>1. PICK e \in Event, v \in {"approved", "rejected", "expired"} : Decides(u, e, v)
  BY CommitWrites
<1> USE DEF Decides
<1>2. /\ status \in [Event -> Status]
      /\ delivery \in [Event -> Outbox!DeliveryStatus]
  BY QueueFacts, OutboxFacts DEF JobTypeOK
<1>3. \A f \in Event : proposal'[f] = IF f = e THEN v ELSE proposal[f]
  BY <1>1 DEF FlowInv, FlowTypeOK
<1>4. \A f \in Event \ {e} :
          /\ delivery'[f] = delivery[f] /\ status'[f] = status[f]
          /\ simulated'[f] = simulated[f] /\ decider'[f] = decider[f]
  BY <1>1, <1>2 DEF FlowInv, FlowTypeOK
<1>5. FlowTypeOK'
  <2>1. simulated' \in [Event -> BOOLEAN]
    BY <1>1 DEF FlowInv, FlowTypeOK
  <2>2. decider' \in [Event -> User \union {Idle}]
    BY <1>1 DEF FlowInv, FlowTypeOK
  <2> QED  BY <1>1, <2>1, <2>2 DEF FlowInv, FlowTypeOK
<1>6. ThreadsHaveLeases'
  BY <1>1 DEF FlowInv, ThreadsHaveLeases
<1>7. status'[e] # "none"
  BY <1>1, <1>2
<1>8. ThreadsAreTrue'
  <2>1. \A w \in Worker : /\ thread[w] # Idle => thread[w].event \in Event
                          /\ zombie[w] # Idle => zombie[w].event \in Event
    BY DEF FlowInv, FlowTypeOK, Thread
  <2> QED  BY <1>1, <1>3, <1>4, <1>7, <2>1 DEF FlowInv, ThreadsAreTrue
<1>9. ASSUME NEW f \in Event
      PROVE  RowsAgree(f)'
  <2>1. CASE f # e
    BY <1>1, <1>3, <1>4, <2>1 DEF FlowInv, RowsAgree
  <2>2. CASE f = e /\ v = "approved" /\ provider[e] = "jira"
    <3>1. /\ proposal'[e] = "approved" /\ delivery'[e] = "pending" /\ ~simulated'[e]
          /\ status'[e] = "awaiting_delivery" /\ decider'[e] = u /\ provider'[e] = "jira"
      BY <1>1, <1>2, <2>2 DEF FlowInv, FlowTypeOK
    <3>2. RowsAgree(e)
      BY DEF FlowInv
    <3> QED  BY <1>1, <2>2, <3>1, <3>2, JobStatusIs DEF RowsAgree
  <2>3. CASE f = e /\ ~(v = "approved" /\ provider[e] = "jira")
    <3>1. /\ proposal'[e] = v /\ delivery'[e] = "none" /\ status'[e] = "completed"
          /\ provider'[e] = provider[e] /\ provider[e] \in Backends
      BY <1>1, <1>2, <2>3 DEF FlowInv, FlowTypeOK, RowsAgree
    <3>2. simulated'[e] <=> v = "approved"
      BY <1>1, <2>3 DEF FlowInv, FlowTypeOK
    <3>3. v = "approved" => decider'[e] = u /\ u \in Approver \ {RequesterOf[e]}
      BY <1>1 DEF FlowInv, FlowTypeOK
    <3> QED  BY <1>1, <2>3, <3>1, <3>2, <3>3 DEF RowsAgree
  <2> QED  BY <2>1, <2>2, <2>3
<1>10. ASSUME NEW x \in User
       PROVE  ReviewIsCurrent(x)'
  <2>1. \A y \in User : review'[y] = IF y = u THEN Idle ELSE review[y]
    BY <1>1 DEF FlowInv, FlowTypeOK
  <2>2. review[x] # Idle /\ x # u => review[x].event \in Event \ {e}
    BY <1>1 DEF FlowInv, FlowTypeOK, Review, ReviewIsCurrent
  <2> QED  BY <1>3, <1>4, <2>1, <2>2 DEF FlowInv, ReviewIsCurrent, MayDecide
<1>11. OneHolder' /\ FreeStaysFree'
  BY <1>1, <1>3, LockIsLeft DEF Undecided
<1>12. OneUndecidedProposal'
  BY <1>1, <1>3 DEF FlowInv, OneUndecidedProposal
<1> QED  BY <1>5, <1>6, <1>8, <1>9, <1>10, <1>11, <1>12 DEF FlowInv

\* A proposal runs out of time.
LEMMA ExpiryPreserves ==
    ASSUME FlowInv, NEW e \in Event, ProposalExpires(e)
    PROVE  FlowInv'
<1>1. /\ overdue' = [overdue EXCEPT ![e] = TRUE]
      /\ UNCHANGED <<proposal, provider, decider, simulated, thread, zombie, review,
                     delivery, status, lease>>
  BY DEF ProposalExpires, jobVars, outboxVars
<1>2. \A f \in Event : overdue'[f] = (f = e \/ overdue[f])
  BY <1>1 DEF FlowInv, FlowTypeOK
<1>3. FlowTypeOK' /\ ThreadsHaveLeases' /\ ThreadsAreTrue'
  BY <1>1 DEF FlowInv, FlowTypeOK, ThreadsHaveLeases, ThreadsAreTrue
<1>4. (\A f \in Event : RowsAgree(f)') /\ (\A u \in User : ReviewIsCurrent(u)')
  <2>1. proposal[e] = "pending"
    BY DEF ProposalExpires
  <2> QED  BY <1>1, <1>2, <2>1 DEF FlowInv, RowsAgree, ReviewIsCurrent, MayDecide
<1>5. OneHolder' /\ FreeStaysFree'
  BY <1>1, <1>2, LockIsLeft DEF Undecided
<1>6. OneUndecidedProposal'
  BY <1>1, <1>2 DEF FlowInv, OneUndecidedProposal
<1> QED  BY <1>3, <1>4, <1>5, <1>6 DEF FlowInv

\* A result of the outbox moves an approved row and its job together.
LEMMA OutboxWorkPreserves ==
    ASSUME Queue!QueueInv, Delivery!DeliveryInv, FlowInv, OutboxWork, JobFollows
    PROVE  FlowInv'
<1>1. UNCHANGED <<proposal, provider, overdue, decider, simulated, thread, zombie, review, lease>>
  BY JobFollowsRow DEF JobFollows, flowVars, FlowInv
<1>2. /\ status \in [Event -> Status]
      /\ delivery \in [Event -> Outbox!DeliveryStatus]
  BY QueueFacts, OutboxFacts DEF JobTypeOK, Delivery!DeliveryInv, Delivery!DeliveryTypeOK,
     Delivery!DeliveryStatus, Outbox!DeliveryStatus
<1>3. \A f \in Event :
          \/ status'[f] = status[f] /\ delivery'[f] = delivery[f]
          \/ /\ proposal[f] = "approved" /\ provider[f] = "jira"
             /\ RowMoves(delivery[f], delivery'[f])
             /\ status'[f] = JobStatusOf[delivery'[f]]
  BY <1>2, JobFollowsRow DEF FlowInv
<1>4. ASSUME NEW f \in Event
      PROVE  RowsAgree(f)' /\ (status[f] # "none" => status'[f] # "none")
  <2>1. CASE status'[f] = status[f] /\ delivery'[f] = delivery[f]
    BY <1>1, <2>1 DEF FlowInv, RowsAgree
  <2>2. CASE /\ proposal[f] = "approved" /\ provider[f] = "jira"
             /\ RowMoves(delivery[f], delivery'[f])
             /\ status'[f] = JobStatusOf[delivery'[f]]
    <3>1. RowsAgree(f) /\ delivery'[f] # "none"
      BY <2>2 DEF FlowInv, RowMoves
    <3>2. status'[f] \notin {"none", "awaiting_approval"}
      BY <2>2, JobStatusIs DEF RowMoves
    <3> QED  BY <1>1, <2>2, <3>1, <3>2 DEF RowsAgree
  <2> QED  BY <1>3, <2>1, <2>2
<1>5. FlowTypeOK' /\ ThreadsHaveLeases'
  BY <1>1 DEF FlowInv, FlowTypeOK, ThreadsHaveLeases
<1>6. ThreadsAreTrue'
  <2>1. \A w \in Worker : zombie[w] # Idle => zombie[w].event \in Event
    BY DEF FlowInv, FlowTypeOK, Thread
  <2> QED  BY <1>1, <1>4, <2>1 DEF FlowInv, ThreadsAreTrue
<1>7. ASSUME NEW u \in User
      PROVE  ReviewIsCurrent(u)'
  <2>1. review[u] # Idle => review[u].event \in Event /\ proposal[review[u].event] = "pending"
    BY DEF FlowInv, FlowTypeOK, Review, ReviewIsCurrent
  <2> QED  BY <1>1, <1>3, <2>1 DEF FlowInv, ReviewIsCurrent, MayDecide
<1>8. OneHolder' /\ FreeStaysFree' /\ OneUndecidedProposal'
  BY <1>1, LockIsLeft DEF Undecided, FlowInv, OneUndecidedProposal
<1> QED  BY <1>4, <1>5, <1>6, <1>7, <1>8 DEF FlowInv

-----------------------------------------------------------------------------
\* Queue, outbox and flow together.
WholeInv == Queue!QueueInv /\ Delivery!DeliveryInv /\ FlowInv

LEMMA FlowStarts == Init => WholeInv
<1> SUFFICES ASSUME Init PROVE WholeInv
  OBVIOUS
<1>1. Queue!QueueInv /\ Delivery!DeliveryInv
  BY QueueStarts, OutboxStarts DEF Init
<1>2. \A e \in Event : status[e] = "none" /\ delivery[e] = "none" /\ \A w \in Worker : lease[w] = Idle
  BY DEF Init, JobInit, Outbox!DeliveryInit
<1>3. FlowTypeOK
  BY DEF Init, FlowTypeOK
<1>4. ThreadsHaveLeases /\ ThreadsAreTrue
  BY DEF Init, JobInit, ThreadsHaveLeases, ThreadsAreTrue
<1>5. (\A e \in Event : RowsAgree(e)) /\ (\A u \in User : ReviewIsCurrent(u))
  BY <1>2 DEF Init, RowsAgree, ReviewIsCurrent
<1>6. OneHolder /\ FreeStaysFree /\ OneUndecidedProposal
  BY DEF Init, OneHolder, FreeStaysFree, FreeIsFree, Holds, OneUndecidedProposal
<1> QED  BY <1>1, <1>3, <1>4, <1>5, <1>6 DEF WholeInv, FlowInv

LEMMA FlowStepPreserves == WholeInv /\ [Next]_vars => WholeInv'
<1> SUFFICES ASSUME WholeInv, [Next]_vars PROVE WholeInv'
  OBVIOUS
<1> USE DEF WholeInv
<1>1. Queue!QueueInv'
  BY StepOfQueue, QueueKeeps
<1>2. Delivery!DeliveryInv'
  BY StepOfOutbox, OutboxKeeps DEF FlowInv
<1>3. ASSUME NEW w \in Worker, NEW e \in Event, StartJob(w, e) \/ DropJob(w, e)
      PROVE  FlowInv'
  BY <1>3, StartPreserves, QueueAlonePreserves
<1>4. ASSUME NEW w \in Worker, ExecuteStep(w) \/ ZombieStep(w)
      PROVE  FlowInv'
  BY <1>4, ExecuteLockPreserves, ExecuteCommitPreserves, ZombieLockPreserves,
     ZombieCommitPreserves, ThreadEndsPreserves DEF ExecuteStep, ZombieStep
<1>5. ASSUME NEW w \in Worker, EndJob(w)
      PROVE  FlowInv'
  BY <1>5, EndPreserves
<1>6. ASSUME NEW w \in Worker, Deliver(w)
      PROVE  FlowInv'
  BY <1>6, OutboxWorkPreserves DEF Deliver, OutboxWork
<1>7. ASSUME NEW u \in User, ReviewStep(u)
      PROVE  FlowInv'
  BY <1>7, ReviewPreserves, CommitPreserves DEF ReviewStep
<1>8. ASSUME NEW e \in Event, Receive(e)
      PROVE  FlowInv'
  BY <1>8, QueueAlonePreserves
<1>9. ASSUME NEW e \in Event, ProposalExpires(e)
      PROVE  FlowInv'
  BY <1>9, ExpiryPreserves
<1>10. CASE OutboxElse
  BY <1>1, <1>2, <1>10, OutboxWorkPreserves DEF OutboxElse, OutboxWork
<1>11. CASE QueueTime
  BY <1>1, <1>2, <1>11, QueueAlonePreserves
<1>12. CASE UNCHANGED vars
  <2>1. UNCHANGED <<jobVars, flowVars, outboxVars>>
    BY <1>12 DEF vars
  <2>2. FlowTypeOK' /\ ThreadsHaveLeases' /\ ThreadsAreTrue'
    BY <2>1 DEF jobVars, flowVars, FlowInv, FlowTypeOK, ThreadsHaveLeases, ThreadsAreTrue
  <2>3. (\A e \in Event : RowsAgree(e)') /\ (\A u \in User : ReviewIsCurrent(u)')
    BY <2>1 DEF jobVars, flowVars, outboxVars, FlowInv, RowsAgree, ReviewIsCurrent, MayDecide
  <2>4. OneHolder' /\ FreeStaysFree' /\ OneUndecidedProposal'
    BY <2>1 DEF flowVars, FlowInv, OneHolder, FreeStaysFree, FreeIsFree, Holds, Undecided,
                OneUndecidedProposal
  <2> QED  BY <1>1, <1>2, <2>2, <2>3, <2>4 DEF FlowInv
<1> QED
  BY <1>1, <1>2, <1>3, <1>4, <1>5, <1>6, <1>7, <1>8, <1>9, <1>10, <1>11, <1>12 DEF Next

LEMMA FlowInvariant == Spec => []WholeInv
  BY FlowStarts, FlowStepPreserves, PTL DEF Spec

-----------------------------------------------------------------------------
\* The rows, the threads, the reviews and the lock fit each other, though the
\* worker, its abandoned threads, the reviewers and the senders write them in
\* transactions of their own (business.py:205-372, jobs.py, ticket_delivery.py).
THEOREM FlowIsCorrect == Spec => []FlowInv
<1>1. WholeInv => FlowInv
  BY DEF WholeInv
<1> QED  BY <1>1, FlowInvariant, PTL

\* The flow is a behaviour of the queue: neither a review nor a result of the
\* outbox, which write event_jobs without a condition on its status, does what
\* the queue does not expect (business.py:343, ticket_delivery.py:28).
THEOREM FlowKeepsQueue == Spec => KeepsQueue
<1>1. Init => JobInit
  BY DEF Init
<1>2. WholeInv /\ [Next]_vars => [UNCHANGED jobVars \/ JobNext]_vars
  BY StepOfQueue DEF WholeInv
<1> QED  BY <1>1, <1>2, FlowInvariant, PTL DEF Spec, KeepsQueue

\* So what was proved of the queue holds of the flow.
THEOREM FlowRunsQueue == Spec => JobSpec
<1>1. Init => JobInit
  BY DEF Init
<1>2. WholeInv /\ [Next]_vars => [JobNext]_jobVars
  BY StepOfQueue DEF WholeInv
<1> QED  BY <1>1, <1>2, FlowInvariant, PTL DEF Spec, JobSpec

\* The flow is a behaviour of the outbox: a row is enqueued once, by its approval.
THEOREM FlowRunsOutbox == Spec => Delivery!DeliverySpec
<1>1. Init => Delivery!DeliveryInit
  BY SameOutbox DEF Init
<1>2. WholeInv /\ [Next]_vars => [Delivery!DeliveryNext]_(Delivery!deliveryVars)
  <2>1. WholeInv /\ [Next]_vars => [Outbox!DeliveryNext]_outboxVars
    BY StepOfOutbox DEF WholeInv, FlowInv
  <2>2. [Outbox!DeliveryNext]_outboxVars => [Delivery!DeliveryNext]_(Delivery!deliveryVars)
    BY SameOutbox DEF outboxVars, Delivery!deliveryVars
  <2> QED  BY <2>1, <2>2
<1> QED  BY <1>1, <1>2, FlowInvariant, PTL DEF Spec, Delivery!DeliverySpec

\* So one request never makes two Jira issues, whatever its job, its reviewers
\* and its sender do.
THEOREM OneRequestOneIssue == Spec => []Delivery!AtMostOneIssue
<1>1. Delivery!DeliverySpec => []Delivery!AtMostOneIssue
  BY Delivery!NeverTwoIssues, OutboxAssumptions
  DEF Delivery!RetryAssumption, Delivery!NoPostAssumption
<1> QED  BY <1>1, FlowRunsOutbox, PTL

\* A row of the flow that may be sent again has left no trace in Jira, and what
\* the outbox reports is true and final (ticket_delivery.py:63, 119 and 129).
THEOREM FlowReportsTruly ==
    Spec => /\ []Delivery!RetryIsSafe
            /\ []Delivery!VerdictIsTrue
            /\ Delivery!VerdictIsFinal
<1>1. Delivery!DeliverySpec => []Delivery!RetryIsSafe /\ []Delivery!VerdictIsTrue
  BY Delivery!RetriesAreSafe, Delivery!VerdictsAreTrue, OutboxAssumptions
  DEF Delivery!RetryAssumption, Delivery!NoPostAssumption
<1>2. Delivery!DeliverySpec => Delivery!VerdictIsFinal
  BY Delivery!VerdictsAreFinal, OutboxAssumptions
  DEF Delivery!RetryAssumption, Delivery!NoPostAssumption
<1> QED  BY <1>1, <1>2, FlowRunsOutbox, PTL

\* Abandoned threads, reviews and the outbox leave the order of a conversation
\* alone, and no second worker can store an outcome (jobs.py:44, 53 and 114).
THEOREM FlowKeepsLeases == Spec => [](TurnsInOrder /\ OneWriter)
<1>1. WholeInv => Queue!TurnsInOrder /\ Queue!LeaseShape
  BY DEF WholeInv, Queue!QueueInv
<1>2. Queue!TurnsInOrder => TurnsInOrder
  BY DEF Queue!TurnsInOrder, TurnsInOrder, Queue!Earlier, Earlier, Queue!Routed, Routed,
         Queue!Parked, Parked
<1>3. Queue!LeaseShape => OneWriter
  BY DEF Queue!LeaseShape, OneWriter, HoldsLease
<1> QED  BY <1>1, <1>2, <1>3, FlowInvariant, PTL

\* Nothing reaches a provider without the decision of a second person
\* (business.py:274, ticket_delivery.py:83).
THEOREM SecondPersonDecides == Spec => []TicketNeedsSecondPerson
<1>1. WholeInv => TicketNeedsSecondPerson
  <2> SUFFICES ASSUME WholeInv, NEW e \in Event,
                      \/ simulated[e] \/ delivery[e] # "none" \/ issues[e] # {}
                      \/ \E m \in wire : m.proposal = e
               PROVE  proposal[e] = "approved" /\ decider[e] \in Approver \ {RequesterOf[e]}
    BY DEF TicketNeedsSecondPerson
  <2>1. simulated[e] \/ delivery[e] # "none"
    BY OutboxFacts DEF WholeInv
  <2> QED  BY <2>1 DEF WholeInv, FlowInv, RowsAgree
<1> QED  BY <1>1, FlowInvariant, PTL

\* The status of the job always tells the state of the ticket (business.py:343,
\* ticket_delivery.py:22).
THEOREM JobsTellTickets == Spec => []JobTellsTicket
<1>1. WholeInv => JobTellsTicket
  BY DEF WholeInv, FlowInv, RowsAgree, JobTellsTicket
<1> QED  BY <1>1, FlowInvariant, PTL

\* The advisory lock keeps every scope at one undecided proposal, whatever
\* threads were abandoned (business.py:205).
THEOREM ScopesHaveOneUndecided == Spec => []OneUndecidedProposal
<1>1. WholeInv => OneUndecidedProposal
  BY DEF WholeInv, FlowInv
<1> QED  BY <1>1, FlowInvariant, PTL

-----------------------------------------------------------------------------
\* At most one thing is counted as none or one.
LEMMA CountOfOne ==
    ASSUME NEW S, NEW n, S \subseteq {n}
    PROVE  Cardinality(S) = IF S = {} THEN 0 ELSE 1
<1>1. S = {} \/ S = {n}
  OBVIOUS
<1>2. Cardinality({}) = 0
  BY FS_EmptySet
<1>3. Cardinality({n}) = 1
  BY FS_Singleton
<1> QED  BY <1>1, <1>2, <1>3

\* What exists of a request is counted by its issue and its simulated ticket.
LEMMA TicketsCounted ==
    ASSUME NEW e \in Event
    PROVE  /\ Delivery!DeliveryInv =>
                 Made(e) = (IF issues[e] = {} THEN 0 ELSE 1) + (IF simulated[e] THEN 1 ELSE 0)
           /\ Delivery!DeliveryInv' =>
                 Made(e)' = (IF issues'[e] = {} THEN 0 ELSE 1)
                            + (IF simulated'[e] THEN 1 ELSE 0)
<1>1. Delivery!DeliveryInv => issues[e] \subseteq {tries[e]}
  BY DEF Delivery!DeliveryInv, Delivery!JiraIsCurrent
<1>2. Delivery!DeliveryInv' => issues'[e] \subseteq {tries'[e]}
  BY DEF Delivery!DeliveryInv, Delivery!JiraIsCurrent
<1>3. Delivery!DeliveryInv => Cardinality(issues[e]) = IF issues[e] = {} THEN 0 ELSE 1
  BY <1>1, CountOfOne
<1>4. Delivery!DeliveryInv' => Cardinality(issues'[e]) = IF issues'[e] = {} THEN 0 ELSE 1
  BY <1>2, CountOfOne
<1> QED  BY <1>3, <1>4 DEF Made

\* An event whose proposal, outbox row, issues and simulated ticket stay as they
\* are keeps its report and its tickets.
LEMMA SameReport ==
    ASSUME NEW e \in Event,
           proposal'[e] = proposal[e], provider'[e] = provider[e], delivery'[e] = delivery[e],
           issues'[e] = issues[e], simulated'[e] = simulated[e]
    PROVE  Contract(e)!ContractStep
<1>1. Reported(e)' = Reported(e)
  BY DEF Reported
<1>2. Made(e)' = Made(e)
  BY DEF Made
<1> QED  BY <1>1, <1>2 DEF Contract!ContractStep, Contract!contractVars

\* A request is proposed.
LEMMA InsertKeepsContract ==
    ASSUME FlowInv, NEW x \in Thread, InsertProposal(x),
           UNCHANGED <<delivery, issues, simulated>>, NEW e \in Event
    PROVE  Contract(e)!ContractStep
<1>1. CASE proposal'[e] = proposal[e] /\ provider'[e] = provider[e]
  BY <1>1, SameReport
<1>2. CASE ~(proposal'[e] = proposal[e] /\ provider'[e] = provider[e])
  <2>1. proposal[e] = "none" /\ proposal'[e] = "pending"
    BY <1>2 DEF InsertProposal, FlowInv, FlowTypeOK
  <2>2. Reported(e) = "none" /\ Reported(e)' = "proposed"
    BY <2>1 DEF Reported
  <2>3. Made(e)' = Made(e)
    BY DEF Made
  <2> QED  BY <2>2, <2>3 DEF Contract!ContractStep, Contract!ContractNext,
                             Contract!Propose, Contract!Moves
<1> QED  BY <1>1, <1>2

\* It is decided: refused, approved, or approved and made by the simulator.
LEMMA CommitKeepsContract ==
    ASSUME Queue!QueueInv, Delivery!DeliveryInv, FlowInv,
           NEW u \in User, ReviewCommit(u), NEW e \in Event
    PROVE  Contract(e)!ContractStep
<1>1. PICK d \in Event, v \in {"approved", "rejected", "expired"} : Decides(u, d, v)
  BY CommitWrites
<1> USE DEF Decides
<1>2. delivery \in [Event -> Outbox!DeliveryStatus]
  BY OutboxFacts
<1>3. CASE e # d
  <2>1. proposal'[e] = proposal[e] /\ delivery'[e] = delivery[e] /\ simulated'[e] = simulated[e]
    BY <1>1, <1>2, <1>3 DEF FlowInv, FlowTypeOK
  <2> QED  BY <1>1, <2>1, SameReport
<1>4. CASE e = d
  <2>1. issues[e] = {} /\ Reported(e) = "proposed"
    BY <1>1, <1>4, OutboxFacts DEF Reported
  <2>2. Made(e) = 0
    BY <1>1, <1>4, <2>1, TicketsCounted
  <2>3. proposal'[e] = v /\ provider'[e] = provider[e] /\ issues'[e] = issues[e]
    BY <1>1, <1>4 DEF FlowInv, FlowTypeOK
  <2>4. CASE v = "approved" /\ provider[d] = "jira"
    <3>1. delivery'[e] = "pending" /\ simulated'[e] = simulated[e]
      BY <1>1, <1>2, <1>4, <2>4
    <3>2. Reported(e)' = "approved"
      BY <1>4, <2>3, <2>4, <3>1 DEF Reported
    <3>3. Made(e)' = Made(e)
      BY <2>3, <3>1 DEF Made
    <3> QED  BY <2>1, <3>2, <3>3 DEF Contract!ContractStep, Contract!ContractNext,
                                     Contract!Approve, Contract!Moves
  <2>5. CASE v = "approved" /\ provider[d] = "synthetic"
    <3>1. simulated'[e] /\ delivery'[e] = "none"
      BY <1>1, <1>4, <2>5 DEF FlowInv, FlowTypeOK
    <3>2. Reported(e)' = "created"
      BY <1>4, <2>3, <2>5, <3>1 DEF Reported
    <3>3. Made(e)' = 1
      BY <2>1, <2>3, <3>1, FS_EmptySet DEF Made
    <3> QED  BY <2>1, <3>2, <3>3 DEF Contract!ContractStep, Contract!ContractNext,
                                     Contract!ApproveAndMake, Contract!Moves
  <2>6. CASE v # "approved"
    <3>1. ~simulated'[e]
      BY <1>1, <1>4, <2>6 DEF FlowInv, FlowTypeOK
    <3>2. Reported(e)' = "refused"
      BY <2>3, <2>6 DEF Reported
    <3>3. Made(e)' = Made(e)
      BY <1>1, <1>4, <2>3, <3>1 DEF Made
    <3> QED  BY <2>1, <3>2, <3>3 DEF Contract!ContractStep, Contract!ContractNext,
                                     Contract!Refuse, Contract!Moves
  <2> QED  BY <1>1, <2>4, <2>5, <2>6
<1> QED  BY <1>3, <1>4

\* Jira makes the ticket of an approved request, and what is reported of it is
\* true or admits doubt.
LEMMA OutboxKeepsContract ==
    ASSUME Queue!QueueInv, Delivery!DeliveryInv, Delivery!DeliveryInv', FlowInv,
           OutboxWork, JobFollows, NEW e \in Event
    PROVE  Contract(e)!ContractStep
<1>1. UNCHANGED <<proposal, provider, simulated>>
  BY DEF JobFollows, flowVars
<1>2. /\ delivery \in [Event -> Outbox!DeliveryStatus]
      /\ issues \in [Event -> SUBSET (1..Delivery!MaxTries)]
  BY OutboxFacts DEF Delivery!DeliveryInv, Delivery!DeliveryTypeOK
<1>3. Made(e) = (IF issues[e] = {} THEN 0 ELSE 1) + (IF simulated[e] THEN 1 ELSE 0)
  BY TicketsCounted
<1>4. Made(e)' = (IF issues'[e] = {} THEN 0 ELSE 1) + (IF simulated'[e] THEN 1 ELSE 0)
  BY TicketsCounted
<1>5. CASE delivery'[e] = delivery[e] /\ issues'[e] = issues[e]
  BY <1>1, <1>5, SameReport
<1>6. CASE delivery'[e] # delivery[e]
  <2>1. issues'[e] = issues[e] /\ RowMoves(delivery[e], delivery'[e])
    BY <1>2, <1>6, OutboxMovesOneRow
  <2>2. proposal[e] = "approved" /\ provider[e] = "jira" /\ ~simulated[e]
    BY <2>1 DEF FlowInv, RowsAgree, RowMoves
  <2>3. Made(e)' = Made(e)
    BY <1>1, <2>1 DEF Made
  <2>4. CASE delivery'[e] = "succeeded"
    <3>1. issues'[e] # {}
      BY <2>4 DEF Delivery!DeliveryInv, Delivery!KeysAreIssues
    <3>2. Made(e) = 1
      BY <1>3, <2>1, <2>2, <3>1
    <3>3. Reported(e) \in {"approved", "unknown"} /\ Reported(e)' = "created"
      BY <1>1, <2>1, <2>2, <2>4 DEF Reported, RowMoves
    <3> QED  BY <2>3, <3>2, <3>3 DEF Contract!ContractStep, Contract!ContractNext,
                                     Contract!Confirm, Contract!Moves
  <2>5. CASE delivery'[e] = "failed"
    <3>1. issues'[e] = {}
      BY <2>5 DEF Delivery!DeliveryInv, Delivery!NoTrace, Delivery!Quiet
    <3>2. Made(e) = 0
      BY <1>3, <2>1, <2>2, <3>1
    <3>3. Reported(e) = "approved" /\ Reported(e)' = "failed"
      BY <1>1, <2>1, <2>2, <2>5 DEF Reported, RowMoves
    <3> QED  BY <2>3, <3>2, <3>3 DEF Contract!ContractStep, Contract!ContractNext,
                                     Contract!Fail, Contract!Moves
  <2>6. CASE delivery'[e] = "uncertain"
    <3>1. Reported(e) = "approved" /\ Reported(e)' = "unknown"
      BY <1>1, <2>1, <2>2, <2>6 DEF Reported, RowMoves
    <3> QED  BY <2>3, <3>1 DEF Contract!ContractStep, Contract!ContractNext,
                               Contract!Doubt, Contract!Moves
  <2>7. CASE delivery'[e] \in {"pending", "sending"}
    <3>1. Reported(e) = "approved" /\ Reported(e)' = "approved"
      BY <1>1, <2>1, <2>2, <2>7 DEF Reported, RowMoves
    <3> QED  BY <2>3, <3>1 DEF Contract!ContractStep, Contract!contractVars
  <2> QED  BY <2>1, <2>4, <2>5, <2>6, <2>7 DEF RowMoves
<1>7. CASE issues'[e] # issues[e]
  <2>1. PICK p \in Event, n \in Nat :
            /\ delivery[p] \in {"sending", "uncertain"} /\ issues[p] = {}
            /\ issues' = [issues EXCEPT ![p] = {n}]
    BY <1>7, OutboxMakesOneIssue
  <2>2. delivery' = delivery
    BY <1>7, OutboxMakesOneIssue
  <2>3. /\ delivery[e] \in {"sending", "uncertain"}
        /\ issues[e] = {} /\ issues'[e] # {}
    BY <1>2, <1>7, <2>1
  <2>4. proposal[e] = "approved" /\ provider[e] = "jira" /\ ~simulated[e]
    BY <2>3 DEF FlowInv, RowsAgree
  <2>5. Made(e) = 0 /\ Made(e)' = 1
    BY <1>1, <1>3, <1>4, <2>3, <2>4
  <2>6. Reported(e) \in {"approved", "unknown"} /\ Reported(e)' = Reported(e)
    BY <1>1, <2>2, <2>3, <2>4 DEF Reported
  <2> QED  BY <2>5, <2>6 DEF Contract!ContractStep, Contract!ContractNext, Contract!Make
<1> QED  BY <1>5, <1>6, <1>7

LEMMA StepKeepsContract ==
    ASSUME WholeInv, WholeInv', [Next]_vars, NEW e \in Event
    PROVE  Contract(e)!ContractStep
<1> USE DEF WholeInv
<1>1. CASE UNCHANGED <<proposal, provider, simulated, delivery, issues>>
  BY <1>1, SameReport
<1>2. ASSUME NEW w \in Worker, ExecuteCommit(w)
      PROVE  Contract(e)!ContractStep
  <2>1. thread[w] \in Thread
    BY <1>2 DEF ExecuteCommit, FlowInv, FlowTypeOK
  <2> QED  BY <1>2, <2>1, InsertKeepsContract DEF ExecuteCommit, outboxVars
<1>3. ASSUME NEW w \in Worker, ZombieCommit(w)
      PROVE  Contract(e)!ContractStep
  <2>1. zombie[w] \in Thread
    BY <1>3 DEF ZombieCommit, FlowInv, FlowTypeOK
  <2> QED  BY <1>3, <2>1, InsertKeepsContract DEF ZombieCommit, outboxVars
<1>4. ASSUME NEW u \in User, ReviewCommit(u)
      PROVE  Contract(e)!ContractStep
  BY <1>4, CommitKeepsContract
<1>5. CASE OutboxWork /\ JobFollows
  BY <1>5, OutboxKeepsContract
<1>6. \/ UNCHANGED <<proposal, provider, simulated, delivery, issues>>
      \/ \E w \in Worker : ExecuteCommit(w) \/ ZombieCommit(w)
      \/ \E u \in User : ReviewCommit(u)
      \/ OutboxWork /\ JobFollows
  <2>1. ASSUME NEW w \in Worker, NEW f \in Event, StartJob(w, f) \/ DropJob(w, f)
        PROVE  UNCHANGED <<proposal, provider, simulated, delivery, issues>>
    BY <2>1 DEF StartJob, DropJob, flowVars, outboxVars
  <2>2. ASSUME NEW w \in Worker, ExecuteLock(w) \/ ExecuteElse(w) \/ ZombieLock(w) \/ ZombieEnds(w)
        PROVE  UNCHANGED <<proposal, provider, simulated, delivery, issues>>
    BY <2>2 DEF ExecuteLock, ExecuteElse, ZombieLock, ZombieEnds, outboxVars
  <2>3. ASSUME NEW w \in Worker, EndJob(w)
        PROVE  UNCHANGED <<proposal, provider, simulated, delivery, issues>>
    BY <2>3 DEF EndJob, SaveJob, TimeOut, Crash, outboxVars
  <2>4. ASSUME NEW u \in User, ReviewStep(u), ~ReviewCommit(u)
        PROVE  UNCHANGED <<proposal, provider, simulated, delivery, issues>>
    BY <2>4 DEF ReviewStep, ReviewRead, ReviewRollback, outboxVars
  <2>5. ASSUME NEW f \in Event, Receive(f) \/ ProposalExpires(f)
        PROVE  UNCHANGED <<proposal, provider, simulated, delivery, issues>>
    BY <2>5 DEF Receive, ProposalExpires, flowVars, outboxVars
  <2>6. CASE QueueTime \/ UNCHANGED vars
    BY <2>6 DEF QueueTime, vars, flowVars, outboxVars
  <2>7. ASSUME NEW w \in Worker, Deliver(w)
        PROVE  OutboxWork /\ JobFollows
    BY <2>7 DEF Deliver, OutboxWork
  <2>8. CASE OutboxElse
    BY <2>8 DEF OutboxElse, OutboxWork
  <2> QED  BY <2>1, <2>2, <2>3, <2>4, <2>5, <2>6, <2>7, <2>8 DEF Next, ExecuteStep, ZombieStep
<1> QED  BY <1>1, <1>2, <1>3, <1>4, <1>5, <1>6

\* The whole flow implements the contract of every request, step by step: one
\* decision, at most one ticket and only when approved, and a report that is true
\* or admits doubt.
THEOREM FlowKeepsContract == Spec => KeepsContract
<1>1. Init => \A e \in Event : Contract(e)!ContractInit
  <2> SUFFICES ASSUME Init, NEW e \in Event PROVE Contract(e)!ContractInit
    OBVIOUS
  <2>1. proposal[e] = "none" /\ ~simulated[e] /\ issues[e] = {}
    BY DEF Init, Outbox!DeliveryInit
  <2>2. Cardinality({}) = 0
    BY FS_EmptySet
  <2>3. Reported(e) = "none"
    BY <2>1 DEF Reported
  <2>4. Made(e) = 0
    BY <2>1, <2>2 DEF Made
  <2> QED  BY <2>3, <2>4 DEF Contract!ContractInit
<1>2. WholeInv /\ WholeInv' /\ [Next]_vars => [\A e \in Event : Contract(e)!ContractStep]_vars
  BY StepKeepsContract
<1> QED  BY <1>1, <1>2, FlowInvariant, PTL DEF Spec, KeepsContract

-----------------------------------------------------------------------------
\* What the connector is shown.  A job that leaves the proposals, the clock and
\* the reviews alone is shown in another stage only if its status shows another.
LEMMA StagesAre ==
    ASSUME NEW e \in Event
    PROVE  /\ status[e] \in {"none", "failed"} => StageOf(e) = status[e]
           /\ status[e] \in Waiting => StageOf(e) = "running"
           /\ status[e] = "awaiting_approval" => StageOf(e) = "awaiting"
           /\ status[e] = "awaiting_delivery" => StageOf(e) = "delivering"
           /\ status[e] = "delivery_uncertain" => StageOf(e) = "doubt"
           /\ status[e] = "completed" => StageOf(e) = OutcomeOf[proposal[e]]
  BY DEF StageOf, Waiting

LEMMA OutcomesAre ==
    /\ OutcomeOf["none"] = "answered" /\ OutcomeOf["pending"] = "answered"
    /\ OutcomeOf["approved"] = "created" /\ OutcomeOf["rejected"] = "refused"
    /\ OutcomeOf["expired"] = "lapsed"
  BY DEF OutcomeOf

\* The stages that the connector sees, and its reviews.
stages == [e \in Event |-> StageOf(e)]
reviews == [e \in Event |-> ReviewOf(e)]

SeenStep == [Seen!StageNext]_(Seen!jobVars)

\* Nothing is seen of a step that changes no status and decides nothing.
LEMMA Unseen ==
    ASSUME \A e \in Event : StageOf(e)' = StageOf(e),
           \A e \in Event : ReviewOf(e)' = ReviewOf(e),
           overdue' = overdue
    PROVE  SeenStep
  BY DEF SeenStep, Seen!jobVars

LEMMA SameStages ==
    ASSUME UNCHANGED status, FlowTypeOK,
           \A e \in Event :
               \/ proposal'[e] = proposal[e]
               \/ proposal[e] = "none" /\ proposal'[e] = "pending"
    PROVE  \A e \in Event : StageOf(e)' = StageOf(e)
<1> SUFFICES ASSUME NEW e \in Event PROVE StageOf(e)' = StageOf(e)
  OBVIOUS
<1>1. OutcomeOf[proposal'[e]] = OutcomeOf[proposal[e]]
  BY OutcomesAre
<1> QED  BY <1>1 DEF StageOf

LEMMA SameReviews ==
    ASSUME UNCHANGED review
    PROVE  \A e \in Event : ReviewOf(e)' = ReviewOf(e)
  BY DEF ReviewOf

\* A job that waits is run: only its own stage changes.
LEMMA RoutingIsSeen ==
    ASSUME FlowInv, Delivery!DeliveryInv, status \in [Event -> Status],
           UNCHANGED <<proposal, overdue, review>>, NEW e \in Event, NEW s,
           status' = [status EXCEPT ![e] = s],
           \/ status[e] = "none" /\ s = "pending"
           \/ status[e] \in Waiting /\ s \in OfRouting
    PROVE  SeenStep
<1>1. \A f \in Event : f # e => StageOf(f)' = StageOf(f)
  BY DEF StageOf
<1>2. stages' = [stages EXCEPT ![e] = StageOf(e)']
  BY <1>1 DEF stages
<1>3. reviews' = reviews
  BY SameReviews DEF reviews
<1>4. status'[e] = s
  OBVIOUS
<1>5. proposal[e] \in {"none", "pending"}
  BY WaitingIsUndecided DEF FlowInv, FlowTypeOK
<1>6. CASE status[e] = "none" /\ s = "pending"
  <2>1. stages[e] = "none" /\ StageOf(e)' = "running"
    BY <1>4, <1>6 DEF stages, StageOf, Waiting
  <2>2. Seen!Arrives(e)
    BY <1>2, <1>3, <2>1 DEF Seen!Arrives, stages, reviews
  <2> QED  BY <2>2 DEF SeenStep, Seen!StageNext
<1>7. CASE status[e] \in Waiting /\ s \in OfRouting
  <2>1. stages[e] = "running"
    BY <1>7 DEF stages, StageOf, Waiting
  <2>2. StageOf(e)' \in {"running", "failed", "answered", "awaiting"}
    BY <1>4, <1>5, <1>7, OutcomesAre DEF StageOf, OfRouting, Waiting
  <2>3. CASE StageOf(e)' = "running"
    BY <1>1, <1>3, <2>1, <2>3, Unseen, SameReviews DEF stages
  <2>4. CASE StageOf(e)' # "running"
    <3>1. Seen!Moves["running"] = {"answered", "failed", "awaiting"} /\ "running" \in DOMAIN Seen!Moves
      BY DEF Seen!Moves
    <3>2. Seen!JobMoves(e)
      BY <1>2, <1>3, <2>1, <2>2, <2>4, <3>1 DEF Seen!JobMoves, stages, reviews
    <3> QED  BY <3>2 DEF SeenStep, Seen!StageNext, Seen!JobStep
  <2> QED  BY <2>3, <2>4
<1> QED  BY <1>6, <1>7

\* The queue: claims, results, arrivals and time.
LEMMA QueueIsSeen ==
    ASSUME Queue!QueueInv, Delivery!DeliveryInv, FlowInv,
           \/ \E w \in Worker, e \in Event : StartJob(w, e) \/ DropJob(w, e)
           \/ \E w \in Worker : EndJob(w)
           \/ \E e \in Event : Receive(e)
           \/ QueueTime
    PROVE  SeenStep
<1>1. status \in [Event -> Status] /\ FlowTypeOK
  BY QueueFacts DEF JobTypeOK, FlowInv
<1>2. UNCHANGED <<proposal, overdue, review>>
  BY DEF StartJob, DropJob, EndJob, SaveJob, TimeOut, Crash, Receive, QueueTime, flowVars
<1>3. CASE UNCHANGED status
  BY <1>1, <1>2, <1>3, SameStages, SameReviews, Unseen
<1>4. ASSUME NEW w \in Worker, NEW e \in Event, StartJob(w, e) \/ DropJob(w, e)
      PROVE  SeenStep
  <2>1. PICK s \in {"processing", "failed"} : status' = [status EXCEPT ![e] = s]
    BY <1>4 DEF StartJob, DropJob, Claim, TakeJob, Exhaust
  <2>2. status[e] \in Waiting /\ s \in OfRouting
    BY <1>4 DEF StartJob, DropJob, Claim, Exhaust, Claimable, Waiting, OfRouting
  <2> QED  BY <1>1, <1>2, <2>1, <2>2, RoutingIsSeen
<1>5. ASSUME NEW w \in Worker, NEW o \in Outcome, Finish(w, o)
      PROVE  SeenStep
  <2> DEFINE e == lease[w].event
             s == StatusAfter(o, lease[w].attempt)
  <2>1. lease[w] # Idle /\ status[e] = "processing" /\ status' = [status EXCEPT ![e] = s]
    BY <1>5 DEF Finish, HoldsLease
  <2>2. e \in Event
    BY <2>1, QueueFacts
  <2>3. s \in OfRouting
    BY DEF StatusAfter, Outcome, OfRouting, Waiting
  <2> HIDE DEF e, s
  <2> QED  BY <1>1, <1>2, <2>1, <2>2, <2>3, RoutingIsSeen DEF Waiting
<1>6. ASSUME NEW w \in Worker, EndJob(w)
      PROVE  SeenStep
  <2>1. "processor_timeout" \in Outcome
    BY DEF Outcome
  <2>2. (\E o \in Outcome : Finish(w, o)) \/ UNCHANGED status
    BY <1>6, <2>1 DEF EndJob, SaveJob, TimeOut, Crash, FinishTooLate, Abandon
  <2> QED  BY <1>3, <1>5, <2>2
<1>7. ASSUME NEW e \in Event, Receive(e)
      PROVE  SeenStep
  <2>1. status[e] = "none" /\ status' = [status EXCEPT ![e] = "pending"]
    BY <1>7 DEF Receive, Arrive
  <2> QED  BY <1>1, <1>2, <2>1, RoutingIsSeen
<1>8. CASE QueueTime
  BY <1>3, <1>8 DEF QueueTime, TimeStep, LeaseExpires, BecomesDue
<1> QED  BY <1>4, <1>6, <1>7, <1>8

\* A proposal that execute commits is not seen: its job tells of it later, or an
\* abandoned thread has left it behind.
LEMMA ExecuteIsUnseen ==
    ASSUME FlowInv, NEW w \in Worker, ExecuteStep(w) \/ ZombieStep(w)
    PROVE  SeenStep
<1>1. UNCHANGED <<status, review>> /\ FlowTypeOK
  BY DEF ExecuteStep, ExecuteLock, ExecuteCommit, ExecuteElse, ZombieStep, ZombieLock,
         ZombieCommit, ZombieEnds, jobVars, FlowInv
<1>2. \/ UNCHANGED <<proposal, overdue>>
      \/ \E x \in {thread[w], zombie[w]} : x \in Thread /\ InsertProposal(x)
  <2>1. ExecuteCommit(w) => thread[w] \in Thread /\ InsertProposal(thread[w])
    BY <1>1 DEF ExecuteCommit, FlowTypeOK
  <2>2. ZombieCommit(w) => zombie[w] \in Thread /\ InsertProposal(zombie[w])
    BY <1>1 DEF ZombieCommit, FlowTypeOK
  <2> QED
    BY <2>1, <2>2 DEF ExecuteStep, ExecuteLock, ExecuteElse, ZombieStep, ZombieLock, ZombieEnds
<1>3. ASSUME NEW x \in Thread, InsertProposal(x)
      PROVE  SeenStep
  <2>1. x.event \in Event
    BY DEF Thread
  <2>2. CASE UNCHANGED <<proposal, overdue>>
    BY <1>1, <2>2, SameStages, SameReviews, Unseen
  <2>3. CASE /\ proposal[x.event] = "none"
             /\ proposal' = [proposal EXCEPT ![x.event] = "pending"]
             /\ overdue' = [overdue EXCEPT ![x.event] = FALSE]
    <3>1. overdue[x.event] = FALSE
      BY <1>1, <2>1, <2>3 DEF FlowInv, RowsAgree, FlowTypeOK
    <3>2. overdue' = overdue
      BY <1>1, <2>3, <3>1 DEF FlowTypeOK
    <3>3. \A e \in Event : \/ proposal'[e] = proposal[e]
                           \/ proposal[e] = "none" /\ proposal'[e] = "pending"
      BY <1>1, <2>3 DEF FlowTypeOK
    <3> QED  BY <1>1, <3>2, <3>3, SameStages, SameReviews, Unseen
  <2> QED  BY <1>3, <2>2, <2>3 DEF InsertProposal
<1>4. CASE UNCHANGED <<proposal, overdue>>
  BY <1>1, <1>4, SameStages, SameReviews, Unseen
<1> QED  BY <1>2, <1>3, <1>4

-----------------------------------------------------------------------------
\* The one review of an event is what is seen of its reviews.
LEMMA ReviewOfOne ==
    ASSUME NEW e \in Event, NEW u \in User, review[u] # Idle, review[u].event = e,
           \A v \in User : review[v] # Idle /\ review[v].event = e => v = u
    PROVE  ReviewOf(e) = IF review[u].verdict = "expired" THEN "late" ELSE "intime"
<1>1. {review[v].verdict : v \in {v \in User : review[v] # Idle /\ review[v].event = e}}
          = {review[u].verdict}
  OBVIOUS
<1> QED  BY <1>1 DEF ReviewOf

LEMMA ReviewOfNone ==
    ASSUME NEW e \in Event, \A v \in User : review[v] # Idle => review[v].event # e
    PROVE  ReviewOf(e) = "none"
<1>1. {review[v].verdict : v \in {v \in User : review[v] # Idle /\ review[v].event = e}} = {}
  OBVIOUS
<1> QED  BY <1>1 DEF ReviewOf

\* A review that begins or ends is seen at its event and nowhere else.
LEMMA OtherReviews ==
    ASSUME NEW u \in User, NEW e \in Event, NEW r, review' = [review EXCEPT ![u] = r],
           FlowTypeOK, \A f \in Event : review[u] # Idle /\ review[u].event = f => f = e,
           r = Idle \/ r.event = e
    PROVE  /\ \A f \in Event : f # e => ReviewOf(f)' = ReviewOf(f)
           /\ reviews' = [reviews EXCEPT ![e] = ReviewOf(e)']
<1>1. \A f \in Event : f # e => ReviewOf(f)' = ReviewOf(f)
  <2> SUFFICES ASSUME NEW f \in Event, f # e PROVE ReviewOf(f)' = ReviewOf(f)
    OBVIOUS
  <2>1. {review'[v].verdict : v \in {v \in User : review'[v] # Idle /\ review'[v].event = f}}
            = {review[v].verdict : v \in {v \in User : review[v] # Idle /\ review[v].event = f}}
    <3>1. \A v \in User : v # u => review'[v] = review[v]
      BY DEF FlowTypeOK
    <3>2. ~(review[u] # Idle /\ review[u].event = f) /\ ~(review'[u] # Idle /\ review'[u].event = f)
      BY DEF FlowTypeOK
    <3> QED  BY <3>1, <3>2
  <2> QED  BY <2>1 DEF ReviewOf
<1>2. reviews' = [reviews EXCEPT ![e] = ReviewOf(e)']
  BY <1>1 DEF reviews
<1> QED  BY <1>1, <1>2

LEMMA ReadIsSeen ==
    ASSUME FlowInv, NEW u \in User, NEW e \in Event,
           NEW d \in {"none", "approved", "rejected"}, ReviewRead(u, e, d)
    PROVE  SeenStep
<1> DEFINE r == [event |-> e, verdict |-> IF overdue[e] THEN "expired" ELSE d]
<1>1. /\ review[u] = Idle /\ review' = [review EXCEPT ![u] = r]
      /\ status[e] = "awaiting_approval"
      /\ \A v \in User : review[v] # Idle => review[v].event # e
      /\ d = "none" => overdue[e]
      /\ UNCHANGED <<status, proposal, overdue>>
  BY DEF ReviewRead, jobVars
<1>2. r \in Review /\ r # Idle /\ r.event = e
  BY <1>1, NothingAssumption DEF Review, NothingAssumption
<1>3. r.verdict = "expired" <=> overdue[e]
  OBVIOUS
<1> HIDE DEF r
<1>4. FlowTypeOK /\ review'[u] = r /\ \A v \in User : v # u => review'[v] = review[v]
  BY <1>1 DEF FlowInv, FlowTypeOK
<1>5. ReviewOf(e) = "none" /\ StageOf(e) = "awaiting"
  BY <1>1, ReviewOfNone, StagesAre
<1>6. ReviewOf(e)' = IF overdue[e] THEN "late" ELSE "intime"
  <2>1. {review'[v].verdict : v \in {v \in User : review'[v] # Idle /\ review'[v].event = e}}
            = {r.verdict}
    BY <1>1, <1>2, <1>4
  <2> QED  BY <1>3, <2>1 DEF ReviewOf
<1>7. reviews' = [reviews EXCEPT ![e] = IF overdue[e] THEN "late" ELSE "intime"]
  BY <1>1, <1>2, <1>4, <1>6, OtherReviews
<1>8. stages' = stages
  BY <1>1, <1>4, SameStages DEF stages
<1>9. Seen!ReviewReads(e)
  BY <1>1, <1>5, <1>7, <1>8 DEF Seen!ReviewReads, stages, reviews
<1> QED  BY <1>9 DEF SeenStep, Seen!StageNext, Seen!JobStep

\* What holds of every review under way, as the connector would see it.
LEMMA ReviewUnderWay ==
    ASSUME FlowInv, NEW u \in User, review[u] # Idle
    PROVE  /\ review[u].event \in Event
           /\ review[u].verdict \in {"approved", "rejected", "expired"}
           /\ ReviewOf(review[u].event)
                  = IF review[u].verdict = "expired" THEN "late" ELSE "intime"
           /\ \A v \in User : review[v] # Idle /\ review[v].event = review[u].event => v = u
<1>1. review[u] \in Review
  BY DEF FlowInv, FlowTypeOK
<1>2. /\ review[u].event \in Event
      /\ review[u].verdict \in {"approved", "rejected", "expired"}
  BY <1>1 DEF Review
<1>3. \A v \in User : review[v] # Idle /\ review[v].event = review[u].event => v = u
  BY DEF FlowInv, ReviewIsCurrent
<1>4. ReviewOf(review[u].event) = IF review[u].verdict = "expired" THEN "late" ELSE "intime"
  <2> DEFINE e == review[u].event
  <2>1. e \in Event /\ review[u].event = e
    BY <1>2
  <2>2. \A v \in User : review[v] # Idle /\ review[v].event = e => v = u
    BY <1>3
  <2> HIDE DEF e
  <2>3. ReviewOf(e) = IF review[u].verdict = "expired" THEN "late" ELSE "intime"
    BY <2>1, <2>2, ReviewOfOne
  <2> QED  BY <2>3 DEF e
<1> QED  BY <1>2, <1>3, <1>4

\* A review that ends is no longer seen.
LEMMA ReviewGone ==
    ASSUME FlowInv, NEW u \in User, review[u] # Idle, review' = [review EXCEPT ![u] = Idle]
    PROVE  reviews' = [reviews EXCEPT ![review[u].event] = "none"]
<1>1. PICK e \in Event : review[u].event = e
  BY ReviewUnderWay
<1>2. \A f \in Event : review[u] # Idle /\ review[u].event = f => f = e
  BY <1>1
<1>3. FlowTypeOK /\ \A v \in User : review[v] # Idle /\ review[v].event = e => v = u
  BY <1>1, ReviewUnderWay DEF FlowInv
<1>4. reviews' = [reviews EXCEPT ![e] = ReviewOf(e)']
  BY <1>1, <1>2, <1>3, OtherReviews
<1>5. ReviewOf(e)' = "none"
  <2>1. {review'[v].verdict : v \in {v \in User : review'[v] # Idle /\ review'[v].event = e}} = {}
    BY <1>1, <1>3 DEF FlowTypeOK
  <2> QED  BY <2>1 DEF ReviewOf
<1>6. reviews' = [reviews EXCEPT ![e] = "none"]
  BY <1>4, <1>5
<1> QED  BY <1>1, <1>6

LEMMA RollbackIsSeen ==
    ASSUME FlowInv, NEW u \in User, ReviewRollback(u)
    PROVE  SeenStep
<1> DEFINE e == review[u].event
<1>1. /\ review[u] # Idle /\ review' = [review EXCEPT ![u] = Idle]
      /\ UNCHANGED <<status, proposal, overdue>>
  BY DEF ReviewRollback, jobVars
<1>2. e \in Event /\ ReviewOf(e) # "none" /\ reviews' = [reviews EXCEPT ![e] = "none"]
  BY <1>1, ReviewUnderWay, ReviewGone
<1>3. stages' = stages
  BY <1>1, SameStages DEF stages, FlowInv
<1> HIDE DEF e
<1>4. Seen!ReviewRollsBack(e)
  BY <1>1, <1>2, <1>3 DEF Seen!ReviewRollsBack, stages, reviews
<1> QED  BY <1>2, <1>4 DEF SeenStep, Seen!StageNext, Seen!JobStep

LEMMA CommitIsSeen ==
    ASSUME Queue!QueueInv, Delivery!DeliveryInv, FlowInv, NEW u \in User, ReviewCommit(u)
    PROVE  SeenStep
<1>1. PICK e \in Event, v \in {"approved", "rejected", "expired"} : Decides(u, e, v)
  BY CommitWrites
<1>2. /\ review[u] # Idle /\ review[u].event = e /\ review' = [review EXCEPT ![u] = Idle]
      /\ proposal' = [proposal EXCEPT ![e] = v] /\ overdue' = overdue
      /\ status \in [Event -> Status] /\ FlowTypeOK
  BY <1>1, QueueFacts DEF Decides, JobTypeOK, FlowInv
<1>3. v = review[u].verdict
  <2>1. proposal' = [proposal EXCEPT ![review[u].event] = review[u].verdict]
    BY DEF ReviewCommit
  <2> QED  BY <1>2, <2>1 DEF FlowTypeOK
<1>4. /\ ReviewOf(e) = IF v = "expired" THEN "late" ELSE "intime"
      /\ reviews' = [reviews EXCEPT ![e] = "none"]
  BY <1>2, <1>3, ReviewUnderWay, ReviewGone
<1>5. \E s \in {"awaiting_delivery", "completed"} :
          /\ status' = [status EXCEPT ![e] = s]
          /\ v # "approved" => s = "completed"
  BY <1>1 DEF Decides
<1>6. /\ status'[e] \in {"awaiting_delivery", "completed"} /\ proposal'[e] = v
      /\ v # "approved" => status'[e] = "completed"
      /\ \A f \in Event : f # e => status'[f] = status[f] /\ proposal'[f] = proposal[f]
  BY <1>2, <1>5 DEF FlowTypeOK
<1>7. \A f \in Event : f # e => StageOf(f)' = StageOf(f)
  BY <1>6 DEF StageOf
<1>8. stages' = [stages EXCEPT ![e] = StageOf(e)']
  BY <1>7 DEF stages
<1>9. StageOf(e)' \in IF ReviewOf(e) = "late" THEN {"lapsed"} ELSE {"refused", "created", "delivering"}
  BY <1>4, <1>6, OutcomesAre DEF StageOf, Waiting
<1>10. Seen!ReviewCommits(e)
  <2>1. reviews[e] = ReviewOf(e) /\ ReviewOf(e) # "none"
    BY <1>4 DEF reviews
  <2> QED  BY <1>2, <1>4, <1>8, <1>9, <2>1 DEF Seen!ReviewCommits, stages, reviews
<1> QED  BY <1>10 DEF SeenStep, Seen!StageNext, Seen!JobStep

\* A proposal that expires is one that nobody has decided.
LEMMA ExpiryIsSeen ==
    ASSUME Queue!QueueInv, FlowInv, NEW e \in Event, ProposalExpires(e)
    PROVE  SeenStep
<1>1. /\ proposal[e] = "pending" /\ ~overdue[e] /\ overdue' = [overdue EXCEPT ![e] = TRUE]
      /\ UNCHANGED <<status, proposal, review>> /\ FlowTypeOK /\ status \in [Event -> Status]
  BY QueueFacts DEF ProposalExpires, jobVars, FlowInv, JobTypeOK
<1>2. stages' = stages /\ reviews' = reviews
  BY <1>1, SameStages, SameReviews DEF stages, reviews
<1>3. status[e] \in Waiting \union {"awaiting_approval", "completed", "failed"}
  BY <1>1 DEF FlowInv, RowsAgree, Status, Routed
<1>4. StageOf(e) \in {"running", "awaiting", "answered", "failed"}
  BY <1>1, <1>3, OutcomesAre DEF StageOf, Waiting
<1>5. Seen!Expires(e)
  BY <1>1, <1>2, <1>4 DEF Seen!Expires, stages, reviews
<1> QED  BY <1>5 DEF SeenStep, Seen!StageNext, Seen!JobStep

\* A result of the outbox is seen of the one job that it is written to.
LEMMA OutboxIsSeen ==
    ASSUME Queue!QueueInv, Delivery!DeliveryInv, FlowInv, OutboxWork, JobFollows
    PROVE  SeenStep
<1>1. /\ UNCHANGED <<proposal, overdue, review>> /\ FlowTypeOK
      /\ status \in [Event -> Status] /\ \A e \in Event : RowsAgree(e)
  BY QueueFacts DEF JobFollows, flowVars, FlowInv, JobTypeOK
<1>2. CASE status' = status
  BY <1>1, <1>2, SameStages, SameReviews, Unseen
<1>3. ASSUME NEW p \in Event, NEW s \in Outbox!DeliveryStatus,
             RowMoves(delivery[p], s), proposal[p] = "approved", provider[p] = "jira",
             status' = [status EXCEPT ![p] = JobStatusOf[s]]
      PROVE  SeenStep
  <2>1. status[p] = JobStatusOf[delivery[p]] /\ status'[p] = JobStatusOf[s]
    BY <1>1, <1>3 DEF RowsAgree
  <2>2. \/ status[p] = "awaiting_delivery"
           /\ status'[p] \in {"awaiting_delivery", "failed", "completed", "delivery_uncertain"}
        \/ status[p] = "delivery_uncertain" /\ status'[p] = "completed"
    BY <1>3, <2>1, JobStatusIs DEF RowMoves
  <2>3. \A f \in Event : f # p => status'[f] = status[f]
    BY <1>1, <1>3
  <2>4. \A f \in Event : f # p => StageOf(f)' = StageOf(f)
    BY <1>1, <2>3 DEF StageOf
  <2>5. CASE status'[p] = status[p]
    <3>1. status' = status
      BY <1>1, <1>3, <2>5
    <3> QED  BY <1>2, <3>1
  <2>6. CASE status'[p] # status[p]
    <3>1. stages' = [stages EXCEPT ![p] = StageOf(p)'] /\ reviews' = reviews
      BY <1>1, <2>4, SameReviews DEF stages, reviews
    <3>2. \/ stages[p] = "delivering" /\ StageOf(p)' \in {"created", "failed", "doubt"}
          \/ stages[p] = "doubt" /\ StageOf(p)' \in {"created"}
      BY <1>1, <1>3, <2>2, <2>6, OutcomesAre DEF stages, StageOf, Waiting
    <3>3. /\ {"delivering", "doubt"} \subseteq DOMAIN Seen!Moves
          /\ Seen!Moves["delivering"] = {"created", "failed", "doubt"}
          /\ Seen!Moves["doubt"] = {"created"}
      BY DEF Seen!Moves
    <3>4. Seen!JobMoves(p)
      BY <1>1, <3>1, <3>2, <3>3 DEF Seen!JobMoves, stages, reviews
    <3> QED  BY <3>4 DEF SeenStep, Seen!StageNext, Seen!JobStep
  <2> QED  BY <2>5, <2>6
<1> QED  BY <1>1, <1>2, <1>3, JobFollowsRow

LEMMA StepIsSeen ==
    ASSUME WholeInv, [Next]_vars
    PROVE  SeenStep
<1> USE DEF WholeInv
<1>1. ASSUME NEW w \in Worker, NEW e \in Event, StartJob(w, e) \/ DropJob(w, e)
      PROVE  SeenStep
  BY <1>1, QueueIsSeen
<1>2. ASSUME NEW w \in Worker, ExecuteStep(w) \/ ZombieStep(w)
      PROVE  SeenStep
  BY <1>2, ExecuteIsUnseen
<1>3. ASSUME NEW w \in Worker, EndJob(w)
      PROVE  SeenStep
  BY <1>3, QueueIsSeen
<1>4. ASSUME NEW w \in Worker, Deliver(w)
      PROVE  SeenStep
  BY <1>4, OutboxIsSeen DEF Deliver, OutboxWork
<1>5. ASSUME NEW u \in User, ReviewStep(u)
      PROVE  SeenStep
  BY <1>5, ReadIsSeen, CommitIsSeen, RollbackIsSeen DEF ReviewStep
<1>6. ASSUME NEW e \in Event, Receive(e) \/ ProposalExpires(e)
      PROVE  SeenStep
  BY <1>6, QueueIsSeen, ExpiryIsSeen
<1>7. CASE OutboxElse
  BY <1>7, OutboxIsSeen DEF OutboxElse, OutboxWork
<1>8. CASE QueueTime
  BY <1>8, QueueIsSeen
<1>9. CASE UNCHANGED vars
  BY <1>9, Unseen DEF vars, jobVars, flowVars, StageOf, ReviewOf
<1> QED  BY <1>1, <1>2, <1>3, <1>4, <1>5, <1>6, <1>7, <1>8, <1>9 DEF Next

\* The flow is what the Slack connector takes it for: workers, abandoned threads,
\* reviewers, senders and operators together move a job, its proposal and its review
\* only as JobStage lets them, so what is proved of the replies over every behaviour
\* of JobStage holds beside the real flow (slack/delivery.py:30-39).
THEOREM FlowShowsStages == Spec => ShowsStages
<1>1. Init => Seen!StageInit
  <2> SUFFICES ASSUME Init PROVE Seen!StageInit
    OBVIOUS
  <2>1. \A e \in Event : StageOf(e) = "none"
    <3>1. \A e \in Event : status[e] = "none"
      BY DEF Init, JobInit
    <3> QED  BY <3>1, StagesAre
  <2>2. \A e \in Event : ReviewOf(e) = "none"
    <3>1. \A v \in User : review[v] = Idle
      BY DEF Init
    <3> QED  BY <3>1, ReviewOfNone
  <2> QED  BY <2>1, <2>2 DEF Init, Seen!StageInit
<1>2. WholeInv /\ [Next]_vars => [Seen!StageNext]_(Seen!jobVars)
  BY StepIsSeen DEF SeenStep
<1> QED  BY <1>1, <1>2, FlowInvariant, PTL DEF Spec, ShowsStages, Seen!StageSpec

-----------------------------------------------------------------------------
\* The turns of a conversation.  A step is one of them, or they do not see it.
TurnStep(c) == Turns(c)!TurnNext \/ UNCHANGED Turns(c)!turnVars

LEMMA TurnStatusIs ==
    /\ \A s \in Status : TurnStatusOf[s] = "open" <=> s \in Waiting
    /\ \A s \in Status : TurnStatusOf[s] = "none" <=> s = "none"
    /\ \A s \in {"none", "awaiting_approval", "awaiting_delivery", "completed", "failed"} :
          TurnStatusOf[s] = s
    /\ TurnStatusOf["delivery_uncertain"] = "awaiting_delivery"
  BY DEF TurnStatusOf, Status, Waiting, Routed

\* A step that changes no row and no lease as the conversation sees them.
LEMMA TurnsRest ==
    ASSUME NEW c, UNCHANGED <<received, attempts>>,
           \A e \in TurnsOf(c) : TurnStatusOf[status'[e]] = TurnStatusOf[status[e]],
           \A w \in Worker : AttemptOf(w, c)' = AttemptOf(w, c)
    PROVE  TurnStep(c)
<1>1. [e \in TurnsOf(c) |-> received'[e]] = [e \in TurnsOf(c) |-> received[e]]
  OBVIOUS
<1>2. [e \in TurnsOf(c) |-> TurnStatusOf[status'[e]]]
          = [e \in TurnsOf(c) |-> TurnStatusOf[status[e]]]
  OBVIOUS
<1>3. [e \in TurnsOf(c) |-> attempts'[e]] = [e \in TurnsOf(c) |-> attempts[e]]
  OBVIOUS
<1>4. [w \in Worker |-> AttemptOf(w, c)]' = [w \in Worker |-> AttemptOf(w, c)]
  OBVIOUS
<1> QED  BY <1>1, <1>2, <1>3, <1>4 DEF TurnStep, Turns!turnVars, TurnsOf

LEMMA SameLeases ==
    ASSUME NEW c, UNCHANGED lease
    PROVE  \A w \in Worker : AttemptOf(w, c)' = AttemptOf(w, c)
  BY DEF AttemptOf, TurnsOf

\* What one worker does to its lease, the others do not see.
LEMMA OneLeaseSeen ==
    ASSUME JobTypeOK, NEW c, NEW w \in Worker, NEW l, lease' = [lease EXCEPT ![w] = l]
    PROVE  /\ AttemptOf(w, c)' = IF l # Idle /\ l.event \in TurnsOf(c) THEN l ELSE Idle
           /\ [v \in Worker |-> AttemptOf(v, c)]'
                  = [[v \in Worker |-> AttemptOf(v, c)] EXCEPT ![w] = AttemptOf(w, c)']
<1>1. lease'[w] = l /\ \A v \in Worker : v # w => lease'[v] = lease[v]
  BY DEF JobTypeOK
<1>2. AttemptOf(w, c)' = IF l # Idle /\ l.event \in TurnsOf(c) THEN l ELSE Idle
  BY <1>1 DEF AttemptOf, TurnsOf
<1>3. \A v \in Worker : v # w => AttemptOf(v, c)' = AttemptOf(v, c)
  BY <1>1 DEF AttemptOf, TurnsOf
<1> QED  BY <1>2, <1>3

\* A claim is fit for the conversation too: whatever it sees before the turn is routed.
LEMMA ClaimInTurn ==
    ASSUME Queue!QueueInv, Ordered, NEW c, NEW e \in TurnsOf(c), Claimable(e), ~Blocked(e)
    PROVE  Turns(c)!InTurn(e)
<1>1. status \in [Event -> Status] /\ e \in Event /\ status[e] \in Waiting
  BY QueueFacts DEF JobTypeOK, TurnsOf, Claimable, Waiting
<1>2. TurnStatusOf[status[e]] = "open"
  BY <1>1, TurnStatusIs
<1>3. ASSUME NEW u \in TurnsOf(c), received[u] # 0, received[u] < received[e]
      PROVE  TurnStatusOf[status[u]] # "open"
  <2>1. u \in Event /\ Earlier(u, e)
    BY <1>3 DEF TurnsOf, Earlier
  <2> QED  BY <1>1, <2>1, TurnStatusIs DEF Blocked
<1> QED  BY <1>2, <1>3 DEF Turns!InTurn, Turns!Before

LEMMA ClaimTakesTurn ==
    ASSUME Queue!QueueInv, Ordered, NEW w \in Worker, NEW e \in Event, Claim(w, e), NEW c
    PROVE  TurnStep(c)
<1> DEFINE l == [event |-> e, attempt |-> attempts[e] + 1]
<1>1. /\ lease[w] = Idle /\ Claimable(e) /\ ~Blocked(e) /\ attempts[e] < MaxAttempts
      /\ status' = [status EXCEPT ![e] = "processing"]
      /\ attempts' = [attempts EXCEPT ![e] = @ + 1]
      /\ lease' = [lease EXCEPT ![w] = l] /\ received' = received
  BY DEF Claim, TakeJob
<1>2. JobTypeOK /\ attempts[e] \in 0..MaxAttempts /\ status \in [Event -> Status]
  BY QueueFacts DEF JobTypeOK
<1>3. l # Idle /\ l.event = e
  <2>1. l \in [event : Event, attempt : 1..MaxAttempts]
    BY <1>1, <1>2, AttemptsAssumption
  <2> QED  BY <2>1, IdleAssumption DEF IdleAssumption
<1> HIDE DEF l
<1>4. AttemptOf(w, c) = Idle
  BY <1>1 DEF AttemptOf
<1>5. \A f \in Event : TurnStatusOf[status'[f]] = TurnStatusOf[status[f]]
  <2>1. status[e] \in Waiting /\ "processing" \in Waiting /\ Waiting \subseteq Status
    BY <1>1 DEF Claimable, Waiting, Status
  <2> QED  BY <1>1, <1>2, <2>1, TurnStatusIs
<1>6. /\ AttemptOf(w, c)' = IF e \in TurnsOf(c) THEN l ELSE Idle
      /\ [v \in Worker |-> AttemptOf(v, c)]'
             = [[v \in Worker |-> AttemptOf(v, c)] EXCEPT ![w] = AttemptOf(w, c)']
  BY <1>1, <1>2, <1>3, OneLeaseSeen
<1>7. CASE e \in TurnsOf(c)
  <2>1. Turns(c)!InTurn(e)
    BY <1>1, <1>7, ClaimInTurn
  <2>2. [f \in TurnsOf(c) |-> attempts'[f]]
            = [[f \in TurnsOf(c) |-> attempts[f]] EXCEPT ![e] = @ + 1]
    BY <1>1, <1>2, <1>7 DEF JobTypeOK, TurnsOf
  <2>3. [f \in TurnsOf(c) |-> TurnStatusOf[status'[f]]]
            = [f \in TurnsOf(c) |-> TurnStatusOf[status[f]]]
    BY <1>5 DEF TurnsOf
  <2>4. Turns(c)!Takes(w, e)
    BY <1>1, <1>4, <1>6, <1>7, <2>1, <2>2, <2>3 DEF Turns!Takes, TurnsOf, l
  <2> QED  BY <1>7, <2>4 DEF TurnStep, Turns!TurnNext, Turns!WorkerMoves
<1>8. CASE e \notin TurnsOf(c)
  <2>1. \A v \in Worker : AttemptOf(v, c)' = AttemptOf(v, c)
    BY <1>4, <1>6, <1>8
  <2>2. [f \in TurnsOf(c) |-> attempts'[f]] = [f \in TurnsOf(c) |-> attempts[f]]
    BY <1>1, <1>2, <1>8 DEF JobTypeOK, TurnsOf
  <2> QED  BY <1>1, <1>5, <2>1, <2>2 DEF TurnStep, Turns!turnVars, TurnsOf
<1> QED  BY <1>7, <1>8

\* A turn that changes its status alone, or another conversation's.
LEMMA OneStatusSeen ==
    ASSUME JobTypeOK, NEW c, NEW e \in TurnsOf(c), NEW s, status' = [status EXCEPT ![e] = s]
    PROVE  [f \in TurnsOf(c) |-> TurnStatusOf[status'[f]]]
               = [[f \in TurnsOf(c) |-> TurnStatusOf[status[f]]] EXCEPT ![e] = TurnStatusOf[s]]
  BY DEF JobTypeOK, TurnsOf

LEMMA OtherStatusUnseen ==
    ASSUME JobTypeOK, NEW c, NEW e \in Event, NEW s, status' = [status EXCEPT ![e] = s],
           e \notin TurnsOf(c) \/ TurnStatusOf[s] = TurnStatusOf[status[e]]
    PROVE  \A f \in TurnsOf(c) : TurnStatusOf[status'[f]] = TurnStatusOf[status[f]]
  BY DEF JobTypeOK, TurnsOf

LEMMA ExhaustGivesUp ==
    ASSUME Queue!QueueInv, Ordered, NEW w \in Worker, NEW e \in Event, Exhaust(w, e), NEW c
    PROVE  TurnStep(c)
<1>1. /\ Claimable(e) /\ ~Blocked(e) /\ attempts[e] >= MaxAttempts
      /\ status' = [status EXCEPT ![e] = "failed"] /\ UNCHANGED <<received, attempts, lease>>
  BY DEF Exhaust
<1>2. JobTypeOK /\ attempts[e] = MaxAttempts
  <2>1. JobTypeOK /\ attempts[e] \in 0..MaxAttempts
    BY QueueFacts DEF JobTypeOK
  <2> QED  BY <1>1, <2>1, AttemptsAssumption
<1>3. \A v \in Worker : AttemptOf(v, c)' = AttemptOf(v, c)
  BY <1>1, SameLeases
<1>4. CASE e \in TurnsOf(c)
  <2>1. Turns(c)!InTurn(e)
    BY <1>1, <1>4, ClaimInTurn
  <2>2. [f \in TurnsOf(c) |-> TurnStatusOf[status'[f]]]
            = [[f \in TurnsOf(c) |-> TurnStatusOf[status[f]]] EXCEPT ![e] = "failed"]
    <3>1. [f \in TurnsOf(c) |-> TurnStatusOf[status'[f]]]
              = [[f \in TurnsOf(c) |-> TurnStatusOf[status[f]]] EXCEPT ![e] = TurnStatusOf["failed"]]
      BY <1>1, <1>2, <1>4, OneStatusSeen
    <3> QED  BY TurnStatusIs, <3>1
  <2>3. Turns(c)!GivesUp(e)
    BY <1>1, <1>2, <1>3, <1>4, <2>1, <2>2 DEF Turns!GivesUp, TurnsOf
  <2> QED  BY <1>4, <2>3 DEF TurnStep, Turns!TurnNext, Turns!JobMoves
<1>5. CASE e \notin TurnsOf(c)
  <2>1. \A f \in TurnsOf(c) : TurnStatusOf[status'[f]] = TurnStatusOf[status[f]]
    BY <1>1, <1>2, <1>5, OtherStatusUnseen
  <2> QED  BY <1>1, <1>3, <2>1, TurnsRest
<1> QED  BY <1>4, <1>5

\* A lease that is let go is not seen any more.
LEMMA LeaseLetGo ==
    ASSUME Queue!QueueInv, NEW c, NEW w \in Worker, lease' = [lease EXCEPT ![w] = Idle]
    PROVE  /\ AttemptOf(w, c)' = Idle
           /\ [v \in Worker |-> AttemptOf(v, c)]'
                  = [[v \in Worker |-> AttemptOf(v, c)] EXCEPT ![w] = Idle]
<1>1. JobTypeOK
  BY QueueFacts
<1>2. /\ AttemptOf(w, c)' = IF Idle # Idle /\ Idle.event \in TurnsOf(c) THEN Idle ELSE Idle
      /\ [v \in Worker |-> AttemptOf(v, c)]'
             = [[v \in Worker |-> AttemptOf(v, c)] EXCEPT ![w] = AttemptOf(w, c)']
  BY <1>1, OneLeaseSeen
<1> QED  BY <1>2

\* A worker that lets a lease go without an exit from routing leaves its turn as it was.
LEMMA LetGo ==
    ASSUME Queue!QueueInv, NEW c, NEW w \in Worker, lease[w] # Idle,
           lease' = [lease EXCEPT ![w] = Idle], UNCHANGED <<received, attempts>>,
           \A f \in TurnsOf(c) : TurnStatusOf[status'[f]] = TurnStatusOf[status[f]]
    PROVE  TurnStep(c)
<1>1. /\ AttemptOf(w, c)' = Idle
      /\ [v \in Worker |-> AttemptOf(v, c)]'
             = [[v \in Worker |-> AttemptOf(v, c)] EXCEPT ![w] = Idle]
  BY LeaseLetGo
<1>2. CASE lease[w].event \in TurnsOf(c)
  <2>1. AttemptOf(w, c) # Idle
    BY <1>2 DEF AttemptOf
  <2>2. [f \in TurnsOf(c) |-> TurnStatusOf[status'[f]]]
            = [f \in TurnsOf(c) |-> TurnStatusOf[status[f]]]
    OBVIOUS
  <2>3. Turns(c)!Leaves(w)
    BY <1>1, <2>1, <2>2 DEF Turns!Leaves, TurnsOf
  <2> QED  BY <2>3 DEF TurnStep, Turns!TurnNext, Turns!WorkerMoves
<1>3. CASE lease[w].event \notin TurnsOf(c)
  <2>1. AttemptOf(w, c) = Idle
    BY <1>3 DEF AttemptOf
  <2>2. \A v \in Worker : AttemptOf(v, c)' = AttemptOf(v, c)
    BY <1>1, <2>1
  <2> QED  BY <2>2, TurnsRest
<1> QED  BY <1>2, <1>3

LEMMA FinishEndsTurn ==
    ASSUME Queue!QueueInv, NEW w \in Worker, NEW o \in Outcome, Finish(w, o), NEW c
    PROVE  TurnStep(c)
<1>1. PICK e \in Event, a \in 1..MaxAttempts : lease[w].event = e /\ lease[w].attempt = a
  BY QueueFacts DEF Finish, JobTypeOK, Lease
<1>2. PICK s : s = StatusAfter(o, a)
  OBVIOUS
<1>3. /\ lease[w] # Idle /\ status[e] = "processing" /\ token[e] = a
      /\ status' = [status EXCEPT ![e] = s]
      /\ lease' = [lease EXCEPT ![w] = Idle] /\ UNCHANGED <<received, attempts>>
  BY <1>1, <1>2 DEF Finish, HoldsLease
<1>4. JobTypeOK /\ a = attempts[e]
  BY <1>3, QueueFacts DEF Queue!QueueInv, Queue!RowShape
<1>5. s \in {"pending", "completed", "awaiting_approval", "failed"}
  BY <1>2 DEF StatusAfter, Outcome
<1>6. TurnStatusOf["processing"] = "open" /\ TurnStatusOf["pending"] = "open"
  BY DEF TurnStatusOf
<1>7. CASE e \notin TurnsOf(c) \/ s = "pending"
  <2>1. \A f \in TurnsOf(c) : TurnStatusOf[status'[f]] = TurnStatusOf[status[f]]
    BY <1>3, <1>4, <1>6, <1>7, OtherStatusUnseen
  <2> QED  BY <1>3, <2>1, LetGo
<1>8. CASE e \in TurnsOf(c) /\ s # "pending"
  <2>1. AttemptOf(w, c) = lease[w]
    BY <1>1, <1>3, <1>8 DEF AttemptOf
  <2>2. TurnStatusOf[s] = s
    BY <1>5, <1>8, TurnStatusIs
  <2>3. [f \in TurnsOf(c) |-> TurnStatusOf[status'[f]]]
            = [[f \in TurnsOf(c) |-> TurnStatusOf[status[f]]] EXCEPT ![e] = s]
    <3>1. [f \in TurnsOf(c) |-> TurnStatusOf[status'[f]]]
              = [[f \in TurnsOf(c) |-> TurnStatusOf[status[f]]] EXCEPT ![e] = TurnStatusOf[s]]
      BY <1>3, <1>4, <1>8, OneStatusSeen
    <3> QED  BY <2>2, <3>1
  <2>4. [v \in Worker |-> AttemptOf(v, c)]'
            = [[v \in Worker |-> AttemptOf(v, c)] EXCEPT ![w] = Idle]
    BY <1>3, LeaseLetGo
  <2>5. Turns(c)!Stores(w, s)
    BY <1>1, <1>3, <1>4, <1>6, <1>8, <2>1, <2>3, <2>4 DEF Turns!Stores, TurnsOf
  <2>6. s \in {"completed", "awaiting_approval", "failed"}
    BY <1>5, <1>8
  <2> QED  BY <2>5, <2>6 DEF TurnStep, Turns!TurnNext, Turns!WorkerMoves
<1> QED  BY <1>7, <1>8

LEMMA ArrivalIsTurn ==
    ASSUME Queue!QueueInv, NEW e \in Event, NEW n \in 1..MaxStamp, Arrive(e, n), NEW c
    PROVE  TurnStep(c)
<1>1. /\ status[e] = "none" /\ \A x \in Event : received[x] # n
      /\ received' = [received EXCEPT ![e] = n]
      /\ status' = [status EXCEPT ![e] = "pending"] /\ UNCHANGED <<attempts, lease>>
  BY DEF Arrive
<1>2. JobTypeOK /\ TurnStatusOf["none"] = "none" /\ TurnStatusOf["pending"] = "open"
  BY QueueFacts DEF TurnStatusOf
<1>3. \A v \in Worker : AttemptOf(v, c)' = AttemptOf(v, c)
  BY <1>1, SameLeases
<1>4. CASE e \in TurnsOf(c)
  <2>1. [f \in TurnsOf(c) |-> TurnStatusOf[status'[f]]]
            = [[f \in TurnsOf(c) |-> TurnStatusOf[status[f]]] EXCEPT ![e] = "open"]
    <3>1. [f \in TurnsOf(c) |-> TurnStatusOf[status'[f]]]
              = [[f \in TurnsOf(c) |-> TurnStatusOf[status[f]]] EXCEPT ![e] = TurnStatusOf["pending"]]
      BY <1>1, <1>2, <1>4, OneStatusSeen
    <3> QED  BY <1>2, <3>1
  <2>2. [f \in TurnsOf(c) |-> received'[f]]
            = [[f \in TurnsOf(c) |-> received[f]] EXCEPT ![e] = n]
    BY <1>1, <1>2 DEF TurnsOf, JobTypeOK
  <2>3. Turns(c)!Arrives(e, n)
    BY <1>1, <1>2, <1>3, <1>4, <2>1, <2>2 DEF Turns!Arrives, TurnsOf
  <2> QED  BY <1>4, <2>3 DEF TurnStep, Turns!TurnNext, Turns!JobMoves
<1>5. CASE e \notin TurnsOf(c)
  <2>1. [f \in TurnsOf(c) |-> TurnStatusOf[status'[f]]]
            = [f \in TurnsOf(c) |-> TurnStatusOf[status[f]]]
    BY <1>1, <1>2, <1>5, OtherStatusUnseen
  <2>2. [f \in TurnsOf(c) |-> received'[f]] = [f \in TurnsOf(c) |-> received[f]]
    BY <1>1, <1>2, <1>5 DEF TurnsOf, JobTypeOK
  <2> QED  BY <1>1, <1>3, <2>1, <2>2 DEF TurnStep, Turns!turnVars, TurnsOf
<1> QED  BY <1>4, <1>5

\* The rest of the flow moves only a job that routing has left.
LEMMA SettlesTurn ==
    ASSUME Queue!QueueInv, NEW e \in Event, NEW s \in Status,
           status' = [status EXCEPT ![e] = s], UNCHANGED <<received, attempts, lease>>,
           \/ status[e] = "awaiting_approval" /\ s \in {"completed", "awaiting_delivery"}
           \/ /\ status[e] \in {"awaiting_delivery", "delivery_uncertain"}
              /\ s \in {"awaiting_delivery", "delivery_uncertain", "completed", "failed"},
           NEW c
    PROVE  TurnStep(c)
<1>1. JobTypeOK /\ \A v \in Worker : AttemptOf(v, c)' = AttemptOf(v, c)
  BY QueueFacts, SameLeases
<1>2. CASE e \notin TurnsOf(c) \/ TurnStatusOf[s] = TurnStatusOf[status[e]]
  <2>1. \A f \in TurnsOf(c) : TurnStatusOf[status'[f]] = TurnStatusOf[status[f]]
    BY <1>1, <1>2, OtherStatusUnseen
  <2> QED  BY <1>1, <2>1, TurnsRest
<1>3. CASE e \in TurnsOf(c) /\ TurnStatusOf[s] # TurnStatusOf[status[e]]
  <2>1. [f \in TurnsOf(c) |-> TurnStatusOf[status'[f]]]
            = [[f \in TurnsOf(c) |-> TurnStatusOf[status[f]]] EXCEPT ![e] = TurnStatusOf[s]]
    BY <1>1, <1>3, OneStatusSeen
  <2>2. \/ /\ TurnStatusOf[status[e]] = "awaiting_approval"
           /\ TurnStatusOf[s] \in {"completed", "awaiting_delivery"}
        \/ /\ TurnStatusOf[status[e]] = "awaiting_delivery"
           /\ TurnStatusOf[s] \in {"completed", "failed"}
    BY <1>3, TurnStatusIs
  <2>3. /\ {"awaiting_approval", "awaiting_delivery"} \subseteq DOMAIN Turns(c)!SettledAs
        /\ Turns(c)!SettledAs["awaiting_approval"] = {"completed", "awaiting_delivery"}
        /\ Turns(c)!SettledAs["awaiting_delivery"] = {"completed", "failed"}
    BY DEF Turns!SettledAs
  <2>4. TurnStatusOf[s] \in Turns(c)!SettledAs[TurnStatusOf[status[e]]]
    BY <2>2, <2>3
  <2>5. Turns(c)!Settles(e)
    BY <1>1, <1>3, <2>1, <2>2, <2>3, <2>4 DEF Turns!Settles, TurnsOf
  <2> QED  BY <1>3, <2>5 DEF TurnStep, Turns!TurnNext, Turns!JobMoves
<1> QED  BY <1>2, <1>3

LEMMA DecisionSettlesTurn ==
    ASSUME Queue!QueueInv, Delivery!DeliveryInv, FlowInv, NEW u \in User, ReviewCommit(u), NEW c
    PROVE  TurnStep(c)
<1>1. PICK e \in Event, v \in {"approved", "rejected", "expired"} : Decides(u, e, v)
  BY CommitWrites
<1>2. review[u] # Idle /\ review[u].event = e
  BY <1>1 DEF Decides
<1>3. status[e] = "awaiting_approval"
  BY <1>2 DEF FlowInv, ReviewIsCurrent
<1>4. PICK s \in {"awaiting_delivery", "completed"} : status' = [status EXCEPT ![e] = s]
  BY <1>1 DEF Decides
<1>5. UNCHANGED <<received, attempts, lease>> /\ s \in Status
  BY DEF ReviewCommit, MoveJobs, Status, Routed
<1> QED  BY <1>3, <1>4, <1>5, SettlesTurn

LEMMA OutboxSettlesTurn ==
    ASSUME Queue!QueueInv, Delivery!DeliveryInv, FlowInv, OutboxWork, JobFollows, NEW c
    PROVE  TurnStep(c)
<1>1. UNCHANGED <<received, attempts, lease>> /\ \A e \in Event : RowsAgree(e)
  BY JobFollowsRow DEF FlowInv
<1>2. CASE status' = status
  <2>1. \A w \in Worker : AttemptOf(w, c)' = AttemptOf(w, c)
    BY <1>1, SameLeases
  <2> QED  BY <1>1, <1>2, <2>1, TurnsRest
<1>3. ASSUME NEW p \in Event, NEW s \in Outbox!DeliveryStatus,
             RowMoves(delivery[p], s), proposal[p] = "approved", provider[p] = "jira",
             status' = [status EXCEPT ![p] = JobStatusOf[s]]
      PROVE  TurnStep(c)
  <2>1. status[p] = JobStatusOf[delivery[p]]
    BY <1>1, <1>3 DEF RowsAgree
  <2>2. /\ status[p] \in {"awaiting_delivery", "delivery_uncertain"}
        /\ JobStatusOf[s] \in {"awaiting_delivery", "delivery_uncertain", "completed", "failed"}
    BY <1>3, <2>1, JobStatusIs DEF RowMoves
  <2>3. JobStatusOf[s] \in Status
    BY <2>2 DEF Status, Routed
  <2> QED  BY <1>1, <1>3, <2>2, <2>3, SettlesTurn
<1> QED  BY <1>1, <1>2, <1>3, JobFollowsRow

LEMMA StepTakesTurns ==
    ASSUME WholeInv, Ordered, [Next]_vars, NEW c
    PROVE  TurnStep(c)
<1> USE DEF WholeInv
<1>1. ASSUME UNCHANGED <<received, status, attempts, lease>> PROVE TurnStep(c)
  BY <1>1, SameLeases, TurnsRest
<1>2. ASSUME NEW w \in Worker, NEW e \in Event, StartJob(w, e) \/ DropJob(w, e)
      PROVE  TurnStep(c)
  BY <1>2, ClaimTakesTurn, ExhaustGivesUp DEF StartJob, DropJob
<1>3. ASSUME NEW w \in Worker, EndJob(w)
      PROVE  TurnStep(c)
  <2>1. \/ \E o \in Outcome : Finish(w, o)
        \/ FinishTooLate(w) \/ Abandon(w)
    BY <1>3 DEF EndJob, SaveJob, TimeOut, Crash, Outcome
  <2>2. CASE FinishTooLate(w) \/ Abandon(w)
    <3>1. /\ lease[w] # Idle /\ lease' = [lease EXCEPT ![w] = Idle]
          /\ UNCHANGED <<received, status, attempts>>
      BY <2>2 DEF FinishTooLate, Abandon
    <3> QED  BY <3>1, LetGo
  <2> QED  BY <2>1, <2>2, FinishEndsTurn
<1>4. ASSUME NEW w \in Worker, ExecuteStep(w) \/ ZombieStep(w)
      PROVE  TurnStep(c)
  BY <1>1, <1>4 DEF ExecuteStep, ExecuteLock, ExecuteCommit, ExecuteElse, ZombieStep,
                    ZombieLock, ZombieCommit, ZombieEnds, jobVars
<1>5. ASSUME NEW w \in Worker, Deliver(w)
      PROVE  TurnStep(c)
  BY <1>5, OutboxSettlesTurn DEF Deliver, OutboxWork
<1>6. ASSUME NEW u \in User, ReviewStep(u)
      PROVE  TurnStep(c)
  BY <1>1, <1>6, DecisionSettlesTurn DEF ReviewStep, ReviewRead, ReviewRollback, jobVars
<1>7. ASSUME NEW e \in Event, Receive(e)
      PROVE  TurnStep(c)
  BY <1>7, ReceiveArrives, ArrivalIsTurn
<1>8. ASSUME NEW e \in Event, ProposalExpires(e)
      PROVE  TurnStep(c)
  BY <1>1, <1>8 DEF ProposalExpires, jobVars
<1>9. CASE OutboxElse
  BY <1>9, OutboxSettlesTurn DEF OutboxElse, OutboxWork
<1>10. CASE QueueTime
  BY <1>1, <1>10 DEF QueueTime, TimeStep, LeaseExpires, BecomesDue
<1>11. CASE UNCHANGED vars
  BY <1>1, <1>11 DEF vars, jobVars
<1> QED  BY <1>2, <1>3, <1>4, <1>5, <1>6, <1>7, <1>8, <1>9, <1>10, <1>11 DEF Next

\* In supervisor mode the flow takes the turns of every conversation as TurnJobs says:
\* a claim passes no earlier turn that it can see, one attempt after the other, only
\* the latest attempt stores an outcome, and reviewers and senders settle a turn only
\* after routing left it.  What is proved of the plans and the memory over every
\* behaviour of TurnJobs holds beside the real flow (jobs.py:36-134).
THEOREM FlowTakesTurns ==
    ASSUME Ordered
    PROVE  Spec => TakesTurns
<1>1. Init => \A e \in Event : Turns(ConversationOf[e])!TurnInit
  <2> SUFFICES ASSUME Init, NEW c PROVE Turns(c)!TurnInit
    OBVIOUS
  <2>1. \A e \in TurnsOf(c) : received[e] = 0 /\ status[e] = "none" /\ attempts[e] = 0
    BY DEF Init, JobInit, TurnsOf
  <2>2. \A w \in Worker : AttemptOf(w, c) = Idle
    BY DEF Init, JobInit, AttemptOf
  <2>3. TurnStatusOf["none"] = "none"
    BY TurnStatusIs
  <2> QED  BY <2>1, <2>2, <2>3 DEF Turns!TurnInit
<1>2. WholeInv /\ [Next]_vars =>
          [\A e \in Event :
              LET c == ConversationOf[e]
              IN  Turns(c)!TurnNext \/ UNCHANGED Turns(c)!turnVars]_vars
  BY StepTakesTurns DEF TurnStep
<1> QED  BY <1>1, <1>2, FlowInvariant, PTL DEF Spec, TakesTurns
=============================================================================
