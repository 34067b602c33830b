---------------------------- MODULE JobQueueProofs ----------------------------
(***************************************************************************)
(* The invariants of JobQueue, for any events, conversations, workers and  *)
(* bound on attempts.  Then the intake in front of it: it uses the queue   *)
(* as JobQueue allows, so the theorems about the queue hold of both, and a *)
(* receipt is durable, for any sessions and payloads.                      *)
(***************************************************************************)
EXTENDS EventIntake, TLAPS

\* The columns of a row fit its status: only a processing job has a token, it
\* is that of its latest claim, whose outcome is not stored yet; an absent row is
\* blank, and no claim saw one.
RowShape ==
    \A e \in Event :
        /\ status[e] = "none" <=> received[e] = 0
        /\ status[e] = "none" => attempts[e] = 0 /\ written[e] = 0 /\ known[e] = {}
        /\ status[e] = "processing" =>
              /\ attempts[e] > 0 /\ token[e] = attempts[e]
              /\ written[e] < attempts[e]
        /\ status[e] # "processing" => token[e] = 0 /\ ~live[e]
        /\ \A x \in known[e] : received[x] # 0

\* A worker holds an attempt that was really claimed, and no two workers hold
\* the same one: what a fresh token per claim gives.
LeaseShape ==
    /\ \A w \in Worker :
          lease[w] # Idle => lease[w].attempt <= attempts[lease[w].event]
    /\ \A v, w \in Worker :
          /\ lease[v] # Idle /\ lease[w] # Idle
          /\ lease[v].event = lease[w].event
          /\ lease[v].attempt = lease[w].attempt
          => v = w

QueueInv ==
    /\ JobTypeOK
    /\ RowShape
    /\ LeaseShape
    /\ OutcomeOfLatestAttempt
    /\ RetryHasAttemptLeft
    /\ TurnsInOrder

-----------------------------------------------------------------------------
\* The status that finish stores is one of routing's exits, or a retry that the
\* bound on attempts allows (jobs.py:97-108).
LEMMA StatusAfterBounded ==
    ASSUME NEW o \in Outcome, NEW a \in 1..MaxAttempts
    PROVE  /\ StatusAfter(o, a) \in {"pending", "completed", "failed", "awaiting_approval"}
           /\ StatusAfter(o, a) = "pending" => a < MaxAttempts
  BY AttemptsAssumption DEF StatusAfter, Outcome

\* The tables start empty and the workers idle.
LEMMA InitEstablishes == JobInit => QueueInv
  BY AttemptsAssumption, StampAssumption, IdleAssumption
  DEF JobInit, QueueInv, JobTypeOK, RowShape, LeaseShape, OutcomeOfLatestAttempt,
      RetryHasAttemptLeft, TurnsInOrder, Status, Waiting, Routed, Parked

\* A claim draws the next attempt, which no worker holds yet, and sees only
\* routed turns before its own.
LEMMA ClaimPreserves ==
    ASSUME QueueInv, NEW w \in Worker, NEW e \in Event, Claim(w, e)
    PROVE  QueueInv'
  <1> USE DEF QueueInv, TakeJob
  <1>a. attempts[e] \in 0..MaxAttempts /\ attempts[e] + 1 \in 1..MaxAttempts
    BY AttemptsAssumption DEF JobTypeOK, Claim
  <1>b. [event |-> e, attempt |-> attempts[e] + 1] \in Lease
    BY <1>a DEF Lease
  <1>c. \A v \in Worker : lease[v] # Idle => lease[v] \in Lease
    BY DEF JobTypeOK
  <1>d. /\ lease' = [lease EXCEPT ![w] = [event |-> e, attempt |-> attempts[e] + 1]]
        /\ attempts' = [attempts EXCEPT ![e] = attempts[e] + 1]
    BY DEF Claim, JobTypeOK
  <1>1. JobTypeOK'
    BY <1>a, <1>b DEF JobTypeOK, Claim, Status, Waiting
  <1>2. RowShape'
    BY <1>a DEF JobTypeOK, RowShape, OutcomeOfLatestAttempt, Claim, Claimable, Blocked
  <1>3. LeaseShape'
    <2>1. ASSUME NEW v \in Worker, lease'[v] # Idle
          PROVE  lease'[v].attempt <= attempts'[lease'[v].event]
      BY <2>1, <1>a, <1>b, <1>c, <1>d DEF LeaseShape, JobTypeOK, Lease
    <2>2. ASSUME NEW u \in Worker, NEW v \in Worker,
                 lease'[u] # Idle, lease'[v] # Idle,
                 lease'[u].event = lease'[v].event,
                 lease'[u].attempt = lease'[v].attempt
          PROVE  u = v
      BY <2>2, <1>a, <1>b, <1>c, <1>d DEF LeaseShape, JobTypeOK, Lease
    <2> QED
      BY <2>1, <2>2 DEF LeaseShape
  <1>4. OutcomeOfLatestAttempt'
    BY <1>a DEF JobTypeOK, OutcomeOfLatestAttempt, Claim, Parked
  <1>5. RetryHasAttemptLeft'
    BY DEF JobTypeOK, RetryHasAttemptLeft, Claim
  <1>6. TurnsInOrder'
    <2> SUFFICES ASSUME Ordered, NEW f \in Event, NEW x \in known'[f], Earlier(x, f)'
                 PROVE  status'[x] \in Routed
      BY DEF TurnsInOrder
    <2>1. x \in Event /\ Earlier(x, f)
      BY <1>1 DEF JobTypeOK, Earlier, Claim
    <2>2. CASE x \in known[f]
      <3>1. status[x] \in Routed
        BY <2>1, <2>2 DEF TurnsInOrder
      <3>2. x # e
        BY <3>1 DEF Claim, Claimable, Routed
      <3> QED
        BY <3>1, <3>2 DEF Claim, JobTypeOK
    <2>3. CASE x \notin known[f]
      <3>1. f = e /\ received[x] # 0
        BY <2>1, <2>3 DEF Claim, JobTypeOK
      <3>2. status[x] \notin Waiting
        BY <2>1, <3>1 DEF Claim, Blocked
      <3>3. status[x] \in Routed
        BY <2>1, <3>1, <3>2 DEF JobTypeOK, RowShape, Status
      <3>4. x # e
        BY <3>2, <2>1, <3>1 DEF Earlier, Claim, Claimable, Waiting
      <3> QED
        BY <3>3, <3>4 DEF Claim, JobTypeOK
    <2> QED
      BY <2>2, <2>3
  <1> QED
    BY <1>1, <1>2, <1>3, <1>4, <1>5, <1>6

\* The exhaustion of attempts routes a job whose lease was lost.
LEMMA ExhaustPreserves ==
    ASSUME QueueInv, NEW w \in Worker, NEW e \in Event, Exhaust(w, e)
    PROVE  QueueInv'
  <1> USE DEF QueueInv
  <1>1. JobTypeOK'
    BY AttemptsAssumption DEF JobTypeOK, Exhaust, Status, Routed
  <1>2. RowShape'
    BY DEF JobTypeOK, RowShape, Exhaust, Claimable
  <1>3. LeaseShape'
    BY DEF LeaseShape, Exhaust
  <1>4. OutcomeOfLatestAttempt'
    BY DEF JobTypeOK, OutcomeOfLatestAttempt, Exhaust, Parked
  <1>5. RetryHasAttemptLeft'
    BY DEF JobTypeOK, RetryHasAttemptLeft, Exhaust
  <1>6. TurnsInOrder'
    BY DEF JobTypeOK, TurnsInOrder, Earlier, Exhaust, Routed
  <1> QED
    BY <1>1, <1>2, <1>3, <1>4, <1>5, <1>6

\* The holder of the lease stores the outcome of the latest attempt, because the
\* token it must match is that of the latest claim.
LEMMA FinishPreserves ==
    ASSUME QueueInv, NEW w \in Worker, NEW o \in Outcome, Finish(w, o)
    PROVE  QueueInv'
  <1> USE DEF QueueInv
  <1> DEFINE e == lease[w].event
             a == lease[w].attempt
             s == StatusAfter(o, a)
  <1>a. e \in Event /\ a \in 1..MaxAttempts
    BY DEF JobTypeOK, Lease, Finish
  <1>b. /\ s \in {"pending", "completed", "failed", "awaiting_approval"}
        /\ s = "pending" => a < MaxAttempts
    BY <1>a, StatusAfterBounded
  <1>c. a = attempts[e] /\ status[e] = "processing"
    BY <1>a DEF Finish, HoldsLease, RowShape
  <1>d. /\ status' = [status EXCEPT ![e] = s]
        /\ token' = [token EXCEPT ![e] = 0]
        /\ live' = [live EXCEPT ![e] = FALSE]
        /\ due' = [due EXCEPT ![e] = FALSE]
        /\ written' = [written EXCEPT ![e] = a]
        /\ lease' = [lease EXCEPT ![w] = Idle]
        /\ UNCHANGED <<received, attempts, known>>
    BY DEF Finish
  <1> HIDE DEF e, a, s
  <1>1. JobTypeOK'
    BY AttemptsAssumption, <1>a, <1>b, <1>d DEF JobTypeOK, Status, Waiting, Routed
  <1>2. RowShape'
    BY <1>a, <1>b, <1>c, <1>d DEF JobTypeOK, RowShape
  <1>3. LeaseShape'
    BY <1>d DEF JobTypeOK, LeaseShape
  <1>4. OutcomeOfLatestAttempt'
    BY <1>a, <1>b, <1>c, <1>d DEF JobTypeOK, OutcomeOfLatestAttempt, Parked
  <1>5. RetryHasAttemptLeft'
    BY <1>a, <1>b, <1>c, <1>d DEF JobTypeOK, RetryHasAttemptLeft
  <1>6. TurnsInOrder'
    BY <1>a, <1>c, <1>d DEF JobTypeOK, TurnsInOrder, Earlier, Routed
  <1> QED
    BY <1>1, <1>2, <1>3, <1>4, <1>5, <1>6

\* A worker that leaves its lease without writing changes no row.
LEMMA LeavingPreserves ==
    ASSUME QueueInv, NEW w \in Worker, FinishTooLate(w) \/ Abandon(w)
    PROVE  QueueInv'
  <1> USE DEF QueueInv
  <1>0. /\ lease' = [lease EXCEPT ![w] = Idle]
        /\ UNCHANGED <<received, status, attempts, token, live, due, written, known>>
    BY DEF FinishTooLate, Abandon
  <1>1. JobTypeOK'
    BY <1>0 DEF JobTypeOK
  <1>2. LeaseShape'
    BY <1>0 DEF JobTypeOK, LeaseShape
  <1>3. RowShape' /\ OutcomeOfLatestAttempt' /\ RetryHasAttemptLeft' /\ TurnsInOrder'
    BY <1>0 DEF RowShape, OutcomeOfLatestAttempt, RetryHasAttemptLeft, TurnsInOrder, Earlier
  <1> QED
    BY <1>1, <1>2, <1>3

\* Deadlines that pass change no status.
LEMMA TimePreserves ==
    ASSUME QueueInv, NEW e \in Event, LeaseExpires(e) \/ BecomesDue(e)
    PROVE  QueueInv'
  <1> USE DEF QueueInv
  <1>1. JobTypeOK'
    BY DEF JobTypeOK, LeaseExpires, BecomesDue
  <1>2. RowShape'
    BY DEF JobTypeOK, RowShape, LeaseExpires, BecomesDue
  <1>3. LeaseShape' /\ OutcomeOfLatestAttempt' /\ RetryHasAttemptLeft' /\ TurnsInOrder'
    BY DEF LeaseShape, OutcomeOfLatestAttempt, RetryHasAttemptLeft, TurnsInOrder, Earlier,
           LeaseExpires, BecomesDue
  <1> QED
    BY <1>1, <1>2, <1>3

\* A new row is blank, and no job that was claimed before knows it.
LEMMA ArrivePreserves ==
    ASSUME QueueInv, NEW e \in Event, NEW n \in 1..MaxStamp, Arrive(e, n)
    PROVE  QueueInv'
  <1> USE DEF QueueInv
  <1>1. JobTypeOK'
    BY DEF JobTypeOK, Arrive, Status, Waiting
  <1>2. RowShape'
    BY DEF JobTypeOK, RowShape, Arrive
  <1>3. LeaseShape'
    BY DEF LeaseShape, Arrive
  <1>4. OutcomeOfLatestAttempt'
    BY DEF JobTypeOK, RowShape, OutcomeOfLatestAttempt, Arrive, Parked
  <1>5. RetryHasAttemptLeft'
    BY AttemptsAssumption DEF JobTypeOK, RowShape, RetryHasAttemptLeft, Arrive
  <1>6. TurnsInOrder'
    <2> SUFFICES ASSUME Ordered, NEW f \in Event, NEW x \in known'[f], Earlier(x, f)'
                 PROVE  status'[x] \in Routed
      BY DEF TurnsInOrder
    <2>1. x \in Event /\ x \in known[f]
      BY DEF JobTypeOK, Arrive
    <2>2. f # e
      BY <2>1 DEF RowShape, Arrive
    <2>3. x # e
      BY <2>1 DEF RowShape, Arrive
    <2>4. Earlier(x, f)
      BY <2>1, <2>2, <2>3 DEF Earlier, Arrive, JobTypeOK
    <2> QED
      BY <2>1, <2>3, <2>4 DEF TurnsInOrder, Arrive, JobTypeOK
  <1> QED
    BY <1>1, <1>2, <1>3, <1>4, <1>5, <1>6

\* The neighbours only move jobs that routing has left.
LEMMA SettlePreserves ==
    ASSUME QueueInv, NEW e \in Event, NEW s \in Routed, Settle(e, s)
    PROVE  QueueInv'
  <1> USE DEF QueueInv
  <1>1. JobTypeOK'
    BY DEF JobTypeOK, Settle, Status
  <1>2. RowShape'
    BY DEF JobTypeOK, RowShape, Settle, Parked, Routed
  <1>3. LeaseShape'
    BY DEF LeaseShape, Settle
  <1>4. OutcomeOfLatestAttempt'
    BY DEF JobTypeOK, OutcomeOfLatestAttempt, Settle, Routed
  <1>5. RetryHasAttemptLeft'
    BY DEF JobTypeOK, RetryHasAttemptLeft, Settle, Routed
  <1>6. TurnsInOrder'
    BY DEF JobTypeOK, TurnsInOrder, Earlier, Settle
  <1> QED
    BY <1>1, <1>2, <1>3, <1>4, <1>5, <1>6

\* Every step keeps the invariant.
LEMMA StepPreserves == QueueInv /\ [JobNext]_jobVars => QueueInv'
  <1> SUFFICES ASSUME QueueInv, [JobNext]_jobVars
               PROVE  QueueInv'
    OBVIOUS
  <1>1. CASE WorkerStep
    BY <1>1, ClaimPreserves, ExhaustPreserves, FinishPreserves, LeavingPreserves
    DEF WorkerStep
  <1>2. CASE TimeStep
    BY <1>2, TimePreserves DEF TimeStep
  <1>3. CASE NeighbourStep
    BY <1>3, ArrivePreserves, SettlePreserves DEF NeighbourStep
  <1>4. CASE UNCHANGED jobVars
    BY <1>4 DEF jobVars, QueueInv, JobTypeOK, RowShape, LeaseShape, OutcomeOfLatestAttempt,
                RetryHasAttemptLeft, TurnsInOrder, Earlier
  <1> QED
    BY <1>1, <1>2, <1>3, <1>4 DEF JobNext

LEMMA QueueInvariant == JobSpec => []QueueInv
  BY InitEstablishes, StepPreserves, PTL DEF JobSpec

-----------------------------------------------------------------------------
\* The queue is well typed: no counter leaves its range, so a job is claimed at
\* most MaxAttempts times.
THEOREM QueueTypeCorrect == JobSpec => []JobTypeOK
  <1>1. QueueInv => JobTypeOK
    BY DEF QueueInv
  <1> QED
    BY <1>1, QueueInvariant, PTL

\* A follow-up never overtakes a committed earlier turn of its conversation.
THEOREM TurnsStayInOrder == JobSpec => []TurnsInOrder
  <1>1. QueueInv => TurnsInOrder
    BY DEF QueueInv
  <1> QED
    BY <1>1, QueueInvariant, PTL

\* A stored outcome is always that of the latest attempt.
THEOREM StoredOutcomeIsLatest == JobSpec => []OutcomeOfLatestAttempt
  <1>1. QueueInv => OutcomeOfLatestAttempt
    BY DEF QueueInv
  <1> QED
    BY <1>1, QueueInvariant, PTL

\* A pending job has an attempt left.
THEOREM PendingIsClaimable == JobSpec => []RetryHasAttemptLeft
  <1>1. QueueInv => RetryHasAttemptLeft
    BY DEF QueueInv
  <1> QED
    BY <1>1, QueueInvariant, PTL

\* Two workers never both hold a valid lease on one job: the token in the row is
\* one attempt, and an attempt has one holder.
THEOREM AtMostOneWriter == JobSpec => []OneWriter
  <1>1. QueueInv => OneWriter
    BY DEF QueueInv, OneWriter, HoldsLease, LeaseShape
  <1> QED
    BY <1>1, QueueInvariant, PTL

\* A job in routing leaves it by the outcome of its latest attempt: the lease that
\* finish compares is that of the latest claim.
LEMMA FinishLeaves ==
    ASSUME QueueInv, NEW e \in Event, NEW w \in Worker, NEW o \in Outcome, Finish(w, o),
           status[e] \notin Routed, status'[e] \in Routed
    PROVE  LeavesWithOutcome(e)
  <1> USE DEF QueueInv
  <1>1. /\ lease[w] \in Lease /\ HoldsLease(w)
        /\ status' = [status EXCEPT ![lease[w].event] = StatusAfter(o, lease[w].attempt)]
        /\ written' = [written EXCEPT ![lease[w].event] = lease[w].attempt]
        /\ lease' = [lease EXCEPT ![w] = Idle]
    BY DEF Finish, JobTypeOK
  <1>2. lease[w].event = e
    BY <1>1 DEF JobTypeOK, Lease
  <1>3. lease[w].attempt = attempts[e] /\ live[e]
    BY <1>1, <1>2 DEF HoldsLease, RowShape
  <1>4. lease[w] = [event |-> e, attempt |-> attempts[e]]
    BY <1>1, <1>2, <1>3 DEF Lease
  <1>5. written'[e] = attempts[e] /\ lease'[w] = Idle
    BY <1>1, <1>2, <1>3 DEF JobTypeOK
  <1> QED
    BY <1>3, <1>4, <1>5 DEF LeavesWithOutcome

\* Or by a claim that finds the last attempt gone: a pending job has one left.
LEMMA ExhaustLeaves ==
    ASSUME QueueInv, NEW e \in Event, NEW w \in Worker, NEW f \in Event,
           Exhaust(w, f), status[e] \notin Routed, status'[e] \in Routed
    PROVE  LeavesExhausted(e)
  <1> USE DEF QueueInv
  <1>1. e = f
    BY DEF Exhaust, JobTypeOK
  <1>2. attempts[e] = MaxAttempts
    BY <1>1, AttemptsAssumption DEF Exhaust, JobTypeOK
  <1>3. status[e] # "pending"
    BY <1>2, AttemptsAssumption DEF RetryHasAttemptLeft
  <1>4. status[e] = "processing" /\ ~live[e]
    BY <1>1, <1>3 DEF Exhaust, Claimable
  <1>5. status'[e] = "failed" /\ written' = written
    BY <1>1 DEF Exhaust, JobTypeOK
  <1>6. written'[e] < attempts[e]
    BY <1>4, <1>5 DEF RowShape
  <1> QED
    BY <1>2, <1>4, <1>5, <1>6 DEF LeavesExhausted

\* A job leaves routing once, with the outcome of its latest attempt or when its last
\* one was lost, and never comes back.
THEOREM RoutingIsLeftOnce == JobSpec => RoutingEndsOnce
  <1> DEFINE Once(e) ==
         IF status[e] \in Routed
         THEN status'[e] \in Routed /\ attempts'[e] = attempts[e]
         ELSE status'[e] \in Routed => LeavesWithOutcome(e) \/ LeavesExhausted(e)
  <1>1. QueueInv /\ [JobNext]_jobVars => [\A e \in Event : Once(e)]_jobVars
    <2> SUFFICES ASSUME QueueInv, JobNext, NEW e \in Event
                 PROVE  Once(e)
      OBVIOUS
    <2> USE DEF QueueInv
    <2>1. CASE WorkerStep
      <3>1. ASSUME NEW w \in Worker, NEW f \in Event, Claim(w, f)
            PROVE  Once(e)
        BY <3>1 DEF JobTypeOK, Claim, TakeJob, Claimable, Routed
      <3>2. ASSUME NEW w \in Worker, NEW f \in Event, Exhaust(w, f)
            PROVE  Once(e)
        <4>1. CASE status[e] \in Routed
          BY <3>2, <4>1 DEF Exhaust, Claimable, JobTypeOK, Routed
        <4>2. CASE status[e] \notin Routed
          BY <3>2, <4>2, ExhaustLeaves
        <4> QED
          BY <4>1, <4>2
      <3>3. ASSUME NEW w \in Worker, NEW o \in Outcome, Finish(w, o)
            PROVE  Once(e)
        <4>1. CASE status[e] \in Routed
          <5>1. lease[w].event # e
            BY <3>3, <4>1 DEF Finish, HoldsLease, Routed
          <5> QED
            BY <3>3, <4>1, <5>1 DEF Finish, JobTypeOK
        <4>2. CASE status[e] \notin Routed
          BY <3>3, <4>2, FinishLeaves
        <4> QED
          BY <4>1, <4>2
      <3>4. ASSUME NEW w \in Worker, FinishTooLate(w) \/ Abandon(w)
            PROVE  Once(e)
        BY <3>4 DEF FinishTooLate, Abandon
      <3> QED
        BY <2>1, <3>1, <3>2, <3>3, <3>4 DEF WorkerStep
    <2>2. CASE TimeStep
      BY <2>2 DEF TimeStep, LeaseExpires, BecomesDue
    <2>3. CASE NeighbourStep
      BY <2>3 DEF NeighbourStep, Arrive, Settle, JobTypeOK, Routed, Parked
    <2> QED
      BY <2>1, <2>2, <2>3 DEF JobNext
  <1> QED
    BY <1>1, QueueInvariant, PTL DEF JobSpec, RoutingEndsOnce

-----------------------------------------------------------------------------
\* A payload is stored exactly when the event's job exists.
RowsTogether == \A e \in Event : stored[e] = NoPayload <=> status[e] = "none"

IntakeInv == QueueInv /\ IntakeTypeOK /\ RowsTogether /\ ReceiptIsDurable

LEMMA IntakeInitEstablishes == Init => IntakeInv
  <1> SUFFICES ASSUME Init PROVE IntakeInv
    OBVIOUS
  <1>1. QueueInv
    BY InitEstablishes DEF Init
  <1>2. IntakeTypeOK
    BY StampAssumption DEF Init, IntakeTypeOK
  <1>3. RowsTogether /\ ReceiptIsDurable
    BY DEF Init, JobInit, RowsTogether, ReceiptIsDurable
  <1> QED
    BY <1>1, <1>2, <1>3 DEF IntakeInv

\* To the queue, an acceptance is the arrival of an event or nothing.
LEMMA AcceptIsArrival ==
    ASSUME IntakeTypeOK, [Next]_vars
    PROVE  [JobNext]_jobVars
  <1>1. CASE Accept
    <2>1. ASSUME NEW s \in Session, NEW answered \in BOOLEAN, Commit(s, answered)
          PROVE  JobNext
      <3>1. session[s].event \in Event /\ session[s].stamp \in 1..MaxStamp
        BY <2>1 DEF IntakeTypeOK, Commit, Running, Acceptance
      <3> QED
        BY <2>1, <3>1 DEF Commit, JobNext, NeighbourStep
    <2>2. ASSUME NEW s \in Session, NEW e \in Event, NEW p \in Payload, Begin(s, e, p)
          PROVE  UNCHANGED jobVars
      BY <2>2 DEF Begin
    <2>3. ASSUME NEW s \in Session, Insert(s) \/ AnswerDuplicate(s) \/ Rollback(s)
          PROVE  UNCHANGED jobVars
      BY <2>3 DEF Insert, AnswerDuplicate, Rollback
    <2> QED
      BY <1>1, <2>1, <2>2, <2>3 DEF Accept
  <1>2. CASE QueueStep
    BY <1>2 DEF QueueStep, JobNext
  <1>3. CASE UNCHANGED vars
    BY <1>3 DEF vars, jobVars
  <1> QED
    BY <1>1, <1>2, <1>3 DEF Next

\* Rows never disappear: routing does not make an event absent again.
LEMMA JobStepKeepsRows ==
    ASSUME QueueInv, WorkerStep \/ TimeStep, NEW e \in Event
    PROVE  status'[e] = "none" <=> status[e] = "none"
  <1> USE DEF QueueInv
  <1>1. CASE WorkerStep
    <2>1. ASSUME NEW w \in Worker, NEW f \in Event, Claim(w, f) \/ Exhaust(w, f)
          PROVE  status'[e] = "none" <=> status[e] = "none"
      BY <2>1 DEF JobTypeOK, Claim, TakeJob, Exhaust, Claimable
    <2>2. ASSUME NEW w \in Worker, NEW o \in Outcome, Finish(w, o)
          PROVE  status'[e] = "none" <=> status[e] = "none"
      <3>1. lease[w].event \in Event /\ lease[w].attempt \in 1..MaxAttempts
        BY <2>2 DEF JobTypeOK, Finish, Lease
      <3>2. StatusAfter(o, lease[w].attempt) # "none"
        BY <3>1, StatusAfterBounded
      <3> QED
        BY <2>2, <3>1, <3>2 DEF Finish, HoldsLease, JobTypeOK
    <2>3. ASSUME NEW w \in Worker, FinishTooLate(w) \/ Abandon(w)
          PROVE  status'[e] = "none" <=> status[e] = "none"
      BY <2>3 DEF FinishTooLate, Abandon
    <2> QED
      BY <1>1, <2>1, <2>2, <2>3 DEF WorkerStep
  <1>2. CASE TimeStep
    BY <1>2 DEF TimeStep, LeaseExpires, BecomesDue
  <1> QED
    BY <1>1, <1>2

\* A commit finds no earlier receipt of its event, because the row was absent.
LEMMA CommitPreserves ==
    ASSUME IntakeInv, NEW s \in Session, NEW answered \in BOOLEAN, Commit(s, answered)
    PROVE  IntakeTypeOK' /\ RowsTogether' /\ ReceiptIsDurable'
  <1> USE DEF IntakeInv
  <1> DEFINE e == session[s].event
             p == session[s].payload
  <1>1. e \in Event /\ p \in Payload /\ p # NoPayload
    BY PayloadAssumption DEF IntakeTypeOK, Commit, Running, Acceptance
  <1>2. /\ status[e] = "none"
        /\ status' = [status EXCEPT ![e] = "pending"]
        /\ stored' = [stored EXCEPT ![e] = p]
        /\ acked' = [acked EXCEPT ![e] = IF answered THEN @ \union {p} ELSE @]
        /\ session' = [session EXCEPT ![s] = Idle]
        /\ clock' = clock
    BY DEF Commit, Arrive
  <1>3. acked[e] = {}
    BY <1>1, <1>2 DEF ReceiptIsDurable, IntakeTypeOK
  <1> HIDE DEF e, p
  <1>4. IntakeTypeOK'
    BY <1>1, <1>2 DEF IntakeTypeOK
  <1>5. RowsTogether'
    BY <1>1, <1>2 DEF RowsTogether, IntakeTypeOK, QueueInv, JobTypeOK
  <1>6. ReceiptIsDurable'
    BY <1>1, <1>2, <1>3 DEF ReceiptIsDurable, IntakeTypeOK, QueueInv, JobTypeOK
  <1> QED
    BY <1>4, <1>5, <1>6

LEMMA IntakeStepPreserves == IntakeInv /\ [Next]_vars => IntakeInv'
  <1> SUFFICES ASSUME IntakeInv, [Next]_vars
               PROVE  IntakeInv'
    OBVIOUS
  <1> USE DEF IntakeInv
  <1>1. QueueInv'
    BY AcceptIsArrival, StepPreserves
  <1>2. IntakeTypeOK' /\ RowsTogether' /\ ReceiptIsDurable'
    <2>1. ASSUME NEW s \in Session, NEW e \in Event, NEW p \in Payload, Begin(s, e, p)
          PROVE  IntakeTypeOK' /\ RowsTogether' /\ ReceiptIsDurable'
      <3>1. clock + 1 \in 1..MaxStamp /\ clock + 1 \in 0..MaxStamp
        BY <2>1, StampAssumption DEF Begin, IntakeTypeOK
      <3>2. IntakeTypeOK'
        BY <2>1, <3>1 DEF Begin, IntakeTypeOK, Acceptance, Phase
      <3> QED
        BY <2>1, <3>2 DEF Begin, RowsTogether, ReceiptIsDurable, jobVars
    <2>2. ASSUME NEW s \in Session, Insert(s)
          PROVE  IntakeTypeOK' /\ RowsTogether' /\ ReceiptIsDurable'
      BY <2>2 DEF Insert, Running, IntakeTypeOK, Acceptance, Phase, RowsTogether,
                  ReceiptIsDurable, jobVars
    <2>3. ASSUME NEW s \in Session, AnswerDuplicate(s)
          PROVE  IntakeTypeOK' /\ RowsTogether' /\ ReceiptIsDurable'
      <3>1. session[s].event \in Event /\ session[s].payload \in Payload
        BY <2>3 DEF AnswerDuplicate, Running, IntakeTypeOK, Acceptance
      <3> QED
        BY <2>3, <3>1 DEF AnswerDuplicate, IntakeTypeOK, RowsTogether, ReceiptIsDurable, jobVars
    <2>4. ASSUME NEW s \in Session, NEW answered \in BOOLEAN, Commit(s, answered)
          PROVE  IntakeTypeOK' /\ RowsTogether' /\ ReceiptIsDurable'
      BY <2>4, CommitPreserves
    <2>5. ASSUME NEW s \in Session, Rollback(s)
          PROVE  IntakeTypeOK' /\ RowsTogether' /\ ReceiptIsDurable'
      BY <2>5 DEF Rollback, IntakeTypeOK, RowsTogether, ReceiptIsDurable, jobVars
    <2>6. CASE QueueStep
      BY <2>6, JobStepKeepsRows
      DEF QueueStep, intakeVars, IntakeTypeOK, RowsTogether, ReceiptIsDurable
    <2>7. CASE UNCHANGED vars
      BY <2>7 DEF vars, IntakeTypeOK, RowsTogether, ReceiptIsDurable
    <2> QED
      BY <2>1, <2>2, <2>3, <2>4, <2>5, <2>6, <2>7 DEF Next, Accept
  <1> QED
    BY <1>1, <1>2

LEMMA IntakeInvariant == Spec => []IntakeInv
  BY IntakeInitEstablishes, IntakeStepPreserves, PTL DEF Spec

-----------------------------------------------------------------------------
\* The intake implements the queue's specification.
THEOREM IntakeKeepsQueue == Spec => JobSpec
  <1>1. IntakeInv /\ [Next]_vars => [JobNext]_jobVars
    BY AcceptIsArrival DEF IntakeInv
  <1>2. Init => JobInit
    BY DEF Init
  <1> QED
    BY <1>1, <1>2, IntakeInvariant, PTL DEF Spec, JobSpec

\* What a receipt acknowledged is stored, once and for all.
THEOREM ReceiptsAreDurable == Spec => []ReceiptIsDurable
  <1>1. IntakeInv => ReceiptIsDurable
    BY DEF IntakeInv
  <1> QED
    BY <1>1, IntakeInvariant, PTL

\* Both tables and the history are well typed.
THEOREM IntakeTypeCorrect == Spec => []TypeOK
  <1>1. IntakeInv => TypeOK
    BY DEF IntakeInv, QueueInv, TypeOK
  <1> QED
    BY <1>1, IntakeInvariant, PTL

=============================================================================
