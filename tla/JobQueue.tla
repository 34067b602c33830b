------------------------------ MODULE JobQueue ------------------------------
(***************************************************************************)
(* The durable job queue of AssistOps: the table event_jobs, the claim and *)
(* finish transactions of jobs.py, and the worker loop of worker.py that   *)
(* calls them.                                                             *)
(*                                                                         *)
(* Time appears only as deadlines: a retry that is due, a lease that is    *)
(* still live.  A lease token is a fresh uuid4 per claim; an attempt       *)
(* number is claimed once per job, so it stands for the token.             *)
(***************************************************************************)
EXTENDS Integers

CONSTANTS
    Event,           \* the rows of inbound_events, one job each
    ConversationOf,  \* tenant, connector, source, user and conversation of an event
    Worker,          \* the worker processes
    MaxAttempts,     \* settings.worker_max_attempts
    MaxStamp,        \* bound: distinct values of inbound_events.received_at
    Ordered,         \* settings.worker_processor = "supervisor"
    Idle             \* what a worker without a lease holds

ASSUME EventAssumption == DOMAIN ConversationOf = Event
ASSUME AttemptsAssumption == MaxAttempts \in Nat \ {0}
ASSUME StampAssumption == MaxStamp \in Nat
ASSUME OrderedAssumption == Ordered \in BOOLEAN
ASSUME IdleAssumption == Idle \notin [event : Event, attempt : 1..MaxAttempts]

VARIABLES
    received,   \* the rank of received_at, 0 until the row is committed
    status,     \* event_jobs.status, "none" until the row is committed
    attempts,   \* event_jobs.attempts
    token,      \* event_jobs.lease_token, 0 for NULL
    live,       \* lease_expires_at > clock_timestamp()
    due,        \* next_run_at <= clock_timestamp()
    lease,      \* the Lease a worker is processing, or Idle
    written,    \* history: the attempt whose outcome the row holds, 0 for none
    known       \* history: the events already committed when a job was claimed

jobVars == <<received, status, attempts, token, live, due, lease, written, known>>

-----------------------------------------------------------------------------
Waiting == {"pending", "processing"}
Routed  == {"completed", "failed", "awaiting_approval", "awaiting_delivery",
            "delivery_uncertain"}
Status  == {"none"} \union Waiting \union Routed

Outcome == {"completed", "awaiting_approval", "processor_error",
            "processor_timeout", "invalid_event"}

Lease == [event : Event, attempt : 1..MaxAttempts]

JobInit ==
    /\ received = [e \in Event |-> 0]
    /\ status = [e \in Event |-> "none"]
    /\ attempts = [e \in Event |-> 0]
    /\ token = [e \in Event |-> 0]
    /\ live = [e \in Event |-> FALSE]
    /\ due = [e \in Event |-> FALSE]
    /\ lease = [w \in Worker |-> Idle]
    /\ written = [e \in Event |-> 0]
    /\ known = [e \in Event |-> {}]

-----------------------------------------------------------------------------
\* The tuple comparison (older.received_at, older.id) < (e.received_at, e.id)
\* within one private conversation.
Earlier(x, e) ==
    /\ ConversationOf[x] = ConversationOf[e]
    /\ received[x] # 0
    /\ received[x] < received[e]

\* Mutant: no lease is ever taken over.
ClaimablePending(e) == status[e] = "pending" /\ due[e]

Claimable(e) ==
    \/ status[e] = "pending" /\ due[e]
    \/ status[e] = "processing" /\ ~live[e]

\* Mutant: a turn in retry backoff does not hold back the turns after it.
BlockedByRunning(e) ==
    Ordered /\ \E x \in Event : Earlier(x, e) /\ status[x] = "processing"

\* The NOT EXISTS condition of the claim query, in supervisor mode only.
Blocked(e) ==
    Ordered /\ \E x \in Event : Earlier(x, e) /\ status[x] \in Waiting

TakeJob(w, e, t) ==
    /\ status' = [status EXCEPT ![e] = "processing"]
    /\ attempts' = [attempts EXCEPT ![e] = @ + 1]
    /\ token' = [token EXCEPT ![e] = t]
    /\ live' = [live EXCEPT ![e] = TRUE]
    /\ lease' = [lease EXCEPT ![w] = [event |-> e, attempt |-> attempts[e] + 1]]
    /\ known' = [known EXCEPT ![e] = @ \union {x \in Event : received[x] # 0}]
    /\ UNCHANGED <<received, due, written>>

\* Mutant: a reclaimed job keeps the token of the attempt before.
ClaimWithOldToken(w, e) ==
    /\ lease[w] = Idle
    /\ Claimable(e)
    /\ ~Blocked(e)
    /\ attempts[e] < MaxAttempts
    /\ TakeJob(w, e, IF token[e] = 0 THEN attempts[e] + 1 ELSE token[e])

\* One claim transaction.  FOR UPDATE SKIP LOCKED may skip the first row of the
\* ORDER BY, so any eligible job can be the one a worker gets.
Claim(w, e) ==
    /\ lease[w] = Idle
    /\ Claimable(e)
    /\ ~Blocked(e)
    /\ attempts[e] < MaxAttempts
    /\ TakeJob(w, e, attempts[e] + 1)

\* Mutant: the last attempt is given up while its lease still runs.
ExhaustRunning(w, e) ==
    /\ lease[w] = Idle
    /\ status[e] = "processing"
    /\ ~Blocked(e)
    /\ attempts[e] >= MaxAttempts
    /\ status' = [status EXCEPT ![e] = "failed"]
    /\ token' = [token EXCEPT ![e] = 0]
    /\ live' = [live EXCEPT ![e] = FALSE]
    /\ UNCHANGED <<received, attempts, due, lease, written, known>>

\* The same transaction when the job has no attempt left: it returns Exhausted.
Exhaust(w, e) ==
    /\ lease[w] = Idle
    /\ Claimable(e)
    /\ ~Blocked(e)
    /\ attempts[e] >= MaxAttempts
    /\ status' = [status EXCEPT ![e] = "failed"]
    /\ token' = [token EXCEPT ![e] = 0]
    /\ live' = [live EXCEPT ![e] = FALSE]
    /\ UNCHANGED <<received, attempts, due, lease, written, known>>

\* Mutant: finish updates the row of the event, whoever holds it.
HoldsEvent(w) == TRUE

\* Mutant: any processing job will do, the token is not compared.
HoldsLeaseOfAnyone(w) ==
    LET e == lease[w].event
    IN  status[e] = "processing" /\ live[e]

\* The WHERE clause of the finish update.
HoldsLease(w) ==
    LET e == lease[w].event
    IN  status[e] = "processing" /\ token[e] = lease[w].attempt /\ live[e]

\* The status that finish computes from the lease it was given.
StatusAfter(outcome, attempt) ==
    CASE outcome \in {"completed", "awaiting_approval"} -> outcome
      [] outcome = "invalid_event" -> "failed"
      [] outcome \in {"processor_error", "processor_timeout"} ->
            IF attempt >= MaxAttempts THEN "failed" ELSE "pending"

Finish(w, outcome) ==
    /\ lease[w] # Idle
    /\ HoldsLease(w)
    /\ LET e == lease[w].event
           a == lease[w].attempt
       IN  /\ status' = [status EXCEPT ![e] = StatusAfter(outcome, a)]
           /\ token' = [token EXCEPT ![e] = 0]
           /\ live' = [live EXCEPT ![e] = FALSE]
           /\ due' = [due EXCEPT ![e] = FALSE]
           /\ written' = [written EXCEPT ![e] = a]
    /\ lease' = [lease EXCEPT ![w] = Idle]
    /\ UNCHANGED <<received, attempts, known>>

\* finish returned False: the outcome of a lost lease is dropped.
FinishTooLate(w) ==
    /\ lease[w] # Idle
    /\ ~HoldsLease(w)
    /\ lease' = [lease EXCEPT ![w] = Idle]
    /\ UNCHANGED <<received, status, attempts, token, live, due, written, known>>

\* The process dies, or finish raises psycopg.Error and the loop goes on: the
\* row keeps its lease until it expires.
Abandon(w) ==
    /\ lease[w] # Idle
    /\ lease' = [lease EXCEPT ![w] = Idle]
    /\ UNCHANGED <<received, status, attempts, token, live, due, written, known>>

-----------------------------------------------------------------------------
\* Time passes: a lease runs out, a retry becomes due.
LeaseExpires(e) ==
    /\ live[e]
    /\ live' = [live EXCEPT ![e] = FALSE]
    /\ UNCHANGED <<received, status, attempts, token, due, lease, written, known>>

BecomesDue(e) ==
    /\ status[e] = "pending"
    /\ ~due[e]
    /\ due' = [due EXCEPT ![e] = TRUE]
    /\ UNCHANGED <<received, status, attempts, token, live, lease, written, known>>

-----------------------------------------------------------------------------
(***************************************************************************)
(* What the neighbours of the queue do to it: an acceptance commits an     *)
(* event with its job, and the approval and delivery side moves a job that *)
(* routing has left.                                                       *)
(***************************************************************************)
Arrive(e, stamp) ==
    /\ status[e] = "none"
    /\ \A x \in Event : received[x] # stamp
    /\ received' = [received EXCEPT ![e] = stamp]
    /\ status' = [status EXCEPT ![e] = "pending"]
    /\ due' = [due EXCEPT ![e] = TRUE]
    /\ UNCHANGED <<attempts, token, live, lease, written, known>>

Parked == {"awaiting_approval", "awaiting_delivery", "delivery_uncertain"}

Settle(e, s) ==
    /\ status[e] \in Parked
    /\ s \in Routed \ {"awaiting_approval"}
    /\ status' = [status EXCEPT ![e] = s]
    /\ UNCHANGED <<received, attempts, token, live, due, lease, written, known>>

-----------------------------------------------------------------------------
WorkerStep ==
    \E w \in Worker :
        \/ \E e \in Event : Claim(w, e) \/ Exhaust(w, e)
        \/ \E o \in Outcome : Finish(w, o)
        \/ FinishTooLate(w)
        \/ Abandon(w)

TimeStep == \E e \in Event : LeaseExpires(e) \/ BecomesDue(e)

NeighbourStep ==
    \E e \in Event :
        \/ \E n \in 1..MaxStamp : Arrive(e, n)
        \/ \E s \in Routed : Settle(e, s)

JobNext == WorkerStep \/ TimeStep \/ NeighbourStep

JobSpec == JobInit /\ [][JobNext]_jobVars

\* Some worker keeps polling, a processor ends by its asyncio.timeout (or its
\* process dies), and clocks advance.  Nothing is assumed of the neighbours.
JobFairness ==
    /\ WF_jobVars(\E w \in Worker, e \in Event : Claim(w, e) \/ Exhaust(w, e))
    /\ \A w \in Worker :
          WF_jobVars(\/ \E o \in Outcome : Finish(w, o)
                     \/ FinishTooLate(w)
                     \/ Abandon(w))
    /\ \A e \in Event : WF_jobVars(LeaseExpires(e)) /\ WF_jobVars(BecomesDue(e))

-----------------------------------------------------------------------------
\* Every variable has its type.
JobTypeOK ==
    /\ received \in [Event -> 0..MaxStamp]
    /\ status \in [Event -> Status]
    /\ attempts \in [Event -> 0..MaxAttempts]
    /\ token \in [Event -> 0..MaxAttempts]
    /\ live \in [Event -> BOOLEAN]
    /\ due \in [Event -> BOOLEAN]
    /\ lease \in [Worker -> Lease \union {Idle}]
    /\ written \in [Event -> 0..MaxAttempts]
    /\ known \in [Event -> SUBSET Event]

\* "A follow-up must not overtake a committed earlier turn, even during retry
\* backoff" (jobs.py:38): once a turn was claimed, every earlier turn of its
\* conversation that the claim could see has left routing, and stays out.
TurnsInOrder ==
    Ordered =>
        \A e \in Event : \A x \in known[e] :
            Earlier(x, e) => status[x] \in Routed

\* The outcome a row holds is that of its latest attempt: an attempt that lost
\* its lease never writes, however late it answers (jobs.py:109-126).
OutcomeOfLatestAttempt ==
    \A e \in Event :
        /\ written[e] <= attempts[e]
        /\ status[e] \in {"completed"} \union Parked => written[e] = attempts[e]
        /\ status[e] = "pending" => written[e] = attempts[e]

\* At most one worker can still store an outcome for a job, whatever crashed or
\* expired before.
OneWriter ==
    \A v, w \in Worker :
        /\ lease[v] # Idle /\ lease[w] # Idle
        /\ lease[v].event = lease[w].event
        /\ HoldsLease(v) /\ HoldsLease(w)
        => v = w

\* A job never waits for a retry it can no longer take: a pending job has an
\* attempt left, so only a lost lease reaches attempts_exhausted (jobs.py:62).
RetryHasAttemptLeft ==
    \A e \in Event : status[e] = "pending" => attempts[e] < MaxAttempts

\* The two ways out of routing: the worker of the latest attempt stores its outcome
\* while its lease runs, or the last attempt lost its lease and stored nothing.
LeavesWithOutcome(e) ==
    /\ live[e] /\ written'[e] = attempts[e]
    /\ \E w \in Worker :
          lease[w] = [event |-> e, attempt |-> attempts[e]] /\ lease'[w] = Idle

LeavesExhausted(e) ==
    /\ status'[e] = "failed" /\ attempts[e] = MaxAttempts
    /\ ~live[e] /\ written'[e] < attempts[e]

\* A job leaves routing once, in one of these two ways, and never comes back: none
\* is dropped while an attempt is left or under way, from its backoff, or by the
\* outcome of an attempt that was overtaken (jobs.py:62 and 97-126).
RoutingEndsOnce ==
    [][\A e \in Event :
          IF status[e] \in Routed
          THEN status'[e] \in Routed /\ attempts'[e] = attempts[e]
          ELSE status'[e] \in Routed => LeavesWithOutcome(e) \/ LeavesExhausted(e)]_jobVars

=============================================================================
