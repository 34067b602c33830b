------------------------------ MODULE TurnJobs ------------------------------
(***************************************************************************)
(* What the Supervisor relies on of the job queue: how the jobs of one     *)
(* private conversation are taken, attempted and settled.  Leases are cut  *)
(* down to who works on which attempt, statuses to what the memory tells   *)
(* apart.  SupervisorPlan assumes no more of the queue than this;          *)
(* TicketFlow, which runs the whole queue, does no more than this.         *)
(***************************************************************************)
EXTENDS Integers

CONSTANTS
    Turn,         \* the accepted messages of the conversation
    Worker,       \* the worker processes
    MaxAttempts,  \* settings.worker_max_attempts
    MaxStamp,     \* bound: distinct values of inbound_events.received_at
    Idle          \* what a worker without a lease holds

VARIABLES
    received,   \* the rank of received_at, 0 until the row is committed
    status,     \* "open" until routing is over
    attempts,   \* event_jobs.attempts
    lease       \* the attempt a worker is processing, or Idle

turnVars == <<received, status, attempts, lease>>

TurnStatus == {"none", "open", "awaiting_approval", "awaiting_delivery", "completed", "failed"}

Attempt == [event : Turn, attempt : 1..MaxAttempts]

TurnInit ==
    /\ received = [t \in Turn |-> 0]
    /\ status = [t \in Turn |-> "none"]
    /\ attempts = [t \in Turn |-> 0]
    /\ lease = [w \in Worker |-> Idle]

\* A turn is committed some time after its received_at was drawn, so an earlier
\* one may appear behind a later one.
Arrives(t, stamp) ==
    /\ status[t] = "none"
    /\ \A u \in Turn : received[u] # stamp
    /\ received' = [received EXCEPT ![t] = stamp]
    /\ status' = [status EXCEPT ![t] = "open"]
    /\ UNCHANGED <<attempts, lease>>

-----------------------------------------------------------------------------
Before(u, t) == received[u] # 0 /\ received[u] < received[t]

\* No earlier turn that the claim can see is still to be routed.
InTurn(t) ==
    /\ status[t] = "open"
    /\ \A u \in Turn : Before(u, t) => status[u] # "open"

\* A job is claimed, or claimed again after its lease ran out.
Takes(w, t) ==
    /\ lease[w] = Idle
    /\ InTurn(t)
    /\ attempts[t] < MaxAttempts
    /\ attempts' = [attempts EXCEPT ![t] = @ + 1]
    /\ lease' = [lease EXCEPT ![w] = [event |-> t, attempt |-> attempts[t] + 1]]
    /\ UNCHANGED <<received, status>>

\* claim finds no attempt left; the last worker may still be at it.
GivesUp(t) ==
    /\ InTurn(t)
    /\ attempts[t] = MaxAttempts
    /\ status' = [status EXCEPT ![t] = "failed"]
    /\ UNCHANGED <<received, attempts, lease>>

\* finish stores the outcome of the latest attempt and of no other.
Stores(w, s) ==
    /\ lease[w] # Idle
    /\ status[lease[w].event] = "open"
    /\ lease[w].attempt = attempts[lease[w].event]
    /\ status' = [status EXCEPT ![lease[w].event] = s]
    /\ lease' = [lease EXCEPT ![w] = Idle]
    /\ UNCHANGED <<received, attempts>>

\* A retry is scheduled, the lease was lost, or the process died.
Leaves(w) ==
    /\ lease[w] # Idle
    /\ lease' = [lease EXCEPT ![w] = Idle]
    /\ UNCHANGED <<received, status, attempts>>

\* A decision completes the job or hands it to the outbox, which ends it.
SettledAs == [awaiting_approval |-> {"completed", "awaiting_delivery"},
              awaiting_delivery |-> {"completed", "failed"}]

Settles(t) ==
    /\ status[t] \in DOMAIN SettledAs
    /\ \E s \in SettledAs[status[t]] : status' = [status EXCEPT ![t] = s]
    /\ UNCHANGED <<received, attempts, lease>>

-----------------------------------------------------------------------------
WorkerMoves(w) ==
    \/ \E t \in Turn : Takes(w, t)
    \/ \E s \in {"completed", "awaiting_approval", "failed"} : Stores(w, s)
    \/ Leaves(w)

JobMoves(t) ==
    \/ \E n \in 1..MaxStamp : Arrives(t, n)
    \/ GivesUp(t)
    \/ Settles(t)

TurnNext == (\E w \in Worker : WorkerMoves(w)) \/ (\E t \in Turn : JobMoves(t))

TurnSpec == TurnInit /\ [][TurnNext]_turnVars

=============================================================================
