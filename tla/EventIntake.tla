----------------------------- MODULE EventIntake -----------------------------
(***************************************************************************)
(* The acceptance of events in front of the job queue: EventStore.accept   *)
(* of storage.py, run by concurrent API or Slack sessions.  received_at    *)
(* defaults to now(), which PostgreSQL fixes when the transaction starts,  *)
(* so a session draws its stamp first and commits later.                   *)
(***************************************************************************)
EXTENDS JobQueue

CONSTANTS
    Session,     \* connections that run accept
    Payload,     \* payload fingerprints
    NoPayload    \* no row yet

\* A session between two acceptances is Idle, like a worker without a lease.
ASSUME PayloadAssumption == NoPayload \notin Payload

VARIABLES
    clock,      \* stamps handed out so far
    session,    \* the acceptance each connection is running
    stored,     \* inbound_events.payload_hash of the committed row
    acked       \* history: the payloads a Receipt was returned for

intakeVars == <<clock, session, stored, acked>>
vars == <<received, status, attempts, token, live, due, lease, written, known,
          clock, session, stored, acked>>

Phase == {"open", "inserted"}
Acceptance ==
    [phase : Phase, event : Event, payload : Payload, stamp : 1..MaxStamp]

Init ==
    /\ JobInit
    /\ clock = 0
    /\ session = [s \in Session |-> Idle]
    /\ stored = [e \in Event |-> NoPayload]
    /\ acked = [e \in Event |-> {}]

-----------------------------------------------------------------------------
Running(s) == session[s] # Idle

\* The first statement of the transaction fixes now().
Begin(s, e, p) ==
    /\ ~Running(s)
    /\ clock < MaxStamp
    /\ clock' = clock + 1
    /\ session' = [session EXCEPT ![s] =
           [phase |-> "open", event |-> e, payload |-> p, stamp |-> clock + 1]]
    /\ UNCHANGED <<stored, acked>>
    /\ UNCHANGED jobVars

\* INSERT ... ON CONFLICT DO NOTHING finds no row.  A concurrent uncommitted
\* insert of the same key makes this one wait.
Insert(s) ==
    /\ Running(s)
    /\ session[s].phase = "open"
    /\ stored[session[s].event] = NoPayload
    /\ \A t \in Session :
          Running(t) /\ session[t].phase = "inserted"
              => session[t].event # session[s].event
    /\ session' = [session EXCEPT ![s].phase = "inserted"]
    /\ UNCHANGED <<clock, stored, acked>>
    /\ UNCHANGED jobVars

\* Mutant: the fingerprints are not compared.
AnswerAnyDuplicate(s) ==
    /\ Running(s)
    /\ session[s].phase = "open"
    /\ stored[session[s].event] # NoPayload
    /\ acked' = [acked EXCEPT ![session[s].event] = @ \union {session[s].payload}]
    /\ session' = [session EXCEPT ![s] = Idle]
    /\ UNCHANGED <<clock, stored>>
    /\ UNCHANGED jobVars

\* Mutant: a duplicate queues its job once more.
RequeueDuplicate(s) ==
    /\ Running(s)
    /\ session[s].phase = "open"
    /\ stored[session[s].event] # NoPayload
    /\ status' = [status EXCEPT ![session[s].event] = "pending"]
    /\ due' = [due EXCEPT ![session[s].event] = TRUE]
    /\ session' = [session EXCEPT ![s] = Idle]
    /\ UNCHANGED <<clock, stored, acked, received, attempts, token, live, lease, written, known>>

\* The row exists: a receipt for the same payload, 409 event_id_conflict for
\* another one.  Nothing is written either way.
AnswerDuplicate(s) ==
    /\ Running(s)
    /\ session[s].phase = "open"
    /\ stored[session[s].event] # NoPayload
    /\ acked' = [acked EXCEPT ![session[s].event] =
                    @ \union ({session[s].payload} \intersect {stored[session[s].event]})]
    /\ session' = [session EXCEPT ![s] = Idle]
    /\ UNCHANGED <<clock, stored>>
    /\ UNCHANGED jobVars

\* Event, job and audit commit together; the receipt may still be lost on its
\* way to the client, who then sends the same event again.
Commit(s, answered) ==
    /\ Running(s)
    /\ session[s].phase = "inserted"
    /\ LET e == session[s].event
           p == session[s].payload
       IN  /\ Arrive(e, session[s].stamp)
           /\ stored' = [stored EXCEPT ![e] = p]
           /\ acked' = [acked EXCEPT ![e] = IF answered THEN @ \union {p} ELSE @]
    /\ session' = [session EXCEPT ![s] = Idle]
    /\ UNCHANGED clock

\* A crash, a lost connection or a statement timeout rolls everything back.
Rollback(s) ==
    /\ Running(s)
    /\ session' = [session EXCEPT ![s] = Idle]
    /\ UNCHANGED <<clock, stored, acked>>
    /\ UNCHANGED jobVars

Accept ==
    \E s \in Session :
        \/ \E e \in Event, p \in Payload : Begin(s, e, p)
        \/ Insert(s)
        \/ AnswerDuplicate(s)
        \/ \E answered \in BOOLEAN : Commit(s, answered)
        \/ Rollback(s)

QueueStep == (WorkerStep \/ TimeStep) /\ UNCHANGED intakeVars

Next == Accept \/ QueueStep

Spec == Init /\ [][Next]_vars
FairSpec == Spec /\ JobFairness

-----------------------------------------------------------------------------
IntakeTypeOK ==
    /\ clock \in 0..MaxStamp
    /\ session \in [Session -> Acceptance \union {Idle}]
    /\ stored \in [Event -> Payload \union {NoPayload}]
    /\ acked \in [Event -> SUBSET Payload]

\* Every variable of the intake and of the queue has its type.
TypeOK == JobTypeOK /\ IntakeTypeOK

\* A receipt is a promise (storage.py:78-99): what it acknowledged is the
\* committed payload, it stays so, and its job exists.  Two payloads under one
\* event id are never both acknowledged.
ReceiptIsDurable ==
    \A e \in Event : \A p \in acked[e] : stored[e] = p /\ status[e] # "none"

\* Every acknowledged event is eventually routed, whatever crashes: the bound
\* on attempts ends every retry (jobs.py:62-75).
AcknowledgedIsRouted ==
    \A e \in Event : acked[e] # {} ~> status[e] \in Routed

=============================================================================
