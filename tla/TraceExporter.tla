--------------------------- MODULE TraceExporter ----------------------------
(***************************************************************************)
(* TraceExporter of tracing.py: a bounded queue of finished spans between  *)
(* the threads that work and the one that exports, and its shutdown.       *)
(* Whether an export succeeded only counts: both ways the span is handled. *)
(* Spans are told apart by when they were accepted.                        *)
(***************************************************************************)
EXTENDS Integers, Sequences

CONSTANT QueueCapacity \* maxsize of the queue

ASSUME ExporterAssumption == QueueCapacity \in Nat \ {0}

VARIABLES
    queue,     \* of spans, each "early", or "late" when the event was set before
    exporter,  \* where the thread is: at its loop condition, half through it ("drain"),
               \* in get, exporting, ended
    exporting, \* the span it took from the queue, or "none"
    owed,      \* how many early spans it has neither sent nor failed to send
    stopped,   \* the event
    flush      \* what close found out

exporterVars == <<queue, exporter, exporting, owed, stopped, flush>>

ExporterInit ==
    /\ queue = <<>>
    /\ exporter = "loop"
    /\ exporting = "none"
    /\ owed = 0
    /\ stopped = FALSE
    /\ flush = "none"

-----------------------------------------------------------------------------
Queued ==
    /\ queue' = Append(queue, IF stopped THEN "late" ELSE "early")
    /\ owed' = IF stopped THEN owed ELSE owed + 1

\* Mutant: a span waits for its place in the queue.
SubmitWaits ==
    /\ Len(queue) < QueueCapacity
    /\ Queued
    /\ UNCHANGED <<exporter, exporting, stopped, flush>>

\* put_nowait: a span for which there is no place is dropped.
Submit ==
    /\ IF Len(queue) < QueueCapacity THEN Queued ELSE UNCHANGED <<queue, owed>>
    /\ UNCHANGED <<exporter, exporting, stopped, flush>>

\* Mutant: the queue is looked at before the event.
LoopQueueFirst ==
    /\ \/ /\ exporter = "loop"
          /\ exporter' = IF queue # <<>> THEN "get" ELSE "drain"
       \/ /\ exporter = "drain"
          /\ exporter' = IF stopped THEN "ended" ELSE "get"
    /\ UNCHANGED <<queue, exporting, owed, stopped, flush>>

\* The condition of the loop reads the event and, once that is set, the queue.
Loop ==
    /\ \/ /\ exporter = "loop"
          /\ exporter' = IF stopped THEN "drain" ELSE "get"
       \/ /\ exporter = "drain"
          /\ exporter' = IF queue # <<>> THEN "get" ELSE "ended"
    /\ UNCHANGED <<queue, exporting, owed, stopped, flush>>

Get ==
    /\ exporter = "get"
    /\ queue # <<>>
    /\ queue' = Tail(queue)
    /\ exporting' = Head(queue)
    /\ exporter' = "export"
    /\ UNCHANGED <<owed, stopped, flush>>

\* Nothing came for a tenth of a second.
GetNothing ==
    /\ exporter = "get"
    /\ queue = <<>>
    /\ exporter' = "loop"
    /\ UNCHANGED <<queue, exporting, owed, stopped, flush>>

\* Sent, or failed whatever the exception.
Export ==
    /\ exporter = "export"
    /\ owed' = IF exporting = "early" THEN owed - 1 ELSE owed
    /\ exporting' = "none"
    /\ exporter' = "loop"
    /\ UNCHANGED <<queue, stopped, flush>>

ExporterStep == Loop \/ Get \/ GetNothing \/ Export

Close ==
    /\ ~stopped
    /\ stopped' = TRUE
    /\ flush' = "waiting"
    /\ UNCHANGED <<queue, exporter, exporting, owed>>

\* join returns when the thread has ended or after three seconds: then
\* tracing_flush_incomplete is logged.
CloseReturns ==
    /\ flush = "waiting"
    /\ flush' = IF exporter = "ended" THEN "complete" ELSE "incomplete"
    /\ UNCHANGED <<queue, exporter, exporting, owed, stopped>>

-----------------------------------------------------------------------------
\* A close that reports nothing has lost nothing: every span that was accepted
\* before it has been sent or has failed, although spans are still being submitted
\* and the event set while the exporter looks at the one and then at the other
\* (tracing.py:136 and 160).
FlushIsComplete == flush = "complete" => owed = 0

=============================================================================
