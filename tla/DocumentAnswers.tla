-------------------------- MODULE DocumentAnswers ---------------------------
(***************************************************************************)
(* RagProcessor of rag_agent.py in one worker, over an index that operators*)
(* replace meanwhile, with the spans that it exports.  An attempt is a     *)
(* coroutine that waits for a thread of its own (retrieve) and then for    *)
(* the model.  The worker's timeout ends the coroutine and not the thread, *)
(* which goes on beside the next attempt and even after the session of     *)
(* tracing was closed.                                                     *)
(*                                                                         *)
(* The spans of routing and of the worker itself are like the others and   *)
(* left out.  The model is external: it may cite anything.                 *)
(***************************************************************************)
EXTENDS KnowledgeIndex, TraceExporter

CONSTANTS
    Request,       \* attempts at an answer; TextsOf gives the question of each
    MayRead,       \* the points that the roles of the user give access to
    EvidenceLimit, \* passages that fit into the prompt
    Invented       \* a source that is not in the evidence, or a quote not in it

ASSUME AnswerAssumption ==
    /\ Process = Run \union Request /\ Run \intersect Request = {}
    /\ \A q \in Request : Attempts[q] = 1 /\ Cardinality(TextsOf[q]) = 1
    /\ MayRead \in [Request -> SUBSET Text]
    /\ EvidenceLimit \in Nat \ {0}
    /\ Invented \notin Text

VARIABLES
    answering, \* where the coroutine is
    thread,    \* where its thread is
    pinned,    \* the collection the thread searches
    sources,   \* what the search returned, and then the evidence
    citations  \* what the answer of the attempt cites, nothing without an answer

answerVars == <<answering, thread, pinned, sources, citations>>
vars == <<answerVars, indexVars, embeddingVars, exporterVars>>

Init ==
    /\ EmbeddingInit /\ IndexInit /\ ExporterInit
    /\ answering = [q \in Request |-> "idle"]
    /\ thread = [q \in Request |-> "none"]
    /\ pinned = [q \in Request |-> None]
    /\ sources = [q \in Request |-> {}]
    /\ citations = [q \in Request |-> {}]

Active(q) == answering[q] \in {"searching", "generating", "finishing"}

-----------------------------------------------------------------------------
\* The worker has one attempt at a time.
MayStart(q) ==
    /\ answering[q] = "idle"
    /\ ~stopped
    /\ \A other \in Request : ~Active(other)

Start(q) ==
    /\ MayStart(q)
    /\ answering' = [answering EXCEPT ![q] = "searching"]
    /\ thread' = [thread EXCEPT ![q] = "pin"]
    /\ UNCHANGED <<pinned, sources, citations, indexVars, embeddingVars, exporterVars>>

\* The user has no roles, the question is too long, there is no key.
StartRefused(q) ==
    /\ MayStart(q)
    /\ answering' = [answering EXCEPT ![q] = "finishing"]
    /\ UNCHANGED <<thread, pinned, sources, citations, indexVars, embeddingVars, exporterVars>>

-----------------------------------------------------------------------------
\* The thread: pin_snapshot, embed the question, search, then close the span.
\* Every request of it may fail.  Its result is dropped when nobody awaits it.
ThreadIs(q, now) == thread' = [thread EXCEPT ![q] = now]

Pin(q) ==
    /\ thread[q] = "pin"
    /\ alias # None
    /\ pinned' = [pinned EXCEPT ![q] = alias]
    /\ ThreadIs(q, "embed")
    /\ UNCHANGED <<answering, sources, citations, indexVars, embeddingVars, exporterVars>>

ThreadEmbeds(q) ==
    /\ thread[q] = "embed"
    /\ Embed(q)
    /\ ThreadIs(q, IF embedding'[q] = "done" THEN "search" ELSE "embed")
    /\ UNCHANGED <<answering, pinned, sources, citations, indexVars, exporterVars>>

\* Mutant: the search goes by the alias, whatever collection is reported.
SearchedByAlias(q) == alias

Searched(q) == pinned[q]

\* Qdrant returns what it wants of the collection; whatever the user may not read
\* is an error.
Search(q) ==
    /\ thread[q] = "search"
    /\ \E hits \in SUBSET collection[Searched(q)] :
          IF hits \subseteq MayRead[q]
          THEN sources' = [sources EXCEPT ![q] = hits] /\ ThreadIs(q, "returning")
          ELSE UNCHANGED sources /\ ThreadIs(q, "failing")
    /\ UNCHANGED <<answering, pinned, citations, indexVars, embeddingVars, exporterVars>>

\* Also when there is no alias, or no vector of the question.
ThreadFails(q) ==
    /\ thread[q] \in {"pin", "search"} \/ embedding[q] = "failed"
    /\ ThreadIs(q, "failing")
    /\ UNCHANGED <<answering, pinned, sources, citations, indexVars, embeddingVars, exporterVars>>

ThreadEnds(q) ==
    /\ thread[q] \in {"returning", "failing"}
    /\ Submit
    /\ ThreadIs(q, CASE answering[q] # "searching" -> "none"
                     [] thread[q] = "returning" -> "returned"
                     [] OTHER -> "failed")
    /\ sources' = [sources EXCEPT ![q] = IF answering[q] = "searching" THEN @ ELSE {}]
    /\ CloseEmbeddings(q)
    /\ UNCHANGED <<answering, pinned, citations, indexVars>>

ThreadStep(q) == Pin(q) \/ ThreadEmbeds(q) \/ Search(q) \/ ThreadFails(q) \/ ThreadEnds(q)

-----------------------------------------------------------------------------
\* The coroutine: what it returns is fixed before its span is closed.
Finishing(q, cited) ==
    /\ answering' = [answering EXCEPT ![q] = "finishing"]
    /\ citations' = [citations EXCEPT ![q] = cited]

\* The passages that fit, in the order of the search.  Nothing fits when each one
\* alone is too long.
PackEvidence(q) ==
    /\ answering[q] = "searching" /\ thread[q] = "returned"
    /\ \E evidence \in SUBSET sources[q] :
          /\ Cardinality(evidence) <= EvidenceLimit
          /\ sources' = [sources EXCEPT ![q] = evidence]
          /\ IF evidence = {}
             THEN Finishing(q, {})
             ELSE answering' = [answering EXCEPT ![q] = "generating"] /\ UNCHANGED citations
    /\ ThreadIs(q, "none")
    /\ UNCHANGED <<pinned, indexVars, embeddingVars, exporterVars>>

RetrievalFailed(q) ==
    /\ answering[q] = "searching" /\ thread[q] = "failed"
    /\ Finishing(q, {})
    /\ ThreadIs(q, "none")
    /\ UNCHANGED <<pinned, sources, indexVars, embeddingVars, exporterVars>>

ValidateAnswer(q, claims) ==
    IF claims \subseteq sources[q] THEN claims ELSE {}

\* The model answers with claims, or its answer is incomplete, refused or not in
\* the form that was asked for: as if it claimed nothing.
Generated(q) ==
    /\ answering[q] = "generating"
    /\ Submit
    /\ \E claims \in SUBSET (Text \union {Invented}) : Finishing(q, ValidateAnswer(q, claims))
    /\ UNCHANGED <<thread, pinned, sources, indexVars, embeddingVars>>

GenerationFails(q) ==
    /\ answering[q] = "generating"
    /\ Submit
    /\ Finishing(q, {})
    /\ UNCHANGED <<thread, pinned, sources, indexVars, embeddingVars>>

\* worker_timeout_seconds, at one of the two awaits.
TimeOut(q) ==
    /\ answering[q] \in {"searching", "generating"}
    /\ IF answering[q] = "generating" THEN Submit ELSE UNCHANGED exporterVars
    /\ Finishing(q, {})
    /\ UNCHANGED <<thread, pinned, sources, indexVars, embeddingVars>>

Finish(q) ==
    /\ answering[q] = "finishing"
    /\ Submit
    /\ answering' = [answering EXCEPT ![q] = "done"]
    /\ sources' = [sources EXCEPT ![q] = IF thread[q] = "none" THEN {} ELSE @]
    /\ UNCHANGED <<thread, pinned, citations, indexVars, embeddingVars>>

AnswerStep(q) ==
    \/ PackEvidence(q) \/ RetrievalFailed(q) \/ Generated(q) \/ GenerationFails(q)
    \/ TimeOut(q) \/ Finish(q)

-----------------------------------------------------------------------------
\* The worker stops between two attempts.
CloseSession ==
    /\ \A q \in Request : ~Active(q)
    /\ Close
    /\ UNCHANGED <<answerVars, indexVars, embeddingVars>>

ExporterWorks ==
    /\ ExporterStep \/ CloseReturns
    /\ UNCHANGED <<answerVars, indexVars, embeddingVars>>

OperatorIngests(r) == IngestStep(r) /\ UNCHANGED <<answerVars, exporterVars>>

Next ==
    \/ \E q \in Request : Start(q) \/ StartRefused(q) \/ ThreadStep(q) \/ AnswerStep(q)
    \/ \E r \in Run : OperatorIngests(r)
    \/ CloseSession
    \/ ExporterWorks

Spec == Init /\ [][Next]_vars

-----------------------------------------------------------------------------
\* An answer cites what its user may read and nothing else, all of it from the one
\* snapshot that it reports, although operators publish others meanwhile, Qdrant
\* returns anything and the model claims anything (rag_agent.py:117, retrieval.py:202).
CitationsAreReadable ==
    \A q \in Request : citations[q] # {} =>
        citations[q] \subseteq TextsOf[pinned[q]] \intersect MayRead[q]

\* What works never waits for the one who exports: an attempt or a thread under way
\* has a next step of its own, whatever becomes of the queue (tracing.py:126).
WorkNeverWaits ==
    \A q \in Request :
        /\ Active(q) => ENABLED (ThreadStep(q) \/ AnswerStep(q))
        /\ thread[q] \notin {"none", "returned", "failed"} => ENABLED ThreadStep(q)

=============================================================================
