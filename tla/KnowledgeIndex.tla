--------------------------- MODULE KnowledgeIndex ---------------------------
(***************************************************************************)
(* Retriever of retrieval.py: each ingestion fills a collection of its own *)
(* in Qdrant and then moves the alias to it; readers find a collection by  *)
(* the alias and keep to it.  Ingestions are commands of an operator: they *)
(* may overlap, fail or be interrupted at any step.                        *)
(*                                                                         *)
(* A text to ingest is a point with its payload, permissions included.     *)
(* Qdrant is external.  A request that times out may take effect later:    *)
(* it then takes effect first and the command fails afterwards.            *)
(***************************************************************************)
EXTENDS Embeddings

CONSTANTS
    Run,   \* ingestions; TextsOf gives the corpus of each
    None   \* no collection

ASSUME IndexAssumption == Run \subseteq Process /\ None \notin Run

VARIABLES
    ingest,     \* where the ingestion is
    collection, \* the points in the collection of each run, None before it exists
    aliased,    \* the run has seen the alias in use
    alias       \* the collection that the alias names

indexVars == <<ingest, collection, aliased, alias>>

Ingest == {"idle", "embed", "create", "upload", "look", "switch", "done", "failed"}

IndexInit ==
    /\ ingest = [r \in Run |-> "idle"]
    /\ collection = [r \in Run |-> None]
    /\ aliased = [r \in Run |-> FALSE]
    /\ alias = None

-----------------------------------------------------------------------------
\* GET /collections answers: Qdrant is there.
StartIngest(r) ==
    /\ ingest[r] = "idle"
    /\ ingest' = [ingest EXCEPT ![r] = "embed"]
    /\ UNCHANGED <<collection, aliased, alias, embeddingVars>>

IngestEmbeds(r) ==
    /\ ingest[r] = "embed"
    /\ Embed(r)
    /\ ingest' = [ingest EXCEPT ![r] = IF embedding'[r] = "done" THEN "create" ELSE "embed"]
    /\ UNCHANGED <<collection, aliased, alias>>

Create(r) ==
    /\ ingest[r] = "create"
    /\ collection' = [collection EXCEPT ![r] = {}]
    /\ ingest' = [ingest EXCEPT ![r] = "upload"]
    /\ UNCHANGED <<aliased, alias, embeddingVars>>

\* Mutant: the last batch is left out.
UploadedButOne(r, points) == Cardinality(TextsOf[r] \ points) <= 1

Uploaded(r, points) == TextsOf[r] \subseteq points

\* One batch, answered when Qdrant has it.
Upload(r) ==
    /\ ingest[r] = "upload"
    /\ \E t \in TextsOf[r] \ collection[r] :
          collection' = [collection EXCEPT ![r] = @ \union {t}]
    /\ ingest' = [ingest EXCEPT ![r] = IF Uploaded(r, collection'[r]) THEN "look" ELSE "upload"]
    /\ UNCHANGED <<aliased, alias, embeddingVars>>

LookAtAliases(r) ==
    /\ ingest[r] = "look"
    /\ aliased' = [aliased EXCEPT ![r] = (alias # None)]
    /\ ingest' = [ingest EXCEPT ![r] = "switch"]
    /\ UNCHANGED <<collection, alias, embeddingVars>>

\* Mutant: the alias is deleted and created by two requests.
SwitchInTwo(r) ==
    /\ ingest[r] = "switch"
    /\ IF aliased[r]
       THEN /\ alias' = None
            /\ aliased' = [aliased EXCEPT ![r] = FALSE]
            /\ UNCHANGED ingest
       ELSE /\ alias' = r
            /\ ingest' = [ingest EXCEPT ![r] = "done"]
            /\ UNCHANGED aliased
    /\ CloseEmbeddings(r)
    /\ UNCHANGED collection

\* Both actions of the request take effect at once.  Without the deletion an alias
\* that another ingestion made meanwhile is replaced, or the request refused.
Switch(r) ==
    /\ ingest[r] = "switch"
    /\ \/ /\ alias' = r
          /\ ingest' = [ingest EXCEPT ![r] = "done"]
       \/ /\ ~aliased[r] /\ alias # None
          /\ ingest' = [ingest EXCEPT ![r] = "failed"]
          /\ UNCHANGED alias
    /\ CloseEmbeddings(r)
    /\ UNCHANGED <<collection, aliased>>

\* A request fails or is not answered, or the command is interrupted.
IngestFails(r) ==
    /\ ingest[r] \notin {"idle", "done", "failed"}
    /\ ingest' = [ingest EXCEPT ![r] = "failed"]
    /\ CloseEmbeddings(r)
    /\ UNCHANGED <<collection, aliased, alias>>

IngestStep(r) ==
    \/ StartIngest(r) \/ IngestEmbeds(r) \/ Create(r) \/ Upload(r)
    \/ LookAtAliases(r) \/ Switch(r) \/ IngestFails(r)

-----------------------------------------------------------------------------
\* Once published, an index is there for ever, and what the alias moves to is the
\* whole corpus of one ingestion, however others overlap, fail or are interrupted:
\* "the old or the complete new snapshot" (retrieval.py:161).
ReadersSeeWholeIndex ==
    [][alias' # alias => alias' # None /\ collection[alias'] = TextsOf[alias']]_<<alias>>

=============================================================================
