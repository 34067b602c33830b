----------------------- MODULE DocumentAnswersProofs -----------------------
(***************************************************************************)
(* Bills, snapshots, spans and citations, for every number of ingestions,  *)
(* attempts, texts and places in the queue.  Each component has an         *)
(* invariant of its own, and each step of the whole is a step of that      *)
(* component or leaves it alone.                                           *)
(***************************************************************************)
EXTENDS DocumentAnswers, FiniteSetTheorems, SequenceTheorems, TLAPS

LEMMA Members ==
    /\ Run \subseteq Process /\ Request \subseteq Process
    /\ Run \intersect Request = {}
    /\ None \notin Run /\ Invented \notin Text
BY IndexAssumption, AnswerAssumption DEF IndexAssumption, AnswerAssumption

-----------------------------------------------------------------------------
\* Embeddings.  Every attempt but the last few was made for a text whose vector is
\* there: that bounds the attempts by the texts.
EmbeddingTypeOK ==
    /\ cache \subseteq Text
    /\ embedding \in [Process -> Embedding]
    /\ vectors \in [Process -> SUBSET Text]
    /\ tries \in [Process -> Nat]
    /\ requested \in [Process -> Nat]
    /\ billed \in [Process -> Nat]

Searching(p) == embedding[p] \in {"asking", "sent", "answered", "failed"}

VectorsFit(p) ==
    /\ vectors[p] \subseteq TextsOf[p]
    /\ Searching(p) => vectors[p] # TextsOf[p]

AttemptsFit(p) ==
    /\ tries[p] <= Attempts[p]
    /\ embedding[p] = "asking" => tries[p] < Attempts[p]
    /\ embedding[p] \in {"idle", "done"} => tries[p] = 0
    /\ embedding[p] = "idle" => requested[p] = 0 /\ vectors[p] = {}
    /\ requested[p] <= Attempts[p] * Cardinality(vectors[p]) + tries[p]

BillFits(p) ==
    /\ requested[p] <= MaxRequested
    /\ billed[p] <= requested[p]
    /\ embedding[p] = "sent" => billed[p] < requested[p]

EmbeddingInv ==
    /\ EmbeddingTypeOK
    /\ \A p \in Process : VectorsFit(p) /\ AttemptsFit(p) /\ BillFits(p)

LEMMA Corpus ==
    ASSUME NEW p \in Process
    PROVE  /\ TextsOf[p] \in SUBSET Text
           /\ IsFiniteSet(TextsOf[p])
           /\ Attempts[p] \in 1..3
           /\ MaxRequested \in Nat
BY EmbeddingAssumption DEF EmbeddingAssumption

\* What has been received is counted, and less than the whole while texts lack.
LEMMA Received ==
    ASSUME NEW p \in Process, NEW vs \in SUBSET TextsOf[p]
    PROVE  /\ IsFiniteSet(vs)
           /\ Cardinality(vs) \in Nat
           /\ Cardinality(TextsOf[p]) \in Nat
           /\ Cardinality(vs) <= Cardinality(TextsOf[p])
           /\ vs # TextsOf[p] => Cardinality(vs) < Cardinality(TextsOf[p])
BY Corpus, FS_Subset, FS_CardinalityType

LEMMA TextIsLeft ==
    ASSUME NEW p \in Process, VectorsFit(p), Searching(p)
    PROVE  (CHOOSE u \in TextsOf[p] \ vectors[p] : TRUE) \in TextsOf[p] \ vectors[p]
<1>1. TextsOf[p] \ vectors[p] # {}
  BY DEF VectorsFit
<1> QED  BY <1>1

LEMMA EmbeddingTypesKept ==
    ASSUME EmbeddingTypeOK, NEW p \in Process, VectorsFit(p),
           Embed(p) \/ CloseEmbeddings(p)
    PROVE  EmbeddingTypeOK'
<1>1. CASE ReadCache(p)
  BY <1>1, Corpus DEF ReadCache, EmbeddingTypeOK, AfterVectors, Embedding
<1>2. CASE Ask(p)
  BY <1>2 DEF Ask, EmbeddingTypeOK, Embedding
<1>3. CASE Answered(p) \/ Unanswered(p) \/ Unusable(p)
  BY <1>3 DEF Answered, Unanswered, Unusable, ProviderBills, EmbeddingTypeOK, Embedding
<1>4. CASE Save(p)
  BY <1>4, Corpus, TextIsLeft DEF Save, EmbeddingTypeOK, AfterVectors, Embedding, Searching
<1>5. CASE CloseEmbeddings(p)
  BY <1>5 DEF CloseEmbeddings, EmbeddingTypeOK, Embedding
<1> QED  BY <1>1, <1>2, <1>3, <1>4, <1>5 DEF Embed

\* Only one instance changes at a time.
LEMMA OthersKeep ==
    ASSUME EmbeddingInv, NEW p \in Process, Embed(p) \/ CloseEmbeddings(p),
           NEW o \in Process \ {p}
    PROVE  (VectorsFit(o) /\ AttemptsFit(o) /\ BillFits(o))'
<1>1. /\ embedding'[o] = embedding[o] /\ vectors'[o] = vectors[o] /\ tries'[o] = tries[o]
      /\ requested'[o] = requested[o] /\ billed'[o] = billed[o]
  BY DEF Embed, ReadCache, Ask, Answered, Unanswered, Unusable, Save, ProviderBills,
         CloseEmbeddings, EmbeddingInv, EmbeddingTypeOK
<1>2. VectorsFit(o) /\ AttemptsFit(o) /\ BillFits(o)
  BY DEF EmbeddingInv
<1> QED  BY <1>1, <1>2 DEF VectorsFit, AttemptsFit, BillFits, Searching

LEMMA VectorsFitKept ==
    ASSUME EmbeddingInv, NEW p \in Process, Embed(p) \/ CloseEmbeddings(p)
    PROVE  VectorsFit(p)'
<1> USE DEF EmbeddingInv, EmbeddingTypeOK, Embedding, VectorsFit, Searching
<1>1. CASE ReadCache(p)
  BY <1>1 DEF ReadCache, AfterVectors
<1>2. CASE Ask(p) \/ Answered(p) \/ Unanswered(p) \/ Unusable(p)
  BY <1>2 DEF Ask, Answered, Unanswered, Unusable
<1>3. CASE Save(p)
  BY <1>3, TextIsLeft DEF Save, AfterVectors
<1>4. CASE CloseEmbeddings(p)
  BY <1>4, Corpus DEF CloseEmbeddings
<1> QED  BY <1>1, <1>2, <1>3, <1>4 DEF Embed

LEMMA AttemptsFitKept ==
    ASSUME EmbeddingInv, NEW p \in Process, Embed(p) \/ CloseEmbeddings(p)
    PROVE  AttemptsFit(p)'
<1> USE Corpus DEF EmbeddingInv, EmbeddingTypeOK, Embedding, AttemptsFit
<1>1. vectors[p] \subseteq TextsOf[p] /\ Cardinality(vectors[p]) \in Nat
  BY Received DEF VectorsFit
<1>2. CASE ReadCache(p)
  <2>1. vectors'[p] \subseteq TextsOf[p]
    BY <1>2 DEF ReadCache
  <2>2. Cardinality(vectors'[p]) \in Nat
    BY <2>1, Received
  <2>3. requested'[p] = 0 /\ tries'[p] = 0 /\ embedding'[p] \in {"done", "asking"}
    BY <1>2 DEF ReadCache, AfterVectors
  <2> QED  BY <2>2, <2>3
<1>3. CASE Ask(p) \/ Answered(p) \/ Unanswered(p) \/ Unusable(p)
  BY <1>1, <1>3 DEF Ask, Answered, Unanswered, Unusable
<1>4. CASE Save(p)
  <2> DEFINE t == CHOOSE u \in TextsOf[p] \ vectors[p] : TRUE
  <2>1. t \in TextsOf[p] \ vectors[p]
    BY <1>4, TextIsLeft DEF Save, Searching
  <2> HIDE DEF t
  <2>2. vectors'[p] = vectors[p] \union {t}
    BY <1>4 DEF Save, t
  <2>3. Cardinality(vectors'[p]) = Cardinality(vectors[p]) + 1
    BY <1>1, <2>1, <2>2, Received, FS_AddElement
  <2>4. tries'[p] = 0 /\ requested'[p] = requested[p] /\ embedding'[p] \in {"done", "asking"}
    BY <1>4 DEF Save, AfterVectors
  <2> QED  BY <1>1, <2>3, <2>4
<1>5. CASE CloseEmbeddings(p)
  BY <1>5, FS_EmptySet DEF CloseEmbeddings
<1> QED  BY <1>2, <1>3, <1>4, <1>5 DEF Embed

LEMMA BillFitsKept ==
    ASSUME EmbeddingInv, NEW p \in Process, Embed(p) \/ CloseEmbeddings(p)
    PROVE  BillFits(p)'
<1> USE Corpus DEF EmbeddingInv, EmbeddingTypeOK, Embedding, BillFits
<1>1. CASE ReadCache(p) \/ Save(p)
  BY <1>1 DEF ReadCache, Save, AfterVectors
<1>2. CASE Ask(p)
  BY <1>2 DEF Ask
<1>3. CASE Answered(p) \/ Unanswered(p) \/ Unusable(p)
  BY <1>3 DEF Answered, Unanswered, Unusable, ProviderBills
<1>4. CASE CloseEmbeddings(p)
  BY <1>4 DEF CloseEmbeddings
<1> QED  BY <1>1, <1>2, <1>3, <1>4 DEF Embed

LEMMA EmbeddingKept ==
    ASSUME EmbeddingInv, NEW p \in Process, Embed(p) \/ CloseEmbeddings(p)
    PROVE  EmbeddingInv'
<1>1. EmbeddingTypeOK'
  BY EmbeddingTypesKept DEF EmbeddingInv
<1>2. (VectorsFit(p) /\ AttemptsFit(p) /\ BillFits(p))'
  BY VectorsFitKept, AttemptsFitKept, BillFitsKept
<1>3. \A o \in Process \ {p} : (VectorsFit(o) /\ AttemptsFit(o) /\ BillFits(o))'
  BY OthersKeep
<1> QED  BY <1>1, <1>2, <1>3 DEF EmbeddingInv

LEMMA BillsFollow ==
    EmbeddingInv => BillsAreBounded
<1> SUFFICES ASSUME EmbeddingInv, NEW p \in Process
             PROVE  /\ billed[p] <= MaxRequested
                    /\ billed[p] <= Attempts[p] * Cardinality(TextsOf[p])
  BY DEF BillsAreBounded
<1>1. /\ vectors[p] \subseteq TextsOf[p]
      /\ Searching(p) => vectors[p] # TextsOf[p]
      /\ AttemptsFit(p) /\ BillFits(p)
      /\ embedding[p] \in Embedding /\ requested[p] \in Nat /\ billed[p] \in Nat
      /\ tries[p] \in Nat
  BY DEF EmbeddingInv, EmbeddingTypeOK, VectorsFit
<1>2. /\ Cardinality(vectors[p]) \in Nat /\ Cardinality(TextsOf[p]) \in Nat
      /\ Cardinality(vectors[p]) <= Cardinality(TextsOf[p])
      /\ Searching(p) => Cardinality(vectors[p]) < Cardinality(TextsOf[p])
  <2>1. vectors[p] \in SUBSET TextsOf[p]
    BY <1>1
  <2>2. /\ Cardinality(vectors[p]) \in Nat /\ Cardinality(TextsOf[p]) \in Nat
        /\ Cardinality(vectors[p]) <= Cardinality(TextsOf[p])
        /\ vectors[p] # TextsOf[p] => Cardinality(vectors[p]) < Cardinality(TextsOf[p])
    BY <2>1, Received
  <2> QED  BY <1>1, <2>2
<1>3. tries[p] # 0 => Searching(p)
  BY <1>1 DEF AttemptsFit, Searching, Embedding
<1>4. requested[p] <= Attempts[p] * Cardinality(vectors[p]) + tries[p] /\ tries[p] <= Attempts[p]
  BY <1>1 DEF AttemptsFit
<1>5. requested[p] <= Attempts[p] * Cardinality(TextsOf[p])
  <2>1. Attempts[p] = 1 \/ Attempts[p] = 2 \/ Attempts[p] = 3
    BY Corpus
  <2> QED  BY <1>1, <1>2, <1>3, <1>4, <2>1
<1>6. MaxRequested \in Nat /\ Attempts[p] * Cardinality(TextsOf[p]) \in Nat
  BY <1>2, Corpus
<1>7. billed[p] <= requested[p] /\ requested[p] <= MaxRequested
  BY <1>1 DEF BillFits
<1> QED  BY <1>1, <1>5, <1>6, <1>7

-----------------------------------------------------------------------------
\* The index.  A collection is only ever named by the alias, or pinned by a reader,
\* when its ingestion is done with it.
IndexInv ==
    /\ ingest \in [Run -> Ingest]
    /\ DOMAIN collection = Run
    /\ DOMAIN aliased = Run
    /\ alias \in Run \union {None}
    /\ \A r \in Run :
          /\ ingest[r] = "upload" => collection[r] \subseteq TextsOf[r]
          /\ ingest[r] \in {"look", "switch", "done"} => collection[r] = TextsOf[r]
    /\ alias # None => ingest[alias] = "done"

LEMMA IndexKept ==
    ASSUME IndexInv, NEW r \in Run, IngestStep(r)
    PROVE  /\ IndexInv'
           /\ \A x \in Run : ingest[x] = "done" =>
                 ingest'[x] = "done" /\ collection'[x] = collection[x]
<1> USE DEF IndexInv, Ingest
<1>1. CASE StartIngest(r) \/ IngestEmbeds(r) \/ LookAtAliases(r) \/ IngestFails(r)
  BY <1>1 DEF StartIngest, IngestEmbeds, LookAtAliases, IngestFails
<1>2. CASE Create(r)
  BY <1>2 DEF Create
<1>3. CASE Upload(r)
  BY <1>3 DEF Upload, Uploaded
<1>4. CASE Switch(r)
  BY <1>4 DEF Switch
<1> QED  BY <1>1, <1>2, <1>3, <1>4 DEF IngestStep

LEMMA PublishesWhole ==
    ASSUME IndexInv, NEW r \in Run, IngestStep(r), alias' # alias
    PROVE  alias' # None /\ collection[alias'] = TextsOf[alias']
BY Members DEF IndexInv, IngestStep, StartIngest, IngestEmbeds, LookAtAliases, IngestFails,
   Create, Upload, Switch

-----------------------------------------------------------------------------
\* The exporter.  Spans accepted before the close are at the front of the queue, and
\* as many as are owed and not in the exporter's hand.
EarlySpans(q, n) ==
    /\ n \in 0..Len(q)
    /\ \A i \in 1..Len(q) : q[i] = "early" <=> i <= n

InHand == IF exporting = "early" THEN 1 ELSE 0

ExporterInv ==
    /\ queue \in Seq({"early", "late"})
    /\ exporter \in {"loop", "drain", "get", "export", "ended"}
    /\ exporting \in {"early", "late", "none"}
    /\ exporting # "none" => exporter = "export"
    /\ stopped \in BOOLEAN
    /\ owed \in Nat
    /\ EarlySpans(queue, owed - InHand)
    /\ ~stopped => owed - InHand = Len(queue)
    /\ exporting = "late" => stopped /\ owed = 0
    /\ exporter = "drain" => stopped
    /\ exporter = "ended" => stopped /\ owed = 0
    /\ flush = "complete" => exporter = "ended"

LEMMA SpanAppended ==
    ASSUME NEW q \in Seq({"early", "late"}), NEW n, EarlySpans(q, n),
           NEW s \in {"early", "late"}
    PROVE  /\ Append(q, s) \in Seq({"early", "late"})
           /\ Len(Append(q, s)) = Len(q) + 1
           /\ s = "late" => EarlySpans(Append(q, s), n)
           /\ s = "early" /\ n = Len(q) => EarlySpans(Append(q, s), n + 1)
<1>1. /\ Append(q, s) \in Seq({"early", "late"})
      /\ Len(Append(q, s)) = Len(q) + 1
      /\ Append(q, s)[Len(q) + 1] = s
      /\ \A i \in 1..Len(q) : Append(q, s)[i] = q[i]
  BY AppendProperties
<1>2. Len(q) \in Nat
  BY LenProperties
<1> QED  BY <1>1, <1>2 DEF EarlySpans

LEMMA SpanTaken ==
    ASSUME NEW q \in Seq({"early", "late"}), q # <<>>, NEW n, EarlySpans(q, n)
    PROVE  /\ Tail(q) \in Seq({"early", "late"})
           /\ Len(q) \in Nat /\ Len(Tail(q)) = Len(q) - 1
           /\ Head(q) \in {"early", "late"}
           /\ Head(q) = "early" => EarlySpans(Tail(q), n - 1)
           /\ Head(q) = "late" => n = 0 /\ EarlySpans(Tail(q), n)
<1>1. /\ Head(q) \in {"early", "late"}
      /\ Tail(q) \in Seq({"early", "late"})
      /\ Len(Tail(q)) = Len(q) - 1
      /\ \A i \in 1..Len(Tail(q)) : Tail(q)[i] = q[i + 1]
  BY HeadTailProperties
<1>2. Len(q) \in Nat \ {0}
  BY EmptySeq
<1>3. Head(q) = q[1]
  OBVIOUS
<1>4. 1 \in 1..Len(q)
  BY <1>2
<1>5. Head(q) = "early" <=> n >= 1
  BY <1>3, <1>4 DEF EarlySpans
<1>6. n \in 0..Len(q) /\ \A i \in 1..Len(q) : q[i] = "early" <=> i <= n
  BY DEF EarlySpans
<1>7. \A i \in 1..Len(Tail(q)) : Tail(q)[i] = "early" <=> i <= n - 1
  BY <1>1, <1>2, <1>6
<1>8. ASSUME Head(q) = "early" PROVE EarlySpans(Tail(q), n - 1)
  BY <1>1, <1>2, <1>5, <1>6, <1>7, <1>8 DEF EarlySpans
<1>9. ASSUME Head(q) = "late" PROVE n = 0 /\ EarlySpans(Tail(q), n)
  BY <1>1, <1>2, <1>5, <1>6, <1>7, <1>9 DEF EarlySpans
<1> QED  BY <1>1, <1>2, <1>8, <1>9

LEMMA SubmitKeeps ==
    ASSUME ExporterInv, Submit
    PROVE  ExporterInv'
<1> DEFINE n == owed - InHand
<1>1. /\ queue \in Seq({"early", "late"}) /\ EarlySpans(queue, n)
      /\ stopped \in BOOLEAN /\ owed \in Nat /\ n \in Int
      /\ ~stopped => n = Len(queue)
  BY DEF ExporterInv, InHand
<1>2. UNCHANGED <<exporter, exporting, stopped, flush>>
  BY DEF Submit
<1>3. CASE UNCHANGED <<queue, owed>>
  BY <1>2, <1>3 DEF ExporterInv, InHand, EarlySpans
<1>4. CASE Queued
  <2>1. /\ queue' = Append(queue, IF stopped THEN "late" ELSE "early")
        /\ owed' = IF stopped THEN owed ELSE owed + 1
    BY <1>4 DEF Queued
  <2>2. n' = IF stopped THEN n ELSE n + 1
    BY <1>1, <1>2, <2>1 DEF InHand
  <2>3. queue' \in Seq({"early", "late"}) /\ EarlySpans(queue', n') /\ (~stopped => n' = Len(queue'))
    <3> HIDE DEF n
    <3>1. CASE stopped
      BY <1>1, <2>1, <2>2, <3>1, SpanAppended
    <3>2. CASE ~stopped
      BY <1>1, <2>1, <2>2, <3>2, SpanAppended
    <3> QED  BY <1>1, <3>1, <3>2
  <2>4. EarlySpans(queue, owed - InHand)'
    BY <2>3 DEF EarlySpans
  <2>5. owed' \in Nat /\ (stopped => owed' = owed)
    BY <1>1, <2>1
  <2>6. ~stopped' => (owed - InHand)' = Len(queue')
    BY <1>2, <2>3
  <2>7. /\ exporting' = "late" => stopped' /\ owed' = 0
        /\ exporter' = "ended" => stopped' /\ owed' = 0
    BY <1>2, <2>5 DEF ExporterInv
  <2> QED  BY <1>2, <2>3, <2>4, <2>5, <2>6, <2>7 DEF ExporterInv
<1> QED  BY <1>3, <1>4 DEF Submit

LEMMA GetKeeps ==
    ASSUME ExporterInv, Get
    PROVE  ExporterInv'
<1>1. /\ queue \in Seq({"early", "late"}) /\ EarlySpans(queue, owed) /\ owed \in Nat
      /\ ~stopped => owed = Len(queue)
      /\ exporting = "none" /\ queue # <<>>
  BY DEF ExporterInv, InHand, Get
<1>2. /\ queue' = Tail(queue) /\ exporting' = Head(queue)
      /\ exporter' = "export" /\ flush # "complete"
      /\ UNCHANGED <<owed, stopped, flush>>
  BY DEF Get, ExporterInv
<1>3. /\ queue' \in Seq({"early", "late"})
      /\ Len(queue) \in Nat /\ Len(queue') = Len(queue) - 1
      /\ exporting' \in {"early", "late"}
      /\ exporting' = "early" => EarlySpans(queue', owed - 1)
      /\ exporting' = "late" => owed = 0 /\ EarlySpans(queue', owed)
  BY <1>1, <1>2, SpanTaken
<1>4. InHand' = IF exporting' = "early" THEN 1 ELSE 0
  BY DEF InHand
<1>5. (owed - InHand)' = IF exporting' = "early" THEN owed - 1 ELSE owed
  BY <1>1, <1>2, <1>4
<1>6. EarlySpans(queue', (owed - InHand)')
  BY <1>3, <1>5
<1>7. EarlySpans(queue, owed - InHand)'
  BY <1>6 DEF EarlySpans
<1>8. ~stopped => (owed - InHand)' = Len(queue')
  <2>1. exporting' = "late" => Len(queue') >= 0
    BY <1>3 DEF EarlySpans
  <2> QED  BY <1>1, <1>3, <1>5, <2>1
<1>9. stopped \in BOOLEAN /\ owed \in Nat
  BY DEF ExporterInv
<1>10. exporting' = "late" => stopped' /\ owed' = 0
  <2>1. Len(queue) # 0
    BY <1>1, EmptySeq
  <2> QED  BY <1>1, <1>2, <1>3, <2>1
<1> QED  BY <1>2, <1>3, <1>7, <1>8, <1>9, <1>10 DEF ExporterInv

LEMMA ExporterKept ==
    ASSUME ExporterInv, ExporterStep \/ Close \/ CloseReturns
    PROVE  ExporterInv'
<1>1. CASE Loop
  <2>1. queue = <<>> => owed - InHand = 0
    BY DEF ExporterInv, EarlySpans
  <2> QED  BY <1>1, <2>1 DEF Loop, ExporterInv, InHand, EarlySpans
<1>2. CASE GetNothing \/ Export
  <2>1. /\ queue' = queue /\ (owed - InHand)' = owed - InHand /\ owed' \in Nat
        /\ owed' <= owed
    BY <1>2 DEF GetNothing, Export, ExporterInv, InHand, EarlySpans
  <2>2. EarlySpans(queue, owed - InHand)'
    BY <2>1 DEF ExporterInv, EarlySpans
  <2> QED  BY <1>2, <2>1, <2>2 DEF GetNothing, Export, ExporterInv
<1>3. CASE Close \/ CloseReturns
  BY <1>3 DEF Close, CloseReturns, ExporterInv, InHand, EarlySpans
<1> QED  BY <1>1, <1>2, <1>3, GetKeeps DEF ExporterStep

-----------------------------------------------------------------------------
\* The attempts.  What a thread returned comes from the collection it pinned, which
\* stays as it was published; a thread that was given up has no answer any more.
AnswerTypeOK ==
    /\ answering \in [Request -> {"idle", "searching", "generating", "finishing", "done"}]
    /\ thread \in [Request -> {"none", "pin", "embed", "search", "returning", "failing",
                               "returned", "failed"}]
    /\ pinned \in [Request -> Run \union {None}]
    /\ DOMAIN sources = Request
    /\ DOMAIN citations = Request

PinFits(q) == pinned[q] # None => ingest[pinned[q]] = "done"

ThreadFits(q) ==
    /\ thread[q] \in {"embed", "search", "returning"} => pinned[q] # None
    /\ thread[q] = "pin" => sources[q] = {}
    /\ thread[q] # "none" => citations[q] = {}
    /\ answering[q] = "idle" => thread[q] = "none" /\ sources[q] = {} /\ citations[q] = {}
    /\ answering[q] = "searching" => citations[q] = {}
    /\ answering[q] = "generating" => thread[q] = "none"
    /\ embedding[q] = "failed" => thread[q] \in {"embed", "failing"}

FromSnapshot(q, texts) ==
    texts # {} => pinned[q] # None /\ texts \subseteq TextsOf[pinned[q]] \intersect MayRead[q]

AnswerInv ==
    /\ AnswerTypeOK
    /\ \A q \in Request :
          /\ PinFits(q)
          /\ ThreadFits(q)
          /\ FromSnapshot(q, sources[q])
          /\ FromSnapshot(q, citations[q])

Fits(q) ==
    PinFits(q) /\ ThreadFits(q) /\ FromSnapshot(q, sources[q]) /\ FromSnapshot(q, citations[q])

IInv == EmbeddingInv /\ IndexInv /\ ExporterInv /\ AnswerInv

\* An ingestion leaves the attempts and what they have pinned alone.
LEMMA IngestionKeepsAnswers ==
    ASSUME AnswerInv, EmbeddingInv, IndexInv, NEW r \in Run, OperatorIngests(r)
    PROVE  AnswerInv'
<1>1. /\ answering' = answering /\ thread' = thread /\ pinned' = pinned
      /\ sources' = sources /\ citations' = citations
  BY DEF OperatorIngests, answerVars
<1>2. \A x \in Run : ingest[x] = "done" => ingest'[x] = "done"
  BY IndexKept DEF OperatorIngests
<1>3. \A q \in Request : embedding'[q] = embedding[q]
  <2> SUFFICES ASSUME NEW q \in Request PROVE embedding'[q] = embedding[q]
    OBVIOUS
  <2>1. q # r /\ q \in Process
    BY Members
  <2> QED
    BY <2>1 DEF OperatorIngests, IngestStep, StartIngest, IngestEmbeds, Create, Upload,
                LookAtAliases, Switch, IngestFails, embeddingVars, CloseEmbeddings, Embed,
                ReadCache, Ask, Answered, Unanswered, Unusable, Save, EmbeddingInv,
                EmbeddingTypeOK
<1> QED
  BY <1>1, <1>2, <1>3 DEF AnswerInv, AnswerTypeOK, PinFits, ThreadFits, FromSnapshot

\* A step of one attempt leaves the others alone.
LEMMA OtherAttemptsKeep ==
    ASSUME AnswerInv, EmbeddingInv, NEW q \in Request,
           Start(q) \/ StartRefused(q) \/ ThreadStep(q) \/ AnswerStep(q),
           NEW o \in Request \ {q}
    PROVE  Fits(o)'
<1>1. /\ answering'[o] = answering[o] /\ thread'[o] = thread[o] /\ pinned'[o] = pinned[o]
      /\ sources'[o] = sources[o] /\ citations'[o] = citations[o]
  BY DEF Start, StartRefused, ThreadStep, AnswerStep, Pin, ThreadEmbeds, Search, ThreadFails,
         ThreadEnds, ThreadIs, PackEvidence, RetrievalFailed, Generated, GenerationFails,
         TimeOut, Finish, Finishing, AnswerInv, AnswerTypeOK
<1>2. embedding'[o] = embedding[o] /\ ingest' = ingest
  <2>1. o # q /\ o \in Process
    BY Members
  <2> QED
    BY <2>1 DEF Start, StartRefused, ThreadStep, AnswerStep, Pin, ThreadEmbeds, Search,
                ThreadFails, ThreadEnds, PackEvidence, RetrievalFailed, Generated,
                GenerationFails, TimeOut, Finish, embeddingVars, indexVars, CloseEmbeddings,
                Embed, ReadCache, Ask, Answered, Unanswered, Unusable, Save, EmbeddingInv,
                EmbeddingTypeOK
<1>3. Fits(o)
  BY DEF AnswerInv, Fits
<1> QED  BY <1>1, <1>2, <1>3 DEF Fits, PinFits, ThreadFits, FromSnapshot

LEMMA AnswerTypesKept ==
    ASSUME AnswerInv, IndexInv, NEW q \in Request,
           Start(q) \/ StartRefused(q) \/ ThreadStep(q) \/ AnswerStep(q)
    PROVE  AnswerTypeOK'
<1> USE DEF AnswerInv, AnswerTypeOK
<1>1. CASE Start(q) \/ StartRefused(q)
  BY <1>1 DEF Start, StartRefused
<1>2. CASE ThreadStep(q)
  BY <1>2 DEF ThreadStep, Pin, ThreadEmbeds, Search, ThreadFails, ThreadEnds, ThreadIs, IndexInv
<1>3. CASE AnswerStep(q)
  BY <1>3 DEF AnswerStep, PackEvidence, RetrievalFailed, Generated, GenerationFails, TimeOut,
              Finish, Finishing, ThreadIs
<1> QED  BY <1>1, <1>2, <1>3

LEMMA ThreadKeeps ==
    ASSUME AnswerInv, EmbeddingInv, IndexInv, NEW q \in Request, ThreadStep(q)
    PROVE  Fits(q)'
<1>1. /\ Fits(q) /\ AnswerTypeOK /\ embedding \in [Process -> Embedding] /\ q \in Process
      /\ pinned[q] \in Run \union {None}
  BY Members DEF AnswerInv, AnswerTypeOK, Fits, EmbeddingInv, EmbeddingTypeOK
<1>2. ingest' = ingest
  BY DEF ThreadStep, Pin, ThreadEmbeds, Search, ThreadFails, ThreadEnds, indexVars
<1> USE DEF Fits, AnswerTypeOK, PinFits, ThreadFits, FromSnapshot, ThreadIs
<1>3. CASE Pin(q)
  BY <1>1, <1>2, <1>3 DEF Pin, IndexInv, embeddingVars
<1>4. CASE ThreadEmbeds(q)
  BY <1>1, <1>2, <1>4 DEF ThreadEmbeds
<1>5. CASE Search(q)
  <2>1. pinned[q] \in Run /\ ingest[pinned[q]] = "done"
    BY <1>1, <1>5 DEF Search
  <2>2. collection[pinned[q]] = TextsOf[pinned[q]]
    BY <2>1 DEF IndexInv
  <2> QED  BY <1>1, <1>2, <1>5, <2>1, <2>2 DEF Search, Searched, embeddingVars
<1>6. CASE ThreadFails(q)
  BY <1>1, <1>2, <1>6 DEF ThreadFails, embeddingVars
<1>7. CASE ThreadEnds(q)
  BY <1>1, <1>2, <1>7 DEF ThreadEnds, CloseEmbeddings
<1> QED  BY <1>3, <1>4, <1>5, <1>6, <1>7 DEF ThreadStep

LEMMA CoroutineKeeps ==
    ASSUME AnswerInv, NEW q \in Request, Start(q) \/ StartRefused(q) \/ AnswerStep(q)
    PROVE  Fits(q)'
<1>1. Fits(q) /\ AnswerTypeOK
  BY DEF AnswerInv, Fits
<1>2. /\ embedding' = embedding /\ ingest' = ingest /\ pinned' = pinned
  BY DEF Start, StartRefused, AnswerStep, PackEvidence, RetrievalFailed, Generated,
         GenerationFails, TimeOut, Finish, indexVars, embeddingVars
<1> USE DEF Fits, AnswerTypeOK, PinFits, ThreadFits, FromSnapshot, ThreadIs, Finishing
<1>3. CASE Start(q) \/ StartRefused(q)
  BY <1>1, <1>2, <1>3 DEF Start, StartRefused, MayStart
<1>4. CASE PackEvidence(q)
  BY <1>1, <1>2, <1>4 DEF PackEvidence
<1>5. CASE RetrievalFailed(q) \/ GenerationFails(q) \/ TimeOut(q)
  BY <1>1, <1>2, <1>5 DEF RetrievalFailed, GenerationFails, TimeOut
<1>6. CASE Generated(q)
  BY <1>1, <1>2, <1>6 DEF Generated, ValidateAnswer
<1>7. CASE Finish(q)
  BY <1>1, <1>2, <1>7 DEF Finish
<1> QED  BY <1>3, <1>4, <1>5, <1>6, <1>7 DEF AnswerStep

LEMMA AnswersKept ==
    ASSUME AnswerInv, EmbeddingInv, IndexInv, NEW q \in Request,
           Start(q) \/ StartRefused(q) \/ ThreadStep(q) \/ AnswerStep(q)
    PROVE  AnswerInv'
<1>1. Fits(q)'
  BY ThreadKeeps, CoroutineKeeps
<1>2. \A o \in Request \ {q} : Fits(o)'
  BY OtherAttemptsKeep
<1>3. AnswerTypeOK'
  BY AnswerTypesKept
<1> QED  BY <1>1, <1>2, <1>3 DEF AnswerInv, Fits

-----------------------------------------------------------------------------
\* The whole: every step is one of a component or leaves that component alone.
Attempt(q) == Start(q) \/ StartRefused(q) \/ ThreadStep(q) \/ AnswerStep(q)

LEMMA NextSplits ==
    Next <=> \/ \E q \in Request : Attempt(q)
             \/ \E r \in Run : OperatorIngests(r)
             \/ CloseSession
             \/ ExporterWorks
BY DEF Next, Attempt

LEMMA EmbeddingSteps ==
    ASSUME Next
    PROVE  \/ \E p \in Process : Embed(p) \/ CloseEmbeddings(p)
           \/ UNCHANGED embeddingVars
<1>1. ASSUME NEW q \in Request, Attempt(q)
      PROVE  Embed(q) \/ CloseEmbeddings(q) \/ UNCHANGED embeddingVars
  BY <1>1 DEF Attempt, Start, StartRefused, ThreadStep, AnswerStep, Pin, ThreadEmbeds, Search,
              ThreadFails, ThreadEnds, PackEvidence, RetrievalFailed, Generated,
              GenerationFails, TimeOut, Finish
<1>2. ASSUME NEW r \in Run, OperatorIngests(r)
      PROVE  Embed(r) \/ CloseEmbeddings(r) \/ UNCHANGED embeddingVars
  BY <1>2 DEF OperatorIngests, IngestStep, StartIngest, IngestEmbeds, Create, Upload,
              LookAtAliases, Switch, IngestFails
<1>3. ASSUME CloseSession \/ ExporterWorks PROVE UNCHANGED embeddingVars
  BY <1>3 DEF CloseSession, ExporterWorks
<1> QED  BY <1>1, <1>2, <1>3, NextSplits, Members

LEMMA IndexSteps ==
    ASSUME Next
    PROVE  (\E r \in Run : IngestStep(r)) \/ UNCHANGED indexVars
<1>1. ASSUME NEW q \in Request, Attempt(q) PROVE UNCHANGED indexVars
  BY <1>1 DEF Attempt, Start, StartRefused, ThreadStep, AnswerStep, Pin, ThreadEmbeds, Search,
              ThreadFails, ThreadEnds, PackEvidence, RetrievalFailed, Generated,
              GenerationFails, TimeOut, Finish
<1>2. ASSUME CloseSession \/ ExporterWorks PROVE UNCHANGED indexVars
  BY <1>2 DEF CloseSession, ExporterWorks
<1> QED  BY <1>1, <1>2, NextSplits DEF OperatorIngests

LEMMA ExporterSteps ==
    ASSUME Next
    PROVE  Submit \/ ExporterStep \/ Close \/ CloseReturns \/ UNCHANGED exporterVars
<1>1. ASSUME NEW q \in Request, Attempt(q) PROVE Submit \/ UNCHANGED exporterVars
  BY <1>1 DEF Attempt, Start, StartRefused, ThreadStep, AnswerStep, Pin, ThreadEmbeds, Search,
              ThreadFails, ThreadEnds, PackEvidence, RetrievalFailed, Generated,
              GenerationFails, TimeOut, Finish
<1> QED  BY <1>1, NextSplits DEF OperatorIngests, CloseSession, ExporterWorks

LEMMA InitHolds ==
    ASSUME Init
    PROVE  IInv
<1>1. EmbeddingInv
  <2> SUFFICES ASSUME NEW p \in Process
               PROVE  EmbeddingTypeOK /\ VectorsFit(p) /\ AttemptsFit(p) /\ BillFits(p)
    BY DEF EmbeddingInv, EmbeddingTypeOK, Init, EmbeddingInit, Embedding
  <2>1. EmbeddingTypeOK
    BY DEF EmbeddingTypeOK, Init, EmbeddingInit, Embedding
  <2>2. Cardinality(vectors[p]) = 0 /\ tries[p] = 0 /\ requested[p] = 0 /\ billed[p] = 0
    BY FS_EmptySet DEF Init, EmbeddingInit
  <2> QED
    BY <2>1, <2>2, Corpus DEF Init, EmbeddingInit, VectorsFit, AttemptsFit, BillFits, Searching
<1>2. IndexInv
  BY DEF Init, IndexInit, IndexInv, Ingest
<1>3. ExporterInv
  <2>1. queue \in Seq({"early", "late"}) /\ Len(queue) = 0 /\ owed = 0 /\ InHand = 0
    BY EmptySeq DEF Init, ExporterInit, InHand
  <2>2. EarlySpans(queue, owed - InHand)
    BY <2>1 DEF EarlySpans
  <2>3. /\ exporter = "loop" /\ exporting = "none" /\ stopped = FALSE /\ flush = "none"
        /\ owed - InHand = Len(queue)
    BY <2>1 DEF Init, ExporterInit
  <2> QED  BY <2>1, <2>2, <2>3 DEF ExporterInv
<1>4. AnswerInv
  BY Members DEF Init, EmbeddingInit, AnswerInv, AnswerTypeOK, PinFits, ThreadFits, FromSnapshot
<1> QED  BY <1>1, <1>2, <1>3, <1>4 DEF IInv

LEMMA StepKeeps ==
    ASSUME IInv, [Next]_vars
    PROVE  IInv'
<1>1. CASE UNCHANGED vars
  BY <1>1 DEF vars, answerVars, indexVars, embeddingVars, exporterVars, IInv, EmbeddingInv,
              EmbeddingTypeOK, VectorsFit, AttemptsFit, BillFits, Searching, IndexInv,
              ExporterInv, EarlySpans, InHand, AnswerInv, AnswerTypeOK, PinFits, ThreadFits,
              FromSnapshot
<1>2. CASE Next
  <2>1. EmbeddingInv'
    <3>1. CASE UNCHANGED embeddingVars
      BY <3>1 DEF embeddingVars, IInv, EmbeddingInv, EmbeddingTypeOK, VectorsFit, AttemptsFit,
                  BillFits, Searching
    <3> QED  BY <1>2, <3>1, EmbeddingSteps, EmbeddingKept DEF IInv
  <2>2. IndexInv'
    <3>1. CASE UNCHANGED indexVars
      BY <3>1 DEF indexVars, IInv, IndexInv
    <3> QED  BY <1>2, <3>1, IndexSteps, IndexKept DEF IInv
  <2>3. ExporterInv'
    <3>1. CASE UNCHANGED exporterVars
      BY <3>1 DEF exporterVars, IInv, ExporterInv, EarlySpans, InHand
    <3> QED  BY <1>2, <3>1, ExporterSteps, SubmitKeeps, ExporterKept DEF IInv
  <2>4. AnswerInv'
    <3>1. ASSUME CloseSession \/ ExporterWorks PROVE AnswerInv'
      <4>1. UNCHANGED <<answerVars, indexVars, embeddingVars>>
        BY <3>1 DEF CloseSession, ExporterWorks
      <4> QED
        BY <4>1 DEF answerVars, indexVars, embeddingVars, IInv, AnswerInv, AnswerTypeOK,
                    PinFits, ThreadFits, FromSnapshot
    <3> QED  BY <1>2, <3>1, NextSplits, IngestionKeepsAnswers, AnswersKept DEF IInv, Attempt
  <2> QED  BY <2>1, <2>2, <2>3, <2>4 DEF IInv
<1> QED  BY <1>1, <1>2

THEOREM Invariance == Spec => []IInv
<1>1. Init => IInv
  BY InitHolds
<1>2. IInv /\ [Next]_vars => IInv'
  BY StepKeeps
<1> QED  BY <1>1, <1>2, PTL DEF Spec

-----------------------------------------------------------------------------
\* Whatever answers are lost after they were billed, and whichever instances share
\* the cache, none is billed for more than its budget or its attempts.
THEOREM BillsStayBounded == Spec => []BillsAreBounded
<1>1. IInv => BillsAreBounded
  BY BillsFollow DEF IInv
<1> QED  BY <1>1, Invariance, PTL

\* Whatever operators run beside each other, readers go from one whole index to
\* another.
THEOREM SnapshotsAreWhole == Spec => ReadersSeeWholeIndex
<1>1. IInv /\ [Next]_vars =>
        [alias' # alias => alias' # None /\ collection[alias'] = TextsOf[alias']]_<<alias>>
  <2>1. ASSUME IInv, Next, alias' # alias
        PROVE  alias' # None /\ collection[alias'] = TextsOf[alias']
    BY <2>1, IndexSteps, PublishesWhole DEF IInv, indexVars
  <2> QED  BY <2>1 DEF vars, indexVars
<1> QED  BY <1>1, Invariance, PTL DEF Spec, ReadersSeeWholeIndex

\* Whatever is submitted before, during and after the close, and whatever is
\* dropped at the limit of the queue, a close that reports nothing lost nothing.
THEOREM FlushesAreComplete == Spec => []FlushIsComplete
<1>1. IInv => FlushIsComplete
  BY DEF IInv, ExporterInv, FlushIsComplete
<1> QED  BY <1>1, Invariance, PTL

\* Whatever threads go on after their attempt was given up, whatever operators
\* publish meanwhile and whatever the model claims, a citation is readable to its
\* user and from the snapshot of its answer.
THEOREM CitationsStayReadable == Spec => []CitationsAreReadable
<1>1. IInv => CitationsAreReadable
  BY DEF IInv, AnswerInv, FromSnapshot, CitationsAreReadable
<1> QED  BY <1>1, Invariance, PTL

=============================================================================
