----------------------------- MODULE Embeddings -----------------------------
(***************************************************************************)
(* OpenAIEmbeddings of embeddings.py: vectors come from the cache or are   *)
(* paid for, under a budget of requested bytes and a limit on attempts.    *)
(* Every process has an instance of its own and they share the directory   *)
(* of the cache.                                                           *)
(*                                                                         *)
(* A text stands for a batch of 32, sent as one request of one unit of the *)
(* budget; a vector is there or not.                                       *)
(***************************************************************************)
EXTENDS Integers, FiniteSets

CONSTANTS
    Process,     \* instances of OpenAIEmbeddings
    Text,        \* what they embed
    TextsOf,     \* the texts that an instance is asked to embed
    Attempts,    \* its limit on attempts for a text
    MaxRequested \* its budget

ASSUME EmbeddingAssumption ==
    /\ TextsOf \in [Process -> SUBSET Text]
    /\ \A p \in Process : IsFiniteSet(TextsOf[p])
    /\ Attempts \in [Process -> 1..3]
    /\ MaxRequested \in Nat

VARIABLES
    cache,      \* the texts whose vector is in the cache
    embedding,  \* where embed is
    vectors,    \* the texts whose vector it has
    tries,      \* attempts made for the text it is asking about
    requested,  \* requested_bytes
    billed      \* what the provider has billed the instance for

embeddingVars == <<cache, embedding, vectors, tries, requested, billed>>

Embedding == {"idle", "asking", "sent", "answered", "done", "failed"}

EmbeddingInit ==
    /\ cache = {}
    /\ embedding = [p \in Process |-> "idle"]
    /\ vectors = [p \in Process |-> {}]
    /\ tries = [p \in Process |-> 0]
    /\ requested = [p \in Process |-> 0]
    /\ billed = [p \in Process |-> 0]

-----------------------------------------------------------------------------
AfterVectors(p, vs) == IF TextsOf[p] \subseteq vs THEN "done" ELSE "asking"

\* Files that cannot be read or hold no vector count as missing.
ReadCache(p) ==
    /\ embedding[p] = "idle"
    /\ vectors' = [vectors EXCEPT ![p] = TextsOf[p] \intersect cache]
    /\ embedding' = [embedding EXCEPT ![p] = AfterVectors(p, vectors'[p])]
    /\ UNCHANGED <<cache, tries, requested, billed>>

\* Mutant: what is requested is counted before the loop of attempts.
AskCountedOnce(p) ==
    LET size == IF tries[p] = 0 THEN 1 ELSE 0
    IN  /\ embedding[p] = "asking"
        /\ IF requested[p] + size > MaxRequested
           THEN /\ embedding' = [embedding EXCEPT ![p] = "failed"]
                /\ UNCHANGED <<requested, tries>>
           ELSE /\ requested' = [requested EXCEPT ![p] = @ + size]
                /\ tries' = [tries EXCEPT ![p] = @ + 1]
                /\ embedding' = [embedding EXCEPT ![p] = "sent"]
        /\ UNCHANGED <<cache, vectors, billed>>

\* An attempt counts before it is sent, a retry again.
Ask(p) ==
    /\ embedding[p] = "asking"
    /\ IF requested[p] + 1 > MaxRequested
       THEN /\ embedding' = [embedding EXCEPT ![p] = "failed"]
            /\ UNCHANGED <<requested, tries>>
       ELSE /\ requested' = [requested EXCEPT ![p] = @ + 1]
            /\ tries' = [tries EXCEPT ![p] = @ + 1]
            /\ embedding' = [embedding EXCEPT ![p] = "sent"]
    /\ UNCHANGED <<cache, vectors, billed>>

\* The provider bills what it computed, whether or not the answer arrives.
ProviderBills(p) ==
    \/ billed' = [billed EXCEPT ![p] = @ + 1]
    \/ UNCHANGED billed

\* Vectors for the text, which nobody gives for nothing.
Answered(p) ==
    /\ embedding[p] = "sent"
    /\ billed' = [billed EXCEPT ![p] = @ + 1]
    /\ embedding' = [embedding EXCEPT ![p] = "answered"]
    /\ UNCHANGED <<cache, vectors, tries, requested>>

\* A transport error, 429 or 5xx: another attempt, if there is one.
Unanswered(p) ==
    /\ embedding[p] = "sent"
    /\ ProviderBills(p)
    /\ embedding' = [embedding EXCEPT
                       ![p] = IF tries[p] < Attempts[p] THEN "asking" ELSE "failed"]
    /\ UNCHANGED <<cache, vectors, tries, requested>>

\* Another status, or an answer without the vectors that were asked for.
Unusable(p) ==
    /\ embedding[p] = "sent"
    /\ ProviderBills(p)
    /\ embedding' = [embedding EXCEPT ![p] = "failed"]
    /\ UNCHANGED <<cache, vectors, tries, requested>>

\* The file is written beside its place and moved there.  Which text an answer
\* is for follows from the order of the texts.
Save(p) ==
    LET t == CHOOSE u \in TextsOf[p] \ vectors[p] : TRUE
    IN  /\ embedding[p] = "answered"
        /\ vectors' = [vectors EXCEPT ![p] = @ \union {t}]
        /\ cache' = cache \union {t}
        /\ tries' = [tries EXCEPT ![p] = 0]
        /\ embedding' = [embedding EXCEPT ![p] = AfterVectors(p, vectors'[p])]
        /\ UNCHANGED <<requested, billed>>

\* The instance is closed.
CloseEmbeddings(p) ==
    /\ embedding' = [embedding EXCEPT ![p] = "idle"]
    /\ vectors' = [vectors EXCEPT ![p] = {}]
    /\ tries' = [tries EXCEPT ![p] = 0]
    /\ requested' = [requested EXCEPT ![p] = 0]
    /\ billed' = [billed EXCEPT ![p] = 0]
    /\ UNCHANGED cache

Embed(p) ==
    ReadCache(p) \/ Ask(p) \/ Answered(p) \/ Unanswered(p) \/ Unusable(p) \/ Save(p)

-----------------------------------------------------------------------------
\* No instance makes the provider bill more than its budget, or more in all than its
\* texts times the attempts that each may take, although answers are lost after they were billed and
\* vectors are saved one by one (embeddings.py:68).
BillsAreBounded ==
    \A p \in Process :
        /\ billed[p] <= MaxRequested
        /\ billed[p] <= Attempts[p] * Cardinality(TextsOf[p])

=============================================================================
