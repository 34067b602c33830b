------------------------- MODULE MCDocumentAnswers --------------------------
\* Instances of DocumentAnswers for TLC.
EXTENDS DocumentAnswers

CONSTANTS r1, r2, q1, q2, doc, secret, question

Processes == Run \union Request

\* The second ingestion no longer has one of the documents.
Corpora ==
    [p \in Processes |-> IF p = r1 THEN {doc, secret} ELSE IF p = r2 THEN {secret} ELSE {question}]

\* Retries matter where there is more than one text.
Limits == [p \in Processes |-> IF p = r1 THEN 2 ELSE 1]

\* Nobody who asks may read the secret document.
Readable == [q \in Request |-> {doc}]

=============================================================================
