--------------------------- MODULE TicketDelivery ---------------------------
(***************************************************************************)
(* The outbox that carries an approved ticket to Jira: the table           *)
(* ticket_deliveries, deliver_once and reconcile of ticket_delivery.py and *)
(* the outcome classes of jira.py.  Jira itself is external: a POST may    *)
(* reach it late or never, and its answer may be lost.                     *)
(***************************************************************************)
EXTENDS Integers

CONSTANTS
    Proposal,     \* the rows of ticket_proposals
    Sender,       \* the worker processes, each with at most one POST
    Operator,     \* operators running the reconciliation command
    RetryLimit,   \* a 429 is retried while the attempts before it are fewer (2)
    NoPost        \* what a sender or an operator with nothing under way holds

ASSUME RetryAssumption == RetryLimit \in Nat

MaxTries == RetryLimit + 1

Step == {"marked", "posted", "created", "limited", "refused", "unclear"}
Post == [proposal : Proposal, try : 1..MaxTries, step : Step]
Found == [proposal : Proposal, try : 1..MaxTries]

ASSUME NoPostAssumption == NoPost \notin Post /\ NoPost \notin Found

VARIABLES
    delivery,   \* ticket_deliveries.status, "none" before the approval
    tries,      \* ticket_deliveries.attempts
    ready,      \* next_run_at <= clock_timestamp()
    stalled,    \* started_at older than two minutes
    issueKey,   \* ticket_deliveries.issue_key: the try that made it, 0 for NULL
    post,       \* the POST a sender is making, and what it heard
    wire,       \* requests Jira has not handled yet
    issues,     \* the tries of a proposal that created a Jira issue
    found       \* the issue an operator has verified and not yet recorded

deliveryVars ==
    <<delivery, tries, ready, stalled, issueKey, post, wire, issues, found>>

DeliveryStatus ==
    {"none", "pending", "sending", "succeeded", "failed", "uncertain"}

DeliveryInit ==
    /\ delivery = [p \in Proposal |-> "none"]
    /\ tries = [p \in Proposal |-> 0]
    /\ ready = [p \in Proposal |-> FALSE]
    /\ stalled = [p \in Proposal |-> FALSE]
    /\ issueKey = [p \in Proposal |-> 0]
    /\ post = [w \in Sender |-> NoPost]
    /\ wire = {}
    /\ issues = [p \in Proposal |-> {}]
    /\ found = [o \in Operator |-> NoPost]

-----------------------------------------------------------------------------
\* The approval transaction inserts the outbox row with its defaults.
Enqueue(p) ==
    /\ delivery[p] = "none"
    /\ delivery' = [delivery EXCEPT ![p] = "pending"]
    /\ ready' = [ready EXCEPT ![p] = TRUE]
    /\ UNCHANGED <<tries, stalled, issueKey, post, wire, issues, found>>

\* save_result: status, key and next_run_at of the outbox row.
SaveResult(p, s, key, now) ==
    /\ delivery' = [delivery EXCEPT ![p] = s]
    /\ issueKey' = [issueKey EXCEPT ![p] = key]
    /\ ready' = [ready EXCEPT ![p] = now]

\* Mutant: an interrupted POST is made again.
ReplayStalled(w, p) ==
    /\ post[w] = NoPost
    /\ delivery[p] = "sending"
    /\ stalled[p]
    /\ SaveResult(p, "pending", 0, TRUE)
    /\ UNCHANGED <<tries, stalled, post, wire, issues, found>>

\* Another worker left the marker more than two minutes ago: its POST may or
\* may not have been made.
RecoverStalled(w, p) ==
    /\ post[w] = NoPost
    /\ delivery[p] = "sending"
    /\ stalled[p]
    /\ SaveResult(p, "uncertain", 0, TRUE)
    /\ UNCHANGED <<tries, stalled, post, wire, issues, found>>

\* The destination, the arguments or a role no longer match what was approved.
Reject(w, p) ==
    /\ post[w] = NoPost
    /\ delivery[p] = "pending"
    /\ ready[p]
    /\ SaveResult(p, "failed", 0, TRUE)
    /\ UNCHANGED <<tries, stalled, post, wire, issues, found>>

\* "The sending marker must commit before the HTTP call."
MarkSending(w, p) ==
    /\ post[w] = NoPost
    /\ delivery[p] = "pending"
    /\ ready[p]
    /\ delivery' = [delivery EXCEPT ![p] = "sending"]
    /\ tries' = [tries EXCEPT ![p] = @ + 1]
    /\ stalled' = [stalled EXCEPT ![p] = FALSE]
    /\ post' = [post EXCEPT ![w] =
           [proposal |-> p, try |-> tries[p] + 1, step |-> "marked"]]
    /\ UNCHANGED <<ready, issueKey, wire, issues, found>>

SendPost(w) ==
    /\ post[w] # NoPost
    /\ post[w].step = "marked"
    /\ wire' = wire \union {[proposal |-> post[w].proposal, try |-> post[w].try]}
    /\ post' = [post EXCEPT ![w].step = "posted"]
    /\ UNCHANGED <<delivery, tries, ready, stalled, issueKey, issues, found>>

-----------------------------------------------------------------------------
\* Jira answers a request; the sender hears it only if it still waits for it.
Hear(m, reply) ==
    post' = [w \in Sender |->
        IF /\ post[w] # NoPost
           /\ post[w].proposal = m.proposal
           /\ post[w].try = m.try
           /\ post[w].step = "posted"
        THEN [post[w] EXCEPT !.step = reply]
        ELSE post[w]]

\* 201 with a readable key, or an answer that hides what was done: a 5xx, an
\* unreadable body, a key that does not fit the project.
JiraCreates(m, reply) ==
    /\ m \in wire
    /\ reply \in {"created", "unclear", "posted"}
    /\ wire' = wire \ {m}
    /\ issues' = [issues EXCEPT ![m.proposal] = @ \union {m.try}]
    /\ Hear(m, reply)
    /\ UNCHANGED <<delivery, tries, ready, stalled, issueKey, found>>

\* Nothing is created: 429, an explicit refusal (400, 401, 403, 404, 422), any
\* other error, or a request that never arrives ("posted": no answer comes).
JiraRefuses(m, reply) ==
    /\ m \in wire
    /\ reply \in {"limited", "refused", "unclear", "posted"}
    /\ wire' = wire \ {m}
    /\ Hear(m, reply)
    /\ UNCHANGED <<delivery, tries, ready, stalled, issueKey, issues, found>>

-----------------------------------------------------------------------------
\* Mutant: a transport error is taken for a request that never arrived.
VerdictRetries(m) ==
    CASE m.step = "created" -> "succeeded"
      [] m.step = "unclear" -> "uncertain"
      [] m.step = "posted" -> IF m.try - 1 < RetryLimit THEN "pending" ELSE "uncertain"
      [] m.step = "refused" -> "failed"
      [] m.step = "limited" -> IF m.try - 1 < RetryLimit THEN "pending" ELSE "failed"

\* Mutant: a server error is taken for a refusal.
VerdictDenies(m) ==
    CASE m.step = "created" -> "succeeded"
      [] m.step = "posted" -> "uncertain"
      [] m.step \in {"unclear", "refused"} -> "failed"
      [] m.step = "limited" -> IF m.try - 1 < RetryLimit THEN "pending" ELSE "failed"

\* What deliver_once makes of the answer.  A sender that gives up while its
\* request is "posted" had a transport error.
Verdict(m) ==
    CASE m.step = "created" -> "succeeded"
      [] m.step \in {"unclear", "posted"} -> "uncertain"
      [] m.step = "refused" -> "failed"
      [] m.step = "limited" -> IF m.try - 1 < RetryLimit THEN "pending" ELSE "failed"

\* Mutant: the row is not read again before the answer is stored.
SaveLateAnswer(w) ==
    /\ post[w] # NoPost
    /\ post[w].step # "marked"
    /\ LET m == post[w]
       IN  SaveResult(m.proposal, Verdict(m), IF m.step = "created" THEN m.try ELSE 0,
                      Verdict(m) # "pending")
    /\ post' = [post EXCEPT ![w] = NoPost]
    /\ UNCHANGED <<tries, stalled, wire, issues, found>>

\* "A late response cannot overwrite a reconciliation or recovered state."
SaveAnswer(w) ==
    /\ post[w] # NoPost
    /\ post[w].step # "marked"
    /\ LET m == post[w]
           p == m.proposal
       IN  IF delivery[p] = "sending"
           THEN SaveResult(p, Verdict(m),
                           IF m.step = "created" THEN m.try ELSE 0,
                           Verdict(m) # "pending")
           ELSE UNCHANGED <<delivery, issueKey, ready>>
    /\ post' = [post EXCEPT ![w] = NoPost]
    /\ UNCHANGED <<tries, stalled, wire, issues, found>>

\* The process dies, or the answer cannot be stored: the marker stays.
DropPost(w) ==
    /\ post[w] # NoPost
    /\ post' = [post EXCEPT ![w] = NoPost]
    /\ UNCHANGED <<delivery, tries, ready, stalled, issueKey, wire, issues, found>>

-----------------------------------------------------------------------------
\* reconcile: the row was uncertain and both GETs match the proposal's marker.
Verify(o, p) ==
    /\ found[o] = NoPost
    /\ delivery[p] = "uncertain"
    /\ \E n \in issues[p] :
          found' = [found EXCEPT ![o] = [proposal |-> p, try |-> n]]
    /\ UNCHANGED <<delivery, tries, ready, stalled, issueKey, post, wire, issues>>

\* The second transaction checks again that the row is still uncertain.
Reconcile(o) ==
    /\ found[o] # NoPost
    /\ LET p == found[o].proposal
       IN  IF delivery[p] = "uncertain"
           THEN SaveResult(p, "succeeded", found[o].try, TRUE)
           ELSE UNCHANGED <<delivery, issueKey, ready>>
    /\ found' = [found EXCEPT ![o] = NoPost]
    /\ UNCHANGED <<tries, stalled, post, wire, issues>>

\* Time passes: Retry-After ends, the two minutes of a marker run out.
BecomesReady(p) ==
    /\ delivery[p] = "pending"
    /\ ~ready[p]
    /\ ready' = [ready EXCEPT ![p] = TRUE]
    /\ UNCHANGED <<delivery, tries, stalled, issueKey, post, wire, issues, found>>

Stalls(p) ==
    /\ delivery[p] = "sending"
    /\ ~stalled[p]
    /\ stalled' = [stalled EXCEPT ![p] = TRUE]
    /\ UNCHANGED <<delivery, tries, ready, issueKey, post, wire, issues, found>>

-----------------------------------------------------------------------------
\* Mutant: the query looks for pending rows only.
PickPending(w) == \E p \in Proposal : Reject(w, p) \/ MarkSending(w, p)

\* The row that the query of deliver_once returns, and what becomes of it.
Pick(w) == \E p \in Proposal : RecoverStalled(w, p) \/ Reject(w, p) \/ MarkSending(w, p)

SenderStep(w) == Pick(w) \/ SendPost(w) \/ SaveAnswer(w) \/ DropPost(w)

JiraStep ==
    \E m \in wire, r \in Step : JiraCreates(m, r) \/ JiraRefuses(m, r)

OperatorStep(o) == Reconcile(o) \/ \E p \in Proposal : Verify(o, p)

DeliveryTime == \E p \in Proposal : BecomesReady(p) \/ Stalls(p)

DeliveryNext ==
    \/ \E p \in Proposal : Enqueue(p)
    \/ \E w \in Sender : SenderStep(w)
    \/ JiraStep
    \/ \E o \in Operator : OperatorStep(o)
    \/ DeliveryTime

DeliverySpec == DeliveryInit /\ [][DeliveryNext]_deliveryVars

\* A worker keeps polling, the HTTP client has a timeout of 10 s, clocks
\* advance.  Nothing is assumed of Jira or of the operators.
DeliveryFairness ==
    /\ WF_deliveryVars(\E w \in Sender : Pick(w))
    /\ \A w \in Sender :
          WF_deliveryVars(SendPost(w) \/ SaveAnswer(w) \/ DropPost(w))
    /\ \A p \in Proposal : WF_deliveryVars(BecomesReady(p)) /\ WF_deliveryVars(Stalls(p))

FairDeliverySpec == DeliverySpec /\ DeliveryFairness

-----------------------------------------------------------------------------
\* Every variable has its type.
DeliveryTypeOK ==
    /\ delivery \in [Proposal -> DeliveryStatus]
    /\ tries \in [Proposal -> 0..MaxTries]
    /\ ready \in [Proposal -> BOOLEAN]
    /\ stalled \in [Proposal -> BOOLEAN]
    /\ issueKey \in [Proposal -> 0..MaxTries]
    /\ post \in [Sender -> Post \union {NoPost}]
    /\ wire \subseteq Found
    /\ issues \in [Proposal -> SUBSET (1..MaxTries)]
    /\ found \in [Operator -> Found \union {NoPost}]

\* "Ambiguous writes are reconciled, never blindly replayed" (the contract of
\* ticket_delivery.py): one approval never makes two Jira issues, whatever is
\* lost, late, limited or crashes.
AtMostOneIssue ==
    \A p \in Proposal : \A m, n \in issues[p] : m = n

\* A row that may be sent again has certainly created nothing: no issue exists
\* and no earlier request is still on its way.
RetryIsSafe ==
    \A p \in Proposal :
        delivery[p] \in {"none", "pending"} =>
            issues[p] = {} /\ \A m \in wire : m.proposal # p

\* The final verdicts are true of Jira: success names an issue of this very
\* proposal, failure means that none exists and none can still appear.
VerdictIsTrue ==
    \A p \in Proposal :
        /\ delivery[p] = "succeeded" => issueKey[p] \in issues[p]
        /\ delivery[p] = "failed" =>
              issues[p] = {} /\ \A m \in wire : m.proposal # p

\* A verdict is never taken back, and doubt ends only by a verified issue: a
\* late answer loses against the recovery of its marker (ticket_delivery.py:127).
VerdictIsFinal ==
    [][\A p \in Proposal :
          /\ delivery[p] \in {"succeeded", "failed"} =>
                delivery'[p] = delivery[p] /\ issueKey'[p] = issueKey[p]
          /\ delivery[p] = "uncertain" => delivery'[p] \in {"uncertain", "succeeded"}]_deliveryVars

\* Every approved ticket gets a verdict or is handed to an operator; it is not
\* retried forever (ticket_delivery.py:118) and no marker is forgotten.
ApprovedIsAnswered ==
    \A p \in Proposal :
        delivery[p] = "pending" ~> delivery[p] \in {"succeeded", "failed", "uncertain"}

=============================================================================
