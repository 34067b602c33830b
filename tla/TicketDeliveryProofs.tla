------------------------ MODULE TicketDeliveryProofs ------------------------
(***************************************************************************)
(* What the outbox guarantees of Jira issues, for any proposals, senders,  *)
(* operators and limit on retries.                                         *)
(***************************************************************************)
EXTENDS TicketDelivery, TLAPS

\* Jira has made nothing for the proposal, and nothing is on its way there.
Quiet(p) == issues[p] = {} /\ \A m \in wire : m.proposal # p

Sends(w, p) == post[w] # NoPost /\ post[w].proposal = p

\* A row that waits to be sent, or was refused for good, leaves no trace: Jira
\* is quiet about it and no sender works on it.
NoTrace ==
    \A p \in Proposal :
        delivery[p] \in {"none", "pending", "failed"} =>
            Quiet(p) /\ \A w \in Sender : ~Sends(w, p)

\* A pending row may be sent once more.
TriesLeft ==
    \A p \in Proposal : delivery[p] \in {"none", "pending"} => tries[p] <= RetryLimit

\* The one sender of a row holds its latest try and has heard the truth about it.
PostIsCurrent ==
    /\ \A v, w \in Sender :
          \A p \in Proposal : Sends(v, p) /\ Sends(w, p) => v = w
    /\ \A w \in Sender : post[w] # NoPost =>
          /\ post[w].try = tries[post[w].proposal]
          /\ post[w].step \in {"marked", "limited", "refused"} => Quiet(post[w].proposal)
          /\ post[w].step = "created" => post[w].try \in issues[post[w].proposal]

\* Requests and issues belong to the latest try, and a request that Jira has
\* handled is gone.
JiraIsCurrent ==
    /\ \A m \in wire : m.try = tries[m.proposal] /\ issues[m.proposal] = {}
    /\ \A p \in Proposal : issues[p] \subseteq {tries[p]}

\* What is recorded or about to be recorded as the issue really is one.
KeysAreIssues ==
    /\ \A o \in Operator :
          found[o] # NoPost => found[o].try \in issues[found[o].proposal]
    /\ \A p \in Proposal : delivery[p] = "succeeded" => issueKey[p] \in issues[p]

DeliveryInv ==
    /\ DeliveryTypeOK
    /\ NoTrace
    /\ TriesLeft
    /\ PostIsCurrent
    /\ JiraIsCurrent
    /\ KeysAreIssues

-----------------------------------------------------------------------------
LEMMA DeliveryStarts == DeliveryInit => DeliveryInv
  BY RetryAssumption
  DEF DeliveryInit, DeliveryInv, DeliveryTypeOK, NoTrace, TriesLeft, PostIsCurrent,
      JiraIsCurrent, KeysAreIssues, Quiet, Sends, DeliveryStatus, MaxTries

\* Steps that only the row of one proposal knows of.
LEMMA RowPreserves ==
    ASSUME DeliveryInv, NEW p \in Proposal,
           Enqueue(p) \/ BecomesReady(p) \/ Stalls(p)
    PROVE  DeliveryInv'
  <1> USE DEF DeliveryInv
  <1>1. DeliveryTypeOK'
    BY DEF DeliveryTypeOK, Enqueue, BecomesReady, Stalls, DeliveryStatus
  <1>2. NoTrace' /\ TriesLeft' /\ KeysAreIssues'
    BY DEF DeliveryTypeOK, NoTrace, TriesLeft, KeysAreIssues, Quiet, Sends,
           Enqueue, BecomesReady, Stalls
  <1>3. PostIsCurrent' /\ JiraIsCurrent'
    BY DEF PostIsCurrent, JiraIsCurrent, Quiet, Sends, Enqueue, BecomesReady, Stalls
  <1> QED
    BY <1>1, <1>2, <1>3

\* Rows that get a result without a POST of this sender.
LEMMA UnsentPreserves ==
    ASSUME DeliveryInv, NEW w \in Sender, NEW p \in Proposal,
           RecoverStalled(w, p) \/ Reject(w, p)
    PROVE  DeliveryInv'
  <1> USE DEF DeliveryInv
  <1>0. 0 \in 0..MaxTries
    BY RetryAssumption DEF MaxTries
  <1>1. DeliveryTypeOK'
    BY <1>0 DEF DeliveryTypeOK, RecoverStalled, Reject, SaveResult, DeliveryStatus
  <1>2. NoTrace' /\ TriesLeft' /\ KeysAreIssues'
    BY DEF DeliveryTypeOK, NoTrace, TriesLeft, KeysAreIssues, Quiet, Sends,
           RecoverStalled, Reject, SaveResult
  <1>3. PostIsCurrent' /\ JiraIsCurrent'
    BY DEF PostIsCurrent, JiraIsCurrent, Quiet, Sends, RecoverStalled, Reject, SaveResult
  <1> QED
    BY <1>1, <1>2, <1>3

\* The marker starts a new try, of which nothing exists yet.
LEMMA MarkPreserves ==
    ASSUME DeliveryInv, NEW w \in Sender, NEW p \in Proposal, MarkSending(w, p)
    PROVE  DeliveryInv'
  <1> DEFINE m == [proposal |-> p, try |-> tries[p] + 1, step |-> "marked"]
  <1> USE DEF DeliveryInv
  <1>1. tries[p] + 1 \in 1..MaxTries /\ tries[p] + 1 \in 0..MaxTries
    BY RetryAssumption DEF DeliveryTypeOK, TriesLeft, MarkSending, MaxTries
  <1>2. m \in Post /\ m # NoPost
    BY <1>1, NoPostAssumption DEF Post, Step
  <1>3. /\ post' = [post EXCEPT ![w] = m]
        /\ tries' = [tries EXCEPT ![p] = tries[p] + 1]
        /\ delivery' = [delivery EXCEPT ![p] = "sending"]
        /\ UNCHANGED <<issueKey, wire, issues, found>>
    BY DEF MarkSending
  <1>4. Quiet(p) /\ \A v \in Sender : ~Sends(v, p)
    BY DEF NoTrace, MarkSending
  <1> HIDE DEF m
  <1>5. m.proposal = p /\ m.try = tries[p] + 1 /\ m.step = "marked"
    BY DEF m
  <1>6. DeliveryTypeOK'
    BY <1>1, <1>2 DEF DeliveryTypeOK, MarkSending, DeliveryStatus, m
  <1>7. NoTrace' /\ TriesLeft' /\ KeysAreIssues'
    BY <1>3, <1>5 DEF DeliveryTypeOK, NoTrace, TriesLeft, KeysAreIssues, Quiet, Sends
  <1>8. PostIsCurrent'
    <2>1. ASSUME NEW u \in Sender, NEW v \in Sender, NEW q \in Proposal,
                 Sends(u, q)', Sends(v, q)'
          PROVE  u = v
      BY <2>1, <1>3, <1>4, <1>5 DEF DeliveryTypeOK, PostIsCurrent, Sends
    <2>2. ASSUME NEW v \in Sender, post'[v] # NoPost
          PROVE  /\ post'[v].try = tries'[post'[v].proposal]
                 /\ post'[v].step \in {"marked", "limited", "refused"}
                       => Quiet(post'[v].proposal)
                 /\ post'[v].step = "created"
                       => post'[v].try \in issues'[post'[v].proposal]
      <3>1. CASE v = w
        BY <3>1, <1>3, <1>4, <1>5 DEF DeliveryTypeOK
      <3>2. CASE v # w
        <4>1. post'[v] = post[v] /\ post[v] # NoPost /\ post[v].proposal # p
          BY <2>2, <3>2, <1>3, <1>4 DEF DeliveryTypeOK, Sends
        <4>2. post[v].proposal \in Proposal
          BY <4>1 DEF DeliveryTypeOK, Post
        <4> QED
          BY <4>1, <4>2, <1>3 DEF DeliveryTypeOK, PostIsCurrent
      <3> QED
        BY <3>1, <3>2
    <2> QED
      BY <2>1, <2>2, <1>3 DEF PostIsCurrent, Quiet
  <1>9. JiraIsCurrent'
    <2>1. ASSUME NEW x \in wire PROVE x.try = tries'[x.proposal]
      BY <1>3, <1>4 DEF DeliveryTypeOK, JiraIsCurrent, Quiet, Found
    <2> QED
      BY <2>1, <1>3, <1>4 DEF DeliveryTypeOK, JiraIsCurrent, Quiet
  <1> QED
    BY <1>6, <1>7, <1>8, <1>9

\* The request leaves for Jira: it is the only one of its proposal.
LEMMA SendPreserves ==
    ASSUME DeliveryInv, NEW w \in Sender, SendPost(w)
    PROVE  DeliveryInv'
  <1> DEFINE p == post[w].proposal
             m == [proposal |-> p, try |-> post[w].try]
             sent == [post[w] EXCEPT !.step = "posted"]
  <1> USE DEF DeliveryInv
  <1>1. post[w] \in Post /\ post[w] # NoPost
    BY DEF DeliveryTypeOK, SendPost
  <1>2. p \in Proposal /\ post[w].try \in 1..MaxTries /\ m \in Found
    BY <1>1 DEF Post, Found
  <1>3. sent \in Post /\ sent # NoPost
    BY <1>1, NoPostAssumption DEF Post, Step
  <1>4. sent.proposal = p /\ sent.try = post[w].try /\ sent.step = "posted"
    BY <1>1 DEF Post
  <1>5. m.proposal = p /\ m.try = tries[p]
    BY <1>1 DEF PostIsCurrent
  <1>6. /\ post' = [post EXCEPT ![w] = sent]
        /\ wire' = wire \union {m}
        /\ UNCHANGED <<delivery, tries, ready, stalled, issueKey, issues, found>>
    BY DEF SendPost
  <1>7. Quiet(p) /\ Sends(w, p) /\ delivery[p] \notin {"none", "pending", "failed"}
    BY <1>1, <1>2 DEF PostIsCurrent, SendPost, NoTrace, Sends
  <1> HIDE DEF p, m, sent
  <1>8. DeliveryTypeOK'
    BY <1>2, <1>3, <1>6 DEF DeliveryTypeOK
  <1>9. NoTrace'
    <2> SUFFICES ASSUME NEW q \in Proposal, delivery[q] \in {"none", "pending", "failed"}
                 PROVE  Quiet(q)' /\ \A v \in Sender : ~Sends(v, q)'
      BY <1>6 DEF NoTrace
    <2>1. q # p
      BY <1>7
    <2> QED
      BY <2>1, <1>4, <1>5, <1>6 DEF DeliveryTypeOK, NoTrace, Quiet, Sends
  <1>10. TriesLeft' /\ KeysAreIssues'
    BY <1>6 DEF TriesLeft, KeysAreIssues
  <1>11. PostIsCurrent'
    <2>1. ASSUME NEW u \in Sender, NEW v \in Sender, NEW q \in Proposal,
                 Sends(u, q)', Sends(v, q)'
          PROVE  u = v
      BY <2>1, <1>1, <1>2, <1>4, <1>6, <1>7 DEF DeliveryTypeOK, PostIsCurrent, Sends
    <2>2. ASSUME NEW v \in Sender, post'[v] # NoPost
          PROVE  /\ post'[v].try = tries'[post'[v].proposal]
                 /\ post'[v].step \in {"marked", "limited", "refused"}
                       => Quiet(post[v].proposal) /\ post[v] = post'[v] /\ v # w
                 /\ post'[v].step = "created"
                       => post'[v].try \in issues'[post'[v].proposal]
      BY <2>2, <1>1, <1>4, <1>5, <1>6 DEF DeliveryTypeOK, PostIsCurrent, m
    <2>3. ASSUME NEW v \in Sender, v # w, post[v] # NoPost
          PROVE  post[v].proposal # p
      BY <2>3, <1>2, <1>7 DEF PostIsCurrent, Sends
    <2> QED
      BY <2>1, <2>2, <2>3, <1>5, <1>6 DEF PostIsCurrent, Quiet
  <1>12. JiraIsCurrent'
    BY <1>5, <1>6, <1>7 DEF JiraIsCurrent, Quiet
  <1> QED
    BY <1>8, <1>9, <1>10, <1>11, <1>12

\* Whatever Jira answers, a post keeps its proposal and try; its step moves only
\* from "posted", to the reply.
LEMMA HearKeepsPosts ==
    ASSUME DeliveryTypeOK, NEW m \in wire, NEW r \in Step, Hear(m, r)
    PROVE  /\ post' \in [Sender -> Post \union {NoPost}]
           /\ \A w \in Sender :
                 /\ post[w] = NoPost <=> post'[w] = NoPost
                 /\ post[w] # NoPost =>
                       /\ post'[w].proposal = post[w].proposal
                       /\ post'[w].try = post[w].try
                       /\ post'[w].step # post[w].step =>
                             post'[w].step = r /\ post[w].proposal = m.proposal
  <1>1. ASSUME NEW w \in Sender, post[w] # NoPost
        PROVE  /\ [post[w] EXCEPT !.step = r] \in Post
               /\ [post[w] EXCEPT !.step = r] # NoPost
               /\ [post[w] EXCEPT !.step = r].proposal = post[w].proposal
               /\ [post[w] EXCEPT !.step = r].try = post[w].try
               /\ [post[w] EXCEPT !.step = r].step = r
    <2>1. post[w] \in Post
      BY <1>1 DEF DeliveryTypeOK
    <2> QED
      BY <2>1, NoPostAssumption DEF Post
  <1>2. ASSUME NEW w \in Sender
        PROVE  \/ post'[w] = post[w]
               \/ /\ post[w] # NoPost /\ post[w].proposal = m.proposal
                  /\ post'[w] = [post[w] EXCEPT !.step = r]
    BY DEF Hear
  <1>3. \A w \in Sender : post'[w] \in Post \union {NoPost}
    BY <1>1, <1>2 DEF DeliveryTypeOK
  <1>4. post' \in [Sender -> Post \union {NoPost}]
    BY <1>3 DEF Hear
  <1> QED
    BY <1>1, <1>2, <1>4

\* Jira handles the only request of a proposal and makes its only issue.
LEMMA CreatesPreserves ==
    ASSUME DeliveryInv, NEW m \in wire, NEW r \in Step, JiraCreates(m, r)
    PROVE  DeliveryInv'
  <1> DEFINE p == m.proposal
  <1> USE DEF DeliveryInv
  <1>1. /\ m \in Found /\ p \in Proposal /\ m.try \in 1..MaxTries /\ m.try = tries[p]
        /\ issues[p] = {}
    BY DEF DeliveryTypeOK, JiraIsCurrent, Found
  <1>2. /\ wire' = wire \ {m}
        /\ issues' = [issues EXCEPT ![p] = {m.try}]
        /\ Hear(m, r)
        /\ r \notin {"marked", "limited", "refused"}
        /\ UNCHANGED <<delivery, tries, ready, stalled, issueKey, found>>
    BY <1>1 DEF JiraCreates
  <1>3. /\ post' \in [Sender -> Post \union {NoPost}]
        /\ \A w \in Sender :
              /\ post[w] = NoPost <=> post'[w] = NoPost
              /\ post[w] # NoPost =>
                    /\ post'[w].proposal = post[w].proposal
                    /\ post'[w].try = post[w].try
                    /\ post'[w].step # post[w].step =>
                          post'[w].step = r /\ post[w].proposal = p
    BY <1>2, HearKeepsPosts
  <1>4. \A w \in Sender : post[w] # NoPost =>
            /\ post[w].proposal \in Proposal
            /\ post[w].try = tries[post[w].proposal]
            /\ post[w].step \in {"marked", "limited", "refused"} => Quiet(post[w].proposal)
            /\ post[w].step = "created" => post[w].try \in issues[post[w].proposal]
    BY DEF DeliveryTypeOK, PostIsCurrent, Post
  <1>5. \A x \in wire' : x.proposal # p
    <2> SUFFICES ASSUME NEW x \in wire, x # m, x.proposal = p
                 PROVE  FALSE
      BY <1>2
    <2>1. x.try = tries[p] /\ x \in Found
      BY DEF JiraIsCurrent, DeliveryTypeOK
    <2> QED
      BY <2>1, <1>1 DEF Found
  <1>6. ~Quiet(p)
    BY DEF Quiet
  <1>7. \A q \in Proposal : q # p => issues'[q] = issues[q] /\ (Quiet(q) => Quiet(q)')
    BY <1>1, <1>2 DEF DeliveryTypeOK, Quiet
  <1>8. issues'[p] = {tries[p]}
    BY <1>1, <1>2 DEF DeliveryTypeOK
  <1> HIDE DEF p
  <1>9. DeliveryTypeOK'
    BY <1>1, <1>2, <1>3 DEF DeliveryTypeOK
  <1>10. NoTrace'
    BY <1>2, <1>3, <1>6, <1>7 DEF NoTrace, Sends
  <1>11. TriesLeft'
    BY <1>2 DEF TriesLeft
  <1>12. PostIsCurrent'
    <2>1. ASSUME NEW u \in Sender, NEW v \in Sender, NEW q \in Proposal,
                 Sends(u, q)', Sends(v, q)'
          PROVE  u = v
      BY <2>1, <1>3 DEF PostIsCurrent, Sends
    <2>2. ASSUME NEW w \in Sender, post'[w] # NoPost
          PROVE  post'[w].try = tries'[post'[w].proposal]
      BY <2>2, <1>2, <1>3, <1>4
    <2>3. ASSUME NEW w \in Sender, post'[w] # NoPost,
                 post'[w].step \in {"marked", "limited", "refused"}
          PROVE  Quiet(post[w].proposal)'
      <3>1. post'[w].step = post[w].step /\ post'[w].proposal = post[w].proposal
        BY <2>3, <1>2, <1>3
      <3>2. Quiet(post[w].proposal) /\ post[w].proposal \in Proposal
        BY <2>3, <3>1, <1>3, <1>4
      <3> QED
        BY <3>1, <3>2, <1>6, <1>7 DEF Quiet
    <2>4. ASSUME NEW w \in Sender, post'[w] # NoPost, post'[w].step = "created"
          PROVE  post'[w].try \in issues'[post'[w].proposal]
      BY <2>4, <1>2, <1>3, <1>4, <1>7, <1>8
    <2> QED
      BY <2>1, <2>2, <2>3, <2>4 DEF PostIsCurrent
  <1>13. JiraIsCurrent'
    BY <1>2, <1>5, <1>7, <1>8 DEF JiraIsCurrent, DeliveryTypeOK, Found
  <1>14. KeysAreIssues'
    BY <1>1, <1>2, <1>7 DEF KeysAreIssues, DeliveryTypeOK, Found
  <1> QED
    BY <1>9, <1>10, <1>11, <1>12, <1>13, <1>14

\* A refused or lost request leaves nothing behind.
LEMMA RefusesPreserves ==
    ASSUME DeliveryInv, NEW m \in wire, NEW r \in Step, JiraRefuses(m, r)
    PROVE  DeliveryInv'
  <1> DEFINE p == m.proposal
  <1> USE DEF DeliveryInv
  <1>1. m \in Found /\ p \in Proposal /\ m.try = tries[p] /\ issues[p] = {}
    BY DEF DeliveryTypeOK, JiraIsCurrent, Found
  <1>2. /\ wire' = wire \ {m}
        /\ Hear(m, r)
        /\ r # "created"
        /\ UNCHANGED <<delivery, tries, ready, stalled, issueKey, issues, found>>
    BY DEF JiraRefuses
  <1>3. /\ post' \in [Sender -> Post \union {NoPost}]
        /\ \A w \in Sender :
              /\ post[w] = NoPost <=> post'[w] = NoPost
              /\ post[w] # NoPost =>
                    /\ post'[w].proposal = post[w].proposal
                    /\ post'[w].try = post[w].try
                    /\ post'[w].step # post[w].step =>
                          post'[w].step = r /\ post[w].proposal = p
    BY <1>2, HearKeepsPosts
  <1>4. \A x \in wire' : x.proposal # p
    <2> SUFFICES ASSUME NEW x \in wire, x # m, x.proposal = p
                 PROVE  FALSE
      BY <1>2
    <2>1. x.try = tries[p] /\ x \in Found
      BY DEF JiraIsCurrent, DeliveryTypeOK
    <2> QED
      BY <2>1, <1>1 DEF Found
  <1>5. Quiet(p)'
    BY <1>1, <1>2, <1>4 DEF Quiet
  <1>6. \A q \in Proposal : Quiet(q) => Quiet(q)'
    BY <1>2 DEF Quiet
  <1> HIDE DEF p
  <1>7. DeliveryTypeOK'
    BY <1>2, <1>3 DEF DeliveryTypeOK
  <1>8. NoTrace'
    BY <1>2, <1>3, <1>6 DEF NoTrace, Sends
  <1>9. TriesLeft' /\ KeysAreIssues'
    BY <1>2 DEF TriesLeft, KeysAreIssues
  <1>10. PostIsCurrent'
    <2>1. ASSUME NEW u \in Sender, NEW v \in Sender, NEW q \in Proposal,
                 Sends(u, q)', Sends(v, q)'
          PROVE  u = v
      BY <2>1, <1>3 DEF PostIsCurrent, Sends
    <2>2. ASSUME NEW w \in Sender, post'[w] # NoPost
          PROVE  /\ post'[w].try = tries'[post'[w].proposal]
                 /\ post'[w].step = "created"
                       => post'[w].try \in issues'[post'[w].proposal]
      BY <2>2, <1>2, <1>3 DEF PostIsCurrent
    <2>3. ASSUME NEW w \in Sender, post'[w] # NoPost,
                 post'[w].step \in {"marked", "limited", "refused"}
          PROVE  Quiet(post[w].proposal)'
      <3>1. post[w] # NoPost /\ post'[w].proposal = post[w].proposal
        BY <2>3, <1>3
      <3>2. post[w].proposal \in Proposal
        BY <3>1 DEF DeliveryTypeOK, Post
      <3>3. CASE post'[w].step = post[w].step
        BY <2>3, <3>1, <3>2, <3>3, <1>6 DEF PostIsCurrent, Quiet
      <3>4. CASE post'[w].step # post[w].step
        BY <3>1, <3>4, <1>3, <1>5 DEF Quiet
      <3> QED
        BY <3>3, <3>4
    <2> QED
      BY <2>1, <2>2, <2>3 DEF PostIsCurrent
  <1>11. JiraIsCurrent'
    BY <1>2 DEF JiraIsCurrent
  <1> QED
    BY <1>7, <1>8, <1>9, <1>10, <1>11

\* A sender that stops posting, with its answer saved, dropped or too late.
LEMMA EndOfPostPreserves ==
    ASSUME DeliveryInv, NEW w \in Sender, SaveAnswer(w) \/ DropPost(w)
    PROVE  DeliveryInv'
  <1> DEFINE v == Verdict(post[w])
  <1> USE DEF DeliveryInv
  <1>0. PICK p \in Proposal : p = post[w].proposal
    BY DEF DeliveryTypeOK, SaveAnswer, DropPost, Post
  <1>1. /\ post[w] \in Post /\ post[w] # NoPost /\ p = post[w].proposal
        /\ post[w].try \in 1..MaxTries /\ post[w].try = tries[p]
        /\ post' = [post EXCEPT ![w] = NoPost]
        /\ UNCHANGED <<tries, stalled, wire, issues, found>>
    BY <1>0 DEF DeliveryTypeOK, PostIsCurrent, SaveAnswer, DropPost, Post
  <1>2. /\ post' \in [Sender -> Post \union {NoPost}]
        /\ \A u \in Sender : post'[u] # NoPost => post'[u] = post[u] /\ u # w
    BY <1>1 DEF DeliveryTypeOK
  <1>3. PostIsCurrent'
    BY <1>1, <1>2 DEF PostIsCurrent, Quiet, Sends
  <1>4. JiraIsCurrent'
    BY <1>1 DEF JiraIsCurrent
  <1>5. CASE UNCHANGED <<delivery, issueKey, ready>>
    <2>1. DeliveryTypeOK'
      BY <1>1, <1>2, <1>5 DEF DeliveryTypeOK
    <2>2. NoTrace' /\ TriesLeft' /\ KeysAreIssues'
      BY <1>1, <1>2, <1>5 DEF NoTrace, TriesLeft, KeysAreIssues, Quiet, Sends
    <2> QED
      BY <1>3, <1>4, <2>1, <2>2
  <1>6. CASE /\ SaveAnswer(w)
             /\ delivery[p] = "sending"
             /\ SaveResult(p, v, IF post[w].step = "created" THEN post[w].try ELSE 0,
                           v # "pending")
    <2>1. /\ post[w].step \in {"created", "unclear", "posted", "refused", "limited"}
          /\ v \in {"succeeded", "uncertain", "failed", "pending"}
          /\ v = "succeeded" => post[w].step = "created"
          /\ v \in {"failed", "pending"} => post[w].step \in {"refused", "limited"}
          /\ v = "pending" => post[w].try <= RetryLimit
      BY <1>1, <1>6, RetryAssumption DEF SaveAnswer, Verdict, Post, Step, MaxTries
    <2>2. (IF post[w].step = "created" THEN post[w].try ELSE 0) \in 0..MaxTries
      BY <1>1, RetryAssumption DEF MaxTries
    <2>3. /\ post[w].step = "created" => tries[p] \in issues[p]
          /\ post[w].step \in {"refused", "limited"} => Quiet(p)
      BY <1>1 DEF PostIsCurrent
    <2>4. \A u \in Sender : ~Sends(u, p)'
      BY <1>1, <1>2 DEF PostIsCurrent, Sends
    <2>5. /\ delivery' = [delivery EXCEPT ![p] = v]
          /\ issueKey' = [issueKey EXCEPT
                ![p] = IF post[w].step = "created" THEN post[w].try ELSE 0]
          /\ ready' = [ready EXCEPT ![p] = (v # "pending")]
      BY <1>6 DEF SaveResult
    <2> HIDE DEF v
    <2>6. DeliveryTypeOK'
      BY <1>1, <1>2, <2>1, <2>2, <2>5 DEF DeliveryTypeOK, DeliveryStatus
    <2>7. NoTrace'
      BY <1>1, <1>2, <2>1, <2>3, <2>4, <2>5 DEF DeliveryTypeOK, NoTrace, Quiet, Sends
    <2>8. TriesLeft'
      BY <1>1, <2>1, <2>5 DEF DeliveryTypeOK, TriesLeft
    <2>9. KeysAreIssues'
      BY <1>1, <2>1, <2>3, <2>5 DEF DeliveryTypeOK, KeysAreIssues
    <2> QED
      BY <1>3, <1>4, <2>6, <2>7, <2>8, <2>9
  <1> QED
    BY <1>0, <1>5, <1>6 DEF SaveAnswer, DropPost

\* Only an issue that exists is verified, and only doubt is reconciled.
LEMMA OperatorPreserves ==
    ASSUME DeliveryInv, NEW o \in Operator, OperatorStep(o)
    PROVE  DeliveryInv'
  <1> USE DEF DeliveryInv
  <1>1. ASSUME NEW p \in Proposal, Verify(o, p)
        PROVE  DeliveryInv'
    <2>1. PICK n \in issues[p] :
              found' = [found EXCEPT ![o] = [proposal |-> p, try |-> n]]
      BY <1>1 DEF Verify
    <2>2. [proposal |-> p, try |-> n] \in Found
      BY <2>1 DEF DeliveryTypeOK, Found
    <2>3. UNCHANGED <<delivery, tries, ready, stalled, issueKey, post, wire, issues>>
      BY <1>1 DEF Verify
    <2>4. DeliveryTypeOK' /\ KeysAreIssues'
      BY <2>1, <2>2, <2>3 DEF DeliveryTypeOK, KeysAreIssues
    <2>5. NoTrace' /\ TriesLeft' /\ PostIsCurrent' /\ JiraIsCurrent'
      BY <2>3 DEF NoTrace, TriesLeft, PostIsCurrent, JiraIsCurrent, Quiet, Sends
    <2> QED
      BY <2>4, <2>5
  <1>2. CASE Reconcile(o)
    <2> DEFINE p == found[o].proposal
    <2>1. /\ found[o] \in Found /\ found[o].try \in issues[p] /\ p \in Proposal
          /\ found' = [found EXCEPT ![o] = NoPost]
          /\ UNCHANGED <<tries, stalled, post, wire, issues>>
      BY <1>2 DEF Reconcile, DeliveryTypeOK, KeysAreIssues, Found
    <2>2. PostIsCurrent' /\ JiraIsCurrent'
      BY <2>1 DEF PostIsCurrent, JiraIsCurrent, Quiet, Sends
    <2>3. CASE UNCHANGED <<delivery, issueKey, ready>>
      BY <2>1, <2>2, <2>3
      DEF DeliveryTypeOK, NoTrace, TriesLeft, KeysAreIssues, Quiet, Sends
    <2>4. CASE delivery[p] = "uncertain" /\ SaveResult(p, "succeeded", found[o].try, TRUE)
      <3>1. found[o].try \in 0..MaxTries
        BY <2>1, RetryAssumption DEF Found, MaxTries
      <3>2. DeliveryTypeOK'
        BY <2>1, <2>4, <3>1 DEF DeliveryTypeOK, SaveResult, DeliveryStatus
      <3>3. NoTrace' /\ TriesLeft' /\ KeysAreIssues'
        BY <2>1, <2>4
        DEF DeliveryTypeOK, NoTrace, TriesLeft, KeysAreIssues, Quiet, Sends, SaveResult
      <3> QED
        BY <2>2, <3>2, <3>3
    <2> QED
      BY <1>2, <2>3, <2>4 DEF Reconcile
  <1> QED
    BY <1>1, <1>2 DEF OperatorStep

\* Every step keeps the invariant.
LEMMA DeliveryStepPreserves ==
    DeliveryInv /\ [DeliveryNext]_deliveryVars => DeliveryInv'
  <1> SUFFICES ASSUME DeliveryInv, [DeliveryNext]_deliveryVars
               PROVE  DeliveryInv'
    OBVIOUS
  <1>1. ASSUME NEW p \in Proposal, Enqueue(p)
        PROVE  DeliveryInv'
    BY <1>1, RowPreserves
  <1>2. ASSUME NEW w \in Sender, SenderStep(w)
        PROVE  DeliveryInv'
    BY <1>2, UnsentPreserves, MarkPreserves, SendPreserves, EndOfPostPreserves
    DEF SenderStep, Pick
  <1>3. CASE JiraStep
    BY <1>3, CreatesPreserves, RefusesPreserves DEF JiraStep
  <1>4. ASSUME NEW o \in Operator, OperatorStep(o)
        PROVE  DeliveryInv'
    BY <1>4, OperatorPreserves
  <1>5. CASE DeliveryTime
    BY <1>5, RowPreserves DEF DeliveryTime
  <1>6. CASE UNCHANGED deliveryVars
    BY <1>6 DEF deliveryVars, DeliveryInv, DeliveryTypeOK, NoTrace, TriesLeft,
                PostIsCurrent, JiraIsCurrent, KeysAreIssues, Quiet, Sends
  <1> QED
    BY <1>1, <1>2, <1>3, <1>4, <1>5, <1>6 DEF DeliveryNext

LEMMA DeliveryInvariant == DeliverySpec => []DeliveryInv
  BY DeliveryStarts, DeliveryStepPreserves, PTL DEF DeliverySpec

-----------------------------------------------------------------------------
\* The outbox is well typed: a ticket is sent at most RetryLimit + 1 times.
THEOREM DeliveryTypeCorrect == DeliverySpec => []DeliveryTypeOK
  <1>1. DeliveryInv => DeliveryTypeOK
    BY DEF DeliveryInv
  <1> QED
    BY <1>1, DeliveryInvariant, PTL

\* One approval never makes two Jira issues.
THEOREM NeverTwoIssues == DeliverySpec => []AtMostOneIssue
  <1>1. DeliveryInv => AtMostOneIssue
    BY DEF DeliveryInv, JiraIsCurrent, AtMostOneIssue
  <1> QED
    BY <1>1, DeliveryInvariant, PTL

\* A row that is sent again has made nothing yet.
THEOREM RetriesAreSafe == DeliverySpec => []RetryIsSafe
  <1>1. DeliveryInv => RetryIsSafe
    BY DEF DeliveryInv, NoTrace, Quiet, RetryIsSafe
  <1> QED
    BY <1>1, DeliveryInvariant, PTL

\* Success and failure are true of Jira.
THEOREM VerdictsAreTrue == DeliverySpec => []VerdictIsTrue
  <1>1. DeliveryInv => VerdictIsTrue
    BY DEF DeliveryInv, NoTrace, KeysAreIssues, Quiet, VerdictIsTrue
  <1> QED
    BY <1>1, DeliveryInvariant, PTL

\* A verdict is never taken back, and doubt ends only in success.
THEOREM VerdictsAreFinal == DeliverySpec => VerdictIsFinal
  <1> DEFINE Final(p) ==
          /\ delivery[p] \in {"succeeded", "failed"} =>
                delivery'[p] = delivery[p] /\ issueKey'[p] = issueKey[p]
          /\ delivery[p] = "uncertain" => delivery'[p] \in {"uncertain", "succeeded"}
  <1>1. DeliveryInv /\ [DeliveryNext]_deliveryVars
            => [\A p \in Proposal : Final(p)]_deliveryVars
    <2> SUFFICES ASSUME DeliveryInv, DeliveryNext, NEW p \in Proposal
                 PROVE  Final(p)
      OBVIOUS
    <2> USE DEF DeliveryInv, DeliveryTypeOK
    <2>1. ASSUME NEW q \in Proposal, Enqueue(q) \/ BecomesReady(q) \/ Stalls(q)
          PROVE  Final(p)
      BY <2>1 DEF Enqueue, BecomesReady, Stalls
    <2>2. ASSUME NEW w \in Sender, SenderStep(w)
          PROVE  Final(p)
      <3>1. ASSUME NEW q \in Proposal,
                   RecoverStalled(w, q) \/ Reject(w, q) \/ MarkSending(w, q)
            PROVE  Final(p)
        BY <3>1 DEF RecoverStalled, Reject, MarkSending, SaveResult
      <3>2. CASE SendPost(w) \/ DropPost(w)
        BY <3>2 DEF SendPost, DropPost
      <3>3. CASE SaveAnswer(w)
        BY <3>3 DEF SaveAnswer, SaveResult
      <3> QED
        BY <2>2, <3>1, <3>2, <3>3 DEF SenderStep, Pick
    <2>3. CASE JiraStep
      BY <2>3 DEF JiraStep, JiraCreates, JiraRefuses
    <2>4. ASSUME NEW o \in Operator, OperatorStep(o)
          PROVE  Final(p)
      BY <2>4 DEF OperatorStep, Reconcile, Verify, SaveResult
    <2> QED
      BY <2>1, <2>2, <2>3, <2>4 DEF DeliveryNext, DeliveryTime
  <1> QED
    BY <1>1, DeliveryInvariant, PTL DEF DeliverySpec, VerdictIsFinal

=============================================================================
