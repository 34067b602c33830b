---------------------------- MODULE SlackReplies ----------------------------
(***************************************************************************)
(* The Slack connector: the listener of slack/__main__.py, which           *)
(* acknowledges a mention once its event, job and reply row are committed, *)
(* and slack/delivery.py, which posts one reply per event and updates it   *)
(* while the job moves, as JobStage lets it.  A mention is an Event and    *)
(* costs a token of the connector's bucket.                                *)
(* Slack itself is external: a request may reach it late or never, and its *)
(* answer may be lost.                                                     *)
(***************************************************************************)
EXTENDS RateLimiter, JobStage

CONSTANTS
    Sender,      \* connector processes, each with one sender
    RetryLimit,  \* a 429 is retried while the attempts before it are fewer (4)
    None         \* no post under way, no body yet

ASSUME RetryAssumption == RetryLimit \in Nat

\* The text of a reply: one for what the job shows, one for the expiry.
Body == Parked \union Final \union {"expired"}

Step == {"marked", "posted", "sent", "limited", "refused", "unclear"}
Post == [event : Event, body : Body, update : BOOLEAN, try : 1..RetryLimit + 1,
         last : BOOLEAN, step : Step]
Request == [event : Event, body : Body, update : BOOLEAN]

ASSUME NoneAssumption == None \notin Post /\ None \notin Body

VARIABLES
    acked,      \* Slack has heard the acknowledgement of the mention
    state,      \* slack_replies.state, "none" without a row
    tries,      \* slack_replies.attempts
    ready,      \* next_run_at <= clock_timestamp()
    stalled,    \* started_at older than two minutes
    recorded,   \* response_hash; message_ts is NULL while it is None
    post,       \* the request a sender is making, and what it heard
    wire,       \* requests Slack has not handled yet
    messages,   \* messages Slack shows for the event; 2 stands for more
    shown       \* the body of the last message written

rowVars == <<state, tries, ready, stalled, recorded>>
slackVars == <<wire, messages, shown>>
replyVars == <<acked, jobVars, rowVars, post, slackVars>>
vars == <<replyVars, bucketVars>>

ReplyState == {"none", "waiting", "sending", "complete", "uncertain", "failed"}

Init ==
    /\ BucketInit
    /\ acked = [e \in Event |-> FALSE]
    /\ StageInit
    /\ state = [e \in Event |-> "none"]
    /\ tries = [e \in Event |-> 0]
    /\ ready = [e \in Event |-> FALSE]
    /\ stalled = [e \in Event |-> FALSE]
    /\ recorded = [e \in Event |-> None]
    /\ post = [w \in Sender |-> None]
    /\ wire = {}
    /\ messages = [e \in Event |-> 0]
    /\ shown = [e \in Event |-> None]

-----------------------------------------------------------------------------
\* Mutant: a mention that cannot be stored is acknowledged too.
StoreOrRefuse(e, heard) ==
    /\ ~acked[e]
    /\ \/ stage' = [stage EXCEPT ![e] = IF @ = "none" THEN "running" ELSE @]
          /\ state' = [state EXCEPT ![e] = IF @ = "none" THEN "waiting" ELSE @]
          /\ ready' = [ready EXCEPT ![e] = @ \/ state[e] = "none"]
       \/ UNCHANGED <<stage, state, ready>>
    /\ acked' = [acked EXCEPT ![e] = heard]
    /\ UNCHANGED <<overdue, review, tries, stalled, recorded, post, slackVars>>

\* One transaction for event, job and reply row, or none of them for a duplicate;
\* the acknowledgement that follows may be lost.
Store(e, heard) ==
    /\ ~acked[e]
    /\ IF state[e] = "none"
       THEN /\ Arrives(e)
            /\ state' = [state EXCEPT ![e] = "waiting"]
            /\ ready' = [ready EXCEPT ![e] = TRUE]
       ELSE UNCHANGED <<jobVars, state, ready>>
    /\ acked' = [acked EXCEPT ![e] = heard]
    /\ UNCHANGED <<tries, stalled, recorded, post, slackVars>>

\* Slack delivers a mention until it hears of it, to either process.  One over its
\* connector's rate, or one that cannot be stored, is not acknowledged; the token
\* it took is spent.  consume and the storing are two transactions on tables that
\* only they touch: nothing between them can make a difference.
Listen(e) ==
    /\ ~acked[e]
    /\ \E now \in Reading :
          \/ Refuse(now) /\ UNCHANGED replyVars
          \/ Take(now) /\ UNCHANGED replyVars
          \/ Take(now) /\ \E heard \in BOOLEAN : Store(e, heard)

Observe == Watch /\ UNCHANGED replyVars

-----------------------------------------------------------------------------
\* The job goes its way meanwhile.
JobMovesOn(e) == JobStep(e) /\ UNCHANGED <<acked, rowVars, post, slackVars>>

-----------------------------------------------------------------------------
\* claim asks the proposal alone, render looks at a failed job first.
Expired(e) == overdue[e] /\ stage[e] \in {"awaiting", "answered"}

\* render: the status, unless the proposal has expired undecided.
Render(e) == IF Expired(e) THEN "expired" ELSE stage[e]

\* Mutant: an interrupted sender's reply is sent again.
ReplayStalled ==
    [e \in Event |-> IF state[e] = "sending" /\ stalled[e] THEN "waiting" ELSE state[e]]

\* Mutant: nobody looks for interrupted senders.
ForgetStalled == state

\* The first statement of claim: every marker older than two minutes.
AfterRecovery ==
    [e \in Event |-> IF state[e] = "sending" /\ stalled[e] THEN "uncertain" ELSE state[e]]

\* A reply that is due and whose job is out of routing.
Due(e) == state[e] = "waiting" /\ ready[e] /\ stage[e] # "running"

\* The member of the mention is no longer mapped to the same user.
RevokeIdentity(w, e) ==
    /\ post[w] = None
    /\ Due(e)
    /\ state' = [AfterRecovery EXCEPT ![e] = "failed"]
    /\ UNCHANGED <<tries, ready, stalled, recorded, acked, jobVars, post, slackVars>>

\* Nothing new to say: look again in 15 seconds.
Recheck(w, e) ==
    /\ post[w] = None
    /\ Due(e)
    /\ Render(e) = recorded[e]
    /\ state' = AfterRecovery
    /\ ready' = [ready EXCEPT ![e] = FALSE]
    /\ UNCHANGED <<tries, stalled, recorded, acked, jobVars, post, slackVars>>

MarkSending(w, e) ==
    /\ post[w] = None
    /\ Due(e)
    /\ Render(e) # recorded[e]
    /\ state' = [AfterRecovery EXCEPT ![e] = "sending"]
    /\ tries' = [tries EXCEPT ![e] = @ + 1]
    /\ stalled' = [stalled EXCEPT ![e] = FALSE]
    /\ post' = [post EXCEPT ![w] =
           [event |-> e, body |-> Render(e), update |-> recorded[e] # None,
            try |-> tries[e] + 1, last |-> stage[e] \in Final \/ Expired(e),
            step |-> "marked"]]
    /\ UNCHANGED <<ready, recorded, acked, jobVars, slackVars>>

\* No reply is due, the recovery alone commits.
RecoverOnly(w) ==
    /\ post[w] = None
    /\ \A e \in Event : ~Due(e)
    /\ \E e \in Event : state[e] = "sending" /\ stalled[e]
    /\ state' = AfterRecovery
    /\ UNCHANGED <<tries, ready, stalled, recorded, acked, jobVars, post, slackVars>>

Claim(w, e) == RevokeIdentity(w, e) \/ Recheck(w, e) \/ MarkSending(w, e)

-----------------------------------------------------------------------------
\* chat.postMessage, or chat.update once a message is known.
SendRequest(w) ==
    /\ post[w] # None
    /\ post[w].step = "marked"
    /\ wire' = wire \union {[event |-> post[w].event, body |-> post[w].body,
                             update |-> post[w].update]}
    /\ post' = [post EXCEPT ![w].step = "posted"]
    /\ UNCHANGED <<acked, jobVars, rowVars, messages, shown>>

\* Slack answers a request; the sender hears it only if it still waits for it.
Hear(m, reply) ==
    post' = [w \in Sender |->
        IF /\ post[w] # None
           /\ post[w].step = "posted"
           /\ m = [event |-> post[w].event, body |-> post[w].body, update |-> post[w].update]
        THEN [post[w] EXCEPT !.step = reply]
        ELSE post[w]]

\* The message is written, and the answer is clear, hidden by an error or lost.
SlackWrites(m, reply) ==
    /\ m \in wire
    /\ reply \in {"sent", "unclear", "posted"}
    /\ wire' = wire \ {m}
    /\ messages' = [messages EXCEPT ![m.event] =
           IF m.update THEN @ ELSE IF @ = 0 THEN 1 ELSE 2]
    /\ shown' = [shown EXCEPT ![m.event] = m.body]
    /\ Hear(m, reply)
    /\ UNCHANGED <<acked, jobVars, rowVars>>

\* Nothing is written: a rate limit, a refusal, an error or a lost request.
SlackRefuses(m, reply) ==
    /\ m \in wire
    /\ reply \in {"limited", "refused", "unclear", "posted"}
    /\ wire' = wire \ {m}
    /\ Hear(m, reply)
    /\ UNCHANGED <<acked, jobVars, rowVars, messages, shown>>

SlackStep == \E m \in wire, r \in Step : SlackWrites(m, r) \/ SlackRefuses(m, r)

-----------------------------------------------------------------------------
\* Mutant: an update is thought harmless to repeat after an unknown result.
VerdictRepeatsUpdate(m) ==
    CASE m.step = "sent" -> IF m.last THEN "complete" ELSE "waiting"
      [] m.step \in {"unclear", "posted"} -> IF m.update THEN "waiting" ELSE "uncertain"
      [] m.step = "refused" -> "failed"
      [] m.step = "limited" -> IF m.try - 1 < RetryLimit THEN "waiting" ELSE "failed"

\* Mutant: the job is read again when the answer is stored.
VerdictOfCurrentJob(m) ==
    CASE m.step = "sent" -> IF stage[m.event] \in Final THEN "complete" ELSE "waiting"
      [] m.step \in {"unclear", "posted"} -> "uncertain"
      [] m.step = "refused" -> "failed"
      [] m.step = "limited" -> IF m.try - 1 < RetryLimit THEN "waiting" ELSE "failed"

\* The state that follows an answer; "last" was judged from the row as claimed.
Verdict(m) ==
    CASE m.step = "sent" -> IF m.last THEN "complete" ELSE "waiting"
      [] m.step \in {"unclear", "posted"} -> "uncertain"
      [] m.step = "refused" -> "failed"
      [] m.step = "limited" -> IF m.try - 1 < RetryLimit THEN "waiting" ELSE "failed"

\* Mutant: the row is updated whatever its state.
SaveLateAnswer(w) ==
    /\ post[w] # None
    /\ post[w].step # "marked"
    /\ LET m == post[w]
           e == m.event
       IN  /\ state' = [state EXCEPT ![e] = Verdict(m)]
           /\ ready' = [ready EXCEPT ![e] = FALSE]
           /\ tries' = [tries EXCEPT ![e] = IF m.step = "sent" THEN 0 ELSE @]
           /\ recorded' = [recorded EXCEPT ![e] = IF m.step = "sent" THEN m.body ELSE @]
    /\ post' = [post EXCEPT ![w] = None]
    /\ UNCHANGED <<stalled, acked, jobVars, slackVars>>

\* Both updates of deliver_once ask for state = 'sending' and for nothing else.
SaveAnswer(w) ==
    /\ post[w] # None
    /\ post[w].step # "marked"
    /\ LET m == post[w]
           e == m.event
       IN  IF state[e] = "sending"
           THEN /\ state' = [state EXCEPT ![e] = Verdict(m)]
                /\ ready' = [ready EXCEPT ![e] = FALSE]
                /\ tries' = [tries EXCEPT ![e] = IF m.step = "sent" THEN 0 ELSE @]
                /\ recorded' = [recorded EXCEPT ![e] = IF m.step = "sent" THEN m.body ELSE @]
           ELSE UNCHANGED <<state, ready, tries, recorded>>
    /\ post' = [post EXCEPT ![w] = None]
    /\ UNCHANGED <<stalled, acked, jobVars, slackVars>>

\* The process dies, or the answer cannot be stored: the marker stays.
DropPost(w) ==
    /\ post[w] # None
    /\ post' = [post EXCEPT ![w] = None]
    /\ UNCHANGED <<acked, jobVars, rowVars, slackVars>>

\* Time passes: next_run_at is reached, the two minutes of a marker run out.
BecomesReady(e) ==
    /\ state[e] = "waiting"
    /\ ~ready[e]
    /\ ready' = [ready EXCEPT ![e] = TRUE]
    /\ UNCHANGED <<state, tries, stalled, recorded, acked, jobVars, post, slackVars>>

Stalls(e) ==
    /\ state[e] = "sending"
    /\ ~stalled[e]
    /\ stalled' = [stalled EXCEPT ![e] = TRUE]
    /\ UNCHANGED <<state, tries, ready, recorded, acked, jobVars, post, slackVars>>

-----------------------------------------------------------------------------
SenderStep(w) ==
    \/ \E e \in Event : Claim(w, e)
    \/ RecoverOnly(w) \/ SendRequest(w) \/ SaveAnswer(w) \/ DropPost(w)

ReplyStep ==
    \/ \E e \in Event : JobMovesOn(e) \/ BecomesReady(e) \/ Stalls(e)
    \/ \E w \in Sender : SenderStep(w)
    \/ SlackStep

Next ==
    \/ \E e \in Event : Listen(e)
    \/ Observe
    \/ ReplyStep /\ UNCHANGED bucketVars

Spec == Init /\ [][Next]_vars

\* A sender polls every second and takes the reply that is due the longest
\* (ORDER BY next_run_at), its HTTP client has a timeout of 10 s, clocks advance.
\* Nothing is assumed of Slack, of the job or of the people who decide.
SenderFairness ==
    /\ \A e \in Event : SF_replyVars(\E w \in Sender : Claim(w, e))
    /\ SF_replyVars(\E w \in Sender : RecoverOnly(w))
    /\ \A w \in Sender : WF_replyVars(SendRequest(w) \/ SaveAnswer(w) \/ DropPost(w))
    /\ \A e \in Event : WF_replyVars(BecomesReady(e)) /\ WF_replyVars(Stalls(e))

FairSpec == Spec /\ SenderFairness

-----------------------------------------------------------------------------
\* Every variable has its type; a reply is tried at most RetryLimit + 1 times
\* ("au maximum cinq tentatives", docs/slack.md:148).
TypeOK ==
    /\ acked \in [Event -> BOOLEAN]
    /\ stage \in [Event -> Stage]
    /\ overdue \in [Event -> BOOLEAN]
    /\ review \in [Event -> {"none", "intime", "late"}]
    /\ state \in [Event -> ReplyState]
    /\ tries \in [Event -> 0..RetryLimit + 1]
    /\ ready \in [Event -> BOOLEAN]
    /\ stalled \in [Event -> BOOLEAN]
    /\ recorded \in [Event -> Body \union {None}]
    /\ post \in [Sender -> Post \union {None}]
    /\ wire \subseteq Request
    /\ messages \in [Event -> 0..2]
    /\ shown \in [Event -> Body \union {None}]

\* A mention that Slack will not deliver again has its reply row and its job
\* (slack/__main__.py:39-47).
AcknowledgedIsStored ==
    \A e \in Event : acked[e] => state[e] # "none" /\ stage[e] # "none"

\* "Aucun second message n'est publié automatiquement" (docs/slack.md:149):
\* interrupted, slow and competing senders never post twice for one event.
OneMessagePerEvent == \A e \in Event : messages[e] < 2

\* What the row records is what the thread shows, as long as the connector goes
\* on with the row or has ended it well: no older update is still on its way.
RecordedIsShown ==
    \A e \in Event :
        state[e] \in {"waiting", "complete"} =>
            /\ recorded[e] = shown[e]
            /\ (recorded[e] = None) = (messages[e] = 0)
            /\ \A m \in wire : m.event # e

\* A reply is complete only with the outcome of its job, or with the expiry of
\* its proposal: what changed while the last request was under way is not lost
\* (slack/delivery.py:90).  The expiry is excepted because a review that read the
\* proposal in time may still commit after the reply told of the expiry.
CompleteIsCurrent ==
    \A e \in Event :
        state[e] = "complete" =>
            \/ shown[e] = "expired" /\ overdue[e]
            \/ shown[e] = stage[e] /\ stage[e] \in Final

\* Complete, failed and uncertain replies are left alone, whatever a late sender
\* hears (the condition on state at slack/delivery.py:84 and 96).
EndedRepliesStay ==
    [][\A e \in Event :
          state[e] \in {"complete", "failed", "uncertain"} =>
              /\ state'[e] = state[e]
              /\ recorded'[e] = recorded[e]]_replyVars

\* When the job has its outcome, the reply ends as well, or says why it cannot.
OutcomeIsReported ==
    \A e \in Event :
        stage[e] \in Final ~> state[e] \in {"complete", "failed", "uncertain"}

=============================================================================
