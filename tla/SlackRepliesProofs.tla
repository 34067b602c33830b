------------------------- MODULE SlackRepliesProofs -------------------------
(***************************************************************************)
(* The bucket first: it admits no more than its rate, and what it promises *)
(* to a refused request it keeps, for every capacity, period and clock.    *)
(* The products of two unknowns are beyond the arithmetic of the provers:  *)
(* the first lemmas take them apart.                                       *)
(*                                                                         *)
(* Then the replies, for any number of mentions, senders and retries.  The *)
(* invariant follows a reply through its request: nothing is under way for *)
(* a row that waits, at most one post and one request for any other, and a *)
(* request that Slack has not handled finds the thread as the row has it.  *)
(***************************************************************************)
EXTENDS SlackReplies, TLAPS

LEMMA ProductsGrow ==
    ASSUME NEW c \in Nat, NEW a \in Int, NEW b \in Int, a <= b
    PROVE  c * a <= c * b
BY SMT

LEMMA ProductsAdd ==
    ASSUME NEW c \in Nat, NEW x \in Int, NEW y \in Int, NEW z \in Int
    PROVE  /\ c * (y - x) \in Int /\ c * (z - y) \in Int
           /\ c * (z - x) = c * (y - x) + c * (z - y)
           /\ z <= y => c * (z - y) <= 0
<1>1. c * (y - x) \in Int /\ c * (z - y) \in Int
  BY SMT
<1>2. c * (z - x) = c * (y - x) + c * (z - y)
  BY SMT
<1>3. z <= y => c * (z - y) <= 0
  BY SMT
<1> QED  BY <1>1, <1>2, <1>3

LEMMA RoundedUp ==
    ASSUME NEW x \in Int, NEW d \in Nat \ {0}
    PROVE  (x + d - 1) \div d \in Int /\ x <= d * ((x + d - 1) \div d)
BY SMT

LEMMA Units ==
    /\ Capacity \in Nat \ {0} /\ Second \in Nat \ {0}
    /\ Token \in Nat \ {0} /\ Full \in Nat /\ Token <= Full
    /\ Capacity * Second \in Nat \ {0}
BY BucketAssumption, SMT DEF BucketAssumption, Token, Full

-----------------------------------------------------------------------------
\* What is available lies between nothing and the capacity; unless the bucket is
\* full it is what was left and what the time since has added.
LEMMA AvailableIs ==
    ASSUME BucketTypeOK, NEW now \in Reading
    PROVE  /\ Mark(now, updated) \in Nat /\ Mark(now, updated) >= updated
           /\ Available(now) \in 0..Full
           /\ Available(now) <= tokens + Capacity * (Mark(now, updated) - updated)
           /\ Available(now) < Full =>
                 Available(now) = tokens + Capacity * (Mark(now, updated) - updated)
<1>1. now \in Nat /\ updated \in Nat /\ tokens \in 0..Full
  BY BucketAssumption DEF BucketAssumption, Reading, BucketTypeOK
<1>2. Mark(now, updated) \in Nat /\ Mark(now, updated) >= updated
  BY <1>1 DEF Mark, Larger
<1>3. Larger(0, now - updated) = Mark(now, updated) - updated
  BY <1>1 DEF Mark, Larger
<1> DEFINE earned == Capacity * (Mark(now, updated) - updated)
<1>4. earned \in Nat
  BY <1>2, <1>1, Units
<1>5. Available(now) = Smaller(Full, tokens + earned)
  BY <1>3 DEF Available
<1> HIDE DEF earned
<1>6. /\ Available(now) \in 0..Full
      /\ Available(now) <= tokens + earned
      /\ Available(now) < Full => Available(now) = tokens + earned
  BY <1>1, <1>4, <1>5, Units DEF Smaller
<1> QED  BY <1>2, <1>6 DEF earned

\* The wait is a number of seconds, long enough to earn what is missing.
LEMMA WaitIsEnough ==
    ASSUME BucketTypeOK, NEW now \in Reading, Available(now) < Token
    PROVE  /\ RetryAfter(now) * Second \in Nat \ {0}
           /\ Token - Available(now) <= Capacity * (RetryAfter(now) * Second)
<1> DEFINE missing == Token - Available(now)
           d == Capacity * Second
<1>1. missing \in Int /\ d \in Nat \ {0}
  BY AvailableIs, Units
<1>2. Rounds(missing) \in Int /\ missing <= d * Rounds(missing)
  BY <1>1, RoundedUp DEF Rounds
<1>3. RetryAfter(now) \in Nat \ {0} /\ Rounds(missing) <= RetryAfter(now)
  BY <1>2 DEF RetryAfter, Larger
<1> HIDE DEF missing
<1>4. d * Rounds(missing) <= d * RetryAfter(now)
  <2> HIDE DEF d
  <2> QED  BY <1>1, <1>2, <1>3, ProductsGrow
<1>5. d * RetryAfter(now) = Capacity * (RetryAfter(now) * Second)
  BY <1>3, Units, SMT
<1>6. RetryAfter(now) * Second \in Nat \ {0}
  BY <1>3, Units, SMT
<1>7. d * RetryAfter(now) \in Int /\ d * Rounds(missing) \in Int
  BY <1>1, <1>2, <1>3, SMT
<1> HIDE DEF d
<1> QED  BY <1>1, <1>2, <1>4, <1>5, <1>6, <1>7 DEF missing

-----------------------------------------------------------------------------
\* What is left and what was taken never exceed what was there and what was
\* earned; the next token comes no later than was promised.
BucketInv ==
    /\ BucketTypeOK
    /\ tokens + admitted * Token <= Full + Capacity * (updated - since)
    /\ promise # -1 =>
          promise > updated /\ Token <= tokens + Capacity * (promise - updated)

LEMMA StartsWithin == BucketInit => BucketInv
<1> SUFFICES ASSUME BucketInit PROVE BucketInv
  OBVIOUS
<1>1. Capacity * (updated - since) = 0 /\ admitted * Token = 0
  BY Units DEF BucketInit
<1> QED  BY <1>1, Units DEF BucketInit, BucketInv, BucketTypeOK

LEMMA TakeKeepsBound ==
    ASSUME BucketInv, NEW now \in Reading, Take(now)
    PROVE  BucketInv'
<1>1. BucketTypeOK /\ Available(now) >= Token
  BY DEF BucketInv, Take
<1>2. /\ tokens' = Available(now) - Token /\ updated' = Mark(now, updated)
      /\ admitted' = admitted + 1 /\ since' = since /\ promise' = -1
  BY DEF Take
<1>3. BucketTypeOK'
  BY <1>1, <1>2, AvailableIs, Units DEF BucketTypeOK
<1>4. tokens' + admitted' * Token <= Full + Capacity * (updated' - since')
  <2>1. tokens \in Int /\ updated \in Int /\ since \in Int /\ admitted \in Int
    BY <1>1, Units DEF BucketTypeOK
  <2>2. updated' \in Int /\ Available(now) \in Int
    BY <1>1, <1>2, AvailableIs, Units
  <2>3. admitted' * Token = admitted * Token + Token
    BY <1>2, <2>1, Units
  <2>4. Capacity * (updated' - since) = Capacity * (updated - since) + Capacity * (updated' - updated)
    BY <2>1, <2>2, Units
  <2>5. /\ Capacity * (updated - since) \in Int /\ Capacity * (updated' - updated) \in Int
        /\ admitted * Token \in Int
    BY <2>1, <2>2, Units
  <2>6. Available(now) <= tokens + Capacity * (updated' - updated)
    BY <1>1, <1>2, AvailableIs
  <2>7. tokens + admitted * Token <= Full + Capacity * (updated - since)
    BY DEF BucketInv
  <2> QED  BY <1>2, <2>1, <2>2, <2>3, <2>4, <2>5, <2>6, <2>7, Units
<1> QED  BY <1>2, <1>3, <1>4 DEF BucketInv

LEMMA RefuseKeepsBound ==
    ASSUME BucketInv, NEW now \in Reading, Refuse(now)
    PROVE  BucketInv'
<1>1. BucketTypeOK /\ Available(now) < Token
  BY DEF BucketInv, Refuse
<1>2. /\ tokens' = Available(now) /\ updated' = Mark(now, updated)
      /\ admitted' = admitted /\ since' = since /\ promise' = Promised(now)
  BY DEF Refuse
<1> DEFINE back == updated' + RetryAfter(now) * Second
<1>3. /\ tokens \in Int /\ updated \in Nat /\ since \in 0..updated /\ admitted \in Nat
      /\ promise \in Nat \union {-1}
  BY <1>1, Units DEF BucketTypeOK
<1>4. /\ updated' \in Nat /\ updated <= updated' /\ tokens' \in 0..Full
      /\ tokens' = tokens + Capacity * (updated' - updated)
  BY <1>1, <1>2, AvailableIs, Units
<1>5. /\ RetryAfter(now) * Second \in Nat \ {0}
      /\ Token - tokens' <= Capacity * (RetryAfter(now) * Second)
  BY <1>1, <1>2, WaitIsEnough
<1>6. back > updated' /\ back \in Nat /\ Token <= tokens' + Capacity * (back - updated')
  <2>1. back - updated' = RetryAfter(now) * Second
    BY <1>4, <1>5
  <2>2. Capacity * (RetryAfter(now) * Second) \in Int
    BY <1>5, Units
  <2> QED  BY <1>4, <1>5, <2>1, <2>2, Units
<1>7. promise # -1 => promise > updated' /\ Token <= tokens' + Capacity * (promise - updated')
  <2> SUFFICES ASSUME promise # -1
               PROVE  promise > updated' /\ Token <= tokens' + Capacity * (promise - updated')
    OBVIOUS
  <2>1. promise \in Nat /\ Token <= tokens + Capacity * (promise - updated)
    BY <1>3 DEF BucketInv
  <2>2. updated' \in Int /\ updated \in Int /\ promise \in Int
    BY <1>3, <1>4, <2>1
  <2> DEFINE u == updated'
             earned == Capacity * (u - updated)
             coming == Capacity * (promise - u)
  <2>3. /\ earned \in Int /\ coming \in Int
        /\ Capacity * (promise - updated) = earned + coming
        /\ promise <= u => coming <= 0
    <3> HIDE DEF u
    <3>1. u \in Int
      BY <2>2 DEF u
    <3> QED  BY <2>2, <3>1, ProductsAdd, Units
  <2>4. tokens' = tokens + earned /\ tokens \in Int /\ tokens' \in Int
    BY <1>3, <1>4, Units
  <2> HIDE DEF earned, coming
  <2>5. Token <= tokens' + coming
    BY <2>1, <2>3, <2>4, Units
  <2>6. tokens' < Token
    BY <1>1, <1>2
  <2>7. ~(promise <= u)
    BY <2>3, <2>4, <2>5, <2>6, Units
  <2> QED  BY <2>2, <2>5, <2>7 DEF coming
<1>8. promise' # -1 => promise' > updated' /\ Token <= tokens' + Capacity * (promise' - updated')
  <2>1. promise' = IF promise = -1 THEN back ELSE Smaller(promise, back)
    BY <1>2 DEF Promised
  <2>2. promise' = back \/ (promise # -1 /\ promise' = promise)
    BY <2>1 DEF Smaller
  <2> QED  BY <1>6, <1>7, <2>2
<1>9. BucketTypeOK'
  <2>1. promise' \in Nat \union {-1}
    BY <1>2, <1>3, <1>6 DEF Promised, Smaller
  <2> QED  BY <1>2, <1>3, <1>4, <2>1 DEF BucketTypeOK, Full, Token
<1>10. tokens' + admitted' * Token <= Full + Capacity * (updated' - since')
  <2>1. Capacity * (updated' - since) = Capacity * (updated - since) + Capacity * (updated' - updated)
    BY <1>3, <1>4, Units
  <2>2. /\ Capacity * (updated - since) \in Int /\ Capacity * (updated' - updated) \in Int
        /\ admitted * Token \in Int
    BY <1>3, <1>4, Units
  <2>3. tokens + admitted * Token <= Full + Capacity * (updated - since)
    BY DEF BucketInv
  <2> QED  BY <1>2, <1>3, <1>4, <2>1, <2>2, <2>3, Units
<1> QED  BY <1>8, <1>9, <1>10 DEF BucketInv

LEMMA WatchKeepsBound ==
    ASSUME BucketInv, Watch
    PROVE  BucketInv'
<1>1. /\ tokens' = tokens /\ updated' = updated /\ promise' = promise
      /\ since' = updated /\ admitted' = 0
  BY DEF Watch
<1>2. Capacity * (updated' - since') = 0 /\ admitted' * Token = 0
  BY <1>1, Units DEF BucketInv, BucketTypeOK
<1> QED  BY <1>1, <1>2, Units DEF BucketInv, BucketTypeOK, Full, Token

\* Every state of the bucket keeps the invariant.
THEOREM BucketIsCorrect == BucketSpec => []BucketInv
<1>1. BucketInv /\ [BucketNext]_bucketVars => BucketInv'
  <2> SUFFICES ASSUME BucketInv, [BucketNext]_bucketVars PROVE BucketInv'
    OBVIOUS
  <2>1. CASE Watch
    BY <2>1, WatchKeepsBound
  <2>2. ASSUME NEW now \in Reading, Take(now) PROVE BucketInv'
    BY <2>2, TakeKeepsBound
  <2>3. ASSUME NEW now \in Reading, Refuse(now) PROVE BucketInv'
    BY <2>3, RefuseKeepsBound
  <2>4. CASE UNCHANGED bucketVars
    BY <2>4 DEF bucketVars, BucketInv, BucketTypeOK, Full, Token
  <2> QED  BY <2>1, <2>2, <2>3, <2>4 DEF BucketNext
<1> QED  BY <1>1, StartsWithin, PTL DEF BucketSpec

\* The bucket never holds less than nothing or more than its capacity, for every
\* rate and whatever the clock does (rate_limits.py:29-36).
THEOREM BucketTypeCorrect == BucketSpec => []BucketTypeOK
<1>1. BucketInv => BucketTypeOK
  BY DEF BucketInv
<1> QED  BY <1>1, BucketIsCorrect, PTL

\* In every stretch of time the admissions stay within the capacity and the rate,
\* however many instances share the bucket and whatever their clock does
\* (rate_limits.py:29-36).
THEOREM AdmissionsStayBounded == BucketSpec => []AdmissionsAreBounded
<1>1. BucketInv => AdmissionsAreBounded
  <2> SUFFICES ASSUME BucketInv PROVE AdmissionsAreBounded
    OBVIOUS
  <2>1. /\ tokens \in Nat /\ admitted * Token \in Int
        /\ Capacity * (updated - since) \in Int
    BY Units DEF BucketInv, BucketTypeOK
  <2> QED  BY <2>1, Units DEF BucketInv, AdmissionsAreBounded
<1> QED  BY <1>1, BucketIsCorrect, PTL

\* The seconds a refused client is told to wait are enough, unless another request
\* takes the token (rate_limits.py:15 and 32).
THEOREM WaitingSuffices == BucketSpec => []RefusalIsTemporary
<1>1. BucketInv => RefusalIsTemporary
  <2> SUFFICES ASSUME BucketInv, promise # -1 PROVE Available(promise) >= Token
    BY DEF RefusalIsTemporary
  <2>1. /\ promise > updated /\ promise \in Nat /\ updated \in Nat /\ tokens \in Nat
        /\ Token <= tokens + Capacity * (promise - updated)
    BY Units DEF BucketInv, BucketTypeOK
  <2>2. Larger(0, promise - updated) = promise - updated
    BY <2>1 DEF Larger
  <2>3. Capacity * (promise - updated) \in Int
    BY <2>1, Units
  <2> QED  BY <2>1, <2>2, <2>3, Units DEF Available, Smaller
<1> QED  BY <1>1, BucketIsCorrect, PTL

-----------------------------------------------------------------------------
\* Neither a sender nor the network has anything for the event.
Quiet(e) ==
    /\ \A w \in Sender : post[w] # None => post[w].event # e
    /\ \A m \in wire : m.event # e

Recorded(e) == recorded[e] = shown[e] /\ (recorded[e] = None <=> messages[e] = 0)

\* A body after which nothing is to follow.
Outcome(e, body) ==
    \/ body = "expired" /\ overdue[e]
    \/ body = stage[e] /\ stage[e] \in Final

EventInv(e) ==
    /\ review[e] # "none" => stage[e] = "awaiting"
    /\ state[e] = "none" <=> stage[e] = "none"
    /\ acked[e] => state[e] # "none"
    /\ state[e] \in {"none", "waiting"} => tries[e] <= RetryLimit
    /\ state[e] \in {"none", "waiting", "complete"} => Quiet(e) /\ Recorded(e)
    /\ state[e] = "complete" => Outcome(e, shown[e])
    /\ messages[e] <= 1

PostInv(w) ==
    post[w] # None =>
        LET p == post[w]
            e == p.event
        IN  /\ state[e] \in {"sending", "uncertain"}
            /\ tries[e] = p.try
            /\ p.last => Outcome(e, p.body)
            /\ p.step # "posted" => \A m \in wire : m.event # e
            /\ p.step \in {"marked", "limited"} => Recorded(e)
            /\ p.step = "marked" => (p.update <=> recorded[e] # None)
            /\ p.step = "sent" => shown[e] = p.body /\ messages[e] = 1

WireInv(m) ==
    /\ state[m.event] \in {"sending", "uncertain"}
    /\ Recorded(m.event)
    /\ m.update <=> recorded[m.event] # None
    /\ \A k \in wire : k.event = m.event => k = m
    /\ \A w \in Sender : post[w] # None /\ post[w].event = m.event =>
          m.body = post[w].body /\ m.update = post[w].update

OnePost ==
    \A v, w \in Sender :
        post[v] # None /\ post[w] # None /\ post[v].event = post[w].event => v = w

RepliesInv ==
    /\ TypeOK
    /\ OnePost
    /\ \A e \in Event : EventInv(e)
    /\ \A w \in Sender : PostInv(w)
    /\ \A m \in wire : WireInv(m)

LEMMA Values ==
    /\ None \notin Body /\ None \notin Post /\ RetryLimit \in Nat
    /\ Body \subseteq Stage \union {"expired"}
    /\ "expired" \notin Stage
BY NoneAssumption, RetryAssumption
   DEF NoneAssumption, RetryAssumption, Body, Stage, Parked, Final

LEMMA Posted ==
    ASSUME TypeOK, NEW w \in Sender, post[w] # None
    PROVE  /\ post[w] \in Post
           /\ post[w].event \in Event /\ post[w].body \in Body
           /\ post[w].update \in BOOLEAN /\ post[w].last \in BOOLEAN
           /\ post[w].try \in 1..RetryLimit + 1 /\ post[w].step \in Step
<1>1. post[w] \in Post
  BY DEF TypeOK
<1> QED  BY <1>1 DEF Post

LEMMA Requested ==
    ASSUME TypeOK, NEW m \in wire
    PROVE  m \in Request /\ m.event \in Event /\ m.body \in Body /\ m.update \in BOOLEAN
BY DEF TypeOK, Request

-----------------------------------------------------------------------------
\* The job and the people who decide about it.
LEMMA JobMoveIs ==
    ASSUME NEW e \in Event, JobMoves(e), stage \in [Event -> Stage]
    PROVE  /\ stage[e] \in {"running", "delivering", "doubt"}
           /\ \E s \in Stage \ {"none"} : stage' = [stage EXCEPT ![e] = s]
<1>1. DOMAIN Moves = {"running", "delivering", "doubt"}
  BY DEF Moves
<1>2. \A s \in DOMAIN Moves : Moves[s] \subseteq Stage \ {"none"}
  <2>1. Moves["running"] = {"answered", "failed", "awaiting"}
    BY DEF Moves
  <2>2. Moves["delivering"] = {"created", "failed", "doubt"}
    BY DEF Moves
  <2>3. Moves["doubt"] = {"created"}
    BY DEF Moves
  <2> QED  BY <1>1, <2>1, <2>2, <2>3 DEF Stage, Parked, Final
<1> QED  BY <1>1, <1>2 DEF JobMoves

LEMMA JobKeeps ==
    ASSUME RepliesInv, NEW e \in Event, JobMovesOn(e)
    PROVE  RepliesInv'
<1>1. UNCHANGED <<acked, rowVars, post, slackVars>>
  BY DEF JobMovesOn
<1>2. /\ stage' \in [Event -> Stage]
      /\ overdue' \in [Event -> BOOLEAN]
      /\ review' \in [Event -> {"none", "intime", "late"}]
      /\ \A o \in Event : stage[o] = "none" <=> stage'[o] = "none"
      /\ \A o \in Event : stage[o] \in Final => stage'[o] = stage[o]
      /\ \A o \in Event : review'[o] # "none" => stage'[o] = "awaiting"
      /\ \A o \in Event : overdue[o] => overdue'[o]
  <2>1. /\ stage \in [Event -> Stage] /\ overdue \in [Event -> BOOLEAN]
        /\ review \in [Event -> {"none", "intime", "late"}]
        /\ \A o \in Event : review[o] # "none" => stage[o] = "awaiting"
    BY DEF RepliesInv, TypeOK, EventInv
  <2>2. CASE JobMoves(e)
    BY <2>1, <2>2, JobMoveIs DEF JobMoves, Final, Stage, Parked
  <2>3. CASE ReviewReads(e)
    BY <2>1, <2>3 DEF ReviewReads
  <2>4. CASE ReviewCommits(e)
    BY <2>1, <2>4 DEF ReviewCommits, Stage, Parked, Final
  <2>5. CASE ReviewRollsBack(e)
    BY <2>1, <2>5 DEF ReviewRollsBack
  <2>6. CASE Expires(e)
    BY <2>1, <2>6 DEF Expires
  <2> QED  BY <2>2, <2>3, <2>4, <2>5, <2>6 DEF JobMovesOn, JobStep
<1>3. \A o \in Event : \A b \in Body : Outcome(o, b) => Outcome(o, b)'
  BY <1>2 DEF Outcome
<1>4. TypeOK'
  BY <1>1, <1>2 DEF RepliesInv, TypeOK, rowVars, slackVars
<1>5. OnePost' /\ \A m \in wire' : WireInv(m)'
  BY <1>1 DEF RepliesInv, OnePost, WireInv, Recorded, rowVars, slackVars
<1>6. ASSUME NEW o \in Event PROVE EventInv(o)'
  <2>1. EventInv(o) /\ shown[o] \in Body \union {None}
    BY DEF RepliesInv, TypeOK
  <2>2. state[o] = "complete" => Outcome(o, shown[o])'
    BY <1>1, <1>2, <2>1 DEF EventInv, Outcome, slackVars
  <2> QED
    BY <1>1, <1>2, <2>1, <2>2 DEF EventInv, Quiet, Recorded, rowVars, slackVars
<1>7. ASSUME NEW w \in Sender, post[w] # None PROVE PostInv(w)'
  <2>1. PostInv(w) /\ post[w].event \in Event /\ post[w].body \in Body
    BY <1>7, Posted DEF RepliesInv
  <2>2. Outcome(post[w].event, post[w].body) => Outcome(post[w].event, post[w].body)'
    BY <1>1, <1>2, <2>1 DEF Outcome
  <2> QED
    BY <1>1, <1>7, <2>1, <2>2 DEF PostInv, Recorded, rowVars, slackVars
<1>8. \A w \in Sender : PostInv(w)'
  BY <1>1, <1>7 DEF PostInv
<1> QED  BY <1>4, <1>5, <1>6, <1>8 DEF RepliesInv

-----------------------------------------------------------------------------
\* The listener.
LEMMA StoreKeeps ==
    ASSUME RepliesInv, NEW e \in Event, NEW heard \in BOOLEAN, Store(e, heard)
    PROVE  RepliesInv'
<1>1. UNCHANGED <<overdue, review, tries, stalled, recorded, post, wire, messages, shown>>
  BY DEF Store, Arrives, jobVars, slackVars
<1>2. acked' = [acked EXCEPT ![e] = heard]
  BY DEF Store
<1>3. CASE state[e] # "none"
  <2>1. UNCHANGED <<stage, state, ready>>
    BY <1>3 DEF Store, jobVars
  <2> QED
    BY <1>1, <1>2, <1>3, <2>1 DEF RepliesInv, TypeOK, OnePost, EventInv, PostInv, WireInv,
                                 Quiet, Recorded, Outcome
<1>4. CASE state[e] = "none"
  <2>1. /\ stage' = [stage EXCEPT ![e] = "running"]
        /\ state' = [state EXCEPT ![e] = "waiting"]
        /\ ready' = [ready EXCEPT ![e] = TRUE]
    BY <1>4 DEF Store, Arrives
  <2>2. TypeOK'
    BY <1>1, <1>2, <2>1 DEF RepliesInv, TypeOK, Stage, ReplyState
  <2>3. \A o \in Event \ {e} : stage'[o] = stage[o] /\ state'[o] = state[o] /\ acked'[o] = acked[o]
    BY <1>2, <2>1 DEF RepliesInv, TypeOK
  <2>4. stage'[e] = "running" /\ state'[e] = "waiting"
    BY <2>1 DEF RepliesInv, TypeOK
  <2>5. EventInv(e)'
    <3>1. EventInv(e) /\ review[e] = "none"
      BY <1>4 DEF RepliesInv, EventInv
    <3> QED  BY <1>1, <1>4, <2>4, <3>1 DEF EventInv, Quiet, Recorded
  <2>6. \A o \in Event \ {e} : EventInv(o)'
    BY <1>1, <2>3 DEF RepliesInv, EventInv, Quiet, Recorded, Outcome
  <2>7. ASSUME NEW w \in Sender, post[w] # None PROVE PostInv(w)'
    <3>1. PostInv(w) /\ post[w].event \in Event \ {e}
      BY <1>4, <2>7, Posted DEF RepliesInv, PostInv
    <3> QED  BY <1>1, <2>3, <2>7, <3>1 DEF PostInv, Recorded, Outcome
  <2>8. ASSUME NEW m \in wire PROVE WireInv(m)'
    <3>1. WireInv(m) /\ m.event \in Event \ {e}
      BY <1>4, Requested DEF RepliesInv, WireInv
    <3> QED  BY <1>1, <2>3, <3>1 DEF WireInv, Recorded
  <2>9. OnePost' /\ \A w \in Sender : PostInv(w)'
    BY <1>1, <2>7 DEF RepliesInv, OnePost, PostInv
  <2> QED  BY <1>1, <2>2, <2>5, <2>6, <2>8, <2>9 DEF RepliesInv
<1> QED  BY <1>3, <1>4

-----------------------------------------------------------------------------
\* Claiming.  Rows of interrupted senders become uncertain and nothing else does.
LEMMA RecoveryIs ==
    ASSUME NEW o \in Event
    PROVE  /\ AfterRecovery[o] \in {state[o], "uncertain"}
           /\ AfterRecovery[o] # state[o] => state[o] = "sending"
BY DEF AfterRecovery

\* What a claim that makes no request does to the rows.
LEMMA RowsKeep ==
    ASSUME RepliesInv, NEW e \in Event,
           UNCHANGED <<acked, stage, overdue, review, tries, stalled, recorded, post, wire,
                       messages, shown>>,
           ready' \in [Event -> BOOLEAN], state' \in [Event -> ReplyState],
           \A o \in Event : \/ state'[o] = state[o]
                            \/ state[o] = "sending" /\ state'[o] = "uncertain"
                            \/ state[o] = "waiting" /\ state'[o] = "failed"
    PROVE  RepliesInv'
<1>1. TypeOK' /\ OnePost'
  BY DEF RepliesInv, TypeOK, OnePost
<1>2. ASSUME NEW o \in Event PROVE EventInv(o)'
  <2>1. EventInv(o)
    BY DEF RepliesInv
  <2>2. state'[o] = "none" <=> state[o] = "none"
    OBVIOUS
  <2> QED  BY <2>1, <2>2 DEF EventInv, Quiet, Recorded, Outcome
<1>3. ASSUME NEW w \in Sender, post[w] # None PROVE PostInv(w)'
  <2>1. PostInv(w) /\ post[w].event \in Event
    BY <1>3, Posted DEF RepliesInv
  <2>2. state'[post[w].event] \in {"sending", "uncertain"}
    BY <1>3, <2>1 DEF PostInv
  <2> QED  BY <1>3, <2>1, <2>2 DEF PostInv, Recorded, Outcome
<1>4. ASSUME NEW m \in wire PROVE WireInv(m)'
  <2>1. WireInv(m) /\ m.event \in Event
    BY Requested DEF RepliesInv
  <2>2. state'[m.event] \in {"sending", "uncertain"}
    BY <2>1 DEF WireInv
  <2> QED  BY <2>1, <2>2 DEF WireInv, Recorded
<1>5. \A w \in Sender : PostInv(w)'
  BY <1>3 DEF PostInv
<1> QED  BY <1>1, <1>2, <1>4, <1>5 DEF RepliesInv

LEMMA QuietClaimKeeps ==
    ASSUME RepliesInv, NEW w \in Sender, NEW e \in Event,
           RevokeIdentity(w, e) \/ Recheck(w, e) \/ RecoverOnly(w)
    PROVE  RepliesInv'
<1>1. UNCHANGED <<acked, stage, overdue, review, tries, stalled, recorded, post, wire,
                  messages, shown>>
  BY DEF RevokeIdentity, Recheck, RecoverOnly, jobVars, slackVars
<1>2. /\ AfterRecovery \in [Event -> ReplyState]
      /\ ready \in [Event -> BOOLEAN]
  BY DEF RepliesInv, TypeOK, AfterRecovery, ReplyState
<1>3. ready' \in [Event -> BOOLEAN]
  BY <1>2 DEF RevokeIdentity, Recheck, RecoverOnly
<1>4. CASE RevokeIdentity(w, e)
  <2>1. state' = [AfterRecovery EXCEPT ![e] = "failed"] /\ state[e] = "waiting"
    BY <1>4 DEF RevokeIdentity, Due
  <2>2. state'[e] = "failed" /\ \A o \in Event \ {e} : state'[o] = AfterRecovery[o]
    BY <1>2, <2>1
  <2>3. state' \in [Event -> ReplyState]
    BY <1>2, <2>1 DEF ReplyState
  <2> QED  BY <1>1, <1>3, <2>1, <2>2, <2>3, RecoveryIs, RowsKeep
<1>5. CASE Recheck(w, e) \/ RecoverOnly(w)
  <2>1. state' = AfterRecovery
    BY <1>5 DEF Recheck, RecoverOnly
  <2> QED  BY <1>1, <1>2, <1>3, <2>1, RecoveryIs, RowsKeep
<1> QED  BY <1>4, <1>5

\* The new post is the only one for its event, and says what the row says.
LEMMA MarkKeeps ==
    ASSUME RepliesInv, NEW w \in Sender, NEW e \in Event, MarkSending(w, e)
    PROVE  RepliesInv'
<1> DEFINE p == [event |-> e, body |-> Render(e), update |-> recorded[e] # None,
                 try |-> tries[e] + 1, last |-> stage[e] \in Final \/ Expired(e),
                 step |-> "marked"]
<1>1. /\ UNCHANGED <<acked, stage, overdue, review, ready, recorded, wire, messages, shown>>
      /\ state' = [AfterRecovery EXCEPT ![e] = "sending"]
      /\ tries' = [tries EXCEPT ![e] = @ + 1]
      /\ stalled' = [stalled EXCEPT ![e] = FALSE]
      /\ post' = [post EXCEPT ![w] = p]
      /\ post[w] = None /\ state[e] = "waiting" /\ stage[e] # "running"
  BY DEF MarkSending, Due, jobVars, slackVars
<1>2. EventInv(e) /\ tries[e] \in Nat /\ tries[e] <= RetryLimit /\ Quiet(e) /\ Recorded(e)
      /\ stage[e] \in Stage \ {"none", "running"}
  BY <1>1 DEF RepliesInv, EventInv, TypeOK
<1>3. /\ Render(e) \in Body
      /\ stage[e] \in Final \/ Expired(e) => Outcome(e, Render(e))
  BY <1>2 DEF Render, Expired, Outcome, Body, Stage, Parked, Final
<1>4. p \in Post /\ p # None
  <2>1. (recorded[e] # None) \in BOOLEAN /\ (stage[e] \in Final \/ Expired(e)) \in BOOLEAN
    OBVIOUS
  <2>2. tries[e] + 1 \in 1..RetryLimit + 1 /\ "marked" \in Step
    BY <1>2, Values DEF Step
  <2>3. p \in Post
    BY <1>3, <2>1, <2>2 DEF Post
  <2> QED  BY <2>3, Values
<1>5. /\ p.event = e /\ p.body = Render(e) /\ (p.update <=> recorded[e] # None)
      /\ p.try = tries[e] + 1 /\ p.step = "marked"
      /\ p.last => Outcome(e, p.body)
  BY <1>3
<1> HIDE DEF p
<1>6. /\ state' \in [Event -> ReplyState] /\ state'[e] = "sending"
      /\ \A o \in Event \ {e} : state'[o] = AfterRecovery[o]
      /\ tries'[e] = tries[e] + 1
      /\ \A o \in Event \ {e} : tries'[o] = tries[o]
      /\ post'[w] = p /\ \A v \in Sender \ {w} : post'[v] = post[v]
  BY <1>1 DEF RepliesInv, TypeOK, AfterRecovery, ReplyState
<1>7. TypeOK'
  BY <1>1, <1>2, <1>4, <1>6, Values DEF RepliesInv, TypeOK
<1>8. OnePost'
  BY <1>2, <1>5, <1>6 DEF RepliesInv, OnePost, Quiet
<1>9. EventInv(e)'
  BY <1>1, <1>2, <1>6 DEF EventInv
<1>10. ASSUME NEW o \in Event \ {e} PROVE EventInv(o)'
  <2>1. EventInv(o)
    BY DEF RepliesInv
  <2>2. \/ state'[o] = state[o]
        \/ state[o] = "sending" /\ state'[o] = "uncertain"
    BY <1>6, RecoveryIs
  <2>3. Quiet(o) => Quiet(o)'
    BY <1>1, <1>5, <1>6 DEF Quiet
  <2> QED  BY <1>1, <1>6, <2>1, <2>2, <2>3 DEF EventInv, Recorded, Outcome
<1>11. PostInv(w)'
  BY <1>1, <1>2, <1>5, <1>6 DEF PostInv, Quiet, Recorded, Outcome
<1>12. ASSUME NEW v \in Sender \ {w}, post[v] # None PROVE PostInv(v)'
  <2>1. PostInv(v) /\ post[v].event \in Event \ {e}
    BY <1>2, <1>12, Posted DEF RepliesInv, Quiet
  <2>2. state'[post[v].event] \in {"sending", "uncertain"}
    BY <1>6, <1>12, <2>1, RecoveryIs DEF PostInv
  <2> QED  BY <1>1, <1>6, <1>12, <2>1, <2>2 DEF PostInv, Recorded, Outcome
<1>13. ASSUME NEW m \in wire PROVE WireInv(m)'
  <2>1. WireInv(m) /\ m.event \in Event \ {e}
    BY <1>2, Requested DEF RepliesInv, Quiet
  <2>2. state'[m.event] \in {"sending", "uncertain"}
    BY <1>6, <2>1, RecoveryIs DEF WireInv
  <2> QED  BY <1>1, <1>5, <1>6, <2>1, <2>2 DEF WireInv, Recorded
<1>14. \A v \in Sender : PostInv(v)'
  BY <1>6, <1>11, <1>12 DEF PostInv
<1> QED  BY <1>1, <1>7, <1>8, <1>9, <1>10, <1>13, <1>14 DEF RepliesInv

-----------------------------------------------------------------------------
\* The request and its fate.
LEMMA SendKeeps ==
    ASSUME RepliesInv, NEW w \in Sender, SendRequest(w)
    PROVE  RepliesInv'
<1> DEFINE p == post[w]
           e == post[w].event
           m == [event |-> p.event, body |-> p.body, update |-> p.update]
<1>1. /\ UNCHANGED <<acked, stage, overdue, review, state, tries, ready, stalled, recorded,
                     messages, shown>>
      /\ p # None /\ p.step = "marked"
      /\ wire' = wire \union {m}
      /\ post' = [post EXCEPT ![w].step = "posted"]
  BY DEF SendRequest, jobVars, rowVars
<1>2. /\ p \in Post /\ e \in Event /\ p.body \in Body /\ p.update \in BOOLEAN
      /\ PostInv(w)
  BY <1>1, Posted DEF RepliesInv
<1>3. /\ post'[w] \in Post /\ post'[w].event = e /\ post'[w].body = p.body
      /\ post'[w].update = p.update /\ post'[w].try = p.try /\ post'[w].last = p.last
      /\ post'[w].step = "posted"
      /\ \A v \in Sender \ {w} : post'[v] = post[v]
  BY <1>1, <1>2 DEF RepliesInv, TypeOK, Post, Step
<1>4. /\ m \in Request /\ m.event = e /\ m.body = p.body /\ m.update = p.update
  BY <1>2 DEF Request
<1> HIDE DEF m
<1>5. \A k \in wire : k.event # e
  BY <1>1, <1>2 DEF PostInv
<1>6. TypeOK'
  BY <1>1, <1>3, <1>4 DEF RepliesInv, TypeOK
<1>7. post'[w] # None /\ \A v \in Sender : post'[v] # None <=> post[v] # None
  BY <1>1, <1>3, Values
<1>8. OnePost'
  BY <1>1, <1>3, <1>7 DEF RepliesInv, OnePost
<1>9. ASSUME NEW o \in Event PROVE EventInv(o)'
  <2>1. EventInv(o)
    BY DEF RepliesInv
  <2>2. o # e => (Quiet(o) => Quiet(o)')
    BY <1>1, <1>3, <1>4, <1>7 DEF Quiet
  <2>3. state[e] \in {"sending", "uncertain"}
    BY <1>1, <1>2 DEF PostInv
  <2> QED  BY <1>1, <2>1, <2>2, <2>3 DEF EventInv, Recorded, Outcome
<1>10. PostInv(w)'
  BY <1>1, <1>2, <1>3 DEF PostInv, Outcome
<1>11. ASSUME NEW v \in Sender \ {w}, post[v] # None PROVE PostInv(v)'
  <2>1. PostInv(v) /\ post[v].event # e
    BY <1>1, <1>11 DEF RepliesInv, OnePost
  <2> QED  BY <1>1, <1>3, <1>4, <1>11, <2>1 DEF PostInv, Recorded, Outcome
<1>12. ASSUME NEW k \in {m} PROVE WireInv(k)'
  <2>1. \A v \in Sender : post'[v] # None /\ post'[v].event = e => v = w
    BY <1>1, <1>3, <1>7 DEF RepliesInv, OnePost
  <2>2. k = m /\ \A n \in wire' : n.event = e => n = m
    BY <1>1, <1>5
  <2>3. /\ state[e] \in {"sending", "uncertain"} /\ Recorded(e)
        /\ m.update <=> recorded[e] # None
    BY <1>1, <1>2, <1>4 DEF PostInv
  <2>4. \A v \in Sender : post'[v] # None /\ post'[v].event = m.event =>
           m.body = post'[v].body /\ m.update = post'[v].update
    BY <1>3, <1>4, <2>1
  <2> QED  BY <1>1, <1>4, <2>2, <2>3, <2>4 DEF WireInv, Recorded
<1>13. ASSUME NEW k \in wire PROVE WireInv(k)'
  <2>1. WireInv(k) /\ k.event # e
    BY <1>5 DEF RepliesInv
  <2> QED  BY <1>1, <1>3, <1>4, <1>7, <2>1 DEF WireInv, Recorded
<1>14. \A v \in Sender : PostInv(v)'
  BY <1>7, <1>10, <1>11 DEF PostInv
<1> QED  BY <1>1, <1>6, <1>8, <1>9, <1>12, <1>13, <1>14 DEF RepliesInv

\* Only the sender that waits for the answer hears it, and only its step changes.
LEMMA HearIs ==
    ASSUME RepliesInv, NEW m \in wire, NEW reply \in Step, Hear(m, reply)
    PROVE  /\ post' \in [Sender -> Post \union {None}]
           /\ \A w \in Sender : post[w] # None /\ post[w].event = m.event =>
                 /\ post[w].step = "posted" /\ post[w].body = m.body
                 /\ post'[w] = [post[w] EXCEPT !.step = reply]
           /\ \A w \in Sender : post[w] = None \/ post[w].event # m.event =>
                 post'[w] = post[w]
<1>1. post' = [w \in Sender |->
        IF /\ post[w] # None
           /\ post[w].step = "posted"
           /\ m = [event |-> post[w].event, body |-> post[w].body, update |-> post[w].update]
        THEN [post[w] EXCEPT !.step = reply]
        ELSE post[w]]
  BY DEF Hear
<1>2. ASSUME NEW w \in Sender, post[w] # None, post[w].event = m.event
      PROVE  /\ post[w].step = "posted" /\ post[w].body = m.body
             /\ m = [event |-> post[w].event, body |-> post[w].body, update |-> post[w].update]
  <2>1. m \in [event : Event, body : Body, update : BOOLEAN]
    BY Requested DEF RepliesInv, Request
  <2>2. m = [event |-> m.event, body |-> m.body, update |-> m.update]
    BY <2>1
  <2>3. m.body = post[w].body /\ m.update = post[w].update
    BY <1>2 DEF RepliesInv, WireInv
  <2>4. post[w].step = "posted"
    BY <1>2 DEF RepliesInv, PostInv
  <2> QED  BY <1>2, <2>2, <2>3, <2>4
<1>3. ASSUME NEW w \in Sender, post[w] # None
      PROVE  [post[w] EXCEPT !.step = reply] \in Post
  BY <1>3, Posted DEF RepliesInv, Post
<1>4. ASSUME NEW w \in Sender, post[w].event # m.event
      PROVE  m # [event |-> post[w].event, body |-> post[w].body, update |-> post[w].update]
  BY <1>4
<1>5. post \in [Sender -> Post \union {None}]
  BY DEF RepliesInv, TypeOK
<1>6. post' \in [Sender -> Post \union {None}]
  BY <1>1, <1>3, <1>5
<1>7. \A w \in Sender : post[w] # None /\ post[w].event = m.event =>
         post'[w] = [post[w] EXCEPT !.step = reply]
  BY <1>1, <1>2
<1>8. \A w \in Sender : post[w] = None \/ post[w].event # m.event => post'[w] = post[w]
  BY <1>1, <1>4
<1> QED  BY <1>2, <1>6, <1>7, <1>8

LEMMA StepChanged ==
    ASSUME TypeOK, NEW w \in Sender, post[w] # None, NEW reply \in Step,
           post'[w] = [post[w] EXCEPT !.step = reply]
    PROVE  /\ post'[w] # None
           /\ post'[w].event = post[w].event /\ post'[w].body = post[w].body
           /\ post'[w].update = post[w].update /\ post'[w].try = post[w].try
           /\ post'[w].last = post[w].last /\ post'[w].step = reply
<1>1. post[w] \in Post
  BY DEF TypeOK
<1>2. post'[w] \in Post
  BY <1>1 DEF Post
<1> QED  BY <1>1, <1>2, Values DEF Post

LEMMA HandledKeeps ==
    ASSUME RepliesInv, NEW m \in wire, NEW reply \in Step, Hear(m, reply),
           wire' = wire \ {m}, UNCHANGED <<acked, jobVars, rowVars>>,
           messages' \in [Event -> 0..2], shown' \in [Event -> Body \union {None}],
           \A o \in Event \ {m.event} : messages'[o] = messages[o] /\ shown'[o] = shown[o],
           messages'[m.event] <= 1, reply # "marked",
           reply = "sent" => shown'[m.event] = m.body /\ messages'[m.event] = 1,
           reply = "limited" => Recorded(m.event)'
    PROVE  RepliesInv'
<1>1. /\ UNCHANGED <<acked, stage, overdue, review, state, tries, ready, stalled, recorded>>
      /\ m.event \in Event /\ WireInv(m)
  BY Requested DEF jobVars, rowVars, RepliesInv
<1>2. \A k \in wire' : k \in wire /\ k.event # m.event
  BY <1>1 DEF WireInv
<1>3. \A w \in Sender : post[w] # None /\ post[w].event = m.event =>
         /\ post'[w] # None
         /\ post'[w].event = post[w].event /\ post'[w].body = post[w].body
         /\ post'[w].update = post[w].update /\ post'[w].try = post[w].try
         /\ post'[w].last = post[w].last /\ post'[w].step = reply
         /\ post[w].body = m.body
  <2> SUFFICES ASSUME NEW w \in Sender, post[w] # None, post[w].event = m.event
               PROVE  /\ post'[w] # None
                      /\ post'[w].event = post[w].event /\ post'[w].body = post[w].body
                      /\ post'[w].update = post[w].update /\ post'[w].try = post[w].try
                      /\ post'[w].last = post[w].last /\ post'[w].step = reply
                      /\ post[w].body = m.body
    OBVIOUS
  <2>1. post'[w] = [post[w] EXCEPT !.step = reply] /\ post[w].body = m.body
    BY HearIs
  <2>2. TypeOK
    BY DEF RepliesInv
  <2> HIDE DEF RepliesInv
  <2> QED  BY <2>1, <2>2, StepChanged
<1>4. \A w \in Sender : post[w] = None \/ post[w].event # m.event => post'[w] = post[w]
  BY HearIs
<1>5. \A w \in Sender :
         /\ post'[w] # None <=> post[w] # None
         /\ post[w] # None => post'[w].event = post[w].event
  BY <1>3, <1>4
<1>6. TypeOK'
  BY <1>1, HearIs DEF RepliesInv, TypeOK
<1>7. OnePost'
  BY <1>5 DEF RepliesInv, OnePost
<1>8. ASSUME NEW o \in Event PROVE EventInv(o)'
  <2>1. EventInv(o)
    BY DEF RepliesInv
  <2>2. Quiet(o) => Quiet(o)'
    BY <1>2, <1>5 DEF Quiet
  <2>3. CASE o = m.event
    BY <1>1, <2>1, <2>3 DEF EventInv, WireInv
  <2>4. CASE o # m.event
    BY <1>1, <2>1, <2>2, <2>4 DEF EventInv, Recorded, Outcome
  <2> QED  BY <2>3, <2>4
<1>9. ASSUME NEW w \in Sender, post[w] # None PROVE PostInv(w)'
  <2>1. PostInv(w) /\ post[w].event \in Event
    BY <1>9, Posted DEF RepliesInv
  <2>2. CASE post[w].event = m.event
    BY <1>1, <1>2, <1>3, <1>9, <2>1, <2>2 DEF PostInv, Outcome, Recorded
  <2>3. CASE post[w].event # m.event
    <3>1. post'[w] = post[w]
      BY <1>4, <2>3
    <3> QED  BY <1>1, <1>2, <1>9, <2>1, <2>3, <3>1 DEF PostInv, Recorded, Outcome
  <2> QED  BY <2>2, <2>3
<1>10. ASSUME NEW k \in wire' PROVE WireInv(k)'
  <2>1. k \in wire /\ WireInv(k) /\ k.event \in Event \ {m.event}
    BY <1>2, Requested DEF RepliesInv
  <2> QED  BY <1>1, <1>2, <1>4, <1>5, <2>1 DEF WireInv, Recorded
<1>11. \A w \in Sender : PostInv(w)'
  BY <1>5, <1>9 DEF PostInv
<1> QED  BY <1>6, <1>7, <1>8, <1>10, <1>11 DEF RepliesInv

LEMMA SlackKeeps ==
    ASSUME RepliesInv, SlackStep
    PROVE  RepliesInv'
<1> SUFFICES ASSUME NEW m \in wire, NEW reply \in Step,
                    SlackWrites(m, reply) \/ SlackRefuses(m, reply)
             PROVE  RepliesInv'
  BY DEF SlackStep
<1>1. /\ m.event \in Event /\ m.body \in Body /\ WireInv(m) /\ EventInv(m.event)
      /\ messages \in [Event -> 0..2] /\ shown \in [Event -> Body \union {None}]
  BY Requested DEF RepliesInv, TypeOK
<1>2. /\ wire' = wire \ {m} /\ Hear(m, reply) /\ reply # "marked"
      /\ UNCHANGED <<acked, jobVars, rowVars>>
  BY DEF SlackWrites, SlackRefuses
<1>3. CASE SlackWrites(m, reply)
  <2>1. /\ messages' = [messages EXCEPT ![m.event] = IF m.update THEN @ ELSE IF @ = 0 THEN 1 ELSE 2]
        /\ shown' = [shown EXCEPT ![m.event] = m.body]
        /\ reply # "limited"
    BY <1>3 DEF SlackWrites
  <2>2. messages'[m.event] = 1
    BY <1>1, <2>1 DEF WireInv, EventInv, Recorded
  <2>3. messages' \in [Event -> 0..2] /\ shown' \in [Event -> Body \union {None}]
    BY <1>1, <2>1
  <2>4. /\ shown'[m.event] = m.body
        /\ \A o \in Event \ {m.event} : messages'[o] = messages[o] /\ shown'[o] = shown[o]
    BY <1>1, <2>1
  <2> QED  BY <1>2, <2>1, <2>2, <2>3, <2>4, HandledKeeps
<1>4. CASE SlackRefuses(m, reply)
  <2>1. UNCHANGED <<messages, shown>> /\ reply # "sent"
    BY <1>4 DEF SlackRefuses
  <2>2. Recorded(m.event)'
    BY <1>1, <1>2, <2>1 DEF WireInv, Recorded, rowVars
  <2>3. messages'[m.event] <= 1
    BY <1>1, <2>1 DEF EventInv
  <2> QED  BY <1>1, <1>2, <2>1, <2>2, <2>3, HandledKeeps
<1> QED  BY <1>3, <1>4

-----------------------------------------------------------------------------
\* The sender's answer.
LEMMA VerdictIs ==
    ASSUME NEW p \in Post, p.step # "marked"
    PROVE  /\ Verdict(p) \in {"waiting", "complete", "uncertain", "failed"}
           /\ Verdict(p) = "waiting" =>
                 p.step = "sent" \/ (p.step = "limited" /\ p.try - 1 < RetryLimit)
           /\ Verdict(p) = "complete" => p.step = "sent" /\ p.last
           /\ p.step \in {"posted", "unclear"} => Verdict(p) = "uncertain"
<1>1. p.step \in {"sent", "unclear", "posted", "refused", "limited"}
  BY DEF Post, Step
<1>2. CASE p.step = "sent"
  BY <1>2 DEF Verdict
<1>3. CASE p.step \in {"unclear", "posted"}
  BY <1>3 DEF Verdict
<1>4. CASE p.step = "refused"
  BY <1>4 DEF Verdict
<1>5. CASE p.step = "limited"
  BY <1>5 DEF Verdict
<1> QED  BY <1>1, <1>2, <1>3, <1>4, <1>5

\* A post that is given up leaves everything else as it is.
LEMMA DropKeeps ==
    ASSUME RepliesInv, NEW w \in Sender, DropPost(w)
    PROVE  RepliesInv'
<1>1. /\ UNCHANGED <<acked, stage, overdue, review, state, tries, ready, stalled, recorded,
                     wire, messages, shown>>
      /\ post' = [post EXCEPT ![w] = None]
  BY DEF DropPost, jobVars, rowVars, slackVars
<1>2. post'[w] = None /\ \A v \in Sender \ {w} : post'[v] = post[v]
  BY <1>1 DEF RepliesInv, TypeOK
<1>3. TypeOK' /\ OnePost'
  BY <1>1, <1>2 DEF RepliesInv, TypeOK, OnePost
<1>4. \A e \in Event : EventInv(e)'
  BY <1>1, <1>2 DEF RepliesInv, EventInv, Quiet, Recorded, Outcome
<1>5. \A v \in Sender : PostInv(v)'
  BY <1>1, <1>2 DEF RepliesInv, PostInv, Recorded, Outcome
<1>6. \A m \in wire' : WireInv(m)'
  BY <1>1, <1>2 DEF RepliesInv, WireInv, Recorded
<1> QED  BY <1>3, <1>4, <1>5, <1>6 DEF RepliesInv

\* An answer moves the row of its post while it is being sent, and no other.
LEMMA SaveIs ==
    ASSUME RepliesInv, NEW w \in Sender, SaveAnswer(w), state[post[w].event] = "sending"
    PROVE  LET p == post[w]
               e == p.event
           IN  /\ p \in Post /\ e \in Event
               /\ state' = [state EXCEPT ![e] = Verdict(p)]
               /\ ready' = [ready EXCEPT ![e] = FALSE]
               /\ tries' = [tries EXCEPT ![e] = IF p.step = "sent" THEN 0 ELSE @]
               /\ recorded' = [recorded EXCEPT ![e] = IF p.step = "sent" THEN p.body ELSE @]
BY Posted DEF RepliesInv, SaveAnswer

LEMMA SaveKeeps ==
    ASSUME RepliesInv, NEW w \in Sender, SaveAnswer(w)
    PROVE  RepliesInv'
<1>1. /\ UNCHANGED <<acked, stage, overdue, review, stalled, wire, messages, shown>>
      /\ post[w] # None /\ post[w].step # "marked"
      /\ post' = [post EXCEPT ![w] = None]
  BY DEF SaveAnswer, jobVars, slackVars
<1>2. CASE state[post[w].event] # "sending"
  <2>1. DropPost(w)
    BY <1>1, <1>2 DEF SaveAnswer, DropPost, jobVars, rowVars, slackVars
  <2> QED  BY <2>1, DropKeeps
<1>3. CASE state[post[w].event] = "sending"
  <2>0. PICK p \in Post, e \in Event : p = post[w] /\ e = p.event
    BY <1>1, Posted DEF RepliesInv
  <2>1. /\ p.body \in Body /\ p.try \in Nat
        /\ PostInv(w) /\ EventInv(e) /\ tries[e] = p.try
    BY <1>1, <1>3, <2>0, Posted, Values DEF RepliesInv, PostInv
  <2>2. /\ state' = [state EXCEPT ![e] = Verdict(p)]
        /\ ready' = [ready EXCEPT ![e] = FALSE]
        /\ tries' = [tries EXCEPT ![e] = IF p.step = "sent" THEN 0 ELSE @]
        /\ recorded' = [recorded EXCEPT ![e] = IF p.step = "sent" THEN p.body ELSE @]
    BY <1>3, <2>0, SaveIs
  <2>3. /\ Verdict(p) \in {"waiting", "complete", "uncertain", "failed"}
        /\ Verdict(p) = "waiting" =>
              p.step = "sent" \/ (p.step = "limited" /\ p.try - 1 < RetryLimit)
        /\ Verdict(p) = "complete" => p.step = "sent" /\ p.last
        /\ p.step \in {"posted", "unclear"} => Verdict(p) = "uncertain"
    BY <1>1, <2>0, VerdictIs
  <2>4. /\ state'[e] = Verdict(p)
        /\ tries'[e] = IF p.step = "sent" THEN 0 ELSE p.try
        /\ recorded'[e] = IF p.step = "sent" THEN p.body ELSE recorded[e]
        /\ \A o \in Event \ {e} : /\ state'[o] = state[o] /\ tries'[o] = tries[o]
                                  /\ recorded'[o] = recorded[o]
        /\ post'[w] = None /\ \A v \in Sender \ {w} : post'[v] = post[v]
    BY <1>1, <2>1, <2>2 DEF RepliesInv, TypeOK
  <2>5. TypeOK'
    BY <1>1, <2>1, <2>2, <2>3, Values DEF RepliesInv, TypeOK, ReplyState
  <2>6. OnePost'
    BY <2>4 DEF RepliesInv, OnePost
  <2>7. \A v \in Sender \ {w} : post[v] # None => post[v].event # e
    BY <1>1, <2>0 DEF RepliesInv, OnePost
  <2>8. EventInv(e)'
    <3>1. state'[e] \in {"waiting", "complete"} => Quiet(e)'
      BY <1>1, <2>0, <2>1, <2>3, <2>4, <2>7 DEF Quiet, PostInv
    <3>2. state'[e] \in {"waiting", "complete"} => Recorded(e)'
      <4>1. CASE p.step = "sent"
        BY <1>1, <2>0, <2>1, <2>4, <4>1, Values DEF PostInv, Recorded
      <4>2. CASE p.step = "limited"
        BY <1>1, <2>0, <2>1, <2>4, <4>2 DEF PostInv, Recorded
      <4> QED  BY <2>3, <2>4, <4>1, <4>2
    <3>3. state'[e] = "complete" => Outcome(e, shown[e])'
      BY <1>1, <2>0, <2>1, <2>3, <2>4 DEF PostInv, Outcome
    <3>4. state'[e] = "waiting" => tries'[e] <= RetryLimit
      BY <2>1, <2>3, <2>4, Values
    <3>5. state'[e] # "none" /\ state[e] # "none"
      BY <1>3, <2>0, <2>3, <2>4
    <3> QED  BY <1>1, <2>1, <3>1, <3>2, <3>3, <3>4, <3>5 DEF EventInv
  <2>9. ASSUME NEW o \in Event \ {e} PROVE EventInv(o)'
    <3>1. EventInv(o) /\ (Quiet(o) => Quiet(o)')
      BY <1>1, <2>0, <2>4 DEF RepliesInv, Quiet
    <3> QED  BY <1>1, <2>4, <3>1 DEF EventInv, Recorded, Outcome
  <2>10. ASSUME NEW v \in Sender \ {w}, post[v] # None PROVE PostInv(v)'
    <3>1. PostInv(v) /\ post[v].event \in Event \ {e}
      BY <2>7, <2>10, Posted DEF RepliesInv
    <3> QED  BY <1>1, <2>4, <2>10, <3>1 DEF PostInv, Recorded, Outcome
  <2>11. ASSUME NEW m \in wire PROVE WireInv(m)'
    <3>1. WireInv(m) /\ m.event \in Event
      BY Requested DEF RepliesInv
    <3>2. m.event = e => p.step = "posted" /\ state'[e] = "uncertain" /\ recorded'[e] = recorded[e]
      BY <1>1, <2>0, <2>1, <2>3, <2>4 DEF PostInv
    <3> QED  BY <1>1, <2>4, <3>1, <3>2 DEF WireInv, Recorded
  <2>12. \A v \in Sender : PostInv(v)'
    BY <2>4, <2>10 DEF PostInv
  <2> QED  BY <1>1, <2>1, <2>5, <2>6, <2>8, <2>9, <2>11, <2>12 DEF RepliesInv
<1> QED  BY <1>2, <1>3

LEMMA TimeKeeps ==
    ASSUME RepliesInv, NEW e \in Event, BecomesReady(e) \/ Stalls(e)
    PROVE  RepliesInv'
<1>1. UNCHANGED <<acked, stage, overdue, review, state, tries, recorded, post, wire, messages,
                  shown>>
  BY DEF BecomesReady, Stalls, jobVars, slackVars
<1>2. ready' \in [Event -> BOOLEAN] /\ stalled' \in [Event -> BOOLEAN]
  BY DEF BecomesReady, Stalls, RepliesInv, TypeOK
<1> QED
  BY <1>1, <1>2 DEF RepliesInv, TypeOK, OnePost, EventInv, PostInv, WireInv, Quiet, Recorded,
                    Outcome

-----------------------------------------------------------------------------
\* The whole.
LEMMA InitHolds ==
    ASSUME Init
    PROVE  RepliesInv
<1>1. /\ acked = [e \in Event |-> FALSE] /\ stage = [e \in Event |-> "none"]
      /\ overdue = [e \in Event |-> FALSE] /\ review = [e \in Event |-> "none"]
      /\ state = [e \in Event |-> "none"] /\ tries = [e \in Event |-> 0]
      /\ ready = [e \in Event |-> FALSE] /\ stalled = [e \in Event |-> FALSE]
      /\ recorded = [e \in Event |-> None] /\ post = [w \in Sender |-> None]
      /\ wire = {} /\ messages = [e \in Event |-> 0] /\ shown = [e \in Event |-> None]
  BY DEF Init, StageInit
<1>2. TypeOK
  BY <1>1, Values DEF TypeOK, Stage, ReplyState
<1>3. \A e \in Event : EventInv(e)
  BY <1>1, Values DEF EventInv, Quiet, Recorded
<1> QED  BY <1>1, <1>2, <1>3 DEF RepliesInv, OnePost, PostInv

LEMMA SenderKeeps ==
    ASSUME RepliesInv, NEW w \in Sender, SenderStep(w)
    PROVE  RepliesInv'
<1>1. ASSUME NEW e \in Event, Claim(w, e) PROVE RepliesInv'
  BY <1>1, QuietClaimKeeps, MarkKeeps DEF Claim
<1>2. CASE RecoverOnly(w)
  <2>1. PICK e \in Event : TRUE
    BY <1>2 DEF RecoverOnly
  <2> QED  BY <1>2, <2>1, QuietClaimKeeps
<1> QED  BY <1>1, <1>2, SendKeeps, SaveKeeps, DropKeeps DEF SenderStep

LEMMA StutterKeeps ==
    ASSUME RepliesInv, UNCHANGED replyVars
    PROVE  RepliesInv'
BY DEF replyVars, jobVars, rowVars, slackVars, RepliesInv, TypeOK, OnePost, EventInv, PostInv,
       WireInv, Quiet, Recorded, Outcome

LEMMA StepKeeps ==
    ASSUME RepliesInv, [Next]_vars
    PROVE  RepliesInv'
<1>1. ASSUME NEW e \in Event, Listen(e) PROVE RepliesInv'
  BY <1>1, StoreKeeps, StutterKeeps DEF Listen
<1>2. CASE ReplyStep
  BY <1>2, JobKeeps, TimeKeeps, SenderKeeps, SlackKeeps DEF ReplyStep
<1>3. CASE Observe \/ UNCHANGED vars
  BY <1>3, StutterKeeps DEF Observe, vars
<1> QED  BY <1>1, <1>2, <1>3 DEF Next

THEOREM RepliesInvariance == Spec => []RepliesInv
<1>1. Init => RepliesInv
  BY InitHolds
<1>2. RepliesInv /\ [Next]_vars => RepliesInv'
  BY StepKeeps
<1> QED  BY <1>1, <1>2, PTL DEF Spec

\* Every variable keeps its type; no reply is tried more than RetryLimit + 1 times.
THEOREM ReplyTypeCorrect == Spec => []TypeOK
<1>1. RepliesInv => TypeOK
  BY DEF RepliesInv
<1> QED  BY <1>1, RepliesInvariance, PTL

\* What Slack will not deliver again is stored, whatever is delivered twice, refused
\* or not acknowledged.
THEOREM MentionsAreStored == Spec => []AcknowledgedIsStored
<1>1. RepliesInv => AcknowledgedIsStored
  BY DEF RepliesInv, EventInv, AcknowledgedIsStored
<1> QED  BY <1>1, RepliesInvariance, PTL

\* However many senders are slow, die or compete, and however late a request comes
\* through, an event has one message.
THEOREM NeverTwoMessages == Spec => []OneMessagePerEvent
<1>1. RepliesInv => OneMessagePerEvent
  BY DEF RepliesInv, TypeOK, EventInv, OneMessagePerEvent
<1> QED  BY <1>1, RepliesInvariance, PTL

\* A row that goes on, or ended well, tells what the thread shows.
THEOREM RowsTellTheThread == Spec => []RecordedIsShown
<1>1. RepliesInv => RecordedIsShown
  BY DEF RepliesInv, EventInv, Quiet, Recorded, RecordedIsShown
<1> QED  BY <1>1, RepliesInvariance, PTL

\* A reply that is complete tells the outcome of its job, or the expiry.
THEOREM CompletesAreCurrent == Spec => []CompleteIsCurrent
<1>1. RepliesInv => CompleteIsCurrent
  BY DEF RepliesInv, EventInv, Outcome, CompleteIsCurrent
<1> QED  BY <1>1, RepliesInvariance, PTL

\* A row that ended keeps its state and its record.
THEOREM EndsAreFinal == Spec => EndedRepliesStay
<1> DEFINE Kept == \A e \in Event :
                      state[e] \in {"complete", "failed", "uncertain"} =>
                          /\ state'[e] = state[e]
                          /\ recorded'[e] = recorded[e]
<1>1. ASSUME TypeOK, Next PROVE Kept \/ UNCHANGED replyVars
  <2>1. \A o \in Event : state[o] # "sending" => AfterRecovery[o] = state[o]
    BY DEF AfterRecovery
  <2>2. DOMAIN AfterRecovery = Event /\ DOMAIN state = Event /\ DOMAIN recorded = Event
    BY <1>1 DEF AfterRecovery, TypeOK
  <2>3. ASSUME NEW e \in Event, Listen(e) PROVE Kept \/ UNCHANGED replyVars
    BY <2>2, <2>3 DEF Listen, Store, Arrives
  <2>4. ASSUME NEW w \in Sender, SenderStep(w) PROVE Kept
    <3>1. ASSUME NEW e \in Event, Claim(w, e) PROVE Kept
      BY <2>1, <2>2, <3>1 DEF Claim, RevokeIdentity, Recheck, MarkSending, Due
    <3>2. CASE RecoverOnly(w)
      BY <2>1, <3>2 DEF RecoverOnly
    <3>3. CASE SendRequest(w) \/ DropPost(w)
      BY <3>3 DEF SendRequest, DropPost, rowVars
    <3>4. CASE SaveAnswer(w)
      BY <2>2, <3>4 DEF SaveAnswer
    <3> QED  BY <2>4, <3>1, <3>2, <3>3, <3>4 DEF SenderStep
  <2>5. ASSUME NEW e \in Event, JobMovesOn(e) \/ BecomesReady(e) \/ Stalls(e) PROVE Kept
    BY <2>5 DEF JobMovesOn, BecomesReady, Stalls, rowVars
  <2>6. CASE SlackStep
    BY <2>6 DEF SlackStep, SlackWrites, SlackRefuses, rowVars
  <2>7. CASE Observe
    BY <2>7 DEF Observe
  <2> QED  BY <1>1, <2>3, <2>4, <2>5, <2>6, <2>7 DEF Next, ReplyStep
<1>2. TypeOK /\ [Next]_vars => [Kept]_replyVars
  BY <1>1 DEF vars
<1> QED  BY <1>2, ReplyTypeCorrect, PTL DEF Spec, EndedRepliesStay

-----------------------------------------------------------------------------
\* The connector: the listeners use the bucket as any requests do, so that what is
\* proved of the bucket holds here.
THEOREM ListenersUseTheBucket == Spec => BucketSpec
<1>1. Init => BucketInit
  BY DEF Init
<1>2. [Next]_vars => [BucketNext]_bucketVars
  BY DEF Next, Listen, Observe, vars, BucketNext
<1> QED  BY <1>1, <1>2, PTL DEF Spec, BucketSpec

\* The mentions let through stay within the rate of the connector.
THEOREM MentionsAreLimited == Spec => []AdmissionsAreBounded
BY ListenersUseTheBucket, AdmissionsStayBounded, PTL

\* A mention that was refused and comes back when it was told to is let through,
\* unless another one took the token.
THEOREM RefusedMentionsMayReturn == Spec => []RefusalIsTemporary
BY ListenersUseTheBucket, WaitingSuffices, PTL

-----------------------------------------------------------------------------
\* The connector stores a job beside its reply row and then leaves it to itself:
\* what it assumes of jobs, proposals and reviews is JobStage and nothing else.
THEOREM ConnectorLeavesJobs == Spec => StageSpec
<1>1. Init => StageInit
  BY DEF Init
<1>2. [Next]_vars => [StageNext]_jobVars
  <2>1. ASSUME NEW e \in Event, NEW heard \in BOOLEAN, Store(e, heard)
        PROVE  [StageNext]_jobVars
    BY <2>1 DEF Store, StageNext
  <2>2. ASSUME NEW e \in Event, Listen(e) PROVE [StageNext]_jobVars
    BY <2>1, <2>2 DEF Listen, replyVars
  <2>3. ASSUME NEW e \in Event, JobMovesOn(e) \/ BecomesReady(e) \/ Stalls(e)
        PROVE  [StageNext]_jobVars
    BY <2>3 DEF JobMovesOn, StageNext, BecomesReady, Stalls
  <2>4. ASSUME NEW w \in Sender, SenderStep(w) PROVE UNCHANGED jobVars
    BY <2>4 DEF SenderStep, Claim, RevokeIdentity, Recheck, MarkSending, RecoverOnly,
                SendRequest, SaveAnswer, DropPost
  <2>5. SlackStep => UNCHANGED jobVars
    BY DEF SlackStep, SlackWrites, SlackRefuses
  <2>6. Observe \/ UNCHANGED vars => UNCHANGED jobVars
    BY DEF Observe, vars, replyVars
  <2> QED  BY <2>2, <2>3, <2>4, <2>5, <2>6 DEF Next, ReplyStep
<1> QED  BY <1>1, <1>2, PTL DEF Spec, StageSpec

=============================================================================
