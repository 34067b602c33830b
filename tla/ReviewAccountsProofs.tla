------------------------ MODULE ReviewAccountsProofs ------------------------
(***************************************************************************)
(* Accounts, sessions and counters, for any number of users, requests,     *)
(* operators, passwords and attempts.  Everything rests on the row locks:  *)
(* no two transactions hold the same row, so what one of them has read of  *)
(* it stays true until it commits.                                         *)
(***************************************************************************)
EXTENDS ReviewAccounts, TLAPS

LocksExclude ==
    \A p, x \in Process : p # x => held[p] \intersect held[x] = {}

Counted(q) == {Keys(q)[i] : i \in 1..q.counted}

\* What a transaction of throttle has counted is one more than the counters say,
\* or the first attempt of the rows it has deleted.
CountInv(r) ==
    LET q == request[r]
    IN  /\ q.counted <= Len(Keys(q))
        /\ q.phase = "sweep" => held[r] = {} /\ q.swept = {} /\ q.counted = 0
        /\ q.phase = "count" => q.counted < Len(Keys(q))
        /\ q.phase = "counted" => q.counted = Len(Keys(q))
        /\ q.phase # "sweep" => held[r] = q.swept \union Counted(q)
        /\ \A k \in Key :
              q.mine[k] = IF k \in Counted(q) THEN IF k \in q.swept THEN 1 ELSE counter[k] + 1
                          ELSE 0

\* What a login has read of its account is true as long as it may open a session.
AdmissionInv(r) ==
    LET q == request[r]
    IN  /\ q.phase \in {"admitted", "leaving"} => held[r] = {}
        /\ q.phase = "verify" /\ q.seen # Absent => q.user \in held[r] /\ account[q.user] = q.seen

\* The session that a request came with was opened by an answered request.
CookieInv(r) ==
    LET q == request[r]
    IN  /\ q.cookie \in Request => In(q.cookie, "done")
        /\ q.phase = "done" => held[r] = {}
        /\ q.phase = "done" /\ q.answer = "ok" /\ q.cookie # None => session[q.cookie] = None

RequestInv(r) ==
    /\ request[r] \in Throttling => CountInv(r)
    /\ request[r] \in Admission => AdmissionInv(r)
    /\ request[r] # None => CookieInv(r)
    /\ request[r] = None => held[r] = {}

\* An operator holds the account and, before the commit, its sessions.
OperatorInv(o) ==
    /\ operator[o] # None =>
          /\ operator[o].user \in held[o]
          /\ operator[o].phase = "deleted" =>
                \A t \in Token : session[t] # None /\ session[t].user = operator[o].user =>
                    t \in held[o]

WindowInv(k) == passed[k] <= counter[k] /\ passed[k] <= Limit[k[1]]

AccountsInv ==
    /\ TypeOK
    /\ LocksExclude
    /\ \A r \in Request : RequestInv(r)
    /\ \A o \in Operator : OperatorInv(o)
    /\ SessionsMatchAccounts
    /\ \A k \in Key : WindowInv(k)

LEMMA Values ==
    /\ None \notin Token /\ None \notin Session /\ None \notin Change
    /\ None \notin Throttling /\ None \notin Admission /\ None \notin Finished
    /\ Request \intersect Operator = {} /\ Earlier \notin Request
    /\ Request \subseteq Token /\ Request \subseteq Process /\ Operator \subseteq Process
    /\ Absent \in Account
    /\ MaxPassword \in Nat \ {0}
BY NoneAssumption, ProcessAssumption, LimitAssumption
   DEF NoneAssumption, ProcessAssumption, LimitAssumption, Token, Process, Absent, Account

\* The phase tells which of the three a request is.
LEMMA Phases ==
    ASSUME TypeOK, NEW r \in Request, request[r] # None
    PROVE  /\ request[r] \in Throttling \union Admission \union Finished
           /\ request[r].phase \in {"sweep", "count", "counted"} <=> request[r] \in Throttling
           /\ request[r].phase \in {"admitted", "purged", "verify", "leaving"}
                 <=> request[r] \in Admission
           /\ request[r].phase = "done" <=> request[r] \in Finished
           /\ request[r].kind \in Kind /\ request[r].cookie \in Cookie
           /\ request[r] \notin Finished => request[r].user \in User
<1>1. request[r] \in Throttling \union Admission \union Finished
  BY DEF TypeOK
<1>2. ASSUME request[r] \in Throttling
      PROVE  request[r].phase \in {"sweep", "count", "counted"} /\ request[r].user \in User
             /\ request[r].kind \in Kind /\ request[r].cookie \in Cookie
  BY <1>2 DEF Throttling
<1>3. ASSUME request[r] \in Admission
      PROVE  request[r].phase \in {"admitted", "purged", "verify", "leaving"}
             /\ request[r].user \in User
             /\ request[r].kind \in Kind /\ request[r].cookie \in Cookie
  BY <1>3 DEF Admission
<1>4. ASSUME request[r] \in Finished
      PROVE  request[r].phase = "done"
             /\ request[r].kind \in Kind /\ request[r].cookie \in Cookie
  BY <1>4 DEF Finished
<1> QED  BY <1>1, <1>2, <1>3, <1>4

LEMMA KeysAre ==
    ASSUME NEW q \in Throttling
    PROVE  /\ Len(Keys(q)) \in {1, 2}
           /\ \A i \in 1..Len(Keys(q)) : Keys(q)[i] \in Key
           /\ \A i, j \in 1..Len(Keys(q)) : Keys(q)[i] = Keys(q)[j] => i = j
           /\ DOMAIN Keys(q) = 1..Len(Keys(q))
<1>1. q.user \in User /\ q.kind \in Kind
  BY DEF Throttling
<1>2. /\ <<"login-user", q.user>> \in Key /\ <<"session", q.user>> \in Key
      /\ Peer \in Key /\ Peer # <<"login-user", q.user>>
  BY <1>1 DEF Key, Peer
<1>3. CASE q.kind = "login"
  <2>1. Keys(q) = <<Peer, <<"login-user", q.user>>>>
    BY <1>3 DEF Keys
  <2> QED  BY <1>2, <2>1
<1>4. CASE q.kind # "login"
  <2>1. Keys(q) = <<<<"session", q.user>>>>
    BY <1>4 DEF Keys
  <2> QED  BY <1>2, <2>1
<1> QED  BY <1>3, <1>4

\* Rows that were free of the locks of others can be locked.
LEMMA LockIs ==
    ASSUME LocksExclude, TypeOK, NEW p \in Process, NEW rows \in SUBSET Row,
           ~LockedByOther(p, rows), Lock(p, rows)
    PROVE  /\ LocksExclude' /\ held' \in [Process -> SUBSET Row]
           /\ held'[p] = held[p] \union rows
           /\ \A x \in Process \ {p} : held'[x] = held[x]
<1>1. /\ held \in [Process -> SUBSET Row]
      /\ held'[p] = held[p] \union rows
      /\ \A x \in Process \ {p} : held'[x] = held[x]
      /\ held' \in [Process -> SUBSET Row]
  BY DEF TypeOK, Lock
<1>2. \A x \in Process \ {p} : held[x] \intersect rows = {}
  BY DEF LockedByOther
<1>3. LocksExclude'
  BY <1>1, <1>2 DEF LocksExclude
<1> QED  BY <1>1, <1>3

LEMMA UnlockIs ==
    ASSUME LocksExclude, TypeOK, NEW p \in Process, held' = [held EXCEPT ![p] = {}]
    PROVE  /\ LocksExclude' /\ held' \in [Process -> SUBSET Row]
           /\ held'[p] = {}
           /\ \A x \in Process \ {p} : held'[x] = held[x]
BY DEF LocksExclude, TypeOK

-----------------------------------------------------------------------------
\* A step of one request disturbs nobody else: what others have read is locked.
LEMMA OthersKeep ==
    ASSUME AccountsInv, NEW r \in Request,
           \A x \in Request \ {r} : request'[x] = request[x],
           \A x \in Process \ {r} : held'[x] = held[x],
           ~In(r, "done"), account' = account,
           \A k \in Key \ held[r] : counter'[k] = counter[k],
           \A t \in Token \ {r} : session[t] = None => session'[t] = None,
           NEW x \in Request \ {r}
    PROVE  RequestInv(x)'
<1>1. /\ request'[x] = request[x] /\ held'[x] = held[x] /\ RequestInv(x)
      /\ x \in Process /\ r \in Process /\ held[x] \intersect held[r] = {}
  BY Values DEF AccountsInv, LocksExclude
<1>2. ASSUME request[x] \in Throttling PROVE CountInv(x)'
  <2>1. CountInv(x)
    BY <1>1, <1>2 DEF RequestInv
  <2>2. Keys(request[x])' = Keys(request'[x])
    BY DEF Keys
  <2>3. Counted(request[x]) \subseteq held[x]
    BY <1>2, <2>1, KeysAre DEF CountInv, Counted, Throttling
  <2>4. \A k \in Counted(request[x]) : k \in Key => counter'[k] = counter[k]
    BY <1>1, <2>3
  <2> QED  BY <1>1, <2>1, <2>4 DEF CountInv, Counted
<1>3. ASSUME request[x] \in Admission PROVE AdmissionInv(x)'
  BY <1>1, <1>3 DEF RequestInv, AdmissionInv
<1>4. ASSUME request[x] # None PROVE CookieInv(x)'
  <2>1. CookieInv(x) /\ request[x].cookie \in Cookie
    BY <1>1, <1>4, Phases DEF RequestInv, AccountsInv
  <2>2. request[x].cookie # r
    BY <2>1 DEF CookieInv
  <2>3. request[x].cookie \in Request =>
           request'[request[x].cookie] # None /\ request'[request[x].cookie].phase = "done"
    BY <2>1, <2>2 DEF CookieInv, In
  <2>4. request[x].cookie \in Token /\ session[request[x].cookie] = None =>
           session'[request[x].cookie] = None
    BY <2>2
  <2> QED  BY <1>1, <2>1, <2>3, <2>4 DEF CookieInv, Cookie, In
<1> QED  BY <1>1, <1>2, <1>3, <1>4 DEF RequestInv

LEMMA OperatorsKeep ==
    ASSUME AccountsInv, NEW r \in Request, operator' = operator,
           \A x \in Process \ {r} : held'[x] = held[x],
           \A t \in Token : session'[t] # None =>
               \/ session[t] # None /\ session'[t].user = session[t].user
               \/ session'[t].user \in held[r],
           NEW o \in Operator
    PROVE  OperatorInv(o)'
<1>1. /\ OperatorInv(o) /\ held'[o] = held[o] /\ held[o] \intersect held[r] = {}
  BY Values DEF AccountsInv, LocksExclude
<1> QED  BY <1>1 DEF OperatorInv

\* What is left to show of a step of a request.
LEMMA RequestKeeps ==
    ASSUME AccountsInv, NEW r \in Request, NEW next,
           UNCHANGED <<account, operator>>,
           request' = [request EXCEPT ![r] = next],
           next \in Throttling \union Admission \union Finished,
           held' \in [Process -> SUBSET Row], LocksExclude',
           \A x \in Process \ {r} : held'[x] = held[x],
           ~In(r, "done"), RequestInv(r)',
           counter' \in [Key -> Nat], passed' \in [Key -> Nat], stale' \subseteq Key,
           \A k \in Key \ held[r] : counter'[k] = counter[k],
           \A k \in Key : WindowInv(k)',
           session' \in [Token -> Session \union {None}],
           \A t \in Token \ {r} : session[t] = None => session'[t] = None,
           \A t \in Token : session'[t] # None =>
               \/ session[t] # None /\ session'[t].user = session[t].user
               \/ session'[t].user \in held[r],
           SessionsMatchAccounts'
    PROVE  AccountsInv'
<1>1. /\ \A x \in Request \ {r} : request'[x] = request[x]
      /\ request' \in [Request -> Throttling \union Admission \union Finished \union {None}]
  BY DEF AccountsInv, TypeOK
<1>2. TypeOK'
  <2>1. \A x \in Request :
          request'[x] = None \/ request'[x].phase \in {"admitted", "leaving", "done"}
              => held'[x] = {}
    <3>1. ASSUME NEW x \in Request \ {r} PROVE request'[x] = request[x] /\ held'[x] = held[x]
      BY <1>1, <3>1, Values
    <3>2. request'[r] = next /\ next # None
      BY Values DEF AccountsInv, TypeOK
    <3>3. next.phase \in {"admitted", "leaving", "done"} => held'[r] = {}
      BY <3>2 DEF RequestInv, AdmissionInv, CookieInv, Throttling, Admission, Finished
    <3> QED  BY <3>1, <3>2, <3>3 DEF AccountsInv, TypeOK
  <2> QED  BY <1>1, <2>1 DEF AccountsInv, TypeOK
<1>3. \A x \in Request \ {r} : RequestInv(x)'
  BY <1>1, OthersKeep
<1>4. \A o \in Operator : OperatorInv(o)'
  BY OperatorsKeep
<1> QED  BY <1>2, <1>3, <1>4 DEF AccountsInv

\* The same for one that writes neither session nor counter.
LEMMA ReadingKeeps ==
    ASSUME AccountsInv, NEW r \in Request, NEW next,
           UNCHANGED <<accountVars, counterVars, operator>>,
           request' = [request EXCEPT ![r] = next],
           next \in Throttling \union Admission \union Finished,
           held' \in [Process -> SUBSET Row], LocksExclude',
           \A x \in Process \ {r} : held'[x] = held[x],
           ~In(r, "done"), RequestInv(r)'
    PROVE  AccountsInv'
<1>1. /\ UNCHANGED <<account, session, counter, stale, passed, operator>>
  BY DEF accountVars, counterVars
<1>2. /\ counter \in [Key -> Nat] /\ passed \in [Key -> Nat] /\ stale \subseteq Key
      /\ session \in [Token -> Session \union {None}]
  BY DEF AccountsInv, TypeOK
<1>3. SessionsMatchAccounts' /\ \A k \in Key : WindowInv(k)'
  BY <1>1 DEF AccountsInv, SessionsMatchAccounts, WindowInv
<1> QED  BY <1>1, <1>2, <1>3, RequestKeeps

-----------------------------------------------------------------------------
\* throttle.
LEMMA ArriveKeeps ==
    ASSUME AccountsInv, NEW r \in Request, NEW kind \in Kind, NEW u \in User,
           NEW cookie \in Cookies \union {None}, Arrive(r, kind, u, cookie)
    PROVE  AccountsInv'
<1> DEFINE next == Throttled(kind, u, cookie)
<1>1. /\ UNCHANGED <<accountVars, counterVars, operator, held>>
      /\ request[r] = None
      /\ request' = [request EXCEPT ![r] = next]
  BY DEF Arrive
<1>2. cookie \in Cookie /\ (cookie \in Request => In(cookie, "done"))
  BY Values DEF Cookies, Cookie, Token
<1>3. next \in Throttling
  BY <1>2 DEF Throttled, Throttling
<1>4. /\ held[r] = {} /\ held' = held /\ held \in [Process -> SUBSET Row] /\ LocksExclude'
      /\ ~In(r, "done")
  BY <1>1 DEF AccountsInv, RequestInv, TypeOK, LocksExclude, In
<1>5. request'[r] = next
  BY <1>1 DEF AccountsInv, TypeOK
<1>6. RequestInv(r)'
  <2>1. CountInv(r)'
    <3>1. /\ next.counted = 0 /\ next.phase = "sweep" /\ next.swept = {}
          /\ next.mine = [k \in Key |-> 0]
      BY DEF Throttled
    <3>2. Counted(next) = {}
      BY <3>1 DEF Counted
    <3> QED  BY <1>3, <1>4, <1>5, <3>1, <3>2, KeysAre DEF CountInv
  <2>2. CookieInv(r)'
    <3>1. next.cookie = cookie /\ next.phase = "sweep"
      BY DEF Throttled
    <3>2. cookie \in Request =>
             request'[cookie] # None /\ request'[cookie].phase = "done"
      BY <1>1, <1>2, <1>4 DEF In, AccountsInv, TypeOK
    <3> QED  BY <1>5, <3>1, <3>2 DEF CookieInv, In
  <2>3. next \notin Admission /\ next # None
    <3>1. next.phase = "sweep"
      BY DEF Throttled
    <3> QED  BY <1>3, <3>1, Values DEF Admission
  <2> QED  BY <1>5, <2>1, <2>2, <2>3 DEF RequestInv
<1> HIDE DEF next
<1> QED  BY <1>1, <1>3, <1>4, <1>6, ReadingKeeps

\* The transaction of throttle goes on: what it locks and counts.
LEMMA SweepKeeps ==
    ASSUME AccountsInv, NEW r \in Request, SweepRows(r)
    PROVE  AccountsInv'
<1>1. /\ UNCHANGED <<accountVars, counterVars, operator>>
      /\ request[r] # None /\ request[r].phase = "sweep" /\ ~Waits(r)
      /\ request' = [request EXCEPT ![r].phase = "count", ![r].swept = Needs(r)]
      /\ Lock(r, Needs(r))
  BY DEF SweepRows, In
<1>2. PICK q \in Throttling : q = request[r]
  BY <1>1, Phases DEF AccountsInv
<1>3. CountInv(r) /\ CookieInv(r)
  BY <1>1, <1>2, Values DEF AccountsInv, RequestInv
<1>4. PICK rows \in SUBSET Key : rows = Needs(r)
  BY <1>1 DEF Needs, AccountsInv, TypeOK
<1>5. PICK next \in Throttling : next = [q EXCEPT !.phase = "count", !.swept = rows]
  BY DEF Throttling
<1>6. /\ next.phase = "count" /\ next.swept = rows /\ next.counted = q.counted
      /\ next.mine = q.mine /\ next.cookie = q.cookie /\ next.user = q.user
      /\ next.kind = q.kind
  BY <1>5 DEF Throttling
<1>7. request' = [request EXCEPT ![r] = next] /\ request'[r] = next
  BY <1>1, <1>2, <1>4, <1>5 DEF AccountsInv, TypeOK
<1>8. /\ LocksExclude' /\ held' \in [Process -> SUBSET Row]
      /\ held'[r] = held[r] \union rows
      /\ \A x \in Process \ {r} : held'[x] = held[x]
  <2>1. rows \in SUBSET Row /\ r \in Process
    BY Values DEF Row
  <2> QED  BY <1>1, <1>4, <2>1, LockIs DEF AccountsInv, Waits
<1>9. CountInv(r)'
  <2>1. Keys(next) = Keys(q)
    BY <1>6 DEF Keys
  <2>2. Counted(next) = {} /\ Counted(q) = {} /\ next.counted = 0 /\ held[r] = {}
    BY <1>1, <1>2, <1>3, <1>6 DEF Counted, CountInv
  <2>3. counter' = counter
    BY <1>1 DEF counterVars
  <2>4. Keys(request[r])' = Keys(q) /\ Counted(request[r])' = {}
    BY <1>7, <2>1, <2>2 DEF Keys, Counted
  <2>5. \A k \in Key : q.mine[k] = 0
    BY <1>2, <1>3, <2>2 DEF CountInv
  <2>6. Len(Keys(q)) \in Nat /\ 0 < Len(Keys(q))
    BY KeysAre
  <2>7. held'[r] = next.swept \union {}
    BY <1>6, <1>8, <2>2
  <2> QED  BY <2>7, <1>6, <1>7, <1>8, <2>2, <2>3, <2>4, <2>5, <2>6 DEF CountInv
<1>10. ~In(r, "done")
  BY <1>1 DEF In
<1>11. CookieInv(r)'
  <2>1. q.cookie \in Request =>
           request'[q.cookie] # None /\ request'[q.cookie].phase = "done"
    BY <1>2, <1>3, <1>7, <1>10 DEF CookieInv, In, AccountsInv, TypeOK
  <2> QED  BY <1>6, <1>7, <2>1 DEF CookieInv, In
<1>12. next \notin Admission /\ next # None
  BY <1>6, Values DEF Admission
<1>13. RequestInv(r)'
  BY <1>7, <1>9, <1>11, <1>12 DEF RequestInv
<1> QED  BY <1>1, <1>7, <1>8, <1>10, <1>13, ReadingKeeps

LEMMA CountKeeps ==
    ASSUME AccountsInv, NEW r \in Request, Count(r)
    PROVE  AccountsInv'
<1>1. /\ UNCHANGED <<accountVars, counterVars, operator>>
      /\ request[r] # None /\ request[r].phase = "count" /\ ~Waits(r)
  BY DEF Count, In
<1>2. PICK q \in Throttling : q = request[r]
  BY <1>1, Phases DEF AccountsInv
<1>3. CountInv(r) /\ CookieInv(r)
  BY <1>1, <1>2, Values DEF AccountsInv, RequestInv
<1>4. /\ Len(Keys(q)) \in {1, 2} /\ q.counted \in 0..2 /\ q.counted < Len(Keys(q))
      /\ q.counted + 1 \in 1..Len(Keys(q))
      /\ q.phase = "count" /\ q.mine \in [Key -> Nat] /\ q.swept \subseteq Key
      /\ held[r] = q.swept \union Counted(q)
  BY <1>1, <1>2, <1>3, KeysAre DEF CountInv, Throttling
<1>5. PICK k \in Key : k = Keys(q)[q.counted + 1]
  BY <1>4, KeysAre
<1>6. PICK n : n = 1 + IF k \in q.swept THEN q.mine[k] ELSE counter[k]
  OBVIOUS
<1>7. PICK phase \in {"count", "counted"} :
         phase = IF q.counted + 1 = Len(Keys(q)) THEN "counted" ELSE "count"
  OBVIOUS
<1>8. request' = [request EXCEPT ![r].mine[k] = n, ![r].counted = q.counted + 1,
                                 ![r].phase = phase]
  BY <1>2, <1>5, <1>6, <1>7 DEF Count
<1>9. Needs(r) = {k} /\ Lock(r, {k})
  BY <1>1, <1>2, <1>5 DEF Needs, Count
<1>10. PICK next : next = [q EXCEPT !.mine[k] = n, !.counted = q.counted + 1, !.phase = phase]
  OBVIOUS
<1>11. k \notin Counted(q) /\ q.mine[k] = 0 /\ n \in Nat
       /\ n = IF k \in q.swept THEN 1 ELSE counter[k] + 1
  <2>1. k \notin Counted(q)
    BY <1>4, <1>5, KeysAre DEF Counted
  <2>2. q.mine[k] = 0
    BY <1>2, <1>3, <2>1 DEF CountInv
  <2> QED  BY <1>6, <2>1, <2>2 DEF AccountsInv, TypeOK
<1>12. /\ next \in Throttling
       /\ next.phase = phase /\ next.swept = q.swept /\ next.counted = q.counted + 1
       /\ next.mine = [q.mine EXCEPT ![k] = n] /\ next.cookie = q.cookie
       /\ next.user = q.user /\ next.kind = q.kind
  <2>1. PICK mine \in [Key -> Nat] : mine = [q.mine EXCEPT ![k] = n]
    BY <1>4, <1>11
  <2>2. PICK counted \in 0..2 : counted = q.counted + 1
    <3>1. Len(Keys(q)) = 1 \/ Len(Keys(q)) = 2
      BY <1>4
    <3>2. \A i \in 0..2 : (i < 1 \/ i < 2) => i + 1 \in 0..2
      OBVIOUS
    <3>3. q.counted \in 0..2 /\ (q.counted < 1 \/ q.counted < 2)
      BY <1>4, <3>1
    <3> QED  BY <3>2, <3>3
  <2>3. next = [q EXCEPT !.mine = mine, !.counted = counted, !.phase = phase]
    BY <1>10, <2>1, <2>2
  <2> QED  BY <2>1, <2>2, <2>3 DEF Throttling
<1>13. request' = [request EXCEPT ![r] = next]
  BY <1>2, <1>8, <1>10 DEF AccountsInv, TypeOK
<1>14. request'[r] = next
  BY <1>13 DEF AccountsInv, TypeOK
<1>15. /\ LocksExclude' /\ held' \in [Process -> SUBSET Row]
       /\ held'[r] = held[r] \union {k}
       /\ \A x \in Process \ {r} : held'[x] = held[x]
  <2>1. {k} \in SUBSET Row /\ r \in Process
    BY Values DEF Row
  <2> QED  BY <1>1, <1>9, <2>1, LockIs DEF AccountsInv, Waits
<1>16. Keys(next) = Keys(q) /\ Counted(next) = Counted(q) \union {k}
  <2>1. Keys(next) = Keys(q)
    BY <1>12 DEF Keys
  <2>2. Counted(next) = {Keys(q)[i] : i \in 1..q.counted + 1}
    BY <1>12, <2>1 DEF Counted
  <2>3. 1..q.counted + 1 = (1..q.counted) \union {q.counted + 1}
    BY <1>4
  <2> QED  BY <1>5, <2>1, <2>2, <2>3 DEF Counted
<1>17. CountInv(r)'
  <2>1. Keys(request[r])' = Keys(q) /\ Counted(request[r])' = Counted(q) \union {k}
    BY <1>14, <1>16 DEF Keys, Counted
  <2>2. counter' = counter
    BY <1>1 DEF counterVars
  <2>3. \A j \in Key :
           next.mine[j] = IF j \in Counted(q) \union {k}
                          THEN IF j \in q.swept THEN 1 ELSE counter[j] + 1
                          ELSE 0
    BY <1>2, <1>3, <1>4, <1>11, <1>12 DEF CountInv
  <2> QED  BY <1>4, <1>7, <1>12, <1>14, <1>15, <2>1, <2>2, <2>3 DEF CountInv
<1>18. ~In(r, "done")
  BY <1>1 DEF In
<1>19. CookieInv(r)'
  <2>1. q.cookie \in Request =>
           request'[q.cookie] # None /\ request'[q.cookie].phase = "done"
    BY <1>2, <1>3, <1>13, <1>18 DEF CookieInv, In, AccountsInv, TypeOK
  <2> QED  BY <1>7, <1>12, <1>14, <2>1 DEF CookieInv, In
<1>20. next \notin Admission /\ next # None
  BY <1>7, <1>12, Values DEF Admission
<1>21. RequestInv(r)'
  BY <1>14, <1>17, <1>19, <1>20 DEF RequestInv
<1> QED  BY <1>1, <1>12, <1>13, <1>15, <1>18, <1>21, ReadingKeeps

\* The window of each counter lets one more attempt through, and not one too many.
LEMMA WindowsKeep ==
    ASSUME AccountsInv, NEW r \in Request, In(r, "counted"), CommitCounts(r),
           NEW k \in Key
    PROVE  /\ counter'[k] \in Nat /\ passed'[k] \in Nat
           /\ k \notin held[r] => counter'[k] = counter[k]
           /\ WindowInv(k)'
<1>1. PICK q \in Throttling : q = request[r]
  BY Phases DEF AccountsInv, In
<1>2. /\ CountInv(r) /\ q.phase = "counted" /\ q.counted = Len(Keys(q))
      /\ held[r] = q.swept \union Counted(q) /\ q.swept \subseteq Key
  BY <1>1, Values DEF AccountsInv, RequestInv, CountInv, In, Throttling
<1>3. {Keys(q)[i] : i \in DOMAIN Keys(q)} = Counted(q)
  BY <1>2, KeysAre DEF Counted
<1>4. PICK denied \in BOOLEAN :
         denied = (\E j \in Counted(q) : q.mine[j] > Limit[j[1]])
  OBVIOUS
<1>5. /\ counter'[k] = IF k \in held[r] THEN q.mine[k] ELSE counter[k]
      /\ passed'[k] = (IF k \in held[r] /\ (k \in q.swept \/ counter[k] = 0) THEN 0 ELSE passed[k])
                      + (IF k \in Counted(q) /\ ~denied THEN 1 ELSE 0)
  BY <1>1, <1>3, <1>4 DEF CommitCounts
<1>6. q.mine[k] = IF k \in Counted(q) THEN IF k \in q.swept THEN 1 ELSE counter[k] + 1 ELSE 0
  BY <1>1, <1>2 DEF CountInv
<1>7. /\ counter[k] \in Nat /\ passed[k] \in Nat
      /\ passed[k] <= counter[k] /\ passed[k] <= Limit[k[1]]
  BY DEF AccountsInv, TypeOK, WindowInv
<1>8. Limit[k[1]] \in Nat
  <2>1. k[1] \in {"login-peer", "login-user", "session"}
    BY DEF Key, Peer
  <2> QED  BY <2>1, LimitAssumption DEF LimitAssumption
<1>9. k \in Counted(q) /\ ~denied => q.mine[k] <= Limit[k[1]]
  BY <1>4, <1>6, <1>7, <1>8
<1>10. CASE k \notin held[r]
  <2>1. k \notin Counted(q)
    BY <1>2, <1>10
  <2> QED  BY <1>5, <1>7, <1>10, <2>1 DEF WindowInv
<1>11. CASE k \in held[r] /\ k \in Counted(q)
  BY <1>5, <1>6, <1>7, <1>8, <1>9, <1>11 DEF WindowInv
<1>12. CASE k \in held[r] /\ k \notin Counted(q)
  BY <1>2, <1>5, <1>6, <1>7, <1>8, <1>12 DEF WindowInv
<1> QED  BY <1>10, <1>11, <1>12

\* The session a request came with stays that of an answered one.
LEMMA CookieStays ==
    ASSUME AccountsInv, NEW r \in Request, request[r] # None, ~In(r, "done"), NEW next,
           request' = [request EXCEPT ![r] = next]
    PROVE  /\ request'[r] = next
           /\ request[r].cookie \in Request =>
                 request'[request[r].cookie] # None /\ request'[request[r].cookie].phase = "done"
<1>1. CookieInv(r)
  BY DEF AccountsInv, RequestInv
<1> QED  BY <1>1 DEF CookieInv, In, AccountsInv, TypeOK

\* A transaction that ends with the answer.
LEMMA AnswerIs ==
    ASSUME AccountsInv, NEW r \in Request, request[r] # None, ~In(r, "done"),
           NEW answer \in {"ok", "refused"}, Answer(r, answer),
           answer = "ok" /\ request[r].cookie # None => session'[request[r].cookie] = None
    PROVE  /\ \E next \in Finished : request' = [request EXCEPT ![r] = next]
           /\ LocksExclude' /\ held' \in [Process -> SUBSET Row]
           /\ \A x \in Process \ {r} : held'[x] = held[x]
           /\ RequestInv(r)'
<1>1. PICK next : next = Done(r, answer)
  OBVIOUS
<1>2. /\ next.phase = "done" /\ next.answer = answer
      /\ next.cookie = (IF answer = "ok" THEN request[r].cookie ELSE None)
      /\ next \in Finished
  <2>1. request[r].kind \in Kind /\ request[r].cookie \in Cookie /\ None \in Cookie
    BY Phases DEF AccountsInv, Cookie
  <2> QED  BY <1>1, <2>1 DEF Done, Finished
<1>3. request' = [request EXCEPT ![r] = next] /\ held' = [held EXCEPT ![r] = {}]
  BY <1>1 DEF Answer
<1>4. /\ request'[r] = next
      /\ request[r].cookie \in Request =>
            request'[request[r].cookie] # None /\ request'[request[r].cookie].phase = "done"
  BY <1>3, CookieStays
<1>5. /\ LocksExclude' /\ held' \in [Process -> SUBSET Row]
      /\ \A x \in Process \ {r} : held'[x] = held[x]
      /\ held'[r] = {}
  BY <1>3, UnlockIs, Values DEF AccountsInv
<1>6. next \notin Throttling /\ next \notin Admission /\ next # None
  BY <1>2, Values DEF Throttling, Admission
<1>7. None \notin Request
  BY Values
<1>8. CookieInv(r)'
  BY <1>2, <1>4, <1>5, <1>7 DEF CookieInv, In
<1>9. RequestInv(r)'
  BY <1>4, <1>6, <1>8 DEF RequestInv
<1> QED  BY <1>2, <1>3, <1>5, <1>9

\* A transaction that ends and lets the request go on.
LEMMA AdmitIs ==
    ASSUME AccountsInv, NEW r \in Request, request[r] # None, ~In(r, "done"),
           NEW phase \in {"admitted", "leaving"},
           request' = [request EXCEPT ![r] = Admitted(request[r], phase)],
           held' = [held EXCEPT ![r] = {}]
    PROVE  /\ \E next \in Admission : request' = [request EXCEPT ![r] = next]
           /\ LocksExclude' /\ held' \in [Process -> SUBSET Row]
           /\ \A x \in Process \ {r} : held'[x] = held[x]
           /\ RequestInv(r)'
<1>1. PICK next : next = Admitted(request[r], phase)
  OBVIOUS
<1>2. /\ next.phase = phase /\ next.cookie = request[r].cookie
      /\ next \in Admission
  <2>1. /\ request[r].kind \in Kind /\ request[r].cookie \in Cookie
        /\ request[r].user \in User
    <3>1. request[r] \notin Finished
      BY Phases DEF AccountsInv, In
    <3> QED  BY <3>1, Phases DEF AccountsInv
  <2> QED  BY <1>1, <2>1, Values DEF Admitted, Admission
<1>3. request' = [request EXCEPT ![r] = next]
  BY <1>1
<1>4. /\ request'[r] = next
      /\ request[r].cookie \in Request =>
            request'[request[r].cookie] # None /\ request'[request[r].cookie].phase = "done"
  BY <1>3, CookieStays
<1>5. /\ LocksExclude' /\ held' \in [Process -> SUBSET Row]
      /\ \A x \in Process \ {r} : held'[x] = held[x]
      /\ held'[r] = {}
  BY UnlockIs, Values DEF AccountsInv
<1>6. next \notin Throttling /\ next # None
  BY <1>2, Values DEF Throttling
<1>7. CookieInv(r)' /\ AdmissionInv(r)'
  BY <1>2, <1>4, <1>5 DEF CookieInv, AdmissionInv, In
<1>8. RequestInv(r)'
  BY <1>4, <1>6, <1>7 DEF RequestInv
<1> QED  BY <1>2, <1>3, <1>5, <1>8

LEMMA CommitKeeps ==
    ASSUME AccountsInv, NEW r \in Request, CommitCounts(r)
    PROVE  AccountsInv'
<1>1. /\ In(r, "counted") /\ request[r] # None /\ ~In(r, "done")
      /\ UNCHANGED <<account, session, operator>>
  BY DEF CommitCounts, In, accountVars
<1>2. /\ counter' \in [Key -> Nat] /\ passed' \in [Key -> Nat]
      /\ \A k \in Key \ held[r] : counter'[k] = counter[k]
      /\ \A k \in Key : WindowInv(k)'
  <2>1. /\ counter' = [k \in Key |-> counter'[k]]
        /\ passed' = [k \in Key |-> passed'[k]]
    BY DEF CommitCounts
  <2>2. \A k \in Key : /\ counter'[k] \in Nat /\ passed'[k] \in Nat
                       /\ k \notin held[r] => counter'[k] = counter[k]
                       /\ WindowInv(k)'
    BY <1>1, WindowsKeep
  <2> QED  BY <2>1, <2>2
<1>3. stale' \subseteq Key
  BY DEF CommitCounts, AccountsInv, TypeOK
<1>4. /\ \E next \in Throttling \union Admission \union Finished :
            request' = [request EXCEPT ![r] = next]
      /\ LocksExclude' /\ held' \in [Process -> SUBSET Row]
      /\ \A x \in Process \ {r} : held'[x] = held[x]
      /\ RequestInv(r)'
  <2>1. \/ Answer(r, "refused")
        \/ \E phase \in {"admitted", "leaving"} :
              /\ request' = [request EXCEPT ![r] = Admitted(request[r], phase)]
              /\ held' = [held EXCEPT ![r] = {}]
    BY DEF CommitCounts
  <2>2. CASE Answer(r, "refused")
    BY <1>1, <2>2, AnswerIs
  <2>3. ASSUME NEW phase \in {"admitted", "leaving"},
               request' = [request EXCEPT ![r] = Admitted(request[r], phase)],
               held' = [held EXCEPT ![r] = {}]
        PROVE  /\ \E next \in Admission : request' = [request EXCEPT ![r] = next]
               /\ LocksExclude' /\ held' \in [Process -> SUBSET Row]
               /\ \A x \in Process \ {r} : held'[x] = held[x]
               /\ RequestInv(r)'
    BY <1>1, <2>3, AdmitIs
  <2> QED  BY <2>1, <2>2, <2>3
<1>5. PICK next \in Throttling \union Admission \union Finished :
         request' = [request EXCEPT ![r] = next]
  BY <1>4
<1>6. session \in [Token -> Session \union {None}] /\ SessionsMatchAccounts'
  BY <1>1 DEF AccountsInv, TypeOK, SessionsMatchAccounts
<1> QED  BY <1>1, <1>2, <1>3, <1>4, <1>5, <1>6, RequestKeeps

-----------------------------------------------------------------------------
\* login and logout.
LEMMA GoesOn ==
    ASSUME AccountsInv, NEW r \in Request, request[r] \in Admission,
           UNCHANGED <<accountVars, counterVars, operator>>,
           NEW phase \in {"purged", "verify"}, NEW seen \in Account,
           request' = [request EXCEPT ![r].phase = phase, ![r].seen = seen],
           ~Waits(r), Needs(r) \subseteq Row, Lock(r, Needs(r)),
           phase = "verify" /\ seen # Absent =>
              request[r].user \in Needs(r) /\ account[request[r].user] = seen
    PROVE  AccountsInv'
<1>1. PICK q \in Admission : q = request[r]
  OBVIOUS
<1>2. PICK next \in Admission : next = [q EXCEPT !.phase = phase, !.seen = seen]
  BY DEF Admission
<1>3. /\ next.phase = phase /\ next.seen = seen /\ next.cookie = q.cookie
      /\ next.user = q.user
  BY <1>2 DEF Admission
<1>4. request' = [request EXCEPT ![r] = next]
  BY <1>1, <1>2 DEF AccountsInv, TypeOK
<1>5. /\ LocksExclude' /\ held' \in [Process -> SUBSET Row]
      /\ held'[r] = held[r] \union Needs(r)
      /\ \A x \in Process \ {r} : held'[x] = held[x]
  BY LockIs, Values DEF AccountsInv, Waits
<1>6. request[r] # None /\ ~In(r, "done")
  BY <1>1, Values DEF In, Admission
<1>7. /\ request'[r] = next
      /\ q.cookie \in Request => request'[q.cookie] # None /\ request'[q.cookie].phase = "done"
  BY <1>1, <1>4, <1>6, CookieStays
<1>8. next \notin Throttling /\ next # None
  BY <1>3, Values DEF Throttling
<1>9. account' = account
  BY DEF accountVars
<1>10. CookieInv(r)' /\ AdmissionInv(r)'
  BY <1>1, <1>3, <1>5, <1>7, <1>9 DEF CookieInv, AdmissionInv, In
<1>11. RequestInv(r)'
  BY <1>7, <1>8, <1>10 DEF RequestInv
<1> QED  BY <1>4, <1>5, <1>6, <1>11, ReadingKeeps

LEMMA PurgeKeeps ==
    ASSUME AccountsInv, NEW r \in Request, Purge(r)
    PROVE  AccountsInv'
<1>1. /\ request[r] # None /\ request[r].phase = "admitted" /\ ~Waits(r)
      /\ request' = [request EXCEPT ![r].phase = "purged"]
      /\ Lock(r, Needs(r))
      /\ UNCHANGED <<accountVars, counterVars, operator>>
  BY DEF Purge, In
<1>2. request[r] \in Admission
  BY <1>1, Phases DEF AccountsInv
<1>3. PICK seen \in Account : seen = request[r].seen
  BY <1>2 DEF Admission
<1>4. request' = [request EXCEPT ![r].phase = "purged", ![r].seen = seen]
  BY <1>1, <1>2, <1>3 DEF Admission, AccountsInv, TypeOK
<1>5. Needs(r) \subseteq Row
  BY <1>1 DEF Needs, Row
<1> QED  BY <1>1, <1>2, <1>4, <1>5, GoesOn

LEMMA LockAccountKeeps ==
    ASSUME AccountsInv, NEW r \in Request, LockAccount(r)
    PROVE  AccountsInv'
<1>1. /\ request[r] # None /\ request[r].phase = "purged" /\ ~Waits(r)
      /\ request' = [request EXCEPT ![r].phase = "verify", ![r].seen = account[request[r].user]]
      /\ Lock(r, Needs(r))
      /\ UNCHANGED <<accountVars, counterVars, operator>>
  BY DEF LockAccount, In
<1>2. request[r] \in Admission /\ request[r].user \in User
  BY <1>1, Phases DEF AccountsInv, Admission
<1>3. account[request[r].user] \in Account
  BY <1>2 DEF AccountsInv, TypeOK
<1>4. Needs(r) = IF account[request[r].user] = Absent THEN {} ELSE {request[r].user}
  BY <1>1 DEF Needs
<1>5. Needs(r) \subseteq Row
  BY <1>2, <1>4 DEF Row
<1> QED  BY <1>1, <1>2, <1>3, <1>4, <1>5, GoesOn

LEMMA RefusalKeeps ==
    ASSUME AccountsInv, NEW r \in Request, Reject(r) \/ Fail(r)
    PROVE  AccountsInv'
<1>1. /\ request[r] # None /\ ~In(r, "done") /\ Answer(r, "refused")
      /\ UNCHANGED <<accountVars, counterVars, operator>>
  BY DEF Reject, Fail, In
<1>2. /\ \E next \in Finished : request' = [request EXCEPT ![r] = next]
      /\ LocksExclude' /\ held' \in [Process -> SUBSET Row]
      /\ \A x \in Process \ {r} : held'[x] = held[x]
      /\ RequestInv(r)'
  BY <1>1, AnswerIs
<1> QED  BY <1>1, <1>2, ReadingKeeps

\* A session is opened with the account as it is, which the request has locked.
LEMMA OpenKeeps ==
    ASSUME AccountsInv, NEW r \in Request, OpenSession(r)
    PROVE  AccountsInv'
<1>1. /\ In(r, "verify") /\ request[r] # None /\ ~In(r, "done")
      /\ request[r].seen # Absent /\ ~request[r].seen.disabled
      /\ UNCHANGED <<account, counterVars, operator>>
      /\ request' = [request EXCEPT ![r] = Admitted(request[r], "leaving")]
      /\ held' = [held EXCEPT ![r] = {}]
  BY DEF OpenSession, In
<1>2. PICK q \in Admission : q = request[r]
  BY <1>1, Phases DEF AccountsInv, In
<1>3. /\ q.user \in User /\ q.seen \in Account /\ q.user \in held[r] /\ account[q.user] = q.seen
  BY <1>1, <1>2, Values DEF AccountsInv, RequestInv, AdmissionInv, In, Admission
<1>4. PICK opened \in Session :
         opened = [user |-> q.user, password |-> q.seen.password, overdue |-> FALSE]
  <2>1. q.seen.password \in 0..MaxPassword /\ q.seen.disabled = FALSE
        /\ q.seen = [password |-> q.seen.password, disabled |-> q.seen.disabled]
    BY <1>1, <1>2, <1>3 DEF Account
  <2>2. q.seen.password # 0
    BY <1>1, <1>2, <2>1 DEF Absent
  <2>3. PICK p \in 1..MaxPassword : p = q.seen.password
    BY <2>1, <2>2, Values
  <2>4. [user |-> q.user, password |-> p, overdue |-> FALSE] \in Session
    BY <1>3 DEF Session
  <2> QED  BY <2>3, <2>4
<1>5. /\ opened.user = q.user /\ opened.password = q.seen.password
      /\ q.seen = [password |-> opened.password, disabled |-> FALSE]
  BY <1>1, <1>2, <1>3, <1>4 DEF Account
<1>6. session' = [t \in Token |-> IF t = r THEN opened
                                  ELSE IF t \in held[r] THEN None ELSE session[t]]
  BY <1>2, <1>4 DEF OpenSession
<1>7. /\ \E next \in Admission : request' = [request EXCEPT ![r] = next]
      /\ LocksExclude' /\ held' \in [Process -> SUBSET Row]
      /\ \A x \in Process \ {r} : held'[x] = held[x]
      /\ RequestInv(r)'
  BY <1>1, AdmitIs
<1>8. /\ session' \in [Token -> Session \union {None}]
      /\ \A t \in Token \ {r} : session[t] = None => session'[t] = None
      /\ \A t \in Token : session'[t] # None =>
             \/ session[t] # None /\ session'[t].user = session[t].user
             \/ session'[t].user \in held[r]
  BY <1>3, <1>5, <1>6 DEF AccountsInv, TypeOK
<1>9. SessionsMatchAccounts'
  BY <1>1, <1>3, <1>5, <1>6 DEF AccountsInv, SessionsMatchAccounts
<1>10. /\ counter' = counter /\ passed' = passed /\ stale' = stale
       /\ counter \in [Key -> Nat] /\ passed \in [Key -> Nat] /\ stale \subseteq Key
       /\ \A k \in Key : WindowInv(k)'
  BY <1>1 DEF counterVars, AccountsInv, TypeOK, WindowInv
<1>11. PICK next \in Throttling \union Admission \union Finished :
          request' = [request EXCEPT ![r] = next]
  BY <1>7
<1> QED  BY <1>1, <1>7, <1>8, <1>9, <1>10, <1>11, RequestKeeps

LEMMA DropKeeps ==
    ASSUME AccountsInv, NEW r \in Request, DropCookie(r)
    PROVE  AccountsInv'
<1>1. /\ request[r] # None /\ ~In(r, "done") /\ Answer(r, "ok")
      /\ UNCHANGED <<account, counterVars, operator>>
      /\ session' = [t \in Token |-> IF t = request[r].cookie THEN None ELSE session[t]]
  BY DEF DropCookie, In
<1>2. request[r].cookie \in Cookie
  BY <1>1, Phases DEF AccountsInv
<1>3. request[r].cookie # None => session'[request[r].cookie] = None
  BY <1>1, <1>2 DEF Cookie
<1>4. /\ \E next \in Finished : request' = [request EXCEPT ![r] = next]
      /\ LocksExclude' /\ held' \in [Process -> SUBSET Row]
      /\ \A x \in Process \ {r} : held'[x] = held[x]
      /\ RequestInv(r)'
  BY <1>1, <1>3, AnswerIs
<1>5. /\ session' \in [Token -> Session \union {None}]
      /\ \A t \in Token : session'[t] # None => session'[t] = session[t]
  BY <1>1 DEF AccountsInv, TypeOK
<1>6. SessionsMatchAccounts'
  BY <1>1, <1>5 DEF AccountsInv, SessionsMatchAccounts
<1>7. /\ counter' = counter /\ passed' = passed /\ stale' = stale
      /\ counter \in [Key -> Nat] /\ passed \in [Key -> Nat] /\ stale \subseteq Key
      /\ \A k \in Key : WindowInv(k)'
  BY <1>1 DEF counterVars, AccountsInv, TypeOK, WindowInv
<1>8. PICK next \in Throttling \union Admission \union Finished :
         request' = [request EXCEPT ![r] = next]
  BY <1>4
<1>9. /\ \A t \in Token \ {r} : session[t] = None => session'[t] = None
      /\ \A t \in Token : session'[t] # None =>
             \/ session[t] # None /\ session'[t].user = session[t].user
             \/ session'[t].user \in held[r]
  BY <1>5
<1> QED  BY <1>1, <1>4, <1>5, <1>6, <1>7, <1>8, <1>9, RequestKeeps

-----------------------------------------------------------------------------
\* Operators, who write an account only while they hold it.
LEMMA OperatorKeeps ==
    ASSUME AccountsInv, NEW o \in Operator, NEW next \in Change \union {None},
           UNCHANGED <<counterVars, request>>,
           operator' = [operator EXCEPT ![o] = next],
           held' \in [Process -> SUBSET Row], LocksExclude',
           \A x \in Process \ {o} : held'[x] = held[x],
           account' \in [User -> Account],
           \A u \in User \ held[o] : account'[u] = account[u],
           session' \in [Token -> Session \union {None}],
           \A t \in Token : session'[t] # None => session'[t] = session[t],
           OperatorInv(o)', SessionsMatchAccounts'
    PROVE  AccountsInv'
<1>1. UNCHANGED <<counter, stale, passed, request>>
  BY DEF counterVars
<1>2. \A r \in Request :
         /\ held'[r] = held[r] /\ held[r] \intersect held[o] = {}
         /\ r \in Process /\ o \in Process
  BY Values DEF AccountsInv, LocksExclude
<1>3. TypeOK'
  BY <1>1, <1>2 DEF AccountsInv, TypeOK
<1>4. ASSUME NEW r \in Request PROVE RequestInv(r)'
  <2>1. RequestInv(r)
    BY DEF AccountsInv
  <2>2. request[r] \in Throttling => CountInv(r)'
    BY <1>1, <1>2, <2>1 DEF RequestInv, CountInv, Counted, Keys
  <2>3. request[r] \in Admission => AdmissionInv(r)'
    <3>1. request[r] \in Admission => request[r].user \in User
      BY DEF Admission
    <3> QED  BY <1>1, <1>2, <2>1, <3>1 DEF RequestInv, AdmissionInv
  <2>4. request[r] # None => CookieInv(r)'
    <3>1. request[r] # None => CookieInv(r) /\ request[r].cookie \in Cookie
      BY <2>1, Phases DEF RequestInv, AccountsInv
    <3>2. \A t \in Token : session[t] = None => session'[t] = None
      OBVIOUS
    <3> QED  BY <1>1, <1>2, <3>1, <3>2 DEF CookieInv, Cookie, In
  <2> QED  BY <1>1, <1>2, <2>1, <2>2, <2>3, <2>4 DEF RequestInv
<1>5. ASSUME NEW p \in Operator \ {o} PROVE OperatorInv(p)'
  <2>1. OperatorInv(p) /\ operator'[p] = operator[p] /\ held'[p] = held[p]
    BY Values DEF AccountsInv, TypeOK
  <2> QED  BY <2>1 DEF OperatorInv
<1>6. \A k \in Key : WindowInv(k)'
  BY <1>1 DEF AccountsInv, WindowInv
<1> QED  BY <1>3, <1>4, <1>5, <1>6 DEF AccountsInv

LEMMA WriteKeeps ==
    ASSUME AccountsInv, NEW o \in Operator, NEW u \in User, WriteAccount(o, u)
    PROVE  AccountsInv'
<1>1. PICK wanted \in Account :
         operator' = [operator EXCEPT ![o] = [user |-> u, next |-> wanted, phase |-> "written"]]
  BY DEF WriteAccount
<1>2. PICK next \in Change : next = [user |-> u, next |-> wanted, phase |-> "written"]
  BY DEF Change
<1>3. /\ UNCHANGED <<account, session, counterVars, request>>
      /\ ~LockedByOther(o, {u}) /\ Lock(o, {u})
  BY DEF WriteAccount, accountVars
<1>4. /\ LocksExclude' /\ held' \in [Process -> SUBSET Row]
      /\ held'[o] = held[o] \union {u}
      /\ \A x \in Process \ {o} : held'[x] = held[x]
  <2>1. {u} \in SUBSET Row /\ o \in Process
    BY Values DEF Row
  <2> QED  BY <1>3, <2>1, LockIs DEF AccountsInv
<1>5. OperatorInv(o)'
  <2>1. operator'[o] = next /\ next.user = u /\ next.phase = "written"
    BY <1>1, <1>2 DEF AccountsInv, TypeOK
  <2> QED  BY <1>4, <2>1 DEF OperatorInv
<1>6. /\ account' \in [User -> Account] /\ session' \in [Token -> Session \union {None}]
      /\ SessionsMatchAccounts'
  BY <1>3 DEF AccountsInv, TypeOK, SessionsMatchAccounts
<1> QED  BY <1>1, <1>2, <1>3, <1>4, <1>5, <1>6, OperatorKeeps

LEMMA DeleteKeeps ==
    ASSUME AccountsInv, NEW o \in Operator, DeleteSessions(o)
    PROVE  AccountsInv'
<1>1. PICK c \in Change : c = operator[o]
  BY DEF DeleteSessions, AccountsInv, TypeOK
<1>2. PICK doomed \in SUBSET Token :
         doomed = {t \in Token : session[t] # None /\ session[t].user = operator[o].user}
  OBVIOUS
<1>3. PICK next \in Change : next = [c EXCEPT !.phase = "deleted"]
  BY DEF Change
<1>4. next.user = c.user /\ next.phase = "deleted" /\ next # None /\ c # None
  BY <1>3, Values DEF Change
<1>5. /\ UNCHANGED <<account, session, counterVars, request>>
      /\ ~LockedByOther(o, doomed) /\ Lock(o, doomed)
      /\ operator' = [operator EXCEPT ![o] = next]
  BY <1>1, <1>2, <1>3 DEF DeleteSessions, accountVars, AccountsInv, TypeOK
<1>6. /\ LocksExclude' /\ held' \in [Process -> SUBSET Row]
      /\ held'[o] = held[o] \union doomed
      /\ \A x \in Process \ {o} : held'[x] = held[x]
  <2>1. doomed \in SUBSET Row /\ o \in Process
    BY Values DEF Row
  <2> QED  BY <1>5, <2>1, LockIs DEF AccountsInv
<1>7. OperatorInv(o)'
  <2>1. operator'[o] = next /\ c.user \in held[o]
    BY <1>1, <1>4, <1>5 DEF AccountsInv, TypeOK, OperatorInv
  <2> QED  BY <1>1, <1>2, <1>4, <1>5, <1>6, <2>1 DEF OperatorInv
<1>8. /\ account' \in [User -> Account] /\ session' \in [Token -> Session \union {None}]
      /\ SessionsMatchAccounts'
  BY <1>5 DEF AccountsInv, TypeOK, SessionsMatchAccounts
<1> QED  BY <1>5, <1>6, <1>7, <1>8, OperatorKeeps

LEMMA EndKeeps ==
    ASSUME AccountsInv, NEW o \in Operator, CommitAccount(o) \/ RollBack(o)
    PROVE  AccountsInv'
<1>1. PICK c \in Change : c = operator[o] /\ operator[o] # None
  BY DEF CommitAccount, RollBack, AccountsInv, TypeOK
<1>2. /\ OperatorInv(o) /\ c.user \in User /\ c.next \in Account /\ c.user \in held[o]
  BY <1>1 DEF AccountsInv, OperatorInv, Change
<1>3. /\ UNCHANGED <<counterVars, request>>
      /\ operator' = [operator EXCEPT ![o] = None] /\ operator'[o] = None
      /\ held' = [held EXCEPT ![o] = {}]
  BY DEF CommitAccount, RollBack, AccountsInv, TypeOK
<1>4. /\ LocksExclude' /\ held' \in [Process -> SUBSET Row]
      /\ \A x \in Process \ {o} : held'[x] = held[x]
  BY <1>3, UnlockIs, Values DEF AccountsInv
<1>5. OperatorInv(o)'
  BY <1>3 DEF OperatorInv
<1>6. CASE RollBack(o)
  <2>1. /\ UNCHANGED <<account, session>>
        /\ account' \in [User -> Account] /\ session' \in [Token -> Session \union {None}]
        /\ SessionsMatchAccounts'
    BY <1>6 DEF RollBack, accountVars, AccountsInv, TypeOK, SessionsMatchAccounts
  <2> QED  BY <1>3, <1>4, <1>5, <2>1, OperatorKeeps
<1>7. CASE CommitAccount(o)
  <2>1. /\ account' = [account EXCEPT ![c.user] = c.next]
        /\ session' = [t \in Token |-> IF t \in held[o] THEN None ELSE session[t]]
        /\ c.phase = "deleted"
    BY <1>1, <1>7 DEF CommitAccount
  <2>2. /\ account' \in [User -> Account]
        /\ \A u \in User \ held[o] : account'[u] = account[u]
        /\ session' \in [Token -> Session \union {None}]
        /\ \A t \in Token : session'[t] # None => session'[t] = session[t] /\ t \notin held[o]
    BY <1>2, <2>1 DEF AccountsInv, TypeOK
  <2>3. SessionsMatchAccounts'
    <3> SUFFICES ASSUME NEW t \in Token, session'[t] # None
                 PROVE  account'[session'[t].user] =
                           [password |-> session'[t].password, disabled |-> FALSE]
      BY DEF SessionsMatchAccounts
    <3>1. session'[t] = session[t] /\ t \notin held[o] /\ session[t] # None
      BY <2>2
    <3>2. session[t].user # c.user
      BY <1>1, <1>2, <2>1, <3>1 DEF OperatorInv
    <3>3. session[t].user \in User
      BY <3>1 DEF AccountsInv, TypeOK, Session
    <3>4. account'[session[t].user] = account[session[t].user]
      BY <2>1, <3>2, <3>3 DEF AccountsInv, TypeOK
    <3> QED  BY <3>1, <3>4 DEF AccountsInv, SessionsMatchAccounts
  <2> QED  BY <1>3, <1>4, <1>5, <2>2, <2>3, OperatorKeeps
<1> QED  BY <1>6, <1>7

-----------------------------------------------------------------------------
\* Time passes.
LEMMA WindowEndKeeps ==
    ASSUME AccountsInv, NEW k \in Key, WindowEnds(k)
    PROVE  AccountsInv'
<1>1. /\ UNCHANGED <<account, session, counter, passed, request, operator, held>>
      /\ stale' = stale \union {k}
  BY DEF WindowEnds, accountVars
<1>2. TypeOK' /\ LocksExclude' /\ SessionsMatchAccounts' /\ \A j \in Key : WindowInv(j)'
  BY <1>1 DEF AccountsInv, TypeOK, LocksExclude, SessionsMatchAccounts, WindowInv
<1>3. \A r \in Request : RequestInv(r)'
  BY <1>1 DEF AccountsInv, RequestInv, CountInv, AdmissionInv, CookieInv, In, Counted, Keys
<1>4. \A o \in Operator : OperatorInv(o)'
  BY <1>1 DEF AccountsInv, OperatorInv
<1> QED  BY <1>2, <1>3, <1>4 DEF AccountsInv

LEMMA ExpiryKeeps ==
    ASSUME AccountsInv, NEW t \in Token, SessionExpires(t)
    PROVE  AccountsInv'
<1>1. /\ UNCHANGED <<account, counter, stale, passed, request, operator, held>>
      /\ session[t] # None
      /\ session' = [session EXCEPT ![t].overdue = TRUE]
  BY DEF SessionExpires, counterVars
<1>2. PICK s \in Session : s = session[t]
  BY <1>1 DEF AccountsInv, TypeOK
<1>3. PICK n \in Session : n = [s EXCEPT !.overdue = TRUE]
  BY DEF Session
<1>4. n.user = s.user /\ n.password = s.password /\ n # None
  BY <1>3, Values DEF Session
<1>5. session'[t] = n /\ \A x \in Token \ {t} : session'[x] = session[x]
  BY <1>1, <1>2, <1>3 DEF AccountsInv, TypeOK
<1>6. session' \in [Token -> Session \union {None}]
  BY <1>1, <1>2, <1>3 DEF AccountsInv, TypeOK
<1>7. TypeOK' /\ LocksExclude' /\ \A k \in Key : WindowInv(k)'
  BY <1>1, <1>6 DEF AccountsInv, TypeOK, LocksExclude, WindowInv
<1>8. SessionsMatchAccounts'
  BY <1>1, <1>2, <1>4, <1>5 DEF AccountsInv, SessionsMatchAccounts
<1>9. \A x \in Token : (session'[x] = None <=> session[x] = None)
                       /\ (session[x] # None => session'[x].user = session[x].user)
  BY <1>1, <1>2, <1>4, <1>5
<1>10. ASSUME NEW r \in Request PROVE RequestInv(r)'
  <2>1. RequestInv(r)
    BY DEF AccountsInv
  <2>2. request[r] # None => CookieInv(r)'
    <3>1. request[r] # None => CookieInv(r) /\ request[r].cookie \in Cookie
      BY <2>1, Phases DEF RequestInv, AccountsInv
    <3> QED  BY <1>1, <1>9, <3>1 DEF CookieInv, Cookie, In
  <2>3. CountInv(r) => CountInv(r)'
    BY <1>1 DEF CountInv, Counted, Keys
  <2>4. AdmissionInv(r) => AdmissionInv(r)'
    BY <1>1 DEF AdmissionInv
  <2> QED  BY <1>1, <2>1, <2>2, <2>3, <2>4 DEF RequestInv
<1>11. \A o \in Operator : OperatorInv(o)'
  BY <1>1, <1>9 DEF AccountsInv, OperatorInv
<1> QED  BY <1>7, <1>8, <1>10, <1>11 DEF AccountsInv

-----------------------------------------------------------------------------
LEMMA InitHolds ==
    ASSUME Init
    PROVE  AccountsInv
<1>1. \A r \in Request : request[r] = None
  BY DEF Init
<1>2. \A o \in Operator : operator[o] = None
  BY DEF Init
<1>3. \A p \in Process : held[p] = {}
  BY DEF Init
<1>4. account \in [User -> Account]
  <2>1. Absent \in Account /\ [password |-> 1, disabled |-> FALSE] \in Account
    BY Values DEF Account, Absent
  <2> QED  BY <2>1 DEF Init
<1>5. session \in [Token -> Session \union {None}]
  <2>1. 1 \in 1..MaxPassword
    BY Values
  <2>2. ASSUME NEW s \in [user : User, password : {1}, overdue : {FALSE}]
        PROVE  s \in Session
    BY <2>1 DEF Session
  <2> QED  BY <2>2 DEF Init
<1>6. counter \in [Key -> Nat] /\ passed \in [Key -> Nat] /\ stale \subseteq Key
  BY LimitAssumption DEF Init, LimitAssumption
<1>7. /\ request \in [Request -> Throttling \union Admission \union Finished \union {None}]
      /\ operator \in [Operator -> Change \union {None}]
      /\ held \in [Process -> SUBSET Row]
  BY DEF Init
<1>8. TypeOK
  BY <1>1, <1>3, <1>4, <1>5, <1>6, <1>7, Values DEF TypeOK
<1>9. LocksExclude
  BY <1>3 DEF LocksExclude
<1>10. \A r \in Request : RequestInv(r)
  BY <1>1, <1>3, Values DEF RequestInv
<1>11. \A o \in Operator : OperatorInv(o)
  BY <1>2 DEF OperatorInv
<1>12. SessionsMatchAccounts
  <2>1. ASSUME NEW t \in Token, session[t] # None
        PROVE  account[session[t].user] = [password |-> session[t].password, disabled |-> FALSE]
    <3>1. session[t] \in [user : User, password : {1}, overdue : {FALSE}]
      BY <2>1 DEF Init
    <3>2. session[t].user \in User /\ session[t].password = 1
      BY <3>1
    <3>3. account[session[t].user] # Absent
      BY <2>1 DEF Init
    <3>4. account[session[t].user] \in {Absent, [password |-> 1, disabled |-> FALSE]}
      BY <3>2 DEF Init
    <3> QED  BY <3>2, <3>3, <3>4
  <2> QED  BY <2>1 DEF SessionsMatchAccounts
<1>13. \A k \in Key : WindowInv(k)
  <2>1. ASSUME NEW k \in Key PROVE WindowInv(k)
    <3>1. counter[k] = Attempts /\ passed[k] = Attempts
      BY DEF Init
    <3>2. k[1] \in {"login-peer", "login-user", "session"}
      BY DEF Key, Peer
    <3>3. Attempts <= Limit[k[1]] /\ Attempts \in Nat
      BY <3>2, LimitAssumption DEF LimitAssumption
    <3> QED  BY <3>1, <3>3 DEF WindowInv
  <2> QED  BY <2>1
<1> QED  BY <1>8, <1>9, <1>10, <1>11, <1>12, <1>13 DEF AccountsInv

LEMMA StepKeeps ==
    ASSUME AccountsInv, [Next]_vars
    PROVE  AccountsInv'
<1>1. ASSUME NEW r \in Request, NEW kind \in Kind, NEW u \in User,
             NEW cookie \in Cookies \union {None}, Arrive(r, kind, u, cookie)
      PROVE  AccountsInv'
  BY <1>1, ArriveKeeps
<1>2. ASSUME NEW r \in Request, RequestStep(r)
      PROVE  AccountsInv'
  <2>1. CASE SweepRows(r) \/ Count(r) \/ CommitCounts(r)
    BY <2>1, SweepKeeps, CountKeeps, CommitKeeps
  <2>2. CASE Purge(r) \/ LockAccount(r) \/ OpenSession(r)
    BY <2>2, PurgeKeeps, LockAccountKeeps, OpenKeeps
  <2>3. CASE Reject(r) \/ Fail(r) \/ DropCookie(r)
    BY <2>3, RefusalKeeps, DropKeeps
  <2> QED  BY <1>2, <2>1, <2>2, <2>3 DEF RequestStep
<1>3. ASSUME NEW o \in Operator, OperatorStep(o)
      PROVE  AccountsInv'
  BY <1>3, DeleteKeeps, EndKeeps DEF OperatorStep
<1>4. ASSUME NEW o \in Operator, NEW u \in User, WriteAccount(o, u)
      PROVE  AccountsInv'
  BY <1>4, WriteKeeps
<1>5. ASSUME NEW k \in Key, WindowEnds(k)
      PROVE  AccountsInv'
  BY <1>5, WindowEndKeeps
<1>6. ASSUME NEW t \in Token, SessionExpires(t)
      PROVE  AccountsInv'
  BY <1>6, ExpiryKeeps
<1>7. CASE UNCHANGED vars
  <2>1. UNCHANGED <<account, session, counter, stale, request, operator, held, passed>>
    BY <1>7 DEF vars
  <2>2. TypeOK' /\ LocksExclude' /\ SessionsMatchAccounts' /\ \A j \in Key : WindowInv(j)'
    BY <2>1 DEF AccountsInv, TypeOK, LocksExclude, SessionsMatchAccounts, WindowInv
  <2>3. \A r \in Request : RequestInv(r)'
    BY <2>1 DEF AccountsInv, RequestInv, CountInv, AdmissionInv, CookieInv, In, Counted, Keys
  <2>4. \A o \in Operator : OperatorInv(o)'
    BY <2>1 DEF AccountsInv, OperatorInv
  <2> QED  BY <2>2, <2>3, <2>4 DEF AccountsInv
<1>8. CASE Next
  BY <1>1, <1>2, <1>3, <1>4, <1>5, <1>6, <1>8 DEF Next
<1> QED  BY <1>7, <1>8

THEOREM AccountsInvariance == Spec => []AccountsInv
<1> QED  BY InitHolds, StepKeeps, PTL DEF Spec

-----------------------------------------------------------------------------
\* Every variable has its type, and a request that was answered or rolled back
\* has given its row locks back.
THEOREM AccountTypeCorrect == Spec => []TypeOK
<1>1. AccountsInv => TypeOK
  BY DEF AccountsInv
<1> QED  BY <1>1, AccountsInvariance, PTL

\* No session outlives the password it was opened with or the account's being
\* enabled, however logins, resets and disablings overlap (review/auth.py:108).
THEOREM SessionsStayMatched == Spec => []SessionsMatchAccounts
<1>1. AccountsInv => SessionsMatchAccounts
  BY DEF AccountsInv
<1> QED  BY <1>1, AccountsInvariance, PTL

\* A window never lets through more attempts than its limit, whatever the number
\* of requests that count at once (review/auth.py:85-100).
THEOREM WindowsStayBounded == Spec => []WindowsAreBounded
<1>1. AccountsInv => WindowsAreBounded
  BY DEF AccountsInv, WindowInv, WindowsAreBounded
<1> QED  BY <1>1, AccountsInvariance, PTL

\* The session a request was answered "ok" with stays gone: no later login can
\* bring its token back (review/api.py:125).
THEOREM CookiesStayDropped == Spec => []CookieIsDropped
<1>1. AccountsInv => CookieIsDropped
  BY DEF AccountsInv, RequestInv, CookieInv, In, CookieIsDropped
<1> QED  BY <1>1, AccountsInvariance, PTL

=============================================================================
