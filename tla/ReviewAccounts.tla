--------------------------- MODULE ReviewAccounts ---------------------------
(***************************************************************************)
(* Accounts, browser sessions and attempt counters of the review page:     *)
(* review/auth.py as review/api.py and review/cli.py call it.  Requests    *)
(* and operators are transactions on the same rows that wait for each      *)
(* other's row locks; a wait ends with the holder's transaction or with a  *)
(* failure (lock_timeout, deadlock detection).  Windows and sessions run   *)
(* out at any moment.                                                      *)
(***************************************************************************)
EXTENDS Naturals, Sequences

CONSTANTS
    User,         \* review_accounts.username
    Request,      \* requests; a login's session token is named after it
    Earlier,      \* the token of a session that was opened before them
    Operator,     \* runs of review/cli.py
    MaxPassword,  \* bound: passwords an operator sets one after the other
    Attempts,     \* attempts that each counter starts with
    Limit,        \* attempts allowed per window, by kind of counter
    None

Token == Request \union {Earlier}
Kind == {"login", "logout"}

\* Counters: one for the peer the requests come from, two for each account.
Peer == <<"login-peer">>
Key == {Peer} \union {"login-user", "session"} \X User

ASSUME LimitAssumption ==
    /\ Limit \in [{"login-peer", "login-user", "session"} -> Nat]
    /\ Attempts \in Nat /\ \A kind \in DOMAIN Limit : Attempts <= Limit[kind]
    /\ MaxPassword \in Nat \ {0}

ASSUME ProcessAssumption == Request \intersect Operator = {} /\ Earlier \notin Request

VARIABLES
    account,   \* review_accounts; password 0 stands for no row
    session,   \* review_sessions: the account, the password it was opened with and
               \* whether expires_at has passed
    counter,   \* review_rate_limits.attempts; 0 stands for no row
    stale,     \* counters whose expires_at has passed
    request,   \* the requests and their open transactions
    operator,  \* the operators and their open transactions
    held,      \* the row locks of each open transaction
    passed     \* history: attempts let through in a counter's window

vars == <<account, session, counter, stale, request, operator, held, passed>>

Account == [password : 0..MaxPassword, disabled : BOOLEAN]
Absent == [password |-> 0, disabled |-> FALSE]
Session == [user : User, password : 1..MaxPassword, overdue : BOOLEAN]
Row == Key \union User \union Token
Process == Request \union Operator

\* A request in the transaction of throttle, let through by it, and answered.
Cookie == Token \union {None}
Throttling == [kind : Kind, phase : {"sweep", "count", "counted"}, user : User,
               cookie : Cookie, swept : SUBSET Key, counted : 0..2, mine : [Key -> Nat]]
Admission == [kind : Kind, phase : {"admitted", "purged", "verify", "leaving"},
              user : User, cookie : Cookie, seen : Account]
Finished == [kind : Kind, phase : {"done"}, answer : {"ok", "refused"}, cookie : Cookie]
Change == [user : User, next : Account, phase : {"written", "deleted"}]

ASSUME NoneAssumption ==
    None \notin Token \union Session \union Change
                \union Throttling \union Admission \union Finished

\* The tables as provisioning and earlier requests, all answered, left them.
Init ==
    /\ account \in [User -> {Absent, [password |-> 1, disabled |-> FALSE]}]
    /\ session \in [Token -> [user : User, password : {1}, overdue : {FALSE}] \union {None}]
    /\ \A t \in Token : session[t] # None => t = Earlier /\ account[session[t].user] # Absent
    /\ counter = [k \in Key |-> Attempts]
    /\ stale = {}
    /\ request = [r \in Request |-> None]
    /\ operator = [o \in Operator |-> None]
    /\ held = [p \in Process |-> {}]
    /\ passed = counter

accountVars == <<account, session>>
counterVars == <<counter, stale, passed>>

-----------------------------------------------------------------------------
In(r, phase) == request[r] # None /\ request[r].phase = phase

\* The keys of throttle's loop, in the order of sorted().
Keys(q) ==
    IF q.kind = "login" THEN <<Peer, <<"login-user", q.user>>>>
    ELSE <<<<"session", q.user>>>>

\* The rows that the next statement of a request locks.
Needs(r) ==
    LET q == request[r]
    IN  CASE q.phase = "sweep" -> {k \in stale : counter[k] > 0}
          [] q.phase = "count" -> {Keys(q)[q.counted + 1]}
          [] q.phase = "admitted" -> {t \in Token : session[t] # None /\ session[t].overdue}
          [] q.phase = "purged" -> IF account[q.user] = Absent THEN {} ELSE {q.user}
          [] q.phase = "leaving" -> {t \in {q.cookie} \ {None} : session[t] # None}
          [] OTHER -> {}

LockedByOther(p, rows) == \E x \in Process \ {p} : held[x] \cap rows # {}

Waits(r) == LockedByOther(r, Needs(r))

Lock(p, rows) == held' = [held EXCEPT ![p] = @ \union rows]

\* The answer of a request, whose last transaction is over.
Done(r, answer) ==
    [kind |-> request[r].kind, phase |-> "done", answer |-> answer,
     cookie |-> IF answer = "ok" THEN request[r].cookie ELSE None]

Answer(r, answer) ==
    /\ request' = [request EXCEPT ![r] = Done(r, answer)]
    /\ held' = [held EXCEPT ![r] = {}]

\* A request whose transaction is throttle's, with what it has counted.
Throttled(kind, u, cookie) ==
    [kind |-> kind, phase |-> "sweep", user |-> u, cookie |-> cookie,
     swept |-> {}, counted |-> 0, mine |-> [k \in Key |-> 0]]

\* A request that throttle has let through.
Admitted(q, phase) ==
    [kind |-> q.kind, phase |-> phase, user |-> q.user,
     cookie |-> q.cookie, seen |-> Absent]

\* Tokens that a browser has received.
Cookies ==
    LET LoggedIn(r) == In(r, "done") /\ request[r].kind = "login" /\ request[r].answer = "ok"
    IN  {Earlier} \union {r \in Request : LoggedIn(r)}

Valid(t) == session[t] # None /\ ~session[t].overdue /\ ~account[session[t].user].disabled

-----------------------------------------------------------------------------
\* A request enters throttle; a logout, like every request but a login, after
\* authenticate has read its session.
Arrive(r, kind, u, cookie) ==
    /\ request[r] = None
    /\ kind # "login" => cookie # None /\ Valid(cookie) /\ session[cookie].user = u
    /\ request' = [request EXCEPT ![r] = Throttled(kind, u, cookie)]
    /\ UNCHANGED <<accountVars, counterVars, operator, held>>

\* throttle deletes the rows that are stale, once it has the locks of them all.
SweepRows(r) ==
    /\ In(r, "sweep")
    /\ ~Waits(r)
    /\ request' = [request EXCEPT ![r].phase = "count", ![r].swept = Needs(r)]
    /\ Lock(r, Needs(r))
    /\ UNCHANGED <<accountVars, counterVars, operator>>

\* Mutant: the count is read without the lock of its row.
CountFromSnapshot(r) ==
    /\ In(r, "count")
    /\ LET q == request[r]
           k == Keys(q)[q.counted + 1]
       IN  /\ request' = [request EXCEPT
                  ![r].mine[k] = 1 + IF k \in q.swept THEN @ ELSE counter[k],
                  ![r].counted = @ + 1,
                  ![r].phase = IF q.counted + 1 = Len(Keys(q)) THEN "counted" ELSE "count"]
           /\ Lock(r, {k})
    /\ UNCHANGED <<accountVars, counterVars, operator>>

\* INSERT ... ON CONFLICT DO UPDATE, one key after the other.
Count(r) ==
    /\ In(r, "count")
    /\ ~Waits(r)
    /\ LET q == request[r]
           k == Keys(q)[q.counted + 1]
       IN  /\ request' = [request EXCEPT
                  ![r].mine[k] = 1 + IF k \in q.swept THEN @ ELSE counter[k],
                  ![r].counted = @ + 1,
                  ![r].phase = IF q.counted + 1 = Len(Keys(q)) THEN "counted" ELSE "count"]
           /\ Lock(r, {k})
    /\ UNCHANGED <<accountVars, counterVars, operator>>

\* throttle commits its counts, and only then looks whether one is too high.
CommitCounts(r) ==
    LET q == request[r]
        rows == held[r]
        fresh == {k \in rows : k \in q.swept \/ counter[k] = 0}
        mine == {Keys(q)[i] : i \in DOMAIN Keys(q)}
        denied == \E k \in mine : q.mine[k] > Limit[k[1]]
    IN  /\ In(r, "counted")
        /\ counter' = [k \in Key |-> IF k \in rows THEN q.mine[k] ELSE counter[k]]
        /\ stale' = stale \ fresh
        /\ passed' = [k \in Key |-> (IF k \in fresh THEN 0 ELSE passed[k])
                                    + (IF k \in mine /\ ~denied THEN 1 ELSE 0)]
        /\ CASE denied -> Answer(r, "refused")
             [] OTHER ->
                  /\ request' = [request EXCEPT ![r] =
                         Admitted(q, IF q.kind = "login" THEN "admitted" ELSE "leaving")]
                  /\ held' = [held EXCEPT ![r] = {}]
        /\ UNCHANGED <<accountVars, operator>>

-----------------------------------------------------------------------------
\* login deletes the sessions that have expired ...
Purge(r) ==
    /\ In(r, "admitted")
    /\ ~Waits(r)
    /\ request' = [request EXCEPT ![r].phase = "purged"]
    /\ Lock(r, Needs(r))
    /\ UNCHANGED <<accountVars, counterVars, operator>>

\* Mutant: SELECT without FOR UPDATE.
ReadAccount(r) ==
    /\ In(r, "purged")
    /\ request' = [request EXCEPT ![r].phase = "verify", ![r].seen = account[request[r].user]]
    /\ UNCHANGED <<accountVars, counterVars, operator, held>>

\* ... locks the account, if there is one, ...
LockAccount(r) ==
    /\ In(r, "purged")
    /\ ~Waits(r)
    /\ request' = [request EXCEPT ![r].phase = "verify",
                                  ![r].seen = account[request[r].user]]
    /\ Lock(r, Needs(r))
    /\ UNCHANGED <<accountVars, counterVars, operator>>

\* ... and opens a session if the password that was sent is that of the account.
OpenSession(r) ==
    LET q == request[r]
    IN  /\ In(r, "verify")
        /\ q.seen # Absent /\ ~q.seen.disabled
        /\ session' = [t \in Token |->
               IF t = r THEN [user |-> q.user, password |-> q.seen.password, overdue |-> FALSE]
               ELSE IF t \in held[r] THEN None ELSE session[t]]
        /\ request' = [request EXCEPT ![r] = Admitted(q, "leaving")]
        /\ held' = [held EXCEPT ![r] = {}]
        /\ UNCHANGED <<account, counterVars, operator>>

\* A wrong password, a disabled account, no connector to review: the deletions
\* are rolled back.
Reject(r) ==
    /\ In(r, "verify")
    /\ Answer(r, "refused")
    /\ UNCHANGED <<accountVars, counterVars, operator>>

\* Mutant: a login leaves the session of its browser alone.
DropOnLogout(r) ==
    /\ In(r, "leaving")
    /\ ~Waits(r)
    /\ session' = [t \in Token |->
           IF t = request[r].cookie /\ request[r].kind = "logout" THEN None ELSE session[t]]
    /\ Answer(r, "ok")
    /\ UNCHANGED <<account, counterVars, operator>>

\* logout, also called by a login for the session its browser came with.
DropCookie(r) ==
    /\ In(r, "leaving")
    /\ ~Waits(r)
    /\ session' = [t \in Token |-> IF t = request[r].cookie THEN None ELSE session[t]]
    /\ Answer(r, "ok")
    /\ UNCHANGED <<account, counterVars, operator>>

\* A psycopg.Error, a lock_timeout among them, rolls back and is answered 503.
Fail(r) ==
    /\ request[r] # None /\ ~In(r, "done")
    /\ Answer(r, "refused")
    /\ UNCHANGED <<accountVars, counterVars, operator>>

RequestStep(r) ==
    \/ SweepRows(r) \/ Count(r) \/ CommitCounts(r)
    \/ Purge(r) \/ LockAccount(r) \/ OpenSession(r) \/ Reject(r)
    \/ DropCookie(r) \/ Fail(r)

-----------------------------------------------------------------------------
\* What an operator writes: provision sets a password, disable keeps it.
NewAccount(u, next) ==
    \/ /\ account[u].password < MaxPassword
       /\ next = [password |-> account[u].password + 1, disabled |-> FALSE]
    \/ /\ account[u] # Absent
       /\ next = [account[u] EXCEPT !.disabled = TRUE]

\* The row is written, and stays locked until the transaction ends.
WriteAccount(o, u) ==
    /\ operator[o] = None
    /\ ~LockedByOther(o, {u})
    /\ \E next \in Account :
          /\ NewAccount(u, next)
          /\ operator' = [operator EXCEPT ![o] = [user |-> u, next |-> next, phase |-> "written"]]
    /\ Lock(o, {u})
    /\ UNCHANGED <<accountVars, counterVars, request>>

\* The DELETE sees the sessions that are committed as it runs.
DeleteSessions(o) ==
    LET doomed == {t \in Token : session[t] # None /\ session[t].user = operator[o].user}
    IN  /\ operator[o] # None /\ operator[o].phase = "written"
        /\ ~LockedByOther(o, doomed)
        /\ operator' = [operator EXCEPT ![o].phase = "deleted"]
        /\ Lock(o, doomed)
        /\ UNCHANGED <<accountVars, counterVars, request>>

CommitAccount(o) ==
    /\ operator[o] # None /\ operator[o].phase = "deleted"
    /\ account' = [account EXCEPT ![operator[o].user] = operator[o].next]
    /\ session' = [t \in Token |-> IF t \in held[o] THEN None ELSE session[t]]
    /\ operator' = [operator EXCEPT ![o] = None]
    /\ held' = [held EXCEPT ![o] = {}]
    /\ UNCHANGED <<counterVars, request>>

RollBack(o) ==
    /\ operator[o] # None
    /\ operator' = [operator EXCEPT ![o] = None]
    /\ held' = [held EXCEPT ![o] = {}]
    /\ UNCHANGED <<accountVars, counterVars, request>>

OperatorStep(o) == DeleteSessions(o) \/ CommitAccount(o) \/ RollBack(o)

\* expires_at passes.  The windows of two counters end independently, since
\* other users and peers restart them.
WindowEnds(k) ==
    /\ counter[k] > 0 /\ k \notin stale
    /\ stale' = stale \union {k}
    /\ UNCHANGED <<accountVars, counter, passed, request, operator, held>>

SessionExpires(t) ==
    /\ session[t] # None /\ ~session[t].overdue
    /\ session' = [session EXCEPT ![t].overdue = TRUE]
    /\ UNCHANGED <<account, counterVars, request, operator, held>>

-----------------------------------------------------------------------------
Next ==
    \/ \E r \in Request :
          \/ \E kind \in Kind, u \in User, cookie \in Cookies \union {None} :
                Arrive(r, kind, u, cookie)
          \/ RequestStep(r)
    \/ \E o \in Operator : OperatorStep(o) \/ \E u \in User : WriteAccount(o, u)
    \/ \E k \in Key : WindowEnds(k)
    \/ \E t \in Token : SessionExpires(t)

Spec == Init /\ [][Next]_vars

-----------------------------------------------------------------------------
\* Every variable has its type, and a request that was answered or rolled back
\* holds no row.
TypeOK ==
    /\ account \in [User -> Account]
    /\ session \in [Token -> Session \union {None}]
    /\ counter \in [Key -> Nat] /\ passed \in [Key -> Nat]
    /\ stale \subseteq Key
    /\ request \in [Request -> Throttling \union Admission \union Finished \union {None}]
    /\ operator \in [Operator -> Change \union {None}]
    /\ held \in [Process -> SUBSET Row]
    /\ \A r \in Request :
          request[r] = None \/ request[r].phase \in {"admitted", "leaving", "done"}
              => held[r] = {}

\* "Password resets and disabling accounts serialize against session creation"
\* (review/auth.py:108): every session that exists belongs to an account that is
\* enabled and was opened with the password that account has now.
SessionsMatchAccounts ==
    \A t \in Token : session[t] # None =>
        account[session[t].user] = [password |-> session[t].password, disabled |-> FALSE]

\* However requests overlap, a window lets no more attempts through than its
\* limit (review/auth.py:85-100).
WindowsAreBounded ==
    \A k \in Key : passed[k] <= Limit[k[1]]

\* "A new login rotates the browser's existing session instead of leaving it
\* usable" (review/api.py:125), and a logout ends it: once the answer is out the
\* session the request came with is gone.
CookieIsDropped ==
    \A r \in Request :
        In(r, "done") /\ request[r].answer = "ok" /\ request[r].cookie # None
            => session[request[r].cookie] = None

=============================================================================
