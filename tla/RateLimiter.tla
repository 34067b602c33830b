----------------------------- MODULE RateLimiter -----------------------------
(***************************************************************************)
(* The token bucket of one connector: ConnectorRateLimiter.consume of      *)
(* rate_limits.py over its row of connector_rate_limits.  The row is       *)
(* locked before the database clock is read, so one consume is one step;   *)
(* it commits before the request goes on and is never refunded.            *)
(*                                                                         *)
(* Amounts are counted in parts of a token, as many as the period has      *)
(* clock ticks, so that a tick adds a whole number of parts, Capacity.     *)
(***************************************************************************)
EXTENDS Integers

CONSTANTS
    Capacity,   \* settings.api_rate_limit_requests
    Period,     \* settings.api_rate_limit_period_seconds
    Second,     \* clock ticks in a second
    MaxClock    \* bound: the greatest reading of the clock

ASSUME BucketAssumption ==
    /\ Capacity \in Nat \ {0}
    /\ Period \in Nat \ {0}
    /\ Second \in Nat \ {0}
    /\ MaxClock \in Nat

VARIABLES
    tokens,    \* the tokens of the row, in parts
    updated,   \* updated_at
    since,     \* history: updated_at when an observer began to count
    admitted,  \* history: requests admitted from then on
    promise    \* history: the earliest time a refused request may come back,
               \* -1 if none was refused since a token was taken

bucketVars == <<tokens, updated, since, admitted, promise>>

Token == Period * Second
Full == Capacity * Token

\* No row yet is a full bucket: consume inserts it with its capacity.
BucketInit ==
    /\ tokens = Full
    /\ updated = 0
    /\ since = 0
    /\ admitted = 0
    /\ promise = -1

-----------------------------------------------------------------------------
Larger(a, b) == IF a > b THEN a ELSE b
Smaller(a, b) == IF a < b THEN a ELSE b

\* Mutant: the row takes the time that was read, even when the clock went back.
LastReading(now, before) == now

\* max(now, updated).
Mark(now, before) == Larger(now, before)

\* A reading before the last one adds nothing.
Available(now) ==
    Smaller(Full, tokens + Capacity * Larger(0, now - updated))

\* max(1, ceil((1 - available) / rate)), in seconds.
Rounds(parts) == (parts + Capacity * Second - 1) \div (Capacity * Second)
RetryAfter(now) == Larger(1, Rounds(Token - Available(now)))

Take(now) ==
    /\ Available(now) >= Token
    /\ tokens' = Available(now) - Token
    /\ updated' = Mark(now, updated)
    /\ admitted' = admitted + 1
    /\ promise' = -1
    /\ UNCHANGED since

\* The refused request counts its seconds from the latest reading.
Promised(now) ==
    LET back == Mark(now, updated) + RetryAfter(now) * Second
    IN  IF promise = -1 THEN back ELSE Smaller(promise, back)

\* Mutant: a refusal moves the time of the row and not its tokens.
RefuseAndForget(now) ==
    /\ Available(now) < Token
    /\ updated' = Mark(now, updated)
    /\ promise' = Promised(now)
    /\ UNCHANGED <<tokens, since, admitted>>

Refuse(now) ==
    /\ Available(now) < Token
    /\ tokens' = Available(now)
    /\ updated' = Mark(now, updated)
    /\ promise' = Promised(now)
    /\ UNCHANGED <<since, admitted>>

\* History: somebody begins to count admissions.
Watch ==
    /\ since' = updated
    /\ admitted' = 0
    /\ UNCHANGED <<tokens, updated, promise>>

\* The clock of the database is read anew each time, and may step back.
Reading == 0..MaxClock

BucketNext == Watch \/ \E now \in Reading : Take(now) \/ Refuse(now)

BucketSpec == BucketInit /\ [][BucketNext]_bucketVars

-----------------------------------------------------------------------------
\* The row has its types: tokens never fall below nothing (CHECK (tokens >= 0),
\* migrations/007_rate_limits.sql:5) nor exceed the capacity.
BucketTypeOK ==
    /\ tokens \in 0..Full
    /\ updated \in Nat
    /\ since \in 0..updated
    /\ admitted \in Nat
    /\ promise \in Nat \union {-1}

\* Whenever one starts to count, the admissions are at most the capacity and
\* what the rate allows for the time that went by: a clock that steps back and
\* forth, and instances that read it one after the other, create no tokens
\* (rate_limits.py:29-36).
AdmissionsAreBounded ==
    admitted * Token <= Full + Capacity * (updated - since)

\* A refused client that waits as long as it was told finds a token, unless
\* another request took it: refusals in between, and clocks that step back,
\* lose nothing that was earned (rate_limits.py:32-36).
RefusalIsTemporary ==
    promise # -1 => Available(promise) >= Token

=============================================================================
