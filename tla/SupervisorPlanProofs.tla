------------------------ MODULE SupervisorPlanProofs ------------------------
(***************************************************************************)
(* What SupervisorPlan promises, for every set of turns, every number of   *)
(* attempts and workers, every set of permissions and every set of plans.  *)
(***************************************************************************)
EXTENDS SupervisorPlan, TLAPS

\* A worker executes a graph for the attempt it holds.
RunsHaveLeases ==
    \A w \in Worker : run[w] # Nothing => lease[w] # Idle

\* The rank of a turn is drawn once.
RankIsFinal ==
    \A t \in Turn : status[t] = "none" => received[t] = 0

\* A plan that is acted upon is stored.
ActingHasPlan ==
    \A w \in Worker : At(w, "acting") => plan[lease[w].event] # Nothing

\* What is quoted, or about to be, are earlier turns with a plan; their
\* permissions can no longer change.
QuotedHavePlans ==
    /\ \A t \in Turn : \A u \in context[t] : plan[u] # Nothing
    /\ \A w \in Worker :
          At(w, "asking") => \A u \in run[w].history :
              Before(u, lease[w].event) /\ plan[u] # Nothing

SupInv ==
    /\ TypeOK
    /\ RunsHaveLeases
    /\ RankIsFinal
    /\ ActingHasPlan
    /\ QuotedHavePlans
    /\ FirstPlanActs
    /\ ActsAsPermitted
    /\ ContextStaysInScope

\* The rows of a step that only adds plans.
PlansKept ==
    \A t \in Turn :
        plan[t] # Nothing =>
            plan'[t] = plan[t] /\ access'[t] = access[t] /\ context'[t] = context[t]

\* What a step has to show of the rows it leaves behind.
RowsInScope ==
    \A t \in Turn :
        /\ acted[t] \subseteq {plan[t]}
        /\ \A u \in context[t] : Before(u, t) /\ plan[u] # Nothing /\ access[u] = access[t]

-----------------------------------------------------------------------------
\* What a worker has to be in the middle of.
Fits(r, at, scope) ==
    /\ r.at = "acting" => /\ plan[at.event] # Nothing /\ r.plan = plan[at.event]
                          /\ access[at.event] = scope
    /\ r.at = "asking" => \A u \in r.history :
                             Before(u, at.event) /\ plan[u] # Nothing /\ access[u] = scope

RunFits(w) == run[w] # Nothing => lease[w] \in Attempt /\ Fits(run[w], lease[w], settings[w])

\* The invariant, cut into types, ranks, rows and workers, and put together again
\* after a step.
LEMMA InvParts ==
    ASSUME SupInv
    PROVE  RowsInScope /\ \A w \in Worker : RunFits(w)
  <1>1. RowsInScope
    BY DEF SupInv, RowsInScope, FirstPlanActs, QuotedHavePlans, ContextStaysInScope
  <1>2. ASSUME NEW w \in Worker, run[w] # Nothing
        PROVE  lease[w] \in Attempt /\ Fits(run[w], lease[w], settings[w])
    BY <1>2 DEF SupInv, TypeOK, RunsHaveLeases, ActingHasPlan, FirstPlanActs,
       ActsAsPermitted, QuotedHavePlans, ContextStaysInScope, Fits, At
  <1> QED  BY <1>1, <1>2 DEF RunFits

LEMMA InvFromParts ==
    ASSUME TypeOK', RankIsFinal', RowsInScope', \A w \in Worker : RunFits(w)'
    PROVE  SupInv'
  <1>1. RunsHaveLeases'
    BY IdleAssumption DEF RunFits, RunsHaveLeases
  <1>2. \A w \in Worker : run'[w] # Nothing => Fits(run[w], lease[w], settings[w])'
    BY DEF RunFits
  <1>3. ActingHasPlan' /\ ActsAsPermitted' /\ FirstPlanActs'
    BY <1>2 DEF RowsInScope, ActingHasPlan, FirstPlanActs, ActsAsPermitted, Fits, At
  <1>4. QuotedHavePlans' /\ ContextStaysInScope'
    BY <1>2 DEF RowsInScope, QuotedHavePlans, ContextStaysInScope, Fits, At
  <1> QED  BY <1>1, <1>3, <1>4 DEF SupInv

\* The turns that bounded_context returns are earlier ones, with a plan made
\* under the permissions of the reader (memory.py:23-25).
LEMMA MemoryInScope ==
    ASSUME TypeOK, NEW t \in Turn, NEW scope, NEW u \in Memory(t, scope)
    PROVE  u \in Turn /\ Before(u, t) /\ plan[u] # Nothing /\ access[u] = scope
  <1>1. u \in Recent(t) /\ \A v \in Recent(t) : ~Before(v, u) => Reusable(v, scope)
    BY DEF Memory
  <1>2. u \in Turn /\ Before(u, t) /\ plan[u] # Nothing
    BY <1>1 DEF Recent, Eligible
  <1>3. received[u] \in 0..MaxStamp
    BY <1>2 DEF TypeOK
  <1>4. ~Before(u, u)
    BY <1>3, StampAssumption DEF Before
  <1> QED
    BY <1>1, <1>2, <1>4 DEF Reusable

\* Ranks that were drawn stay.
RanksKept ==
    \A u, t \in Turn : Before(u, t) => Before(u, t)'

\* Plans and permissions that are only added disturb nobody.
LEMMA OthersFit ==
    ASSUME SupInv, NEW w \in Worker, PlansKept, RanksKept,
           run'[w] = run[w], lease'[w] = lease[w], settings'[w] = settings[w] \/ run[w] = Nothing
    PROVE  RunFits(w)'
  <1> SUFFICES ASSUME run[w] # Nothing PROVE RunFits(w)'
    BY DEF RunFits
  <1>1. RunFits(w)
    BY InvParts
  <1>2. lease[w] \in Attempt /\ Fits(run[w], lease[w], settings[w])
    BY <1>1 DEF RunFits
  <1>3. /\ lease[w].event \in Turn /\ run[w].history \subseteq Turn
        /\ run'[w] = run[w] /\ lease'[w] = lease[w] /\ settings'[w] = settings[w]
    BY <1>2 DEF Attempt, SupInv, TypeOK, Run
  <1>4. run[w].at = "acting" =>
            /\ plan'[lease[w].event] # Nothing /\ run[w].plan = plan'[lease[w].event]
            /\ access'[lease[w].event] = settings[w]
    BY <1>2, <1>3 DEF Fits, PlansKept
  <1>5. ASSUME run[w].at = "asking", NEW u \in run[w].history
        PROVE  Before(u, lease[w].event)' /\ plan'[u] # Nothing /\ access'[u] = settings[w]
    <2>1. u \in Turn /\ Before(u, lease[w].event) /\ plan[u] # Nothing /\ access[u] = settings[w]
      BY <1>2, <1>3, <1>5 DEF Fits
    <2> QED  BY <1>3, <2>1 DEF PlansKept, RanksKept, Before
  <1> QED  BY <1>2, <1>3, <1>4, <1>5 DEF RunFits, Fits, Before

\* One worker moves while plans and ranks are only added.
LEMMA OneWorkerMoves ==
    ASSUME SupInv, NEW w \in Worker,
           \A v \in Worker \ {w} : run'[v] = run[v] /\ lease'[v] = lease[v],
           settings' = settings, TypeOK', RankIsFinal', PlansKept, RanksKept,
           RowsInScope', RunFits(w)'
    PROVE  SupInv'
  <1>1. ASSUME NEW v \in Worker \ {w} PROVE RunFits(v)'
    BY <1>1, OthersFit
  <1>2. \A v \in Worker : RunFits(v)'
    BY <1>1
  <1> QED  BY <1>2, InvFromParts

\* Ranks and rows that do not change stay as they are.
LEMMA RanksStay ==
    ASSUME SupInv, received' = received, \A t \in Turn : status'[t] = "none" => status[t] = "none"
    PROVE  RanksKept /\ RankIsFinal'
  BY DEF SupInv, RanksKept, RankIsFinal, Before

LEMMA RowsStay ==
    ASSUME SupInv, RanksKept, UNCHANGED <<planVars, acted>>
    PROVE  PlansKept /\ RowsInScope'
  <1>1. PlansKept
    BY DEF PlansKept, planVars
  <1>2. RowsInScope /\ context \in [Turn -> SUBSET Turn]
    BY InvParts DEF SupInv, TypeOK
  <1>3. ASSUME NEW t \in Turn, NEW u \in context[t]
        PROVE  Before(u, t)' /\ plan[u] # Nothing /\ access[u] = access[t]
    <2>1. u \in Turn /\ Before(u, t)
      BY <1>2, <1>3 DEF RowsInScope
    <2> QED  BY <1>2, <1>3, <2>1 DEF RowsInScope, RanksKept
  <1> QED  BY <1>1, <1>2, <1>3 DEF RowsInScope, planVars, Before

-----------------------------------------------------------------------------
LEMMA PlansStart == Init => SupInv
  BY AttemptsAssumption, StampAssumption
  DEF Init, TurnInit, SupInv, TypeOK, RunsHaveLeases, RankIsFinal, ActingHasPlan,
      QuotedHavePlans, FirstPlanActs, ActsAsPermitted, ContextStaysInScope, At, TurnStatus

\* A worker takes or leaves a turn: it has asked nothing yet, or rests.
LEMMA WorkerRests ==
    ASSUME SupInv, NEW w \in Worker,
           \A v \in Worker \ {w} : run'[v] = run[v] /\ lease'[v] = lease[v],
           run'[w] # Nothing => lease'[w] \in Attempt /\ run'[w].at \in {"start", "over"},
           TypeOK', received' = received, UNCHANGED <<planVars, settings, acted>>,
           \A t \in Turn : status'[t] = "none" => status[t] = "none"
    PROVE  SupInv'
  <1>1. RanksKept /\ RankIsFinal'
    BY RanksStay
  <1>2. PlansKept /\ RowsInScope'
    BY <1>1, RowsStay
  <1>3. RunFits(w)'
    BY DEF RunFits, Fits
  <1>4. settings' = settings
    OBVIOUS
  <1> QED  BY <1>1, <1>2, <1>3, <1>4, OneWorkerMoves

LEMMA ClaimPreserves ==
    ASSUME SupInv, NEW w \in Worker, NEW t \in Turn, Claim(w, t)
    PROVE  SupInv'
  <1> DEFINE r == [at |-> "start", history |-> {}, plan |-> Nothing, done |-> {},
                   result |-> "none"]
             l == [event |-> t, attempt |-> attempts[t] + 1]
  <1>1. attempts[t] + 1 \in 1..MaxAttempts /\ attempts[t] + 1 \in 0..MaxAttempts
    BY AttemptsAssumption DEF SupInv, TypeOK, Claim, Takes
  <1>2. r \in Run /\ l \in Attempt /\ r.at = "start"
    BY <1>1 DEF Run, Result, Attempt
  <1>3. /\ run' = [run EXCEPT ![w] = r] /\ lease' = [lease EXCEPT ![w] = l]
        /\ UNCHANGED <<received, status, useful, planVars, settings, acted>>
        /\ attempts' = [attempts EXCEPT ![t] = attempts[t] + 1]
    BY DEF Claim, Takes
  <1> HIDE DEF r, l
  <1>4. TypeOK'
    BY <1>1, <1>2, <1>3 DEF SupInv, TypeOK, planVars
  <1>5. /\ run'[w] = r /\ lease'[w] = l
        /\ \A v \in Worker \ {w} : run'[v] = run[v] /\ lease'[v] = lease[v]
    BY <1>3 DEF SupInv, TypeOK
  <1> QED
    BY <1>2, <1>3, <1>4, <1>5, WorkerRests

\* The graph of a worker moves on, its attempt stays.
LEMMA RunMoves ==
    ASSUME SupInv, NEW w \in Worker, run[w] # Nothing, NEW r \in Run,
           run' = [run EXCEPT ![w] = r], UNCHANGED <<turnVars, useful, settings>>,
           plan' \in [Turn -> Plans \union {Nothing}],
           access' \in [Turn -> Scope \union {NoAccess}],
           context' \in [Turn -> SUBSET Turn],
           acted' \in [Turn -> SUBSET Plans],
           PlansKept, RowsInScope',
           r.at = "acting" => /\ plan'[lease[w].event] # Nothing
                              /\ r.plan = plan'[lease[w].event]
                              /\ access'[lease[w].event] = settings[w],
           r.at = "asking" => \A u \in r.history :
                                 /\ Before(u, lease[w].event)
                                 /\ plan'[u] # Nothing /\ access'[u] = settings[w]
    PROVE  SupInv'
  <1>1. TypeOK'
    BY DEF SupInv, TypeOK, turnVars
  <1>2. /\ run'[w] = r /\ lease' = lease /\ received' = received /\ status' = status
        /\ settings' = settings
        /\ \A v \in Worker \ {w} : run'[v] = run[v] /\ lease'[v] = lease[v]
    BY DEF SupInv, TypeOK, turnVars
  <1>3. lease[w] \in Attempt
    BY InvParts DEF RunFits
  <1>4. RunFits(w)'
    BY <1>2, <1>3 DEF RunFits, Fits, Before
  <1>5. RanksKept /\ RankIsFinal'
    BY <1>2, RanksStay
  <1> QED
    BY <1>1, <1>2, <1>4, <1>5, OneWorkerMoves

\* The run of a worker that stops keeps its type.
LEMMA StopPreserves ==
    ASSUME SupInv, NEW w \in Worker, run[w] # Nothing, Stop(w, "useless"),
           UNCHANGED <<turnVars, useful, planVars, settings, acted>>
    PROVE  SupInv'
  <1> DEFINE r == [run[w] EXCEPT !.at = "over", !.result = "useless"]
  <1>1. run[w] \in Run
    BY DEF SupInv, TypeOK
  <1>2. r \in Run /\ r.at = "over"
    BY <1>1 DEF Run, Result
  <1>3. run' = [run EXCEPT ![w] = r]
    BY DEF Stop
  <1>4. RanksKept
    BY DEF RanksKept, Before, turnVars
  <1>5. PlansKept /\ RowsInScope'
    BY <1>4, RowsStay
  <1>6. /\ plan' \in [Turn -> Plans \union {Nothing}]
        /\ access' \in [Turn -> Scope \union {NoAccess}]
        /\ context' \in [Turn -> SUBSET Turn]
        /\ acted' \in [Turn -> SUBSET Plans]
    BY DEF SupInv, TypeOK, planVars
  <1> HIDE DEF r
  <1> QED
    BY <1>2, <1>3, <1>5, <1>6, RunMoves

\* A stored plan is followed under the permissions it was made for only.
LEMMA FollowPreserves ==
    ASSUME SupInv, NEW w \in Worker, run[w] # Nothing,
           NEW p \in Plans, NEW scope, NEW history \in SUBSET Turn,
           Follow(w, p, scope, history),
           UNCHANGED <<turnVars, useful, settings, acted>>,
           plan' \in [Turn -> Plans \union {Nothing}],
           access' \in [Turn -> Scope \union {NoAccess}],
           context' \in [Turn -> SUBSET Turn],
           plan'[lease[w].event] = p, access'[lease[w].event] = scope,
           PlansKept, RowsInScope'
    PROVE  SupInv'
  <1> DEFINE r == IF scope # settings[w]
                  THEN [run[w] EXCEPT !.at = "over", !.result = "useless"]
                  ELSE [run[w] EXCEPT !.at = IF p = {} THEN "over" ELSE "acting",
                                      !.result = IF p = {} THEN "useful" ELSE "none",
                                      !.plan = p, !.history = history]
  <1>1. run[w] \in Run /\ p # Nothing
    BY NothingAssumption DEF SupInv, TypeOK
  <1>2. r \in Run /\ r.at \in {"over", "acting"}
    BY <1>1 DEF Run, Result
  <1>3. r.at = "acting" => r.plan = p /\ scope = settings[w]
    BY <1>1 DEF Run
  <1>4. run' = [run EXCEPT ![w] = r]
    BY DEF Follow
  <1>5. acted' \in [Turn -> SUBSET Plans] /\ UNCHANGED <<turnVars, useful, settings>>
    BY DEF SupInv, TypeOK
  <1> HIDE DEF r
  <1>6. r.at # "asking"
    BY <1>2
  <1> QED
    BY <1>1, <1>2, <1>3, <1>4, <1>5, <1>6, RunMoves

\* The turn of a worker that executes a graph.
LEMMA RunHasTurn ==
    ASSUME SupInv, NEW w \in Worker, run[w] # Nothing
    PROVE  /\ lease[w] \in Attempt /\ lease[w].event \in Turn /\ run[w] \in Run
           /\ Fits(run[w], lease[w], settings[w])
  <1>1. lease[w] \in Attempt /\ Fits(run[w], lease[w], settings[w])
    BY InvParts DEF RunFits
  <1> QED  BY <1>1 DEF Attempt, SupInv, TypeOK

LEMMA ReusePreserves ==
    ASSUME SupInv, NEW w \in Worker, Reuse(w)
    PROVE  SupInv'
  <1> DEFINE t == lease[w].event
  <1>1. run[w] # Nothing
    BY DEF Reuse, At
  <1>2. t \in Turn
    BY <1>1, RunHasTurn
  <1>3. /\ plan[t] \in Plans /\ context[t] \in SUBSET Turn
        /\ Follow(w, plan[t], access[t], context[t])
        /\ UNCHANGED <<turnVars, useful, planVars, settings, acted>>
    BY <1>2 DEF Reuse, SupInv, TypeOK
  <1>4. RanksKept
    BY <1>3 DEF RanksKept, Before, turnVars
  <1>5. PlansKept /\ RowsInScope'
    BY <1>3, <1>4, RowsStay
  <1>6. /\ plan'[t] = plan[t] /\ access'[t] = access[t]
        /\ plan' \in [Turn -> Plans \union {Nothing}]
        /\ access' \in [Turn -> Scope \union {NoAccess}]
        /\ context' \in [Turn -> SUBSET Turn]
    BY <1>3 DEF SupInv, TypeOK, planVars
  <1> HIDE DEF t
  <1> QED
    BY <1>1, <1>3, <1>5, <1>6, FollowPreserves DEF t

LEMMA AskPreserves ==
    ASSUME SupInv, NEW w \in Worker, Ask(w)
    PROVE  SupInv'
  <1> DEFINE t == lease[w].event
  <1>1. run[w] # Nothing
    BY DEF Ask, At
  <1>2. t \in Turn /\ run[w] \in Run /\ TypeOK
    BY <1>1, RunHasTurn DEF SupInv
  <1>3. PICK oldest \in Turn :
            run' = [run EXCEPT ![w].at = "asking",
                               ![w].history = {u \in Memory(t, settings[w]) : ~Before(u, oldest)}]
    BY DEF Ask
  <1> DEFINE h == {u \in Memory(t, settings[w]) : ~Before(u, oldest)}
             r == [run[w] EXCEPT !.at = "asking", !.history = h]
  <1>4. \A u \in h : u \in Turn /\ Before(u, t) /\ plan[u] # Nothing /\ access[u] = settings[w]
    BY <1>2, MemoryInScope
  <1>5. h \in SUBSET Turn
    BY <1>4
  <1>6. UNCHANGED <<turnVars, useful, planVars, settings, acted>> /\ run' = [run EXCEPT ![w] = r]
    BY <1>3 DEF Ask
  <1> HIDE DEF h
  <1>7. r \in Run /\ r.history = h /\ r.at = "asking"
    BY <1>2, <1>5 DEF Run
  <1>8. RanksKept
    BY <1>6 DEF RanksKept, Before, turnVars
  <1>9. PlansKept /\ RowsInScope'
    BY <1>6, <1>8, RowsStay
  <1>10. /\ plan' = plan /\ access' = access
         /\ plan' \in [Turn -> Plans \union {Nothing}]
         /\ access' \in [Turn -> Scope \union {NoAccess}]
         /\ context' \in [Turn -> SUBSET Turn]
         /\ acted' \in [Turn -> SUBSET Plans]
    BY <1>6 DEF SupInv, TypeOK, planVars
  <1>11. \A u \in r.history : /\ Before(u, t)
                              /\ plan'[u] # Nothing /\ access'[u] = settings[w]
    BY <1>4, <1>7, <1>10
  <1> HIDE DEF r
  <1> QED
    BY <1>1, <1>6, <1>7, <1>9, <1>10, <1>11, RunMoves

\* The first plan is stored with the context it was asked with; a later one is
\* dropped for the stored one (supervisor.py:193).
LEMMA SavePlanPreserves ==
    ASSUME SupInv, NEW w \in Worker, SavePlan(w)
    PROVE  SupInv'
  <1> DEFINE t == lease[w].event
             h == run[w].history
  <1>0. run[w] # Nothing /\ run[w].at = "asking"
    BY DEF SavePlan, At
  <1>1. /\ t \in Turn /\ run[w] \in Run /\ h \in SUBSET Turn
        /\ \A u \in h : Before(u, t) /\ plan[u] # Nothing /\ access[u] = settings[w]
    BY <1>0, RunHasTurn DEF Fits, Run
  <1>2. UNCHANGED <<turnVars, useful, settings, acted>> /\ RanksKept
    BY DEF SavePlan, RanksKept, Before, turnVars
  <1>3. CASE plan[t] # Nothing
    <2>1. plan[t] \in Plans /\ context[t] \in SUBSET Turn /\ UNCHANGED planVars
          /\ Follow(w, plan[t], access[t], context[t])
      BY <1>1, <1>3 DEF SavePlan, SupInv, TypeOK
    <2>2. PlansKept /\ RowsInScope'
      BY <1>2, <2>1, RowsStay
    <2>3. /\ plan'[t] = plan[t] /\ access'[t] = access[t]
          /\ plan' \in [Turn -> Plans \union {Nothing}]
          /\ access' \in [Turn -> Scope \union {NoAccess}]
          /\ context' \in [Turn -> SUBSET Turn]
      BY <2>1 DEF planVars, SupInv, TypeOK
    <2> HIDE DEF t, h
    <2> QED
      BY <1>0, <1>2, <2>1, <2>2, <2>3, FollowPreserves DEF t
  <1>4. CASE plan[t] = Nothing
    <2>1. PICK p \in Plans :
              /\ plan' = [plan EXCEPT ![t] = p]
              /\ access' = [access EXCEPT ![t] = settings[w]]
              /\ context' = [context EXCEPT ![t] = h]
              /\ Follow(w, p, settings[w], h)
      BY <1>4 DEF SavePlan
    <2>2. /\ plan'[t] = p /\ access'[t] = settings[w] /\ context'[t] = h
          /\ \A u \in Turn \ {t} :
                plan'[u] = plan[u] /\ access'[u] = access[u] /\ context'[u] = context[u]
      BY <1>1, <2>1 DEF SupInv, TypeOK
    <2>3. PlansKept
      BY <1>4, <2>2 DEF PlansKept
    <2>4. acted[t] = {} /\ p # Nothing
      BY <1>1, <1>4, NothingAssumption DEF SupInv, TypeOK, FirstPlanActs
    <2>5. RowsInScope'
      <3>1. \A u \in Turn : acted'[u] \subseteq {plan'[u]}
        BY <1>2, <2>2, <2>4 DEF SupInv, FirstPlanActs
      <3>2. ASSUME NEW u \in h
            PROVE  Before(u, t)' /\ plan'[u] # Nothing /\ access'[u] = access'[t]
        <4>1. u \in Turn /\ Before(u, t) /\ plan[u] # Nothing /\ access[u] = settings[w]
          BY <1>1, <3>2
        <4>2. received' = received /\ lease' = lease
          BY <1>2 DEF turnVars
        <4> QED
          BY <2>2, <2>3, <4>1, <4>2 DEF PlansKept, Before
      <3>3. ASSUME NEW v \in Turn \ {t}, NEW u \in context[v]
            PROVE  Before(u, v)' /\ plan'[u] # Nothing /\ access'[u] = access'[v]
        <4>1. u \in Turn /\ Before(u, v) /\ plan[u] # Nothing /\ access[u] = access[v]
          BY <3>3 DEF SupInv, TypeOK, QuotedHavePlans, ContextStaysInScope
        <4> QED
          BY <1>2, <2>2, <2>3, <4>1 DEF PlansKept, RanksKept
      <3>4. ASSUME NEW v \in Turn, NEW u \in context'[v]
            PROVE  Before(u, v)' /\ plan'[u] # Nothing /\ access'[u] = access'[v]
        <4>1. CASE v = t
          <5>1. u \in h
            BY <2>2, <3>4, <4>1
          <5>2. lease' = lease /\ received' = received
            BY <1>2 DEF turnVars
          <5> QED  BY <3>2, <4>1, <5>1, <5>2 DEF Before
        <4>2. CASE v # t
          BY <2>2, <3>3, <3>4, <4>2
        <4> QED  BY <4>1, <4>2
      <3> QED
        BY <3>1, <3>4 DEF RowsInScope
    <2>6. settings[w] \in Scope \union {NoAccess}
      BY DEF SupInv, TypeOK
    <2>7. /\ plan' \in [Turn -> Plans \union {Nothing}]
          /\ access' \in [Turn -> Scope \union {NoAccess}]
          /\ context' \in [Turn -> SUBSET Turn]
      BY <1>1, <2>1, <2>6 DEF SupInv, TypeOK
    <2> HIDE DEF t, h
    <2> QED
      BY <1>0, <1>1, <1>2, <2>1, <2>2, <2>3, <2>5, <2>7, FollowPreserves DEF t
  <1> QED
    BY <1>3, <1>4

\* A node runs only for a worker whose plan is the stored one.
LEMMA PerformPreserves ==
    ASSUME SupInv, NEW w \in Worker, Perform(w)
    PROVE  SupInv'
  <1> DEFINE q == run[w]
             t == lease[w].event
  <1>1. q # Nothing /\ q.at = "acting"
    BY DEF Perform, At
  <1>2. /\ q \in Run /\ t \in Turn /\ plan[t] # Nothing /\ q.plan = plan[t]
        /\ access[t] = settings[w]
    BY <1>1, RunHasTurn DEF Fits
  <1>3. q.plan \in Plans
    BY <1>2 DEF SupInv, TypeOK
  <1>4. PICK r \in Run :
            /\ run' = [run EXCEPT ![w] = r]
            /\ r.plan = q.plan /\ r.at \in {"acting", "over"}
    <2>1. PICK n \in DOMAIN Rank, x \in Result :
              run' = [run EXCEPT ![w] =
                  IF x = "useful" /\ q.plan # q.done \union {n}
                  THEN [q EXCEPT !.done = @ \union {n}]
                  ELSE [q EXCEPT !.done = @ \union {n}, !.at = "over", !.result = x]]
      BY DEF Perform, Result
    <2> DEFINE r == IF x = "useful" /\ q.plan # q.done \union {n}
                    THEN [q EXCEPT !.done = @ \union {n}]
                    ELSE [q EXCEPT !.done = @ \union {n}, !.at = "over", !.result = x]
    <2>2. r \in Run /\ r.plan = q.plan /\ r.at \in {"acting", "over"}
      BY <1>1, <1>2 DEF Run
    <2> QED
      BY <2>1, <2>2
  <1>5. /\ acted' = [acted EXCEPT ![t] = @ \union {q.plan}]
        /\ UNCHANGED <<turnVars, useful, planVars, settings>>
    BY DEF Perform
  <1>6. acted' \in [Turn -> SUBSET Plans] /\ \A u \in Turn : acted'[u] \subseteq {plan[u]}
    BY <1>2, <1>3, <1>5 DEF SupInv, TypeOK, FirstPlanActs
  <1>7. PlansKept /\ RowsInScope'
    <2>1. \A u \in Turn : acted'[u] \subseteq {plan'[u]}
      BY <1>5, <1>6 DEF planVars
    <2>2. \A v \in Turn : \A u \in context'[v] :
              Before(u, v)' /\ plan'[u] # Nothing /\ access'[u] = access'[v]
      BY <1>5 DEF SupInv, planVars, turnVars, Before, QuotedHavePlans, ContextStaysInScope
    <2> QED
      BY <1>5, <2>1, <2>2 DEF PlansKept, RowsInScope, planVars
  <1>8. /\ plan' = plan /\ access' = access
        /\ plan' \in [Turn -> Plans \union {Nothing}]
        /\ access' \in [Turn -> Scope \union {NoAccess}]
        /\ context' \in [Turn -> SUBSET Turn]
    BY <1>5 DEF SupInv, TypeOK, planVars
  <1>9. UNCHANGED <<turnVars, useful, settings>> /\ run[w] # Nothing
    BY <1>1, <1>5
  <1>10. /\ r.at = "acting" => /\ plan'[t] # Nothing /\ r.plan = plan'[t]
                               /\ access'[t] = settings[w]
         /\ r.at # "asking"
    BY <1>2, <1>4, <1>8
  <1> HIDE DEF q
  <1> QED
    BY <1>4, <1>6, <1>7, <1>8, <1>9, <1>10, RunMoves

\* What finish may make of the row of a turn.
LEMMA StoresKeepsTypes ==
    ASSUME SupInv, NEW w \in Worker, run' = [run EXCEPT ![w] = Nothing],
           NEW s \in TurnStatus \ {"none"}, Leaves(w) \/ Stores(w, s),
           useful' \in [Turn -> BOOLEAN], UNCHANGED <<planVars, settings, acted>>
    PROVE  SupInv'
  <1>1. /\ run' \in [Worker -> Run \union {Nothing}] /\ lease' \in [Worker -> Attempt \union {Idle}]
        /\ run'[w] = Nothing
        /\ \A v \in Worker \ {w} : run'[v] = run[v] /\ lease'[v] = lease[v]
    BY DEF SupInv, TypeOK, Leaves, Stores
  <1>2. UNCHANGED <<received, attempts>>
    BY DEF Leaves, Stores
  <1>3. /\ status' \in [Turn -> TurnStatus]
        /\ \A t \in Turn : status'[t] = "none" => status[t] = "none"
    BY DEF Leaves, Stores, SupInv, TypeOK
  <1>4. TypeOK'
    BY <1>1, <1>2, <1>3 DEF SupInv, TypeOK, planVars
  <1> QED
    BY <1>1, <1>2, <1>3, <1>4, WorkerRests

LEMMA FinishPreserves ==
    ASSUME SupInv, NEW w \in Worker, Finish(w) \/ Drop(w)
    PROVE  SupInv'
  <1>1. run' = [run EXCEPT ![w] = Nothing] /\ UNCHANGED <<planVars, settings, acted>>
    BY DEF Finish, Drop
  <1>2. PICK s \in TurnStatus \ {"none"} : Leaves(w) \/ Stores(w, s)
    BY DEF Finish, Drop, TurnStatus
  <1>3. useful' \in [Turn -> BOOLEAN]
    BY DEF Finish, Drop, SupInv, TypeOK
  <1> QED
    BY <1>1, <1>2, <1>3, StoresKeepsTypes

\* A job moves without its plan: an acceptance, which draws a new rank,
\* exhaustion, a decision, a delivery.
LEMMA JobMovePreserves ==
    ASSUME SupInv, NEW t \in Turn, JobMovesOn(t)
    PROVE  SupInv'
  <1>1. UNCHANGED <<attempts, lease, useful, planVars, settings, run, acted>>
    BY DEF JobMovesOn, JobMoves, Arrives, GivesUp, Settles
  <1>2. PICK s \in TurnStatus \ {"none"} : status' = [status EXCEPT ![t] = s]
    BY DEF JobMovesOn, JobMoves, Arrives, GivesUp, Settles, SettledAs, TurnStatus
  <1>3. /\ received' \in [Turn -> 0..MaxStamp]
        /\ \A u \in Turn : received[u] # 0 => received'[u] = received[u]
        /\ \A u \in Turn : received'[u] = received[u] \/ u = t
    <2>1. CASE \E n \in 1..MaxStamp : Arrives(t, n)
      BY <2>1, StampAssumption DEF Arrives, SupInv, TypeOK, RankIsFinal
    <2>2. CASE received' = received
      BY <2>2 DEF SupInv, TypeOK
    <2> QED  BY <2>1, <2>2 DEF JobMovesOn, JobMoves, GivesUp, Settles
  <1>4. TypeOK'
    BY <1>1, <1>2, <1>3 DEF SupInv, TypeOK, planVars
  <1>5. RankIsFinal'
    BY <1>2, <1>3 DEF SupInv, TypeOK, RankIsFinal
  <1>6. RanksKept
    <2> SUFFICES ASSUME NEW u \in Turn, NEW v \in Turn, Before(u, v) PROVE Before(u, v)'
      BY DEF RanksKept
    <2>1. received[u] \in 0..MaxStamp /\ received[v] \in 0..MaxStamp
      BY DEF SupInv, TypeOK
    <2>2. received[u] # 0 /\ received[v] # 0
      BY <2>1, StampAssumption DEF Before
    <2> QED  BY <1>3, <2>2 DEF Before
  <1>7. PlansKept /\ RowsInScope'
    BY <1>1, <1>6, RowsStay
  <1>8. \A w \in Worker : RunFits(w)'
    BY <1>1, <1>6, <1>7, OthersFit
  <1> QED
    BY <1>4, <1>5, <1>7, <1>8, InvFromParts

\* A restart changes the permissions of a worker that runs nothing.
LEMMA RestartPreserves ==
    ASSUME SupInv, NEW w \in Worker, Restart(w)
    PROVE  SupInv'
  <1>1. /\ run[w] = Nothing /\ UNCHANGED <<turnVars, useful, planVars, run, acted>>
        /\ settings' \in [Worker -> Scope \union {NoAccess}]
        /\ \A v \in Worker \ {w} : settings'[v] = settings[v]
    BY DEF Restart, SupInv, TypeOK
  <1>2. TypeOK'
    BY <1>1 DEF SupInv, TypeOK, turnVars, planVars
  <1>3. RanksKept /\ RankIsFinal'
    BY <1>1 DEF RanksKept, RankIsFinal, Before, turnVars, SupInv
  <1>4. PlansKept /\ RowsInScope'
    BY <1>1, <1>3, RowsStay
  <1>5. run' = run /\ lease' = lease
    BY <1>1 DEF turnVars
  <1>6. \A v \in Worker : RunFits(v)'
    BY <1>1, <1>3, <1>4, <1>5, OthersFit
  <1> QED
    BY <1>2, <1>3, <1>4, <1>6, InvFromParts

-----------------------------------------------------------------------------
LEMMA StepPreserves == SupInv /\ [Next]_vars => SupInv'
  <1> SUFFICES ASSUME SupInv, [Next]_vars PROVE SupInv'
    OBVIOUS
  <1>1. ASSUME NEW w \in Worker, NEW t \in Turn, Claim(w, t) PROVE SupInv'
    BY <1>1, ClaimPreserves
  <1>2. ASSUME NEW w \in Worker, Refuse(w) \/ RoutingFails(w) PROVE SupInv'
    <2>1. /\ run[w] # Nothing /\ Stop(w, "useless")
          /\ UNCHANGED <<turnVars, useful, planVars, settings, acted>>
      BY <1>2 DEF Refuse, RoutingFails, At
    <2> QED
      BY <2>1, StopPreserves
  <1>3. ASSUME NEW w \in Worker, Reuse(w) \/ Ask(w) \/ SavePlan(w) PROVE SupInv'
    BY <1>3, ReusePreserves, AskPreserves, SavePlanPreserves
  <1>4. ASSUME NEW w \in Worker, Perform(w) \/ Finish(w) \/ Drop(w) \/ Restart(w)
        PROVE  SupInv'
    BY <1>4, PerformPreserves, FinishPreserves, RestartPreserves
  <1>5. ASSUME NEW t \in Turn, JobMovesOn(t) PROVE SupInv'
    BY <1>5, JobMovePreserves
  <1>6. CASE UNCHANGED vars
    BY <1>6 DEF vars, turnVars, planVars, SupInv, TypeOK, RunsHaveLeases, RankIsFinal,
       ActingHasPlan, QuotedHavePlans, FirstPlanActs, ActsAsPermitted, ContextStaysInScope,
       At, Before
  <1> QED
    BY <1>1, <1>2, <1>3, <1>4, <1>5, <1>6 DEF Next, Route

LEMMA SupInvHolds == Spec => []SupInv
  BY PlansStart, StepPreserves, PTL DEF Spec

\* Every variable keeps its type; no turn is attempted more often than the
\* settings allow (jobs.py:62).
THEOREM PlanTypeCorrect == Spec => []TypeOK
  BY SupInvHolds, PTL DEF SupInv

\* However many attempts ask the model, and whatever it answers, one plan per
\* event is ever acted upon (supervisor.py:193).
THEOREM OnePlanActs == Spec => []FirstPlanActs
  BY SupInvHolds, PTL DEF SupInv

\* A plan is acted upon under the permissions it was made for
\* (supervisor.py:277).
THEOREM PlansActAsPermitted == Spec => []ActsAsPermitted
  BY SupInvHolds, PTL DEF SupInv

\* No context crosses a difference of permissions (memory.py:24).
THEOREM ContextsStayInScope == Spec => []ContextStaysInScope
  BY SupInvHolds, PTL DEF SupInv

\* A stored plan, its context and its permissions never change
\* (migrations/005_supervisor.sql:1).
THEOREM PlansAreImmutable == Spec => PlanIsImmutable
  <1>1. SupInv /\ [Next]_vars => [PlansKept]_vars
    <2> SUFFICES ASSUME SupInv, Next PROVE PlansKept \/ UNCHANGED vars
      OBVIOUS
    <2>1. ASSUME NEW w \in Worker, SavePlan(w) PROVE PlansKept
      BY <2>1 DEF SavePlan, PlansKept, planVars, SupInv, TypeOK
    <2>2. CASE UNCHANGED planVars
      BY <2>2 DEF PlansKept, planVars
    <2> QED
      BY <2>1, <2>2 DEF Next, Route, Claim, Refuse, Reuse, Ask, RoutingFails, Perform,
         Finish, Drop, Restart, JobMovesOn, planVars
  <1> QED
    BY <1>1, SupInvHolds, PTL DEF Spec, PlanIsImmutable, PlansKept

\* The graphs take, attempt and leave the turns of their conversation as TurnJobs
\* has it and change nothing else of a job: what is proved here rests on nothing
\* more of the queue (jobs.py:36-134).
THEOREM GraphsKeepTurns == Spec => TurnSpec
  <1>1. Init => TurnInit
    BY DEF Init
  <1>2. ASSUME [Next]_vars PROVE [TurnNext]_turnVars
    <2>1. ASSUME NEW w \in Worker, NEW t \in Turn, Claim(w, t) PROVE TurnNext
      BY <2>1 DEF Claim, TurnNext, WorkerMoves
    <2>2. ASSUME NEW w \in Worker, Finish(w) \/ Drop(w) PROVE TurnNext
      BY <2>2 DEF Finish, Drop, TurnNext, WorkerMoves
    <2>3. ASSUME NEW w \in Worker, Route(w) \/ Perform(w) \/ Restart(w)
          PROVE  UNCHANGED turnVars
      BY <2>3 DEF Route, Refuse, Reuse, Ask, RoutingFails, SavePlan, Perform, Restart
    <2>4. ASSUME NEW t \in Turn, JobMovesOn(t) PROVE TurnNext
      BY <2>4 DEF JobMovesOn, TurnNext
    <2>5. CASE UNCHANGED vars
      BY <2>5 DEF vars
    <2> QED  BY <1>2, <2>1, <2>2, <2>3, <2>4, <2>5 DEF Next
  <1> QED  BY <1>1, <1>2, PTL DEF Spec, TurnSpec

=============================================================================
