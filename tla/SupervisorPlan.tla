--------------------------- MODULE SupervisorPlan ---------------------------
(***************************************************************************)
(* The Supervisor over the turns of one private conversation:              *)
(* supervisor.py, which asks a language model for a plan once per event    *)
(* and then carries it out, and memory.py, which chooses the earlier turns *)
(* that the model is shown.  The language model is external: it may answer *)
(* every attempt with another plan.  The jobs of the turns move as         *)
(* TurnJobs lets them.                                                     *)
(***************************************************************************)
EXTENDS TurnJobs, FiniteSets

CONSTANTS
    Scope,        \* permission fingerprints with some access
    NoAccess,     \* the fingerprint of a user without roles
    Plans,        \* plans the model may answer with, as sets of nodes
    MaxTurns,     \* memory.MAX_TURNS (4)
    Nothing       \* no plan, no run

Rank == [rag |-> 1, read |-> 2, propose |-> 3]

ASSUME PlansAssumption == Plans \subseteq SUBSET DOMAIN Rank
ASSUME AttemptsAssumption == MaxAttempts \in Nat \ {0}
ASSUME StampAssumption == MaxStamp \in Nat

VARIABLES
    useful,     \* the outcome of the result is one of REMEMBERED_OUTCOMES
    plan,       \* supervisor_plans.plan; {} asks for a clarification
    access,     \* supervisor_plans.access_fingerprint
    context,    \* supervisor_plans.context, as the turns it quotes
    settings,   \* the permissions a worker was started with
    run,        \* the graph a worker is executing for its attempt
    acted       \* history: the plans that led to a search, a read or a proposal

planVars == <<plan, access, context>>
vars == <<turnVars, useful, planVars, settings, run, acted>>

Result == {"none", "useful", "useless", "awaiting_approval"}
Run == [at : {"start", "asking", "acting", "over"},
        history : SUBSET Turn, plan : Plans \union {Nothing},
        done : SUBSET DOMAIN Rank, result : Result]

ASSUME NothingAssumption == Nothing \notin Plans /\ Nothing \notin Run
ASSUME IdleAssumption == Idle \notin Attempt

Init ==
    /\ TurnInit
    /\ useful = [t \in Turn |-> FALSE]
    /\ plan = [t \in Turn |-> Nothing]
    /\ access = [t \in Turn |-> NoAccess]
    /\ context = [t \in Turn |-> {}]
    /\ settings \in [Worker -> Scope]
    /\ run = [w \in Worker |-> Nothing]
    /\ acted = [t \in Turn |-> {}]

At(w, place) == run[w] # Nothing /\ run[w].at = place

-----------------------------------------------------------------------------
\* The rows of ConversationMemory.load: the newest MaxTurns turns that have a
\* plan and whose job is completed or awaits a decision.
Eligible(t) ==
    {u \in Turn : /\ Before(u, t)
                  /\ plan[u] # Nothing
                  /\ status[u] \in {"completed", "awaiting_approval"}}

Recent(t) ==
    {u \in Eligible(t) : Cardinality({v \in Eligible(t) : Before(u, v)}) < MaxTurns}

\* Mutant: the permissions of an earlier turn are not compared.
AnyAccess(u, scope) == useful[u]

Reusable(u, scope) == access[u] = scope /\ useful[u]

\* bounded_context: newest first, down to the first turn that is not reusable.
Memory(t, scope) ==
    {u \in Recent(t) : \A v \in Recent(t) : ~Before(v, u) => Reusable(v, scope)}

-----------------------------------------------------------------------------
\* A worker begins the graph with its attempt.
Claim(w, t) ==
    /\ Takes(w, t)
    /\ run' = [run EXCEPT ![w] =
           [at |-> "start", history |-> {}, plan |-> Nothing, done |-> {}, result |-> "none"]]
    /\ UNCHANGED <<useful, planVars, settings, acted>>

Stop(w, result) ==
    run' = [run EXCEPT ![w].at = "over", ![w].result = result]

\* No access, a request that is too long, no key for the model: no plan.
Refuse(w) ==
    /\ At(w, "start")
    /\ Stop(w, "useless")
    /\ UNCHANGED <<turnVars, useful, planVars, settings, acted>>

\* What follows a stored plan: it is carried out under the permissions it was
\* made for, and a plan without nodes is a clarification.
Follow(w, p, scope, history) ==
    run' = [run EXCEPT ![w] =
        IF scope # settings[w]
        THEN [@ EXCEPT !.at = "over", !.result = "useless"]
        ELSE [@ EXCEPT !.at = IF p = {} THEN "over" ELSE "acting",
                       !.result = IF p = {} THEN "useful" ELSE "none",
                       !.plan = p, !.history = history]]

\* Mutant: a stored plan is reused without a look at its permissions.
FollowAnyAccess(w, p, scope, history) ==
    run' = [run EXCEPT ![w] =
        [@ EXCEPT !.at = IF p = {} THEN "over" ELSE "acting",
                  !.result = IF p = {} THEN "useful" ELSE "none",
                  !.plan = p, !.history = history]]

\* Mutant: FollowAnyAccess in place of Follow for a plan found at the start.
ReuseAnyAccess(w) ==
    LET t == lease[w].event
    IN  /\ At(w, "start")
        /\ settings[w] # NoAccess
        /\ plan[t] # Nothing
        /\ FollowAnyAccess(w, plan[t], access[t], context[t])
        /\ UNCHANGED <<turnVars, useful, planVars, settings, acted>>

Reuse(w) ==
    LET t == lease[w].event
    IN  /\ At(w, "start")
        /\ settings[w] # NoAccess
        /\ plan[t] # Nothing
        /\ Follow(w, plan[t], access[t], context[t])
        /\ UNCHANGED <<turnVars, useful, planVars, settings, acted>>

\* No plan yet: the memory is read and the model is asked.  The bound on the
\* bytes of the context may drop its oldest turns.
Ask(w) ==
    LET t == lease[w].event
    IN  /\ At(w, "start")
        /\ settings[w] # NoAccess
        /\ plan[t] = Nothing
        /\ \E oldest \in Turn :
              run' = [run EXCEPT ![w].at = "asking",
                                 ![w].history = {u \in Memory(t, settings[w]) :
                                                     ~Before(u, oldest)}]
        /\ UNCHANGED <<turnVars, useful, planVars, settings, acted>>

\* The model fails, refuses or answers with a plan that does not bind.
RoutingFails(w) ==
    /\ At(w, "asking")
    /\ Stop(w, "useless")
    /\ UNCHANGED <<turnVars, useful, planVars, settings, acted>>

\* Mutant: the attempt goes on with the plan it asked for.
SaveAndFollowOwn(w) ==
    LET t == lease[w].event
    IN  /\ At(w, "asking")
        /\ \E p \in Plans :
              /\ IF plan[t] = Nothing
                 THEN /\ plan' = [plan EXCEPT ![t] = p]
                      /\ access' = [access EXCEPT ![t] = settings[w]]
                      /\ context' = [context EXCEPT ![t] = run[w].history]
                 ELSE UNCHANGED planVars
              /\ Follow(w, p, settings[w], run[w].history)
        /\ UNCHANGED <<turnVars, useful, settings, acted>>

\* PlanStore.save: ON CONFLICT DO NOTHING, then the stored row is read back.
SavePlan(w) ==
    LET t == lease[w].event
    IN  /\ At(w, "asking")
        /\ IF plan[t] = Nothing
           THEN \E p \in Plans :
                   /\ plan' = [plan EXCEPT ![t] = p]
                   /\ access' = [access EXCEPT ![t] = settings[w]]
                   /\ context' = [context EXCEPT ![t] = run[w].history]
                   /\ Follow(w, p, settings[w], run[w].history)
           ELSE /\ Follow(w, plan[t], access[t], context[t])
                /\ UNCHANGED planVars
        /\ UNCHANGED <<turnVars, useful, settings, acted>>

-----------------------------------------------------------------------------
\* next_step: the first node of the plan that has no result yet.
NextNode(r, n) ==
    /\ n \in r.plan \ r.done
    /\ \A m \in r.plan \ r.done : Rank[m] >= Rank[n]

\* A node runs; any result but "answered" and "read_completed" ends the graph,
\* and so does the last node.
Perform(w) ==
    LET r == run[w]
    IN  /\ At(w, "acting")
        /\ \E n \in DOMAIN Rank :
              /\ NextNode(r, n)
              /\ \E x \in IF n = "propose" THEN {"awaiting_approval", "useful", "useless"}
                          ELSE {"useful", "useless"} :
                    run' = [run EXCEPT ![w] =
                        IF x = "useful" /\ r.plan # r.done \union {n}
                        THEN [r EXCEPT !.done = @ \union {n}]
                        ELSE [r EXCEPT !.done = @ \union {n}, !.at = "over", !.result = x]]
        /\ acted' = [acted EXCEPT ![lease[w].event] = @ \union {r.plan}]
        /\ UNCHANGED <<turnVars, useful, planVars, settings>>

\* The result is stored if this is still the latest attempt.
Finish(w) ==
    /\ At(w, "over")
    /\ Stores(w, IF run[w].result = "awaiting_approval" THEN "awaiting_approval" ELSE "completed")
    /\ useful' = [useful EXCEPT ![lease[w].event] = run[w].result # "useless"]
    /\ run' = [run EXCEPT ![w] = Nothing]
    /\ UNCHANGED <<planVars, settings, acted>>

\* A crash, an error or a timeout, a lost lease: no result is stored.  The last
\* attempt fails the job, and so does an event that cannot be read.
Drop(w) ==
    /\ \/ Leaves(w)
       \/ Stores(w, "failed") /\ (lease[w].attempt = MaxAttempts \/ At(w, "start"))
    /\ run' = [run EXCEPT ![w] = Nothing]
    /\ UNCHANGED <<useful, planVars, settings, acted>>

\* Acceptances, exhausted attempts, decisions and deliveries.
JobMovesOn(t) == JobMoves(t) /\ UNCHANGED <<useful, planVars, settings, run, acted>>

\* A worker is restarted with other roles.
Restart(w) ==
    /\ run[w] = Nothing
    /\ \E s \in (Scope \union {NoAccess}) \ {settings[w]} :
          settings' = [settings EXCEPT ![w] = s]
    /\ UNCHANGED <<turnVars, useful, planVars, run, acted>>

-----------------------------------------------------------------------------
Route(w) == Refuse(w) \/ Reuse(w) \/ Ask(w) \/ RoutingFails(w) \/ SavePlan(w)

Next ==
    \/ \E w \in Worker :
          \/ \E t \in Turn : Claim(w, t)
          \/ Route(w) \/ Perform(w) \/ Finish(w) \/ Drop(w) \/ Restart(w)
    \/ \E t \in Turn : JobMovesOn(t)

Spec == Init /\ [][Next]_vars

-----------------------------------------------------------------------------
\* Every variable has its type; the nodes done are nodes of the plan.
TypeOK ==
    /\ received \in [Turn -> 0..MaxStamp]
    /\ status \in [Turn -> TurnStatus]
    /\ attempts \in [Turn -> 0..MaxAttempts]
    /\ lease \in [Worker -> Attempt \union {Idle}]
    /\ useful \in [Turn -> BOOLEAN]
    /\ plan \in [Turn -> Plans \union {Nothing}]
    /\ access \in [Turn -> Scope \union {NoAccess}]
    /\ context \in [Turn -> SUBSET Turn]
    /\ settings \in [Worker -> Scope \union {NoAccess}]
    /\ run \in [Worker -> Run \union {Nothing}]
    /\ acted \in [Turn -> SUBSET Plans]

\* "Competing retries use the first committed plan before any business
\* operation" (supervisor.py:193): whatever the model answers to a retry or to a
\* worker that lost its lease, one plan per event is ever acted upon.
FirstPlanActs ==
    /\ \A t \in Turn : acted[t] \subseteq {plan[t]}
    /\ \A w \in Worker : At(w, "acting") => run[w].plan = plan[lease[w].event]

\* A plan is acted upon only under the permissions it was made for, though
\* workers are restarted with other roles between attempts (supervisor.py:277).
ActsAsPermitted ==
    \A w \in Worker : At(w, "acting") => access[lease[w].event] = settings[w]

\* "A routing decision is immutable per event, including across worker retries"
\* (migrations/005_supervisor.sql:1), with its context and its permissions.
PlanIsImmutable ==
    [][\A t \in Turn :
          plan[t] # Nothing =>
              plan'[t] = plan[t] /\ access'[t] = access[t] /\ context'[t] = context[t]]_vars

\* Nothing from a turn under other permissions reaches the model or is kept as
\* the context of a plan, even when both are written by different attempts
\* (memory.py:24).
ContextStaysInScope ==
    /\ \A t \in Turn : \A u \in context[t] : Before(u, t) /\ access[u] = access[t]
    /\ \A w \in Worker :
          At(w, "asking") => \A u \in run[w].history : access[u] = settings[w]

\* docs/development.md:392: "ou une empreinte de rôles différente coupe la
\* remontée dans cet historique."  No turn planned under other permissions lies
\* between a turn that the model is shown and the one it is asked about.
OtherAccessCuts ==
    \A w \in Worker : At(w, "asking") =>
        \A u \in run[w].history, v \in Turn :
            Before(u, v) /\ Before(v, lease[w].event) /\ plan[v] # Nothing =>
                access[v] = settings[w]

=============================================================================
