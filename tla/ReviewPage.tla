----------------------------- MODULE ReviewPage -----------------------------
(***************************************************************************)
(* The review page in one browser tab: review/static/app.js against the    *)
(* routes of review/api.py.  Its handlers are asynchronous: each is cut at *)
(* its awaits, so that clicks, timer ticks and answers of other calls run  *)
(* between a request and what the page does with the answer.               *)
(*                                                                         *)
(* A call records which function awaits it.  Counting detailVersion or     *)
(* listVersion up makes the calls before it "outdated", whatever they read: *)
(* their answers are dropped, unless they are a 401.                       *)
(***************************************************************************)
EXTENDS Integers, FiniteSets

CONSTANTS
    Proposal,   \* the proposals of the list
    None,       \* nothing selected, no dialog
    Linked,     \* the proposal the address of the page names, or None
    MaxLogins,  \* bound: sessions the server opens
    MaxCalls    \* bound: calls under way when the user starts another

ASSUME PageAssumption ==
    /\ None \notin Proposal
    /\ Linked \in Proposal \union {None}
    /\ MaxLogins \in Nat \ {0}
    /\ MaxCalls \in Nat

VARIABLES
    settled,       \* server: proposals that were decided or have expired
    cookie,        \* server: the session the cookie stands for, 0 once invalid
    logins,        \* server: sessions opened so far
    session,       \* page: the session it is showing, 0 on the login view
    selected,      \* page: the data in proposal-detail: id, open, the session it
                   \* was read as, and by a "detail" or a "decide" call
    actions,       \* page: decision-actions is not hidden
    listed,        \* page: the session whose list it shows, 0 for none
    dialog,        \* page: the proposal confirm-dialog shows, None when closed
    confirmation,  \* page: the decision that will be sent
    sent,          \* history: the requests for a decision that the open dialog
                   \* has sent, which calls, a set, could not tell apart
    submitting, refreshing,
    starting,      \* page: the button of the login form is disabled
    calls          \* requests whose answer a function awaits: op, the chain of
                   \* awaits it is part of ("user", a click; "refresh"; "load", the
                   \* start of the page; "start", the login form), the proposal, the
                   \* session it is made as, and the reply once the server gave it

serverVars == <<settled, cookie, logins>>
viewVars == <<session, selected, actions, listed>>
dialogVars == <<dialog, confirmation, sent>>
vars == <<serverVars, viewVars, dialogVars, submitting, refreshing, starting, calls>>

\* The page is being loaded, with or without a valid cookie.
Init ==
    /\ settled = {}
    /\ cookie \in {0, 1}
    /\ logins = 1
    /\ session = 0
    /\ selected = None
    /\ actions = TRUE
    /\ listed = 0
    /\ dialog = None
    /\ confirmation = None
    /\ sent = 0
    /\ submitting = FALSE
    /\ refreshing = FALSE
    /\ starting = FALSE
    /\ calls = {[op |-> "session", chain |-> "load", id |-> None, as |-> cookie,
                 reply |-> "none"]}

-----------------------------------------------------------------------------
\* fetch: the browser adds the cookie it has.  A new detail or list call makes
\* those before it outdated.
NewCall(o, chain, p) ==
    [op |-> o, chain |-> chain, id |-> p, as |-> cookie, reply |-> "none"]

Outdated(c) ==
    [c EXCEPT !.op = "outdated", !.id = None,
              !.reply = IF @ \in {"open", "settled"} THEN "ok" ELSE @]

Outdate(ops, cs) == {IF c.op \in ops THEN Outdated(c) ELSE c : c \in cs}

Send(o, chain, p, others) ==
    calls' = (IF o \in {"detail", "list"} THEN Outdate({o}, others) ELSE others)
             \union {NewCall(o, chain, p)}

\* Mutant: a refresh that returns early or fails stays marked as running.
EndsWithoutFinally(c) ==
    /\ calls' = calls \ {c}
    /\ starting' = (starting /\ c.chain # "start")
    /\ UNCHANGED refreshing

\* The await returns to a function that calls nothing else.
Ends(c) ==
    /\ calls' = calls \ {c}
    /\ refreshing' = (refreshing /\ c.chain # "refresh")
    /\ starting' = (starting /\ c.chain # "start")

\* Mutant: the login view keeps the numbers of the calls under way.
ForgetVersions(cs) == cs

\* showLogin counts both versions up.
AllOutdated(cs) == Outdate({"detail", "list"}, cs)

\* showLogin, when the call c brought a 401 or ended the session.
ShowLogin(c) ==
    /\ session' = 0
    /\ selected' = None
    /\ listed' = 0
    /\ dialog' = None
    /\ confirmation' = None
    /\ sent' = 0
    /\ calls' = AllOutdated(calls \ {c})
    /\ refreshing' = (refreshing /\ c.chain # "refresh")
    /\ starting' = (starting /\ c.chain # "start")
    /\ UNCHANGED actions

Render(p, open, c) ==
    /\ selected' = [id |-> p, open |-> open, as |-> c.as, by |-> c.op]
    /\ actions' = open

-----------------------------------------------------------------------------
\* The workspace can be clicked: it is shown and no modal dialog covers it.
Clickable == session # 0 /\ dialog = None

\* Mutant: the actions of the proposal before stay until the answer is there.
SelectKeepsActions(p) ==
    /\ Clickable
    /\ listed # 0
    /\ Cardinality(calls) < MaxCalls
    /\ Send("detail", "user", p, calls)
    /\ UNCHANGED <<session, selected, actions, listed, serverVars, dialogVars>>
    /\ UNCHANGED <<submitting, refreshing, starting>>

\* selectProposal, from a row of the list.
Select(p) ==
    /\ Clickable
    /\ listed # 0
    /\ Cardinality(calls) < MaxCalls
    /\ Send("detail", "user", p, calls)
    /\ actions' = FALSE
    /\ UNCHANGED <<session, selected, listed, serverVars, dialogVars>>
    /\ UNCHANGED <<submitting, refreshing, starting>>

\* Another filter or another page.
Browse ==
    /\ Clickable
    /\ Cardinality(calls) < MaxCalls
    /\ Send("list", "user", None, calls)
    /\ UNCHANGED <<serverVars, viewVars, dialogVars, submitting, refreshing, starting>>

\* What refresh sends: the detail first, or only the list.
SendRefresh(view, others) ==
    IF view = None THEN Send("list", "refresh", None, others)
    ELSE Send("detail", "refresh", view.id, others)

\* refresh, from its button or every 15 seconds.
Refresh ==
    /\ session # 0 /\ ~refreshing /\ ~submitting /\ dialog = None
    /\ refreshing' = TRUE
    /\ SendRefresh(selected, calls)
    /\ UNCHANGED <<serverVars, viewVars, dialogVars, submitting, starting>>

\* confirmDecision freezes what the dialog shows.
OpenDialog ==
    /\ Clickable
    /\ selected # None
    /\ selected.open /\ actions
    /\ dialog' = selected.id
    /\ confirmation' = selected.id
    /\ sent' = 0
    /\ UNCHANGED <<serverVars, viewVars, submitting, refreshing, starting, calls>>

\* Neither the button nor the Escape key while a decision is being sent.
Cancel ==
    /\ dialog # None
    /\ ~submitting
    /\ dialog' = None
    /\ sent' = 0
    /\ UNCHANGED <<confirmation, serverVars, viewVars, submitting, refreshing, starting, calls>>

SendDecision ==
    /\ Send("decide", "user", confirmation, calls)
    /\ sent' = sent + 1

\* Mutant: a second click is not told from the first.
ConfirmAgain ==
    /\ dialog # None
    /\ confirmation # None
    /\ submitting' = TRUE
    /\ SendDecision
    /\ UNCHANGED <<dialog, confirmation, serverVars, viewVars, refreshing, starting>>

Confirm ==
    /\ dialog # None
    /\ ~submitting
    /\ confirmation # None
    /\ submitting' = TRUE
    /\ SendDecision
    /\ UNCHANGED <<dialog, confirmation, serverVars, viewVars, refreshing, starting>>

Logout ==
    /\ Clickable
    /\ Cardinality(calls) < MaxCalls
    /\ Send("logout", "user", None, calls)
    /\ UNCHANGED <<serverVars, viewVars, dialogVars, submitting, refreshing, starting>>

\* The login form is shown unless the page is still loading.
Login ==
    /\ session = 0
    /\ ~starting
    /\ \A c \in calls : ~(c.chain = "load" /\ c.op = "session")
    /\ starting' = TRUE
    /\ Send("login", "start", None, calls)
    /\ UNCHANGED <<serverVars, viewVars, dialogVars, submitting, refreshing>>

-----------------------------------------------------------------------------
Replied(c, r) == calls' = (calls \ {c}) \union {[c EXCEPT !.reply = r]}

\* identity refuses a session that has ended or was rotated by a later login.
Deny(c) ==
    /\ c.op # "login"
    /\ c.as # cookie \/ cookie = 0
    /\ Replied(c, "denied")
    /\ UNCHANGED serverVars

ServeRead(c) ==
    /\ c.op \in {"detail", "list", "outdated", "session"}
    /\ c.as = cookie /\ cookie # 0
    /\ Replied(c, IF c.op # "detail" THEN "ok"
                  ELSE IF c.id \in settled THEN "settled" ELSE "open")
    /\ UNCHANGED serverVars

\* A decision settles a proposal, or finds it past its time and settles that.  The
\* same decision again, or one on an expired proposal, is answered with what was
\* settled.  A refusal (decision_conflict for the other decision, or a job that is
\* not ready) leaves the proposal as it is: DecisionLost.
ServeDecision(c) ==
    /\ c.op = "decide"
    /\ c.as = cookie /\ cookie # 0
    /\ settled' = settled \union {c.id}
    /\ Replied(c, "settled")
    /\ UNCHANGED <<cookie, logins>>

ServeLogin(c) ==
    /\ c.op = "login"
    /\ logins < MaxLogins
    /\ logins' = logins + 1
    /\ cookie' = logins + 1
    /\ Replied(c, "ok")
    /\ UNCHANGED settled

ServeLogout(c) ==
    /\ c.op = "logout"
    /\ c.as = cookie /\ cookie # 0
    /\ cookie' = 0
    /\ Replied(c, "ok")
    /\ UNCHANGED <<settled, logins>>

Serve(c) ==
    /\ c.reply = "none"
    /\ Deny(c) \/ ServeRead(c) \/ ServeDecision(c) \/ ServeLogin(c) \/ ServeLogout(c)
    /\ UNCHANGED <<viewVars, dialogVars, submitting, refreshing, starting>>

\* Somebody else decides, or the proposal expires.
SettledElsewhere(p) ==
    /\ p \notin settled
    /\ settled' = settled \union {p}
    /\ UNCHANGED <<cookie, logins, viewVars, dialogVars>>
    /\ UNCHANGED <<submitting, refreshing, starting, calls>>

\* The hour of the session ends, or the account is reset or disabled.
SessionEnds ==
    /\ cookie # 0
    /\ cookie' = 0
    /\ UNCHANGED <<settled, logins, viewVars, dialogVars>>
    /\ UNCHANGED <<submitting, refreshing, starting, calls>>

-----------------------------------------------------------------------------
\* 401: api shows the login view, then throws.
Denied(c) ==
    /\ c.reply = "denied"
    /\ ShowLogin(c)
    /\ submitting' = (submitting /\ c.op # "decide")
    /\ UNCHANGED serverVars

\* The page no longer waits for this answer.
OutdatedAnswer(c) ==
    /\ c.op = "outdated" /\ c.reply = "ok"
    /\ Ends(c)
    /\ UNCHANGED <<serverVars, viewVars, dialogVars, submitting>>

\* selectProposal, after its await.
SelectAnswer(c) ==
    /\ c.op = "detail" /\ c.chain # "refresh"
    /\ c.reply \in {"open", "settled"}
    /\ IF session # 0
       THEN /\ Render(c.id, c.reply = "open", c)
            /\ Send("list", c.chain, None, calls \ {c})
            /\ UNCHANGED <<refreshing, starting>>
       ELSE Ends(c) /\ UNCHANGED <<selected, actions>>
    /\ UNCHANGED <<session, listed, serverVars, dialogVars, submitting>>

\* Mutant: a refresh is shown whatever the reviewer did meanwhile.
RefreshAnywhere == session # 0

\* A refresh does not touch what an open dialog is about.
ShowsRefresh == session # 0 /\ dialog = None

\* refresh, after its first await: equal data is not rendered again, so that
\* hidden actions stay hidden.
RefreshAnswer(c) ==
    /\ c.op = "detail" /\ c.chain = "refresh"
    /\ c.reply \in {"open", "settled"}
    /\ LET open == c.reply = "open"
       IN  IF ShowsRefresh
           THEN /\ IF <<selected.id, selected.open>> # <<c.id, open>>
                   THEN Render(c.id, open, c) ELSE UNCHANGED <<selected, actions>>
                /\ Send("list", "refresh", None, calls \ {c})
                /\ UNCHANGED <<refreshing, starting>>
           ELSE Ends(c) /\ UNCHANGED <<selected, actions>>
    /\ UNCHANGED <<session, listed, serverVars, dialogVars, submitting>>

\* loadList, after its await.
ListAnswer(c) ==
    /\ c.op = "list" /\ c.reply = "ok"
    /\ listed' = IF session # 0 THEN c.as ELSE listed
    /\ Ends(c)
    /\ UNCHANGED <<session, selected, actions, serverVars, dialogVars, submitting>>

LoginAnswer(c) ==
    /\ c.op = "login" /\ c.reply = "ok"
    /\ Send("session", "start", None, calls \ {c})
    /\ UNCHANGED <<serverVars, viewVars, dialogVars, submitting, refreshing, starting>>

\* startSession opens the proposal of the address, or the list.
SessionAnswer(c) ==
    /\ c.op = "session" /\ c.reply = "ok"
    /\ session' = c.as
    /\ IF Linked = None
       THEN Send("list", c.chain, None, calls \ {c}) /\ UNCHANGED actions
       ELSE Send("detail", c.chain, Linked, calls \ {c}) /\ actions' = FALSE
    /\ UNCHANGED <<selected, listed, serverVars, dialogVars>>
    /\ UNCHANGED <<submitting, refreshing, starting>>

LogoutAnswer(c) ==
    /\ c.op = "logout" /\ c.reply = "ok"
    /\ ShowLogin(c)
    /\ UNCHANGED <<serverVars, submitting>>

\* The finally block of the confirmation; refresh returns at once on the login
\* view or beside another refresh.
EndDecision(c) ==
    /\ submitting' = FALSE
    /\ confirmation' = None
    /\ dialog' = None
    /\ sent' = 0
    /\ IF session # 0 /\ ~refreshing
       THEN SendRefresh(selected', calls \ {c}) /\ refreshing' = TRUE
       ELSE calls' = calls \ {c} /\ UNCHANGED refreshing
    /\ UNCHANGED <<session, listed, starting>>

DecisionAnswer(c) ==
    /\ c.op = "decide" /\ c.reply = "settled"
    /\ IF session # 0 THEN Render(c.id, FALSE, c) ELSE UNCHANGED <<selected, actions>>
    /\ EndDecision(c)
    /\ UNCHANGED serverVars

\* The answer is lost or late, or it is a refusal other than 401.
DecisionLost(c) ==
    /\ c.op = "decide" /\ c.reply # "denied"
    /\ UNCHANGED <<selected, actions>>
    /\ EndDecision(c)
    /\ UNCHANGED serverVars

\* A timeout, a lost answer or a refusal other than 401.  A login whose answer is
\* lost has rotated the session whose cookie the browser keeps.
Fail(c) ==
    /\ c.op # "decide" /\ c.reply # "denied"
    /\ IF c.chain = "load" THEN ShowLogin(c) ELSE Ends(c) /\ UNCHANGED <<viewVars, dialogVars>>
    /\ cookie' = IF c.op = "login" /\ c.reply = "ok" THEN 0 ELSE cookie
    /\ UNCHANGED <<settled, logins, submitting>>

-----------------------------------------------------------------------------
Answer(c) ==
    \/ Denied(c) \/ OutdatedAnswer(c) \/ SelectAnswer(c) \/ RefreshAnswer(c) \/ ListAnswer(c)
    \/ LoginAnswer(c) \/ SessionAnswer(c) \/ LogoutAnswer(c)
    \/ DecisionAnswer(c) \/ DecisionLost(c) \/ Fail(c)

UserStep ==
    \/ \E p \in Proposal : Select(p)
    \/ Browse \/ OpenDialog \/ Cancel \/ Confirm \/ Logout \/ Login

Next ==
    \/ UserStep
    \/ Refresh
    \/ \E c \in calls : Serve(c) \/ Answer(c)
    \/ \E p \in Proposal : SettledElsewhere(p)
    \/ SessionEnds

Spec == Init /\ [][Next]_vars

\* The timer ticks while the page is visible; the call of a refresh or a decision
\* ends, by its abort signal if by nothing else; somebody who opens the dialog
\* closes it.  The server does not fail every refresh, and is not for ever slower
\* than the reviewer's hand.
RefreshIsServed ==
    \E c \in calls : c.op = "detail" /\ c.chain = "refresh" /\ ShowsRefresh /\ Serve(c)

RefreshIsShown == \E c \in calls : ShowsRefresh /\ RefreshAnswer(c)

PageFairness ==
    /\ SF_vars(Refresh)
    /\ WF_vars(\E c \in calls : c.chain = "refresh" /\ Answer(c))
    /\ WF_vars(\E c \in calls : c.op = "decide" /\ Answer(c))
    /\ WF_vars(Cancel \/ Confirm)
    /\ SF_vars(RefreshIsServed)
    /\ SF_vars(RefreshIsShown)

FairSpec == Spec /\ PageFairness

-----------------------------------------------------------------------------
\* While the confirmation is open, the page behind it shows the very proposal it
\* is about, still open to decision, whatever answers come in (app.js:287, 300
\* and 314).
DialogIsAboutSelection ==
    dialog # None =>
        /\ confirmation = dialog
        /\ selected # None
        /\ selected.id = dialog /\ selected.open

\* A confirmation sends its decision once, for the proposal it shows, and while
\* no other decision is under way: a second click, a new login with its own dialog
\* or a refresh sends none.  Every decision under way after a step was so before
\* and the step sent nothing, or it is the first of the open dialog (app.js:380).
OneDecisionAtATime ==
    [][\A c \in calls' : c.op = "decide" =>
          \/ /\ sent' <= sent
             /\ \E d \in calls : d.op = "decide" /\ d.id = c.id
          \/ /\ sent = 0 /\ sent' = 1 /\ c.id = dialog
             /\ \A d \in calls : d.op # "decide"]_vars

\* A page that was handed to another reviewer shows no data read for the one
\* before, although his requests may still be answered (app.js:57, 117 and 289).
\* The answer to a decision is the exception: it has no version (app.js:391).
DataIsOfTheSession ==
    /\ listed # 0 => listed = session
    /\ selected # None => selected.as = session \/ selected.by = "decide"

\* A proposal that was settled elsewhere, or whose answer was lost, does not stay
\* on display as open to decision (app.js:293 and 400).
StaleOffer(p) == selected # None /\ selected.id = p /\ selected.open /\ p \in settled

OfferIsWithdrawn == \A p \in Proposal : StaleOffer(p) ~> ~StaleOffer(p)

=============================================================================
