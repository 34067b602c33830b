--------------------------- MODULE ReviewPageProofs ---------------------------
(***************************************************************************)
(* The review page, for any proposals, sessions and calls under way.  The  *)
(* invariant says what a call that is still awaited means for the page:    *)
(* which session it was made for, what it keeps hidden, and that the calls *)
(* which would change the same thing are never two.                        *)
(***************************************************************************)
EXTENDS ReviewPage, TLAPS

Op == {"session", "login", "logout", "detail", "list", "decide", "outdated"}
Chain == {"user", "refresh", "load", "start"}
Reply == {"none", "denied", "ok", "open", "settled"}
Session == 0..MaxLogins

Call == [op : Op, chain : Chain, id : Proposal \union {None}, as : Session, reply : Reply]
View == [id : Proposal, open : BOOLEAN, as : Session, by : {"detail", "decide"}]

PageTypeOK ==
    /\ settled \subseteq Proposal
    /\ cookie \in Session
    /\ logins \in 1..MaxLogins
    /\ session \in Session
    /\ selected \in View \union {None}
    /\ actions \in BOOLEAN
    /\ listed \in Session
    /\ dialog \in Proposal \union {None}
    /\ confirmation \in Proposal \union {None}
    /\ sent \in Nat
    /\ submitting \in BOOLEAN /\ refreshing \in BOOLEAN /\ starting \in BOOLEAN
    /\ calls \subseteq Call

\* A login or the start of a session happens on the login view, with the newest
\* cookie or none.
EntryFits(c) ==
    /\ c.op = "login" => c.chain = "start"
    /\ c.op = "session" =>
          /\ c.chain \in {"load", "start"}
          /\ cookie \in {0, c.as}
          /\ c.reply = "ok" => c.as # 0
    /\ c.op \in {"login", "session"} => session = 0
    /\ c.chain = "start" => starting

\* A read that is not outdated was made as the session on display, or without
\* any, and then it is denied.  While a detail is awaited that somebody selected,
\* the actions are hidden and nothing is being confirmed.
ReadFits(c) ==
    /\ c.op \in {"detail", "list"} =>
          /\ session # 0
          /\ c.as \in {0, session}
          /\ c.reply \in {"ok", "open", "settled"} => c.as # 0
    /\ c.op = "detail" =>
          /\ c.id \in Proposal
          /\ c.chain # "refresh" => ~actions /\ dialog = None

\* A decision under way keeps the confirmation from being clicked again.
DecisionFits(c) == c.op = "decide" => c.id \in Proposal /\ submitting

CallFits(c) == EntryFits(c) /\ ReadFits(c) /\ DecisionFits(c)

\* Two calls that must not be under way together.
Rivals(c, d) ==
    \/ c.op = "detail" /\ d.op = "detail"
    \/ c.op = "decide" /\ d.op = "decide"
    \/ c.op \in {"login", "session"} /\ d.op \in {"login", "session"}
    \/ c.chain = "start" /\ d.chain = "start"

OneOfEach == \A c, d \in calls : Rivals(c, d) => c = d

\* The cookie is that of the session on display, if it is still valid; the login
\* view shows and confirms nothing.
SessionFits ==
    /\ session # 0 => cookie \in {0, session}
    /\ session = 0 => listed = 0 /\ selected = None /\ dialog = None

\* A dialog that has sent its decision is locked until the answer closes it.
SentIsLocked == sent # 0 => submitting

PageInv ==
    /\ PageTypeOK
    /\ \A c \in calls : CallFits(c)
    /\ OneOfEach
    /\ SessionFits
    /\ SentIsLocked
    /\ DialogIsAboutSelection
    /\ DataIsOfTheSession

-----------------------------------------------------------------------------
\* What the page knows of a call it stopped waiting for: its chain of awaits.
LEMMA OutdatedIs ==
    ASSUME NEW c \in Call
    PROVE  /\ Outdated(c) \in Call
           /\ Outdated(c).op = "outdated" /\ Outdated(c).chain = c.chain
BY DEF Outdated, Call, Op, Chain, Reply

\* A call that became outdated rivals another only where it did before.
LEMMA OutdatedRivals ==
    ASSUME NEW c \in Call, NEW d \in Call
    PROVE  /\ Rivals(Outdated(c), d) => Rivals(c, d)
           /\ Rivals(d, Outdated(c)) => Rivals(d, c)
           /\ Rivals(Outdated(c), Outdated(d)) => Rivals(c, d)
BY OutdatedIs DEF Rivals

\* Outdating keeps each call or makes it outdated, and never makes two calls rivals.
LEMMA OutdateFits ==
    ASSUME calls \subseteq Call, OneOfEach, NEW others \in SUBSET calls, NEW ops
    PROVE  /\ Outdate(ops, others) \subseteq Call
           /\ \A x \in Outdate(ops, others) :
                 \/ x \in others /\ x.op \notin ops
                 \/ \E c \in others : x = Outdated(c)
           /\ \A x, y \in Outdate(ops, others) : Rivals(x, y) => x = y
<1>1. \A x \in Outdate(ops, others) :
         \E c \in others : x = IF c.op \in ops THEN Outdated(c) ELSE c
  BY DEF Outdate
<1>2. ASSUME NEW x \in Outdate(ops, others), NEW y \in Outdate(ops, others), Rivals(x, y)
      PROVE  x = y
  <2>1. PICK c \in others : x = IF c.op \in ops THEN Outdated(c) ELSE c
    BY <1>1
  <2>2. PICK d \in others : y = IF d.op \in ops THEN Outdated(d) ELSE d
    BY <1>1
  <2>3. c \in Call /\ d \in Call
    OBVIOUS
  <2>4. Rivals(c, d)
    BY <1>2, <2>1, <2>2, <2>3, OutdatedRivals
  <2> QED
    BY <2>1, <2>2, <2>4 DEF OneOfEach
<1> QED
  BY <1>1, <1>2, OutdatedIs

\* What is awaited after a call was sent.
AwaitsNew(o, chain, p, others) ==
    /\ calls' \subseteq Call
    /\ \A x \in calls' :
          \/ x = NewCall(o, chain, p)
          \/ x \in others /\ (o \in {"detail", "list"} => x.op # o)
          \/ \E c \in others : x = Outdated(c)
    /\ OneOfEach'

\* A call fits if nothing that is awaited rivals it other than the detail it makes
\* outdated.
LEMMA SendFits ==
    ASSUME PageTypeOK, OneOfEach, NEW others \in SUBSET calls,
           NEW o \in Op, NEW chain \in Chain, NEW p \in Proposal \union {None},
           Send(o, chain, p, others),
           o = "decide" => \A d \in others : d.op # "decide",
           o \in {"login", "session"} => \A d \in others : d.op \notin {"login", "session"},
           chain = "start" => \A d \in others : d.chain # "start"
    PROVE  AwaitsNew(o, chain, p, others)
<1> DEFINE new  == NewCall(o, chain, p)
           kept == IF o \in {"detail", "list"} THEN Outdate({o}, others) ELSE others
<1>1. calls' = kept \union {new}
  BY DEF Send
<1>2. /\ new \in Call
      /\ new.op = o /\ new.chain = chain
  BY DEF NewCall, Call, PageTypeOK, Reply, Session
<1>3. calls \subseteq Call
  BY DEF PageTypeOK
<1>4. /\ kept \subseteq Call
      /\ \A x \in kept :
            \/ x \in others /\ (o \in {"detail", "list"} => x.op # o)
            \/ \E c \in others : x = Outdated(c)
      /\ \A x, y \in kept : Rivals(x, y) => x = y
  <2>1. CASE o \in {"detail", "list"}
    <3>1. /\ Outdate({o}, others) \subseteq Call
          /\ \A x \in Outdate({o}, others) :
                \/ x \in others /\ x.op \notin {o}
                \/ \E c \in others : x = Outdated(c)
          /\ \A x, y \in Outdate({o}, others) : Rivals(x, y) => x = y
      BY <1>3, OutdateFits
    <3> QED
      BY <2>1, <3>1
  <2>2. CASE o \notin {"detail", "list"}
    BY <2>2, <1>3 DEF OneOfEach
  <2> QED
    BY <2>1, <2>2
<1>5. ASSUME NEW x \in kept
      PROVE  ~Rivals(new, x) /\ ~Rivals(x, new)
  <2>1. CASE x \in others /\ (o \in {"detail", "list"} => x.op # o)
    BY <2>1, <1>2 DEF Rivals, Op
  <2>2. CASE \E c \in others : x = Outdated(c)
    <3>1. PICK c \in others : x = Outdated(c)
      BY <2>2
    <3>2. c \in Call /\ x.op = "outdated" /\ x.chain = c.chain
      BY <3>1, <1>3, OutdatedIs
    <3> QED
      BY <3>2, <1>2 DEF Rivals
  <2> QED
    BY <1>4, <2>1, <2>2
<1>6. ASSUME NEW x \in calls', NEW y \in calls', Rivals(x, y)
      PROVE  x = y
  BY <1>1, <1>4, <1>5, <1>6
<1>7. OneOfEach'
  BY <1>6 DEF OneOfEach, Rivals
<1> QED
  BY <1>1, <1>2, <1>4, <1>7 DEF AwaitsNew

\* Waiting for fewer calls makes no rivals.
LEMMA FewerFit ==
    ASSUME PageTypeOK, OneOfEach, calls' \subseteq calls
    PROVE  calls' \subseteq Call /\ OneOfEach'
BY DEF PageTypeOK, OneOfEach, Rivals

\* A reply makes no rivals.
LEMMA RepliedFits ==
    ASSUME PageTypeOK, OneOfEach, NEW c \in calls, NEW r \in Reply, Replied(c, r)
    PROVE  /\ calls' \subseteq Call
           /\ \A x \in calls' : x \in calls \/ x = [c EXCEPT !.reply = r]
           /\ OneOfEach'
<1> DEFINE rep == [c EXCEPT !.reply = r]
<1>1. c \in Call
  BY DEF PageTypeOK
<1>2. rep \in Call /\ rep.op = c.op /\ rep.chain = c.chain
  BY <1>1 DEF Call
<1>3. calls' = (calls \ {c}) \union {rep}
  BY DEF Replied
<1>4. ASSUME NEW x \in calls', NEW y \in calls', Rivals(x, y)
      PROVE  x = y
  <2>1. CASE x = rep /\ y \in calls \ {c}
    <3>1. Rivals(c, y)
      BY <2>1, <1>2, <1>4 DEF Rivals
    <3> QED
      BY <2>1, <3>1 DEF OneOfEach
  <2>2. CASE y = rep /\ x \in calls \ {c}
    <3>1. Rivals(x, c)
      BY <2>2, <1>2, <1>4 DEF Rivals
    <3> QED
      BY <2>2, <3>1 DEF OneOfEach
  <2>3. CASE x \in calls /\ y \in calls
    BY <2>3, <1>4 DEF OneOfEach
  <2> QED
    BY <1>3, <2>1, <2>2, <2>3
<1>5. OneOfEach'
  BY <1>4 DEF OneOfEach, Rivals
<1> QED
  BY <1>2, <1>3, <1>5 DEF PageTypeOK

\* An outdated call asks only that the login form waits for its own chain.
LEMMA OutdatedCallFits ==
    ASSUME NEW c \in Call, c.chain = "start" => starting', NEW x, x = Outdated(c)
    PROVE  CallFits(x)'
<1>1. x.op = "outdated" /\ x.chain = c.chain
  BY OutdatedIs
<1> QED
  BY <1>1 DEF CallFits, EntryFits, ReadFits, DecisionFits

-----------------------------------------------------------------------------
LEMMA PageStarts == Init => PageInv
<1> SUFFICES ASSUME Init PROVE PageInv
  OBVIOUS
<1> DEFINE first == [op |-> "session", chain |-> "load", id |-> None, as |-> cookie,
                     reply |-> "none"]
<1>1. calls = {first} /\ cookie \in Session /\ 1 \in 1..MaxLogins /\ 0 \in Session
  BY PageAssumption DEF Init, Session
<1>2. first \in Call
  BY <1>1 DEF Call, Op, Chain, Reply
<1>3. PageTypeOK
  BY <1>1, <1>2 DEF PageTypeOK, Init
<1>4. \A c \in calls : CallFits(c)
  BY <1>1 DEF CallFits, EntryFits, ReadFits, DecisionFits, Init
<1> QED
  BY <1>1, <1>3, <1>4 DEF PageInv, OneOfEach, SessionFits, SentIsLocked, DialogIsAboutSelection,
     DataIsOfTheSession, Init

\* Another proposal is selected: its detail is the only one awaited, and nothing
\* can be decided until it is there.
LEMMA SelectPreserves ==
    ASSUME PageInv, NEW p \in Proposal, Select(p)
    PROVE  PageInv'
<1>1. AwaitsNew("detail", "user", p, calls)
  <2>1. /\ Send("detail", "user", p, calls) /\ calls \in SUBSET calls
        /\ "detail" \in Op /\ "user" \in Chain /\ p \in Proposal \union {None}
    BY DEF Select, Op, Chain
  <2> QED
    BY <2>1, SendFits DEF PageInv
<1>2. ASSUME NEW x \in calls'
      PROVE  CallFits(x)'
  <2>1. CASE x = NewCall("detail", "user", p)
    BY <2>1 DEF NewCall, CallFits, EntryFits, ReadFits, DecisionFits, Select, Clickable,
       PageInv, SessionFits, serverVars, dialogVars
  <2>2. CASE x \in calls /\ x.op # "detail"
    BY <2>2 DEF CallFits, EntryFits, ReadFits, DecisionFits, Select, PageInv, serverVars
  <2>3. CASE \E c \in calls : x = Outdated(c)
    BY <2>3, OutdatedCallFits DEF CallFits, EntryFits, PageInv, PageTypeOK, Select
  <2> QED
    BY <1>1, <2>1, <2>2, <2>3 DEF AwaitsNew
<1>3. PageTypeOK'
  BY <1>1 DEF AwaitsNew, PageTypeOK, PageInv, Select, serverVars, dialogVars
<1> QED
  BY <1>1, <1>2, <1>3 DEF AwaitsNew, PageInv, SessionFits, SentIsLocked, DialogIsAboutSelection,
     DataIsOfTheSession, Select, serverVars, dialogVars

\* The list of another page is asked for.
LEMMA BrowsePreserves ==
    ASSUME PageInv, Browse
    PROVE  PageInv'
<1>1. AwaitsNew("list", "user", None, calls)
  <2>1. /\ Send("list", "user", None, calls) /\ calls \in SUBSET calls
        /\ "list" \in Op /\ "user" \in Chain /\ None \in Proposal \union {None}
    BY DEF Browse, Op, Chain
  <2> QED
    BY <2>1, SendFits DEF PageInv
<1>2. ASSUME NEW x \in calls'
      PROVE  CallFits(x)'
  <2>1. CASE x = NewCall("list", "user", None)
    BY <2>1 DEF NewCall, CallFits, EntryFits, ReadFits, DecisionFits, Browse, Clickable,
       PageInv, SessionFits, serverVars, viewVars
  <2>2. CASE x \in calls
    BY <2>2 DEF CallFits, EntryFits, ReadFits, DecisionFits, Browse, PageInv, serverVars,
       viewVars, dialogVars
  <2>3. CASE \E c \in calls : x = Outdated(c)
    BY <2>3, OutdatedCallFits DEF CallFits, EntryFits, PageInv, PageTypeOK, Browse
  <2> QED
    BY <1>1, <2>1, <2>2, <2>3 DEF AwaitsNew
<1>3. PageTypeOK'
  BY <1>1 DEF AwaitsNew, PageTypeOK, PageInv, Browse, serverVars, viewVars, dialogVars
<1> QED
  BY <1>1, <1>2, <1>3 DEF AwaitsNew, PageInv, SessionFits, SentIsLocked, DialogIsAboutSelection,
     DataIsOfTheSession, Browse, serverVars, viewVars, dialogVars

\* A call of refresh, as the session of the cookie.
IsRefresh(c) ==
    /\ c.op \in {"detail", "list"} /\ c.chain = "refresh"
    /\ c.as = cookie /\ c.reply = "none"
    /\ c.op = "detail" => c.id \in Proposal

\* What is awaited after a refresh was started.
AwaitsRefresh(others) ==
    /\ calls' \subseteq Call
    /\ \A x \in calls' :
          \/ IsRefresh(x)
          \/ x \in others
          \/ \E c \in others : x = Outdated(c)
    /\ OneOfEach'

\* A refresh asks for what is on display, by its button or its timer or after a
\* decision: if the data it will be about is on display, the call it sends fits.
LEMMA SendRefreshFits ==
    ASSUME PageTypeOK, OneOfEach, NEW others \in SUBSET calls, NEW view \in View \union {None},
           SendRefresh(view, others)
    PROVE  AwaitsRefresh(others)
<1>1. CASE view = None
  <2>1. /\ Send("list", "refresh", None, others)
        /\ "list" \in Op /\ "refresh" \in Chain /\ None \in Proposal \union {None}
    BY <1>1 DEF SendRefresh, Op, Chain
  <2>2. AwaitsNew("list", "refresh", None, others)
    BY <2>1, SendFits
  <2> QED
    BY <2>2 DEF NewCall, AwaitsNew, AwaitsRefresh, IsRefresh
<1>2. CASE view # None
  <2>1. /\ Send("detail", "refresh", view.id, others) /\ view.id \in Proposal
        /\ "detail" \in Op /\ "refresh" \in Chain /\ view.id \in Proposal \union {None}
    BY <1>2 DEF SendRefresh, View, Op, Chain
  <2>2. AwaitsNew("detail", "refresh", view.id, others)
    BY <2>1, SendFits
  <2> QED
    BY <2>1, <2>2 DEF NewCall, AwaitsNew, AwaitsRefresh, IsRefresh
<1> QED
  BY <1>1, <1>2

LEMMA RefreshPreserves ==
    ASSUME PageInv, Refresh
    PROVE  PageInv'
<1>1. AwaitsRefresh(calls)
  BY SendRefreshFits DEF Refresh, PageInv, PageTypeOK
<1>2. ASSUME NEW x \in calls'
      PROVE  CallFits(x)'
  <2>1. CASE IsRefresh(x)
    BY <2>1 DEF IsRefresh, CallFits, EntryFits, ReadFits, DecisionFits, Refresh, PageInv, SessionFits,
       viewVars
  <2>2. CASE x \in calls
    BY <2>2 DEF CallFits, EntryFits, ReadFits, DecisionFits, Refresh, PageInv, serverVars,
       viewVars, dialogVars
  <2>3. CASE \E c \in calls : x = Outdated(c)
    BY <2>3, OutdatedCallFits DEF CallFits, EntryFits, PageInv, PageTypeOK, Refresh
  <2> QED
    BY <1>1, <2>1, <2>2, <2>3 DEF AwaitsRefresh
<1>3. PageTypeOK'
  BY <1>1 DEF AwaitsRefresh, PageTypeOK, PageInv, Refresh, serverVars, viewVars, dialogVars
<1> QED
  BY <1>1, <1>2, <1>3 DEF AwaitsRefresh, PageInv, SessionFits, SentIsLocked, DialogIsAboutSelection,
     DataIsOfTheSession, Refresh, serverVars, viewVars, dialogVars

-----------------------------------------------------------------------------
\* The dialog opens on what is on display, which no answer may then replace.
LEMMA OpenDialogPreserves ==
    ASSUME PageInv, OpenDialog
    PROVE  PageInv'
<1>1. selected \in View
  BY DEF PageInv, PageTypeOK, OpenDialog
<1>2. PageTypeOK'
  BY <1>1 DEF View, PageTypeOK, PageInv, OpenDialog, serverVars, viewVars
<1>3. ASSUME NEW x \in calls'
      PROVE  CallFits(x)'
  BY <1>3 DEF CallFits, EntryFits, ReadFits, DecisionFits, OpenDialog, Clickable, PageInv,
     serverVars, viewVars
<1>4. OneOfEach'
  BY DEF OneOfEach, Rivals, PageInv, OpenDialog
<1> QED
  BY <1>2, <1>3, <1>4 DEF PageInv, SessionFits, SentIsLocked, DialogIsAboutSelection, DataIsOfTheSession,
     OpenDialog, Clickable, serverVars, viewVars

LEMMA CancelPreserves ==
    ASSUME PageInv, Cancel
    PROVE  PageInv'
<1>1. PageTypeOK'
  BY DEF PageTypeOK, PageInv, Cancel, serverVars, viewVars
<1>2. ASSUME NEW x \in calls'
      PROVE  CallFits(x)'
  BY <1>2 DEF CallFits, EntryFits, ReadFits, DecisionFits, Cancel, PageInv, serverVars,
     viewVars
<1>3. OneOfEach'
  BY DEF OneOfEach, Rivals, PageInv, Cancel
<1> QED
  BY <1>1, <1>2, <1>3 DEF PageInv, SessionFits, SentIsLocked, DialogIsAboutSelection, DataIsOfTheSession,
     Cancel, serverVars, viewVars

\* No decision is under way when one is sent: submitting would still be set.
LEMMA ConfirmPreserves ==
    ASSUME PageInv, Confirm
    PROVE  PageInv'
<1>1. AwaitsNew("decide", "user", confirmation, calls)
  <2>1. \A d \in calls : d.op # "decide"
    BY DEF PageInv, CallFits, DecisionFits, Confirm
  <2>2. /\ Send("decide", "user", confirmation, calls) /\ calls \in SUBSET calls
        /\ "decide" \in Op /\ "user" \in Chain /\ confirmation \in Proposal \union {None}
    BY DEF Confirm, SendDecision, Op, Chain, PageInv, PageTypeOK
  <2> QED
    BY <2>1, <2>2, SendFits DEF PageInv
<1>2. ASSUME NEW x \in calls'
      PROVE  CallFits(x)'
  <2>1. CASE x = NewCall("decide", "user", confirmation)
    BY <2>1 DEF NewCall, CallFits, EntryFits, ReadFits, DecisionFits, Confirm, PageInv,
       PageTypeOK
  <2>2. CASE x \in calls
    BY <2>2 DEF CallFits, EntryFits, ReadFits, DecisionFits, Confirm, SendDecision, PageInv, serverVars,
       viewVars
  <2>3. CASE \E c \in calls : x = Outdated(c)
    BY <2>3, OutdatedCallFits DEF CallFits, EntryFits, PageInv, PageTypeOK, Confirm
  <2> QED
    BY <1>1, <2>1, <2>2, <2>3 DEF AwaitsNew
<1>3. PageTypeOK'
  BY <1>1 DEF AwaitsNew, PageTypeOK, PageInv, Confirm, SendDecision, serverVars,
     viewVars
<1> QED
  BY <1>1, <1>2, <1>3 DEF AwaitsNew, PageInv, SessionFits, SentIsLocked, DialogIsAboutSelection,
     DataIsOfTheSession, Confirm, serverVars, viewVars

LEMMA LogoutPreserves ==
    ASSUME PageInv, Logout
    PROVE  PageInv'
<1>1. AwaitsNew("logout", "user", None, calls)
  <2>1. /\ Send("logout", "user", None, calls) /\ calls \in SUBSET calls
        /\ "logout" \in Op /\ "user" \in Chain /\ None \in Proposal \union {None}
    BY DEF Logout, Op, Chain
  <2> QED
    BY <2>1, SendFits DEF PageInv
<1>2. ASSUME NEW x \in calls'
      PROVE  CallFits(x)'
  <2>1. CASE x = NewCall("logout", "user", None)
    BY <2>1 DEF NewCall, CallFits, EntryFits, ReadFits, DecisionFits
  <2>2. CASE x \in calls
    BY <2>2 DEF CallFits, EntryFits, ReadFits, DecisionFits, Logout, PageInv, serverVars,
       viewVars, dialogVars
  <2>3. CASE \E c \in calls : x = Outdated(c)
    BY <2>3, OutdatedCallFits DEF CallFits, EntryFits, PageInv, PageTypeOK, Logout
  <2> QED
    BY <1>1, <2>1, <2>2, <2>3 DEF AwaitsNew
<1>3. PageTypeOK'
  BY <1>1 DEF AwaitsNew, PageTypeOK, PageInv, Logout, serverVars, viewVars, dialogVars
<1> QED
  BY <1>1, <1>2, <1>3 DEF AwaitsNew, PageInv, SessionFits, SentIsLocked, DialogIsAboutSelection,
     DataIsOfTheSession, Logout, serverVars, viewVars, dialogVars

\* The login form waits for no other login, nor does the page start a session: it
\* would be loading, or the form would wait for it.
LEMMA LoginPreserves ==
    ASSUME PageInv, Login
    PROVE  PageInv'
<1>1. AwaitsNew("login", "start", None, calls)
  <2>1. \A d \in calls : d.chain # "start" /\ d.op \notin {"login", "session"}
    BY DEF PageInv, CallFits, EntryFits, Login
  <2>2. /\ Send("login", "start", None, calls) /\ calls \in SUBSET calls
        /\ "login" \in Op /\ "start" \in Chain /\ None \in Proposal \union {None}
    BY DEF Login, Op, Chain
  <2> QED
    BY <2>1, <2>2, SendFits DEF PageInv
<1>2. ASSUME NEW x \in calls'
      PROVE  CallFits(x)'
  <2>1. CASE x = NewCall("login", "start", None)
    BY <2>1 DEF NewCall, CallFits, EntryFits, ReadFits, DecisionFits, Login, viewVars
  <2>2. CASE x \in calls
    BY <2>2 DEF CallFits, EntryFits, ReadFits, DecisionFits, Login, PageInv, serverVars,
       viewVars, dialogVars
  <2>3. CASE \E c \in calls : x = Outdated(c)
    BY <2>3, OutdatedCallFits DEF CallFits, EntryFits, PageInv, PageTypeOK, Login
  <2> QED
    BY <1>1, <2>1, <2>2, <2>3 DEF AwaitsNew
<1>3. PageTypeOK'
  BY <1>1 DEF AwaitsNew, PageTypeOK, PageInv, Login, serverVars, viewVars, dialogVars
<1> QED
  BY <1>1, <1>2, <1>3 DEF AwaitsNew, PageInv, SessionFits, SentIsLocked, DialogIsAboutSelection,
     DataIsOfTheSession, Login, serverVars, viewVars, dialogVars

-----------------------------------------------------------------------------
\* The server's answer to a call: a session that has ended or was rotated is
\* denied, so that what is read was read as the session on display.
LEMMA DenyPreserves ==
    ASSUME PageInv, NEW c \in calls, c.reply = "none", Deny(c),
           UNCHANGED <<viewVars, dialogVars, submitting, refreshing, starting>>
    PROVE  PageInv'
<1>1. Replied(c, "denied") /\ "denied" \in Reply
  BY DEF Deny, Reply
<1>2. /\ calls' \subseteq Call
      /\ \A x \in calls' : x \in calls \/ x = [c EXCEPT !.reply = "denied"]
      /\ OneOfEach'
  BY <1>1, RepliedFits DEF PageInv
<1>3. ASSUME NEW x \in calls'
      PROVE  CallFits(x)'
  <2>1. CASE x \in calls
    BY <2>1 DEF CallFits, EntryFits, ReadFits, DecisionFits, Deny, PageInv, serverVars,
       viewVars, dialogVars
  <2>2. CASE x = [c EXCEPT !.reply = "denied"]
    <3>1. c \in Call
      BY DEF PageInv, PageTypeOK
    <3>2. /\ x.op = c.op /\ x.chain = c.chain /\ x.id = c.id /\ x.as = c.as
          /\ x.reply = "denied"
      BY <2>2, <3>1 DEF Call
    <3> QED
      BY <3>2 DEF CallFits, EntryFits, ReadFits, DecisionFits, Deny, PageInv, serverVars,
         viewVars, dialogVars
  <2> QED
    BY <1>2, <2>1, <2>2
<1>4. PageTypeOK'
  BY <1>2 DEF PageTypeOK, PageInv, Deny, serverVars, viewVars, dialogVars
<1> QED
  BY <1>2, <1>3, <1>4 DEF PageInv, SessionFits, SentIsLocked, DialogIsAboutSelection, DataIsOfTheSession,
     Deny, serverVars, viewVars, dialogVars

\* What a reply changes: it keeps the call, and the page.
LEMMA ReplyIs ==
    ASSUME PageInv, NEW c \in calls, NEW r
    PROVE  LET x == [c EXCEPT !.reply = r]
           IN  /\ x.op = c.op /\ x.chain = c.chain /\ x.id = c.id /\ x.as = c.as
               /\ x.reply = r
BY DEF PageInv, PageTypeOK, Call

LEMMA ServeReadPreserves ==
    ASSUME PageInv, NEW c \in calls, c.reply = "none", ServeRead(c),
           UNCHANGED <<viewVars, dialogVars, submitting, refreshing, starting>>
    PROVE  PageInv'
<1> DEFINE r == IF c.op # "detail" THEN "ok"
                ELSE IF c.id \in settled THEN "settled" ELSE "open"
           y == [c EXCEPT !.reply = r]
<1>1. Replied(c, r) /\ r \in Reply
  BY DEF ServeRead, Reply
<1> HIDE DEF r
<1>2. /\ calls' \subseteq Call
      /\ \A x \in calls' : x \in calls \/ x = y
      /\ OneOfEach'
  BY <1>1, RepliedFits DEF PageInv
<1>3. ASSUME NEW x \in calls'
      PROVE  CallFits(x)'
  <2>1. CASE x \in calls
    BY <2>1 DEF CallFits, EntryFits, ReadFits, DecisionFits, ServeRead, PageInv, serverVars,
       viewVars, dialogVars
  <2>2. CASE x = y
    <3>1. x.op = c.op /\ x.chain = c.chain /\ x.id = c.id /\ x.as = c.as
      BY <2>2, ReplyIs
    <3>2. x.as # 0 /\ x.op # "decide" /\ CallFits(c)
      BY <3>1 DEF ServeRead, PageInv
    <3> QED
      BY <3>1, <3>2 DEF CallFits, EntryFits, ReadFits, DecisionFits, ServeRead, serverVars,
         viewVars, dialogVars
  <2> QED
    BY <1>2, <2>1, <2>2
<1>4. PageTypeOK'
  BY <1>2 DEF PageTypeOK, PageInv, ServeRead, serverVars, viewVars, dialogVars
<1> QED
  BY <1>2, <1>3, <1>4 DEF PageInv, SessionFits, SentIsLocked, DialogIsAboutSelection, DataIsOfTheSession,
     ServeRead, serverVars, viewVars, dialogVars

LEMMA ServeDecisionPreserves ==
    ASSUME PageInv, NEW c \in calls, c.reply = "none", ServeDecision(c),
           UNCHANGED <<viewVars, dialogVars, submitting, refreshing, starting>>
    PROVE  PageInv'
<1> DEFINE y == [c EXCEPT !.reply = "settled"]
<1>1. Replied(c, "settled") /\ "settled" \in Reply
  BY DEF ServeDecision, Reply
<1>2. /\ calls' \subseteq Call
      /\ \A x \in calls' : x \in calls \/ x = y
      /\ OneOfEach'
  BY <1>1, RepliedFits DEF PageInv
<1>3. ASSUME NEW x \in calls'
      PROVE  CallFits(x)'
  <2>1. CASE x \in calls
    BY <2>1 DEF CallFits, EntryFits, ReadFits, DecisionFits, ServeDecision, PageInv,
       viewVars, dialogVars
  <2>2. CASE x = y
    <3>1. x.op = "decide" /\ x.chain = c.chain /\ x.id = c.id
      BY <2>2, ReplyIs DEF ServeDecision
    <3> QED
      BY <3>1 DEF CallFits, EntryFits, ReadFits, DecisionFits, ServeDecision, PageInv
  <2> QED
    BY <1>2, <2>1, <2>2
<1>4. c.id \in Proposal
  BY DEF ServeDecision, PageInv, CallFits, DecisionFits
<1>5. PageTypeOK'
  BY <1>2, <1>4 DEF PageTypeOK, PageInv, ServeDecision, viewVars, dialogVars
<1> QED
  BY <1>2, <1>3, <1>5 DEF PageInv, SessionFits, SentIsLocked, DialogIsAboutSelection, DataIsOfTheSession,
     ServeDecision, viewVars, dialogVars

\* A login rotates the cookie while the page shows the login view: no read of the
\* session before is awaited any more, and no session is being started.
LEMMA ServeLoginPreserves ==
    ASSUME PageInv, NEW c \in calls, c.reply = "none", ServeLogin(c),
           UNCHANGED <<viewVars, dialogVars, submitting, refreshing, starting>>
    PROVE  PageInv'
<1> DEFINE y == [c EXCEPT !.reply = "ok"]
<1>1. Replied(c, "ok") /\ "ok" \in Reply
  BY DEF ServeLogin, Reply
<1>2. /\ calls' \subseteq Call
      /\ \A x \in calls' : x \in calls \/ x = y
      /\ OneOfEach'
  BY <1>1, RepliedFits DEF PageInv
<1>3. session = 0 /\ session' = 0
  BY DEF ServeLogin, PageInv, CallFits, EntryFits, viewVars
<1>4. ASSUME NEW x \in calls'
      PROVE  CallFits(x)'
  <2>1. CASE x = y
    <3>1. x.op = "login" /\ x.chain = c.chain
      BY <2>1, ReplyIs DEF ServeLogin
    <3> QED
      BY <1>3, <3>1 DEF CallFits, EntryFits, ReadFits, DecisionFits, ServeLogin, PageInv
  <2>2. CASE x \in calls /\ x # c
    <3>1. x.op # "session"
      BY <2>2 DEF PageInv, OneOfEach, Rivals, ServeLogin
    <3> QED
      BY <1>3, <2>2, <3>1 DEF CallFits, EntryFits, ReadFits, DecisionFits, PageInv, viewVars,
         dialogVars
  <2> QED
    BY <1>1, <2>1, <2>2 DEF Replied
<1>5. PageTypeOK'
  BY <1>2, PageAssumption DEF PageTypeOK, PageInv, ServeLogin, Session, viewVars, dialogVars
<1> QED
  BY <1>2, <1>3, <1>4, <1>5 DEF PageInv, SessionFits, SentIsLocked, DialogIsAboutSelection,
     DataIsOfTheSession, ServeLogin, viewVars, dialogVars

LEMMA ServeLogoutPreserves ==
    ASSUME PageInv, NEW c \in calls, c.reply = "none", ServeLogout(c),
           UNCHANGED <<viewVars, dialogVars, submitting, refreshing, starting>>
    PROVE  PageInv'
<1> DEFINE y == [c EXCEPT !.reply = "ok"]
<1>1. Replied(c, "ok") /\ "ok" \in Reply
  BY DEF ServeLogout, Reply
<1>2. /\ calls' \subseteq Call
      /\ \A x \in calls' : x \in calls \/ x = y
      /\ OneOfEach'
  BY <1>1, RepliedFits DEF PageInv
<1>3. ASSUME NEW x \in calls'
      PROVE  CallFits(x)'
  <2>1. CASE x = y
    <3>1. x.op = "logout" /\ x.chain = c.chain
      BY <2>1, ReplyIs DEF ServeLogout
    <3> QED
      BY <3>1 DEF CallFits, EntryFits, ReadFits, DecisionFits, ServeLogout, PageInv
  <2>2. CASE x \in calls
    BY <2>2 DEF CallFits, EntryFits, ReadFits, DecisionFits, ServeLogout, PageInv, viewVars,
       dialogVars
  <2> QED
    BY <1>2, <2>1, <2>2
<1>4. PageTypeOK'
  BY <1>2, PageAssumption DEF PageTypeOK, PageInv, ServeLogout, Session, viewVars, dialogVars
<1> QED
  BY <1>2, <1>3, <1>4 DEF PageInv, SessionFits, SentIsLocked, DialogIsAboutSelection, DataIsOfTheSession,
     ServeLogout, viewVars, dialogVars

LEMMA ServePreserves ==
    ASSUME PageInv, NEW c \in calls, Serve(c)
    PROVE  PageInv'
BY DenyPreserves, ServeReadPreserves, ServeDecisionPreserves, ServeLoginPreserves,
   ServeLogoutPreserves DEF Serve

\* What happens away from the page: a proposal is settled, a session ends.
LEMMA ElsewherePreserves ==
    ASSUME PageInv, SessionEnds \/ \E p \in Proposal : SettledElsewhere(p)
    PROVE  PageInv'
<1>1. /\ cookie' \in {0, cookie} /\ cookie' \in Session /\ logins' = logins
      /\ settled' \subseteq Proposal
      /\ UNCHANGED <<viewVars, dialogVars, submitting, refreshing, starting, calls>>
  BY PageAssumption DEF SessionEnds, SettledElsewhere, PageInv, PageTypeOK, Session
<1>2. ASSUME NEW x \in calls'
      PROVE  CallFits(x)'
  BY <1>1, <1>2 DEF CallFits, EntryFits, ReadFits, DecisionFits, PageInv, viewVars, dialogVars
<1>3. OneOfEach'
  BY <1>1 DEF OneOfEach, Rivals, PageInv
<1>4. PageTypeOK'
  BY <1>1 DEF PageTypeOK, PageInv, viewVars, dialogVars
<1> QED
  BY <1>1, <1>2, <1>3, <1>4 DEF PageInv, SessionFits, SentIsLocked, DialogIsAboutSelection,
     DataIsOfTheSession, viewVars, dialogVars

-----------------------------------------------------------------------------
\* When a call ends, the login form waits only if another call is of its chain,
\* and a decision is under way only if it is not the one that ended.
LEMMA OthersStay ==
    ASSUME PageInv, NEW c \in calls, NEW x \in calls \ {c}
    PROVE  /\ x \in Call /\ CallFits(x)
           /\ x.chain = "start" => starting /\ c.chain # "start"
           /\ x.op = "decide" => c.op # "decide"
BY DEF PageInv, PageTypeOK, CallFits, EntryFits, OneOfEach, Rivals

\* The login view: nothing is read, shown or confirmed any more.
LEMMA ShowLoginPreserves ==
    ASSUME PageInv, NEW c \in calls, ShowLogin(c),
           cookie' \in {0, cookie}, settled' = settled, logins' = logins,
           submitting' = (submitting /\ c.op # "decide") \/ submitting' = submitting
    PROVE  PageInv'
<1> DEFINE others == calls \ {c}
<1>1. calls' = Outdate({"detail", "list"}, others)
  BY DEF ShowLogin, AllOutdated
<1>2. /\ calls' \subseteq Call
      /\ \A x \in calls' :
            \/ x \in others /\ x.op \notin {"detail", "list"}
            \/ \E d \in others : x = Outdated(d)
      /\ \A x, y \in calls' : Rivals(x, y) => x = y
  <2>1. calls \subseteq Call /\ OneOfEach /\ others \in SUBSET calls
    BY DEF PageInv, PageTypeOK
  <2>2. /\ Outdate({"detail", "list"}, others) \subseteq Call
        /\ \A x \in Outdate({"detail", "list"}, others) :
              \/ x \in others /\ x.op \notin {"detail", "list"}
              \/ \E d \in others : x = Outdated(d)
        /\ \A x, y \in Outdate({"detail", "list"}, others) : Rivals(x, y) => x = y
    BY <2>1, OutdateFits
  <2> QED
    BY <1>1, <2>2
<1>3. OneOfEach'
  BY <1>2 DEF OneOfEach, Rivals
<1>4. ASSUME NEW x \in calls'
      PROVE  CallFits(x)'
  <2>1. CASE x \in others /\ x.op \notin {"detail", "list"}
    <3>1. /\ CallFits(x)
          /\ x.chain = "start" => starting'
          /\ x.op = "decide" => submitting'
      <4>1. /\ CallFits(x)
            /\ x.chain = "start" => starting /\ c.chain # "start"
            /\ x.op = "decide" => c.op # "decide"
        BY <2>1, OthersStay
      <4> QED
        BY <4>1 DEF ShowLogin, CallFits, DecisionFits
    <3> QED
      BY <2>1, <3>1 DEF CallFits, EntryFits, ReadFits, DecisionFits, ShowLogin
  <2>2. CASE \E d \in others : x = Outdated(d)
    <3>1. PICK d \in others : x = Outdated(d)
      BY <2>2
    <3>2. d \in Call /\ (d.chain = "start" => starting')
      BY <3>1, OthersStay DEF ShowLogin
    <3> QED
      BY <3>1, <3>2, OutdatedCallFits
  <2> QED
    BY <1>2, <2>1, <2>2
<1>5. submitting' \in BOOLEAN /\ refreshing' \in BOOLEAN /\ starting' \in BOOLEAN
  BY DEF ShowLogin, PageInv, PageTypeOK
<1>6. cookie' \in Session /\ session' \in Session /\ listed' \in Session
  BY PageAssumption DEF ShowLogin, PageInv, PageTypeOK, Session
<1>7. PageTypeOK'
  BY <1>2, <1>5, <1>6 DEF PageTypeOK, PageInv, ShowLogin
<1> QED
  BY <1>2, <1>3, <1>4, <1>7 DEF PageInv, SessionFits, SentIsLocked, DialogIsAboutSelection,
     DataIsOfTheSession, ShowLogin

\* A function that calls nothing else returns; at most the list is new.
LEMMA EndsPreserves ==
    ASSUME PageInv, NEW c \in calls, Ends(c),
           cookie' \in {0, cookie}, settled' = settled, logins' = logins,
           UNCHANGED <<session, selected, actions, dialogVars, submitting>>,
           listed' \in {listed, session}
    PROVE  PageInv'
<1>1. calls' \subseteq Call /\ OneOfEach'
  BY FewerFit DEF Ends, PageInv
<1>2. ASSUME NEW x \in calls'
      PROVE  CallFits(x)'
  <2>1. /\ CallFits(x)
        /\ x.chain = "start" => starting'
    <3>1. x \in calls \ {c}
      BY DEF Ends
    <3>2. /\ CallFits(x)
          /\ x.chain = "start" => starting /\ c.chain # "start"
      BY <3>1, OthersStay
    <3> QED
      BY <3>2 DEF Ends
  <2> QED
    BY <2>1 DEF CallFits, EntryFits, ReadFits, DecisionFits, dialogVars
<1>3. PageTypeOK'
  BY <1>1, PageAssumption DEF PageTypeOK, PageInv, Ends, Session, dialogVars
<1> QED
  BY <1>1, <1>2, <1>3 DEF PageInv, SessionFits, SentIsLocked, DialogIsAboutSelection, DataIsOfTheSession,
     dialogVars

LEMMA DeniedPreserves ==
    ASSUME PageInv, NEW c \in calls, Denied(c)
    PROVE  PageInv'
BY ShowLoginPreserves DEF Denied, serverVars

LEMMA OutdatedAnswerPreserves ==
    ASSUME PageInv, NEW c \in calls, OutdatedAnswer(c)
    PROVE  PageInv'
BY EndsPreserves DEF OutdatedAnswer, serverVars, viewVars

LEMMA LogoutAnswerPreserves ==
    ASSUME PageInv, NEW c \in calls, LogoutAnswer(c)
    PROVE  PageInv'
BY ShowLoginPreserves DEF LogoutAnswer, serverVars

LEMMA FailPreserves ==
    ASSUME PageInv, NEW c \in calls, Fail(c)
    PROVE  PageInv'
<1>1. CASE c.chain = "load"
  BY <1>1, ShowLoginPreserves DEF Fail
<1>2. CASE c.chain # "load"
  BY <1>2, EndsPreserves DEF Fail, viewVars
<1> QED
  BY <1>1, <1>2

\* The list that arrives was read as the session on display.
LEMMA ListAnswerPreserves ==
    ASSUME PageInv, NEW c \in calls, ListAnswer(c)
    PROVE  PageInv'
<1>1. c.as = session
  BY DEF ListAnswer, PageInv, CallFits, ReadFits
<1> QED
  BY <1>1, EndsPreserves DEF ListAnswer, serverVars

\* The login is done: the page asks who it is, as the newest session.
LEMMA LoginAnswerPreserves ==
    ASSUME PageInv, NEW c \in calls, LoginAnswer(c)
    PROVE  PageInv'
<1> DEFINE others == calls \ {c}
<1>1. c.chain = "start" /\ session = 0 /\ starting
  BY DEF LoginAnswer, PageInv, CallFits, EntryFits
<1>2. AwaitsNew("session", "start", None, others)
  <2>1. \A d \in others : d.chain # "start" /\ d.op \notin {"login", "session"}
    BY <1>1 DEF PageInv, OneOfEach, Rivals, LoginAnswer
  <2>2. /\ Send("session", "start", None, others) /\ others \in SUBSET calls
        /\ "session" \in Op /\ "start" \in Chain /\ None \in Proposal \union {None}
    BY DEF LoginAnswer, Op, Chain
  <2> HIDE DEF others
  <2> QED
    BY <2>1, <2>2, SendFits DEF PageInv
<1>3. ASSUME NEW x \in calls'
      PROVE  CallFits(x)'
  <2>1. CASE x = NewCall("session", "start", None)
    BY <1>1, <2>1 DEF NewCall, CallFits, EntryFits, ReadFits, DecisionFits, LoginAnswer,
       serverVars, viewVars
  <2>2. CASE x \in others
    BY <2>2 DEF CallFits, EntryFits, ReadFits, DecisionFits, LoginAnswer, PageInv, serverVars,
       viewVars, dialogVars
  <2>3. CASE \E d \in others : x = Outdated(d)
    BY <2>3, OutdatedCallFits DEF CallFits, EntryFits, PageInv, PageTypeOK, LoginAnswer
  <2> QED
    BY <1>2, <2>1, <2>2, <2>3 DEF AwaitsNew
<1>4. PageTypeOK'
  BY <1>2 DEF AwaitsNew, PageTypeOK, PageInv, LoginAnswer, serverVars, viewVars, dialogVars
<1> QED
  BY <1>2, <1>3, <1>4 DEF AwaitsNew, PageInv, SessionFits, SentIsLocked, DialogIsAboutSelection,
     DataIsOfTheSession, LoginAnswer, serverVars, viewVars, dialogVars

-----------------------------------------------------------------------------
\* What a function shows after its await was read as the session on display.
LEMMA RenderShowsTheSession ==
    ASSUME PageInv, NEW c \in calls, c.op = "detail", c.reply \in {"open", "settled"}
    PROVE  /\ session # 0 /\ c.as = session /\ c.chain \in Chain
           /\ [id |-> c.id, open |-> c.reply = "open", as |-> c.as, by |-> c.op] \in View
           /\ \A d \in calls : d.op = "detail" => d = c
<1>1. c \in Call /\ CallFits(c)
  BY DEF PageInv, PageTypeOK
<1>2. c.id \in Proposal /\ session # 0 /\ c.as = session
  BY <1>1 DEF CallFits, ReadFits
<1>3. c.as \in Session /\ c.chain \in Chain
  BY <1>1 DEF Call
<1>4. \A d \in calls : d.op = "detail" => d = c
  BY DEF PageInv, OneOfEach, Rivals
<1> QED
  BY <1>2, <1>3, <1>4 DEF View

\* The detail that was selected arrives, and the list is asked for.
LEMMA SelectAnswerPreserves ==
    ASSUME PageInv, NEW c \in calls, SelectAnswer(c)
    PROVE  PageInv'
<1> DEFINE others == calls \ {c}
           view == [id |-> c.id, open |-> c.reply = "open", as |-> c.as, by |-> c.op]
<1>1. /\ session # 0 /\ c.as = session /\ c.chain \in Chain
      /\ view \in View
      /\ \A d \in calls : d.op = "detail" => d = c
  BY RenderShowsTheSession DEF SelectAnswer
<1>2. /\ dialog = None
      /\ c.chain = "start" => starting
  BY DEF SelectAnswer, PageInv, CallFits, ReadFits, EntryFits
<1>3. /\ selected' = view /\ actions' \in BOOLEAN
      /\ Send("list", c.chain, None, others)
      /\ UNCHANGED <<refreshing, starting, session, listed, serverVars, dialogVars, submitting>>
  BY <1>1 DEF SelectAnswer, Render
<1>4. view.as = session
  BY <1>1
<1> HIDE DEF view
<1>5. AwaitsNew("list", c.chain, None, others)
  <2>1. c.chain = "start" => \A d \in others : d.chain # "start"
    BY DEF PageInv, OneOfEach, Rivals
  <2>2. /\ others \in SUBSET calls
        /\ "list" \in Op /\ None \in Proposal \union {None}
    BY DEF Op
  <2> HIDE DEF others
  <2> QED
    BY <1>1, <1>3, <2>1, <2>2, SendFits DEF PageInv
<1>6. ASSUME NEW x \in calls'
      PROVE  CallFits(x)'
  <2>1. CASE x = NewCall("list", c.chain, None)
    BY <1>1, <1>2, <1>3, <2>1 DEF NewCall, CallFits, EntryFits, ReadFits, DecisionFits,
       PageInv, SessionFits, serverVars
  <2>2. CASE x \in others
    <3>1. x.op # "detail" /\ CallFits(x)
      BY <1>1, <2>2 DEF PageInv
    <3> QED
      BY <1>3, <3>1 DEF CallFits, EntryFits, ReadFits, DecisionFits, serverVars
  <2>3. CASE \E d \in others : x = Outdated(d)
    BY <1>3, <2>3, OutdatedCallFits DEF CallFits, EntryFits, PageInv, PageTypeOK
  <2> QED
    BY <1>5, <2>1, <2>2, <2>3 DEF AwaitsNew
<1>7. PageTypeOK'
  BY <1>1, <1>3, <1>5 DEF AwaitsNew, PageTypeOK, PageInv, serverVars, dialogVars
<1> QED
  BY <1>1, <1>2, <1>3, <1>4, <1>5, <1>6, <1>7 DEF AwaitsNew, PageInv, SessionFits, SentIsLocked,
     DialogIsAboutSelection, DataIsOfTheSession, serverVars, dialogVars

\* A refresh replaces what is on display only while no dialog is about it.
LEMMA RefreshAnswerPreserves ==
    ASSUME PageInv, NEW c \in calls, RefreshAnswer(c)
    PROVE  PageInv'
<1> DEFINE others == calls \ {c}
           view == [id |-> c.id, open |-> c.reply = "open", as |-> c.as, by |-> c.op]
<1>1. /\ session # 0 /\ c.as = session
      /\ view \in View
      /\ \A d \in calls : d.op = "detail" => d = c
  BY RenderShowsTheSession DEF RefreshAnswer
<1>2. CASE ~ShowsRefresh
  <2>1. Ends(c) /\ UNCHANGED <<selected, actions, session, listed, serverVars, dialogVars, submitting>>
    BY <1>2 DEF RefreshAnswer
  <2> QED
    BY <2>1, EndsPreserves DEF serverVars
<1>3. CASE ShowsRefresh
  <2>1. /\ dialog = None
        /\ \/ selected' = view /\ actions' \in BOOLEAN
           \/ selected' = selected /\ actions' = actions
        /\ Send("list", "refresh", None, others)
        /\ UNCHANGED <<refreshing, starting, session, listed, serverVars, dialogVars, submitting>>
    BY <1>3 DEF RefreshAnswer, ShowsRefresh, Render
  <2>2. view.as = session
    BY <1>1
  <2> HIDE DEF view
  <2>3. AwaitsNew("list", "refresh", None, others)
    <3>1. /\ others \in SUBSET calls
          /\ "list" \in Op /\ "refresh" \in Chain /\ None \in Proposal \union {None}
      BY DEF Op, Chain
    <3> HIDE DEF others
    <3> QED
      BY <2>1, <3>1, SendFits DEF PageInv
  <2>4. ASSUME NEW x \in calls'
        PROVE  CallFits(x)'
    <3>1. CASE x = NewCall("list", "refresh", None)
      BY <1>1, <2>1, <3>1 DEF NewCall, CallFits, EntryFits, ReadFits, DecisionFits,
         PageInv, SessionFits, serverVars
    <3>2. CASE x \in others
      <4>1. x.op # "detail" /\ CallFits(x)
        BY <1>1, <3>2 DEF PageInv
      <4> QED
        BY <2>1, <4>1 DEF CallFits, EntryFits, ReadFits, DecisionFits, serverVars
    <3>3. CASE \E d \in others : x = Outdated(d)
      BY <2>1, <3>3, OutdatedCallFits DEF CallFits, EntryFits, PageInv, PageTypeOK
    <3> QED
      BY <2>3, <3>1, <3>2, <3>3 DEF AwaitsNew
  <2>5. PageTypeOK'
    BY <1>1, <2>1, <2>3 DEF AwaitsNew, PageTypeOK, PageInv, serverVars, dialogVars
  <2> QED
    BY <1>1, <2>1, <2>2, <2>3, <2>4, <2>5 DEF AwaitsNew, PageInv, SessionFits,
       SentIsLocked, DialogIsAboutSelection, DataIsOfTheSession, serverVars, dialogVars
<1> QED
  BY <1>2, <1>3

\* A session starts on a page that reads and shows nothing of the one before.
LEMMA SessionAnswerPreserves ==
    ASSUME PageInv, NEW c \in calls, SessionAnswer(c)
    PROVE  PageInv'
<1> DEFINE others == calls \ {c}
           o == IF Linked = None THEN "list" ELSE "detail"
<1>1. /\ c \in Call /\ CallFits(c)
      /\ session = 0 /\ c.as # 0 /\ cookie \in {0, c.as}
      /\ listed = 0 /\ selected = None /\ dialog = None
  BY DEF PageInv, PageTypeOK, CallFits, EntryFits, SessionFits, SessionAnswer
<1>2. c.chain \in Chain /\ c.as \in Session /\ (c.chain = "start" => starting)
  BY <1>1 DEF Call, CallFits, EntryFits
<1>3. \A d \in others : d.op \notin {"session", "login", "detail", "list"}
  BY <1>1 DEF PageInv, CallFits, ReadFits, OneOfEach, Rivals, SessionAnswer
<1>4. /\ session' = c.as
      /\ Send(o, c.chain, Linked, others)
      /\ IF Linked = None THEN actions' = actions ELSE actions' = FALSE
      /\ UNCHANGED <<selected, listed, serverVars, dialogVars, submitting, refreshing, starting>>
  BY DEF SessionAnswer
<1>5. AwaitsNew(o, c.chain, Linked, others)
  <2>1. c.chain = "start" => \A d \in others : d.chain # "start"
    BY DEF PageInv, OneOfEach, Rivals
  <2>2. /\ others \in SUBSET calls
        /\ o \in Op /\ o \notin {"decide", "login", "session"} /\ Linked \in Proposal \union {None}
    BY PageAssumption DEF Op
  <2> HIDE DEF others, o
  <2> QED
    BY <1>2, <1>4, <2>1, <2>2, SendFits DEF PageInv
<1>6. ASSUME NEW x \in calls'
      PROVE  CallFits(x)'
  <2>1. CASE x = NewCall(o, c.chain, Linked)
    BY <1>1, <1>2, <1>4, <2>1, PageAssumption DEF NewCall, CallFits, EntryFits, ReadFits,
       DecisionFits, serverVars, dialogVars
  <2>2. CASE x \in others
    <3>1. x.op \notin {"session", "login", "detail", "list"} /\ CallFits(x)
      BY <1>3, <2>2 DEF PageInv
    <3> QED
      BY <1>4, <3>1 DEF CallFits, EntryFits, ReadFits, DecisionFits, serverVars
  <2>3. CASE \E d \in others : x = Outdated(d)
    BY <1>4, <2>3, OutdatedCallFits DEF CallFits, EntryFits, PageInv, PageTypeOK
  <2> QED
    BY <1>5, <2>1, <2>2, <2>3 DEF AwaitsNew
<1>7. actions' \in BOOLEAN
  BY <1>4 DEF PageInv, PageTypeOK
<1>8. PageTypeOK'
  BY <1>2, <1>4, <1>5, <1>7 DEF AwaitsNew, PageTypeOK, PageInv, serverVars, dialogVars
<1> QED
  BY <1>1, <1>4, <1>5, <1>6, <1>8 DEF AwaitsNew, PageInv, SessionFits, SentIsLocked,
     DialogIsAboutSelection, DataIsOfTheSession, serverVars, dialogVars

\* A decision ends: its dialog closes, and what is on display afterwards is a view
\* of the session or of the decision.
LEMMA EndDecisionPreserves ==
    ASSUME PageInv, NEW c \in calls, c.op = "decide", EndDecision(c), UNCHANGED serverVars,
           selected' \in View \union {None}, session = 0 => selected' = None,
           selected' # None => selected'.as = session \/ selected'.by = "decide",
           actions' = FALSE \/ actions' = actions
    PROVE  PageInv'
<1> DEFINE others == calls \ {c}
<1>1. /\ submitting' = FALSE /\ confirmation' = None /\ dialog' = None /\ sent' = 0
      /\ UNCHANGED <<session, listed, starting, serverVars>>
  BY DEF EndDecision
<1>2. /\ calls' \subseteq Call /\ OneOfEach' /\ refreshing' \in BOOLEAN
      /\ \A x \in calls' :
            \/ IsRefresh(x) /\ session # 0
            \/ x \in others
            \/ \E d \in others : x = Outdated(d)
  <2>1. CASE session # 0 /\ ~refreshing
    <3>1. SendRefresh(selected', others) /\ others \in SUBSET calls /\ refreshing' = TRUE
      BY <2>1 DEF EndDecision
    <3>2. AwaitsRefresh(others)
      <4> HIDE DEF others
      <4> QED
        BY <3>1, SendRefreshFits DEF PageInv
    <3> QED
      BY <2>1, <3>1, <3>2 DEF AwaitsRefresh
  <2>2. CASE ~(session # 0 /\ ~refreshing)
    <3>1. calls' = others /\ refreshing' = refreshing
      BY <2>2 DEF EndDecision
    <3>2. calls' \subseteq Call /\ OneOfEach'
      BY <3>1, FewerFit DEF PageInv
    <3> QED
      BY <3>1, <3>2 DEF PageInv, PageTypeOK
  <2> QED
    BY <2>1, <2>2
<1>3. ASSUME NEW x \in calls'
      PROVE  CallFits(x)'
  <2>1. CASE IsRefresh(x) /\ session # 0
    BY <1>1, <2>1 DEF IsRefresh, CallFits, EntryFits, ReadFits, DecisionFits, PageInv,
       SessionFits
  <2>2. CASE x \in others
    <3>1. x.op # "decide" /\ CallFits(x)
      BY <2>2, OthersStay
    <3> QED
      BY <1>1, <3>1 DEF CallFits, EntryFits, ReadFits, DecisionFits, serverVars
  <2>3. CASE \E d \in others : x = Outdated(d)
    BY <1>1, <2>3, OutdatedCallFits DEF CallFits, EntryFits, PageInv, PageTypeOK
  <2> QED
    BY <1>2, <2>1, <2>2, <2>3
<1>4. actions' \in BOOLEAN
  BY DEF PageInv, PageTypeOK
<1>5. PageTypeOK'
  BY <1>1, <1>2, <1>4 DEF PageTypeOK, PageInv, serverVars
<1> QED
  BY <1>1, <1>2, <1>3, <1>5 DEF PageInv, SessionFits, SentIsLocked, DialogIsAboutSelection,
     DataIsOfTheSession, serverVars

LEMMA DecisionAnswerPreserves ==
    ASSUME PageInv, NEW c \in calls, DecisionAnswer(c) \/ DecisionLost(c)
    PROVE  PageInv'
<1>1. c \in Call /\ c.op = "decide" /\ c.id \in Proposal
  BY DEF DecisionAnswer, DecisionLost, PageInv, PageTypeOK, CallFits, DecisionFits
<1>2. CASE selected' = selected /\ actions' = actions
  <2>1. EndDecision(c) /\ UNCHANGED serverVars
    BY DEF DecisionAnswer, DecisionLost
  <2> QED
    BY <1>1, <1>2, <2>1, EndDecisionPreserves DEF PageInv, PageTypeOK, SessionFits,
       DataIsOfTheSession
<1>3. CASE session # 0 /\ Render(c.id, FALSE, c) /\ EndDecision(c) /\ UNCHANGED serverVars
  <2> DEFINE view == [id |-> c.id, open |-> FALSE, as |-> c.as, by |-> c.op]
  <2>1. selected' = view /\ actions' = FALSE
    BY <1>3 DEF Render
  <2>2. view \in View /\ view.by = "decide"
    BY <1>1 DEF View, Call
  <2> HIDE DEF view
  <2> QED
    BY <1>1, <1>3, <2>1, <2>2, EndDecisionPreserves
<1> QED
  BY <1>2, <1>3 DEF DecisionAnswer, DecisionLost

-----------------------------------------------------------------------------
LEMMA PageStepPreserves == PageInv /\ [Next]_vars => PageInv'
<1> SUFFICES ASSUME PageInv, [Next]_vars
             PROVE  PageInv'
  OBVIOUS
<1>1. CASE UserStep
  BY <1>1, SelectPreserves, BrowsePreserves, OpenDialogPreserves, CancelPreserves,
     ConfirmPreserves, LogoutPreserves, LoginPreserves DEF UserStep
<1>2. CASE Refresh
  BY <1>2, RefreshPreserves
<1>3. ASSUME NEW c \in calls, Serve(c)
      PROVE  PageInv'
  BY <1>3, ServePreserves
<1>4. ASSUME NEW c \in calls, Answer(c)
      PROVE  PageInv'
  <2>1. CASE Denied(c) \/ OutdatedAnswer(c) \/ LogoutAnswer(c) \/ Fail(c)
    BY <2>1, DeniedPreserves, OutdatedAnswerPreserves, LogoutAnswerPreserves, FailPreserves
  <2>2. CASE SelectAnswer(c) \/ RefreshAnswer(c) \/ ListAnswer(c)
    BY <2>2, SelectAnswerPreserves, RefreshAnswerPreserves, ListAnswerPreserves
  <2>3. CASE LoginAnswer(c) \/ SessionAnswer(c)
    BY <2>3, LoginAnswerPreserves, SessionAnswerPreserves
  <2>4. CASE DecisionAnswer(c) \/ DecisionLost(c)
    BY <2>4, DecisionAnswerPreserves
  <2> QED
    BY <1>4, <2>1, <2>2, <2>3, <2>4 DEF Answer
<1>5. CASE SessionEnds \/ \E p \in Proposal : SettledElsewhere(p)
  BY <1>5, ElsewherePreserves
<1>6. CASE UNCHANGED vars
  <2>1. PageTypeOK'
    BY <1>6 DEF PageTypeOK, PageInv, vars, serverVars, viewVars, dialogVars
  <2>2. ASSUME NEW x \in calls'
        PROVE  CallFits(x)'
    BY <1>6, <2>2 DEF CallFits, EntryFits, ReadFits, DecisionFits, PageInv, vars, serverVars,
       viewVars, dialogVars
  <2>3. OneOfEach'
    BY <1>6 DEF OneOfEach, Rivals, PageInv, vars
  <2> QED
    BY <1>6, <2>1, <2>2, <2>3 DEF PageInv, SessionFits, SentIsLocked, DialogIsAboutSelection,
       DataIsOfTheSession, vars, serverVars, viewVars, dialogVars
<1> QED
  BY <1>1, <1>2, <1>3, <1>4, <1>5, <1>6 DEF Next

\* Whatever the user clicks and in whatever order answers arrive, the calls under
\* way fit what the page shows (app.js:57, 287, 300 and 380).
THEOREM PageIsConsistent == Spec => []PageInv
<1>1. Init => PageInv
  BY PageStarts
<1>2. PageInv /\ [Next]_vars => PageInv'
  BY PageStepPreserves
<1> QED
  BY <1>1, <1>2, PTL DEF Spec

\* While the confirmation is open, the page behind it shows the very proposal it
\* is about, still open to decision (app.js:287, 300 and 314).
THEOREM DialogShowsItsProposal == Spec => []DialogIsAboutSelection
<1>1. PageInv => DialogIsAboutSelection
  BY DEF PageInv
<1> QED
  BY <1>1, PageIsConsistent, PTL

\* A page handed to another reviewer shows no data read for the one before, the
\* answer to a decision excepted (app.js:57, 117, 289 and 391).
THEOREM PageShowsItsSession == Spec => []DataIsOfTheSession
<1>1. PageInv => DataIsOfTheSession
  BY DEF PageInv
<1> QED
  BY <1>1, PageIsConsistent, PTL

-----------------------------------------------------------------------------
\* Only Confirm sends a decision: what any other step awaits was awaited before,
\* is a reply to it, is outdated, or is a call of another kind.
NoNewDecision ==
    \A x \in calls' : x.op = "decide" => \E c \in calls : c.op = "decide" /\ c.id = x.id

LEMMA SentIsNoDecision ==
    ASSUME PageInv, NEW others \in SUBSET calls, NEW o \in Op \ {"decide"}, NEW chain, NEW p,
           Send(o, chain, p, others)
    PROVE  NoNewDecision
<1>1. NewCall(o, chain, p).op # "decide"
  BY DEF NewCall
<1>2. ASSUME NEW x \in Outdate({o}, others)
      PROVE  x \in others \/ x.op # "decide"
  BY <1>2, OutdatedIs DEF Outdate, PageInv, PageTypeOK
<1> QED
  BY <1>1, <1>2 DEF Send, NoNewDecision

LEMMA RefreshIsNoDecision ==
    ASSUME PageInv, NEW others \in SUBSET calls, NEW view, SendRefresh(view, others)
    PROVE  NoNewDecision
<1>1. "list" \in Op \ {"decide"} /\ "detail" \in Op \ {"decide"}
  BY DEF Op
<1> QED
  BY <1>1, SentIsNoDecision DEF SendRefresh

LEMMA RepliedIsNoDecision ==
    ASSUME PageInv, NEW c \in calls, NEW r, Replied(c, r)
    PROVE  NoNewDecision
<1> DEFINE y == [c EXCEPT !.reply = r]
<1>1. y.op = c.op /\ y.id = c.id
  BY ReplyIs
<1>2. calls' = (calls \ {c}) \union {y}
  BY DEF Replied
<1> HIDE DEF y
<1> QED
  BY <1>1, <1>2 DEF NoNewDecision

LEMMA EndedIsNoDecision ==
    ASSUME PageInv, NEW c \in calls, ShowLogin(c) \/ calls' \subseteq calls
    PROVE  NoNewDecision
<1>1. ASSUME NEW x \in Outdate({"detail", "list"}, calls \ {c})
      PROVE  x \in calls \/ x.op # "decide"
  BY <1>1, OutdatedIs DEF Outdate, PageInv, PageTypeOK
<1> QED
  BY <1>1 DEF ShowLogin, AllOutdated, NoNewDecision

LEMMA OnlyConfirmDecides ==
    ASSUME PageInv, [Next]_vars, ~Confirm
    PROVE  NoNewDecision
<1> USE DEF Op
<1>1. CASE UserStep
  <2>1. CASE \E p \in Proposal : Select(p)
    BY <2>1, SentIsNoDecision DEF Select
  <2>2. CASE Browse \/ Logout \/ Login
    BY <2>2, SentIsNoDecision DEF Browse, Logout, Login
  <2>3. CASE OpenDialog \/ Cancel
    BY <2>3 DEF OpenDialog, Cancel, NoNewDecision
  <2> QED
    BY <1>1, <2>1, <2>2, <2>3 DEF UserStep
<1>2. CASE Refresh
  BY <1>2, RefreshIsNoDecision DEF Refresh
<1>3. ASSUME NEW c \in calls, Serve(c)
      PROVE  NoNewDecision
  BY <1>3, RepliedIsNoDecision
     DEF Serve, Deny, ServeRead, ServeDecision, ServeLogin, ServeLogout
<1>4. ASSUME NEW c \in calls, Answer(c)
      PROVE  NoNewDecision
  <2> DEFINE others == calls \ {c}
  <2>1. CASE Denied(c) \/ OutdatedAnswer(c) \/ LogoutAnswer(c) \/ ListAnswer(c) \/ Fail(c)
    <3>1. ShowLogin(c) \/ Ends(c)
      BY <2>1 DEF Denied, OutdatedAnswer, LogoutAnswer, ListAnswer, Fail
    <3> QED
      BY <3>1, EndedIsNoDecision DEF Ends
  <2>2. CASE \/ SelectAnswer(c) \/ RefreshAnswer(c)
             \/ LoginAnswer(c) \/ SessionAnswer(c)
    <3>1. \/ Ends(c)
          \/ Send("list", c.chain, None, others)
          \/ Send("list", "refresh", None, others)
          \/ Send("session", "start", None, others)
          \/ Send("detail", c.chain, Linked, others)
      BY <2>2 DEF SelectAnswer, RefreshAnswer, LoginAnswer, SessionAnswer
    <3> QED
      BY <3>1, EndedIsNoDecision, SentIsNoDecision DEF Ends
  <2>3. CASE DecisionAnswer(c) \/ DecisionLost(c)
    <3>1. calls' = others \/ SendRefresh(selected', others)
      BY <2>3 DEF DecisionAnswer, DecisionLost, EndDecision
    <3> QED
      BY <3>1, EndedIsNoDecision, RefreshIsNoDecision
  <2> QED
    BY <1>4, <2>1, <2>2, <2>3 DEF Answer
<1>5. CASE SessionEnds \/ (\E p \in Proposal : SettledElsewhere(p)) \/ UNCHANGED vars
  BY <1>5 DEF SessionEnds, SettledElsewhere, vars, NoNewDecision
<1> QED
  BY <1>1, <1>2, <1>3, <1>4, <1>5 DEF Next

\* No other step counts a request, and a dialog begins with none.
LEMMA OnlyConfirmSends ==
    ASSUME PageInv, [Next]_vars, ~Confirm
    PROVE  sent' <= sent
<1>1. sent \in Nat
  BY DEF PageInv, PageTypeOK
<1>2. sent' \in {0, sent}
  <2>1. CASE UserStep
    BY <2>1 DEF UserStep, Select, Browse, OpenDialog, Cancel, Logout, Login, dialogVars
  <2>2. CASE Refresh
    BY <2>2 DEF Refresh, dialogVars
  <2>3. ASSUME NEW c \in calls, Serve(c)
        PROVE  sent' \in {0, sent}
    BY <2>3 DEF Serve, dialogVars
  <2>4. ASSUME NEW c \in calls, Answer(c)
        PROVE  sent' \in {0, sent}
    <3>1. CASE Denied(c) \/ LogoutAnswer(c) \/ Fail(c)
      BY <3>1 DEF Denied, LogoutAnswer, Fail, ShowLogin, dialogVars
    <3>2. CASE DecisionAnswer(c) \/ DecisionLost(c)
      BY <3>2 DEF DecisionAnswer, DecisionLost, EndDecision
    <3>3. CASE \/ OutdatedAnswer(c) \/ SelectAnswer(c) \/ RefreshAnswer(c)
               \/ ListAnswer(c) \/ LoginAnswer(c) \/ SessionAnswer(c)
      BY <3>3 DEF OutdatedAnswer, SelectAnswer, RefreshAnswer, ListAnswer, LoginAnswer,
         SessionAnswer, dialogVars
    <3> QED
      BY <2>4, <3>1, <3>2, <3>3 DEF Answer
  <2>5. CASE SessionEnds \/ (\E p \in Proposal : SettledElsewhere(p)) \/ UNCHANGED vars
    BY <2>5 DEF SessionEnds, SettledElsewhere, vars, dialogVars
  <2> QED
    BY <2>1, <2>2, <2>3, <2>4, <2>5 DEF Next
<1> QED
  BY <1>1, <1>2

\* A confirmation sends its decision once, for the proposal it shows, and while no
\* other decision is under way, that of an earlier session included (app.js:380).
THEOREM DecisionsAreSingle == Spec => OneDecisionAtATime
<1> DEFINE Single ==
       \A c \in calls' : c.op = "decide" =>
          \/ /\ sent' <= sent
             /\ \E d \in calls : d.op = "decide" /\ d.id = c.id
          \/ /\ sent = 0 /\ sent' = 1 /\ c.id = dialog
             /\ \A d \in calls : d.op # "decide"
<1>1. PageInv /\ [Next]_vars => [Single]_vars
  <2> SUFFICES ASSUME PageInv, [Next]_vars
               PROVE  Single
    OBVIOUS
  <2>1. CASE Confirm
    <3>1. \A d \in calls : d.op # "decide"
      BY <2>1 DEF PageInv, CallFits, DecisionFits, Confirm
    <3>2. calls' = calls \union {NewCall("decide", "user", confirmation)} /\ confirmation = dialog
      BY <2>1 DEF Confirm, SendDecision, Send, PageInv, DialogIsAboutSelection
    <3>3. NewCall("decide", "user", confirmation).id = dialog
      BY <3>2 DEF NewCall
    <3>4. sent = 0 /\ sent' = 1
      BY <2>1 DEF Confirm, SendDecision, PageInv, SentIsLocked
    <3> QED
      BY <3>1, <3>2, <3>3, <3>4
  <2>2. CASE ~Confirm
    BY <2>2, OnlyConfirmDecides, OnlyConfirmSends DEF NoNewDecision
  <2> QED
    BY <2>1, <2>2
<1> QED
  BY <1>1, PageIsConsistent, PTL DEF Spec, OneDecisionAtATime

==============================================================================
