------------------------ MODULE BrowserBridgeProofs ------------------------
(***************************************************************************)
(* Whom a debugged tab belongs to, for every number of clients and tabs.   *)
(*                                                                         *)
(* DebuggedForOwner is not inductive: that the debugger is attached for    *)
(* the owner depends on how far the owner's attachment is, and that a tab  *)
(* given back leaves no target behind on how far its end is.  BridgeInv    *)
(* says both of each client and each open tab.                             *)
(***************************************************************************)
EXTENDS BrowserBridge, TLAPS

-----------------------------------------------------------------------------
(* Types                                                                   *)

Target ==
  [ready : {"none", "attaching", "querying", "syncing", "undoing", "failed", "ready"},
   kept : BOOLEAN, popup : BOOLEAN,
   closing : {"no", "clearing", "removing"},
   ending : {"no", "waiting", "detaching", "done"}]

ChromeTab == [tab : {"open", "absent", "gone"}, debugged : BOOLEAN, removing : BOOLEAN]

TypeOK ==
  /\ session \in [Client -> {"none", "open", "closed"}]
  /\ owner \in [Tab -> Client \cup {Nobody}]
  /\ target \in [Client -> [Tab -> Target]]
  /\ chrome \in [Tab -> ChromeTab]
  /\ reports \subseteq [tab : Tab, reason : {"target_closed", "canceled_by_user"}]

\* Lemma: the records a target is made of.
LEMMA Targets ==
  /\ NoTarget \in Target
  /\ \A popup \in BOOLEAN : Attaching(popup) \in Target
  BY DEF NoTarget, Attaching, Target

-----------------------------------------------------------------------------
(* The invariant                                                           *)

\* An open tab t and its target tg, if any, at client c: the target is there
\* from the reservation until it is undone or the session has ended; Chrome
\* debugs no tab of an attachment in flight; a target is another client's only
\* when it has been given back in the course of the end of its session.
Control(c, t) ==
  LET tg == target[c][t] IN
  /\ tg.kept <=> tg.ready # "none"
  /\ tg.ready # "failed"
  /\ tg.ready = "attaching" => ~chrome[t].debugged
  /\ tg.kept => session[c] # "none"
  /\ owner[t] = c => tg.kept
  /\ tg.ending # "no" => tg.kept /\ session[c] = "closed"
  /\ tg.ending \in {"detaching", "done"} => tg.ready = "ready"
  /\ tg.ending = "done" => owner[t] # c
  /\ tg.kept /\ owner[t] # c => tg.ending = "done"

\* A tab that does not exist yet is nobody's.
Untouched(t) ==
  /\ owner[t] = Nobody
  /\ ~chrome[t].debugged
  /\ \A c \in Client : target[c][t] = NoTarget

Leased(t) ==
  /\ chrome[t].tab = "open" =>
       /\ chrome[t].debugged => owner[t] # Nobody
       /\ \A c \in Client : Control(c, t)
  /\ chrome[t].tab = "absent" => Untouched(t)

BridgeInv ==
  /\ TypeOK
  /\ \A t \in Tab : Leased(t)
  /\ \A r \in reports : r.reason = "target_closed" => chrome[r.tab].tab = "gone"

-----------------------------------------------------------------------------
(* What the actions do to one target                                       *)

\* Lemma: replacing the record of one tab keeps the types and the other tabs.
LEMMA SetTab ==
  ASSUME TypeOK, NEW t \in Tab, NEW v \in ChromeTab, chrome' = [chrome EXCEPT ![t] = v]
  PROVE  /\ chrome' \in [Tab -> ChromeTab]
         /\ chrome'[t] = v
         /\ \A x \in Tab : x # t => chrome'[x] = chrome[x]
  BY DEF TypeOK

\* Lemma: a tab that has a target exists or has existed.
LEMMA Exists ==
  ASSUME BridgeInv, NEW c \in Client, NEW t \in Tab, target[c][t] # NoTarget
  PROVE  chrome[t].tab # "absent"
  BY DEF BridgeInv, Leased, Untouched

\* Lemma: a tab whose owner, record and targets stay keeps the invariant, while
\* sessions stay or open.
LEMMA SameTab ==
  ASSUME BridgeInv, NEW t \in Tab, owner'[t] = owner[t], chrome'[t] = chrome[t],
         \A c \in Client :
           /\ target'[c][t] = target[c][t]
           /\ session'[c] = session[c] \/ (session'[c] = "open" /\ session[c] # "closed")
  PROVE  Leased(t)'
<1>1. CASE chrome[t].tab = "open"
  <2>1. \A c \in Client : Control(c, t)
    BY <1>1 DEF BridgeInv, Leased
  <2>2. \A c \in Client : Control(c, t)'
    BY <2>1 DEF Control
  <2> QED BY <1>1, <2>2 DEF BridgeInv, Leased
<1>2. CASE chrome[t].tab = "absent"
  BY <1>2 DEF BridgeInv, Leased, Untouched
<1> QED BY <1>1, <1>2 DEF Leased

\* Lemma: a step that changes one target, and at most the owner and the record
\* of its tab, has to keep the invariant of that tab.
LEMMA OneTarget ==
  ASSUME BridgeInv, TypeOK', NEW c \in Client, NEW t \in Tab, UNCHANGED <<session, reports>>,
         \A d \in Client, x \in Tab : d # c \/ x # t => target'[d][x] = target[d][x],
         \A x \in Tab : x # t => owner'[x] = owner[x] /\ chrome'[x] = chrome[x],
         chrome[t].tab = "gone" => chrome'[t].tab = "gone",
         Leased(t)'
  PROVE  BridgeInv'
<1>1. \A x \in Tab : x # t => Leased(x)'
  BY SameTab
<1>2. \A r \in reports : r \in [tab : Tab, reason : {"target_closed", "canceled_by_user"}]
  BY DEF BridgeInv, TypeOK
<1>3. \A r \in reports : r.reason = "target_closed" => chrome'[r.tab].tab = "gone"
  BY <1>2 DEF BridgeInv
<1> QED BY <1>1, <1>3 DEF BridgeInv

\* What ending the session of c, from sessions s and targets tg, leaves.
Ended(c, s, tg) ==
  /\ session' \in [Client -> {"none", "open", "closed"}]
  /\ target' \in [Client -> [Tab -> Target]]
  /\ \A d \in Client : session'[d] = IF d = c /\ s[c] = "open" THEN "closed" ELSE s[d]
  /\ \A d \in Client, t \in Tab :
       target'[d][t] = IF d = c /\ s[c] = "open" /\ tg[c][t].kept
                       THEN [tg[c][t] EXCEPT !.ending = "waiting"] ELSE tg[d][t]

\* Lemma: ending a session ends its targets and nothing else.
LEMMA Ending ==
  ASSUME NEW c \in Client, NEW s \in [Client -> {"none", "open", "closed"}],
         NEW tg \in [Client -> [Tab -> Target]], EndSession(c, s, tg)
  PROVE  Ended(c, s, tg)
<1>1. CASE s[c] # "open"
  BY <1>1 DEF EndSession, Ended
<1>2. CASE s[c] = "open"
  <2> DEFINE ended(t) == [tg[c][t] EXCEPT !.ending = IF tg[c][t].kept THEN "waiting" ELSE @]
  <2>1. \A t \in Tab : /\ tg[c][t] \in Target
                       /\ ended(t) = IF tg[c][t].kept
                                     THEN [tg[c][t] EXCEPT !.ending = "waiting"] ELSE tg[c][t]
    BY DEF Target
  <2>2. ASSUME NEW t \in Tab PROVE ended(t) \in Target
    <3>1. tg[c][t] \in Target /\ [tg[c][t] EXCEPT !.ending = "waiting"] \in Target
      BY <2>1 DEF Target
    <3> HIDE DEF Target
    <3> QED BY <2>1, <3>1
  <2>3. /\ session' = [s EXCEPT ![c] = "closed"]
        /\ target' = [tg EXCEPT ![c] = [t \in Tab |-> ended(t)]]
    BY <1>2 DEF EndSession
  <2> HIDE DEF ended
  <2>4. /\ target' \in [Client -> [Tab -> Target]]
        /\ \A d \in Client, t \in Tab : target'[d][t] = IF d = c THEN ended(t) ELSE tg[d][t]
    BY <2>2, <2>3
  <2> QED BY <1>2, <2>1, <2>3, <2>4 DEF Ended
<1> QED BY <1>1, <1>2

\* Lemma: the end of an open session keeps the invariant of every tab.
LEMMA EndingLeased ==
  ASSUME BridgeInv, NEW c \in Client, EndSession(c, session, target), UNCHANGED <<owner, chrome>>
  PROVE  \A t \in Tab : Leased(t)'
<1> SUFFICES ASSUME NEW t \in Tab PROVE Leased(t)'
  OBVIOUS
<1>1. /\ session \in [Client -> {"none", "open", "closed"}]
      /\ target \in [Client -> [Tab -> Target]]
  BY DEF BridgeInv, TypeOK
<1>e. /\ \A d \in Client :
           session'[d] = IF d = c /\ session[c] = "open" THEN "closed" ELSE session[d]
      /\ \A d \in Client, x \in Tab :
           target'[d][x] = IF d = c /\ session[c] = "open" /\ target[c][x].kept
                           THEN [target[c][x] EXCEPT !.ending = "waiting"] ELSE target[d][x]
  BY <1>1, Ending DEF Ended
<1>2. /\ \A d \in Client :
           session'[d] = IF d = c /\ session[c] = "open" THEN "closed" ELSE session[d]
      /\ \A d \in Client :
           target'[d][t] = IF d = c /\ session[c] = "open" /\ target[c][t].kept
                           THEN [target[c][t] EXCEPT !.ending = "waiting"] ELSE target[d][t]
  BY <1>e
<1>3. CASE chrome[t].tab = "open"
  <2>1. ASSUME NEW d \in Client PROVE Control(d, t)'
    <3>1. Control(d, t)
      BY <1>3 DEF BridgeInv, Leased
    <3>2. CASE d = c /\ session[c] = "open" /\ target[c][t].kept
      <4>1. /\ target'[d][t] = [target[d][t] EXCEPT !.ending = "waiting"]
            /\ target[d][t] \in Target /\ session'[d] = "closed"
        BY <1>1, <1>2, <3>2
      <4>2. /\ target'[d][t].ready = target[d][t].ready /\ target'[d][t].kept
            /\ target'[d][t].ending = "waiting"
        BY <3>2, <4>1 DEF Target
      <4> QED BY <3>1, <3>2, <4>1, <4>2 DEF Control
    <3>3. CASE ~(d = c /\ session[c] = "open" /\ target[c][t].kept)
      <4>1. target'[d][t] = target[d][t]
        BY <1>2, <3>3
      <4>2. session'[d] = session[d] \/ (session'[d] = "closed" /\ session[d] = "open")
        BY <1>2
      <4> QED BY <3>1, <4>1, <4>2 DEF Control
    <3> QED BY <3>2, <3>3
  <2> QED BY <1>3, <2>1 DEF BridgeInv, Leased
<1>4. CASE chrome[t].tab = "absent"
  <2>1. \A d \in Client : target'[d][t] = target[d][t]
    BY <1>2, <1>4 DEF BridgeInv, Leased, Untouched, NoTarget
  <2> QED BY <1>4, <2>1 DEF BridgeInv, Leased, Untouched
<1> QED BY <1>3, <1>4 DEF Leased

-----------------------------------------------------------------------------
(* The steps                                                               *)

\* Lemma: at an open tab, the client whose attachment is in flight, or whose
\* target is not ended yet, is the owner; and a target of a client whose
\* session is not being ended is the owner's.
LEMMA OwnerOf ==
  ASSUME BridgeInv, NEW c \in Client, NEW t \in Tab, chrome[t].tab = "open", target[c][t].kept,
         target[c][t].ready # "ready" \/ target[c][t].ending # "done" \/ session[c] # "closed"
  PROVE  owner[t] = c /\ owner[t] # Nobody
  BY BridgeAssumption DEF BridgeInv, Leased, Control

\* Lemma: an attempt to reserve an open tab keeps the invariant: only a tab
\* without an owner, which Chrome debugs for nobody, is reserved.
LEMMA Reserved ==
  ASSUME BridgeInv, NEW c \in Client, NEW t \in Tab, NEW popup \in BOOLEAN,
         session[c] # "closed", session'[c] = "open", Reserve(c, t, popup),
         \A d \in Client : d # c => session'[d] = session[d],
         \/ chrome[t].tab = "open" /\ chrome'[t] = chrome[t]
         \/ chrome[t].tab = "absent" /\ chrome'[t].tab = "open" /\ ~chrome'[t].debugged,
         \A x \in Tab : x # t => chrome'[x] = chrome[x]
  PROVE  /\ owner' \in [Tab -> Client \cup {Nobody}]
         /\ target' \in [Client -> [Tab -> Target]]
         /\ \A x \in Tab : Leased(x)'
<1> USE BridgeAssumption
<1>t. TypeOK /\ target[c][t] \in Target
  BY DEF BridgeInv, TypeOK
<1>1. CASE owner[t] \in {Nobody, c} /\ ~Has(c, t)
  <2>1. /\ owner' = [owner EXCEPT ![t] = c]
        /\ target' = [target EXCEPT ![c][t] = Attaching(popup)]
    BY <1>1 DEF Reserve
  <2>2. /\ target' \in [Client -> [Tab -> Target]]
        /\ target'[c][t] = Attaching(popup)
        /\ \A d \in Client, x \in Tab : d # c \/ x # t => target'[d][x] = target[d][x]
    <3>1. Attaching(popup) \in Target
      BY Targets
    <3> HIDE DEF Attaching, Target
    <3> QED BY <1>t, <2>1, <3>1 DEF TypeOK
  <2>3. /\ owner' \in [Tab -> Client \cup {Nobody}] /\ owner'[t] = c
        /\ \A x \in Tab : x # t => owner'[x] = owner[x]
    BY <1>t, <2>1 DEF TypeOK
  <2>4. \A x \in Tab : x # t => Leased(x)'
    BY <2>2, <2>3, SameTab
  <2>5. /\ target'[c][t].ready = "attaching" /\ target'[c][t].kept
        /\ target'[c][t].ending = "no"
    BY <2>2 DEF Attaching, NoTarget
  <2>6. chrome'[t].tab = "open" /\ ~chrome'[t].debugged
    <3>1. CASE chrome[t].tab = "open"
      <4>1. owner[t] = Nobody
        BY <1>1, <3>1 DEF BridgeInv, Leased, Control, Has
      <4> QED BY <3>1, <4>1 DEF BridgeInv, Leased
    <3> QED BY <3>1
  <2>7. ASSUME NEW d \in Client PROVE Control(d, t)'
    <3>1. CASE d = c
      BY <2>3, <2>5, <2>6, <3>1 DEF Control
    <3>2. CASE d # c /\ chrome[t].tab = "open"
      <4>1. Control(d, t) /\ owner[t] # d
        BY <1>1, <3>2 DEF BridgeInv, Leased
      <4> QED BY <2>2, <2>3, <2>6, <3>2, <4>1 DEF Control
    <3>3. CASE d # c /\ chrome[t].tab = "absent"
      <4>1. target'[d][t] = NoTarget
        BY <2>2, <3>3 DEF BridgeInv, Leased, Untouched
      <4> QED BY <2>3, <2>6, <3>3, <4>1 DEF Control, NoTarget
    <3> QED BY <3>1, <3>2, <3>3
  <2>8. Leased(t)'
    BY <2>3, <2>6, <2>7 DEF Leased
  <2> QED BY <2>2, <2>3, <2>4, <2>8
<1>2. CASE ~(owner[t] \in {Nobody, c} /\ ~Has(c, t))
  <2>1. UNCHANGED <<owner, target>>
    BY <1>2 DEF Reserve
  <2>2. chrome[t].tab = "open"
    BY <1>2 DEF BridgeInv, Leased, Untouched, Has, NoTarget
  <2> QED BY <1>t, <2>1, <2>2, SameTab DEF TypeOK
<1> QED BY <1>1, <1>2

\* Lemma: a client that claims a tab keeps the invariant.
LEMMA ClaimStep ==
  ASSUME BridgeInv, NEW c \in Client, NEW t \in Tab, ClaimTab(c, t)
  PROVE  BridgeInv'
<1>1. session' \in [Client -> {"none", "open", "closed"}] /\ session'[c] = "open"
      /\ \A d \in Client : d # c => session'[d] = session[d]
  BY DEF ClaimTab, BridgeInv, TypeOK
<1>2. /\ owner' \in [Tab -> Client \cup {Nobody}]
      /\ target' \in [Client -> [Tab -> Target]]
      /\ \A x \in Tab : Leased(x)'
  BY <1>1, Reserved DEF ClaimTab
<1> QED BY <1>1, <1>2 DEF ClaimTab, BridgeInv, TypeOK

\* Lemma: so does a page that opens another tab.
LEMMA PopupStep ==
  ASSUME BridgeInv, NEW opener \in Tab, NEW t \in Tab, Popup(opener, t)
  PROVE  BridgeInv'
<1>t. TypeOK /\ chrome[t] \in ChromeTab
  BY DEF BridgeInv, TypeOK
<1>1. chrome' = [chrome EXCEPT ![t] = [chrome[t] EXCEPT !.tab = "open"]]
      /\ [chrome[t] EXCEPT !.tab = "open"] \in ChromeTab
  BY <1>t DEF Popup, ChromeTab
<1>2. /\ chrome' \in [Tab -> ChromeTab] /\ chrome'[t].tab = "open"
      /\ chrome'[t].debugged = chrome[t].debugged
      /\ \A x \in Tab : x # t => chrome'[x] = chrome[x]
  BY <1>t, <1>1, SetTab DEF ChromeTab
<1>3. Untouched(t) /\ chrome[t].tab = "absent"
  BY DEF BridgeInv, Leased, Popup
<1>4. \A r \in reports : r.reason = "target_closed" => chrome'[r.tab].tab = "gone"
  BY <1>2, <1>3, <1>t DEF BridgeInv, TypeOK
<1>5. CASE owner[opener] # Nobody /\ session[owner[opener]] = "open"
  <2>1. owner[opener] \in Client /\ Reserve(owner[opener], t, TRUE) /\ UNCHANGED session
    BY <1>5, <1>t DEF Popup, TypeOK
  <2>2. /\ owner' \in [Tab -> Client \cup {Nobody}]
        /\ target' \in [Client -> [Tab -> Target]]
        /\ \A x \in Tab : Leased(x)'
    BY <1>2, <1>3, <1>5, <2>1, Reserved DEF Untouched
  <2> QED BY <1>t, <1>2, <1>4, <2>1, <2>2 DEF Popup, BridgeInv, TypeOK
<1>6. CASE ~(owner[opener] # Nobody /\ session[owner[opener]] = "open")
  <2>1. UNCHANGED <<session, owner, target, reports>>
    BY <1>6 DEF Popup
  <2>2. \A x \in Tab : x # t => Leased(x)'
    BY <1>2, <2>1, SameTab
  <2>3. ASSUME NEW d \in Client PROVE Control(d, t)'
    <3>1. target'[d][t] = NoTarget /\ owner'[t] # d
      BY <1>3, <2>1, BridgeAssumption DEF Untouched
    <3> QED BY <3>1 DEF Control, NoTarget
  <2>4. Leased(t)'
    BY <1>2, <1>3, <2>3 DEF Leased, Untouched
  <2> QED BY <1>t, <1>2, <1>4, <2>1, <2>2, <2>4 DEF BridgeInv, TypeOK
<1> QED BY <1>5, <1>6

\* Lemma: the steps of an attachment that change no owner.
LEMMA AttachStep ==
  ASSUME BridgeInv, NEW c \in Client, NEW t \in Tab,
         Attached(c, t) \/ Queried(c, t) \/ Synced(c, t)
  PROVE  BridgeInv'
<1> DEFINE tg == target[c][t]
<1>t. TypeOK /\ tg \in Target /\ chrome[t] \in ChromeTab
  BY DEF BridgeInv, TypeOK
<1>1. UNCHANGED <<session, owner, reports>> /\ tg.ready \in {"attaching", "querying", "syncing"}
  BY DEF Attached, Queried, Synced
<1>2. PICK ready \in {"querying", "syncing", "undoing", "failed", "ready"} :
        /\ target' = [target EXCEPT ![c][t].ready = ready]
        /\ ready = "failed" =>
             tg.ready = "attaching" /\ ~(chrome[t].tab = "open" /\ ~chrome[t].debugged)
  BY DEF Attached, Queried, Synced
<1> DEFINE new == [tg EXCEPT !.ready = ready]
<1>3. /\ new \in Target /\ new.ready = ready /\ new.kept = tg.kept /\ new.ending = tg.ending
  BY <1>t DEF Target
<1>4. /\ target' \in [Client -> [Tab -> Target]] /\ target'[c][t] = new
      /\ \A d \in Client, x \in Tab : d # c \/ x # t => target'[d][x] = target[d][x]
  <2>1. target' = [target EXCEPT ![c][t] = new]
    BY <1>2
  <2> HIDE DEF new
  <2> QED BY <1>t, <1>3, <2>1 DEF TypeOK
<1>5. /\ chrome' \in [Tab -> ChromeTab] /\ chrome'[t].tab = chrome[t].tab
      /\ chrome'[t].debugged => chrome[t].debugged \/ tg.ready = "attaching"
      /\ \A x \in Tab : x # t => chrome'[x] = chrome[x]
  <2>1. CASE Queried(c, t) \/ Synced(c, t)
    BY <1>t, <2>1 DEF Queried, Synced, TypeOK
  <2>2. CASE Attached(c, t)
    <3>1. PICK b \in BOOLEAN : chrome' = [chrome EXCEPT ![t] = [chrome[t] EXCEPT !.debugged = b]]
      BY <1>t, <2>2 DEF Attached, ChromeTab
    <3>2. [chrome[t] EXCEPT !.debugged = b] \in ChromeTab
      BY <1>t DEF ChromeTab
    <3> QED BY <1>t, <2>2, <3>1, <3>2, SetTab DEF Attached, ChromeTab
  <2> QED BY <2>1, <2>2
<1>6. chrome[t].tab # "absent"
  BY <1>1, Exists DEF NoTarget
<1>7. CASE chrome[t].tab = "open"
  <2>1. \A d \in Client : Control(d, t)
    BY <1>7 DEF BridgeInv, Leased
  <2>2. tg.kept /\ tg.ending \notin {"detaching", "done"}
    BY <1>1, <2>1 DEF Control
  <2>3. owner[t] = c /\ owner[t] # Nobody
    BY <1>7, <2>2, OwnerOf
  <2>4. ready # "failed"
    BY <1>2, <1>7, <2>1 DEF Control
  <2>5. Control(c, t)'
    BY <1>1, <1>2, <1>3, <1>4, <2>1, <2>2, <2>3, <2>4 DEF Control
  <2>6. ASSUME NEW d \in Client, d # c PROVE Control(d, t)'
    <3>1. target'[d][t] = target[d][t]
      BY <1>4, <2>6
    <3>2. Control(d, t) /\ target[d][t].ready # "attaching"
      BY <2>1, <2>3, <2>6 DEF Control
    <3> QED BY <1>1, <3>1, <3>2 DEF Control
  <2>7. Leased(t)'
    BY <1>1, <1>5, <1>7, <2>3, <2>5, <2>6 DEF Leased
  <2> QED BY <1>t, <1>1, <1>4, <1>5, <2>7, OneTarget DEF TypeOK
<1>8. CASE chrome[t].tab = "gone"
  <2>1. Leased(t)'
    BY <1>5, <1>8 DEF Leased
  <2> QED BY <1>t, <1>1, <1>4, <1>5, <2>1, OneTarget DEF TypeOK
<1> QED BY <1>t, <1>6, <1>7, <1>8 DEF ChromeTab

\* Lemma: undoing a failed attachment gives the tab back, not debugged; when
\* the attachment was a popup's, its session is then ended.
LEMMA UndoneStep ==
  ASSUME BridgeInv, NEW c \in Client, NEW t \in Tab, Undone(c, t)
  PROVE  BridgeInv'
<1> USE BridgeAssumption
<1> DEFINE tg == target[c][t]
           rest == [target EXCEPT ![c][t] = NoTarget]
<1>t. TypeOK /\ tg \in Target /\ chrome[t] \in ChromeTab
  BY DEF BridgeInv, TypeOK
<1>1. tg.ready \in {"undoing", "failed"} /\ UNCHANGED reports
  BY DEF Undone
<1>2. /\ rest \in [Client -> [Tab -> Target]] /\ rest[c][t] = NoTarget
      /\ \A d \in Client, x \in Tab : d # c \/ x # t => rest[d][x] = target[d][x]
  BY <1>t, Targets DEF TypeOK
<1>3. /\ owner' \in [Tab -> Client \cup {Nobody}]
      /\ owner'[t] = IF owner[t] = c THEN Nobody ELSE owner[t]
      /\ \A x \in Tab : x # t => owner'[x] = owner[x]
  BY <1>t DEF Undone, TypeOK
<1>4. /\ chrome' \in [Tab -> ChromeTab] /\ chrome'[t].tab = chrome[t].tab
      /\ chrome'[t].debugged => tg.ready = "failed"
      /\ \A x \in Tab : x # t => chrome'[x] = chrome[x]
  <2>1. PICK b \in BOOLEAN : /\ chrome' = [chrome EXCEPT ![t] = [chrome[t] EXCEPT !.debugged = b]]
                             /\ b => tg.ready = "failed"
    BY <1>t DEF Undone, ChromeTab
  <2>2. [chrome[t] EXCEPT !.debugged = b] \in ChromeTab
    BY <1>t DEF ChromeTab
  <2> QED BY <1>t, <2>1, <2>2, SetTab DEF ChromeTab
<1> HIDE DEF rest
<1>5. \/ target' = rest /\ UNCHANGED session
      \/ EndSession(c, session, rest)
  BY DEF Undone, rest
<1>6. /\ session' \in [Client -> {"none", "open", "closed"}]
      /\ target' \in [Client -> [Tab -> Target]]
      /\ \A d \in Client : session'[d] = session[d]
                        \/ (d = c /\ session[d] = "open" /\ session'[d] = "closed")
      /\ \A d \in Client, x \in Tab :
           \/ target'[d][x] = rest[d][x]
           \/ /\ d = c /\ session'[d] = "closed" /\ session[d] = "open" /\ rest[c][x].kept
              /\ target'[d][x] = [rest[d][x] EXCEPT !.ending = "waiting"]
  <2>1. CASE target' = rest /\ UNCHANGED session
    <3>1. session' \in [Client -> {"none", "open", "closed"}]
      BY <1>t, <2>1 DEF TypeOK
    <3>2. target' \in [Client -> [Tab -> Target]]
      BY <1>2, <2>1
    <3> QED BY <2>1, <3>1, <3>2
  <2>2. CASE EndSession(c, session, rest)
    <3>1. /\ session \in [Client -> {"none", "open", "closed"}]
          /\ rest \in [Client -> [Tab -> Target]]
      BY <1>t, <1>2 DEF TypeOK
    <3>2. /\ session' \in [Client -> {"none", "open", "closed"}]
          /\ target' \in [Client -> [Tab -> Target]]
          /\ \A d \in Client :
               session'[d] = IF d = c /\ session[c] = "open" THEN "closed" ELSE session[d]
          /\ \A d \in Client, x \in Tab :
               target'[d][x] = IF d = c /\ session[c] = "open" /\ rest[c][x].kept
                               THEN [rest[c][x] EXCEPT !.ending = "waiting"] ELSE rest[d][x]
      <4>1. Ended(c, session, rest)
        BY <2>2, <3>1, Ending
      <4> QED BY <4>1 DEF Ended
    <3>3. \A d \in Client : session'[d] = session[d]
                          \/ (d = c /\ session[d] = "open" /\ session'[d] = "closed")
      BY <3>2
    <3>4. ASSUME NEW d \in Client, NEW x \in Tab
          PROVE  \/ target'[d][x] = rest[d][x]
                 \/ /\ d = c /\ session'[d] = "closed" /\ session[d] = "open" /\ rest[c][x].kept
                    /\ target'[d][x] = [rest[d][x] EXCEPT !.ending = "waiting"]
      <4>1. CASE d = c /\ session[c] = "open" /\ rest[c][x].kept
        <5>1. target'[d][x] = [rest[d][x] EXCEPT !.ending = "waiting"] /\ session'[d] = "closed"
          BY <3>2, <4>1
        <5> QED BY <4>1, <5>1
      <4>2. CASE ~(d = c /\ session[c] = "open" /\ rest[c][x].kept)
        BY <3>2, <4>2
      <4> QED BY <4>1, <4>2
    <3> QED BY <3>2, <3>3, <3>4
  <2> QED BY <1>5, <2>1, <2>2
<1>7. chrome[t].tab # "absent"
  BY <1>1, Exists DEF NoTarget
<1>8. ASSUME NEW x \in Tab PROVE Leased(x)'
  <2>1. CASE chrome[x].tab = "open"
    <3>0. \A d \in Client : Control(d, x)
      BY <2>1 DEF BridgeInv, Leased
    <3>1. x = t => owner[t] = c /\ tg.ready # "failed"
      BY <1>1, <2>1, <3>0, OwnerOf DEF Control
    <3>2. chrome'[x].debugged => owner'[x] # Nobody
      BY <1>3, <1>4, <2>1, <3>1 DEF BridgeInv, Leased
    <3>3. ASSUME NEW d \in Client PROVE Control(d, x)'
      <4>1. CASE x = t /\ d = c
        <5>0. rest[d][x] = NoTarget /\ ~NoTarget.kept
          BY <1>2, <4>1 DEF NoTarget
        <5>1. target'[d][x] = NoTarget /\ owner'[x] # d
          BY <1>3, <1>6, <3>1, <4>1, <5>0
        <5> QED BY <5>1 DEF Control, NoTarget
      <4>2. CASE x = t /\ d # c
        <5>0. rest[d][x] = target[d][x]
          BY <1>2, <4>2
        <5>1. target'[d][x] = target[d][x] /\ session'[d] = session[d]
          BY <1>6, <4>2, <5>0
        <5>2. owner[x] # d /\ owner'[x] # d
          BY <1>3, <3>1, <4>2
        <5>3. target[d][x].ready # "attaching"
          BY <3>0, <5>2 DEF Control
        <5> QED BY <3>0, <5>1, <5>2, <5>3 DEF Control
      <4>3. CASE x # t
        <5>1. rest[d][x] = target[d][x] /\ owner'[x] = owner[x] /\ chrome'[x] = chrome[x]
              /\ target[d][x] \in Target
          BY <1>2, <1>3, <1>4, <1>t, <4>3 DEF TypeOK
        <5>2. CASE target'[d][x] = rest[d][x]
          <6>1. session'[d] = session[d] \/ (session[d] = "open" /\ session'[d] = "closed")
            BY <1>6
          <6> QED BY <3>0, <5>1, <5>2, <6>1 DEF Control
        <5>3. CASE /\ d = c /\ session'[d] = "closed" /\ session[d] = "open" /\ rest[c][x].kept
                   /\ target'[d][x] = [rest[d][x] EXCEPT !.ending = "waiting"]
          <6>1. /\ target'[d][x].ready = target[d][x].ready /\ target'[d][x].kept
                /\ target'[d][x].ending = "waiting" /\ target[d][x].kept
            BY <5>1, <5>3 DEF Target
          <6> QED BY <3>0, <5>1, <5>3, <6>1 DEF Control
        <5> QED BY <1>6, <5>2, <5>3
      <4> QED BY <4>1, <4>2, <4>3
    <3>4. chrome'[x].tab # "absent"
      BY <1>4, <2>1
    <3> QED BY <3>2, <3>3, <3>4 DEF Leased
  <2>2. CASE chrome[x].tab = "absent"
    <3>1. x # t /\ Untouched(x)
      BY <1>7, <2>2 DEF BridgeInv, Leased
    <3>2. ASSUME NEW d \in Client PROVE target'[d][x] = NoTarget
      <4>1. rest[d][x] = NoTarget /\ rest[c][x] = NoTarget /\ ~NoTarget.kept
        BY <1>2, <3>1 DEF Untouched, NoTarget
      <4> QED BY <1>6, <4>1
    <3> QED BY <1>3, <1>4, <2>2, <3>1, <3>2 DEF Leased, Untouched
  <2>3. CASE chrome[x].tab = "gone"
    BY <1>4, <2>3 DEF Leased
  <2> QED BY <1>t, <2>1, <2>2, <2>3 DEF TypeOK, ChromeTab
<1>9. \A r \in reports : r.reason = "target_closed" => chrome'[r.tab].tab = "gone"
  BY <1>4, <1>t DEF BridgeInv, TypeOK
<1> QED BY <1>t, <1>1, <1>3, <1>4, <1>6, <1>8, <1>9 DEF BridgeInv, TypeOK

\* Lemma: the steps that end a target.
LEMMA EndStep ==
  ASSUME BridgeInv, NEW c \in Client, NEW t \in Tab, EndCleared(c, t) \/ EndDetached(c, t)
  PROVE  BridgeInv'
<1> USE BridgeAssumption
<1> DEFINE tg == target[c][t]
<1>t. TypeOK /\ tg \in Target /\ chrome[t] \in ChromeTab
  BY DEF BridgeInv, TypeOK
<1>1. UNCHANGED <<session, reports>> /\ tg.ending \in {"waiting", "detaching"}
  BY DEF EndCleared, EndDetached
<1>2. PICK ending \in {"detaching", "done"} :
        /\ target' = [target EXCEPT ![c][t].ending = ending]
        /\ EndCleared(c, t) => /\ tg.ending = "waiting" /\ tg.ready = "ready"
                               /\ owner[t] = c => ending = "detaching"
        /\ EndDetached(c, t) => tg.ending = "detaching" /\ ending = "done"
  <2>1. CASE EndCleared(c, t)
    BY <2>1 DEF EndCleared, EndDetached, Settled
  <2>2. CASE EndDetached(c, t)
    BY <2>2 DEF EndCleared, EndDetached
  <2> QED BY <2>1, <2>2
<1> DEFINE new == [tg EXCEPT !.ending = ending]
<1>3. /\ new \in Target /\ new.ready = tg.ready /\ new.kept = tg.kept /\ new.ending = ending
  BY <1>t DEF Target
<1>4. /\ target' \in [Client -> [Tab -> Target]] /\ target'[c][t] = new
      /\ \A d \in Client, x \in Tab : d # c \/ x # t => target'[d][x] = target[d][x]
  <2>1. target' = [target EXCEPT ![c][t] = new]
    BY <1>2
  <2> HIDE DEF new
  <2> QED BY <1>t, <1>3, <2>1 DEF TypeOK
<1>5. /\ chrome' \in [Tab -> ChromeTab] /\ chrome'[t].tab = chrome[t].tab
      /\ chrome'[t].debugged => chrome[t].debugged /\ EndCleared(c, t)
      /\ \A x \in Tab : x # t => chrome'[x] = chrome[x]
  <2>1. CASE EndCleared(c, t)
    BY <1>t, <2>1 DEF EndCleared, TypeOK
  <2>2. CASE EndDetached(c, t)
    <3>1. chrome' = [chrome EXCEPT ![t] = [chrome[t] EXCEPT !.debugged = FALSE]]
      BY <2>2 DEF EndDetached
    <3>2. [chrome[t] EXCEPT !.debugged = FALSE] \in ChromeTab
      BY <1>t DEF ChromeTab
    <3> QED BY <1>t, <3>1, <3>2, SetTab DEF ChromeTab
  <2> QED BY <2>1, <2>2
<1>6. /\ owner' \in [Tab -> Client \cup {Nobody}]
      /\ owner'[t] = IF owner[t] = c /\ EndDetached(c, t) THEN Nobody ELSE owner[t]
      /\ \A x \in Tab : x # t => owner'[x] = owner[x]
  <2>1. CASE EndCleared(c, t)
    BY <1>t, <2>1 DEF EndCleared, EndDetached, TypeOK
  <2>2. CASE EndDetached(c, t)
    BY <1>t, <2>2 DEF EndDetached, TypeOK
  <2> QED BY <2>1, <2>2
<1>7. chrome[t].tab # "absent"
  BY <1>1, Exists DEF NoTarget
<1>8. CASE chrome[t].tab = "open"
  <2>1. \A d \in Client : Control(d, t)
    BY <1>8 DEF BridgeInv, Leased
  <2>2. owner[t] = c /\ tg.kept /\ session[c] = "closed"
    BY <1>1, <1>8, <2>1, OwnerOf DEF Control
  <2>3. /\ ending = "detaching" => EndCleared(c, t) /\ tg.ready = "ready"
        /\ ending = "done" => EndDetached(c, t)
        /\ EndCleared(c, t) => ~EndDetached(c, t)
    BY <1>2, <2>2
  <2>4. tg.ready = "ready"
    BY <1>2, <2>1 DEF Control
  <2>5. Control(c, t)'
    BY <1>1, <1>2, <1>3, <1>4, <1>6, <2>1, <2>2, <2>3, <2>4 DEF Control
  <2>6. ASSUME NEW d \in Client, d # c PROVE Control(d, t)'
    <3>1. target'[d][t] = target[d][t] /\ owner[t] # d /\ owner'[t] # d
      BY <1>4, <1>6, <2>2, <2>6
    <3>2. Control(d, t)
      BY <2>1
    <3> QED BY <1>1, <1>5, <3>1, <3>2 DEF Control
  <2>7. Leased(t)'
    BY <1>5, <1>6, <1>8, <2>2, <2>3, <2>5, <2>6 DEF Leased
  <2> QED BY <1>t, <1>1, <1>4, <1>5, <1>6, <2>7, OneTarget DEF TypeOK
<1>9. CASE chrome[t].tab = "gone"
  <2>1. Leased(t)'
    BY <1>5, <1>9 DEF Leased
  <2> QED BY <1>t, <1>1, <1>4, <1>5, <1>6, <2>1, OneTarget DEF TypeOK
<1> QED BY <1>t, <1>7, <1>8, <1>9 DEF ChromeTab

\* Lemma: a session whose targets are all ended is forgotten with them.
LEMMA SessionEndedStep ==
  ASSUME BridgeInv, NEW c \in Client, SessionEnded(c)
  PROVE  BridgeInv'
<1>t. TypeOK
  BY DEF BridgeInv
<1>1. UNCHANGED <<owner, chrome, reports>> /\ session[c] = "closed"
  BY DEF SessionEnded
<1>2. /\ session' \in [Client -> {"none", "open", "closed"}]
      /\ \A d \in Client : d # c => session'[d] = session[d]
  BY <1>t DEF SessionEnded, TypeOK
<1>3. /\ target' \in [Client -> [Tab -> Target]]
      /\ \A x \in Tab : target'[c][x] = NoTarget
      /\ \A d \in Client, x \in Tab : d # c => target'[d][x] = target[d][x]
  <2>1. NoTarget \in Target
    BY Targets
  <2> QED BY <1>t, <2>1 DEF SessionEnded, TypeOK
<1>4. ASSUME NEW x \in Tab PROVE Leased(x)'
  <2>1. CASE chrome[x].tab = "open"
    <3>1. \A d \in Client : Control(d, x)
      BY <2>1 DEF BridgeInv, Leased
    <3>2. owner[x] # c
      BY <3>1 DEF SessionEnded, Control, Has
    <3>3. Control(c, x)'
      BY <1>1, <1>3, <3>2 DEF Control, NoTarget
    <3>4. \A d \in Client : d # c => Control(d, x)'
      BY <1>1, <1>2, <1>3, <3>1 DEF Control
    <3> QED BY <1>1, <2>1, <3>3, <3>4 DEF BridgeInv, Leased
  <2>2. CASE chrome[x].tab # "open"
    BY <1>1, <1>3, <2>2 DEF BridgeInv, Leased, Untouched
  <2> QED BY <2>1, <2>2
<1> QED BY <1>t, <1>1, <1>2, <1>3, <1>4 DEF BridgeInv, TypeOK

\* Lemma: so is one that ends because its client lets go of it or is gone.
LEMMA EndingStep ==
  ASSUME BridgeInv, NEW c \in Client, EndSession(c, session, target),
         UNCHANGED <<owner, chrome>>, reports' \subseteq reports
  PROVE  BridgeInv'
<1>1. /\ session \in [Client -> {"none", "open", "closed"}]
      /\ target \in [Client -> [Tab -> Target]]
  BY DEF BridgeInv, TypeOK
<1>2. /\ session' \in [Client -> {"none", "open", "closed"}]
      /\ target' \in [Client -> [Tab -> Target]]
  BY <1>1, Ending DEF Ended
<1>3. \A t \in Tab : Leased(t)'
  BY EndingLeased
<1> QED BY <1>2, <1>3 DEF BridgeInv, TypeOK

\* Lemma: closing a tab, until Chrome has removed it, moves no lease.
LEMMA CloseStep ==
  ASSUME BridgeInv, NEW c \in Client, NEW t \in Tab, CloseTarget(c, t) \/ CloseCleared(c, t)
  PROVE  BridgeInv'
<1> DEFINE tg == target[c][t]
<1>t. TypeOK /\ tg \in Target /\ chrome[t] \in ChromeTab
  BY DEF BridgeInv, TypeOK
<1>1. UNCHANGED <<session, owner, reports>>
  BY DEF CloseTarget, CloseCleared
<1>2. tg # NoTarget
  BY DEF CloseTarget, CloseCleared, NoTarget, Has
<1>3. PICK closing \in {"no", "clearing", "removing"} :
        target' = [target EXCEPT ![c][t].closing = closing]
  BY DEF CloseTarget, CloseCleared
<1> DEFINE new == [tg EXCEPT !.closing = closing]
<1>4. new \in Target /\ new.ready = tg.ready /\ new.kept = tg.kept /\ new.ending = tg.ending
  BY <1>t DEF Target
<1>5. /\ target' \in [Client -> [Tab -> Target]] /\ target'[c][t] = new
      /\ \A d \in Client, x \in Tab : d # c \/ x # t => target'[d][x] = target[d][x]
  <2>1. target' = [target EXCEPT ![c][t] = new]
    BY <1>3
  <2> HIDE DEF new
  <2> QED BY <1>t, <1>4, <2>1 DEF TypeOK
<1>6. /\ chrome' \in [Tab -> ChromeTab] /\ chrome'[t].tab = chrome[t].tab
      /\ chrome'[t].debugged = chrome[t].debugged
      /\ \A x \in Tab : x # t => chrome'[x] = chrome[x]
  <2>1. CASE UNCHANGED chrome
    BY <1>t, <2>1 DEF TypeOK
  <2>2. CASE chrome' = [chrome EXCEPT ![t].removing = TRUE]
    <3>1. chrome' = [chrome EXCEPT ![t] = [chrome[t] EXCEPT !.removing = TRUE]]
      BY <2>2
    <3>2. [chrome[t] EXCEPT !.removing = TRUE] \in ChromeTab
      BY <1>t DEF ChromeTab
    <3> QED BY <1>t, <3>1, <3>2, SetTab DEF ChromeTab
  <2> QED BY <2>1, <2>2 DEF CloseTarget, CloseCleared
<1>7. chrome[t].tab # "absent"
  BY <1>2, Exists
<1>8. Leased(t)'
  <2>1. CASE chrome[t].tab = "open"
    <3>1. \A d \in Client : Control(d, t)
      BY <2>1 DEF BridgeInv, Leased
    <3>2. ASSUME NEW d \in Client PROVE Control(d, t)'
      <4> HIDE DEF new
      <4>1. CASE d = c
        BY <1>1, <1>4, <1>5, <1>6, <3>1, <4>1 DEF Control
      <4>2. CASE d # c
        <5>1. target'[d][t] = target[d][t]
          BY <1>5, <4>2
        <5> QED BY <1>1, <1>6, <3>1, <5>1 DEF Control
      <4> QED BY <4>1, <4>2
    <3> QED BY <1>1, <1>6, <2>1, <3>2 DEF BridgeInv, Leased
  <2>2. CASE chrome[t].tab = "gone"
    BY <1>6, <2>2 DEF Leased
  <2> QED BY <1>t, <1>7, <2>1, <2>2 DEF ChromeTab
<1> QED BY <1>t, <1>1, <1>5, <1>6, <1>8, OneTarget DEF TypeOK

\* Lemma: a target is forgotten only when its tab is gone, so no lease of an
\* open tab is lost with it.
LEMMA ForgetStep ==
  ASSUME BridgeInv, NEW c \in Client, NEW t \in Tab, Forget(c, t), chrome[t].tab = "gone",
         UNCHANGED <<session, chrome>>, reports' \subseteq reports
  PROVE  BridgeInv'
<1>t. TypeOK /\ target[c][t] \in Target
  BY DEF BridgeInv, TypeOK
<1> DEFINE new == IF target[c][t].ready = "ready" THEN NoTarget
                  ELSE [target[c][t] EXCEPT !.kept = FALSE]
<1>1. new \in Target
  <2>1. NoTarget \in Target
    BY Targets
  <2>2. [target[c][t] EXCEPT !.kept = FALSE] \in Target
    BY <1>t DEF Target
  <2> HIDE DEF Target
  <2> QED BY <2>1, <2>2
<1>2. target' = [target EXCEPT ![c][t] = new]
  BY DEF Forget
<1> HIDE DEF new
<1>3. /\ target' \in [Client -> [Tab -> Target]]
      /\ \A d \in Client, x \in Tab : d # c \/ x # t => target'[d][x] = target[d][x]
  BY <1>t, <1>1, <1>2 DEF TypeOK
<1>4. /\ owner' \in [Tab -> Client \cup {Nobody}]
      /\ \A x \in Tab : x # t => owner'[x] = owner[x]
  BY <1>t DEF Forget, TypeOK
<1>5. \A x \in Tab : x # t => Leased(x)'
  BY <1>3, <1>4, SameTab
<1>6. Leased(t)'
  BY DEF Leased
<1> QED BY <1>t, <1>3, <1>4, <1>5, <1>6 DEF BridgeInv, TypeOK

\* Lemma: a tab that goes away takes its lease with it.
LEMMA GoneStep ==
  ASSUME BridgeInv, NEW t \in Tab, TabGone(t)
  PROVE  BridgeInv'
<1>t. TypeOK
  BY DEF BridgeInv
<1> DEFINE new == [tab |-> "gone", debugged |-> FALSE, removing |-> FALSE]
<1>1. /\ chrome' \in [Tab -> ChromeTab] /\ chrome'[t].tab = "gone"
      /\ \A x \in Tab : x # t => chrome'[x] = chrome[x]
  <2>1. chrome' = [chrome EXCEPT ![t] = new] /\ new \in ChromeTab
    BY DEF TabGone, ChromeTab
  <2> QED BY <1>t, <2>1, SetTab
<1>2. /\ reports' \subseteq [tab : Tab, reason : {"target_closed", "canceled_by_user"}]
      /\ \A r \in reports' : r \in reports \/ r.tab = t
  BY <1>t DEF TabGone, TypeOK
<1>3. UNCHANGED <<session, owner, target>>
  BY DEF TabGone
<1>4. \A x \in Tab : x # t => Leased(x)'
  BY <1>1, <1>3, SameTab
<1>5. Leased(t)'
  BY <1>1 DEF Leased
<1>6. \A r \in reports' : r.reason = "target_closed" => chrome'[r.tab].tab = "gone"
  BY <1>1, <1>2, <1>t DEF BridgeInv, TypeOK
<1> QED BY <1>t, <1>1, <1>2, <1>3, <1>4, <1>5, <1>6 DEF BridgeInv, TypeOK

\* Lemma: the user cancels the debugging of a tab; its lease stays until the
\* bridge hears of it.
LEMMA DetachesStep ==
  ASSUME BridgeInv, NEW t \in Tab, UserDetaches(t)
  PROVE  BridgeInv'
<1>t. TypeOK /\ chrome[t] \in ChromeTab
  BY DEF BridgeInv, TypeOK
<1>1. /\ chrome' \in [Tab -> ChromeTab] /\ chrome'[t].tab = chrome[t].tab
      /\ ~chrome'[t].debugged
      /\ \A x \in Tab : x # t => chrome'[x] = chrome[x]
  <2>1. chrome' = [chrome EXCEPT ![t] = [chrome[t] EXCEPT !.debugged = FALSE]]
    BY DEF UserDetaches
  <2>2. [chrome[t] EXCEPT !.debugged = FALSE] \in ChromeTab
    BY <1>t DEF ChromeTab
  <2> QED BY <1>t, <2>1, <2>2, SetTab DEF ChromeTab
<1>2. /\ reports' \subseteq [tab : Tab, reason : {"target_closed", "canceled_by_user"}]
      /\ \A r \in reports' : r.reason = "target_closed" => r \in reports
  BY <1>t DEF UserDetaches, TypeOK
<1>3. UNCHANGED <<session, owner, target>> /\ chrome[t].debugged
  BY DEF UserDetaches
<1>4. \A x \in Tab : x # t => Leased(x)'
  BY <1>1, <1>3, SameTab
<1>5. Leased(t)'
  <2>1. CASE chrome[t].tab = "open"
    <3>1. \A d \in Client : Control(d, t)'
      BY <1>1, <1>3, <2>1 DEF BridgeInv, Leased, Control
    <3> QED BY <1>1, <2>1, <3>1 DEF Leased
  <2>2. CASE chrome[t].tab # "open"
    BY <1>1, <1>3, <2>2 DEF BridgeInv, Leased, Untouched
  <2> QED BY <2>1, <2>2
<1>6. \A r \in reports' : r.reason = "target_closed" => chrome'[r.tab].tab = "gone"
  BY <1>1, <1>2, <1>t DEF BridgeInv, TypeOK
<1> QED BY <1>t, <1>1, <1>2, <1>3, <1>4, <1>5, <1>6 DEF BridgeInv, TypeOK

\* Lemma: what the bridge does when Chrome reports that debugging has stopped.
LEMMA OnDetachStep ==
  ASSUME BridgeInv, NEW r \in reports, OnDetach(r)
  PROVE  BridgeInv'
<1> USE BridgeAssumption
<1> DEFINE c == owner[r.tab]
<1>t. /\ TypeOK /\ r.tab \in Tab
      /\ r.reason = "target_closed" => chrome[r.tab].tab = "gone"
  BY DEF BridgeInv, TypeOK
<1>1. UNCHANGED chrome /\ reports' \subseteq reports
  BY DEF OnDetach
<1>2. CASE c = Nobody \/ session[c] # "open"
  <2>1. UNCHANGED <<session, owner, target>>
    BY <1>2 DEF OnDetach
  <2>2. \A x \in Tab : Leased(x)'
    BY <1>1, <2>1, SameTab
  <2> QED BY <1>t, <1>1, <2>1, <2>2 DEF BridgeInv, TypeOK
<1>3. CASE ~(c = Nobody \/ session[c] # "open") /\ r.reason # "target_closed"
  <2>1. c \in Client
    BY <1>3, <1>t DEF TypeOK
  <2>2. EndSession(c, session, target) /\ UNCHANGED owner
    BY <1>3 DEF OnDetach
  <2> QED BY <1>1, <2>1, <2>2, EndingStep
<1>4. CASE ~(c = Nobody \/ session[c] # "open") /\ r.reason = "target_closed"
  <2>1. c \in Client
    BY <1>4, <1>t DEF TypeOK
  <2>2. Forget(c, r.tab) /\ UNCHANGED session
    BY <1>4 DEF OnDetach
  <2> QED BY <1>1, <1>4, <1>t, <2>1, <2>2, ForgetStep
<1> QED BY <1>2, <1>3, <1>4

-----------------------------------------------------------------------------
(* The theorem                                                             *)

\* Lemma: nothing is controlled at the start.
LEMMA BridgeStart == BridgeInit => BridgeInv
<1> SUFFICES ASSUME BridgeInit PROVE BridgeInv
  OBVIOUS
<1>1. NoTarget \in Target
  BY Targets
<1>2. \A t \in Tab : chrome[t] \in ChromeTab /\ ~chrome[t].debugged
  BY DEF BridgeInit, ChromeTab
<1>3. TypeOK
  BY <1>1, <1>2 DEF BridgeInit, TypeOK
<1>4. ASSUME NEW t \in Tab PROVE Leased(t)
  <2>1. owner[t] = Nobody /\ \A c \in Client : target[c][t] = NoTarget
    BY DEF BridgeInit
  <2>2. \A c \in Client : Control(c, t)
    BY <2>1, BridgeAssumption DEF Control, NoTarget
  <2> QED BY <1>2, <2>1, <2>2 DEF Leased, Untouched
<1> QED BY <1>3, <1>4 DEF BridgeInv, BridgeInit

\* Lemma: every step keeps the invariant.
LEMMA BridgeStep == BridgeInv /\ [BridgeNext]_bridgeVars => BridgeInv'
<1> SUFFICES ASSUME BridgeInv, [BridgeNext]_bridgeVars PROVE BridgeInv'
  OBVIOUS
<1>1. ASSUME NEW c \in Client, Release(c) PROVE BridgeInv'
  BY <1>1, EndingStep DEF Release
<1>2. ASSUME NEW c \in Client, Disconnect(c) PROVE BridgeInv'
  BY <1>2, EndingStep DEF Disconnect
<1>3. ASSUME NEW c \in Client, SessionEnded(c) PROVE BridgeInv'
  BY <1>3, SessionEndedStep
<1>4. ASSUME NEW c \in Client, NEW t \in Tab, ClaimTab(c, t) PROVE BridgeInv'
  BY <1>4, ClaimStep
<1>5. ASSUME NEW c \in Client, NEW t \in Tab, CloseTarget(c, t) PROVE BridgeInv'
  BY <1>5, CloseStep
<1>6. ASSUME NEW c \in Client, NEW t \in Tab, Settles(c, t) PROVE BridgeInv'
  <2>1. CASE Attached(c, t) \/ Queried(c, t) \/ Synced(c, t)
    BY <2>1, AttachStep
  <2>2. CASE Undone(c, t)
    BY <2>2, UndoneStep
  <2>3. CASE EndCleared(c, t) \/ EndDetached(c, t)
    BY <2>3, EndStep
  <2>4. CASE CloseCleared(c, t)
    BY <2>4, CloseStep
  <2>5. CASE CloseRemoved(c, t)
    BY <2>5, ForgetStep DEF CloseRemoved
  <2> QED BY <1>6, <2>1, <2>2, <2>3, <2>4, <2>5 DEF Settles
<1>7. ASSUME NEW t \in Tab, TabGone(t) PROVE BridgeInv'
  BY <1>7, GoneStep
<1>8. ASSUME NEW t \in Tab, UserDetaches(t) PROVE BridgeInv'
  BY <1>8, DetachesStep
<1>9. ASSUME NEW opener \in Tab, NEW t \in Tab, Popup(opener, t) PROVE BridgeInv'
  BY <1>9, PopupStep
<1>10. ASSUME NEW r \in reports, OnDetach(r) PROVE BridgeInv'
  BY <1>10, OnDetachStep
<1>11. CASE UNCHANGED bridgeVars
  <2>1. UNCHANGED <<session, owner, target, chrome, reports>>
    BY <1>11 DEF bridgeVars
  <2>2. \A t \in Tab : Leased(t)'
    BY <2>1, SameTab
  <2> QED BY <2>1, <2>2 DEF BridgeInv, TypeOK
<1> QED BY <1>1, <1>2, <1>3, <1>4, <1>5, <1>6, <1>7, <1>8, <1>9, <1>10, <1>11 DEF BridgeNext

\* Lemma: the invariant says whom an open tab is debugged for.
LEMMA BridgeHolds == BridgeInv => DebuggedForOwner
<1> SUFFICES ASSUME BridgeInv, NEW t \in Tab, chrome[t].tab = "open"
             PROVE  /\ chrome[t].debugged => owner[t] # Nobody /\ Has(owner[t], t)
                    /\ owner[t] # Nobody => session[owner[t]] # "none" /\ Has(owner[t], t)
                    /\ \A c \in Client : Has(c, t) /\ owner[t] # c => session[c] = "closed"
  BY DEF DebuggedForOwner
<1>1. /\ chrome[t].debugged => owner[t] # Nobody
      /\ \A c \in Client : Control(c, t)
  BY DEF BridgeInv, Leased
<1>2. owner[t] # Nobody => owner[t] \in Client
  BY DEF BridgeInv, TypeOK
<1>3. owner[t] # Nobody => session[owner[t]] # "none" /\ Has(owner[t], t)
  BY <1>1, <1>2 DEF Control, Has
<1>4. \A c \in Client : Has(c, t) /\ owner[t] # c => session[c] = "closed"
  BY <1>1 DEF Control, Has
<1> QED BY <1>1, <1>3, <1>4

\* While a tab is open Chrome debugs it for its owner only, whatever the order of
\* claims, popups, closings, the user's own detaching and the ends of sessions:
\* no tab stays debugged after it has been given back (bridge.js).
THEOREM TabsDebuggedForOwner == BridgeSpec => []DebuggedForOwner
<1>1. BridgeInit => BridgeInv
  BY BridgeStart
<1>2. BridgeInv /\ [BridgeNext]_bridgeVars => BridgeInv'
  BY BridgeStep
<1>3. BridgeInv => DebuggedForOwner
  BY BridgeHolds
<1> QED BY <1>1, <1>2, <1>3, PTL DEF BridgeSpec
=============================================================================
