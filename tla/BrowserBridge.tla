---------------------------- MODULE BrowserBridge ----------------------------
(***************************************************************************)
(* Which control connection holds which Chrome tab: the extension's        *)
(* BrowserBridge between the clients that the native host relays and the   *)
(* debugger of Chrome.  Every await of Chrome or of a page is a step of    *)
(* its own, so claims, closings, popups, the user's own detaching and the  *)
(* end of a connection interleave between any two of them.                 *)
(*                                                                         *)
(* A command on a page that changes no ownership, the cursor and the tab   *)
(* indicator are left out; only the time their removal takes is kept.      *)
(***************************************************************************)
EXTENDS Naturals, FiniteSets

CONSTANTS Client, Tab

VARIABLES
  session,    \* for each client: "none", "open", or "closed" while it is being ended
  owner,      \* this.owners: the client a tab is leased to
  target,     \* session.tabs: for each client and tab, its target
  chrome,     \* what Chrome knows of a tab: whether it exists, is debugged, is closing
  reports,    \* onDetach events Chrome has yet to deliver: a tab and the reason
  connected,  \* clients whose socket the native host has not reported closed
  announced   \* the targets a client believes attached, from the events sent to it

bridgeVars == <<session, owner, target, chrome, reports, connected, announced>>

Nobody == "nobody"

ASSUME BridgeAssumption == Nobody \notin Client

\* `kept` says that session.tabs has the target; an attachment in flight goes on
\* when the tab has been forgotten.
NoTarget == [ready |-> "none", kept |-> FALSE, popup |-> FALSE, closing |-> "no", ending |-> "no"]
Attaching(popup) == [NoTarget EXCEPT !.ready = "attaching", !.kept = TRUE, !.popup = popup]

BridgeInit ==
  /\ session = [c \in Client |-> "none"]
  /\ owner = [t \in Tab |-> Nobody]
  /\ target = [c \in Client |-> [t \in Tab |-> NoTarget]]
  /\ chrome \in [Tab -> [tab : {"open", "absent", "gone"}, debugged : {FALSE}, removing : {FALSE}]]
  /\ reports = {}
  /\ connected \in SUBSET Client
  /\ announced = [c \in Client |-> {}]

Has(c, t) == target[c][t].kept

-----------------------------------------------------------------------------
(* Attaching *)

\* Reserve the tab before awaiting Chrome; a target that exists is shared.
Reserve(c, t, popup) ==
  IF owner[t] \in {Nobody, c} /\ ~Has(c, t)
  THEN /\ owner' = [owner EXCEPT ![t] = c]
       /\ target' = [target EXCEPT ![c][t] = Attaching(popup)]
  ELSE UNCHANGED <<owner, target>>

\* A client claims a tab the user has open.  Its first message opens its session.
ClaimTab(c, t) ==
  /\ c \in connected /\ session[c] # "closed" /\ chrome[t].tab = "open"
  /\ session' = [session EXCEPT ![c] = "open"]
  /\ Reserve(c, t, FALSE)
  /\ UNCHANGED <<chrome, reports, connected, announced>>

\* A page of the client opens another tab, which is attached as well; if it
\* cannot be, the session ends.
Popup(opener, t) ==
  /\ chrome[opener].tab = "open" /\ chrome[t].tab = "absent"
  /\ chrome' = [chrome EXCEPT ![t].tab = "open"]
  /\ IF owner[opener] # Nobody /\ session[owner[opener]] = "open"
     THEN Reserve(owner[opener], t, TRUE)
     ELSE UNCHANGED <<owner, target>>
  /\ UNCHANGED <<session, reports, connected, announced>>

\* A step of the attachment: Chrome attaches, answers the commands, and the
\* page shows the cursor.  An ended session or a refusal undoes it; a page
\* that cannot show the cursor is no error.
Attached(c, t) ==
  /\ target[c][t].ready = "attaching"
  /\ LET attaches == chrome[t].tab = "open" /\ ~chrome[t].debugged
     IN  /\ chrome' = [chrome EXCEPT ![t].debugged = @ \/ attaches]
         /\ target' = [target EXCEPT ![c][t].ready =
                         IF ~attaches THEN "failed"
                         ELSE IF session[c] = "closed" THEN "undoing" ELSE "querying"]
  /\ UNCHANGED <<session, owner, reports, connected, announced>>

Queried(c, t) ==
  /\ target[c][t].ready = "querying"
  /\ target' = [target EXCEPT ![c][t].ready =
                  IF chrome[t].debugged /\ session[c] = "open" THEN "syncing" ELSE "undoing"]
  /\ UNCHANGED <<session, owner, chrome, reports, connected, announced>>

Announce(c, t) == announced' = [announced EXCEPT ![c] = @ \cup {t}]

Synced(c, t) ==
  /\ target[c][t].ready = "syncing"
  /\ IF session[c] = "closed"
     THEN target' = [target EXCEPT ![c][t].ready = "undoing"] /\ UNCHANGED announced
     ELSE target' = [target EXCEPT ![c][t].ready = "ready"] /\ Announce(c, t)
  /\ UNCHANGED <<session, owner, chrome, reports, connected>>

-----------------------------------------------------------------------------
(* The end of a session *)

\* close(): every target is ended once its attachment has settled.
EndSession(c, s, tg) ==
  IF s[c] # "open" THEN session' = s /\ target' = tg
  ELSE /\ session' = [s EXCEPT ![c] = "closed"]
       /\ target' = [tg EXCEPT ![c] =
                       [t \in Tab |-> [tg[c][t] EXCEPT !.ending = IF tg[c][t].kept THEN "waiting" ELSE @]]]

\* Mutant: the reservation is given back, the debugger stays attached.
UndoneAttached(c, t) ==
  /\ target[c][t].ready \in {"undoing", "failed"}
  /\ owner' = [owner EXCEPT ![t] = IF @ = c THEN Nobody ELSE @]
  /\ target' = [target EXCEPT ![c][t] = NoTarget]
  /\ UNCHANGED <<session, chrome, reports, connected, announced>>

\* The failed attachment is undone: presentation cleared, debugger detached,
\* the reservation given back.  A popup that fails ends the session.
Undone(c, t) ==
  /\ target[c][t].ready \in {"undoing", "failed"}
  /\ chrome' = [chrome EXCEPT ![t].debugged = @ /\ target[c][t].ready = "failed"]
  /\ owner' = [owner EXCEPT ![t] = IF @ = c THEN Nobody ELSE @]
  /\ LET rest == [target EXCEPT ![c][t] = NoTarget]
     IN  IF target[c][t].popup THEN EndSession(c, session, rest)
         ELSE target' = rest /\ UNCHANGED session
  /\ UNCHANGED <<reports, connected, announced>>

Settled(c, t) == target[c][t].ready = "ready"

\* Mutant: the end of control waits for a tab that is being closed.
EndClearedAfterClose(c, t) ==
  /\ target[c][t].ending = "waiting" /\ Settled(c, t)
  /\ target[c][t].closing = "no"
  /\ target' = [target EXCEPT ![c][t].ending = IF owner[t] = c THEN "detaching" ELSE "done"]
  /\ UNCHANGED <<session, owner, chrome, reports, connected, announced>>

\* The cursor and the indicator are gone, or 800 ms have passed.  The page
\* takes removals in order, so one asked for by closeTarget comes first.
EndCleared(c, t) ==
  /\ target[c][t].ending = "waiting" /\ Settled(c, t)
  /\ target[c][t].closing # "clearing"
  /\ target' = [target EXCEPT ![c][t].ending = IF owner[t] = c THEN "detaching" ELSE "done"]
  /\ UNCHANGED <<session, owner, chrome, reports, connected, announced>>

EndDetached(c, t) ==
  /\ target[c][t].ending = "detaching"
  /\ chrome' = [chrome EXCEPT ![t].debugged = FALSE]
  /\ owner' = [owner EXCEPT ![t] = IF @ = c THEN Nobody ELSE @]
  /\ target' = [target EXCEPT ![c][t].ending = "done"]
  /\ UNCHANGED <<session, reports, connected, announced>>

\* All targets are ended: the session is forgotten and the client told.
SessionEnded(c) ==
  /\ session[c] = "closed"
  /\ \A t \in Tab : Has(c, t) => target[c][t].ending = "done"
  /\ session' = [session EXCEPT ![c] = "none"]
  /\ target' = [target EXCEPT ![c] = [t \in Tab |-> NoTarget]]
  /\ announced' = [announced EXCEPT ![c] = {}]
  /\ UNCHANGED <<owner, chrome, reports, connected>>

\* The client releases its control, or the user stops all of it.
Release(c) ==
  /\ session[c] = "open"
  /\ EndSession(c, session, target)
  /\ UNCHANGED <<owner, chrome, reports, connected, announced>>

\* The native host reports that the client's socket is closed.
Disconnect(c) ==
  /\ c \in connected
  /\ connected' = connected \ {c}
  /\ EndSession(c, session, target)
  /\ UNCHANGED <<owner, chrome, reports, announced>>

-----------------------------------------------------------------------------
(* Closing a tab *)

CloseTarget(c, t) ==
  /\ c \in connected /\ session[c] = "open"
  /\ t \in announced[c] /\ Has(c, t) /\ target[c][t].closing = "no"
  /\ target' = [target EXCEPT ![c][t].closing = "clearing"]
  /\ UNCHANGED <<session, owner, chrome, reports, connected, announced>>

\* The presentation is cleared: Chrome is asked to remove the tab.  It refuses
\* one that is gone, and the target is no longer closing.
CloseCleared(c, t) ==
  /\ target[c][t].closing = "clearing"
  /\ IF chrome[t].tab = "open"
     THEN /\ target' = [target EXCEPT ![c][t].closing = "removing"]
          /\ chrome' = [chrome EXCEPT ![t].removing = TRUE]
     ELSE /\ target' = [target EXCEPT ![c][t].closing = "no"]
          /\ UNCHANGED chrome
  /\ UNCHANGED <<session, owner, reports, connected, announced>>

\* Forget a target and tell its client.
Forget(c, t) ==
  /\ target' = [target EXCEPT ![c][t] = IF @.ready = "ready" THEN NoTarget
                                         ELSE [@ EXCEPT !.kept = FALSE]]
  /\ owner' = [owner EXCEPT ![t] = Nobody]
  /\ announced' = [announced EXCEPT ![c] = @ \ {t}]

\* Chrome has removed the tab: forget the target unless the event was first.
CloseRemoved(c, t) ==
  /\ target[c][t].closing = "removing" /\ chrome[t].tab = "gone"
  /\ Forget(c, t)
  /\ UNCHANGED <<session, chrome, reports, connected>>

-----------------------------------------------------------------------------
(* Chrome and the user *)

\* The tab goes away, by itself or because it was asked for.
TabGone(t) ==
  /\ chrome[t].tab = "open"
  /\ chrome' = [chrome EXCEPT ![t] = [tab |-> "gone", debugged |-> FALSE, removing |-> FALSE]]
  /\ reports' = IF chrome[t].debugged
                THEN reports \cup {[tab |-> t, reason |-> "target_closed"]} ELSE reports
  /\ UNCHANGED <<session, owner, target, connected, announced>>

\* The user cancels the debugging of a tab.
UserDetaches(t) ==
  /\ chrome[t].debugged
  /\ chrome' = [chrome EXCEPT ![t].debugged = FALSE]
  /\ reports' = reports \cup {[tab |-> t, reason |-> "canceled_by_user"]}
  /\ UNCHANGED <<session, owner, target, connected, announced>>

\* onDetach: a closed tab leaves its session, any other reason ends it.
OnDetach(r) ==
  LET c == owner[r.tab] IN
  /\ r \in reports
  /\ reports' = reports \ {r}
  /\ CASE c = Nobody \/ session[c] # "open" -> UNCHANGED <<session, owner, target, announced>>
       [] c # Nobody /\ session[c] = "open" /\ r.reason # "target_closed" ->
            EndSession(c, session, target) /\ UNCHANGED <<owner, announced>>
       [] OTHER -> Forget(c, r.tab) /\ UNCHANGED session
  /\ UNCHANGED <<chrome, connected>>

\* What Chrome, the page and the timers bring about on their own.
Settles(c, t) ==
  \/ Attached(c, t) \/ Queried(c, t) \/ Synced(c, t) \/ Undone(c, t)
  \/ EndCleared(c, t) \/ EndDetached(c, t) \/ CloseCleared(c, t) \/ CloseRemoved(c, t)

BridgeNext ==
  \/ \E c \in Client : \/ Release(c) \/ Disconnect(c) \/ SessionEnded(c)
                       \/ \E t \in Tab : ClaimTab(c, t) \/ CloseTarget(c, t) \/ Settles(c, t)
  \/ \E t \in Tab : TabGone(t) \/ UserDetaches(t)
  \/ \E opener, t \in Tab : Popup(opener, t)
  \/ \E r \in reports : OnDetach(r)

\* Chrome answers and timers fire; nothing makes a user or a client act.
BridgeFairness ==
  \A c \in Client : /\ WF_bridgeVars(SessionEnded(c))
                    /\ \A t \in Tab : WF_bridgeVars(Settles(c, t))

BridgeSpec == BridgeInit /\ [][BridgeNext]_bridgeVars /\ BridgeFairness

-----------------------------------------------------------------------------
(* Properties *)

\* While a tab is open it is never debugged for nobody: its owner has the target
\* that will be detached, and any other client that has one is being ended.
DebuggedForOwner ==
  \A t \in Tab : chrome[t].tab = "open" =>
    /\ chrome[t].debugged => owner[t] # Nobody /\ Has(owner[t], t)
    /\ owner[t] # Nobody => session[owner[t]] # "none" /\ Has(owner[t], t)
    /\ \A c \in Client : Has(c, t) /\ owner[t] # c => session[c] = "closed"

\* Control that is being ended ends: every tab is given back.
ControlEnds ==
  \A c \in Client : session[c] = "closed" ~> session[c] = "none" /\ \A t \in Tab : owner[t] # c
=============================================================================
