------------------------------ MODULE SessionCenter ------------------------------
(***************************************************************************)
(* The session center (modules/session-center): one request for the        *)
(* Sessions at a time, a choice between those that may be resumed, with    *)
(* the lineage that rewinds leave, and the Session a start resolves to.    *)
(***************************************************************************)
EXTENDS Integers, Sequences, FiniteSets, SequencesExt

CONSTANTS
  SessionLists,  \* lists the Host answers, newest first: id, parent (0: none), subagent, blank
  SwitchBound \* bound: Sessions made current

VARIABLES
  center,   \* phase, the choices shown and the Session over which they opened, what is in
            \* front, whether the scope is active
  listing,  \* the request for the Sessions, and what it read
  whereabouts     \* the current Session, the one being resumed, switches so far

centerVars == <<center, listing, whereabouts>>

NoListing == [live |-> FALSE, read |-> <<>>, done |-> FALSE]

-----------------------------------------------------------------------------
(* Choices                                                                  *)

\* Subagents and the current Session stay out.
Resumable(s, current) == ~s.subagent /\ s.id # current

\* A fork names its parent, and a parent the forks that are offered beside it.
SessionChoices(sessions, current) ==
  LET visible == SelectSeq(sessions, LAMBDA s : Resumable(s, current))
  IN  [i \in DOMAIN visible |->
         [value |-> visible[i].id, forkedFrom |-> visible[i].parent,
          continuedIn |-> {s.id : s \in {r \in ToSet(visible) : r.parent = visible[i].id}}]]

\* resolveStartup: the newest Session with something in it; 0 when there is none.
Startup(sessions) ==
  LET roots == SelectSeq(sessions, LAMBDA s : ~s.blank /\ ~s.subagent)
  IN  IF roots = <<>> THEN 0 ELSE roots[1].id

-----------------------------------------------------------------------------
(* The surface                                                              *)

\* open: a request that is under way is joined.
OpenCenter ==
  /\ center.front = "none" /\ center.active
  /\ IF listing.live THEN UNCHANGED <<center, listing>>
     ELSE center' = [center EXCEPT !.phase = "loading", !.choices = <<>>] /\ listing' = [NoListing EXCEPT !.live = TRUE]
  /\ UNCHANGED whereabouts

SessionsRead ==
  /\ listing.live /\ ~listing.done
  /\ \E sessions \in SessionLists : listing' = [listing EXCEPT !.read = sessions, !.done = TRUE]
  /\ UNCHANGED <<center, whereabouts>>

IdleAgain == [center EXCEPT !.phase = "idle", !.choices = <<>>, !.over = 0]

\* What is current now is left out; nothing opens over another surface, or
\* when there is nothing to choose, or once the scope is gone.
SessionsAnswered ==
  /\ listing.live /\ listing.done /\ listing' = NoListing /\ UNCHANGED whereabouts
  /\ \E choices \in {SessionChoices(listing.read, whereabouts.current)} :
       center' = IF ~center.active THEN center
                 ELSE IF center.front # "none" \/ choices = <<>> THEN IdleAgain
                 ELSE [center EXCEPT !.phase = "open", !.front = "dialog", !.choices = choices, !.over = whereabouts.current]

SessionsFailed == listing.live /\ listing' = NoListing /\ center' = IdleAgain /\ UNCHANGED whereabouts

\* The choice closes the dialog and is resumed; Escape closes it.
ChooseSession ==
  /\ center.front = "dialog"
  /\ center' = [IdleAgain EXCEPT !.front = "none"]
  /\ \E i \in DOMAIN center.choices :
       whereabouts' = IF center.active THEN [whereabouts EXCEPT !.resuming = center.choices[i].value] ELSE whereabouts
  /\ UNCHANGED listing

CloseCenter == center.front = "dialog" /\ center' = [IdleAgain EXCEPT !.front = "none"] /\ UNCHANGED <<listing, whereabouts>>

\* Other surfaces come and go, and other Sessions become current; the scope is
\* disposed of.
Beside_ ==
  \/ /\ center.front # "dialog" /\ UNCHANGED <<listing, whereabouts>>
     /\ center' = [center EXCEPT !.front = IF @ = "none" THEN "other" ELSE "none"]
  \/ /\ whereabouts.resuming # 0 /\ whereabouts' = [whereabouts EXCEPT !.current = whereabouts.resuming, !.resuming = 0]
     /\ UNCHANGED <<center, listing>>
  \/ /\ whereabouts.switches < SwitchBound /\ center.front # "dialog"
     /\ \E id \in {s.id : s \in UNION {ToSet(sessions) : sessions \in SessionLists}} :
          whereabouts' = [whereabouts EXCEPT !.current = id, !.switches = @ + 1]
     /\ UNCHANGED <<center, listing>>
  \/ center.active /\ center' = [center EXCEPT !.active = FALSE] /\ UNCHANGED <<listing, whereabouts>>

-----------------------------------------------------------------------------

\* A start may resume the newest Session.
CenterInit ==
  /\ center = [phase |-> "idle", choices |-> <<>>, front |-> "none", over |-> 0, active |-> TRUE]
  /\ listing = NoListing
  /\ \E sessions \in SessionLists : whereabouts = [current |-> Startup(sessions), resuming |-> 0, switches |-> 0]

CenterNext ==
  \/ OpenCenter \/ SessionsRead \/ SessionsAnswered \/ SessionsFailed \/ ChooseSession \/ CloseCenter \/ Beside_

\* The phase tells what happens: loading while the one request is on its way,
\* open while the dialog is in front.  What is offered is not the Session that was
\* current when it opened, and both ends of a fork tell of each other.
CenterTruthful ==
  /\ center.active => (center.phase = "loading" <=> listing.live)
  /\ center.phase = "open" <=> center.front = "dialog"
  /\ \A i \in DOMAIN center.choices :
       /\ center.choices[i].value # center.over
       /\ \A j \in DOMAIN center.choices :
            center.choices[j].forkedFrom = center.choices[i].value <=>
              center.choices[j].value \in center.choices[i].continuedIn
=============================================================================
