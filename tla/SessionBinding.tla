--------------------------- MODULE SessionBinding ---------------------------
(***************************************************************************)
(* What Session replacement promises, without its machinery: the terminal  *)
(* shows one Session or the local draft; requests for another one are      *)
(* numbered, only the latest may be served, and serving it, or going back  *)
(* to the draft, takes a new epoch.                                        *)
(***************************************************************************)
EXTENDS Naturals

CONSTANTS Session, NoSession, MaxRequests

VARIABLES
  latest,     \* number of the last request made
  request,    \* the request that may still be served, 0 when there is none
  visible,    \* the Session shown, or NoSession
  servedBy,   \* the request that made it visible, 0 for the draft
  epoch       \* replacements so far

bindingVars == <<latest, request, visible, servedBy, epoch>>

Init ==
  /\ latest = 0
  /\ request = 0
  /\ visible = NoSession
  /\ servedBy = 0
  /\ epoch = 0

\* A new request displaces the one in flight.
Request ==
  /\ latest < MaxRequests
  /\ latest' = latest + 1
  /\ request' = latest + 1
  /\ UNCHANGED <<visible, servedBy, epoch>>

Serve(s) ==
  /\ request # 0
  /\ visible' = s
  /\ servedBy' = request
  /\ request' = 0
  /\ epoch' = epoch + 1
  /\ UNCHANGED latest

\* The request fails: what was visible stays visible.
Abandon ==
  /\ request # 0
  /\ request' = 0
  /\ UNCHANGED <<latest, visible, servedBy, epoch>>

\* Back to the draft, at the user's wish or at shutdown.
Draft ==
  /\ visible' = NoSession
  /\ servedBy' = 0
  /\ request' = 0
  /\ epoch' = epoch + 1
  /\ UNCHANGED latest

Next == Request \/ (\E s \in Session : Serve(s)) \/ Abandon \/ Draft

Spec == Init /\ [][Next]_bindingVars
=============================================================================
