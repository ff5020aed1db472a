----------------------------- MODULE Interaction -----------------------------
(***************************************************************************)
(* The Host's requests to the user, from SessionManager's pending table    *)
(* through the queue of InteractionProcess and the stack of surfaces to    *)
(* the keys that answer or interrupt them.  Everything between two awaits  *)
(* is one step: an answer settles the request, closes its surface and      *)
(* opens the next one before the key returns.                              *)
(*                                                                         *)
(* `ui` holds what the process and SurfaceHost keep.  A surface is named   *)
(* by its owner and, for a request, the page of it that it shows.          *)
(***************************************************************************)
EXTENDS Keymap, SequencesExt

CONSTANTS
  Request,      \* requests the Host may make, each once
  PagesOf,      \* for each request, what its pages take: "approval", or questions
  Pressed       \* the keys the user presses

\* Requests are told apart from what else owns a surface, and have a page.
ASSUME InteractionAssumption ==
  /\ Request \cap {"no request", "nobody", "editor", "rail", "menu"} = {}
  /\ \A r \in Request : PagesOf[r] # <<>>

VARIABLES
  asked,        \* SessionManager.pendingInteractions: what became of each request
  ui,           \* InteractionProcess and SurfaceHost
  cancels,      \* requests for which port.cancel() has not returned
  composing,    \* of the composer: image attached, rail focused, text, images prepared
  run,          \* the run of the Session, and whether its cancellation is in flight
  interrupting, \* InputCoordinator.interruptingTarget
  strayed,      \* history: the rail was left while a surface was open, or by a switch
  released      \* history: requests whose cancellation has returned

interactionVars == <<asked, ui, cancels, composing, run, interrupting, strayed, released>>

NoRequest == "no request"
Surface(owner, page, custom) == [owner |-> owner, page |-> page, custom |-> custom]
NoSurface == Surface("nobody", 0, FALSE)
Editor == Surface("editor", 0, FALSE)
Rail == Surface("rail", 0, FALSE)
Menu == Surface("menu", 0, FALSE)

InteractionInit ==
  /\ asked = [r \in Request |-> "new"]
  /\ ui = [queue |-> <<>>, key |-> NoRequest, phase |-> "idle", surface |-> NoSurface,
           stack |-> <<>>, base |-> NoSurface, focus |-> Editor]
  /\ cancels = {}
  /\ composing = [image |-> FALSE, rail |-> FALSE, text |-> FALSE, preparing |-> FALSE]
  /\ run = [working |-> FALSE, cancelling |-> FALSE]
  /\ interrupting = "nothing"
  /\ strayed = FALSE
  /\ released = {}

-----------------------------------------------------------------------------
(* SurfaceHost *)

ApplyActive(u) ==
  IF u.stack = <<>> THEN [u EXCEPT !.focus = u.base, !.base = NoSurface]
  ELSE [u EXCEPT !.focus = Last(u.stack)]

OpenSurface(u, s) ==
  ApplyActive([u EXCEPT !.base = IF u.stack = <<>> THEN u.focus ELSE u.base,
                        !.stack = Append(u.stack, s)])

\* Mutant: closing a surface leaves the focus where it is.
CloseUnfocused(u, s) == [u EXCEPT !.stack = RemoveFirst(u.stack, s)]

CloseSurface(u, s) ==
  IF s \notin Range(u.stack) THEN u
  ELSE LET closed == [u EXCEPT !.stack = RemoveFirst(u.stack, s)]
       IN  IF Last(u.stack) = s THEN ApplyActive(closed) ELSE closed

Top == IF ui.stack = <<>> THEN NoSurface ELSE Last(ui.stack)

Takes(s) ==
  CASE s.owner = "menu" -> "menu"
    [] s.custom -> "text-input"
    [] OTHER -> PagesOf[s.owner][s.page]

-----------------------------------------------------------------------------
(* InteractionProcess *)

\* The surface of a page replaces the one before it; a page of a request that
\* is no longer active is closed at once.
ShowPage(u, r, page, custom) ==
  LET s == Surface(r, page, custom)
      opened == OpenSurface(u, s)
  IN  IF u.key # r THEN CloseSurface(opened, s)
      ELSE [CloseSurface(opened, opened.surface) EXCEPT !.surface = s]

HideSurface(u, r) ==
  IF u.key # r THEN u ELSE [CloseSurface(u, u.surface) EXCEPT !.surface = NoSurface]

StartNext(u) ==
  IF u.key # NoRequest \/ u.queue = <<>> THEN u
  ELSE ShowPage([u EXCEPT !.key = Head(u.queue), !.phase = "open",
                          !.surface = NoSurface, !.queue = Tail(u.queue)],
                Head(u.queue), 1, FALSE)

\* Mutant: a request that comes while another one is shown is dropped.
EnqueueAlone(u, r) ==
  IF u.key # NoRequest THEN u ELSE StartNext([u EXCEPT !.queue = Append(u.queue, r)])

Enqueue(u, r) ==
  IF u.key = r \/ r \in Range(u.queue) THEN u
  ELSE StartNext([u EXCEPT !.queue = Append(u.queue, r)])

Idle(u) == [u EXCEPT !.key = NoRequest, !.phase = "idle", !.surface = NoSurface]

\* A request is over: its surface goes and the next one is shown; one that
\* still waits in the queue leaves it.
CompleteRequest(u, r) ==
  IF u.key # r THEN [u EXCEPT !.queue = RemoveFirst(u.queue, r)]
  ELSE StartNext(Idle(CloseSurface(u, u.surface)))

Retire(u) == Idle(CloseSurface([u EXCEPT !.queue = <<>>], u.surface))

-----------------------------------------------------------------------------
(* What an interrupt would reach, and the memory of the one requested last *)

Interruption(u, c, w) ==
  CASE u.key # NoRequest -> [action |-> "cancel-interaction", target |-> u.key]
    [] u.key = NoRequest /\ c.preparing ->
         [action |-> "cancel-image-preparation", target |-> "preparation"]
    [] u.key = NoRequest /\ ~c.preparing /\ w.working ->
         [action |-> "interrupt-session", target |-> "run"]
    [] OTHER -> [action |-> "none", target |-> "nothing"]

\* Every change of the Session, the composer or the interactions reconciles.
Reconcile ==
  interrupting' = IF interrupting # Interruption(ui', composing', run').target
                  THEN "nothing" ELSE interrupting

-----------------------------------------------------------------------------
(* The Host *)

HostAsks(r) ==
  /\ asked[r] = "new"
  /\ asked' = [asked EXCEPT ![r] = "pending"]
  /\ ui' = Enqueue(ui, r)
  /\ UNCHANGED <<cancels, composing, run, strayed, released>>
  /\ Reconcile

\* The Host aborts a request: it was cancelled or answered elsewhere.
HostWithdraws(r) ==
  /\ asked[r] = "pending"
  /\ asked' = [asked EXCEPT ![r] = "withdrawn"]
  /\ ui' = CompleteRequest(ui, r)
  /\ UNCHANGED <<cancels, composing, run, strayed, released>>
  /\ Reconcile

\* port.cancel() of an interaction returns.  Success completes the request,
\* whatever became of it; a failure reopens it if it is still being cancelled.
CancelReturns(r) ==
  /\ r \in cancels
  /\ cancels' = cancels \ {r}
  /\ \/ /\ ui' = CompleteRequest(ui, r)
        /\ released' = released \cup {r}
     \/ /\ ui' = IF ui.key = r /\ ui.phase = "cancelling"
                 THEN [ui EXCEPT !.phase = "open"] ELSE ui
        /\ UNCHANGED released
  /\ UNCHANGED <<asked, composing, run, strayed>>
  /\ Reconcile

\* Another Session becomes visible: the Host's requests are rejected and the
\* process is replaced.  The continuations of the old one find nothing active.
\* The new composer has not focused its rail, but the focus stays on the rail.
SessionSwitched ==
  /\ asked' = [r \in Request |-> IF asked[r] = "pending" THEN "retired" ELSE asked[r]]
  /\ ui' = Retire(ui)
  /\ cancels' = {}
  /\ run' = [working |-> FALSE, cancelling |-> FALSE]
  /\ \E text, image \in BOOLEAN :  \* the draft goes along only from a draft
       /\ text => composing.text
       /\ image => composing.image
       /\ composing' = [image |-> image, rail |-> FALSE, text |-> text, preparing |-> FALSE]
  /\ strayed' = (strayed \/ composing.rail)
  /\ UNCHANGED released
  /\ Reconcile

-----------------------------------------------------------------------------
(* The run, the composer and other surfaces change by themselves *)

RunChanges ==
  /\ \/ run' = [run EXCEPT !.working = ~@]
     \/ run.cancelling /\ run' = [run EXCEPT !.cancelling = FALSE]  \* failed
  /\ UNCHANGED <<asked, ui, cancels, composing, strayed, released>>
  /\ Reconcile

PreparationChanges ==
  /\ composing' = [composing EXCEPT !.preparing = ~@]
  /\ UNCHANGED <<asked, ui, cancels, run, strayed, released>>
  /\ Reconcile

\* An image read from the clipboard is attached.
ImageArrives ==
  /\ ~composing.image
  /\ composing' = [composing EXCEPT !.image = TRUE]
  /\ UNCHANGED <<asked, ui, cancels, run, strayed, released>>
  /\ Reconcile

\* A dialog that was being prepared opens, or is closed by its owner.
OtherSurface ==
  /\ ui' = IF Menu \in Range(ui.stack) THEN CloseSurface(ui, Menu) ELSE OpenSurface(ui, Menu)
  /\ UNCHANGED <<asked, cancels, composing, run, interrupting, strayed, released>>

-----------------------------------------------------------------------------
(* Keys *)

Context ==
  [flags |->
     {f \in Flag :
        CASE f = "interaction" -> ui.key # NoRequest
          [] f = "surface" -> ui.stack # <<>>
          [] f = "rail" -> composing.rail
          [] f = "working" -> run.working
          [] f = "imageBusy" -> composing.preparing
          [] f = "hasAttachments" -> composing.image
          [] f = "composerEmpty" -> ~composing.text
          [] OTHER -> FALSE},
   takes |-> IF ui.stack = <<>> THEN NoContext ELSE Takes(Top)]

Route(k) == ResolveTerminalInput(k, "press", Context)

\* Cancel the active interaction; the surface stays until the answer comes.
CancelInteraction ==
  /\ IF ui.phase = "cancelling" THEN UNCHANGED <<ui, cancels>>
     ELSE /\ ui' = [ui EXCEPT !.phase = "cancelling"]
          /\ cancels' = cancels \cup {ui.key}
  /\ UNCHANGED <<asked, composing, run, strayed, released>>

Interrupt ==
  LET i == Interruption(ui, composing, run)
  IN  IF i.action = "none" \/ interrupting = i.target
      THEN UNCHANGED interactionVars
      ELSE /\ interrupting' = i.target
           /\ CASE i.action = "cancel-interaction" -> CancelInteraction
                [] i.action = "cancel-image-preparation" ->
                     UNCHANGED <<asked, ui, cancels, composing, run, strayed, released>>
                [] OTHER -> /\ run' = [run EXCEPT !.cancelling = TRUE]
                            /\ UNCHANGED <<asked, ui, cancels, composing, strayed, released>>

\* Ctrl+C: clear the draft, else interrupt, and exit the second time (the
\* application ends; that is left to the model of startup and exit).
CancelOrExit ==
  IF ui.key = NoRequest /\ (composing.text \/ composing.image)
  THEN /\ composing' = [composing EXCEPT !.text = FALSE, !.image = FALSE]
       /\ UNCHANGED <<asked, ui, cancels, run, strayed, released>>
       /\ Reconcile
  ELSE Interrupt

\* Mutant: an answer is accepted while the cancellation is under way.
RespondAnyPhase(r) ==
  /\ IF ui.key = r
     THEN /\ asked' = [asked EXCEPT ![r] = "answered"]
          /\ ui' = CompleteRequest(ui, r)
     ELSE UNCHANGED <<asked, ui>>
  /\ UNCHANGED <<cancels, composing, run, strayed, released>>
  /\ Reconcile

\* The answer is complete: it settles the Host's request and closes the
\* surface.  A request that is being cancelled takes no answer.
Respond(r) ==
  /\ IF ui.key = r /\ ui.phase = "open"
     THEN /\ asked' = [asked EXCEPT ![r] = "answered"]
          /\ ui' = CompleteRequest(ui, r)
     ELSE UNCHANGED <<asked, ui>>
  /\ UNCHANGED <<cancels, composing, run, strayed, released>>
  /\ Reconcile

\* The page on top is answered: the next page, or the answer of the request.
AnswerPage(s) ==
  IF s.page = Len(PagesOf[s.owner]) THEN Respond(s.owner)
  ELSE /\ ui' = ShowPage(HideSurface(ui, s.owner), s.owner, s.page + 1, FALSE)
       /\ UNCHANGED <<asked, cancels, composing, run, interrupting, strayed, released>>

\* "Other...": the same question as a text.
AnswerOtherwise(s) ==
  /\ ui' = ShowPage(HideSurface(ui, s.owner), s.owner, s.page, TRUE)
  /\ UNCHANGED <<asked, cancels, composing, run, interrupting, strayed, released>>

ConfirmDialog(s) ==
  \/ s.owner # "menu" /\ AnswerPage(s)
  \/ s.owner # "menu" /\ Takes(s) \in {"choice", "multi-select"} /\ AnswerOtherwise(s)
  \/ s.owner = "menu" /\ OtherSurface

FocusAttachments ==
  /\ composing' = [composing EXCEPT !.rail = TRUE]
  /\ ui' = [ui EXCEPT !.focus = Rail]
  /\ strayed' = FALSE
  /\ UNCHANGED <<asked, cancels, run, released>>
  /\ Reconcile

\* Removing the last image leaves the rail, and so does the key for it: the
\* editor takes the focus whatever is on the stack.
LeaveRail(image) ==
  /\ composing' = [composing EXCEPT !.rail = FALSE, !.image = image]
  /\ ui' = [ui EXCEPT !.focus = Editor]
  /\ strayed' = (ui.stack # <<>>)
  /\ UNCHANGED <<asked, cancels, run, released>>
  /\ Reconcile

\* What no binding takes goes to the focused component.
Passthrough(k) ==
  CASE ui.focus.custom \/ (ui.focus.owner \in Request /\ Takes(ui.focus) = "text-input") ->
         k = "enter" /\ AnswerPage(ui.focus)
    [] ui.focus = Editor ->
         /\ composing' = [composing EXCEPT !.text = (k # "enter")]
         /\ UNCHANGED <<asked, ui, cancels, run, strayed, released>>
         /\ Reconcile
    [] OTHER -> UNCHANGED interactionVars

KeyPress(k) ==
  \E route \in {Route(k)} :
    CASE route = "interaction.cancel" \/ route = "run.interrupt" -> Interrupt
      [] route = "app.cancel-or-exit" -> CancelOrExit
      [] route = "attachments.focus" -> FocusAttachments
      [] route = "attachments.leave" -> LeaveRail(composing.image)
      [] route = "attachments.remove-selected" -> LeaveRail(FALSE)
      [] route = "surface.confirm" -> ConfirmDialog(Top)
      [] route = "surface.back" /\ Top = Menu -> OtherSurface
      [] route = Unmatched -> Passthrough(k)
      [] OTHER -> UNCHANGED interactionVars

InteractionNext ==
  \/ \E r \in Request : HostAsks(r) \/ HostWithdraws(r) \/ CancelReturns(r)
  \/ SessionSwitched \/ RunChanges \/ PreparationChanges \/ ImageArrives \/ OtherSurface
  \/ \E k \in Pressed : KeyPress(k)

InteractionSpec == InteractionInit /\ [][InteractionNext]_interactionVars

-----------------------------------------------------------------------------
(* Properties *)

InteractionTypeOK ==
  /\ asked \in [Request -> {"new", "pending", "answered", "withdrawn", "retired"}]
  /\ ui.queue \in Seq(Request) /\ ui.key \in Request \cup {NoRequest}
  /\ ui.phase \in {"idle", "open", "cancelling"}
  /\ cancels \subseteq Request
  /\ composing \in [{"image", "rail", "text", "preparing"} -> BOOLEAN]
  /\ interrupting \in Request \cup {"preparation", "run", "nothing"}
  /\ released \subseteq Request

\* Nothing the Host waits for is lost and nothing it no longer waits for stays:
\* the pending requests are the one shown and those queued behind it, each once,
\* except for one whose cancellation returned before the Host withdrew it; the
\* surface of the shown request is the only one of a request, and on the stack.
PendingShown ==
  /\ IsInjective(ui.queue) /\ ui.key \notin Range(ui.queue)
  /\ \A r \in Request :
       /\ r = ui.key \/ r \in Range(ui.queue) => asked[r] = "pending"
       /\ asked[r] = "pending" => r = ui.key \/ r \in Range(ui.queue) \/ r \in released
  /\ \A i \in 1 .. Len(ui.stack) :
       ui.stack[i].owner \in Request => ui.stack[i] = ui.surface /\ ui.surface.owner = ui.key
  /\ ui.key # NoRequest <=> ui.surface \in Range(ui.stack)
  /\ ui.queue # <<>> => ui.key # NoRequest

\* The Host gets an answer only from the request on top of the stack, on its
\* last page and while it is not being cancelled.
AnswersWhatIsShown ==
  [][\A r \in Request : asked'[r] = "answered" /\ asked[r] # "answered" =>
       /\ Top.owner = r /\ Top.page = Len(PagesOf[r])
       /\ ui.key = r /\ r \notin cancels]_interactionVars

\* A key goes to the composer or to the surface on top, never to one that was
\* closed.  It goes to the one on top, and comes back to where it went before
\* (the rail if it is focused, else the editor), until the rail is left under
\* an open surface or by a change of the Session; focusing the rail mends that.
FocusOwned ==
  /\ ui.focus \in {Editor, Rail} \cup IF ui.stack = <<>> THEN {} ELSE {Last(ui.stack)}
  /\ ~strayed => ui.focus = IF ui.stack # <<>> THEN Last(ui.stack)
                            ELSE IF composing.rail THEN Rail ELSE Editor
=============================================================================
