------------------------------ MODULE TaskProcess ------------------------------
(***************************************************************************)
(* The Task surface (modules/task, infrastructure/harness/goal.ts): rows   *)
(* and actions follow the projections of a Session while its user walks    *)
(* them; a Goal is created and edited through dialogs over it, and changed *)
(* by the Host under the revision the dialog was opened for.               *)
(***************************************************************************)
EXTENDS Integers, Sequences, FiniteSets

CONSTANTS
  Phase,         \* phases of the Goal when the Host or another client changes it
  TodoCount,     \* numbers of tasks of the checklist
  RevisionBound, \* bound: revisions of the Goals
  EpochOfTasks   \* bound: Sessions

ASSUME TaskAssumption == TodoCount \subseteq Nat

VARIABLES
  host_,      \* projections of the visible Session: goal, todos, whether it runs
  taskView,   \* the surface: stage, cursor, the action to confirm
  dialogs,    \* the dialogs over it, and what each was opened for
  changing    \* changes on their way to the Host

taskVars == <<host_, taskView, dialogs, changing>>

NoGoal == "none"
NoTaskView == [stage |-> "closed", index |-> 0, pending |-> "none"]
Ref == [session |-> host_.epoch, revision |-> host_.revision, phase |-> host_.phase]

-----------------------------------------------------------------------------
(* Rows and actions                                                         *)

GoalRows(phase) ==
  CASE phase = NoGoal -> <<"create">>
    [] phase = "active" -> <<"edit", "rounds", "pause", "complete", "clear">>
    [] phase \in {"paused", "blocked"} -> <<"edit", "rounds", "resume", "complete", "clear">>
    [] phase = "complete" -> <<"clear">>
    [] OTHER -> <<>>

RowCount(stage, h) ==
  CASE stage = "root" -> 3
    [] stage = "todos" -> h.todos
    [] stage = "runtime" -> IF h.running THEN 1 ELSE 0
    [] stage = "goal" -> Len(GoalRows(h.phase))
    [] OTHER -> 1

\* setSnapshot: every publication bounds the cursor.
Follows(h) ==
  /\ host_' = h
  /\ \E count \in {RowCount(taskView.stage, h)} :
       taskView' = IF taskView.index >= count
                   THEN [taskView EXCEPT !.index = IF count = 0 THEN 0 ELSE count - 1] ELSE taskView

-----------------------------------------------------------------------------
(* Keys of the surface                                                      *)

Looks(v) == taskView' = v /\ UNCHANGED <<host_, dialogs, changing>>
Walks == taskView.stage # "closed" /\ dialogs = <<>>

OpenTask == taskView.stage = "closed" /\ dialogs = <<>> /\ Looks([NoTaskView EXCEPT !.stage = "root"])

TaskMoves ==
  /\ Walks
  /\ \E index \in {taskView.index - 1, taskView.index + 1, 0, RowCount(taskView.stage, host_) - 1} :
       index \in 0 .. RowCount(taskView.stage, host_) - 1 /\ Looks([taskView EXCEPT !.index = index])

TaskBack ==
  /\ Walks
  /\ Looks(CASE taskView.stage = "root" -> NoTaskView
             [] taskView.stage = "goal-confirm" -> [taskView EXCEPT !.stage = "goal", !.pending = "none"]
             [] OTHER -> [NoTaskView EXCEPT !.stage = "root"])

\* What is on its way, the Goal it was chosen for and the Goal it names.
Change(op, shown) == [op |-> op, shown |-> shown, ref |-> shown, from |-> taskView.stage]
Dialog(kind, action) == [kind |-> kind, action |-> action, shown |-> Ref]

\* handleGoalAction: what is current when the action is chosen is what it is about.
GoalAction(action) ==
  CASE action = "create" -> dialogs' = <<Dialog("objective", "create")>> /\ UNCHANGED changing
    [] action # "create" /\ host_.phase = NoGoal -> UNCHANGED <<dialogs, changing>>
    [] action = "edit" -> dialogs' = <<Dialog("objective", "edit")>> /\ UNCHANGED changing
    [] action = "rounds" -> dialogs' = <<Dialog("rounds", "edit")>> /\ UNCHANGED changing
    [] OTHER -> changing' = changing \cup {Change(action, Ref)} /\ UNCHANGED dialogs

TaskSelects ==
  /\ Walks /\ changing = {}
  /\ CASE taskView.stage = "root" ->
            /\ taskView.index = 0 => host_.phase # "unavailable"
            /\ Looks([NoTaskView EXCEPT !.stage = <<"goal", "todos", "runtime">>[taskView.index + 1]])
       [] taskView.stage = "runtime" /\ host_.running ->
            changing' = {Change("cancel", Ref)} /\ UNCHANGED <<host_, taskView, dialogs>>
       [] taskView.stage = "goal-confirm" ->
            /\ GoalAction(taskView.pending)
            /\ taskView' = [NoTaskView EXCEPT !.stage = "goal"] /\ UNCHANGED host_
       [] taskView.stage = "goal" /\ taskView.index < RowCount("goal", host_) ->
            \E action \in {GoalRows(host_.phase)[taskView.index + 1]} :
              IF action = "clear" THEN Looks([taskView EXCEPT !.stage = "goal-confirm", !.pending = action])
              ELSE GoalAction(action) /\ UNCHANGED <<host_, taskView>>
       [] OTHER -> FALSE

-----------------------------------------------------------------------------
(* Dialogs                                                                  *)

\* The Goal the dialog was opened for.
Named_(dialog) == dialog.shown

\* A dialog that outlived its Session does nothing.
Owned(dialog) == dialog.shown.session = host_.epoch

\* A blank objective is not taken; an objective of a new Goal asks for its
\* rounds, which may be refused here.
SubmitDialog ==
  /\ dialogs # <<>>
  /\ \E valid \in BOOLEAN, dialog \in {dialogs[1]} :
       /\ dialog.kind = "objective" => valid
       /\ CASE ~Owned(dialog) -> dialogs' = <<>> /\ UNCHANGED changing
            [] Owned(dialog) /\ dialog.kind = "objective" /\ dialog.action = "create" ->
                 dialogs' = <<[dialog EXCEPT !.kind = "rounds"]>> /\ UNCHANGED changing
            [] OTHER ->
                 /\ dialogs' = <<>>
                 /\ changing' = IF ~valid THEN changing
                                ELSE changing \cup {[Change(dialog.action, dialog.shown) EXCEPT !.ref = Named_(dialog)]}
  /\ UNCHANGED <<host_, taskView>>

Dismiss == dialogs # <<>> /\ dialogs' = <<>> /\ UNCHANGED <<host_, taskView, changing>>

-----------------------------------------------------------------------------
(* The Host                                                                 *)

\* A change is refused unless the Goal still is the one it names; a new Goal
\* only where there is none.
Accepts(w) ==
  /\ w.ref.session = host_.epoch
  /\ IF w.op = "create" THEN host_.phase = NoGoal ELSE w.ref.revision = host_.revision
  /\ w.op = "cancel" \/ host_.revision < RevisionBound

After(op) ==
  CASE op = "create" -> [host_ EXCEPT !.phase = "active", !.revision = @ + 1]
    [] op = "pause" -> [host_ EXCEPT !.phase = "paused", !.revision = @ + 1]
    [] op = "resume" -> [host_ EXCEPT !.phase = "active", !.revision = @ + 1]
    [] op = "complete" -> [host_ EXCEPT !.phase = "complete", !.revision = @ + 1]
    [] op = "clear" -> [host_ EXCEPT !.phase = NoGoal, !.revision = @ + 1]
    [] op = "cancel" -> [host_ EXCEPT !.running = FALSE]
    [] OTHER -> [host_ EXCEPT !.revision = @ + 1]

Settled_(w) ==
  /\ changing' = changing \ {w} /\ UNCHANGED dialogs
  /\ IF Accepts(w) THEN Follows(After(w.op)) ELSE UNCHANGED <<host_, taskView>>

\* Goals, tasks and runs change beside the surface; in a profile without Goals
\* there are none.
HostChanges ==
  /\ UNCHANGED <<dialogs, changing>>
  /\ \/ /\ host_.phase # "unavailable" /\ host_.revision < RevisionBound
        /\ \E phase \in Phase : Follows([host_ EXCEPT !.phase = phase, !.revision = @ + 1])
     \/ \E todos \in TodoCount : Follows([host_ EXCEPT !.todos = todos])
     \/ Follows([host_ EXCEPT !.running = ~@])

\* The Session's features go with it, and their surface, but not a dialog over it.
TaskSessionChanges ==
  /\ host_.epoch < EpochOfTasks
  /\ \E phase \in {NoGoal, "active"} :
       host_' = [epoch |-> host_.epoch + 1, phase |-> phase, revision |-> 0, todos |-> 0, running |-> FALSE]
  /\ taskView' = NoTaskView /\ UNCHANGED <<dialogs, changing>>

-----------------------------------------------------------------------------

TaskInit ==
  /\ \E phase \in {"active", "unavailable"} :
       host_ = [epoch |-> 1, phase |-> phase, revision |-> 0, todos |-> 0, running |-> TRUE]
  /\ taskView = NoTaskView /\ dialogs = <<>> /\ changing = {}

TaskNext ==
  \/ OpenTask \/ TaskMoves \/ TaskBack \/ TaskSelects \/ SubmitDialog \/ Dismiss
  \/ \E w \in changing : Settled_(w)
  \/ HostChanges \/ TaskSessionChanges

\* What was written for one Goal never names another: neither the next revision
\* nor the Goal of the next Session, though dialogs stay open meanwhile.
ChangesItsGoal == \A w \in changing : w.ref = w.shown

\* A Goal is cleared only after its confirmation, and the cursor stays on a row
\* while rows come and go under it.
ClearedOnPurpose ==
  /\ \A w \in changing : w.op = "clear" => w.from = "goal-confirm"
  /\ taskView.pending = "clear" <=> taskView.stage = "goal-confirm"
  /\ taskView.stage \notin {"closed", "goal-confirm"} =>
       taskView.index = 0 \/ taskView.index < RowCount(taskView.stage, host_)

TasksCurrent == ChangesItsGoal /\ ClearedOnPurpose
=============================================================================
