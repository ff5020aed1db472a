--------------------------- MODULE SessionManager ---------------------------
(***************************************************************************)
(* Session replacement in the terminal: SessionWorkspace and SessionManager*)
(* (runtime/session/workspace.ts, runtime/session/manager.ts) on top of    *)
(* the replacement machine.                                                *)
(*                                                                         *)
(* An open operation is one call of openSession().  It has one step per    *)
(* await, and every other call of the manager may run between two of them: *)
(* a new draft, another resume, a rewind, a prompt, a Host interaction, a  *)
(* frame of a follow stream, or the disposal of the application.           *)
(*                                                                         *)
(* A SessionRuntime is named by its epoch, which is unique to it.          *)
(***************************************************************************)
EXTENDS SessionMachine

CONSTANTS
  Stored,   \* Sessions the Host has before the terminal starts
  Prompt,   \* prompts the user submits, each once
  Ask       \* approval and question requests the Host makes, each once

ASSUME ManagerAssumption == Stored \subseteq Session

VARIABLES
  known,      \* Sessions that exist at the Host
  runtime,    \* workspace.activeRuntime, or NoRuntime
  rt,         \* each epoch's SessionRuntime
  features,   \* epoch of the installed feature set, or NoFeatures
  open,       \* each call of openSession()
  opening,    \* manager.opening: the shared creation, or NoOp
  prompts,    \* each call of submitPrompt()
  asks,       \* manager.pendingInteractions and what became of each request
  rewinding,  \* the call of rewind()
  phase       \* of the manager's scope

workspaceVars == <<runtime, rt, features>>
managerVars == <<open, opening, prompts, asks, rewinding>>
vars == <<machineVars, workspaceVars, managerVars, known, phase>>

-----------------------------------------------------------------------------
(* Records                                                                 *)

NoRuntime == 0
NoOp == 0
NoFeatures == MaxEpoch + 1

Runtime ==
  [sessionId : SessionId,
   scope  : {"unborn", "active", "retiring", "retired"},
   follow : {"none", "opening", "online", "backoff", "ended"},
   opened : {"none", "waiting", "resolved", "rejected"}]

Unborn == [sessionId |-> NoSession, scope |-> "unborn",
           follow |-> "none", opened |-> "none"]

Born(s) == [Unborn EXCEPT !.sessionId = s, !.scope = "active"]

\* The await an open operation is suspended at.
BeforeCommit == {"describe", "list", "admit", "admitted", "select"}
AfterCommit == {"retire", "follow", "models"}
Settled == {"done", "failed"}

Open ==
  [pc : {"idle"} \cup BeforeCommit \cup AfterCommit \cup Settled,
   kind : {"create", "resume"},
   target : SessionId,                       \* created or requested Session
   operation : Operation \cup {NoOperation},
   rt : Epoch,                               \* committed runtime
   old : Epoch,                              \* runtime it retired
   activated : BOOLEAN]                      \* no activationError

Idle == [pc |-> "idle", kind |-> "create", target |-> NoSession,
         operation |-> NoOperation, rt |-> NoRuntime, old |-> NoRuntime,
         activated |-> TRUE]

PromptCall == [pc : {"idle", "ensuring", "preparing", "sent", "failed"},
               op : Op \cup {NoOp}, rt : Epoch]

AskCall == [pc : {"idle", "pending", "declined", "answered", "cancelled", "retired"},
            sessionId : SessionId]

RewindCall == [pc : {"idle", "forking", "forked", "opening", "done"},
               target : SessionId, op : Op \cup {NoOp}]

TypeOK ==
  /\ MachineTypeOK
  /\ known \subseteq Session
  /\ runtime \in Epoch
  /\ rt \in [Epoch -> Runtime]
  /\ features \in Epoch \cup {NoFeatures}
  /\ open \in [Op -> Open]
  /\ opening \in Op \cup {NoOp}
  /\ prompts \in [Prompt -> PromptCall]
  /\ asks \in [Ask -> AskCall]
  /\ rewinding \in RewindCall
  /\ phase \in {"running", "disposing", "disposed"}

Init ==
  /\ MachineInit
  /\ known = Stored
  /\ runtime = NoRuntime
  /\ rt = [e \in Epoch |-> Unborn]
  /\ features = 0                         \* the bootstrap set
  /\ open = [o \in Op |-> Idle]
  /\ opening = NoOp
  /\ prompts = [p \in Prompt |-> [pc |-> "idle", op |-> NoOp, rt |-> NoRuntime]]
  /\ asks = [a \in Ask |-> [pc |-> "idle", sessionId |-> NoSession]]
  /\ rewinding = [pc |-> "idle", target |-> NoSession, op |-> NoOp]
  /\ phase = "running"

-----------------------------------------------------------------------------
(* The workspace                                                           *)

VisibleSession == IF runtime = NoRuntime THEN NoSession ELSE rt[runtime].sessionId

\* owns(runtime): the visible runtime, of the current epoch, not aborted.
Owns(e) ==
  /\ e = runtime
  /\ MachineOwns(e, rt[e].sessionId)
  /\ rt[e].scope = "active"

Visible(e) == e = runtime

\* runtime.dispose() aborts the scope at once, which also ends the wait for
\* the first follow snapshot; ScopeReleased is the end of its cleanups.
Retire(r) ==
  [r EXCEPT !.scope = "retiring",
            !.opened = IF r.opened = "waiting" THEN "rejected" ELSE r.opened]

RetireOld == IF runtime = NoRuntime THEN rt ELSE [rt EXCEPT ![runtime] = Retire(@)]

ScopeReleased(e) ==
  /\ rt[e].scope = "retiring"
  /\ rt' = [rt EXCEPT ![e].scope = "retired"]
  /\ UNCHANGED <<machineVars, managerVars, known, runtime, features, phase>>

\* Mutant: the requests outlive the Session that made them.
KeepAsks == UNCHANGED asks

\* retireInteractions(): every pending request is rejected.
RetireAsks ==
  asks' = [a \in Ask |-> IF asks[a].pc = "pending"
                         THEN [asks[a] EXCEPT !.pc = "retired"] ELSE asks[a]]

\* reset(), as newSession() and clearSession() call it.  The features of the
\* draft are constructed before the old runtime is disposed: when that throws
\* (activated = FALSE) the call ends there and the old scope stays open.
NewSession(activated) ==
  /\ phase = "running"
  /\ currentEpoch + MaxOps < MaxEpoch
  /\ opening' = NoOp
  /\ RetireAsks
  /\ MachineReset
  /\ runtime' = NoRuntime
  /\ features' = IF activated THEN currentEpoch + 1 ELSE NoFeatures
  /\ rt' = IF activated THEN RetireOld ELSE rt
  /\ UNCHANGED <<open, prompts, rewinding, known, phase>>

-----------------------------------------------------------------------------
(* openSession()                                                           *)

Continue(o, pc) == open' = [open EXCEPT ![o].pc = pc]

\* begin(): a new operation, falling back to the visible Session.
BeginOpen(kind, target) ==
  /\ MachineBegin(VisibleSession)
  /\ open' = [open EXCEPT ![operationId + 1] =
                [Idle EXCEPT !.pc = "describe", !.kind = kind, !.target = target,
                             !.operation = NextOperation(VisibleSession)]]

Resume(s) ==
  /\ phase = "running"
  /\ opening' = NoOp
  /\ BeginOpen("resume", s)
  /\ UNCHANGED <<workspaceVars, prompts, asks, rewinding, known, phase>>

HostDescribed(o) ==
  /\ open[o].pc = "describe"
  /\ Continue(o, IF open[o].kind = "resume" THEN "list" ELSE "admit")
  /\ UNCHANGED <<machineVars, workspaceVars, opening, prompts, asks, rewinding,
                 known, phase>>

SessionListed(o) ==
  /\ open[o].pc = "list"
  /\ open[o].target \in known
  /\ Continue(o, "admit")
  /\ UNCHANGED <<machineVars, workspaceVars, opening, prompts, asks, rewinding,
                 known, phase>>

\* createSession() and resumeSession() return.
SessionCreated(o, s) ==
  /\ open[o].pc = "admit"
  /\ open[o].kind = "create"
  /\ s \in Session \ known
  /\ known' = known \cup {s}
  /\ \E pc \in {"select", "admitted"} :          \* is there a draft selection
       open' = [open EXCEPT ![o] = [@ EXCEPT !.pc = pc, !.target = s]]
  /\ UNCHANGED <<machineVars, workspaceVars, opening, prompts, asks, rewinding,
                 phase>>

SessionResumed(o) ==
  /\ open[o].pc = "admit"
  /\ open[o].kind = "resume"
  /\ Continue(o, "admitted")
  /\ UNCHANGED <<machineVars, workspaceVars, opening, prompts, asks, rewinding,
                 known, phase>>

ModelSelected(o) ==
  /\ open[o].pc = "select"
  /\ Continue(o, "admitted")
  /\ UNCHANGED <<machineVars, workspaceVars, opening, prompts, asks, rewinding,
                 known, phase>>

\* Mutant: commit() does not notice that the scope is disposed.
CommitAnyPhase(o, activated) ==
  /\ open[o].pc = "admitted"
  /\ MachineCommit(open[o].operation, open[o].target)
  /\ runtime' = currentEpoch + 1
  /\ rt' = [RetireOld EXCEPT ![currentEpoch + 1] = Born(open[o].target)]
  /\ features' = IF activated THEN currentEpoch + 1 ELSE NoFeatures
  /\ open' = [open EXCEPT ![o] =
                [@ EXCEPT !.pc = "retire", !.rt = currentEpoch + 1,
                          !.old = runtime, !.activated = activated]]
  /\ RetireAsks
  /\ UNCHANGED <<opening, prompts, rewinding, known, phase>>

\* commit(): the new runtime and its features replace the old in one step.
Commit(o, activated) ==
  /\ open[o].pc = "admitted"
  /\ phase = "running"
  /\ MachineCommit(open[o].operation, open[o].target)
  /\ runtime' = currentEpoch + 1
  /\ rt' = [RetireOld EXCEPT ![currentEpoch + 1] = Born(open[o].target)]
  /\ features' = IF activated THEN currentEpoch + 1 ELSE NoFeatures
  /\ open' = [open EXCEPT ![o] =
                [@ EXCEPT !.pc = "retire", !.rt = currentEpoch + 1,
                          !.old = runtime, !.activated = activated]]
  /\ RetireAsks
  /\ UNCHANGED <<opening, prompts, rewinding, known, phase>>

\* In a disposed scope fork() throws halfway through commit().
CommitDisposed(o) ==
  /\ open[o].pc = "admitted"
  /\ phase # "running"
  /\ MachineCommit(open[o].operation, open[o].target)
  /\ runtime' = NoRuntime
  /\ Continue(o, "failed")
  /\ UNCHANGED <<rt, features, opening, prompts, asks, rewinding, known, phase>>

Superseded(o) ==
  /\ open[o].pc = "admitted"
  /\ ~IsCurrent(open[o].operation)
  /\ Continue(o, "failed")
  /\ UNCHANGED <<machineVars, workspaceVars, opening, prompts, asks, rewinding,
                 known, phase>>

\* fail(): restore the captured binding, unless another operation took over.
WorkspaceFail(operation) ==
  IF ~IsCurrent(operation)
  THEN UNCHANGED machineVars
  ELSE IF operation.sessionId # NoSession
       THEN MachineRollback(operation)
       ELSE MachineFail(operation)

\* A Host call rejects, or a resumed Session is not in the list.
HostFailed(o) ==
  /\ open[o].pc \in {"describe", "list", "admit", "select"}
  /\ WorkspaceFail(open[o].operation)
  /\ Continue(o, "failed")
  /\ UNCHANGED <<workspaceVars, opening, prompts, asks, rewinding, known, phase>>

\* The old scope is released: start the follow loop, whose wait is rejected
\* at once when the new runtime is itself already retired.
Retired(o) ==
  LET r == open[o].rt IN
  /\ open[o].pc = "retire"
  /\ open[o].old # NoRuntime => rt[open[o].old].scope = "retired"
  /\ open[o].activated
  /\ IF rt[r].scope = "active"
     THEN /\ rt' = [rt EXCEPT ![r] = [@ EXCEPT !.follow = "opening", !.opened = "waiting"]]
          /\ Continue(o, "follow")
     ELSE /\ UNCHANGED rt
          /\ Continue(o, "failed")
  /\ UNCHANGED <<machineVars, runtime, features, opening, prompts, asks,
                 rewinding, known, phase>>

\* activationError, or an old scope whose cleanup failed: openSession() throws
\* before the follow loop is started.
RetiredInError(o) ==
  /\ open[o].pc = "retire"
  /\ open[o].old # NoRuntime => rt[open[o].old].scope = "retired"
  /\ open[o].activated => open[o].old # NoRuntime
  /\ Continue(o, "failed")
  /\ UNCHANGED <<machineVars, workspaceVars, opening, prompts, asks, rewinding,
                 known, phase>>

FollowSettled(o) ==
  /\ open[o].pc = "follow"
  /\ rt[open[o].rt].opened \in {"resolved", "rejected"}
  /\ Continue(o, IF rt[open[o].rt].opened = "resolved" THEN "models" ELSE "failed")
  /\ UNCHANGED <<machineVars, workspaceVars, opening, prompts, asks, rewinding,
                 known, phase>>

\* refreshRuntimeModels() settles either way; the last guard is owns().
ModelsRefreshed(o) ==
  /\ open[o].pc = "models"
  /\ Continue(o, IF Owns(open[o].rt) THEN "done" ELSE "failed")
  /\ UNCHANGED <<machineVars, workspaceVars, opening, prompts, asks, rewinding,
                 known, phase>>

-----------------------------------------------------------------------------
(* runFollowLoop()                                                         *)

Following(e) == rt[e].follow \in {"opening", "online", "backoff"}

\* Mutant: the loop gives up without telling openSession().
BrokenSilently(r) ==
  [r EXCEPT !.follow = IF r.opened = "waiting" THEN "ended" ELSE "backoff"]

\* opening.resolve() and opening.reject() act once.
Online(r) ==
  [r EXCEPT !.follow = "online",
            !.opened = IF r.opened = "waiting" THEN "resolved" ELSE r.opened]

Broken(r) ==
  [r EXCEPT !.follow = IF r.opened = "waiting" THEN "ended" ELSE "backoff",
            !.opened = IF r.opened = "waiting" THEN "rejected" ELSE r.opened]

\* The snapshot that opens the stream, the first time or after a reconnect.
FollowSnapshot(e) ==
  /\ rt[e].follow \in {"opening", "backoff"}
  /\ Owns(e)
  /\ rt' = [rt EXCEPT ![e] = Online(@)]
  /\ UNCHANGED <<machineVars, managerVars, known, runtime, features, phase>>

\* The stream fails or ends; before its first snapshot the loop gives up.
FollowBroken(e) ==
  /\ rt[e].follow \in {"opening", "online"}
  /\ Owns(e)
  /\ rt' = [rt EXCEPT ![e] = Broken(@)]
  /\ UNCHANGED <<machineVars, managerVars, known, runtime, features, phase>>

\* A frame, an error or the abort finds the runtime replaced: the loop returns.
FollowEnded(e) ==
  /\ Following(e)
  /\ ~Owns(e)
  /\ rt' = [rt EXCEPT ![e].follow = "ended"]
  /\ UNCHANGED <<machineVars, managerVars, known, runtime, features, phase>>

-----------------------------------------------------------------------------
(* submitPrompt() and ensureSession()                                      *)

\* startSubmission() on the visible runtime.
StartSubmission(p) ==
  prompts' = [prompts EXCEPT ![p] =
    [@ EXCEPT !.pc = IF runtime # NoRuntime /\ rt[runtime].scope = "active"
                     THEN "preparing" ELSE "failed",
              !.rt = runtime]]

SubmitToVisible(p) ==
  /\ phase = "running"
  /\ prompts[p].pc = "idle"
  /\ runtime # NoRuntime /\ opening = NoOp
  /\ StartSubmission(p)
  /\ UNCHANGED <<machineVars, workspaceVars, open, opening, asks, rewinding,
                 known, phase>>

\* Mutant: every prompt of a draft creates a Session.
SubmitFirstUnshared(p) ==
  /\ phase = "running"
  /\ prompts[p].pc = "idle"
  /\ runtime = NoRuntime
  /\ BeginOpen("create", NoSession)
  /\ opening' = operationId + 1
  /\ prompts' = [prompts EXCEPT ![p] = [@ EXCEPT !.pc = "ensuring", !.op = operationId + 1]]
  /\ UNCHANGED <<workspaceVars, asks, rewinding, known, phase>>

\* The first prompt of a draft creates the Session ...
SubmitFirst(p) ==
  /\ phase = "running"
  /\ prompts[p].pc = "idle"
  /\ runtime = NoRuntime /\ opening = NoOp
  /\ BeginOpen("create", NoSession)
  /\ opening' = operationId + 1
  /\ prompts' = [prompts EXCEPT ![p] = [@ EXCEPT !.pc = "ensuring", !.op = operationId + 1]]
  /\ UNCHANGED <<workspaceVars, asks, rewinding, known, phase>>

\* ... and the ones submitted meanwhile share the creation.
SubmitShared(p) ==
  /\ phase = "running"
  /\ prompts[p].pc = "idle"
  /\ opening # NoOp
  /\ prompts' = [prompts EXCEPT ![p] = [@ EXCEPT !.pc = "ensuring", !.op = opening]]
  /\ UNCHANGED <<machineVars, workspaceVars, open, opening, asks, rewinding,
                 known, phase>>

\* The finally of ensureSession(), which runs before its callers resume.
OpeningSettled ==
  /\ opening # NoOp
  /\ open[opening].pc \in Settled
  /\ opening' = NoOp
  /\ UNCHANGED <<machineVars, workspaceVars, open, prompts, asks, rewinding,
                 known, phase>>

\* The prompt resumes after ensureSession() and reads the visible runtime.
EnsureReturned(p) ==
  /\ prompts[p].pc = "ensuring"
  /\ open[prompts[p].op].pc \in Settled
  /\ opening # prompts[p].op
  /\ IF open[prompts[p].op].pc = "done"
     THEN StartSubmission(p)
     ELSE prompts' = [prompts EXCEPT ![p].pc = "failed"]
  /\ UNCHANGED <<machineVars, workspaceVars, open, opening, asks, rewinding,
                 known, phase>>

\* Mutant: the prompt is sent whatever is visible by then.
PreparedUnchecked(p) ==
  /\ prompts[p].pc = "preparing"
  /\ prompts' = [prompts EXCEPT ![p].pc = "sent"]
  /\ UNCHANGED <<machineVars, workspaceVars, open, opening, asks, rewinding,
                 known, phase>>

\* The content is ready: hand the prompt to the Host, if still visible.
Prepared(p) ==
  /\ prompts[p].pc = "preparing"
  /\ prompts' = [prompts EXCEPT ![p].pc = IF Visible(prompts[p].rt) THEN "sent" ELSE "failed"]
  /\ UNCHANGED <<machineVars, workspaceVars, open, opening, asks, rewinding,
                 known, phase>>

PreparationFailed(p) ==
  /\ prompts[p].pc = "preparing"
  /\ prompts' = [prompts EXCEPT ![p].pc = "failed"]
  /\ UNCHANGED <<machineVars, workspaceVars, open, opening, asks, rewinding,
                 known, phase>>

-----------------------------------------------------------------------------
(* Host interactions                                                       *)

\* requestApproval() and requestQuestions(): a request of another Session
\* than the visible one is left to the Host's other handlers.
Requested(a, s) ==
  /\ phase # "disposed"
  /\ asks[a].pc = "idle"
  /\ s \in known
  /\ asks' = [asks EXCEPT ![a] =
       [pc |-> IF VisibleSession = s THEN "pending" ELSE "declined", sessionId |-> s]]
  /\ UNCHANGED <<machineVars, workspaceVars, open, opening, prompts, rewinding,
                 known, phase>>

\* answerApproval(), answerQuestions(), or the request's own abort signal.
AskSettled(a, outcome) ==
  /\ asks[a].pc = "pending"
  /\ asks' = [asks EXCEPT ![a].pc = outcome]
  /\ UNCHANGED <<machineVars, workspaceVars, open, opening, prompts, rewinding,
                 known, phase>>

-----------------------------------------------------------------------------
(* rewind()                                                                *)

RewindStarted ==
  /\ phase = "running"
  /\ rewinding.pc = "idle"
  /\ runtime # NoRuntime
  /\ rewinding' = [rewinding EXCEPT !.pc = "forking"]
  /\ UNCHANGED <<machineVars, workspaceVars, open, opening, prompts, asks, known, phase>>

\* createSession() or forkSession(), then selectModel().
RewindForked(s) ==
  /\ rewinding.pc = "forking"
  /\ s \in Session \ known
  /\ known' = known \cup {s}
  /\ rewinding' = [rewinding EXCEPT !.pc = "forked", !.target = s]
  /\ UNCHANGED <<machineVars, workspaceVars, open, opening, prompts, asks, phase>>

RewindFailed ==
  /\ rewinding.pc \in {"forking", "forked"}
  /\ rewinding' = [rewinding EXCEPT !.pc = "done"]
  /\ UNCHANGED <<machineVars, workspaceVars, open, opening, prompts, asks, known, phase>>

\* The replacement begins when the fork exists, whatever is visible by then.
RewindOpened ==
  /\ rewinding.pc = "forked"
  /\ BeginOpen("resume", rewinding.target)
  /\ rewinding' = [rewinding EXCEPT !.pc = "opening", !.op = operationId + 1]
  /\ UNCHANGED <<workspaceVars, opening, prompts, asks, known, phase>>

RewindReturned ==
  /\ rewinding.pc = "opening"
  /\ open[rewinding.op].pc \in Settled
  /\ rewinding' = [rewinding EXCEPT !.pc = "done"]
  /\ UNCHANGED <<machineVars, workspaceVars, open, opening, prompts, asks, known, phase>>

-----------------------------------------------------------------------------
(* dispose()                                                               *)

\* Aborts every scope at once; the last cleanup registered runs first.
Dispose ==
  /\ phase = "running"
  /\ phase' = "disposing"
  /\ rt' = [e \in Epoch |-> IF rt[e].scope = "active" THEN Retire(rt[e]) ELSE rt[e]]
  /\ RetireAsks
  /\ UNCHANGED <<machineVars, runtime, features, open, opening, prompts,
                 rewinding, known>>

\* The workspace has awaited its runtimes, then the Host connection closes.
Disposed ==
  /\ phase = "disposing"
  /\ \A e \in Epoch : rt[e].scope \in {"unborn", "retired"}
  /\ phase' = "disposed"
  /\ UNCHANGED <<machineVars, workspaceVars, managerVars, known>>

-----------------------------------------------------------------------------
(* The specification                                                       *)

UserStep ==
  \/ \E activated \in BOOLEAN : NewSession(activated)
  \/ \E s \in Session : Resume(s)
  \/ \E p \in Prompt : SubmitToVisible(p) \/ SubmitFirst(p) \/ SubmitShared(p)
  \/ RewindStarted
  \/ Dispose

OpenStep(o) ==
  \/ HostDescribed(o) \/ SessionListed(o)
  \/ \E s \in Session : SessionCreated(o, s)
  \/ SessionResumed(o) \/ ModelSelected(o) \/ HostFailed(o)
  \/ \E activated \in BOOLEAN : Commit(o, activated)
  \/ CommitDisposed(o) \/ Superseded(o)
  \/ Retired(o) \/ RetiredInError(o) \/ FollowSettled(o) \/ ModelsRefreshed(o)

RuntimeStep(e) ==
  ScopeReleased(e) \/ FollowSnapshot(e) \/ FollowBroken(e) \/ FollowEnded(e)

PromptStep(p) == EnsureReturned(p) \/ Prepared(p) \/ PreparationFailed(p)

AskStep(a) ==
  \/ \E s \in Session : Requested(a, s)
  \/ \E outcome \in {"answered", "cancelled"} : AskSettled(a, outcome)

RewindStep ==
  (\E s \in Session : RewindForked(s)) \/ RewindFailed \/ RewindOpened \/ RewindReturned

Next ==
  \/ UserStep
  \/ \E o \in Op : OpenStep(o)
  \/ \E e \in Epoch : RuntimeStep(e)
  \/ \E p \in Prompt : PromptStep(p)
  \/ \E a \in Ask : AskStep(a)
  \/ OpeningSettled
  \/ RewindStep
  \/ Disposed

Spec == Init /\ [][Next]_vars

\* The Host answers every call, ready continuations run, an aborted scope is
\* released, and a follow stream delivers a frame or fails.
Fairness ==
  /\ \A o \in Op : WF_vars(OpenStep(o))
  /\ \A e \in Epoch : WF_vars(RuntimeStep(e))
  /\ \A p \in Prompt : WF_vars(PromptStep(p))
  /\ WF_vars(OpeningSettled)

FairSpec == Spec /\ Fairness

-----------------------------------------------------------------------------
(* Properties                                                              *)

\* While the application runs, the visible runtime is the one the machine's
\* epoch guard accepts: no late result of the visible Session is dropped and
\* none of another one is accepted, whatever replacements are in flight.
VisibleIsOwned ==
  phase = "running" =>
    IF runtime = NoRuntime THEN activeSessionId = NoSession ELSE Owns(runtime)

\* The operation that may still commit is the one begun last, begun in the
\* epoch that is still current, and it falls back to the binding in place.
PendingIsLatest ==
  /\ pending # NoOperation =>
       /\ pending.id = operationId
       /\ pending.epoch = currentEpoch
       /\ phase = "running" => pending.sessionId = activeSessionId
  /\ \A o \in Op : IF open[o].pc = "idle"
                    THEN open[o].operation = NoOperation
                    ELSE open[o].operation.id = o /\ o <= operationId
  /\ \A o \in Op : IsCurrent(open[o].operation) => open[o].operation = pending

\* The published binding never lies: it names the visible runtime when active,
\* the Session to return to while a replacement is prepared, and a draft
\* otherwise; a replacement that fails restores what it found.  The features
\* installed are those of the current epoch, or none after a construction that
\* failed: features of two epochs are never mixed.
BindingTruthful ==
  phase = "running" =>
    /\ features \in {currentEpoch, NoFeatures}
    /\ CASE binding.phase = "active" ->
              /\ runtime # NoRuntime /\ pending = NoOperation
              /\ binding = Bound("active", VisibleSession, runtime)
         [] binding.phase = "preparing" ->
              /\ pending # NoOperation
              /\ binding = Bound("preparing", VisibleSession, currentEpoch)
         [] OTHER -> runtime = NoRuntime /\ pending = NoOperation

\* A request waiting for the user's answer is one of the visible Session:
\* every replacement has rejected the requests of the Session it replaced.
PendingAsksVisible ==
  phase = "running" =>
    \A a \in Ask : asks[a].pc = "pending" => asks[a].sessionId = VisibleSession

\* Once disposed, no runtime is left open, not even one an open operation
\* would have committed while the scopes were being released.
DisposedQuiet ==
  phase = "disposed" =>
    /\ \A e \in Epoch : rt[e].scope \in {"unborn", "retired"}
    /\ \A e \in Epoch : rt[e].opened # "waiting"

\* A Session becomes visible only through the operation begun last, and only
\* if nothing was committed or reset since that operation began.
LatestWins ==
  [][ runtime' \notin {runtime, NoRuntime} =>
        /\ open'[operationId].rt = runtime'
        /\ open[operationId].operation.epoch = currentEpoch ]_vars

\* Prompts submitted from one draft share one creation: a creation never
\* displaces another one that may still commit.
SharedCreation ==
  [][ operationId' # operationId /\ open'[operationId'].kind = "create" =>
        pending = NoOperation \/ open[pending.id].kind # "create" ]_vars

\* While the application runs, a prompt goes to the Host only for a runtime
\* that is visible, current and not aborted, however long its preparation took.
PromptToOwned ==
  [][ \A p \in Prompt :
        prompts[p].pc # "sent" /\ prompts'[p].pc = "sent" /\ phase = "running"
          => Owns(prompts[p].rt) ]_vars

\* A runtime no longer visible keeps its scope (README, divergences).
ScopeLeaked == \E e \in Epoch : rt[e].scope = "active" /\ e # runtime

\* Every replacement settles and every prompt, also one that awaits a
\* replacement, is handed to the Host or rejected, unless a draft whose
\* features failed left its runtime's scope open.
EverythingSettles ==
  /\ \A o \in Op : open[o].pc # "idle" ~> (open[o].pc \in Settled \/ ScopeLeaked)
  /\ \A p \in Prompt :
       prompts[p].pc # "idle" ~> (prompts[p].pc \in {"sent", "failed"} \/ ScopeLeaked)

-----------------------------------------------------------------------------
(* The abstract specification: one visible binding, replaced by the latest *)
(* request only.                                                           *)

OpenedBy(e) ==
  IF e = NoRuntime THEN NoOp ELSE CHOOSE o \in Op : open[o].rt = e

Abstract == INSTANCE SessionBinding WITH
  MaxRequests <- MaxOps,
  latest <- operationId,
  request <- pending.id,
  visible <- VisibleSession,
  servedBy <- OpenedBy(runtime),
  epoch <- currentEpoch

\* SessionManager implements the latest-wins binding.
ImplementsBinding == Abstract!Spec

-----------------------------------------------------------------------------
(* What the architecture notes say and the code does not do                *)

\* "Stale results must not submit input": a prompt that waited for a creation
\* goes to the Session that creation opened.
PromptToItsCreation ==
  \A p \in Prompt :
    prompts[p].pc = "sent" /\ prompts[p].op # NoOp =>
      prompts[p].rt = open[prompts[p].op].rt
=============================================================================
