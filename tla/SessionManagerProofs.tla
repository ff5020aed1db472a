------------------------ MODULE SessionManagerProofs ------------------------
(***************************************************************************)
(* Machine-checked proofs about SessionManager, for every number of        *)
(* operations and epochs and every set of Sessions, prompts and requests:  *)
(* the latest operation wins, and what the user sees is never mixed.  The  *)
(* published binding and the features are those of the visible runtime,    *)
(* the requests that wait for an answer are those of its Session, nothing  *)
(* is left open after disposal, a prompt goes to the runtime the user      *)
(* sees, and the prompts of a draft share one creation.                    *)
(***************************************************************************)
EXTENDS SessionManager, TLAPS

\* Lemma: zero is an epoch, the "none" of every field that names one.
LEMMA ZeroEpoch == NoRuntime \in Epoch /\ NoOp \notin Op
  BY MachineAssumption DEF NoRuntime, Epoch, NoOp, Op

\* Lemma: an open operation that advances keeps its type.
LEMMA ContinueType ==
  ASSUME open \in [Op -> Open], NEW o \in Op,
         NEW pc \in {"idle"} \cup BeforeCommit \cup AfterCommit \cup Settled,
         Continue(o, pc)
  PROVE  open' \in [Op -> Open]
  BY DEF Continue, Open

\* Lemma: beginning an operation keeps the types of the machine and of the
\* open operations, and numbers the operation within bounds.
LEMMA BeginType ==
  ASSUME TypeOK, NEW kind \in {"create", "resume"}, NEW target \in SessionId,
         BeginOpen(kind, target)
  PROVE  /\ MachineTypeOK'
         /\ open' \in [Op -> Open]
         /\ operationId + 1 \in Op
<1>1. operationId + 1 \in Op
  BY MachineAssumption DEF BeginOpen, MachineBegin, TypeOK, MachineTypeOK, Op
<1>2. VisibleSession \in SessionId
  BY DEF VisibleSession, TypeOK, Runtime, SessionId
<1>3. NextOperation(VisibleSession) \in Operation
  BY <1>1, <1>2 DEF NextOperation, Operation, TypeOK, MachineTypeOK
<1>4. MachineTypeOK'
  BY <1>1, <1>2, <1>3 DEF BeginOpen, MachineBegin, TypeOK, MachineTypeOK, Bound,
     Binding, Op
<1>5. [Idle EXCEPT !.pc = "describe", !.kind = kind, !.target = target,
                   !.operation = NextOperation(VisibleSession)] \in Open
  BY <1>3, ZeroEpoch DEF Idle, Open, BeforeCommit
<1>6. open' \in [Op -> Open]
  BY <1>1, <1>5 DEF BeginOpen, TypeOK
<1> QED BY <1>1, <1>4, <1>6

\* Lemma: retiring keeps the type of a runtime, and so of all of them.
LEMMA RetireType ==
  ASSUME rt \in [Epoch -> Runtime], runtime \in Epoch
  PROVE  /\ \A e \in Epoch : Retire(rt[e]) \in Runtime
         /\ RetireOld \in [Epoch -> Runtime]
<1>1. \A e \in Epoch : Retire(rt[e]) \in Runtime
  BY DEF Retire, Runtime
<1> QED BY <1>1 DEF RetireOld

\* Lemma: retiring the pending requests keeps their type.
LEMMA RetireAsksType ==
  ASSUME asks \in [Ask -> AskCall], RetireAsks
  PROVE  asks' \in [Ask -> AskCall]
  BY DEF RetireAsks, AskCall

\* Lemma: a prompt that starts its submission keeps its type.
LEMMA StartType ==
  ASSUME prompts \in [Prompt -> PromptCall], runtime \in Epoch, NEW p \in Prompt,
         StartSubmission(p)
  PROVE  prompts' \in [Prompt -> PromptCall]
<1>1. [prompts[p] EXCEPT !.pc = IF runtime # NoRuntime /\ rt[runtime].scope = "active"
                                THEN "preparing" ELSE "failed",
                         !.rt = runtime] \in PromptCall
  BY DEF PromptCall
<1> QED BY <1>1 DEF StartSubmission

\* Lemma: failing an operation keeps the type of the machine.
LEMMA FailType ==
  ASSUME MachineTypeOK, NEW operation \in Operation \cup {NoOperation},
         WorkspaceFail(operation)
  PROVE  MachineTypeOK'
<1>1. operation.sessionId \in SessionId
  BY DEF Operation, NoOperation, SessionId
<1>2. CASE ~IsCurrent(operation)
  BY <1>2 DEF WorkspaceFail, machineVars, MachineTypeOK
<1>3. CASE IsCurrent(operation)
  BY <1>1, <1>3, ZeroEpoch DEF WorkspaceFail, MachineRollback, MachineFail, MachineRestore,
     MachineTypeOK, Bound, Binding, Unbound, SessionId, Epoch, NoRuntime
<1> QED BY <1>2, <1>3

\* Lemma: every step keeps the types.
LEMMA TypeStep == TypeOK /\ [Next]_vars => TypeOK'
<1> SUFFICES ASSUME TypeOK, [Next]_vars PROVE TypeOK'
  OBVIOUS
<1> USE ZeroEpoch
<1>a. \A o \in Op : /\ open[o].target \in SessionId
                    /\ open[o].operation \in Operation \cup {NoOperation}
                    /\ open[o].rt \in Epoch /\ open[o].old \in Epoch
  BY DEF TypeOK, Open
<1>1. ASSUME NEW activated \in BOOLEAN, NewSession(activated) PROVE TypeOK'
  <2>1. rt' \in [Epoch -> Runtime]
    BY <1>1, RetireType DEF NewSession, TypeOK
  <2>2. MachineTypeOK'
    BY <1>1, MachineAssumption DEF NewSession, MachineReset, TypeOK, MachineTypeOK,
       Unbound, Bound, Binding, SessionId, Epoch
  <2>3. features' \in Epoch \cup {NoFeatures}
    BY <1>1, <2>2 DEF NewSession, MachineReset, MachineTypeOK
  <2> QED BY <1>1, <2>1, <2>2, <2>3, RetireAsksType DEF NewSession, TypeOK
<1>2. ASSUME NEW s \in Session, Resume(s) PROVE TypeOK'
  BY <1>2, BeginType DEF Resume, TypeOK, workspaceVars, SessionId
<1>3. ASSUME NEW o \in Op, HostDescribed(o) PROVE TypeOK'
  BY <1>3, ContinueType DEF HostDescribed, TypeOK, MachineTypeOK, machineVars, workspaceVars,
     BeforeCommit, AfterCommit, Settled
<1>4. ASSUME NEW o \in Op, SessionListed(o) PROVE TypeOK'
  BY <1>4, ContinueType DEF SessionListed, TypeOK, MachineTypeOK, machineVars, workspaceVars,
     BeforeCommit, AfterCommit, Settled
<1>5. ASSUME NEW o \in Op, SessionResumed(o) PROVE TypeOK'
  BY <1>5, ContinueType DEF SessionResumed, TypeOK, MachineTypeOK, machineVars, workspaceVars,
     BeforeCommit, AfterCommit, Settled
<1>6. ASSUME NEW o \in Op, ModelSelected(o) PROVE TypeOK'
  BY <1>6, ContinueType DEF ModelSelected, TypeOK, MachineTypeOK, machineVars, workspaceVars,
     BeforeCommit, AfterCommit, Settled
<1>7. ASSUME NEW o \in Op, Superseded(o) PROVE TypeOK'
  BY <1>7, ContinueType DEF Superseded, TypeOK, MachineTypeOK, machineVars, workspaceVars,
     BeforeCommit, AfterCommit, Settled
<1>8. ASSUME NEW o \in Op, RetiredInError(o) PROVE TypeOK'
  BY <1>8, ContinueType DEF RetiredInError, TypeOK, MachineTypeOK, machineVars, workspaceVars,
     BeforeCommit, AfterCommit, Settled
<1>9. ASSUME NEW o \in Op, FollowSettled(o) PROVE TypeOK'
  BY <1>9, ContinueType DEF FollowSettled, TypeOK, MachineTypeOK, machineVars, workspaceVars,
     BeforeCommit, AfterCommit, Settled
<1>10. ASSUME NEW o \in Op, ModelsRefreshed(o) PROVE TypeOK'
  BY <1>10, ContinueType DEF ModelsRefreshed, TypeOK, MachineTypeOK, machineVars, workspaceVars,
     BeforeCommit, AfterCommit, Settled
<1>11. ASSUME NEW o \in Op, NEW s \in Session, SessionCreated(o, s) PROVE TypeOK'
  <2>a. PICK pc \in {"select", "admitted"} :
           open' = [open EXCEPT ![o] = [@ EXCEPT !.pc = pc, !.target = s]]
    BY <1>11 DEF SessionCreated
  <2>b. [open[o] EXCEPT !.pc = pc, !.target = s] \in Open
    BY DEF TypeOK, Open, BeforeCommit, SessionId
  <2>1. open' \in [Op -> Open]
    BY <2>a, <2>b DEF TypeOK
  <2> QED BY <1>11, <2>1 DEF SessionCreated, TypeOK, MachineTypeOK, machineVars,
             workspaceVars
<1>12. ASSUME NEW o \in Op, NEW activated \in BOOLEAN, Commit(o, activated) PROVE TypeOK'
  <2>1. currentEpoch + 1 \in Epoch
    BY <1>12, MachineAssumption DEF Commit, MachineCommit, TypeOK, MachineTypeOK, Epoch
  <2>2. MachineTypeOK'
    BY <1>12, <1>a, <2>1 DEF Commit, MachineCommit, TypeOK, MachineTypeOK, Bound, Binding
  <2>3. Born(open[o].target) \in Runtime
    BY <1>a DEF Born, Unborn, Runtime
  <2>4. rt' \in [Epoch -> Runtime]
    BY <1>12, <2>1, <2>3, RetireType DEF Commit, TypeOK
  <2>b. [open[o] EXCEPT !.pc = "retire", !.rt = currentEpoch + 1,
                        !.old = runtime, !.activated = activated] \in Open
    BY <2>1 DEF TypeOK, Open, AfterCommit
  <2>5. open' \in [Op -> Open]
    BY <1>12, <2>b DEF Commit, TypeOK
  <2> QED BY <1>12, <2>1, <2>2, <2>4, <2>5, RetireAsksType DEF Commit, TypeOK
<1>13. ASSUME NEW o \in Op, CommitDisposed(o) PROVE TypeOK'
  <2>1. MachineTypeOK'
    BY <1>13, <1>a, MachineAssumption DEF CommitDisposed, MachineCommit, TypeOK,
       MachineTypeOK, Bound, Binding, Epoch
  <2> QED BY <1>13, <2>1, ContinueType DEF CommitDisposed, TypeOK, Settled
<1>14. ASSUME NEW o \in Op, HostFailed(o) PROVE TypeOK'
  <2>1. MachineTypeOK'
    BY <1>14, <1>a, FailType DEF HostFailed, TypeOK
  <2> QED BY <1>14, <2>1, ContinueType DEF HostFailed, TypeOK, workspaceVars, Settled
<1>15. ASSUME NEW o \in Op, Retired(o) PROVE TypeOK'
  <2>b. rt[open[o].rt] \in Runtime
    BY <1>a DEF TypeOK
  <2>a. [rt[open[o].rt] EXCEPT !.follow = "opening", !.opened = "waiting"] \in Runtime
    BY <2>b DEF Runtime
  <2>1. rt' \in [Epoch -> Runtime]
    <3>1. CASE rt[open[o].rt].scope = "active"
      BY <1>15, <1>a, <2>a, <3>1 DEF Retired, TypeOK
    <3>2. CASE rt[open[o].rt].scope # "active"
      BY <1>15, <3>2 DEF Retired, TypeOK
    <3> QED BY <3>1, <3>2
  <2>2. open' \in [Op -> Open]
    BY <1>15, ContinueType DEF Retired, TypeOK, AfterCommit, Settled
  <2> QED BY <1>15, <2>1, <2>2 DEF Retired, TypeOK, MachineTypeOK, machineVars
<1>16. ASSUME NEW e \in Epoch, ScopeReleased(e) PROVE TypeOK'
  <2>1. rt' \in [Epoch -> Runtime]
    BY <1>16 DEF ScopeReleased, TypeOK, Runtime
  <2> QED BY <1>16, <2>1 DEF ScopeReleased, TypeOK, MachineTypeOK, machineVars, managerVars
<1>17. ASSUME NEW e \in Epoch, FollowSnapshot(e) PROVE TypeOK'
  <2>a. Online(rt[e]) \in Runtime
    BY DEF Online, TypeOK, Runtime
  <2>1. rt' \in [Epoch -> Runtime]
    BY <1>17, <2>a DEF FollowSnapshot, TypeOK
  <2> QED BY <1>17, <2>1 DEF FollowSnapshot, TypeOK, MachineTypeOK, machineVars, managerVars
<1>18. ASSUME NEW e \in Epoch, FollowBroken(e) PROVE TypeOK'
  <2>a. Broken(rt[e]) \in Runtime
    BY DEF Broken, TypeOK, Runtime
  <2>1. rt' \in [Epoch -> Runtime]
    BY <1>18, <2>a DEF FollowBroken, TypeOK
  <2> QED BY <1>18, <2>1 DEF FollowBroken, TypeOK, MachineTypeOK, machineVars, managerVars
<1>19. ASSUME NEW e \in Epoch, FollowEnded(e) PROVE TypeOK'
  <2>1. rt' \in [Epoch -> Runtime]
    BY <1>19 DEF FollowEnded, TypeOK, Runtime
  <2> QED BY <1>19, <2>1 DEF FollowEnded, TypeOK, MachineTypeOK, machineVars, managerVars
<1>20. ASSUME NEW p \in Prompt, SubmitFirst(p) PROVE TypeOK'
  <2>1. prompts' \in [Prompt -> PromptCall]
    BY <1>20, BeginType DEF SubmitFirst, TypeOK, PromptCall, SessionId
  <2> QED BY <1>20, <2>1, BeginType DEF SubmitFirst, TypeOK, workspaceVars, SessionId
<1>21. ASSUME NEW p \in Prompt, SubmitToVisible(p) PROVE TypeOK'
  <2>1. prompts' \in [Prompt -> PromptCall]
    BY <1>21, StartType DEF SubmitToVisible, TypeOK
  <2> QED BY <1>21, <2>1 DEF SubmitToVisible, TypeOK, MachineTypeOK, machineVars, workspaceVars
<1>22. ASSUME NEW p \in Prompt, SubmitShared(p) PROVE TypeOK'
  <2>1. prompts' \in [Prompt -> PromptCall]
    BY <1>22 DEF SubmitShared, TypeOK, PromptCall
  <2> QED BY <1>22, <2>1 DEF SubmitShared, TypeOK, MachineTypeOK, machineVars, workspaceVars
<1>23. ASSUME NEW p \in Prompt, EnsureReturned(p) PROVE TypeOK'
  <2>1. prompts' \in [Prompt -> PromptCall]
    <3>1. CASE open[prompts[p].op].pc = "done"
      BY <1>23, <3>1, StartType DEF EnsureReturned, TypeOK
    <3>2. CASE open[prompts[p].op].pc # "done"
      BY <1>23, <3>2 DEF EnsureReturned, TypeOK, PromptCall
    <3> QED BY <3>1, <3>2
  <2> QED BY <1>23, <2>1 DEF EnsureReturned, TypeOK, MachineTypeOK, machineVars, workspaceVars
<1>24. ASSUME NEW p \in Prompt, Prepared(p) PROVE TypeOK'
  <2>1. prompts' \in [Prompt -> PromptCall]
    BY <1>24 DEF Prepared, TypeOK, PromptCall
  <2> QED BY <1>24, <2>1 DEF Prepared, TypeOK, MachineTypeOK, machineVars, workspaceVars
<1>25. ASSUME NEW p \in Prompt, PreparationFailed(p) PROVE TypeOK'
  <2>1. prompts' \in [Prompt -> PromptCall]
    BY <1>25 DEF PreparationFailed, TypeOK, PromptCall
  <2> QED BY <1>25, <2>1 DEF PreparationFailed, TypeOK, MachineTypeOK, machineVars, workspaceVars
<1>26. ASSUME OpeningSettled PROVE TypeOK'
  BY <1>26 DEF OpeningSettled, TypeOK, MachineTypeOK, machineVars, workspaceVars
<1>27. ASSUME NEW a \in Ask, NEW s \in Session, Requested(a, s) PROVE TypeOK'
  BY <1>27 DEF Requested, AskCall, SessionId, TypeOK, MachineTypeOK, machineVars, workspaceVars
<1>28. ASSUME NEW a \in Ask, NEW outcome \in {"answered", "cancelled"}, AskSettled(a, outcome) PROVE TypeOK'
  BY <1>28 DEF AskSettled, AskCall, TypeOK, MachineTypeOK, machineVars, workspaceVars
<1>29. ASSUME NEW s \in Session, RewindForked(s) PROVE TypeOK'
  BY <1>29 DEF RewindForked, RewindCall, SessionId, TypeOK, MachineTypeOK, machineVars,
     workspaceVars
<1>30. ASSUME RewindStarted PROVE TypeOK'
  BY <1>30 DEF RewindStarted, RewindCall, TypeOK, MachineTypeOK, machineVars, workspaceVars
<1>31. ASSUME RewindFailed PROVE TypeOK'
  BY <1>31 DEF RewindFailed, RewindCall, TypeOK, MachineTypeOK, machineVars, workspaceVars
<1>32. ASSUME RewindReturned PROVE TypeOK'
  BY <1>32 DEF RewindReturned, RewindCall, TypeOK, MachineTypeOK, machineVars, workspaceVars
<1>33. ASSUME RewindOpened PROVE TypeOK'
  BY <1>33, BeginType DEF RewindOpened, RewindCall, TypeOK, workspaceVars
<1>34. ASSUME Dispose PROVE TypeOK'
  BY <1>34, RetireType, RetireAsksType DEF Dispose, TypeOK, MachineTypeOK, machineVars
<1>35. ASSUME Disposed PROVE TypeOK'
  BY <1>35 DEF Disposed, TypeOK, MachineTypeOK, machineVars, workspaceVars, managerVars
<1>36. ASSUME UNCHANGED vars PROVE TypeOK'
  BY <1>36 DEF TypeOK, MachineTypeOK, vars, machineVars, workspaceVars, managerVars
<1> QED
  BY <1>1, <1>2, <1>3, <1>4, <1>5, <1>6, <1>7, <1>8, <1>9, <1>10, <1>11,
     <1>12, <1>13, <1>14, <1>15, <1>16, <1>17, <1>18, <1>19, <1>20, <1>21,
     <1>22, <1>23, <1>24, <1>25, <1>26, <1>27, <1>28, <1>29, <1>30, <1>31,
     <1>32, <1>33, <1>34, <1>35, <1>36 DEF Next, UserStep, OpenStep,
     RuntimeStep, PromptStep, AskStep, RewindStep

\* Lemma: the initial states are well typed.
LEMMA InitType == Init => TypeOK
<1> SUFFICES ASSUME Init PROVE TypeOK
  OBVIOUS
<1>1. MachineTypeOK
  BY MachineAssumption DEF Init, MachineInit, MachineTypeOK, Unbound, Bound, Binding,
     SessionId, Epoch
<1>2. rt \in [Epoch -> Runtime]
  BY DEF Init, Unborn, Runtime, SessionId
<1>3. open \in [Op -> Open]
  BY ZeroEpoch DEF Init, Idle, Open, SessionId
<1>4. /\ prompts \in [Prompt -> PromptCall]
      /\ asks \in [Ask -> AskCall]
      /\ rewinding \in RewindCall
  BY ZeroEpoch DEF Init, PromptCall, AskCall, RewindCall, SessionId
<1>5. features \in Epoch
  BY MachineAssumption DEF Init, Epoch
<1> QED
  BY <1>1, <1>2, <1>3, <1>4, <1>5, ManagerAssumption, ZeroEpoch DEF Init, TypeOK

\* Theorem: every variable keeps its type, in every instance.
THEOREM TypeCorrect == Spec => []TypeOK
  BY InitType, TypeStep, PTL DEF Spec

-----------------------------------------------------------------------------
(***************************************************************************)
(* The visible runtime is the owned one.  VisibleIsOwned is not inductive: *)
(* a failing operation restores the Session it captured when it began, so  *)
(* the invariant must say that this Session is still the active one, for   *)
(* which the pending operation must be the latest (PendingIsLatest).       *)
(***************************************************************************)
IInv == TypeOK /\ PendingIsLatest /\ VisibleIsOwned

\* What an operation captured when it began, and that it began at all.
SameOperations ==
  \A o \in Op : /\ open'[o].operation = open[o].operation
                /\ open'[o].pc = "idle" <=> open[o].pc = "idle"

\* Lemma: a step that leaves the machine, the captured operations and the
\* visible runtime alone keeps the invariant.
LEMMA Frame ==
  ASSUME IInv, TypeOK', UNCHANGED <<machineVars, runtime>>, SameOperations,
         phase' = "running" =>
           /\ phase = "running"
           /\ runtime # NoRuntime =>
                /\ rt'[runtime].sessionId = rt[runtime].sessionId
                /\ rt'[runtime].scope = rt[runtime].scope
  PROVE  IInv'
<1>1. PendingIsLatest'
  BY DEF IInv, PendingIsLatest, IsCurrent, machineVars, SameOperations
<1>2. VisibleIsOwned'
  BY DEF IInv, VisibleIsOwned, Owns, MachineOwns, machineVars
<1> QED BY <1>1, <1>2 DEF IInv

\* Lemma: advancing an operation leaves what it captured alone.
LEMMA ContinueFrame ==
  ASSUME TypeOK, NEW o \in Op, NEW pc, pc # "idle", open[o].pc # "idle",
         Continue(o, pc)
  PROVE  SameOperations
  BY DEF Continue, TypeOK, Open, SameOperations

\* Lemma: beginning an operation keeps the invariant.
LEMMA BeginFrame ==
  ASSUME IInv, TypeOK', NEW kind \in {"create", "resume"}, NEW target \in SessionId,
         BeginOpen(kind, target), UNCHANGED <<runtime, rt, phase>>
  PROVE  IInv'
<1> DEFINE n == operationId + 1
<1>1. n \in Op /\ operationId \in Nat
  BY BeginType DEF IInv, TypeOK, MachineTypeOK
<1>2. /\ pending' = NextOperation(VisibleSession)
      /\ operationId' = n
      /\ UNCHANGED <<currentEpoch, activeSessionId>>
  BY DEF BeginOpen, MachineBegin
<1>3. /\ open'[n].operation = NextOperation(VisibleSession)
      /\ open'[n].pc = "describe"
      /\ \A o \in Op : o # n => open'[o] = open[o]
  BY <1>1 DEF BeginOpen, IInv, TypeOK, Idle
<1>4. phase = "running" => VisibleSession = activeSessionId
  BY DEF IInv, VisibleIsOwned, VisibleSession, Owns, MachineOwns
<1>5. \A o \in Op : o # n => open[o].operation.id # n
  BY <1>1, MachineAssumption DEF IInv, PendingIsLatest, Op, NoOperation
<1>6. PendingIsLatest'
  <2>1. /\ pending'.id = n
        /\ pending'.epoch = currentEpoch
        /\ pending'.sessionId = VisibleSession
    BY <1>2 DEF NextOperation
  <2>2. \A o \in Op : IF open'[o].pc = "idle"
                      THEN open'[o].operation = NoOperation
                      ELSE open'[o].operation.id = o /\ o <= operationId'
    <3> SUFFICES ASSUME NEW o \in Op
                 PROVE  IF open'[o].pc = "idle"
                        THEN open'[o].operation = NoOperation
                        ELSE open'[o].operation.id = o /\ o <= operationId'
      OBVIOUS
    <3>1. CASE o = n
      BY <1>1, <1>2, <1>3, <3>1 DEF NextOperation
    <3>2. CASE o # n
      BY <1>1, <1>2, <1>3, <3>2, MachineAssumption DEF IInv, PendingIsLatest, Op
    <3> QED BY <3>1, <3>2
  <2>3. \A o \in Op : open'[o].operation.id = pending'.id => open'[o].operation = pending'
    BY <1>2, <1>3, <1>5, <2>1
  <2> QED BY <1>2, <1>4, <2>1, <2>2, <2>3 DEF PendingIsLatest, IsCurrent
<1>7. VisibleIsOwned'
  BY <1>2 DEF IInv, VisibleIsOwned, Owns, MachineOwns
<1> QED BY <1>6, <1>7 DEF IInv

\* Lemma: when nothing is pending any more and the captured operations are
\* the same, PendingIsLatest holds.
LEMMA NothingPending ==
  ASSUME IInv, pending' = NoOperation, operationId' = operationId, SameOperations
  PROVE  PendingIsLatest'
<1>1. \A o \in Op : open[o].operation.id = 0 => open[o].operation = NoOperation
  BY MachineAssumption DEF IInv, TypeOK, Open, Operation, Op
<1>2. \A o \in Op : open'[o].operation.id = 0 => open'[o].operation = NoOperation
  BY <1>1 DEF SameOperations
<1> QED BY <1>2 DEF IInv, PendingIsLatest, IsCurrent, NoOperation, SameOperations

\* Lemma: the invariant holds initially.
LEMMA InitInv == Init => IInv
<1>1. Init => PendingIsLatest /\ VisibleIsOwned
  BY DEF Init, MachineInit, PendingIsLatest, VisibleIsOwned, Idle, IsCurrent
<1> QED BY <1>1, InitType DEF IInv

\* Lemma: every step keeps the invariant.
LEMMA InvStep == IInv /\ [Next]_vars => IInv'
<1> SUFFICES ASSUME IInv, [Next]_vars PROVE IInv'
  OBVIOUS
<1>t. TypeOK /\ TypeOK'
  BY TypeStep DEF IInv
<1> USE <1>t, ZeroEpoch
<1>1. ASSUME NEW activated \in BOOLEAN, NewSession(activated) PROVE IInv'
  <2>1. PendingIsLatest'
    BY <1>1, NothingPending DEF NewSession, MachineReset, SameOperations
  <2>2. VisibleIsOwned'
    BY <1>1 DEF NewSession, MachineReset, VisibleIsOwned
  <2> QED BY <2>1, <2>2 DEF IInv
<1>2. ASSUME NEW s \in Session, Resume(s) PROVE IInv'
  BY <1>2, BeginFrame DEF Resume, workspaceVars, SessionId
<1>3. ASSUME NEW o \in Op, HostDescribed(o) PROVE IInv'
  BY <1>3, Frame, ContinueFrame DEF HostDescribed, workspaceVars
<1>4. ASSUME NEW o \in Op, SessionListed(o) PROVE IInv'
  BY <1>4, Frame, ContinueFrame DEF SessionListed, workspaceVars
<1>5. ASSUME NEW o \in Op, SessionResumed(o) PROVE IInv'
  BY <1>5, Frame, ContinueFrame DEF SessionResumed, workspaceVars
<1>6. ASSUME NEW o \in Op, ModelSelected(o) PROVE IInv'
  BY <1>6, Frame, ContinueFrame DEF ModelSelected, workspaceVars
<1>7. ASSUME NEW o \in Op, Superseded(o) PROVE IInv'
  BY <1>7, Frame, ContinueFrame DEF Superseded, workspaceVars
<1>8. ASSUME NEW o \in Op, RetiredInError(o) PROVE IInv'
  BY <1>8, Frame, ContinueFrame DEF RetiredInError, workspaceVars
<1>9. ASSUME NEW o \in Op, FollowSettled(o) PROVE IInv'
  BY <1>9, Frame, ContinueFrame DEF FollowSettled, workspaceVars
<1>10. ASSUME NEW o \in Op, ModelsRefreshed(o) PROVE IInv'
  BY <1>10, Frame, ContinueFrame DEF ModelsRefreshed, workspaceVars
<1>11. ASSUME NEW o \in Op, NEW s \in Session, SessionCreated(o, s) PROVE IInv'
  <2>1. SameOperations
    BY <1>11 DEF SessionCreated, TypeOK, Open, SameOperations
  <2> QED BY <1>11, <2>1, Frame DEF SessionCreated, workspaceVars
<1>12. ASSUME NEW o \in Op, NEW activated \in BOOLEAN, Commit(o, activated) PROVE IInv'
  <2> DEFINE e == currentEpoch + 1
  <2>1. SameOperations
    BY <1>12 DEF Commit, TypeOK, Open, SameOperations
  <2>2. PendingIsLatest'
    BY <1>12, <2>1, NothingPending DEF Commit, MachineCommit
  <2>3. e \in Epoch /\ e # NoRuntime
    BY <1>12, MachineAssumption DEF Commit, MachineCommit, TypeOK, MachineTypeOK, Epoch,
       NoRuntime
  <2>4. rt'[e] = Born(open[o].target)
    BY <1>12, <2>3, RetireType DEF Commit, TypeOK
  <2>5. rt'[e].sessionId = open[o].target /\ rt'[e].scope = "active"
    BY <2>4 DEF Born, Unborn
  <2>6. VisibleIsOwned'
    BY <1>12, <2>3, <2>5 DEF Commit, MachineCommit, VisibleIsOwned, Owns, MachineOwns
  <2> QED BY <2>2, <2>6 DEF IInv
<1>13. ASSUME NEW o \in Op, CommitDisposed(o) PROVE IInv'
  <2>1. PendingIsLatest'
    BY <1>13, ContinueFrame, NothingPending DEF CommitDisposed, MachineCommit
  <2> QED BY <1>13, <2>1 DEF CommitDisposed, VisibleIsOwned, IInv
<1>14. ASSUME NEW o \in Op, HostFailed(o) PROVE IInv'
  <2>1. CASE ~IsCurrent(open[o].operation)
    BY <1>14, <2>1, Frame, ContinueFrame DEF HostFailed, WorkspaceFail, workspaceVars
  <2>2. CASE IsCurrent(open[o].operation)
    <3>1. /\ pending' = NoOperation
          /\ activeSessionId' = open[o].operation.sessionId
          /\ UNCHANGED <<operationId, currentEpoch>>
      BY <1>14, <2>2 DEF HostFailed, WorkspaceFail, MachineRollback, MachineFail,
         MachineRestore
    <3>2. PendingIsLatest'
      BY <1>14, <3>1, ContinueFrame, NothingPending DEF HostFailed
    <3>3. /\ open[o].operation = pending
          /\ pending # NoOperation
      BY <1>14, <2>2 DEF HostFailed, IInv, PendingIsLatest, NoOperation, NoOp
    <3>4. phase = "running" => activeSessionId' = activeSessionId
      BY <3>1, <3>3 DEF IInv, PendingIsLatest
    <3>5. VisibleIsOwned'
      BY <1>14, <3>1, <3>4 DEF HostFailed, workspaceVars, IInv, VisibleIsOwned, Owns,
         MachineOwns
    <3> QED BY <3>2, <3>5 DEF IInv
  <2> QED BY <2>1, <2>2
<1>15. ASSUME NEW o \in Op, Retired(o) PROVE IInv'
  <2>1. SameOperations
    BY <1>15, ContinueFrame DEF Retired
  <2>2. /\ rt'[runtime].sessionId = rt[runtime].sessionId
        /\ rt'[runtime].scope = rt[runtime].scope
    <3>1. CASE rt[open[o].rt].scope # "active"
      BY <1>15, <3>1 DEF Retired
    <3>2. CASE rt[open[o].rt].scope = "active"
      <4>1. rt' = [rt EXCEPT ![open[o].rt] =
                     [@ EXCEPT !.follow = "opening", !.opened = "waiting"]]
        BY <1>15, <3>2 DEF Retired
      <4>2. rt[runtime] \in Runtime
        BY DEF TypeOK
      <4> QED BY <4>1, <4>2 DEF TypeOK, Runtime
    <3> QED BY <3>1, <3>2
  <2> QED BY <1>15, <2>1, <2>2, Frame DEF Retired
<1>16. ASSUME NEW e \in Epoch, ScopeReleased(e) PROVE IInv'
  <2>1. phase = "running" => e # runtime \/ runtime = NoRuntime
    BY <1>16 DEF ScopeReleased, IInv, VisibleIsOwned, Owns
  <2>2. e # runtime => rt'[runtime] = rt[runtime]
    BY <1>16 DEF ScopeReleased, TypeOK
  <2> QED BY <1>16, <2>1, <2>2, Frame DEF ScopeReleased, managerVars, SameOperations
<1>17. ASSUME NEW e \in Epoch, FollowSnapshot(e) PROVE IInv'
  <2>1. /\ rt'[runtime].sessionId = rt[runtime].sessionId
        /\ rt'[runtime].scope = rt[runtime].scope
    BY <1>17 DEF FollowSnapshot, Online, TypeOK, Runtime
  <2> QED BY <1>17, <2>1, Frame DEF FollowSnapshot, managerVars, SameOperations
<1>18. ASSUME NEW e \in Epoch, FollowBroken(e) PROVE IInv'
  <2>1. /\ rt'[runtime].sessionId = rt[runtime].sessionId
        /\ rt'[runtime].scope = rt[runtime].scope
    BY <1>18 DEF FollowBroken, Broken, TypeOK, Runtime
  <2> QED BY <1>18, <2>1, Frame DEF FollowBroken, managerVars, SameOperations
<1>19. ASSUME NEW e \in Epoch, FollowEnded(e) PROVE IInv'
  <2>1. /\ rt'[runtime].sessionId = rt[runtime].sessionId
        /\ rt'[runtime].scope = rt[runtime].scope
    BY <1>19 DEF FollowEnded, TypeOK, Runtime
  <2> QED BY <1>19, <2>1, Frame DEF FollowEnded, managerVars, SameOperations
<1>20. ASSUME NEW p \in Prompt, SubmitFirst(p) PROVE IInv'
  BY <1>20, BeginFrame DEF SubmitFirst, workspaceVars, SessionId
<1>21. ASSUME NEW p \in Prompt, SubmitToVisible(p) PROVE IInv'
  BY <1>21, Frame DEF SubmitToVisible, workspaceVars, SameOperations
<1>22. ASSUME NEW p \in Prompt, SubmitShared(p) PROVE IInv'
  BY <1>22, Frame DEF SubmitShared, workspaceVars, SameOperations
<1>23. ASSUME NEW p \in Prompt, EnsureReturned(p) PROVE IInv'
  BY <1>23, Frame DEF EnsureReturned, workspaceVars, SameOperations
<1>24. ASSUME NEW p \in Prompt, Prepared(p) PROVE IInv'
  BY <1>24, Frame DEF Prepared, workspaceVars, SameOperations
<1>25. ASSUME NEW p \in Prompt, PreparationFailed(p) PROVE IInv'
  BY <1>25, Frame DEF PreparationFailed, workspaceVars, SameOperations
<1>26. ASSUME OpeningSettled PROVE IInv'
  BY <1>26, Frame DEF OpeningSettled, workspaceVars, SameOperations
<1>27. ASSUME NEW a \in Ask, NEW s \in Session, Requested(a, s) PROVE IInv'
  BY <1>27, Frame DEF Requested, workspaceVars, SameOperations
<1>28. ASSUME NEW a \in Ask, NEW outcome \in {"answered", "cancelled"}, AskSettled(a, outcome) PROVE IInv'
  BY <1>28, Frame DEF AskSettled, workspaceVars, SameOperations
<1>29. ASSUME NEW s \in Session, RewindForked(s) PROVE IInv'
  BY <1>29, Frame DEF RewindForked, workspaceVars, SameOperations
<1>30. ASSUME RewindStarted PROVE IInv'
  BY <1>30, Frame DEF RewindStarted, workspaceVars, SameOperations
<1>31. ASSUME RewindFailed PROVE IInv'
  BY <1>31, Frame DEF RewindFailed, workspaceVars, SameOperations
<1>32. ASSUME RewindReturned PROVE IInv'
  BY <1>32, Frame DEF RewindReturned, workspaceVars, SameOperations
<1>33. ASSUME RewindOpened PROVE IInv'
  BY <1>33, BeginFrame DEF RewindOpened, TypeOK, RewindCall, workspaceVars
<1>34. ASSUME Dispose PROVE IInv'
  BY <1>34, Frame DEF Dispose, SameOperations
<1>35. ASSUME Disposed PROVE IInv'
  BY <1>35, Frame DEF Disposed, workspaceVars, managerVars, SameOperations
<1>36. ASSUME UNCHANGED vars PROVE IInv'
  BY <1>36, Frame DEF vars, workspaceVars, managerVars, SameOperations
<1> QED
  BY <1>1, <1>2, <1>3, <1>4, <1>5, <1>6, <1>7, <1>8, <1>9, <1>10, <1>11,
     <1>12, <1>13, <1>14, <1>15, <1>16, <1>17, <1>18, <1>19, <1>20, <1>21,
     <1>22, <1>23, <1>24, <1>25, <1>26, <1>27, <1>28, <1>29, <1>30, <1>31,
     <1>32, <1>33, <1>34, <1>35, <1>36 DEF Next, UserStep, OpenStep,
     RuntimeStep, PromptStep, AskStep, RewindStep

\* Theorem: in every instance, the visible runtime is the one the epoch guard
\* accepts for as long as the application runs.
THEOREM VisibleOwned == Spec => []VisibleIsOwned
<1>1. IInv => VisibleIsOwned
  BY DEF IInv
<1> QED BY <1>1, InitInv, InvStep, PTL DEF Spec

\* Theorem: the pending operation is always the one begun last, in the
\* current epoch, and falls back to the binding in place.
THEOREM PendingLatest == Spec => []PendingIsLatest
<1>1. IInv => PendingIsLatest
  BY DEF IInv
<1> QED BY <1>1, InitInv, InvStep, PTL DEF Spec

\* Lemma: only a commit makes another runtime visible.
LEMMA VisibleByCommit ==
  ASSUME [Next]_vars, runtime' \notin {runtime, NoRuntime}
  PROVE  \E o \in Op, activated \in BOOLEAN : Commit(o, activated)
<1>1. CASE UNCHANGED vars
  BY <1>1 DEF vars, workspaceVars
<1>2. CASE UserStep
  BY <1>2 DEF UserStep, NewSession, Resume, SubmitToVisible, SubmitFirst, SubmitShared,
     RewindStarted, Dispose, workspaceVars
<1>3. CASE \E o \in Op : OpenStep(o)
  BY <1>3 DEF OpenStep, HostDescribed, SessionListed, SessionCreated, SessionResumed,
     ModelSelected, HostFailed, CommitDisposed, Superseded, Retired, RetiredInError,
     FollowSettled, ModelsRefreshed, workspaceVars
<1>4. CASE \E e \in Epoch : RuntimeStep(e)
  BY <1>4 DEF RuntimeStep, ScopeReleased, FollowSnapshot, FollowBroken, FollowEnded
<1>5. CASE \E p \in Prompt : PromptStep(p)
  BY <1>5 DEF PromptStep, EnsureReturned, Prepared, PreparationFailed, workspaceVars
<1>6. CASE (\E a \in Ask : AskStep(a)) \/ OpeningSettled \/ RewindStep \/ Disposed
  BY <1>6 DEF AskStep, Requested, AskSettled, OpeningSettled, RewindStep, RewindForked,
     RewindFailed, RewindOpened, RewindReturned, Disposed, workspaceVars
<1> QED BY <1>1, <1>2, <1>3, <1>4, <1>5, <1>6 DEF Next

\* Theorem: in every instance, only the replacement requested last becomes
\* visible, and only if nothing replaced the binding since it began.
THEOREM LatestCommits == Spec => LatestWins
<1>1. ASSUME IInv, [Next]_vars, runtime' \notin {runtime, NoRuntime}
      PROVE  /\ open'[operationId].rt = runtime'
             /\ open[operationId].operation.epoch = currentEpoch
  <2>1. PICK o \in Op, activated \in BOOLEAN : Commit(o, activated)
    BY <1>1, VisibleByCommit
  <2>2. open[o].operation.id = o /\ open[o].operation = pending
    BY <1>1, <2>1 DEF IInv, PendingIsLatest, Commit, MachineCommit
  <2>3. pending # NoOperation
    BY <1>1, <2>2, ZeroEpoch DEF NoOperation, NoOp
  <2>4. o = operationId /\ open[o].operation.epoch = currentEpoch
    BY <1>1, <2>2, <2>3 DEF IInv, PendingIsLatest
  <2>5. open'[o].rt = currentEpoch + 1 /\ runtime' = currentEpoch + 1
    BY <1>1, <2>1 DEF Commit, IInv, TypeOK, Open
  <2> QED BY <2>4, <2>5
<1> QED BY <1>1, InitInv, InvStep, PTL DEF Spec, LatestWins

-----------------------------------------------------------------------------
(***************************************************************************)
(* SessionManager implements SessionBinding: its initial states are        *)
(* initial states of the abstract specification, and each of its steps     *)
(* requests, serves or abandons a request there, goes back to the draft,   *)
(* or changes nothing.                                                     *)
(***************************************************************************)

(***************************************************************************)
(* The refinement mapping reads off the operations which of them opened    *)
(* the visible runtime.  That it is exactly one, and that a commit shows a *)
(* Session, rests on what each operation has obtained so far.              *)
(***************************************************************************)
Obtained(o) ==
  /\ open[o].rt <= currentEpoch
  /\ open[o].pc = "idle" => open[o].rt = NoRuntime
  /\ open[o].pc \in {"select", "admitted"} => open[o].target \in Session
  /\ open[o].pc # "idle" /\ open[o].kind = "resume" => open[o].target \in Session

OneOpener ==
  /\ \A o, q \in Op : open[o].rt = open[q].rt /\ open[o].rt # NoRuntime => o = q
  /\ runtime # NoRuntime => \E o \in Op : open[o].rt = runtime

OpenedInv ==
  /\ IInv
  /\ \A o \in Op : Obtained(o)
  /\ OneOpener
  /\ rewinding.pc = "forked" => rewinding.target \in Session

\* A step after which every operation has the runtime it had before.
SameRuntimes == \A o \in Op : open'[o].rt = open[o].rt

\* Lemma: an operation that only advances keeps what it has obtained.
LEMMA ContinueObtained ==
  ASSUME TypeOK, TypeOK', \A q \in Op : Obtained(q), NEW o \in Op,
         NEW pc \in {"list", "admit", "follow", "models", "done", "failed"},
         open[o].pc # "idle", Continue(o, pc), currentEpoch <= currentEpoch'
  PROVE  (\A q \in Op : Obtained(q)') /\ SameRuntimes
<1>1. /\ \A q \in Op : /\ open'[q].rt = open[q].rt
                       /\ open'[q].target = open[q].target
                       /\ open'[q].kind = open[q].kind
      /\ \A q \in Op : q # o => open'[q] = open[q]
      /\ open'[o].pc = pc
  BY DEF Continue, TypeOK, Open
<1>2. /\ currentEpoch \in Nat /\ currentEpoch' \in Nat
      /\ \A q \in Op : open[q].rt \in Nat
  BY DEF TypeOK, MachineTypeOK, Epoch, Open
<1> QED BY <1>1, <1>2 DEF Obtained, SameRuntimes

\* Lemma: so does a new operation, which has obtained nothing but its target.
LEMMA BeginObtained ==
  ASSUME OpenedInv, NEW kind \in {"create", "resume"},
         NEW target \in SessionId, kind = "resume" => target \in Session,
         BeginOpen(kind, target)
  PROVE  (\A q \in Op : Obtained(q)') /\ SameRuntimes
<1>1. operationId + 1 \in Op
  BY BeginType DEF OpenedInv, IInv
<1>2. /\ open'[operationId + 1].pc = "describe"
      /\ open'[operationId + 1].kind = kind
      /\ open'[operationId + 1].target = target
      /\ open'[operationId + 1].rt = NoRuntime
      /\ \A q \in Op : q # operationId + 1 => open'[q] = open[q]
      /\ UNCHANGED currentEpoch
  BY <1>1 DEF BeginOpen, MachineBegin, OpenedInv, IInv, TypeOK, Idle
<1>3. open[operationId + 1].pc = "idle"
  BY <1>1 DEF OpenedInv, IInv, TypeOK, MachineTypeOK, PendingIsLatest
<1>4. currentEpoch \in Nat
  BY DEF OpenedInv, IInv, TypeOK, MachineTypeOK, Epoch
<1> QED BY <1>1, <1>2, <1>3, <1>4 DEF OpenedInv, Obtained, SameRuntimes, NoRuntime

\* Lemma: a step that keeps the runtimes and, as long as one is visible, the
\* visible one, keeps the invariant.
LEMMA SameOpener ==
  ASSUME OpenedInv, SameRuntimes, runtime' \in {runtime, NoRuntime}
  PROVE  OneOpener'
  BY DEF OpenedInv, OneOpener, SameRuntimes

\* Lemma: the invariant holds initially.
LEMMA OpenedInit == Init => OpenedInv
<1> SUFFICES ASSUME Init PROVE OpenedInv
  OBVIOUS
<1> QED BY InitInv DEF Init, MachineInit, OpenedInv, OneOpener, Obtained, Idle, NoRuntime

\* Lemma: a step that leaves the operations alone keeps the invariant.
LEMMA SameOpen ==
  ASSUME OpenedInv, IInv', UNCHANGED <<open, rewinding>>, currentEpoch <= currentEpoch',
         runtime' \in {runtime, NoRuntime}
  PROVE  OpenedInv' /\ SameRuntimes
<1>1. /\ currentEpoch \in Nat /\ currentEpoch' \in Nat
      /\ \A q \in Op : open[q].rt \in Nat
  BY DEF OpenedInv, IInv, TypeOK, MachineTypeOK, Epoch, Open
<1>2. SameRuntimes
  BY DEF SameRuntimes
<1>3. OneOpener'
  BY <1>2, SameOpener
<1> QED BY <1>1, <1>2, <1>3 DEF OpenedInv, Obtained

\* Lemma: a step that advances one operation keeps the invariant.
LEMMA OneAdvances ==
  ASSUME OpenedInv, IInv', NEW o \in Op, open[o].pc # "idle",
         NEW pc \in {"list", "admit", "follow", "models", "done", "failed"},
         Continue(o, pc), UNCHANGED rewinding, currentEpoch <= currentEpoch',
         runtime' \in {runtime, NoRuntime}
  PROVE  OpenedInv' /\ SameRuntimes
<1>1. (\A q \in Op : Obtained(q)') /\ SameRuntimes
  BY ContinueObtained DEF OpenedInv, IInv
<1>2. OneOpener'
  BY <1>1, SameOpener
<1> QED BY <1>1, <1>2 DEF OpenedInv

\* Lemma: a step that begins an operation keeps the invariant.
LEMMA OneBegins ==
  ASSUME OpenedInv, IInv', NEW kind \in {"create", "resume"},
         NEW target \in SessionId, kind = "resume" => target \in Session,
         BeginOpen(kind, target), UNCHANGED runtime,
         rewinding'.pc = "forked" => rewinding'.target \in Session
  PROVE  OpenedInv' /\ SameRuntimes
<1>1. (\A q \in Op : Obtained(q)') /\ SameRuntimes
  BY BeginObtained
<1>2. OneOpener'
  BY <1>1, SameOpener
<1> QED BY <1>1, <1>2 DEF OpenedInv

\* Lemma: the step after which an operation may commit has a Session for it.
LEMMA OneAdmitted ==
  ASSUME OpenedInv, IInv', NEW o \in Op, NEW target \in Session,
         NEW pc \in {"select", "admitted"}, open[o].pc # "idle",
         open' = [open EXCEPT ![o] = [@ EXCEPT !.pc = pc, !.target = target]],
         UNCHANGED <<machineVars, runtime, rewinding>>
  PROVE  OpenedInv' /\ SameRuntimes
<1>1. /\ open'[o].pc = pc /\ open'[o].target = target
      /\ open'[o].rt = open[o].rt /\ open'[o].kind = open[o].kind
      /\ \A q \in Op : q # o => open'[q] = open[q]
  BY DEF OpenedInv, IInv, TypeOK, Open
<1>2. SameRuntimes
  BY <1>1 DEF SameRuntimes
<1>3. OneOpener'
  BY <1>2, SameOpener
<1>4. \A q \in Op : Obtained(q)'
  BY <1>1 DEF OpenedInv, Obtained, machineVars
<1> QED BY <1>3, <1>4, <1>2 DEF OpenedInv

\* Lemma: a commit gives the operation that makes it a new runtime.
LEMMA OneCommits ==
  ASSUME OpenedInv, IInv', NEW o \in Op, NEW activated \in BOOLEAN, Commit(o, activated)
  PROVE  /\ OpenedInv'
         /\ open'[o].rt = runtime' /\ runtime' = currentEpoch + 1
         /\ \A q \in Op : q # o => open'[q].rt # runtime'
         /\ open[o].target \in Session
<1>1. /\ open'[o].pc = "retire" /\ open'[o].rt = currentEpoch + 1
      /\ open'[o].target = open[o].target /\ open'[o].kind = open[o].kind
      /\ \A q \in Op : q # o => open'[q] = open[q]
      /\ runtime' = currentEpoch + 1 /\ currentEpoch' = currentEpoch + 1
      /\ UNCHANGED rewinding
  BY DEF Commit, MachineCommit, OpenedInv, IInv, TypeOK, Open
<1>2. currentEpoch \in Nat /\ \A q \in Op : open[q].rt \in Nat /\ open[q].rt <= currentEpoch
  BY DEF OpenedInv, Obtained, IInv, TypeOK, MachineTypeOK, Epoch, Open
<1>3. open[o].target \in Session
  BY DEF Commit, OpenedInv, Obtained
<1>4. \A q \in Op : q # o => open'[q].rt # currentEpoch + 1
  BY <1>1, <1>2
<1>5. \A q \in Op : Obtained(q)'
  BY <1>1, <1>2, <1>3 DEF OpenedInv, Obtained
<1>6. OneOpener'
  BY <1>1, <1>4 DEF OpenedInv, OneOpener
<1> QED BY <1>1, <1>3, <1>4, <1>5, <1>6 DEF OpenedInv

\* Lemma: every step keeps the invariant, and commits, begins an operation, or
\* leaves every operation with the runtime it had.
LEMMA OpenedStep ==
  ASSUME OpenedInv, [Next]_vars
  PROVE  /\ OpenedInv'
         /\ \/ SameRuntimes
            \/ \E o \in Op, activated \in BOOLEAN : Commit(o, activated)
<1>i. IInv /\ IInv' /\ TypeOK
  BY InvStep DEF OpenedInv, IInv
<1>n. currentEpoch \in Nat
  BY <1>i DEF TypeOK, MachineTypeOK, Epoch
<1> DEFINE Kept == OpenedInv' /\ SameRuntimes
<1> USE <1>i, <1>n
<1>1. ASSUME NEW activated \in BOOLEAN, NewSession(activated) PROVE Kept
  BY <1>1, SameOpen DEF NewSession, MachineReset
<1>2. ASSUME NEW s \in Session, Resume(s) PROVE Kept
  <2>1. rewinding.pc = "forked" => rewinding.target \in Session
    BY DEF OpenedInv
  <2> QED BY <1>2, <2>1, OneBegins DEF Resume, workspaceVars, SessionId
<1>3. ASSUME NEW p \in Prompt, SubmitFirst(p) PROVE Kept
  <2>1. rewinding.pc = "forked" => rewinding.target \in Session
    BY DEF OpenedInv
  <2> QED BY <1>3, <2>1, OneBegins DEF SubmitFirst, workspaceVars, SessionId
<1>4. ASSUME RewindOpened PROVE Kept
  <2>1. rewinding.target \in Session
    BY <1>4 DEF RewindOpened, OpenedInv
  <2>2. rewinding'.pc = "opening"
    BY <1>4 DEF RewindOpened, TypeOK, RewindCall
  <2> QED BY <1>4, <2>1, <2>2, OneBegins DEF RewindOpened, workspaceVars, SessionId
<1>5. ASSUME NEW o \in Op, HostDescribed(o) PROVE Kept
  BY <1>5, OneAdvances DEF HostDescribed, machineVars, workspaceVars
<1>6. ASSUME NEW o \in Op, SessionListed(o) PROVE Kept
  BY <1>6, OneAdvances DEF SessionListed, machineVars, workspaceVars
<1>7. ASSUME NEW o \in Op, NEW s \in Session, SessionCreated(o, s) PROVE Kept
  BY <1>7, OneAdmitted DEF SessionCreated, workspaceVars
<1>8. ASSUME NEW o \in Op, SessionResumed(o) \/ ModelSelected(o) PROVE Kept
  <2>1. open[o].pc # "idle" /\ open[o].target \in Session
    BY <1>8 DEF SessionResumed, ModelSelected, OpenedInv, Obtained
  <2>2. open' = [open EXCEPT ![o] = [@ EXCEPT !.pc = "admitted", !.target = open[o].target]]
    BY <1>8 DEF SessionResumed, ModelSelected, Continue, TypeOK, Open
  <2> QED BY <1>8, <2>1, <2>2, OneAdmitted DEF SessionResumed, ModelSelected, workspaceVars
<1>9. ASSUME NEW o \in Op, HostFailed(o) PROVE Kept
  <2>1. UNCHANGED currentEpoch
    BY <1>9 DEF HostFailed, WorkspaceFail, MachineRollback, MachineFail, MachineRestore,
       machineVars
  <2> QED BY <1>9, <2>1, OneAdvances DEF HostFailed, workspaceVars
<1>10. ASSUME NEW o \in Op, CommitDisposed(o) PROVE Kept
  BY <1>10, OneAdvances DEF CommitDisposed, MachineCommit
<1>11. ASSUME NEW o \in Op,
              Superseded(o) \/ RetiredInError(o) \/ FollowSettled(o) \/ ModelsRefreshed(o)
       PROVE  Kept
  BY <1>11, OneAdvances DEF Superseded, RetiredInError, FollowSettled, ModelsRefreshed,
     machineVars, workspaceVars
<1>12. ASSUME NEW o \in Op, Retired(o) PROVE Kept
  BY <1>12, OneAdvances DEF Retired, machineVars
<1>13. ASSUME NEW e \in Epoch, RuntimeStep(e) PROVE Kept
  BY <1>13, SameOpen DEF RuntimeStep, ScopeReleased, FollowSnapshot, FollowBroken,
     FollowEnded, machineVars, managerVars
<1>14. ASSUME NEW p \in Prompt, SubmitToVisible(p) \/ SubmitShared(p) \/ PromptStep(p)
       PROVE  Kept
  BY <1>14, SameOpen DEF SubmitToVisible, SubmitShared, PromptStep, EnsureReturned, Prepared,
     PreparationFailed, machineVars, workspaceVars
<1>15. ASSUME NEW a \in Ask, AskStep(a) PROVE Kept
  BY <1>15, SameOpen DEF AskStep, Requested, AskSettled, machineVars, workspaceVars
<1>16. ASSUME OpeningSettled \/ Dispose \/ Disposed PROVE Kept
  BY <1>16, SameOpen DEF OpeningSettled, Dispose, Disposed, machineVars, workspaceVars,
     managerVars
<1>17. ASSUME \/ \E s \in Session : RewindForked(s)
              \/ RewindStarted \/ RewindFailed \/ RewindReturned
       PROVE  Kept
  <2>1. UNCHANGED <<machineVars, workspaceVars, open>>
    BY <1>17 DEF RewindForked, RewindStarted, RewindFailed, RewindReturned
  <2>2. rewinding'.pc = "forked" => rewinding'.target \in Session
    BY <1>17 DEF RewindForked, RewindStarted, RewindFailed, RewindReturned, TypeOK, RewindCall
  <2>3. SameRuntimes
    BY <2>1 DEF SameRuntimes
  <2>4. OneOpener'
    BY <2>1, <2>3, SameOpener DEF workspaceVars
  <2>5. \A o \in Op : Obtained(o)'
    BY <2>1 DEF OpenedInv, Obtained, machineVars
  <2> QED BY <2>2, <2>3, <2>4, <2>5 DEF OpenedInv
<1>18. ASSUME UNCHANGED vars PROVE Kept
  BY <1>18, SameOpen DEF vars, machineVars, workspaceVars, managerVars
<1>19. ASSUME NEW o \in Op, NEW activated \in BOOLEAN, Commit(o, activated) PROVE OpenedInv'
  BY <1>19, OneCommits
<1> QED
  BY <1>1, <1>2, <1>3, <1>4, <1>5, <1>6, <1>7, <1>8, <1>9, <1>10, <1>11, <1>12, <1>13,
     <1>14, <1>15, <1>16, <1>17, <1>18, <1>19 DEF Next, UserStep, OpenStep, RewindStep

-----------------------------------------------------------------------------
(* The mapping                                                             *)

\* Lemma: the operation that opened a runtime is the one OpenedBy finds.
LEMMA TheOpener ==
  ASSUME NEW calls, NEW e, NEW o \in Op, calls[o].rt = e,
         \A q \in Op : calls[q].rt = e => q = o
  PROVE  (CHOOSE q \in Op : calls[q].rt = e) = o
  OBVIOUS

\* Lemma: a runtime that stays visible keeps its opener.
LEMMA OpenerKept ==
  ASSUME OpenedInv, OpenedInv', SameRuntimes, UNCHANGED runtime
  PROVE  OpenedBy(runtime)' = OpenedBy(runtime)
<1>1. CASE runtime = NoRuntime
  BY <1>1 DEF OpenedBy
<1>2. CASE runtime # NoRuntime
  <2>1. PICK o \in Op : open[o].rt = runtime
    BY <1>2 DEF OpenedInv, OneOpener
  <2>2. /\ \A q \in Op : open[q].rt = runtime => q = o
        /\ \A q \in Op : open'[q].rt = runtime' => q = o
        /\ open'[o].rt = runtime'
    BY <1>2, <2>1 DEF OpenedInv, OneOpener, SameRuntimes
  <2>3. OpenedBy(runtime) = o
    BY <1>2, <2>1, <2>2, TheOpener DEF OpenedBy
  <2>4. OpenedBy(runtime)' = o
    BY <1>2, <2>2, TheOpener DEF OpenedBy
  <2> QED BY <2>3, <2>4
<1> QED BY <1>1, <1>2

\* Lemma: the Session of the visible runtime never changes.
LEMMA SessionKept ==
  ASSUME IInv, [Next]_vars, UNCHANGED runtime
  PROVE  VisibleSession' = VisibleSession
<1>1. SUFFICES ASSUME runtime # NoRuntime PROVE rt'[runtime].sessionId = rt[runtime].sessionId
  BY DEF VisibleSession
<1>2. TypeOK /\ runtime \in Epoch
  BY DEF IInv, TypeOK
<1>3. CASE rt' = rt
  BY <1>3
<1>4. ASSUME NEW activated \in BOOLEAN, NewSession(activated) PROVE FALSE
  BY <1>1, <1>4 DEF NewSession
<1>5. ASSUME NEW o \in Op, NEW activated \in BOOLEAN, Commit(o, activated) PROVE FALSE
  BY <1>1, <1>2, <1>5 DEF Commit, IInv, VisibleIsOwned, Owns, MachineOwns, TypeOK,
     MachineTypeOK, Epoch
<1>6. CASE Dispose
  BY <1>2, <1>6 DEF Dispose, Retire, TypeOK, Runtime
<1>7. ASSUME NEW e \in Epoch, RuntimeStep(e) PROVE rt'[runtime].sessionId = rt[runtime].sessionId
  <2>1. CASE ScopeReleased(e)
    BY <1>2, <2>1 DEF ScopeReleased, TypeOK, Runtime
  <2>2. CASE FollowSnapshot(e)
    BY <1>2, <2>2 DEF FollowSnapshot, Online, TypeOK, Runtime
  <2>3. CASE FollowBroken(e)
    BY <1>2, <2>3 DEF FollowBroken, Broken, TypeOK, Runtime
  <2>4. CASE FollowEnded(e)
    BY <1>2, <2>4 DEF FollowEnded, TypeOK, Runtime
  <2> QED BY <1>7, <2>1, <2>2, <2>3, <2>4 DEF RuntimeStep
<1>8. ASSUME NEW o \in Op, Retired(o) PROVE rt'[runtime].sessionId = rt[runtime].sessionId
  <2>1. CASE rt[open[o].rt].scope # "active"
    BY <1>8, <2>1 DEF Retired
  <2>2. CASE rt[open[o].rt].scope = "active"
    <3>1. rt' = [rt EXCEPT ![open[o].rt] =
                   [@ EXCEPT !.follow = "opening", !.opened = "waiting"]]
      BY <1>8, <2>2 DEF Retired
    <3>2. rt[runtime] \in Runtime
      BY <1>2 DEF TypeOK
    <3> QED BY <1>2, <3>1, <3>2 DEF TypeOK, Runtime
  <2> QED BY <2>1, <2>2
<1> QED
  BY <1>3, <1>4, <1>5, <1>6, <1>7, <1>8 DEF Next, UserStep, OpenStep, PromptStep, AskStep,
     RewindStep, Resume, SubmitToVisible, SubmitFirst, SubmitShared, RewindStarted,
     HostDescribed, SessionListed, SessionCreated, SessionResumed, ModelSelected, HostFailed,
     CommitDisposed, Superseded, RetiredInError, FollowSettled, ModelsRefreshed,
     EnsureReturned, Prepared, PreparationFailed, Requested, AskSettled, OpeningSettled,
     RewindForked, RewindFailed, RewindOpened, RewindReturned, Disposed, vars, workspaceVars

\* Lemma: what is shown stays the same when its runtime does.
LEMMA Shown ==
  ASSUME OpenedInv, OpenedInv', [Next]_vars, SameRuntimes, UNCHANGED runtime
  PROVE  /\ VisibleSession' = VisibleSession
         /\ OpenedBy(runtime)' = OpenedBy(runtime)
  BY OpenerKept, SessionKept DEF OpenedInv

\* Lemma: beginning an operation is a request.
LEMMA BeginRequests ==
  ASSUME OpenedInv, OpenedInv', [Next]_vars, SameRuntimes, UNCHANGED runtime,
         NEW kind, NEW target, BeginOpen(kind, target)
  PROVE  Abstract!Request
<1>1. /\ operationId < MaxOps /\ operationId' = operationId + 1
      /\ pending'.id = operationId + 1
      /\ UNCHANGED currentEpoch
  BY DEF BeginOpen, MachineBegin, NextOperation
<1> QED BY <1>1, Shown DEF Abstract!Request

\* Lemma: going back to the draft, or failing to commit at shutdown, is Draft.
LEMMA ToDraft ==
  ASSUME runtime' = NoRuntime, pending' = NoOperation, currentEpoch' = currentEpoch + 1,
         UNCHANGED operationId
  PROVE  Abstract!Draft
  BY DEF Abstract!Draft, VisibleSession, OpenedBy, NoOperation, NoOp

\* Lemma: the failure of the operation that might commit abandons its request.
LEMMA FailureAbandons ==
  ASSUME OpenedInv, OpenedInv', [Next]_vars, SameRuntimes, NEW o \in Op, HostFailed(o),
         IsCurrent(open[o].operation)
  PROVE  Abstract!Abandon
<1>1. /\ pending' = NoOperation
      /\ UNCHANGED <<operationId, currentEpoch, runtime>>
  BY DEF HostFailed, WorkspaceFail, MachineRollback, MachineFail, MachineRestore, workspaceVars
<1>2. open[o].operation.id = o
  BY DEF HostFailed, OpenedInv, IInv, PendingIsLatest
<1>3. pending.id # 0
  BY <1>2, ZeroEpoch DEF IsCurrent, NoOp
<1> QED BY <1>1, <1>3, Shown DEF Abstract!Abandon, NoOperation

\* Lemma: a commit serves the request.
LEMMA CommitServes ==
  ASSUME OpenedInv, NEW o \in Op, NEW activated \in BOOLEAN, Commit(o, activated)
  PROVE  Abstract!Serve(open[o].target)
<1>1. /\ pending' = NoOperation
      /\ currentEpoch' = currentEpoch + 1
      /\ runtime' = currentEpoch + 1
      /\ UNCHANGED operationId
      /\ pending.id = o
  BY DEF Commit, MachineCommit, IsCurrent, OpenedInv, IInv, PendingIsLatest
<1>2. /\ OpenedInv' /\ open'[o].rt = runtime'
      /\ \A q \in Op : open'[q].rt = runtime' => q = o
  BY InvStep, OneCommits DEF OpenedInv, Next, OpenStep
<1>3. runtime' \in Epoch /\ runtime' # NoRuntime
  BY <1>1, <1>2 DEF OpenedInv, IInv, TypeOK, MachineTypeOK, Epoch, NoRuntime
<1>4. OpenedBy(runtime)' = o
  BY <1>2, <1>3, TheOpener DEF OpenedBy
<1>5. VisibleSession' = open[o].target
  <2>1. rt'[currentEpoch + 1] = Born(open[o].target)
    BY <1>1, <1>3, RetireType DEF Commit, OpenedInv, IInv, TypeOK
  <2> QED BY <1>1, <1>3, <2>1 DEF VisibleSession, Born, Unborn
<1> QED BY <1>1, <1>4, <1>5, ZeroEpoch DEF Abstract!Serve, NoOperation, NoOp

\* Lemma: a step that leaves the machine and the visible runtime alone is a
\* stutter.
LEMMA Stutters ==
  ASSUME OpenedInv, OpenedInv', [Next]_vars, SameRuntimes, UNCHANGED <<machineVars, runtime>>
  PROVE  UNCHANGED Abstract!bindingVars
  BY Shown DEF Abstract!bindingVars, machineVars

\* Lemma: every step maps to an abstract step or a stutter.
LEMMA StepMaps ==
  ASSUME OpenedInv, OpenedInv', [Next]_vars
  PROVE  [Abstract!Next]_(Abstract!bindingVars)
<1> DEFINE Quiet == UNCHANGED <<machineVars, runtime>>
<1>1. ASSUME NEW o \in Op, NEW activated \in BOOLEAN, Commit(o, activated)
      PROVE  \E s \in Session : Abstract!Serve(s)
  BY <1>1, CommitServes, OneCommits DEF OpenedInv
<1>2. SUFFICES ASSUME SameRuntimes PROVE [Abstract!Next]_(Abstract!bindingVars)
  BY <1>1, OpenedStep DEF Abstract!Next
<1>3. ASSUME NEW activated \in BOOLEAN, NewSession(activated) PROVE Abstract!Draft
  BY <1>3, ToDraft DEF NewSession, MachineReset
<1>4. ASSUME NEW o \in Op, CommitDisposed(o) PROVE Abstract!Draft
  BY <1>4, ToDraft DEF CommitDisposed, MachineCommit
<1>5. ASSUME NEW kind, NEW target, BeginOpen(kind, target), UNCHANGED runtime
      PROVE  Abstract!Request
  BY <1>2, <1>5, BeginRequests
<1>6. ASSUME NEW o \in Op, HostFailed(o) PROVE Abstract!Abandon \/ Quiet
  <2>1. CASE IsCurrent(open[o].operation)
    BY <1>2, <1>6, <2>1, FailureAbandons
  <2>2. CASE ~IsCurrent(open[o].operation)
    BY <1>6, <2>2 DEF HostFailed, WorkspaceFail, workspaceVars
  <2> QED BY <2>1, <2>2
<1>7. Quiet => UNCHANGED Abstract!bindingVars
  BY <1>2, Stutters
<1>8. CASE \E o \in Op : OpenStep(o)
  BY <1>1, <1>4, <1>6, <1>7, <1>8 DEF OpenStep, HostDescribed, SessionListed, SessionCreated,
     SessionResumed, ModelSelected, Superseded, Retired, RetiredInError, FollowSettled,
     ModelsRefreshed, workspaceVars, Abstract!Next
<1>9. CASE UserStep \/ RewindStep
  BY <1>3, <1>5, <1>7, <1>9 DEF UserStep, Resume, SubmitToVisible, SubmitFirst, SubmitShared,
     RewindStarted, Dispose, RewindStep, RewindForked, RewindFailed, RewindOpened,
     RewindReturned, workspaceVars, Abstract!Next
<1>10. ASSUME \/ \E e \in Epoch : RuntimeStep(e)
              \/ \E p \in Prompt : PromptStep(p)
              \/ \E a \in Ask : AskStep(a)
              \/ OpeningSettled \/ Disposed \/ UNCHANGED vars
       PROVE  Quiet
  BY <1>10 DEF RuntimeStep, ScopeReleased, FollowSnapshot, FollowBroken, FollowEnded,
     PromptStep, EnsureReturned, Prepared, PreparationFailed, AskStep, Requested, AskSettled,
     OpeningSettled, Disposed, vars, workspaceVars
<1> QED BY <1>7, <1>8, <1>9, <1>10 DEF Next

\* Theorem: in every instance, Session replacement implements the latest-wins
\* binding.
THEOREM Implements == Spec => ImplementsBinding
<1>1. Init => Abstract!Init
  BY DEF Init, MachineInit, Abstract!Init, NoOperation, VisibleSession, OpenedBy, NoOp
<1> QED
  BY <1>1, OpenedInit, OpenedStep, StepMaps, PTL DEF Spec, ImplementsBinding, Abstract!Spec

-----------------------------------------------------------------------------
(***************************************************************************)
(* The binding.  A failing replacement publishes "active" when it captured *)
(* a Session, so the invariant must say that a visible runtime has one; the*)
(* other half is PendingIsLatest: what was captured is what is visible.    *)
(***************************************************************************)
VisibleHasSession == runtime # NoRuntime => rt[runtime].sessionId \in Session

BindingInv == OpenedInv /\ VisibleHasSession /\ BindingTruthful

\* Lemma: while the application runs, the active Session is the visible one.
LEMMA ActiveIsVisible ==
  ASSUME BindingInv, phase = "running"
  PROVE  /\ activeSessionId = VisibleSession
         /\ runtime # NoRuntime => runtime = currentEpoch /\ VisibleSession # NoSession
         /\ pending # NoOperation => pending.sessionId = VisibleSession
  BY MachineAssumption DEF BindingInv, OpenedInv, IInv, VisibleIsOwned, Owns, MachineOwns,
     VisibleHasSession, VisibleSession, PendingIsLatest

\* Lemma: a step that leaves the machine and what is visible alone keeps the
\* binding truthful.
LEMMA SameBinding ==
  ASSUME BindingTruthful, UNCHANGED <<machineVars, runtime, features>>,
         VisibleSession' = VisibleSession, phase' = "running" => phase = "running"
  PROVE  BindingTruthful'
  BY DEF BindingTruthful, machineVars, Bound

\* Lemma: so does beginning an operation.
LEMMA BeginBinding ==
  ASSUME BindingInv, TypeOK', NEW kind, NEW target, BeginOpen(kind, target),
         UNCHANGED <<runtime, features, phase>>, VisibleSession' = VisibleSession
  PROVE  BindingTruthful'
<1>1. /\ binding' = Bound("preparing", VisibleSession, currentEpoch)
      /\ pending' = NextOperation(VisibleSession)
      /\ operationId' = operationId + 1 /\ operationId \in Nat
      /\ UNCHANGED currentEpoch
  BY DEF BeginOpen, MachineBegin, BindingInv, OpenedInv, IInv, TypeOK, MachineTypeOK
<1>2. pending' # NoOperation
  BY <1>1 DEF NextOperation, NoOperation
<1> QED BY <1>1, <1>2 DEF BindingTruthful, BindingInv, Bound

\* Lemma: a failing operation restores the binding it found.
LEMMA FailureBinding ==
  ASSUME BindingInv, NEW o \in Op, HostFailed(o), VisibleSession' = VisibleSession
  PROVE  BindingTruthful'
<1>1. CASE phase # "running"
  BY <1>1 DEF HostFailed, BindingTruthful
<1>2. CASE ~IsCurrent(open[o].operation)
  BY <1>2, SameBinding DEF HostFailed, WorkspaceFail, workspaceVars, BindingInv
<1>3. CASE phase = "running" /\ IsCurrent(open[o].operation)
  <2> DEFINE operation == open[o].operation
  <2>1. operation = pending /\ pending # NoOperation
    BY <1>3, ZeroEpoch DEF HostFailed, BindingInv, OpenedInv, IInv, PendingIsLatest,
       NoOperation, NoOp
  <2>2. operation.sessionId = VisibleSession
    BY <1>3, <2>1, ActiveIsVisible
  <2>3. /\ pending' = NoOperation
        /\ UNCHANGED <<currentEpoch, runtime, features, phase>>
        /\ binding' = IF operation.sessionId = NoSession
                      THEN Bound("failed", NoSession, currentEpoch)
                      ELSE Bound("active", operation.sessionId, currentEpoch)
    BY <1>3 DEF HostFailed, WorkspaceFail, MachineRollback, MachineFail, MachineRestore,
       workspaceVars
  <2>4. features \in {currentEpoch, NoFeatures}
    BY <1>3 DEF BindingInv, BindingTruthful
  <2>5. CASE VisibleSession = NoSession
    <3>1. runtime = NoRuntime
      BY <1>3, <2>5, ActiveIsVisible
    <3> QED BY <2>2, <2>3, <2>4, <2>5, <3>1 DEF BindingTruthful, Bound
  <2>6. CASE VisibleSession # NoSession
    <3>1. runtime # NoRuntime /\ runtime = currentEpoch
      BY <1>3, <2>6, ActiveIsVisible DEF VisibleSession
    <3> QED BY <2>2, <2>3, <2>4, <2>6, <3>1 DEF BindingTruthful, Bound
  <2> QED BY <2>5, <2>6
<1> QED BY <1>1, <1>2, <1>3

\* Lemma: a commit publishes the binding of the runtime it shows.
LEMMA CommitBinding ==
  ASSUME BindingInv, TypeOK', NEW o \in Op, NEW activated \in BOOLEAN, Commit(o, activated)
  PROVE  BindingTruthful' /\ VisibleHasSession'
<1>1. /\ runtime' = currentEpoch + 1 /\ currentEpoch' = currentEpoch + 1
      /\ pending' = NoOperation
      /\ binding' = Bound("active", open[o].target, currentEpoch + 1)
      /\ features' \in {currentEpoch + 1, NoFeatures}
  BY DEF Commit, MachineCommit
<1>2. runtime' \in Epoch /\ runtime' # NoRuntime
  BY <1>1 DEF BindingInv, OpenedInv, IInv, TypeOK, MachineTypeOK, Epoch, NoRuntime
<1>3. rt'[runtime'] = Born(open[o].target)
  BY <1>1, <1>2, RetireType DEF Commit, BindingInv, OpenedInv, IInv, TypeOK
<1>4. rt'[runtime'].sessionId = open[o].target
  BY <1>3 DEF Born, Unborn
<1>5. open[o].target \in Session
  BY DEF Commit, BindingInv, OpenedInv, Obtained
<1> QED BY <1>1, <1>2, <1>4, <1>5 DEF BindingTruthful, VisibleHasSession, VisibleSession, Bound

\* Lemma: a step that keeps the visible runtime keeps that it has a Session.
LEMMA SameSession ==
  ASSUME BindingInv, [Next]_vars, UNCHANGED runtime
  PROVE  VisibleHasSession' /\ VisibleSession' = VisibleSession
  BY SessionKept DEF BindingInv, OpenedInv, VisibleHasSession, VisibleSession

\* Lemma: every step keeps the binding truthful.
LEMMA BindingStep == BindingInv /\ [Next]_vars => BindingInv'
<1> SUFFICES ASSUME BindingInv, [Next]_vars PROVE BindingInv'
  OBVIOUS
<1>1. OpenedInv' /\ TypeOK'
  BY OpenedStep DEF BindingInv, OpenedInv, IInv
<1> DEFINE Kept == BindingTruthful' /\ VisibleHasSession'
           Quiet == /\ UNCHANGED <<machineVars, runtime, features>>
                    /\ phase' = "running" => phase = "running"
<1>s. SUFFICES Kept
  BY <1>1 DEF BindingInv
<1>2. ASSUME NEW o \in Op, NEW activated \in BOOLEAN, Commit(o, activated) PROVE Kept
  BY <1>1, <1>2, CommitBinding
<1>3. ASSUME NEW activated \in BOOLEAN, NewSession(activated) PROVE Kept
  BY <1>3, ZeroEpoch DEF NewSession, MachineReset, BindingTruthful, VisibleHasSession, Unbound,
     Bound
<1>4. ASSUME NEW o \in Op, CommitDisposed(o) PROVE Kept
  BY <1>4 DEF CommitDisposed, BindingTruthful, VisibleHasSession
<1>5. ASSUME NEW o \in Op, HostFailed(o) PROVE Kept
  BY <1>5, SameSession, FailureBinding DEF HostFailed, workspaceVars
<1>6. ASSUME NEW kind, NEW target, BeginOpen(kind, target), UNCHANGED <<runtime, features, phase>>
      PROVE  Kept
  BY <1>1, <1>6, SameSession, BeginBinding
<1>7. Quiet => Kept
  BY SameSession, SameBinding DEF BindingInv
<1>8. CASE \E o \in Op : OpenStep(o)
  <2>1. PICK o \in Op : OpenStep(o)
    BY <1>8
  <2>2. ASSUME \/ HostDescribed(o) \/ SessionListed(o) \/ SessionResumed(o) \/ ModelSelected(o)
               \/ \E s \in Session : SessionCreated(o, s)
               \/ Superseded(o) \/ Retired(o) \/ RetiredInError(o)
               \/ FollowSettled(o) \/ ModelsRefreshed(o)
        PROVE  Quiet
    BY <2>2 DEF HostDescribed, SessionListed, SessionResumed, ModelSelected, SessionCreated,
       Superseded, Retired, RetiredInError, FollowSettled, ModelsRefreshed, workspaceVars
  <2> QED BY <1>2, <1>4, <1>5, <1>7, <2>1, <2>2 DEF OpenStep
<1>9. CASE UserStep \/ RewindStep
  <2>1. ASSUME \/ \E p \in Prompt : SubmitToVisible(p) \/ SubmitShared(p)
               \/ RewindStarted \/ Dispose \/ RewindFailed \/ RewindReturned
               \/ \E s \in Session : RewindForked(s)
        PROVE  Quiet
    BY <2>1 DEF SubmitToVisible, SubmitShared, RewindStarted, Dispose, RewindForked,
       RewindFailed, RewindReturned, workspaceVars
  <2>2. ASSUME \/ \E s \in Session : Resume(s)
               \/ \E p \in Prompt : SubmitFirst(p)
               \/ RewindOpened
        PROVE  Kept
    BY <1>6, <2>2 DEF Resume, SubmitFirst, RewindOpened, workspaceVars
  <2> QED BY <1>3, <1>7, <1>9, <2>1, <2>2 DEF UserStep, RewindStep
<1>10. CASE \/ \E e \in Epoch : RuntimeStep(e)
            \/ \E p \in Prompt : PromptStep(p)
            \/ \E a \in Ask : AskStep(a)
            \/ OpeningSettled \/ Disposed \/ UNCHANGED vars
  BY <1>7, <1>10 DEF RuntimeStep, ScopeReleased, FollowSnapshot, FollowBroken, FollowEnded,
     PromptStep, EnsureReturned, Prepared, PreparationFailed, AskStep, Requested, AskSettled,
     OpeningSettled, Disposed, vars, workspaceVars
<1> QED BY <1>8, <1>9, <1>10 DEF Next

\* Lemma: the binding is truthful initially.
LEMMA BindingInit == Init => BindingInv
  BY OpenedInit DEF Init, MachineInit, BindingInv, BindingTruthful, VisibleHasSession, Unbound,
     Bound

\* Theorem: in every instance, the published binding and the features never
\* lie about the runtime that is visible.
THEOREM BindingTrue == Spec => []BindingTruthful
<1>1. BindingInv => BindingTruthful
  BY DEF BindingInv
<1> QED BY <1>1, BindingInit, BindingStep, PTL DEF Spec

-----------------------------------------------------------------------------
(***************************************************************************)
(* The requests.  A runtime becomes visible, or ceases to be, only in a    *)
(* step that rejects every pending request, as long as the application     *)
(* runs.                                                                   *)
(***************************************************************************)

\* Lemma: rejecting the pending requests leaves none.
LEMMA NonePending ==
  ASSUME TypeOK, RetireAsks
  PROVE  \A a \in Ask : asks'[a].pc # "pending"
  BY DEF RetireAsks, TypeOK, AskCall

\* Lemma: every step keeps the pending requests those of the visible Session.
LEMMA AsksStep ==
  ASSUME IInv, PendingAsksVisible, [Next]_vars
  PROVE  PendingAsksVisible'
<1> DEFINE Quiet == UNCHANGED <<runtime, asks>> /\ (phase' = "running" => phase = "running")
<1>t. TypeOK
  BY DEF IInv
<1>1. ASSUME RetireAsks PROVE PendingAsksVisible'
  BY <1>t, <1>1, NonePending DEF PendingAsksVisible
<1>2. ASSUME NEW o \in Op, CommitDisposed(o) PROVE PendingAsksVisible'
  BY <1>2 DEF CommitDisposed, PendingAsksVisible
<1>3. ASSUME NEW a \in Ask, NEW s \in Session, Requested(a, s) PROVE PendingAsksVisible'
  <2>1. VisibleSession' = VisibleSession
    BY <1>3, SessionKept DEF Requested, workspaceVars
  <2> QED BY <1>t, <1>3, <2>1 DEF Requested, PendingAsksVisible, TypeOK
<1>4. ASSUME NEW a \in Ask, NEW outcome \in {"answered", "cancelled"}, AskSettled(a, outcome)
      PROVE  PendingAsksVisible'
  <2>1. VisibleSession' = VisibleSession
    BY <1>4, SessionKept DEF AskSettled, workspaceVars
  <2> QED BY <1>t, <1>4, <2>1 DEF AskSettled, PendingAsksVisible, TypeOK, AskCall
<1>5. Quiet => PendingAsksVisible'
  BY SessionKept DEF PendingAsksVisible
<1>6. CASE \E o \in Op : OpenStep(o)
  <2>1. PICK o \in Op : OpenStep(o)
    BY <1>6
  <2>2. ASSUME \/ HostDescribed(o) \/ SessionListed(o) \/ SessionResumed(o) \/ ModelSelected(o)
               \/ \E s \in Session : SessionCreated(o, s)
               \/ HostFailed(o) \/ Superseded(o) \/ Retired(o) \/ RetiredInError(o)
               \/ FollowSettled(o) \/ ModelsRefreshed(o)
        PROVE  Quiet
    BY <2>2 DEF HostDescribed, SessionListed, SessionResumed, ModelSelected, SessionCreated,
       HostFailed, Superseded, Retired, RetiredInError, FollowSettled, ModelsRefreshed,
       workspaceVars
  <2>3. ASSUME NEW activated \in BOOLEAN, Commit(o, activated) PROVE PendingAsksVisible'
    BY <1>1, <2>3 DEF Commit
  <2> QED BY <1>2, <1>5, <2>1, <2>2, <2>3 DEF OpenStep
<1>7. CASE UserStep \/ RewindStep
  <2>1. ASSUME \/ \E s \in Session : Resume(s)
               \/ \E p \in Prompt : SubmitToVisible(p) \/ SubmitFirst(p) \/ SubmitShared(p)
               \/ RewindStarted \/ RewindFailed \/ RewindOpened \/ RewindReturned
               \/ \E s \in Session : RewindForked(s)
        PROVE  Quiet
    BY <2>1 DEF Resume, SubmitToVisible, SubmitFirst, SubmitShared, RewindStarted, RewindForked,
       RewindFailed, RewindOpened, RewindReturned, workspaceVars
  <2>2. ASSUME (\E activated \in BOOLEAN : NewSession(activated)) \/ Dispose
        PROVE  PendingAsksVisible'
    BY <1>1, <2>2 DEF NewSession, Dispose
  <2> QED BY <1>5, <1>7, <2>1, <2>2 DEF UserStep, RewindStep
<1>8. CASE \/ \E e \in Epoch : RuntimeStep(e)
           \/ \E p \in Prompt : PromptStep(p)
           \/ OpeningSettled \/ Disposed \/ UNCHANGED vars
  BY <1>5, <1>8 DEF RuntimeStep, ScopeReleased, FollowSnapshot, FollowBroken, FollowEnded,
     PromptStep, EnsureReturned, Prepared, PreparationFailed, OpeningSettled, Disposed, vars,
     workspaceVars, managerVars
<1> QED BY <1>3, <1>4, <1>6, <1>7, <1>8 DEF Next, AskStep

\* Theorem: in every instance, a request that waits for an answer is one of the
\* visible Session for as long as the application runs.
THEOREM AsksVisible == Spec => []PendingAsksVisible
<1>1. Init => PendingAsksVisible
  BY DEF Init, PendingAsksVisible
<1> QED BY <1>1, InitInv, InvStep, AsksStep, PTL DEF Spec

-----------------------------------------------------------------------------
(***************************************************************************)
(* Disposal.  Only an active runtime can wait for its first frame, and     *)
(* after disposal none is active: no step can make a wait that nobody      *)
(* settles.                                                                *)
(***************************************************************************)
WaitsActive == \A e \in Epoch : rt[e].opened = "waiting" => rt[e].scope = "active"

Released(e) == rt[e].scope \in {"unborn", "retired"}

QuietInv ==
  /\ WaitsActive
  /\ phase = "disposed" => \A e \in Epoch : Released(e)

\* Lemma: a step in which each runtime either stays, or begins to retire, or is
\* released keeps the invariant; so does one that disturbs only active ones.
LEMMA RuntimesQuiet ==
  ASSUME TypeOK, QuietInv, phase' = "disposed" => phase = "disposed",
         \A e \in Epoch :
           /\ rt'[e].opened = "waiting" => rt'[e].scope = "active"
           /\ phase = "disposed" /\ Released(e) => Released(e)'
  PROVE  QuietInv'
  BY DEF QuietInv, WaitsActive

\* Lemma: a retired runtime no longer waits.
LEMMA RetireQuiet ==
  ASSUME TypeOK, WaitsActive
  PROVE  \A e \in Epoch : /\ Retire(rt[e]).opened # "waiting"
                          /\ RetireOld[e].opened = "waiting" => RetireOld[e].scope = "active"
<1>1. \A e \in Epoch : Retire(rt[e]).opened # "waiting"
  BY DEF Retire, TypeOK, Runtime
<1>2. \A e \in Epoch : RetireOld[e] = rt[e] \/ RetireOld[e] = Retire(rt[e])
  BY DEF RetireOld, TypeOK
<1> QED BY <1>1, <1>2 DEF WaitsActive

\* Lemma: every step keeps the invariant.
LEMMA QuietStep ==
  ASSUME TypeOK, QuietInv, [Next]_vars
  PROVE  QuietInv'
<1> USE DEF QuietInv
<1>1. ASSUME UNCHANGED rt, phase' = "disposed" => phase = "disposed" PROVE QuietInv'
  BY <1>1 DEF WaitsActive, Released
<1>2. ASSUME NEW activated \in BOOLEAN, NewSession(activated) PROVE QuietInv'
  BY <1>2, RetireQuiet, RuntimesQuiet DEF NewSession, WaitsActive
<1>3. ASSUME NEW o \in Op, NEW activated \in BOOLEAN, Commit(o, activated) PROVE QuietInv'
  <2>1. \A e \in Epoch : rt'[e] = Born(open[o].target) \/ rt'[e] = RetireOld[e]
    BY <1>3, RetireType DEF Commit, TypeOK
  <2>2. Born(open[o].target).opened # "waiting"
    BY DEF Born, Unborn
  <2> QED BY <1>3, <2>1, <2>2, RetireQuiet, RuntimesQuiet DEF Commit
<1>4. CASE Dispose
  <2>1. \A e \in Epoch : rt'[e] = IF rt[e].scope = "active" THEN Retire(rt[e]) ELSE rt[e]
    BY <1>4 DEF Dispose
  <2> QED BY <1>4, <2>1, RetireQuiet, RuntimesQuiet DEF Dispose, WaitsActive
<1>5. CASE Disposed
  BY <1>5 DEF Disposed, workspaceVars, WaitsActive, Released
<1>6. ASSUME NEW o \in Op, Retired(o) PROVE QuietInv'
  <2>1. CASE rt[open[o].rt].scope # "active"
    BY <1>1, <1>6, <2>1 DEF Retired
  <2>2. CASE rt[open[o].rt].scope = "active"
    <3>1. rt' = [rt EXCEPT ![open[o].rt] =
                   [@ EXCEPT !.follow = "opening", !.opened = "waiting"]]
      BY <1>6, <2>2 DEF Retired
    <3>2. \A e \in Epoch : rt'[e].scope = rt[e].scope
      BY <3>1 DEF TypeOK, Runtime
    <3>3. \A e \in Epoch : e # open[o].rt => rt'[e] = rt[e]
      BY <3>1 DEF TypeOK
    <3> QED BY <1>6, <2>2, <3>2, <3>3, RuntimesQuiet DEF Retired, WaitsActive, Released
  <2> QED BY <2>1, <2>2
<1>7. ASSUME NEW e \in Epoch, RuntimeStep(e) PROVE QuietInv'
  <2>0. UNCHANGED phase
    BY <1>7 DEF RuntimeStep, ScopeReleased, FollowSnapshot, FollowBroken, FollowEnded
  <2>1. \A d \in Epoch : d # e => rt'[d] = rt[d]
    BY <1>7 DEF RuntimeStep, ScopeReleased, FollowSnapshot, FollowBroken, FollowEnded, TypeOK
  <2>2. \/ rt'[e].scope = rt[e].scope
        \/ rt[e].scope = "retiring" /\ rt'[e].scope = "retired"
    <3>1. CASE ScopeReleased(e)
      BY <3>1 DEF ScopeReleased, TypeOK, Runtime
    <3>2. CASE FollowSnapshot(e)
      BY <3>2 DEF FollowSnapshot, Online, TypeOK, Runtime
    <3>3. CASE FollowBroken(e)
      BY <3>3 DEF FollowBroken, Broken, TypeOK, Runtime
    <3>4. CASE FollowEnded(e)
      BY <3>4 DEF FollowEnded, TypeOK, Runtime
    <3> QED BY <1>7, <3>1, <3>2, <3>3, <3>4 DEF RuntimeStep
  <2>3. rt'[e].opened = "waiting" => rt[e].opened = "waiting"
    <3>1. CASE ScopeReleased(e)
      BY <3>1 DEF ScopeReleased, TypeOK, Runtime
    <3>2. CASE FollowSnapshot(e)
      BY <3>2 DEF FollowSnapshot, Online, TypeOK, Runtime
    <3>3. CASE FollowBroken(e)
      BY <3>3 DEF FollowBroken, Broken, TypeOK, Runtime
    <3>4. CASE FollowEnded(e)
      BY <3>4 DEF FollowEnded, TypeOK, Runtime
    <3> QED BY <1>7, <3>1, <3>2, <3>3, <3>4 DEF RuntimeStep
  <2> QED BY <2>0, <2>1, <2>2, <2>3, RuntimesQuiet DEF WaitsActive, Released
<1>8. ASSUME NEW o \in Op, OpenStep(o) PROVE QuietInv'
  <2>1. ASSUME \/ HostDescribed(o) \/ SessionListed(o) \/ SessionResumed(o) \/ ModelSelected(o)
               \/ \E s \in Session : SessionCreated(o, s)
               \/ HostFailed(o) \/ CommitDisposed(o) \/ Superseded(o) \/ RetiredInError(o)
               \/ FollowSettled(o) \/ ModelsRefreshed(o)
        PROVE  UNCHANGED <<rt, phase>>
    BY <2>1 DEF HostDescribed, SessionListed, SessionResumed, ModelSelected, SessionCreated,
       HostFailed, CommitDisposed, Superseded, RetiredInError, FollowSettled, ModelsRefreshed,
       workspaceVars
  <2> QED BY <1>1, <1>3, <1>6, <1>8, <2>1 DEF OpenStep
<1>9. CASE UserStep \/ RewindStep
  <2>1. ASSUME \/ \E s \in Session : Resume(s)
               \/ \E p \in Prompt : SubmitToVisible(p) \/ SubmitFirst(p) \/ SubmitShared(p)
               \/ RewindStarted \/ RewindFailed \/ RewindOpened \/ RewindReturned
               \/ \E s \in Session : RewindForked(s)
        PROVE  UNCHANGED <<rt, phase>>
    BY <2>1 DEF Resume, SubmitToVisible, SubmitFirst, SubmitShared, RewindStarted, RewindForked,
       RewindFailed, RewindOpened, RewindReturned, workspaceVars
  <2> QED BY <1>1, <1>2, <1>4, <1>9, <2>1 DEF UserStep, RewindStep
<1>10. ASSUME \/ \E p \in Prompt : PromptStep(p)
              \/ \E a \in Ask : AskStep(a)
              \/ OpeningSettled \/ UNCHANGED vars
       PROVE  UNCHANGED <<rt, phase>>
  BY <1>10 DEF PromptStep, EnsureReturned, Prepared, PreparationFailed, AskStep, Requested,
     AskSettled, OpeningSettled, vars, workspaceVars
<1> QED BY <1>1, <1>5, <1>7, <1>8, <1>9, <1>10 DEF Next

\* Theorem: in every instance, a disposed application has no runtime left open
\* and nobody waits for a first frame.
THEOREM QuietAfterDisposal == Spec => []DisposedQuiet
<1>1. Init => QuietInv
  BY DEF Init, QuietInv, WaitsActive, Unborn
<1>2. QuietInv => DisposedQuiet
  BY DEF QuietInv, WaitsActive, Released, DisposedQuiet
<1> QED BY <1>1, <1>2, InitType, TypeStep, QuietStep, PTL DEF Spec
-----------------------------------------------------------------------------
(***************************************************************************)
(* The prompts.  Whatever replaces the Session while the content of a      *)
(* prompt is prepared, the check before the Host call compares the runtime *)
(* the prompt began with and the visible one; for that to say anything the *)
(* prompt must have begun with one.                                        *)
(***************************************************************************)
PreparingBound == \A p \in Prompt : prompts[p].pc = "preparing" => prompts[p].rt # NoRuntime

\* Lemma: starting a submission binds the prompt to a runtime, or rejects it.
LEMMA StartBinds ==
  ASSUME TypeOK, PreparingBound, NEW p \in Prompt, StartSubmission(p)
  PROVE  /\ PreparingBound'
         /\ \A q \in Prompt : prompts'[q].pc = "sent" => prompts[q].pc = "sent"
<1>1. prompts'[p] = [prompts[p] EXCEPT
        !.pc = IF runtime # NoRuntime /\ rt[runtime].scope = "active"
               THEN "preparing" ELSE "failed",
        !.rt = runtime]
  BY DEF StartSubmission, TypeOK
<1>2. /\ prompts'[p].rt = runtime
      /\ prompts'[p].pc \in {"preparing", "failed"}
      /\ prompts'[p].pc = "preparing" => runtime # NoRuntime
  BY <1>1 DEF TypeOK, PromptCall
<1>3. \A q \in Prompt : q # p => prompts'[q] = prompts[q]
  BY DEF StartSubmission, TypeOK
<1> QED BY <1>2, <1>3 DEF PreparingBound

\* Lemma: every step keeps a preparing prompt bound, and a prompt is handed to
\* the Host only when the runtime it is bound to is the visible one.
LEMMA PromptsStep ==
  ASSUME TypeOK, PreparingBound, [Next]_vars
  PROVE  /\ PreparingBound'
         /\ \A p \in Prompt : prompts[p].pc # "sent" /\ prompts'[p].pc = "sent"
              => prompts[p].rt = runtime /\ runtime # NoRuntime
<1> DEFINE Sends == \A p \in Prompt : prompts[p].pc # "sent" /\ prompts'[p].pc = "sent"
                      => prompts[p].rt = runtime /\ runtime # NoRuntime
<1>t. prompts \in [Prompt -> PromptCall]
  BY DEF TypeOK
<1>1. ASSUME UNCHANGED prompts PROVE PreparingBound' /\ Sends
  BY <1>1 DEF PreparingBound
<1>2. ASSUME NEW p \in Prompt, SubmitToVisible(p) PROVE PreparingBound' /\ Sends
  BY <1>2, StartBinds DEF SubmitToVisible
<1>3. ASSUME NEW p \in Prompt, SubmitFirst(p) \/ SubmitShared(p) PROVE PreparingBound' /\ Sends
  <2>1. prompts'[p].pc = "ensuring" /\ \A q \in Prompt : q # p => prompts'[q] = prompts[q]
    BY <1>t, <1>3 DEF SubmitFirst, SubmitShared, PromptCall
  <2> QED BY <2>1 DEF PreparingBound
<1>4. ASSUME NEW p \in Prompt, EnsureReturned(p) PROVE PreparingBound' /\ Sends
  <2>1. CASE StartSubmission(p)
    BY <2>1, StartBinds
  <2>2. CASE prompts' = [prompts EXCEPT ![p].pc = "failed"]
    BY <1>t, <2>2 DEF PreparingBound, PromptCall
  <2> QED BY <1>4, <2>1, <2>2 DEF EnsureReturned
<1>5. ASSUME NEW p \in Prompt, Prepared(p) PROVE PreparingBound' /\ Sends
  <2>1. /\ prompts'[p].pc \in {"sent", "failed"}
        /\ prompts'[p].pc = "sent" => Visible(prompts[p].rt)
        /\ \A q \in Prompt : q # p => prompts'[q] = prompts[q]
    BY <1>t, <1>5 DEF Prepared, PromptCall
  <2> QED BY <1>5, <2>1 DEF PreparingBound, Prepared, Visible
<1>6. ASSUME NEW p \in Prompt, PreparationFailed(p) PROVE PreparingBound' /\ Sends
  BY <1>t, <1>6 DEF PreparationFailed, PreparingBound, PromptCall
<1>7. CASE UserStep
  <2>1. ASSUME \/ \E activated \in BOOLEAN : NewSession(activated)
               \/ \E s \in Session : Resume(s)
               \/ RewindStarted \/ Dispose
        PROVE  UNCHANGED prompts
    BY <2>1 DEF NewSession, Resume, RewindStarted, Dispose
  <2> QED BY <1>1, <1>2, <1>3, <1>7, <2>1 DEF UserStep
<1>8. ASSUME NEW o \in Op, OpenStep(o) PROVE UNCHANGED prompts
  <2>1. ASSUME \/ HostDescribed(o) \/ SessionListed(o) \/ SessionResumed(o) \/ ModelSelected(o)
               \/ HostFailed(o) \/ CommitDisposed(o) \/ Superseded(o) \/ RetiredInError(o)
               \/ FollowSettled(o) \/ ModelsRefreshed(o)
        PROVE  UNCHANGED prompts
    BY <2>1 DEF HostDescribed, SessionListed, SessionResumed, ModelSelected, HostFailed,
       CommitDisposed, Superseded, RetiredInError, FollowSettled, ModelsRefreshed
  <2>2. ASSUME NEW activated \in BOOLEAN, Commit(o, activated) PROVE UNCHANGED prompts
    BY <2>2 DEF Commit
  <2>3. ASSUME NEW s \in Session, SessionCreated(o, s) PROVE UNCHANGED prompts
    BY <2>3 DEF SessionCreated
  <2>4. CASE Retired(o)
    BY <2>4 DEF Retired
  <2> QED BY <1>8, <2>1, <2>2, <2>3, <2>4 DEF OpenStep
<1>9. ASSUME (\E e \in Epoch : RuntimeStep(e)) \/ OpeningSettled \/ Disposed \/ UNCHANGED vars
      PROVE  UNCHANGED prompts
  <2>1. ASSUME NEW e \in Epoch, RuntimeStep(e) PROVE UNCHANGED prompts
    BY <2>1 DEF RuntimeStep, ScopeReleased, FollowSnapshot, FollowBroken, FollowEnded,
       managerVars
  <2>2. ASSUME OpeningSettled \/ Disposed \/ UNCHANGED vars PROVE UNCHANGED prompts
    BY <2>2 DEF OpeningSettled, Disposed, vars, managerVars
  <2> QED BY <1>9, <2>1, <2>2
<1>10. ASSUME (\E a \in Ask : AskStep(a)) \/ RewindStep PROVE UNCHANGED prompts
  <2>1. ASSUME NEW a \in Ask, AskStep(a) PROVE UNCHANGED prompts
    BY <2>1 DEF AskStep, Requested, AskSettled
  <2>2. ASSUME NEW s \in Session, RewindForked(s) PROVE UNCHANGED prompts
    BY <2>2 DEF RewindForked
  <2>3. ASSUME RewindFailed \/ RewindOpened \/ RewindReturned PROVE UNCHANGED prompts
    BY <2>3 DEF RewindFailed, RewindOpened, RewindReturned
  <2> QED BY <1>10, <2>1, <2>2, <2>3 DEF RewindStep
<1> QED BY <1>1, <1>4, <1>5, <1>6, <1>7, <1>8, <1>9, <1>10 DEF Next, PromptStep

\* Theorem: in every instance, a prompt that is handed to the Host while the
\* application runs goes to the runtime that is visible, current and open.
THEOREM PromptsOwned == Spec => PromptToOwned
<1>1. Init => PreparingBound
  BY DEF Init, PreparingBound
<1>2. IInv /\ PreparingBound /\ [Next]_vars => PreparingBound'
  BY PromptsStep DEF IInv
<1>3. IInv /\ PreparingBound /\ [Next]_vars
        => [ \A p \in Prompt :
               prompts[p].pc # "sent" /\ prompts'[p].pc = "sent" /\ phase = "running"
                 => Owns(prompts[p].rt) ]_vars
  BY PromptsStep DEF IInv, VisibleIsOwned
<1> QED BY <1>1, <1>2, <1>3, InitInv, InvStep, PTL DEF Spec, PromptToOwned

-----------------------------------------------------------------------------
(***************************************************************************)
(* The shared creation.  That a creation is never displaced by another one *)
(* rests on what manager.opening says: while a creation may still commit,  *)
(* it is the one whose promise the draft's prompts share.                  *)
(***************************************************************************)
PendingShared ==
  pending # NoOperation =>
    /\ pending.id \in Op
    /\ open[pending.id].pc \in BeforeCommit
    /\ open[pending.id].kind = "create" => opening = pending.id

SharedInv == IInv /\ PendingShared

\* Lemma: a step that leaves the machine, the pending operation and the shared
\* creation alone keeps the invariant.
LEMMA SamePending ==
  ASSUME PendingShared, UNCHANGED <<machineVars, opening>>,
         pending # NoOperation =>
           /\ open'[pending.id].pc \in BeforeCommit
           /\ open'[pending.id].kind = open[pending.id].kind
  PROVE  PendingShared'
  BY DEF PendingShared, machineVars

\* Lemma: so does an operation that advances without being committed.
LEMMA AdvanceShared ==
  ASSUME SharedInv, UNCHANGED <<machineVars, opening>>, NEW o \in Op, NEW pc,
         Continue(o, pc), pc \in BeforeCommit \/ pending = NoOperation \/ pending.id # o
  PROVE  PendingShared'
<1>1. /\ open'[o].pc = pc /\ open'[o].kind = open[o].kind
      /\ \A x \in Op : x # o => open'[x] = open[x]
  BY DEF Continue, SharedInv, IInv, TypeOK, Open
<1> QED BY <1>1, SamePending DEF SharedInv, PendingShared

\* Lemma: beginning an operation makes it the pending one.
LEMMA BeginShared ==
  ASSUME SharedInv, NEW kind \in {"create", "resume"}, NEW target \in SessionId,
         BeginOpen(kind, target), kind = "create" => opening' = operationId + 1
  PROVE  PendingShared' /\ operationId' \in Op /\ open'[operationId'].kind = kind
<1>1. operationId + 1 \in Op
  BY BeginType DEF SharedInv, IInv
<1>2. /\ pending' = NextOperation(VisibleSession)
      /\ operationId' = operationId + 1
  BY DEF BeginOpen, MachineBegin
<1>3. pending'.id = operationId + 1
  BY <1>2 DEF NextOperation
<1>4. open'[operationId + 1] = [Idle EXCEPT !.pc = "describe", !.kind = kind, !.target = target,
                                            !.operation = NextOperation(VisibleSession)]
  BY <1>1 DEF BeginOpen, SharedInv, IInv, TypeOK
<1>5. open'[operationId + 1].pc = "describe" /\ open'[operationId + 1].kind = kind
  BY <1>4 DEF Idle
<1> QED BY <1>1, <1>2, <1>3, <1>5 DEF PendingShared, BeforeCommit

\* Lemma: an operation that is not committed yet and not current is not the
\* pending one; one that is past its commit is not either.
LEMMA NotPending ==
  ASSUME SharedInv, NEW o \in Op,
         open[o].pc \notin BeforeCommit \/ (open[o].pc # "idle" /\ ~IsCurrent(open[o].operation))
  PROVE  pending = NoOperation \/ pending.id # o
  BY DEF SharedInv, PendingShared, IInv, PendingIsLatest, IsCurrent

\* Lemma: every step of an operation keeps the creation shared.
LEMMA OpenShared ==
  ASSUME SharedInv, NEW o \in Op, OpenStep(o)
  PROVE  PendingShared' /\ UNCHANGED operationId
<1> USE DEF BeforeCommit, AfterCommit, Settled
<1>1. CASE HostDescribed(o) \/ SessionListed(o) \/ SessionResumed(o) \/ ModelSelected(o)
  BY <1>1, AdvanceShared DEF HostDescribed, SessionListed, SessionResumed, ModelSelected,
     machineVars
<1>2. ASSUME NEW s \in Session, SessionCreated(o, s) PROVE PendingShared' /\ UNCHANGED operationId
  <2>1. PICK pc \in {"select", "admitted"} :
          open' = [open EXCEPT ![o] = [@ EXCEPT !.pc = pc, !.target = s]]
    BY <1>2 DEF SessionCreated
  <2>2. /\ open'[o].pc = pc /\ open'[o].kind = open[o].kind
        /\ \A x \in Op : x # o => open'[x] = open[x]
    BY <2>1 DEF SharedInv, IInv, TypeOK, Open
  <2> QED BY <1>2, <2>2, SamePending DEF SessionCreated, machineVars, SharedInv, PendingShared
<1>3. CASE HostFailed(o)
  <2>1. CASE IsCurrent(open[o].operation)
    BY <1>3, <2>1 DEF HostFailed, WorkspaceFail, MachineRollback, MachineFail, MachineRestore,
       PendingShared
  <2>2. CASE ~IsCurrent(open[o].operation)
    <3>1. pending = NoOperation \/ pending.id # o
      BY <1>3, <2>2, NotPending DEF HostFailed
    <3> QED BY <1>3, <2>2, <3>1, AdvanceShared DEF HostFailed, WorkspaceFail, machineVars
  <2> QED BY <2>1, <2>2
<1>4. CASE (\E activated \in BOOLEAN : Commit(o, activated)) \/ CommitDisposed(o)
  <2>1. pending' = NoOperation /\ UNCHANGED operationId
    <3>1. ASSUME NEW activated \in BOOLEAN, Commit(o, activated)
          PROVE  pending' = NoOperation /\ UNCHANGED operationId
      BY <3>1 DEF Commit, MachineCommit
    <3>2. ASSUME CommitDisposed(o) PROVE pending' = NoOperation /\ UNCHANGED operationId
      BY <3>2 DEF CommitDisposed, MachineCommit
    <3> QED BY <1>4, <3>1, <3>2
  <2> QED BY <2>1 DEF PendingShared
<1>5. CASE Superseded(o)
  BY <1>5, NotPending, AdvanceShared DEF Superseded, machineVars
<1>6. CASE Retired(o) \/ RetiredInError(o) \/ FollowSettled(o) \/ ModelsRefreshed(o)
  <2>1. open[o].pc \notin BeforeCommit
    BY <1>6 DEF Retired, RetiredInError, FollowSettled, ModelsRefreshed
  <2>2. \E pc : Continue(o, pc)
    BY <1>6 DEF Retired, RetiredInError, FollowSettled, ModelsRefreshed
  <2>3. UNCHANGED <<machineVars, opening>>
    BY <1>6 DEF Retired, RetiredInError, FollowSettled, ModelsRefreshed
  <2> QED BY <2>1, <2>2, <2>3, NotPending, AdvanceShared DEF machineVars
<1> QED BY <1>1, <1>2, <1>3, <1>4, <1>5, <1>6 DEF OpenStep

\* Lemma: every step keeps the creation shared, and a step that begins one
\* finds none that may still commit.
LEMMA SharedStep ==
  ASSUME SharedInv, [Next]_vars
  PROVE  /\ PendingShared'
         /\ operationId' # operationId /\ open'[operationId'].kind = "create"
              => pending = NoOperation \/ open[pending.id].kind # "create"
<1> DEFINE Alone == operationId' # operationId /\ open'[operationId'].kind = "create"
                      => pending = NoOperation \/ open[pending.id].kind # "create"
           Quiet == UNCHANGED <<machineVars, open, opening>>
<1>s. NoSession \in SessionId /\ \A s \in Session : s \in SessionId
  BY DEF SessionId
<1>1. Quiet => PendingShared' /\ Alone
  BY SamePending DEF SharedInv, PendingShared, machineVars
<1>2. ASSUME NEW s \in Session, Resume(s) PROVE PendingShared' /\ Alone
  BY <1>s, <1>2, BeginShared DEF Resume
<1>3. CASE RewindOpened
  <2>1. rewinding.target \in SessionId
    BY DEF SharedInv, IInv, TypeOK, RewindCall
  <2> QED BY <1>3, <2>1, BeginShared DEF RewindOpened
<1>4. ASSUME NEW p \in Prompt, SubmitFirst(p) PROVE PendingShared' /\ Alone
  <2>1. pending = NoOperation \/ open[pending.id].kind # "create"
    BY <1>4, ZeroEpoch DEF SubmitFirst, SharedInv, PendingShared
  <2> QED BY <1>s, <1>4, <2>1, BeginShared DEF SubmitFirst
<1>5. ASSUME NEW activated \in BOOLEAN, NewSession(activated) PROVE PendingShared' /\ Alone
  BY <1>5 DEF NewSession, MachineReset, PendingShared
<1>6. CASE OpeningSettled
  <2>1. pending = NoOperation \/ pending.id # opening
    BY <1>6, NotPending DEF OpeningSettled, SharedInv, IInv, TypeOK, Settled, BeforeCommit
  <2> QED BY <1>6, <2>1 DEF OpeningSettled, SharedInv, PendingShared, machineVars
<1>7. CASE UserStep \/ RewindStep
  <2>1. ASSUME RewindStarted \/ Dispose PROVE Quiet
    BY <2>1 DEF RewindStarted, Dispose
  <2>4. ASSUME NEW p \in Prompt, SubmitToVisible(p) \/ SubmitShared(p) PROVE Quiet
    BY <2>4 DEF SubmitToVisible, SubmitShared
  <2>2. ASSUME RewindFailed \/ RewindReturned PROVE Quiet
    BY <2>2 DEF RewindFailed, RewindReturned
  <2>3. ASSUME NEW s \in Session, RewindForked(s) PROVE Quiet
    BY <2>3 DEF RewindForked
  <2> QED BY <1>1, <1>2, <1>3, <1>4, <1>5, <1>7, <2>1, <2>2, <2>3, <2>4
          DEF UserStep, RewindStep
<1>8. CASE \/ \E e \in Epoch : RuntimeStep(e)
           \/ \E p \in Prompt : PromptStep(p)
           \/ \E a \in Ask : AskStep(a)
           \/ Disposed \/ UNCHANGED vars
  <2>1. ASSUME NEW e \in Epoch, RuntimeStep(e) PROVE Quiet
    BY <2>1 DEF RuntimeStep, ScopeReleased, FollowSnapshot, FollowBroken, FollowEnded,
       managerVars
  <2>2. ASSUME NEW p \in Prompt, PromptStep(p) PROVE Quiet
    BY <2>2 DEF PromptStep, EnsureReturned, Prepared, PreparationFailed
  <2>3. ASSUME NEW a \in Ask, AskStep(a) PROVE Quiet
    BY <2>3 DEF AskStep, Requested, AskSettled
  <2>4. ASSUME Disposed \/ UNCHANGED vars PROVE Quiet
    BY <2>4 DEF Disposed, vars, managerVars
  <2> QED BY <1>1, <1>8, <2>1, <2>2, <2>3, <2>4
<1>9. CASE \E o \in Op : OpenStep(o)
  BY <1>9, OpenShared
<1> QED BY <1>6, <1>7, <1>8, <1>9 DEF Next

\* Theorem: in every instance, the prompts of one draft share one creation: no
\* creation displaces another one that may still commit.
THEOREM CreationShared == Spec => SharedCreation
<1>1. Init => PendingShared
  BY DEF Init, MachineInit, PendingShared
<1>2. IInv /\ PendingShared /\ [Next]_vars => PendingShared'
  BY SharedStep DEF SharedInv
<1>3. IInv /\ PendingShared /\ [Next]_vars
        => [ operationId' # operationId /\ open'[operationId'].kind = "create" =>
               pending = NoOperation \/ open[pending.id].kind # "create" ]_vars
  BY SharedStep DEF SharedInv
<1> QED BY <1>1, <1>2, <1>3, InitInv, InvStep, PTL DEF Spec, SharedCreation
=============================================================================
