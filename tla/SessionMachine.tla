--------------------------- MODULE SessionMachine ---------------------------
(***************************************************************************)
(* The replacement state machine of the terminal Session binding           *)
(* (runtime/lifecycle/session-machine.ts).  It numbers replacement         *)
(* operations, remembers the only one that may still commit (pending) and  *)
(* owns the epoch that late-result guards compare with.                    *)
(*                                                                         *)
(* The module has no behaviour of its own: each operator is one method of  *)
(* the class, and SessionManager conjoins them with the workspace and the  *)
(* manager that call them.                                                 *)
(***************************************************************************)
EXTENDS Naturals

CONSTANTS
  Session,      \* Session identities the Host may know
  NoSession,    \* "undefined": the local draft has no Session identity
  MaxOps,       \* bound: replacement operations begun
  MaxEpoch      \* bound: commits and resets, each of which takes an epoch

ASSUME MachineAssumption ==
  /\ NoSession \notin Session
  /\ MaxOps \in Nat \ {0}
  /\ MaxEpoch \in Nat \ {0}
  /\ MaxOps < MaxEpoch

VARIABLES
  operationId,      \* number of the last operation begun
  currentEpoch,     \* epoch of the committed binding
  pending,          \* the operation that may still commit, or NoOperation
  activeSessionId,  \* Session of the committed binding
  binding           \* the published binding state

machineVars == <<operationId, currentEpoch, pending, activeSessionId, binding>>

-----------------------------------------------------------------------------

Op == 1 .. MaxOps
Epoch == 0 .. MaxEpoch
SessionId == Session \cup {NoSession}

\* SessionOperation: sessionId is the Session to fall back to.
Operation == [id : Op, epoch : Epoch, sessionId : SessionId]
NoOperation == [id |-> 0, epoch |-> 0, sessionId |-> NoSession]

\* SessionBindingState; sessionId is the previous Session while preparing.
Binding == [phase : {"unbound", "preparing", "active", "failed"},
            sessionId : SessionId, epoch : Epoch]

Bound(phase, sessionId, epoch) ==
  [phase |-> phase, sessionId |-> sessionId, epoch |-> epoch]

Unbound == Bound("unbound", NoSession, 0)

MachineInit ==
  /\ operationId = 0
  /\ currentEpoch = 0
  /\ pending = NoOperation
  /\ activeSessionId = NoSession
  /\ binding = Unbound

\* Mutant: reset() forgets the pending operation.
MachineResetKeepsPending ==
  /\ currentEpoch < MaxEpoch
  /\ activeSessionId' = NoSession
  /\ currentEpoch' = currentEpoch + 1
  /\ binding' = Unbound
  /\ UNCHANGED <<operationId, pending>>

\* reset(): back to the draft; whatever was pending can no longer commit.
MachineReset ==
  /\ currentEpoch < MaxEpoch
  /\ pending' = NoOperation
  /\ activeSessionId' = NoSession
  /\ currentEpoch' = currentEpoch + 1
  /\ binding' = Unbound
  /\ UNCHANGED operationId

\* Mutant: the identity is taken before the counter is incremented.
NextOperationLate(sessionId) ==
  [id |-> operationId, epoch |-> currentEpoch, sessionId |-> sessionId]

\* The operation the next begin(sessionId) returns.
NextOperation(sessionId) ==
  [id |-> operationId + 1, epoch |-> currentEpoch, sessionId |-> sessionId]

\* begin(sessionId): the new operation displaces the pending one.
MachineBegin(sessionId) ==
  /\ operationId < MaxOps
  /\ operationId' = operationId + 1
  /\ pending' = NextOperation(sessionId)
  /\ binding' = Bound("preparing", sessionId, currentEpoch)
  /\ UNCHANGED <<currentEpoch, activeSessionId>>

\* Mutant: the epoch, which two operations may share, stands for the identity.
IsCurrentByEpoch(operation) == operation.epoch = currentEpoch

IsCurrent(operation) == operation.id = pending.id

\* Mutants: commit() leaves the published binding, or the operation, as it was.
MachineCommitUnpublished(operation, sessionId) ==
  /\ IsCurrent(operation)
  /\ currentEpoch < MaxEpoch
  /\ pending' = NoOperation
  /\ currentEpoch' = currentEpoch + 1
  /\ activeSessionId' = sessionId
  /\ UNCHANGED <<operationId, binding>>

MachineCommitTwice(operation, sessionId) ==
  /\ IsCurrent(operation)
  /\ currentEpoch < MaxEpoch
  /\ currentEpoch' = currentEpoch + 1
  /\ activeSessionId' = sessionId
  /\ binding' = Bound("active", sessionId, currentEpoch + 1)
  /\ UNCHANGED <<operationId, pending>>

\* commit(operation, sessionId), when the operation is still current.
MachineCommit(operation, sessionId) ==
  /\ IsCurrent(operation)
  /\ currentEpoch < MaxEpoch
  /\ pending' = NoOperation
  /\ currentEpoch' = currentEpoch + 1
  /\ activeSessionId' = sessionId
  /\ binding' = Bound("active", sessionId, currentEpoch + 1)
  /\ UNCHANGED operationId

\* Mutant: a failure always leaves the draft.
MachineRestoreDraft(operation, draftBinding) ==
  /\ IsCurrent(operation)
  /\ pending' = NoOperation
  /\ activeSessionId' = NoSession
  /\ binding' = draftBinding
  /\ UNCHANGED <<operationId, currentEpoch>>

\* rollback(operation) and fail(operation, message) restore the captured
\* Session; they differ in the binding they leave on a draft.
MachineRestore(operation, draftBinding) ==
  /\ IsCurrent(operation)
  /\ pending' = NoOperation
  /\ activeSessionId' = operation.sessionId
  /\ binding' = IF operation.sessionId = NoSession
                THEN draftBinding
                ELSE Bound("active", operation.sessionId, currentEpoch)
  /\ UNCHANGED <<operationId, currentEpoch>>

MachineRollback(operation) == MachineRestore(operation, Unbound)

MachineFail(operation) ==
  MachineRestore(operation, Bound("failed", NoSession, currentEpoch))

\* owns(epoch, sessionId): the guard of every late result.
MachineOwns(epoch, sessionId) ==
  /\ epoch = currentEpoch
  /\ sessionId = activeSessionId

MachineTypeOK ==
  /\ operationId \in 0 .. MaxOps
  /\ currentEpoch \in Epoch
  /\ pending \in Operation \cup {NoOperation}
  /\ activeSessionId \in SessionId
  /\ binding \in Binding
=============================================================================
