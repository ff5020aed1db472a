----------------------- MODULE RewindRepositoryProofs -----------------------
(***************************************************************************)
(* The lock of the Rewind repository excludes for every number of          *)
(* processes, workspaces, versions, crashes and failures, until a process  *)
(* that inspected the lock of a crashed one clears another file.           *)
(*                                                                         *)
(* MutualExclusion is not inductive: two processes could both be inside    *)
(* while the lock file names neither, and a process about to clear a lock  *)
(* could have inspected a live one.  LockInv adds that whoever is inside   *)
(* owns the lock file, and that what was inspected belongs to a process    *)
(* that has gone for good.                                                 *)
(*                                                                         *)
(* Under that exclusion every manifest on disk can be materialized and no  *)
(* process overwrites a timeline it has not seen (StorageInv, below).      *)
(***************************************************************************)
EXTENDS RewindRepository, TLAPS

-----------------------------------------------------------------------------
(* Types                                                                   *)

\* Lemma: the workspace that fills the record of no call exists.
LEMMA SomeRootType == SomeRoot \in Root
BY RepositoryAssumption DEF SomeRoot

\* Lemma: nobody is an owner a call may have inspected.
LEMMA NobodyType == Nobody \in [proc : Proc \cup {NoProc}, pid : 0 .. MaxCrash]
BY RepositoryAssumption DEF Nobody, Owner, NoLock

\* Lemma: the record of a process that is in no call has the type of a call.
LEMMA NoCallType == NoCall \in Call
BY SomeRootType, NobodyType DEF NoCall, Call

\* The call records that the service makes.
LEMMA StartType ==
  ASSUME TypeOK, NEW p \in Proc, NEW kind \in {"load", "save", "remove"},
         NEW r \in Root, NEW v \in Version \cup {None}, Start(p, kind, r, v)
  PROVE  call' \in [Proc -> Call]
<1>1. [NoCall EXCEPT !.pc = "open", !.kind = kind, !.root = r, !.version = v] \in Call
  BY NoCallType DEF Call, Locking
<1> QED BY <1>1 DEF TypeOK, Start

\* Lemma: a call that moves to its next file operation keeps its type.
LEMMA GotoType ==
  ASSUME TypeOK, NEW p \in Proc, NEW pc \in {"idle"} \cup Locking \cup Holding, Goto(p, pc)
  PROVE  call' \in [Proc -> Call]
<1>1. call[p] \in Call  BY DEF TypeOK
<1>2. [call[p] EXCEPT !.pc = pc] \in Call  BY <1>1 DEF Call
<1> QED BY <1>2 DEF TypeOK, Goto

\* Lemma: so does a call that inspects the lock or has done so.
LEMMA InspectedType ==
  ASSUME TypeOK, NEW p \in Proc, NEW pc \in {"wait", "clear"},
         NEW seen \in [proc : Proc \cup {NoProc}, pid : 0 .. MaxCrash], Inspected(p, pc, seen)
  PROVE  call' \in [Proc -> Call]
<1>1. call[p] \in Call  BY DEF TypeOK
<1>2. [call[p] EXCEPT !.pc = pc, !.seen = seen] \in Call  BY <1>1 DEF Call, Locking, Holding
<1> QED BY <1>2 DEF TypeOK, Inspected

\* Lemma: so does a call that gives up and goes to release the lock.
LEMMA AbortType ==
  ASSUME TypeOK, NEW p \in Proc, Abort(p)
  PROVE  call' \in [Proc -> Call]
<1>1. call[p] \in Call  BY DEF TypeOK
<1>2. [call[p] EXCEPT !.pc = "release", !.outcome = "error"] \in Call
  BY <1>1 DEF Call, Holding
<1> QED BY <1>2 DEF TypeOK, Abort

\* Lemma: a call that returns keeps the types of the calls and of what the
\* service remembers of a workspace.
LEMMA ReturnType ==
  ASSUME TypeOK, NEW p \in Proc, NEW outcome \in {"ok", "conflict", "error"},
         Return(p, outcome)
  PROVE  /\ call' \in [Proc -> Call]
         /\ status' \in [Proc -> [Root -> {"fresh", "active", "conflict", "invalidated", "failed"}]]
         /\ revision' \in [Proc -> [Root -> Version \cup {None}]]
<1> DEFINE c == call[p]
<1>1. c \in Call /\ c.root \in Root /\ c.version \in Version \cup {None}
  BY DEF TypeOK, Call
<1>2. call' \in [Proc -> Call]
  <2>1. CASE c.kind = "save" /\ outcome = "error"
    BY <1>1, <2>1, StartType DEF Return
  <2>2. CASE ~(c.kind = "save" /\ outcome = "error")
    BY <2>2, NoCallType DEF Return, TypeOK
  <2> QED BY <2>1, <2>2
<1>3. status' \in [Proc -> [Root -> {"fresh", "active", "conflict", "invalidated", "failed"}]]
  BY <1>1 DEF Return, Known, TypeOK
<1>4. revision' \in [Proc -> [Root -> Version \cup {None}]]
  BY <1>1 DEF Return, TypeOK
<1> QED BY <1>2, <1>3, <1>4

-----------------------------------------------------------------------------
\* Lemma: the initial state is well typed.
LEMMA Typing == Init => TypeOK
<1> SUFFICES ASSUME Init PROVE TypeOK
  OBVIOUS
<1>1. call \in [Proc -> Call]
  BY NoCallType DEF Init
<1>2. versions \in 0 .. MaxVersion /\ crashes \in 0 .. MaxCrash /\ failures \in 0 .. MaxFailure
  BY RepositoryAssumption DEF Init
<1>3. pid \in [Proc -> 0 .. crashes]
  BY RepositoryAssumption DEF Init
<1> QED BY <1>1, <1>2, <1>3 DEF Init, TypeOK, None, NoLock

\* Lemma: the lock file a process creates, before and after its content is
\* written, is a lock file.
LEMMA LockTypes ==
  ASSUME TypeOK, NEW p \in Proc
  PROVE  [proc |-> p, pid |-> pid[p], written |-> FALSE, old |-> FALSE]
           \in [proc : Proc, pid : 0 .. MaxCrash, written : BOOLEAN, old : BOOLEAN]
BY RepositoryAssumption DEF TypeOK

\* A step of the lock.
LEMMA LockStepType ==
  ASSUME TypeOK, NEW p \in Proc, LockStep(p)
  PROVE  TypeOK'
<1> USE DEF Locking, Holding
<1>1. CASE OpenLock(p)
  <2>1. call' \in [Proc -> Call]
    BY <1>1, GotoType DEF OpenLock
  <2> QED BY <1>1, <2>1, LockTypes DEF OpenLock, TypeOK, disk, service, timelines, faults
<1>2. CASE WriteLock(p)
  <2>1. call' \in [Proc -> Call]
    BY <1>2, GotoType DEF WriteLock, Body
  <2> QED BY <1>2, <2>1 DEF WriteLock, Mine, TypeOK, disk, service, timelines, faults
<1>3. CASE StatLock(p)
  <2>1. call' \in [Proc -> Call]
    BY <1>3, GotoType DEF StatLock
  <2> QED BY <1>3, <2>1 DEF StatLock, TypeOK, disk, service, timelines, faults
<1>4. CASE ReadLock(p)
  <2>1. lock.written /\ ~ProcessExists(lock) =>
          Owner(lock) \in [proc : Proc \cup {NoProc}, pid : 0 .. MaxCrash]
    BY RepositoryAssumption DEF TypeOK, Owner, NoLock
  <2>2. call' \in [Proc -> Call]
    BY <1>4, <2>1, GotoType, InspectedType DEF ReadLock
  <2> QED BY <1>4, <2>2 DEF ReadLock, TypeOK, disk, service, timelines, faults
<1>5. CASE ClearLock(p)
  <2>1. call' \in [Proc -> Call]
    BY <1>5, NobodyType, InspectedType DEF ClearLock
  <2> QED BY <1>5, <2>1 DEF ClearLock, TypeOK, disk, service, timelines, faults
<1>6. CASE Retry(p)
  <2>1. call' \in [Proc -> Call]
    BY <1>6, GotoType DEF Retry
  <2> QED BY <1>6, <2>1 DEF Retry, TypeOK, disk, service, timelines, faults
<1>7. CASE TimedOut(p)
  BY <1>7, ReturnType DEF TimedOut, TypeOK, disk, timelines, faults
<1>8. CASE ReadToken(p)
  <2>1. CASE Goto(p, "unlock") /\ UNCHANGED service
    <3>1. call' \in [Proc -> Call]
      BY <2>1, GotoType
    <3> QED BY <1>8, <2>1, <3>1 DEF ReadToken, TypeOK, disk, service, timelines, faults
  <2>2. CASE Return(p, call[p].outcome)
    <3>1. call[p].outcome \in {"ok", "conflict", "error"}
      BY DEF TypeOK, Call
    <3> QED BY <1>8, <2>2, <3>1, ReturnType DEF ReadToken, TypeOK, disk, timelines, faults
  <2> QED BY <1>8, <2>1, <2>2 DEF ReadToken
<1>9. CASE Unlock(p)
  <2>1. call[p].outcome \in {"ok", "conflict", "error"}
    BY DEF TypeOK, Call
  <2> QED BY <1>9, <2>1, ReturnType DEF Unlock, TypeOK, timelines, faults
<1> QED BY <1>1, <1>2, <1>3, <1>4, <1>5, <1>6, <1>7, <1>8, <1>9 DEF LockStep

\* Lemma: a file operation made under the lock keeps every type.
LEMMA BodyStepType ==
  ASSUME TypeOK, NEW p \in Proc, BodyStep(p)
  PROVE  TypeOK'
<1> USE DEF Locking, Holding
<1>c. /\ call[p] \in Call /\ call[p].root \in Root /\ call[p].version \in Version \cup {None}
      /\ call[p].evict \in SUBSET Root /\ call[p].sweep \in SUBSET Object
  BY DEF TypeOK, Call
<1>m. \A r \in Root : manifest[r] \in Version \cup {None} /\ None \in Version \cup {None}
  BY DEF TypeOK
<1>1. CASE Load(p)
  <2>1. CASE Goto(p, "release")
    <3>1. call' \in [Proc -> Call]
      BY <2>1, GotoType
    <3>2. manifest' \in [Root -> Version \cup {None}]
      BY <1>1, <1>c, <1>m DEF Load, TypeOK
    <3> QED BY <1>1, <3>1, <3>2 DEF Load, TypeOK, service, timelines, faults
  <2>2. CASE /\ UNCHANGED manifest
             /\ call' = [call EXCEPT ![p] = [@ EXCEPT !.pc = "release",
                                                     !.version = manifest[call[p].root]]]
    <3>1. [call[p] EXCEPT !.pc = "release", !.version = manifest[call[p].root]] \in Call
      BY <1>c, <1>m DEF Call
    <3>2. call' \in [Proc -> Call]
      BY <2>2, <3>1 DEF TypeOK
    <3> QED BY <1>1, <2>2, <3>2 DEF Load, TypeOK, service, timelines, faults
  <2> QED BY <1>1, <2>1, <2>2 DEF Load
<1>2. CASE Check(p)
  <2>1. [call[p] EXCEPT !.pc = "release", !.outcome = "conflict"] \in Call
    BY <1>c DEF Call
  <2>2. call' \in [Proc -> Call]
    BY <1>2, <2>1, GotoType DEF Check, TypeOK
  <2> QED BY <1>2, <2>2 DEF Check, TypeOK, disk, service, timelines, faults
<1>3. CASE Store(p)
  <2>1. call' \in [Proc -> Call]
    <3>1. CASE refs[call[p].version] \ objects = {}
      BY <1>3, <3>1, GotoType, AbortType DEF Store
    <3>2. CASE refs[call[p].version] \ objects # {}
      BY <1>3, <3>2 DEF Store, TypeOK
    <3> QED BY <3>1, <3>2
  <2>2. objects' \subseteq Object
    <3>1. CASE refs[call[p].version] \ objects = {}
      BY <1>3, <3>1 DEF Store, TypeOK
    <3>2. CASE refs[call[p].version] \ objects # {}
      BY <1>3, <3>2, <1>c DEF Store, TypeOK
    <3> QED BY <3>1, <3>2
  <2> QED BY <1>3, <2>1, <2>2 DEF Store, TypeOK, service, timelines, faults
<1>4. CASE Publish(p)
  <2>1. call' \in [Proc -> Call]
    BY <1>4, GotoType DEF Publish
  <2>2. manifest' \in [Root -> Version \cup {None}]
    BY <1>4, <1>c DEF Publish, TypeOK
  <2> QED BY <1>4, <2>1, <2>2 DEF Publish, TypeOK, service, timelines, faults
<1>5. CASE Erase(p)
  <2>1. call' \in [Proc -> Call]
    BY <1>5, GotoType DEF Erase
  <2>2. manifest' \in [Root -> Version \cup {None}]
    BY <1>5, <1>m DEF Erase, TypeOK
  <2> QED BY <1>5, <2>1, <2>2 DEF Erase, TypeOK, service, timelines, faults
<1>6. CASE Compact(p)
  <2>1. Evicted \in SUBSET Root
    BY DEF Evicted
  <2>2. objects \ Referenced(Root \ Evicted) \in SUBSET Object
    BY DEF TypeOK
  <2>3. [call[p] EXCEPT !.pc = "evict", !.evict = Evicted,
                        !.sweep = objects \ Referenced(Root \ Evicted)] \in Call
    BY <1>c, <2>1, <2>2 DEF Call
  <2>4. call' \in [Proc -> Call]
    BY <1>6, <2>3 DEF Compact, TypeOK
  <2> QED BY <1>6, <2>4 DEF Compact, TypeOK, disk, service, timelines, faults
<1>7. CASE Evict(p)
  <2>1. CASE Goto(p, "sweep") /\ UNCHANGED manifest
    <3>1. call' \in [Proc -> Call]
      BY <2>1, GotoType
    <3> QED BY <1>7, <2>1, <3>1 DEF Evict, TypeOK, service, timelines, faults
  <2>2. ASSUME NEW r \in call[p].evict,
               manifest' = [manifest EXCEPT ![r] = None],
               call' = [call EXCEPT ![p].evict = @ \ {r}]
        PROVE  TypeOK'
    <3>1. [call[p] EXCEPT !.evict = @ \ {r}] \in Call
      BY <1>c DEF Call
    <3>2. call' \in [Proc -> Call]
      BY <2>2, <3>1 DEF TypeOK
    <3>3. manifest' \in [Root -> Version \cup {None}]
      BY <2>2, <1>c, <1>m DEF TypeOK
    <3> QED BY <1>7, <3>2, <3>3 DEF Evict, TypeOK, service, timelines, faults
  <2> QED BY <1>7, <2>1, <2>2 DEF Evict
<1>8. CASE Sweep(p)
  <2>1. CASE Goto(p, "release") /\ UNCHANGED objects
    <3>1. call' \in [Proc -> Call]
      BY <2>1, GotoType
    <3> QED BY <1>8, <2>1, <3>1 DEF Sweep, TypeOK, service, timelines, faults
  <2>2. ASSUME NEW o \in call[p].sweep,
               objects' = objects \ {o},
               call' = [call EXCEPT ![p].sweep = @ \ {o}]
        PROVE  TypeOK'
    <3>1. [call[p] EXCEPT !.sweep = @ \ {o}] \in Call
      BY <1>c DEF Call
    <3>2. call' \in [Proc -> Call]
      BY <2>2, <3>1 DEF TypeOK
    <3> QED BY <1>8, <2>2, <3>2 DEF Sweep, TypeOK, service, timelines, faults
  <2> QED BY <1>8, <2>1, <2>2 DEF Sweep
<1> QED BY <1>1, <1>2, <1>3, <1>4, <1>5, <1>6, <1>7, <1>8 DEF BodyStep

\* Lemma: every step keeps every type.
LEMMA NextType ==
  ASSUME TypeOK, [Next]_vars
  PROVE  TypeOK'
<1> USE DEF Locking, Holding
<1>1. ASSUME NEW p \in Proc, NEW r \in Root, Activate(p, r)
      PROVE  TypeOK'
  <2>1. call' \in [Proc -> Call]
    BY <1>1, StartType DEF Activate
  <2> QED BY <1>1, <2>1 DEF Activate, TypeOK, disk, service, timelines, faults
<1>2. ASSUME NEW p \in Proc, NEW r \in Root, Persist(p, r)
      PROVE  TypeOK'
  <2>1. versions + 1 \in Version /\ versions' \in 0 .. MaxVersion
    BY <1>2, RepositoryAssumption DEF TypeOK, Persist, Version
  <2>2. call' \in [Proc -> Call]
    BY <1>2, <2>1, StartType DEF Persist
  <2>3. refs' \in [Version \cup {None} -> SUBSET Object]
    BY <1>2, <2>1 DEF Persist, TypeOK
  <2> QED BY <1>2, <2>1, <2>2, <2>3 DEF Persist, TypeOK, disk, service, faults
<1>3. ASSUME NEW p \in Proc, Crash(p)
      PROVE  TypeOK'
  <2>1. call' \in [Proc -> Call]
    BY <1>3, NoCallType DEF Crash, TypeOK
  <2>2. crashes' \in 0 .. MaxCrash
    BY <1>3, RepositoryAssumption DEF Crash, TypeOK
  <2>3. pid' \in [Proc -> 0 .. crashes']
    BY <1>3 DEF Crash, TypeOK
  <2> QED BY <1>3, <2>1, <2>2, <2>3 DEF Crash, TypeOK, disk, timelines
<1>4. ASSUME NEW p \in Proc, OperationFailed(p)
      PROVE  TypeOK'
  <2>1. failures' \in 0 .. MaxFailure
    BY <1>4, RepositoryAssumption DEF OperationFailed, Fail, TypeOK
  <2> QED BY <1>4, <2>1, AbortType DEF OperationFailed, TypeOK, disk, service, timelines
<1>5. ASSUME NEW p \in Proc, LockFailed(p)
      PROVE  TypeOK'
  <2>1. failures' \in 0 .. MaxFailure
    BY <1>5, RepositoryAssumption DEF LockFailed, Fail, TypeOK
  <2> QED BY <1>5, <2>1, ReturnType DEF LockFailed, TypeOK, timelines
<1>6. ASSUME NEW p \in Proc, QuarantinedInError(p)
      PROVE  TypeOK'
  <2>1. failures' \in 0 .. MaxFailure
    BY <1>6, RepositoryAssumption DEF QuarantinedInError, Fail, TypeOK
  <2>2. call' \in [Proc -> Call]
    BY <1>6, GotoType DEF QuarantinedInError
  <2>3. call[p].root \in Root
    BY DEF TypeOK, Call
  <2>4. manifest' \in [Root -> Version \cup {None}]
    BY <1>6, <2>3 DEF QuarantinedInError, TypeOK
  <2> QED BY <1>6, <2>1, <2>2, <2>4 DEF QuarantinedInError, TypeOK, service, timelines
<1>7. CASE LockAged
  BY <1>7 DEF LockAged, TypeOK, service, timelines, faults
<1>8. CASE UNCHANGED vars
  BY <1>8 DEF vars, TypeOK, disk, service, timelines, faults
<1>9. ASSUME NEW p \in Proc, LockOperationFailed(p)
      PROVE  TypeOK'
  <2>1. failures' \in 0 .. MaxFailure
    BY <1>9, RepositoryAssumption DEF LockOperationFailed, Fail, TypeOK
  <2>2. CASE Inspected(p, "wait", Nobody) /\ UNCHANGED service
    <3>1. call' \in [Proc -> Call]
      BY <2>2, NobodyType, InspectedType
    <3> QED BY <1>9, <2>1, <2>2, <3>1 DEF LockOperationFailed, TypeOK, disk, service, timelines
  <2>3. ASSUME NEW outcome \in {"ok", "conflict", "error"}, Return(p, outcome)
        PROVE  TypeOK'
    BY <1>9, <2>1, <2>3, ReturnType DEF LockOperationFailed, TypeOK, disk, timelines
  <2>4. CASE Return(p, call[p].outcome)
    <3>1. call[p].outcome \in {"ok", "conflict", "error"}
      BY DEF TypeOK, Call
    <3> QED BY <2>3, <2>4, <3>1
  <2>5. CASE Return(p, "error")
    BY <2>3, <2>5
  <2> QED BY <1>9, <2>2, <2>4, <2>5 DEF LockOperationFailed
<1>10. ASSUME NEW p \in Proc, CompactSkipped(p) \/ SweepSkipped(p)
       PROVE  TypeOK'
  <2>1. failures' \in 0 .. MaxFailure
    BY <1>10, RepositoryAssumption DEF CompactSkipped, SweepSkipped, Fail, TypeOK
  <2>2. call' \in [Proc -> Call]
    <3>1. CASE CompactSkipped(p)
      BY <3>1, GotoType DEF CompactSkipped
    <3>2. ASSUME NEW rest \in SUBSET call[p].sweep, call' = [call EXCEPT ![p].sweep = rest]
          PROVE  call' \in [Proc -> Call]
      <4>c. call[p] \in Call /\ rest \in SUBSET Object
        BY DEF TypeOK, Call
      <4>1. [call[p] EXCEPT !.sweep = rest] \in Call
        BY <4>c DEF Call
      <4> QED BY <3>2, <4>1 DEF TypeOK
    <3> QED BY <1>10, <3>1, <3>2 DEF SweepSkipped
  <2> QED BY <1>10, <2>1, <2>2
          DEF CompactSkipped, SweepSkipped, TypeOK, disk, service, timelines
<1> QED
  BY <1>1, <1>2, <1>3, <1>4, <1>5, <1>6, <1>7, <1>8, <1>9, <1>10, LockStepType, BodyStepType
  DEF Next, CallStep

\* Type correctness of the repository.
THEOREM TypeCorrect == Spec => []TypeOK
BY Typing, NextType, PTL DEF Spec

-----------------------------------------------------------------------------
(* The lock                                                                *)

Inside(p) == call[p].pc \in Holding

\* The owner of a lock file has gone, and its process id does not come back.
Gone(owner) == owner.proc \in Proc /\ owner.pid < pid[owner.proc]

\* A call clears the lock it found stale.
Clears(p) == call[p].pc = "clear" => Gone(call[p].seen)

LockInv ==
  /\ lock # NoLock => lock.pid <= pid[lock.proc]
  /\ \A p \in Proc : Clears(p)
  /\ raced => crashes > 0
  /\ ~raced => \A p \in Proc : Inside(p) => Mine(p)

\* Lemma: a step that keeps the lock file, lets nobody in and inspects no
\* lock keeps the invariant.
LEMMA KeepsLock ==
  ASSUME LockInv, UNCHANGED <<pid, raced, crashes>>,
         lock' = lock \/ (lock # NoLock /\ lock' # NoLock
                           /\ lock'.proc = lock.proc /\ lock'.pid = lock.pid),
         \A q \in Proc : /\ Inside(q)' => Inside(q)
                         /\ call'[q].pc = "clear" => call'[q] = call[q]
  PROVE  LockInv'
<1>1. \A q \in Proc : Clears(q)'
  BY DEF LockInv, Clears, Gone
<1>2. lock' # NoLock => lock'.pid <= pid'[lock'.proc]
  BY DEF LockInv
<1>3. ~raced' => \A q \in Proc : Inside(q)' => Mine(q)'
  BY DEF LockInv, Mine
<1> QED BY <1>1, <1>2, <1>3 DEF LockInv

\* Lemma: a step that leaves no lock file, made when nobody else is inside,
\* keeps the invariant.
LEMMA FreesLock ==
  ASSUME LockInv, lock' = NoLock, UNCHANGED <<pid, crashes>>,
         raced' => crashes > 0,
         \A q \in Proc : call'[q].pc = "clear" => call'[q] = call[q],
         ~raced' => \A q \in Proc : ~Inside(q)'
  PROVE  LockInv'
<1>1. \A q \in Proc : Clears(q)'
  BY DEF LockInv, Clears, Gone
<1> QED BY <1>1 DEF LockInv

\* What a step of a call does to the position of that call and of the others.
LEMMA Moves ==
  ASSUME TypeOK, NEW p \in Proc, NEW q \in Proc
  PROVE  /\ \A pc : Goto(p, pc) => call'[q].pc = IF q = p THEN pc ELSE call[q].pc
         /\ Abort(p) => call'[q].pc = IF q = p THEN "release" ELSE call[q].pc
         /\ \A kind, r, v : Start(p, kind, r, v) =>
              call'[q].pc = IF q = p THEN "open" ELSE call[q].pc
         /\ \A outcome : Return(p, outcome) =>
              call'[q].pc = IF q = p THEN call'[p].pc ELSE call[q].pc
         /\ \A outcome : Return(p, outcome) => call'[p].pc \in {"idle", "open"}
<1>1. call \in [Proc -> Call] /\ call[p] \in Call
  BY DEF TypeOK
<1>2. \A pc : Goto(p, pc) => call'[q].pc = IF q = p THEN pc ELSE call[q].pc
  BY <1>1 DEF Goto, Call
<1>3. Abort(p) => call'[q].pc = IF q = p THEN "release" ELSE call[q].pc
  BY <1>1 DEF Abort, Call
<1>4. \A kind, r, v : Start(p, kind, r, v) =>
        /\ call'[q].pc = IF q = p THEN "open" ELSE call[q].pc
        /\ call'[p].pc = "open"
  BY <1>1 DEF Start, NoCall
<1>5. ASSUME NEW outcome, Return(p, outcome)
      PROVE  /\ call'[q].pc = IF q = p THEN call'[p].pc ELSE call[q].pc
             /\ call'[p].pc \in {"idle", "open"}
  <2>1. CASE Start(p, "remove", call[p].root, None)
    BY <2>1, <1>4
  <2>2. CASE call' = [call EXCEPT ![p] = NoCall]
    BY <2>2, <1>1 DEF NoCall
  <2> QED BY <1>5, <2>1, <2>2 DEF Return
<1> QED BY <1>2, <1>3, <1>4, <1>5

\* Lemma: a step of one call leaves the records of the others.
LEMMA OthersStay ==
  ASSUME TypeOK, NEW p \in Proc, NEW q \in Proc, q # p,
         \/ \E pc : Goto(p, pc)
         \/ \E pc, seen : Inspected(p, pc, seen)
         \/ Abort(p)
         \/ \E kind, r, v : Start(p, kind, r, v)
         \/ \E outcome : Return(p, outcome)
  PROVE  call'[q] = call[q]
BY DEF TypeOK, Goto, Inspected, Abort, Start, Return

\* Lemma: a call that inspects the lock, or has done so, is where it says.
LEMMA InspectedMoves ==
  ASSUME TypeOK, NEW p \in Proc, NEW pc, NEW seen, Inspected(p, pc, seen)
  PROVE  call'[p].pc = pc /\ call'[p].seen = seen
<1>1. call \in [Proc -> Call] /\ call[p] \in Call
  BY DEF TypeOK
<1> QED BY <1>1 DEF Inspected, Call

\* Lemma: steps that neither touch the lock file nor let a process in.
LEMMA QuietSteps ==
  ASSUME TypeOK, LockInv, NEW p \in Proc,
         \/ StatLock(p) \/ Retry(p) \/ TimedOut(p) \/ ReadToken(p) \/ LockOperationFailed(p)
         \/ BodyStep(p) \/ OperationFailed(p) \/ QuarantinedInError(p)
         \/ CompactSkipped(p) \/ SweepSkipped(p)
         \/ (\E r \in Root : Activate(p, r) \/ Persist(p, r))
  PROVE  LockInv'
<1> USE DEF Locking, Holding, Inside
<1>t. call \in [Proc -> Call] /\ call[p] \in Call
  BY DEF TypeOK
<1>1. lock' = lock /\ UNCHANGED <<pid, raced, crashes>>
  BY DEF StatLock, Retry, TimedOut, ReadToken, LockOperationFailed, BodyStep, Load, Check,
         Store, Publish, Erase, Compact, Evict, Sweep, OperationFailed, QuarantinedInError,
         CompactSkipped, SweepSkipped, Activate, Persist, disk, faults
<1>2. /\ Inside(p)' => Inside(p)
      /\ call'[p].pc # "clear"
      /\ \A q \in Proc : q # p => call'[q] = call[q]
  <2>1. CASE StatLock(p) \/ Retry(p) \/ TimedOut(p) \/ ReadToken(p)
    BY <2>1, Moves, OthersStay DEF StatLock, Retry, TimedOut, ReadToken
  <2>2. CASE OperationFailed(p) \/ QuarantinedInError(p) \/ CompactSkipped(p)
    BY <2>2, Moves, OthersStay DEF OperationFailed, QuarantinedInError, CompactSkipped
  <2>3. CASE \E r \in Root : Activate(p, r) \/ Persist(p, r)
    BY <2>3, Moves, OthersStay DEF Activate, Persist
  <2>4. CASE LockOperationFailed(p)
    <3>1. CASE Inspected(p, "wait", Nobody)
      BY <3>1, InspectedMoves, OthersStay
    <3>2. CASE \E outcome : Return(p, outcome)
      BY <3>2, Moves, OthersStay
    <3> QED BY <2>4, <3>1, <3>2 DEF LockOperationFailed
  <2>5. CASE BodyStep(p) \/ SweepSkipped(p)
    <3>1. call[p].pc \in Holding \ {"clear"}
      BY <2>5 DEF BodyStep, Load, Check, Store, Publish, Erase, Compact, Evict, Sweep,
                  SweepSkipped
    <3>2. \A q \in Proc : q # p => call'[q] = call[q]
      BY <2>5, <1>t DEF BodyStep, Load, Check, Store, Publish, Erase, Compact, Evict, Sweep,
                        SweepSkipped, Goto, Abort
    <3>3. call'[p].pc # "clear"
      <4>g. \A pc \in Holding : Goto(p, pc) => call'[p].pc # "clear"
        BY Moves
      <4>c. call[p].evict \in SUBSET Root /\ call[p].sweep \in SUBSET Object
        BY <1>t DEF Call
      <4>e. ASSUME NEW rest \in SUBSET Root, call' = [call EXCEPT ![p].evict = rest]
            PROVE  call'[p].pc = call[p].pc
        BY <4>e, <1>t DEF Call
      <4>s. ASSUME NEW rest \in SUBSET Object, call' = [call EXCEPT ![p].sweep = rest]
            PROVE  call'[p].pc = call[p].pc
        BY <4>s, <1>t DEF Call
      <4>1. CASE Load(p)
        <5>1. ASSUME NEW v, call' = [call EXCEPT ![p] = [@ EXCEPT !.pc = "release", !.version = v]]
              PROVE  call'[p].pc = "release"
          BY <5>1, <1>t DEF Call
        <5>2. CASE Goto(p, "release")
          BY <4>g, <5>2
        <5> QED BY <4>1, <5>1, <5>2 DEF Load
      <4>2. CASE Check(p)
        <5>1. ASSUME call' = [call EXCEPT ![p] = [@ EXCEPT !.pc = "release", !.outcome = "conflict"]]
              PROVE  call'[p].pc = "release"
          BY <5>1, <1>t DEF Call
        <5>2. PICK pc \in Holding : Goto(p, pc) \/ call'[p].pc = "release"
          BY <4>2, <5>1 DEF Check
        <5> QED BY <4>g, <5>2
      <4>3. CASE Store(p)
        BY <4>3, <4>g, <3>1, Moves DEF Store
      <4>4. CASE Publish(p) \/ Erase(p)
        BY <4>4, <4>g DEF Publish, Erase
      <4>5. CASE Compact(p)
        BY <4>5, <1>t DEF Compact, Call
      <4>6. CASE Evict(p)
        <5>1. CASE call[p].evict = {}
          BY <4>6, <4>g, <5>1 DEF Evict
        <5>2. ASSUME NEW r \in call[p].evict, call' = [call EXCEPT ![p].evict = @ \ {r}]
              PROVE  call'[p].pc = call[p].pc
          BY <4>c, <4>e, <5>2
        <5> QED BY <3>1, <4>6, <5>1, <5>2 DEF Evict
      <4>7. CASE Sweep(p)
        <5>1. CASE call[p].sweep = {}
          BY <4>7, <4>g, <5>1 DEF Sweep
        <5>2. ASSUME NEW o \in call[p].sweep, call' = [call EXCEPT ![p].sweep = @ \ {o}]
              PROVE  call'[p].pc = call[p].pc
          BY <4>c, <4>s, <5>2
        <5> QED BY <3>1, <4>7, <5>1, <5>2 DEF Sweep
      <4>8. CASE SweepSkipped(p)
        BY <4>8, <4>c, <4>s, <3>1 DEF SweepSkipped
      <4> QED BY <2>5, <4>1, <4>2, <4>3, <4>4, <4>5, <4>6, <4>7, <4>8 DEF BodyStep
    <3> QED BY <3>1, <3>2, <3>3
  <2> QED BY <2>1, <2>2, <2>3, <2>4, <2>5
<1> QED BY <1>1, <1>2, KeepsLock

\* Lemma: a lock that is found stale belongs to a process that has gone.
LEMMA ReadLockInv ==
  ASSUME TypeOK, LockInv, NEW p \in Proc, ReadLock(p)
  PROVE  LockInv'
<1> USE DEF Holding, Inside
<1>1. UNCHANGED <<lock, pid, raced, crashes>>
  BY DEF ReadLock, disk, faults
<1>2. CASE Goto(p, "wait")
  BY <1>1, <1>2, Moves, OthersStay, KeepsLock
<1>3. CASE lock.written /\ ~ProcessExists(lock) /\ Inspected(p, "clear", Owner(lock))
  <2>1. lock # NoLock /\ lock \in [proc : Proc, pid : 0 .. MaxCrash, written : BOOLEAN, old : BOOLEAN]
    BY <1>3 DEF TypeOK, NoLock
  <2>2. lock.pid < pid[lock.proc] /\ lock.proc \in Proc
    <3>1. lock.proc \in Proc /\ lock.pid \in Nat
      BY <2>1, RepositoryAssumption
    <3>2. pid[lock.proc] \in Nat
      BY <3>1, RepositoryAssumption DEF TypeOK
    <3>3. lock.pid <= pid[lock.proc] /\ pid[lock.proc] # lock.pid
      BY <1>3, <2>1 DEF LockInv, ProcessExists
    <3> QED BY <3>1, <3>2, <3>3
  <2>3. call'[p].pc = "clear" /\ call'[p].seen = Owner(lock)
    BY <1>3, InspectedMoves
  <2>4. Clears(p)'
    BY <1>1, <2>2, <2>3 DEF Clears, Gone, Owner
  <2>5. \A q \in Proc : q # p => call'[q] = call[q]
    BY <1>3, OthersStay
  <2>6. \A q \in Proc : Clears(q)'
    BY <1>1, <2>4, <2>5 DEF LockInv, Clears, Gone
  <2> QED BY <1>1, <2>3, <2>5, <2>6 DEF LockInv, Mine
<1> QED BY <1>2, <1>3 DEF ReadLock

\* Lemma: who clears the lock it has inspected clears that of a process that
\* has gone, and nobody is inside with it.
LEMMA ClearLockInv ==
  ASSUME TypeOK, LockInv, NEW p \in Proc, ClearLock(p)
  PROVE  LockInv'
<1> USE DEF Holding, Inside
<1>1. Gone(call[p].seen) /\ lock' = NoLock /\ UNCHANGED <<pid, crashes>>
  BY DEF ClearLock, LockInv, Clears, faults
<1>2. crashes > 0
  <2>1. /\ call[p].seen.pid \in Nat /\ crashes \in Nat
        /\ pid[call[p].seen.proc] \in 0 .. crashes
    BY <1>1, RepositoryAssumption DEF TypeOK, Call, Gone
  <2> QED BY <1>1, <2>1 DEF Gone
<1>3. call'[p].pc = "wait" /\ \A q \in Proc : q # p => call'[q] = call[q]
  BY InspectedMoves, OthersStay DEF ClearLock
<1>4. ASSUME ~raced', NEW q \in Proc, Inside(q) PROVE FALSE
  <2>1. ~raced /\ Owner(lock) \in {call[p].seen, Nobody}
    BY <1>4 DEF ClearLock
  <2>2. lock # NoLock /\ lock.proc = q /\ lock.pid = pid[q]
    BY <1>4, <2>1 DEF LockInv, Mine
  <2>3. Owner(lock) # Nobody
    BY <2>2, RepositoryAssumption DEF Owner, Nobody, NoLock
  <2>4. call[p].seen.proc = q /\ call[p].seen.pid = pid[q]
    BY <2>1, <2>2, <2>3 DEF Owner
  <2>5. pid[q] \in Nat
    BY DEF TypeOK
  <2> QED BY <1>1, <2>4, <2>5 DEF Gone
<1> QED BY <1>1, <1>2, <1>3, <1>4, FreesLock

\* Lemma: the lock file names the process inside, until one that took its
\* place is cleared.
LEMMA LockStepInv ==
  ASSUME TypeOK, LockInv, [Next]_vars
  PROVE  LockInv'
<1> USE DEF Locking, Holding, Inside
<1>t. call \in [Proc -> Call] /\ NoProc \notin Proc
  BY RepositoryAssumption DEF TypeOK
<1>1. ASSUME NEW p \in Proc, OpenLock(p)
      PROVE  LockInv'
  <2>1. CASE lock = NoLock
    <3>1. ~raced => \A q \in Proc : ~Inside(q)
      BY <2>1 DEF LockInv, Mine
    <3>2. lock' = [proc |-> p, pid |-> pid[p], written |-> FALSE, old |-> FALSE]
      BY <1>1, <2>1 DEF OpenLock
    <3>3. lock' # NoLock /\ lock'.proc = p /\ lock'.pid = pid[p] /\ pid[p] \in Nat
      BY <3>2, <1>t DEF NoLock, TypeOK
    <3>4. Mine(p)' /\ UNCHANGED <<pid, raced, crashes>>
      BY <1>1, <3>3 DEF OpenLock, Mine, faults
    <3>5. call'[p].pc = "created" /\ \A q \in Proc : q # p => call'[q] = call[q]
      BY <1>1, <2>1, Moves, OthersStay DEF OpenLock
    <3>6. \A q \in Proc : Clears(q)'
      BY <3>4, <3>5 DEF LockInv, Clears, Gone
    <3>7. ~raced' => \A q \in Proc : Inside(q)' => Mine(q)'
      BY <3>1, <3>4, <3>5
    <3>8. lock' # NoLock => lock'.pid <= pid'[lock'.proc]
      BY <3>3, <3>4
    <3> QED BY <3>4, <3>6, <3>7, <3>8 DEF LockInv
  <2>2. CASE lock # NoLock
    BY <1>1, <2>2, Moves, OthersStay, KeepsLock DEF OpenLock, faults
  <2> QED BY <2>1, <2>2
<1>2. ASSUME NEW p \in Proc, WriteLock(p)
      PROVE  LockInv'
  <2>1. /\ \A q \in Proc : /\ Inside(q)' => Inside(q)
                           /\ call'[q].pc = "clear" => call'[q] = call[q]
        /\ UNCHANGED <<pid, raced, crashes>>
    BY <1>2, Moves, OthersStay DEF WriteLock, Body, faults
  <2>2. CASE Mine(p)
    <3>1. lock \in [proc : Proc, pid : 0 .. MaxCrash, written : BOOLEAN, old : BOOLEAN]
      BY <2>2 DEF TypeOK, Mine
    <3>2. lock' = [lock EXCEPT !.written = TRUE, !.old = FALSE]
      BY <1>2, <2>2 DEF WriteLock
    <3>3. lock'.proc = lock.proc /\ lock'.pid = lock.pid /\ lock.proc \in Proc
      BY <3>1, <3>2
    <3>4. lock # NoLock /\ lock' # NoLock
      BY <3>3, <1>t DEF NoLock
    <3> QED BY <2>1, <3>3, <3>4, KeepsLock
  <2>3. CASE ~Mine(p)
    BY <1>2, <2>1, <2>3, KeepsLock DEF WriteLock
  <2> QED BY <2>2, <2>3
<1>3. ASSUME NEW p \in Proc, Unlock(p) \/ LockFailed(p)
      PROVE  LockInv'
  <2>1. /\ ~Inside(p)' /\ call'[p].pc # "clear" /\ \A q \in Proc : q # p => call'[q] = call[q]
        /\ UNCHANGED <<pid, raced, crashes>>
    BY <1>3, Moves, OthersStay DEF Unlock, LockFailed, faults
  <2>2. CASE lock' = NoLock
    <3>1. ~raced => \A q \in Proc : q # p => ~Inside(q)
      BY <1>3 DEF Unlock, LockFailed, LockInv, Mine
    <3>2. raced => crashes > 0
      BY DEF LockInv
    <3> QED BY <2>1, <2>2, <3>1, <3>2, FreesLock
  <2>3. CASE lock' = lock
    BY <2>1, <2>3, KeepsLock
  <2> QED BY <1>3, <2>2, <2>3 DEF Unlock, LockFailed
<1>4. ASSUME NEW p \in Proc, Crash(p)
      PROVE  LockInv'
  <2>1. /\ call'[p].pc = "idle" /\ \A q \in Proc : q # p => call'[q] = call[q]
        /\ pid'[p] = pid[p] + 1 /\ \A q \in Proc : q # p => pid'[q] = pid[q]
        /\ \A q \in Proc : pid[q] \in Nat
    BY <1>4, <1>t DEF Crash, NoCall, TypeOK
  <2>2. UNCHANGED <<lock, raced>> /\ crashes' > 0
    BY <1>4 DEF Crash, disk, TypeOK
  <2>3. \A q \in Proc : pid'[q] >= pid[q]
    BY <2>1
  <2>4. ASSUME NEW q \in Proc, call'[q].pc = "clear" PROVE Gone(call[q].seen)'
    <3>1. call'[q] = call[q] /\ Gone(call[q].seen)
      BY <2>1, <2>4 DEF LockInv, Clears
    <3>2. call[q].seen.pid \in Nat
      BY RepositoryAssumption DEF TypeOK, Call
    <3>3. call[q].seen.proc \in Proc
      BY <3>1 DEF Gone
    <3>4. call[q].seen.pid < pid'[call[q].seen.proc]
      BY <2>1, <2>3, <3>1, <3>2, <3>3 DEF Gone
    <3> QED BY <3>1, <3>3, <3>4 DEF Gone
  <2>5. lock' # NoLock => lock'.pid <= pid'[lock'.proc]
    <3> SUFFICES ASSUME lock # NoLock PROVE lock.pid <= pid'[lock.proc]
      BY <2>2
    <3>1. lock.proc \in Proc /\ lock.pid \in Nat /\ lock.pid <= pid[lock.proc]
      BY RepositoryAssumption DEF TypeOK, LockInv
    <3> QED BY <2>1, <2>3, <3>1
  <2>6. ~raced' => \A q \in Proc : Inside(q)' => Mine(q)'
    BY <2>1, <2>2 DEF LockInv, Mine
  <2> QED BY <2>2, <2>4, <2>5, <2>6 DEF LockInv, Clears
<1>5. CASE LockAged
  <2>1. lock \in [proc : Proc, pid : 0 .. MaxCrash, written : BOOLEAN, old : BOOLEAN]
    BY <1>5 DEF LockAged, TypeOK
  <2>2. lock'.proc = lock.proc /\ lock'.pid = lock.pid /\ lock.proc \in Proc
    BY <1>5, <2>1 DEF LockAged
  <2>3. lock # NoLock /\ lock' # NoLock
    BY <2>2, <1>t DEF NoLock
  <2> QED BY <1>5, <2>2, <2>3, KeepsLock DEF LockAged, faults
<1>6. CASE UNCHANGED vars
  BY <1>6, KeepsLock DEF vars, disk, faults
<1> QED
  BY <1>1, <1>2, <1>3, <1>4, <1>5, <1>6, QuietSteps, ReadLockInv, ClearLockInv
  DEF Next, CallStep, LockStep

\* Lemma: nobody is inside or about to clear a lock initially.
LEMMA LockStarts == Init => LockInv
BY DEF Init, LockInv, Clears, Inside, NoCall, Holding

\* Theorem: in every instance, two processes are inside at the same time only
\* after a crash and after the clearing of a lock file that had taken the place
\* of the stale one that was inspected.
THEOREM LockExcludes == Spec => []MutualExclusion
<1>1. LockInv => MutualExclusion
  BY DEF LockInv, Inside, MutualExclusion, Mine
<1> QED BY <1>1, LockStarts, TypeCorrect, LockStepInv, PTL DEF Spec

-----------------------------------------------------------------------------
(***************************************************************************)
(* What is stored.  ManifestComplete is not inductive: Publish must know   *)
(* that the objects of the version it publishes have been written, and     *)
(* Sweep that what it removes belongs to no manifest that is left, also    *)
(* while manifests are still being evicted.  NoLostUpdate rests on the     *)
(* comparison Check made, which holds until the manifest is replaced.  All *)
(* of it is true of the one process inside; the lock keeps the others out. *)
(***************************************************************************)

\* The snapshots a manifest or a call may name have been taken, and a workspace
\* without a manifest needs no object.
Snapshots ==
  /\ refs[None] = {}
  /\ \A r \in Root : manifest[r] <= versions
  /\ \A p \in Proc : call[p].version <= versions

\* What a process knows when it is at its next file operation.
Knows(p) ==
  /\ call[p].pc \in {"store", "publish"} => manifest[call[p].root] = revision[p][call[p].root]
  /\ call[p].pc = "publish" => refs[call[p].version] \subseteq objects
  /\ call[p].pc = "evict" =>
       \A r \in Root \ call[p].evict : call[p].sweep \cap refs[manifest[r]] = {}
  /\ call[p].pc = "sweep" => \A r \in Root : call[p].sweep \cap refs[manifest[r]] = {}

Complete == \A r \in Root : refs[manifest[r]] \subseteq objects

StorageInv ==
  /\ TypeOK /\ LockInv /\ Snapshots
  /\ ~raced => Complete /\ \A p \in Proc : Knows(p)

\* The operations at which a process relies on something it knows.
Relying == {"store", "publish", "evict", "sweep"}

\* Lemma: while one process is inside and no lock was cleared by mistake, every
\* other one is at an operation that relies on nothing.
LEMMA OthersOutside ==
  ASSUME StorageInv, ~raced, NEW p \in Proc, Inside(p), NEW q \in Proc, q # p
  PROVE  call[q].pc \notin Relying
<1>1. Mine(p) /\ ~Mine(q)
  BY DEF StorageInv, LockInv, Mine
<1> QED BY <1>1 DEF StorageInv, LockInv, Inside, Holding, Relying

\* Lemma: a step that changes no file but the lock file, and lets no process
\* come to an operation that relies on something, keeps the invariant.
LEMMA SameFiles ==
  ASSUME StorageInv, TypeOK', LockInv', UNCHANGED <<manifest, objects, timelines>>,
         ~raced' => ~raced,
         \A q \in Proc :
           /\ call'[q].version \in {None, call[q].version}
           /\ \/ call'[q].pc \notin Relying
              \/ call'[q] = call[q] /\ revision'[q] = revision[q]
  PROVE  StorageInv'
<1>1. None <= versions
  BY DEF StorageInv, TypeOK, None
<1>2. Snapshots'
  BY <1>1 DEF StorageInv, Snapshots, timelines
<1>3. ASSUME ~raced' PROVE Complete'
  BY <1>3 DEF StorageInv, Complete, timelines
<1>4. ASSUME ~raced', NEW q \in Proc PROVE Knows(q)'
  <2>1. CASE call'[q].pc \notin Relying
    BY <2>1 DEF Knows, Relying
  <2>2. CASE call'[q] = call[q] /\ revision'[q] = revision[q]
    <3>1. Knows(q)
      BY <1>4 DEF StorageInv
    <3> QED BY <2>2, <3>1 DEF Knows, timelines
  <2> QED BY <2>1, <2>2
<1> QED BY <1>2, <1>3, <1>4 DEF StorageInv

\* Lemma: a step of the process inside keeps the invariant when it leaves what
\* is stored complete and the process with what its next operation relies on.
LEMMA InsideStep ==
  ASSUME StorageInv, TypeOK', LockInv', NEW p \in Proc, Inside(p),
         UNCHANGED <<timelines, service, raced>>,
         \A q \in Proc : q # p => call'[q] = call[q],
         call'[p].version <= versions,
         \A r \in Root : manifest'[r] <= versions,
         ~raced => Complete' /\ Knows(p)'
  PROVE  StorageInv'
<1>1. Snapshots'
  BY DEF StorageInv, Snapshots, timelines
<1>2. ASSUME ~raced', NEW q \in Proc, q # p PROVE Knows(q)'
  BY <1>2, OthersOutside DEF Knows, Relying
<1> QED BY <1>1, <1>2 DEF StorageInv

\* Lemma: what a step of a call does to the record of that call and to the others.
LEMMA Records ==
  ASSUME TypeOK, NEW p \in Proc
  PROVE  /\ \A pc : Goto(p, pc) =>
              /\ call'[p] = [call[p] EXCEPT !.pc = pc]
              /\ \A q \in Proc : q # p => call'[q] = call[q]
         /\ Abort(p) =>
              /\ call'[p].pc = "release" /\ call'[p].version = call[p].version
              /\ \A q \in Proc : q # p => call'[q] = call[q]
         /\ \A outcome : Return(p, outcome) =>
              /\ call'[p].pc \in {"idle", "open"} /\ call'[p].version = None
              /\ \A q \in Proc : q # p => call'[q] = call[q] /\ revision'[q] = revision[q]
<1>1. call \in [Proc -> Call] /\ call[p] \in Call
  BY DEF TypeOK
<1>2. \A pc : Goto(p, pc) =>
        /\ call'[p] = [call[p] EXCEPT !.pc = pc]
        /\ \A q \in Proc : q # p => call'[q] = call[q]
  BY <1>1 DEF Goto, Call
<1>3. Abort(p) =>
        /\ call'[p].pc = "release" /\ call'[p].version = call[p].version
        /\ \A q \in Proc : q # p => call'[q] = call[q]
  BY <1>1 DEF Abort, Call
<1>4. ASSUME NEW outcome, Return(p, outcome)
      PROVE  /\ call'[p].pc \in {"idle", "open"} /\ call'[p].version = None
             /\ \A q \in Proc : q # p => call'[q] = call[q]
  <2>1. CASE Start(p, "remove", call[p].root, None)
    BY <1>1, <2>1 DEF Start, NoCall
  <2>2. CASE call' = [call EXCEPT ![p] = NoCall]
    BY <1>1, <2>2 DEF NoCall
  <2> QED BY <1>4, <2>1, <2>2 DEF Return
<1>5. ASSUME NEW outcome, Return(p, outcome)
      PROVE  \A q \in Proc : q # p => revision'[q] = revision[q]
  BY <1>5 DEF Return, TypeOK
<1> QED BY <1>2, <1>3, <1>4, <1>5

\* Lemma: the steps around the lock, and those that give up, keep the invariant.
LEMMA LockStorage ==
  ASSUME StorageInv, TypeOK', LockInv', NEW p \in Proc,
         LockStep(p) \/ OperationFailed(p) \/ LockFailed(p) \/ LockOperationFailed(p)
  PROVE  StorageInv'
<1> USE DEF Relying
<1>t. TypeOK
  BY DEF StorageInv
<1>r. \A pc : Goto(p, pc) =>
        /\ call'[p].pc = pc /\ call'[p].version = call[p].version
        /\ \A q \in Proc : q # p => call'[q] = call[q]
  BY <1>t, Records DEF TypeOK, Call
<1>i. \A pc, seen : Inspected(p, pc, seen) =>
        /\ call'[p].pc = pc /\ call'[p].version = call[p].version
        /\ \A q \in Proc : q # p => call'[q] = call[q]
  BY <1>t DEF TypeOK, Call, Inspected
<1>1. CASE OpenLock(p) \/ StatLock(p) \/ ReadLock(p) \/ Retry(p)
  BY <1>1, <1>i, <1>r, SameFiles DEF OpenLock, StatLock, ReadLock, Retry, disk, service
<1>2. CASE WriteLock(p)
  <2>1. Body(call[p].kind) \notin Relying
    BY DEF Body
  <2> QED BY <1>2, <1>r, <2>1, SameFiles DEF WriteLock, service
<1>3. CASE ClearLock(p)
  <2>1. /\ UNCHANGED <<manifest, objects, timelines, revision>>
        /\ ~raced' => ~raced
    BY <1>3 DEF ClearLock, service
  <2>2. /\ call'[p].pc = "wait" /\ call'[p].version = call[p].version
        /\ \A q \in Proc : q # p => call'[q] = call[q]
    BY <1>3, <1>i DEF ClearLock
  <2> QED BY <2>1, <2>2, SameFiles
<1>4. CASE TimedOut(p)
  BY <1>4, <1>t, Records, SameFiles DEF TimedOut, disk
<1>5. CASE ReadToken(p)
  <2>1. CASE Goto(p, "unlock") /\ UNCHANGED service
    BY <1>5, <1>r, <2>1, SameFiles DEF ReadToken, disk, service
  <2>2. CASE Return(p, call[p].outcome)
    BY <1>5, <1>t, <2>2, Records, SameFiles DEF ReadToken, disk
  <2> QED BY <1>5, <2>1, <2>2 DEF ReadToken
<1>6. CASE Unlock(p)
  BY <1>6, <1>t, Records, SameFiles DEF Unlock
<1>7. CASE LockFailed(p)
  BY <1>7, <1>t, Records, SameFiles DEF LockFailed
<1>8. CASE OperationFailed(p)
  BY <1>8, <1>t, Records, SameFiles DEF OperationFailed, disk, service
<1>9. CASE LockOperationFailed(p)
  <2>1. UNCHANGED <<manifest, objects, timelines, raced>>
    BY <1>9 DEF LockOperationFailed, disk
  <2>2. CASE Inspected(p, "wait", Nobody) /\ UNCHANGED service
    BY <1>i, <2>1, <2>2, SameFiles DEF service
  <2>3. CASE \E outcome : Return(p, outcome)
    BY <1>t, <2>1, <2>3, Records, SameFiles
  <2> QED BY <1>9, <2>2, <2>3 DEF LockOperationFailed
<1> QED BY <1>1, <1>2, <1>3, <1>4, <1>5, <1>6, <1>7, <1>8, <1>9 DEF LockStep

\* Lemma: a manifest that is removed needs no object.
LEMMA ManifestRemoved ==
  ASSUME StorageInv, NEW r \in Root, manifest' = [manifest EXCEPT ![r] = None],
         UNCHANGED <<timelines, objects>>
  PROVE  /\ \A x \in Root : manifest'[x] <= versions
         /\ refs'[manifest'[r]] = {}
         /\ \A x \in Root : x # r => manifest'[x] = manifest[x]
         /\ ~raced => Complete'
<1>1. manifest'[r] = None /\ \A x \in Root : x # r => manifest'[x] = manifest[x]
  BY DEF StorageInv, TypeOK
<1>2. None <= versions
  BY DEF StorageInv, TypeOK, None
<1> QED BY <1>1, <1>2 DEF StorageInv, Snapshots, Complete, timelines

\* Lemma: the file operations of a process inside keep the invariant.
LEMMA BodyStorage ==
  ASSUME StorageInv, TypeOK', LockInv', NEW p \in Proc, BodyStep(p) \/ QuarantinedInError(p) \/ CompactSkipped(p) \/ SweepSkipped(p)
  PROVE  StorageInv'
<1> USE DEF Relying
<1> DEFINE c == call[p]
<1>t. /\ call[p] \in Call /\ c.root \in Root /\ c.version \in Version \cup {None}
      /\ manifest \in [Root -> Version \cup {None}]
  BY DEF StorageInv, TypeOK, Call
<1>v. c.version <= versions /\ \A r \in Root : manifest[r] <= versions
  BY DEF StorageInv, Snapshots
<1>i. Inside(p)
  BY DEF BodyStep, Load, Check, Store, Publish, Erase, Compact, Evict, Sweep,
     QuarantinedInError, CompactSkipped, SweepSkipped, Inside, Holding
<1>r. \A pc : Goto(p, pc) =>
        /\ call'[p] = [call[p] EXCEPT !.pc = pc]
        /\ call'[p].pc = pc /\ call'[p].version = c.version /\ call'[p].root = c.root
        /\ call'[p].evict = c.evict /\ call'[p].sweep = c.sweep
        /\ \A q \in Proc : q # p => call'[q] = call[q]
  BY <1>t, Records DEF StorageInv, Call
<1>k. ~raced => Complete /\ Knows(p)
  BY DEF StorageInv
<1>n. call'[p].pc \notin Relying => Knows(p)'
  BY DEF Knows
<1>1. CASE Load(p) \/ QuarantinedInError(p)
  <2>1. CASE manifest' = [manifest EXCEPT ![c.root] = None] /\ Goto(p, "release")
    <3>1. UNCHANGED <<objects, timelines, service, raced>>
      BY <1>1 DEF Load, QuarantinedInError, StorageInv
    <3>2. (~raced => Complete') /\ \A r \in Root : manifest'[r] <= versions
      BY <1>t, <2>1, <3>1, ManifestRemoved
    <3>3. call'[p].pc = "release"
      BY <1>r, <2>1
    <3>4. Knows(p)'
      BY <1>n, <3>3
    <3> QED BY <1>i, <1>r, <1>v, <2>1, <3>1, <3>2, <3>4, InsideStep
  <2>2. CASE /\ UNCHANGED manifest
             /\ call' = [call EXCEPT ![p] = [@ EXCEPT !.pc = "release",
                                                     !.version = manifest[c.root]]]
    <3>1. /\ call'[p].pc = "release" /\ call'[p].version = manifest[c.root]
          /\ \A q \in Proc : q # p => call'[q] = call[q]
      BY <1>t, <2>2 DEF Call, StorageInv, TypeOK
    <3>2. UNCHANGED <<manifest, objects, timelines, service, raced>>
      BY <1>1, <2>2 DEF Load, QuarantinedInError
    <3> QED BY <1>i, <1>k, <1>t, <1>v, <3>1, <3>2, InsideStep DEF Knows, Complete, timelines
  <2> QED BY <1>1, <2>1, <2>2 DEF Load, QuarantinedInError
<1>2. CASE Check(p)
  <2>1. UNCHANGED <<manifest, objects, timelines, service, raced>>
    BY <1>2 DEF Check, disk
  <2>2. CASE manifest[c.root] # revision[p][c.root]
    <3>1. /\ call'[p].pc = "release" /\ call'[p].version = c.version
          /\ \A q \in Proc : q # p => call'[q] = call[q]
      <4>1. call' = [call EXCEPT ![p] = [@ EXCEPT !.pc = "release", !.outcome = "conflict"]]
        BY <1>2, <2>2 DEF Check
      <4> QED BY <1>t, <4>1 DEF Call, StorageInv, TypeOK
    <3> QED BY <1>i, <1>k, <1>v, <2>1, <3>1, InsideStep DEF Knows, Complete, timelines
  <2>3. CASE manifest[c.root] = revision[p][c.root]
    <3>1. PICK pc \in {"store", "release", "erase"} : Goto(p, pc)
      BY <1>2, <2>3 DEF Check
    <3> QED BY <1>i, <1>k, <1>r, <1>v, <2>1, <2>3, <3>1, InsideStep
            DEF Knows, Complete, timelines, service
  <2> QED BY <2>2, <2>3
<1>3. CASE Store(p)
  <2>1. UNCHANGED <<manifest, timelines, service, raced>>
    BY <1>3 DEF Store
  <2>2. CASE refs[c.version] \ objects = {}
    <3>1. UNCHANGED objects /\ (Goto(p, "publish") \/ Abort(p))
      BY <1>3, <2>2 DEF Store
    <3>2. CASE Goto(p, "publish")
      <4>1. /\ call'[p].pc = "publish" /\ call'[p].version = c.version /\ call'[p].root = c.root
            /\ \A q \in Proc : q # p => call'[q] = call[q]
        BY <1>r, <3>2
      <4>2. ~raced => Knows(p)' /\ Complete'
        BY <1>3, <1>k, <2>1, <2>2, <3>1, <4>1 DEF Store, Knows, Complete, timelines, service
      <4> QED BY <1>i, <1>v, <2>1, <3>1, <4>1, <4>2, InsideStep
    <3>3. CASE Abort(p)
      BY <1>i, <1>k, <1>v, <2>1, <3>1, <3>3, InsideStep, Records
      DEF Knows, Complete, timelines, StorageInv
    <3> QED BY <3>1, <3>2, <3>3
  <2>3. CASE refs[c.version] \ objects # {}
    <3>1. UNCHANGED call /\ objects \subseteq objects'
      BY <1>3, <2>3 DEF Store
    <3> QED BY <1>3, <1>i, <1>k, <1>v, <2>1, <3>1, InsideStep
            DEF Store, Knows, Complete, timelines, service
  <2> QED BY <2>2, <2>3
<1>4. CASE Publish(p)
  <2>1. manifest'[c.root] = c.version /\ \A x \in Root : x # c.root => manifest'[x] = manifest[x]
    BY <1>4, <1>t DEF Publish
  <2>2. UNCHANGED <<objects, timelines, service, raced>> /\ Goto(p, "compact")
    BY <1>4 DEF Publish
  <2>3. ~raced => Complete'
    BY <1>4, <1>k, <2>1, <2>2 DEF Publish, Knows, Complete, timelines
  <2>4. /\ call'[p].pc = "compact" /\ call'[p].version = c.version
        /\ \A q \in Proc : q # p => call'[q] = call[q]
    BY <1>r, <2>2
  <2>5. Knows(p)' /\ \A r \in Root : manifest'[r] <= versions
    BY <1>n, <1>v, <2>1, <2>4
  <2> QED BY <1>i, <1>v, <2>2, <2>3, <2>4, <2>5, InsideStep
<1>5. CASE Erase(p)
  <2>1. UNCHANGED <<objects, timelines, service, raced>> /\ Goto(p, "compact")
    BY <1>5 DEF Erase
  <2>2. (~raced => Complete') /\ \A r \in Root : manifest'[r] <= versions
    BY <1>5, <1>t, <2>1, ManifestRemoved DEF Erase
  <2>3. /\ call'[p].pc = "compact" /\ call'[p].version = c.version
        /\ \A q \in Proc : q # p => call'[q] = call[q]
    BY <1>r, <2>1
  <2>4. Knows(p)'
    BY <1>n, <2>3
  <2> QED BY <1>i, <1>v, <2>1, <2>2, <2>3, <2>4, InsideStep
<1>6. CASE Compact(p)
  <2>1. UNCHANGED <<manifest, objects, timelines, service, raced>>
    BY <1>6 DEF Compact, disk
  <2>2. /\ call'[p].pc = "evict" /\ call'[p].version = c.version
        /\ call'[p].evict = Evicted /\ call'[p].sweep = objects \ Referenced(Root \ Evicted)
        /\ \A q \in Proc : q # p => call'[q] = call[q]
    BY <1>6, <1>t DEF Compact, Call, StorageInv, TypeOK
  <2>3. \A r \in Root \ Evicted :
          (objects \ Referenced(Root \ Evicted)) \cap refs[manifest[r]] = {}
    BY DEF Referenced
  <2> QED BY <1>i, <1>k, <1>v, <2>1, <2>2, <2>3, InsideStep DEF Knows, Complete, timelines
<1>7. CASE Evict(p)
  <2>1. UNCHANGED <<objects, timelines, service, raced>> /\ c.pc = "evict"
    BY <1>7 DEF Evict
  <2>2. CASE c.evict = {}
    <3>1. Goto(p, "sweep") /\ UNCHANGED manifest
      BY <1>7, <2>2 DEF Evict
    <3>2. /\ call'[p].pc = "sweep" /\ call'[p].version = c.version
          /\ call'[p].sweep = c.sweep
          /\ \A q \in Proc : q # p => call'[q] = call[q]
      BY <1>r, <3>1
    <3>3. ~raced => Complete' /\ Knows(p)'
      BY <1>k, <2>1, <2>2, <3>1, <3>2 DEF Knows, Complete, timelines
    <3> QED BY <1>i, <1>v, <2>1, <3>1, <3>2, <3>3, InsideStep
  <2>3. ASSUME NEW r \in c.evict,
               manifest' = [manifest EXCEPT ![r] = None],
               call' = [call EXCEPT ![p].evict = @ \ {r}]
        PROVE  StorageInv'
    <3>1. r \in Root
      BY <1>t DEF Call
    <3>2. /\ call'[p].pc = "evict" /\ call'[p].version = c.version
          /\ call'[p].evict = c.evict \ {r} /\ call'[p].sweep = c.sweep
          /\ \A q \in Proc : q # p => call'[q] = call[q]
      BY <1>t, <2>1, <2>3 DEF Call, StorageInv, TypeOK
    <3>3. /\ \A x \in Root : manifest'[x] <= versions
          /\ refs'[manifest'[r]] = {} /\ \A x \in Root : x # r => manifest'[x] = manifest[x]
          /\ ~raced => Complete'
      BY <2>1, <2>3, <3>1, ManifestRemoved DEF Complete
    <3>4. ~raced => Knows(p)'
      BY <1>k, <2>1, <3>1, <3>2, <3>3 DEF Knows, timelines
    <3> QED BY <1>i, <1>v, <2>1, <3>2, <3>3, <3>4, InsideStep
  <2> QED BY <1>7, <2>2, <2>3 DEF Evict
<1>8. CASE Sweep(p)
  <2>1. UNCHANGED <<manifest, timelines, service, raced>> /\ c.pc = "sweep"
    BY <1>8 DEF Sweep
  <2>2. CASE c.sweep = {}
    <3>1. Goto(p, "release") /\ UNCHANGED objects
      BY <1>8, <2>2 DEF Sweep
    <3>2. /\ call'[p].pc = "release" /\ call'[p].version = c.version
          /\ \A q \in Proc : q # p => call'[q] = call[q]
      BY <1>r, <3>1
    <3>3. (~raced => Complete') /\ Knows(p)'
      BY <1>k, <1>n, <2>1, <3>1, <3>2 DEF Complete, timelines
    <3> QED BY <1>i, <1>v, <2>1, <3>1, <3>2, <3>3, InsideStep
  <2>3. ASSUME NEW o \in c.sweep,
               objects' = objects \ {o},
               call' = [call EXCEPT ![p].sweep = @ \ {o}]
        PROVE  StorageInv'
    <3>1. /\ call'[p].pc = "sweep" /\ call'[p].version = c.version
          /\ call'[p].sweep = c.sweep \ {o}
          /\ \A q \in Proc : q # p => call'[q] = call[q]
      BY <1>t, <2>1, <2>3 DEF Call, StorageInv, TypeOK
    <3>2. ~raced => Knows(p)' /\ Complete'
      BY <1>k, <2>1, <2>3, <3>1 DEF Knows, Complete, timelines
    <3> QED BY <1>i, <1>v, <2>1, <3>1, <3>2, InsideStep
  <2> QED BY <1>8, <2>2, <2>3 DEF Sweep
<1>9. CASE CompactSkipped(p)
  <2>1. UNCHANGED <<manifest, objects, timelines, service, raced>> /\ Goto(p, "release")
    BY <1>9 DEF CompactSkipped, disk
  <2>2. call'[p].pc = "release" /\ call'[p].version = c.version
        /\ \A q \in Proc : q # p => call'[q] = call[q]
    BY <1>r, <2>1
  <2>3. (~raced => Complete') /\ Knows(p)'
    BY <1>k, <1>n, <2>1, <2>2 DEF Complete, timelines
  <2> QED BY <1>i, <1>v, <2>1, <2>2, <2>3, InsideStep
<1>10. CASE SweepSkipped(p)
  <2>1. UNCHANGED <<manifest, objects, timelines, service, raced>> /\ c.pc = "sweep"
    BY <1>10 DEF SweepSkipped, disk
  <2>2. PICK rest \in SUBSET c.sweep : call' = [call EXCEPT ![p].sweep = rest]
    BY <1>10 DEF SweepSkipped
  <2>3. /\ call'[p].pc = "sweep" /\ call'[p].version = c.version /\ call'[p].sweep = rest
        /\ \A q \in Proc : q # p => call'[q] = call[q]
    BY <1>t, <2>1, <2>2 DEF Call, StorageInv, TypeOK
  <2>4. ~raced => Knows(p)' /\ Complete'
    BY <1>k, <2>1, <2>2, <2>3 DEF Knows, Complete, timelines
  <2> QED BY <1>i, <1>v, <2>1, <2>3, <2>4, InsideStep
<1> QED BY <1>1, <1>2, <1>3, <1>4, <1>5, <1>6, <1>7, <1>8, <1>9, <1>10 DEF BodyStep

\* Lemma: every step keeps what is stored complete and what a process knows true.
LEMMA StorageStep ==
  ASSUME StorageInv, TypeOK', LockInv', [Next]_vars
  PROVE  StorageInv'
<1> USE DEF Relying
<1>t. TypeOK
  BY DEF StorageInv
<1>1. ASSUME NEW p \in Proc, NEW r \in Root, Activate(p, r) PROVE StorageInv'
  <2>1. /\ call'[p].pc = "open" /\ call'[p].version = None
        /\ \A q \in Proc : q # p => call'[q] = call[q]
    BY <1>t, <1>1 DEF Activate, Start, NoCall, TypeOK
  <2> QED BY <1>1, <2>1, SameFiles DEF Activate, disk, service
<1>2. ASSUME NEW p \in Proc, NEW r \in Root, Persist(p, r) PROVE StorageInv'
  <2>1. /\ call'[p].pc = "open" /\ call'[p].version = versions + 1
        /\ \A q \in Proc : q # p => call'[q] = call[q]
    BY <1>t, <1>2 DEF Persist, Start, NoCall, TypeOK
  <2>2. /\ versions' = versions + 1 /\ versions \in Nat
        /\ \A v \in Version \cup {None} : v <= versions => refs'[v] = refs[v]
    BY <1>t, <1>2 DEF Persist, TypeOK, Version, None
  <2>3. UNCHANGED <<disk, service, raced>>
    BY <1>2 DEF Persist
  <2>4. /\ \A root \in Root : manifest[root] \in Version \cup {None} /\ manifest[root] <= versions
        /\ \A q \in Proc : call[q].version \in Version \cup {None} /\ call[q].version <= versions
    BY <1>t DEF StorageInv, Snapshots, TypeOK, Call
  <2>5. Snapshots'
    <3>1. None <= versions
      BY <2>2 DEF None
    <3>2. \A v \in Version \cup {None} : v <= versions => v <= versions + 1
      BY <2>2 DEF Version, None
    <3> QED BY <2>1, <2>2, <2>3, <2>4, <3>1, <3>2 DEF StorageInv, Snapshots, disk
  <2>6. ASSUME ~raced' PROVE Complete'
    BY <2>2, <2>3, <2>4, <2>6 DEF StorageInv, Complete, disk
  <2>7. ASSUME ~raced', NEW q \in Proc PROVE Knows(q)'
    <3>1. CASE q = p
      BY <2>1, <3>1 DEF Knows
    <3>2. CASE q # p
      BY <2>1, <2>2, <2>3, <2>4, <2>7, <3>2 DEF StorageInv, Knows, disk, service
    <3> QED BY <3>1, <3>2
  <2> QED BY <2>5, <2>6, <2>7 DEF StorageInv
<1>3. ASSUME NEW p \in Proc, Crash(p) PROVE StorageInv'
  <2>1. /\ call'[p].pc = "idle" /\ call'[p].version = None
        /\ \A q \in Proc : q # p => call'[q] = call[q] /\ revision'[q] = revision[q]
    BY <1>t, <1>3 DEF Crash, NoCall, TypeOK
  <2> QED BY <1>3, <2>1, SameFiles DEF Crash, disk
<1>4. ASSUME LockAged \/ UNCHANGED vars PROVE StorageInv'
  BY <1>4, SameFiles DEF LockAged, vars, disk, service
<1> QED
  BY <1>1, <1>2, <1>3, <1>4, LockStorage, BodyStorage DEF Next, CallStep

\* Lemma: nothing is stored initially.
LEMMA StorageInit == Init => StorageInv
<1> SUFFICES ASSUME Init PROVE StorageInv
  OBVIOUS
<1>1. \A p \in Proc : call[p].pc = "idle" /\ call[p].version = None
  BY DEF Init, NoCall
<1> QED BY <1>1, LockStarts, Typing DEF Init, StorageInv, Snapshots, Complete, Knows, None

\* Lemma: the invariant is one of the specification.
LEMMA Storage == Spec => []StorageInv
<1>1. StorageInv /\ [Next]_vars => StorageInv'
  BY NextType, LockStepInv, StorageStep DEF StorageInv
<1> QED BY <1>1, StorageInit, PTL DEF Spec

\* Theorem: in every instance, each manifest on disk can be materialized, after
\* any number of crashes and failed file operations.
THEOREM ManifestsComplete == Spec => []ManifestComplete
<1>1. StorageInv => ManifestComplete
  BY DEF StorageInv, Complete, ManifestComplete, Referenced
<1> QED BY <1>1, Storage, PTL

\* Theorem: in every instance, a process publishes only over the timeline it
\* has loaded or saved last.
THEOREM NothingOverwritten == Spec => NoLostUpdate
<1>1. StorageInv
        => [ \A p \in Proc, r \in Root :
               /\ call[p].pc = "publish" /\ call'[p].pc = "compact" /\ call[p].root = r
               /\ ~raced
               => manifest[r] = revision[p][r] ]_vars
  <2> SUFFICES ASSUME StorageInv, NEW p \in Proc, call[p].pc = "publish", ~raced
               PROVE  manifest[call[p].root] = revision[p][call[p].root]
    OBVIOUS
  <2> QED
    BY DEF StorageInv, Knows
<1> QED BY <1>1, Storage, PTL DEF NoLostUpdate
=============================================================================
