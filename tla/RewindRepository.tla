-------------------------- MODULE RewindRepository --------------------------
(***************************************************************************)
(* The durable storage of Rewind histories that several terminal processes *)
(* share (modules/rewind/adapters/file-repository.ts), as the service of   *)
(* each process drives it (modules/rewind/application/service.ts).         *)
(*                                                                         *)
(* A repository call creates the lock file, reads and writes files, and    *)
(* removes the lock file; it has one step per file-system operation that   *)
(* another process could see.  A process may crash between any two steps   *)
(* and come back with another process id and an empty memory.              *)
(***************************************************************************)
EXTENDS Naturals, FiniteSets

CONSTANTS
  Proc,        \* terminal processes
  NoProc,      \* the owner of a lock file that does not exist
  Root,        \* workspaces
  Object,      \* file contents, each of one byte
  MaxVersion,  \* bound: timelines ever snapshot
  MaxBytes,    \* maxGlobalBytes
  MaxTimelineBytes,
  MaxCrash,    \* bound: crashes
  MaxFailure   \* bound: file operations that fail

ASSUME RepositoryAssumption ==
  /\ NoProc \notin Proc /\ Proc # {} /\ Root # {}
  /\ MaxVersion \in Nat \ {0}
  /\ MaxTimelineBytes \in Nat \ {0}
  /\ MaxBytes \in Nat /\ MaxTimelineBytes <= MaxBytes
  /\ MaxCrash \in Nat
  /\ MaxFailure \in Nat

VARIABLES
  lock,       \* the lock file, or NoLock
  manifest,   \* the manifest file of each workspace: a version, or None
  objects,    \* object files
  call,       \* the repository call of each process
  pid,        \* process id of each process: its number of restarts
  status,     \* what each service knows of the persistence of a workspace
  revision,   \* service.revisions
  versions,   \* versions so far; a later one has a later updatedAt
  refs,       \* objects a version refers to; None refers to nothing
  crashes, failures,
  raced       \* a process cleared a lock file other than the one it had inspected (history)

disk == <<lock, manifest, objects>>
service == <<status, revision>>
timelines == <<versions, refs>>
faults == <<crashes, failures>>
vars == <<disk, call, pid, service, timelines, faults, raced>>

None == 0
Version == 1 .. MaxVersion
NoLock == [proc |-> NoProc, pid |-> 0, written |-> FALSE, old |-> FALSE]

\* Whose a lock file is; nobody's, when there is none.
Owner(l) == [proc |-> l.proc, pid |-> l.pid]
Nobody == Owner(NoLock)

\* The next file operation of a call.
Locking == {"open", "stat", "read", "clear", "wait"}
Holding == {"created", "load", "check", "store", "publish", "erase",
            "compact", "evict", "sweep", "release", "unlock"}

Call ==
  [pc : {"idle"} \cup Locking \cup Holding,
   kind : {"load", "save", "remove"},
   root : Root,
   version : Version \cup {None},
   outcome : {"ok", "conflict", "error"},
   seen : [proc : Proc \cup {NoProc}, pid : 0 .. MaxCrash],  \* the stale lock inspected (history)
   evict : SUBSET Root,         \* manifests the compaction still removes
   sweep : SUBSET Object]       \* objects it still removes

TypeOK ==
  /\ lock \in [proc : Proc, pid : 0 .. MaxCrash, written : BOOLEAN, old : BOOLEAN]
              \cup {NoLock}
  /\ manifest \in [Root -> Version \cup {None}]
  /\ objects \subseteq Object
  /\ call \in [Proc -> Call]
  /\ pid \in [Proc -> 0 .. crashes]
  /\ status \in [Proc -> [Root -> {"fresh", "active", "conflict", "invalidated", "failed"}]]
  /\ revision \in [Proc -> [Root -> Version \cup {None}]]
  /\ versions \in 0 .. MaxVersion
  /\ refs \in [Version \cup {None} -> SUBSET Object]
  /\ crashes \in 0 .. MaxCrash /\ failures \in 0 .. MaxFailure
  /\ raced \in BOOLEAN

SomeRoot == CHOOSE r \in Root : TRUE
NoCall == [pc |-> "idle", kind |-> "load", root |-> SomeRoot, version |-> None,
           outcome |-> "ok", seen |-> Nobody, evict |-> {}, sweep |-> {}]

Init ==
  /\ lock = NoLock
  /\ manifest = [r \in Root |-> None]
  /\ objects = {}
  /\ call = [p \in Proc |-> NoCall]
  /\ pid = [p \in Proc |-> 0]
  /\ status = [p \in Proc |-> [r \in Root |-> "fresh"]]
  /\ revision = [p \in Proc |-> [r \in Root |-> None]]
  /\ versions = 0
  /\ refs = [v \in Version \cup {None} |-> {}]
  /\ crashes = 0 /\ failures = 0
  /\ raced = FALSE

-----------------------------------------------------------------------------
(* The service                                                             *)

Start(p, kind, r, v) ==
  call' = [call EXCEPT ![p] =
    [NoCall EXCEPT !.pc = "open", !.kind = kind, !.root = r, !.version = v]]

\* activate(): the first use of a workspace loads its timeline.
Activate(p, r) ==
  /\ call[p].pc = "idle"
  /\ status[p][r] = "fresh"
  /\ Start(p, "load", r, None)
  /\ UNCHANGED <<disk, pid, service, timelines, faults, raced>>

\* persist(): a new timeline is snapshot for the repository.  A service whose
\* persistence is disabled keeps it in memory only.
Persist(p, r) ==
  /\ call[p].pc = "idle"
  /\ status[p][r] = "active"
  /\ versions < MaxVersion
  /\ versions' = versions + 1
  /\ \E o \in SUBSET Object : refs' = [refs EXCEPT ![versions + 1] = o]
  /\ Start(p, "save", r, versions + 1)
  /\ UNCHANGED <<disk, pid, service, faults, raced>>

\* The continuation of activate(), persist() and removePersistedTimeline():
\* what the service then knows of the persistence of the workspace.
Known(kind, outcome) ==
  IF outcome = "error" THEN "failed"
  ELSE IF kind = "remove" THEN "invalidated"
  ELSE IF outcome = "conflict" THEN "conflict"
  ELSE "active"

Return(p, outcome) ==
  LET c == call[p] IN
  /\ status' = [status EXCEPT ![p][c.root] = Known(c.kind, outcome)]
  /\ revision' = IF outcome # "ok" THEN revision
                 ELSE [revision EXCEPT ![p][c.root] = c.version]
  /\ IF c.kind = "save" /\ outcome = "error"
     THEN Start(p, "remove", c.root, None)          \* invalidatePersistedTimeline
     ELSE call' = [call EXCEPT ![p] = NoCall]

-----------------------------------------------------------------------------
(* withLock()                                                              *)

Goto(p, pc) == call' = [call EXCEPT ![p].pc = pc]

Fail == failures < MaxFailure /\ failures' = failures + 1

Body(kind) == IF kind = "load" THEN "load" ELSE "check"

OpenLock(p) ==
  /\ call[p].pc = "open"
  /\ IF lock = NoLock
     THEN /\ lock' = [proc |-> p, pid |-> pid[p], written |-> FALSE, old |-> FALSE]
          /\ Goto(p, "created")
     ELSE /\ UNCHANGED lock
          /\ Goto(p, "stat")
  /\ UNCHANGED <<manifest, objects, pid, service, timelines, faults, raced>>

Mine(p) == lock # NoLock /\ lock.proc = p /\ lock.pid = pid[p]

\* Mutant: the content is written to whatever file has the name by then.
WriteLockByPath(p) ==
  /\ call[p].pc = "created"
  /\ lock' = [lock EXCEPT !.written = TRUE, !.old = FALSE]
  /\ Goto(p, Body(call[p].kind))
  /\ UNCHANGED <<manifest, objects, pid, service, timelines, faults, raced>>

\* The token and the process id; without effect if the file was removed.
WriteLock(p) ==
  /\ call[p].pc = "created"
  /\ lock' = IF Mine(p) THEN [lock EXCEPT !.written = TRUE, !.old = FALSE] ELSE lock
  /\ Goto(p, Body(call[p].kind))
  /\ UNCHANGED <<manifest, objects, pid, service, timelines, faults, raced>>

\* LOCK_STALE_MS have passed since the file was written.
LockAged ==
  /\ lock # NoLock /\ ~lock.old
  /\ lock' = [lock EXCEPT !.old = TRUE]
  /\ UNCHANGED <<manifest, objects, call, pid, service, timelines, faults, raced>>

\* removeStaleLock(): the age, the owner and the removal of the lock file.
StatLock(p) ==
  /\ call[p].pc = "stat"
  /\ Goto(p, IF lock # NoLock /\ lock.old THEN "read" ELSE "wait")
  /\ UNCHANGED <<disk, pid, service, timelines, faults, raced>>

\* Mutant: a process that may not be signalled (EPERM) counts as gone.
ProcessExistsIfSignalled(l) == FALSE

ProcessExists(l) == pid[l.proc] = l.pid

Inspected(p, pc, seen) ==
  call' = [call EXCEPT ![p] = [@ EXCEPT !.pc = pc, !.seen = seen]]

\* A file without content cannot be parsed, and is left alone.
ReadLock(p) ==
  /\ call[p].pc = "read"
  /\ IF lock.written /\ ~ProcessExists(lock)
     THEN Inspected(p, "clear", Owner(lock))
     ELSE Goto(p, "wait")
  /\ UNCHANGED <<disk, pid, service, timelines, faults, raced>>

\* The file is removed by its name, whichever file has it by now.
ClearLock(p) ==
  /\ call[p].pc = "clear"
  /\ raced' = (raced \/ Owner(lock) \notin {call[p].seen, Nobody})
  /\ lock' = NoLock
  /\ Inspected(p, "wait", Nobody)
  /\ UNCHANGED <<manifest, objects, pid, service, timelines, faults>>

Retry(p) ==
  /\ call[p].pc = "wait"
  /\ Goto(p, "open")
  /\ UNCHANGED <<disk, pid, service, timelines, faults, raced>>

\* Mutant: the deadline is noticed only when the lock has been released.
TimedOutBusy(p) ==
  /\ call[p].pc = "wait"
  /\ lock = NoLock
  /\ Return(p, "error")
  /\ UNCHANGED <<disk, pid, timelines, faults, raced>>

\* LOCK_WAIT_MS have passed since the call began.
TimedOut(p) ==
  /\ call[p].pc = "wait"
  /\ Return(p, "error")
  /\ UNCHANGED <<disk, pid, timelines, faults, raced>>

\* The finally: read the token, and remove the file if it is ours.
ReadToken(p) ==
  /\ call[p].pc = "release"
  /\ IF Mine(p) /\ lock.written
     THEN Goto(p, "unlock") /\ UNCHANGED service
     ELSE Return(p, call[p].outcome)
  /\ UNCHANGED <<disk, pid, timelines, faults, raced>>

Unlock(p) ==
  /\ call[p].pc = "unlock"
  /\ lock' = NoLock
  /\ Return(p, call[p].outcome)
  /\ UNCHANGED <<manifest, objects, pid, timelines, faults, raced>>

Abort(p) ==
  call' = [call EXCEPT ![p] = [@ EXCEPT !.pc = "release", !.outcome = "error"]]

\* A file operation on the lock fails.  An inspection is given up until the
\* next attempt; a release leaves the lock file behind, and the call returns
\* what it would have returned; a lock that cannot be created ends the call.
LockOperationFailed(p) ==
  /\ Fail
  /\ \/ call[p].pc \in {"stat", "read", "clear"} /\ Inspected(p, "wait", Nobody) /\ UNCHANGED service
     \/ call[p].pc \in {"release", "unlock"} /\ Return(p, call[p].outcome)
     \/ call[p].pc = "open" /\ Return(p, "error")
  /\ UNCHANGED <<disk, pid, timelines, crashes, raced>>

\* A file operation under the lock fails.
OperationFailed(p) ==
  /\ call[p].pc \in Holding \ {"created", "release", "unlock"}
  /\ Fail
  /\ Abort(p)
  /\ UNCHANGED <<disk, pid, service, timelines, crashes, raced>>

\* The lock file cannot be written and is removed, or that fails, too.
LockFailed(p) ==
  /\ call[p].pc = "created"
  /\ Fail
  /\ lock' \in {NoLock, lock}
  /\ Return(p, "error")
  /\ UNCHANGED <<manifest, objects, pid, timelines, crashes, raced>>

-----------------------------------------------------------------------------
(* load(), save() and remove()                                             *)

\* A manifest whose objects are missing is quarantined.
Load(p) ==
  LET v == manifest[call[p].root] IN
  /\ call[p].pc = "load"
  /\ IF ~(refs[v] \subseteq objects)
     THEN /\ manifest' = [manifest EXCEPT ![call[p].root] = None]
          /\ Goto(p, "release")
     ELSE /\ UNCHANGED manifest
          /\ call' = [call EXCEPT ![p] = [@ EXCEPT !.pc = "release", !.version = v]]
  /\ UNCHANGED <<lock, objects, pid, service, timelines, faults, raced>>

\* An object that cannot be read at the moment counts as invalid, too.
QuarantinedInError(p) ==
  /\ call[p].pc = "load"
  /\ manifest[call[p].root] # None
  /\ Fail
  /\ manifest' = [manifest EXCEPT ![call[p].root] = None]
  /\ Goto(p, "release")
  /\ UNCHANGED <<lock, objects, pid, service, timelines, crashes, raced>>

\* Mutant: the revision on disk is not compared.
CheckNothing(p) ==
  /\ call[p].pc = "check"
  /\ Goto(p, IF call[p].kind = "save" THEN "store" ELSE "erase")
  /\ UNCHANGED <<disk, pid, service, timelines, faults, raced>>

\* currentRevision() against the expected one.
Check(p) ==
  LET c == call[p] IN
  /\ c.pc = "check"
  /\ IF manifest[c.root] # revision[p][c.root]
     THEN call' = [call EXCEPT ![p] = [@ EXCEPT !.pc = "release", !.outcome = "conflict"]]
     ELSE Goto(p, IF c.kind = "save" THEN "store"
                  ELSE IF revision[p][c.root] = None THEN "release"
                  ELSE "erase")
  /\ UNCHANGED <<disk, pid, service, timelines, faults, raced>>

\* store(): the missing objects, one after the other; then the size check.
Store(p) ==
  LET missing == refs[call[p].version] \ objects IN
  /\ call[p].pc = "store"
  /\ IF missing = {}
     THEN /\ IF Cardinality(refs[call[p].version]) <= MaxTimelineBytes
             THEN Goto(p, "publish")
             ELSE Abort(p)
          /\ UNCHANGED objects
     ELSE /\ \E o \in missing : objects' = objects \cup {o}
          /\ UNCHANGED call
  /\ UNCHANGED <<lock, manifest, pid, service, timelines, faults, raced>>

Publish(p) ==
  /\ call[p].pc = "publish"
  /\ manifest' = [manifest EXCEPT ![call[p].root] = call[p].version]
  /\ Goto(p, "compact")
  /\ UNCHANGED <<lock, objects, pid, service, timelines, faults, raced>>

Erase(p) ==
  /\ call[p].pc = "erase"
  /\ manifest' = [manifest EXCEPT ![call[p].root] = None]
  /\ Goto(p, "compact")
  /\ UNCHANGED <<lock, objects, pid, service, timelines, faults, raced>>

-----------------------------------------------------------------------------
(* compactLocked()                                                         *)

Referenced(roots) == UNION {refs[manifest[r]] : r \in roots}

\* Timelines are evicted from the oldest one until the budget is met.
Evicted ==
  LET kept(v) == {r \in Root : manifest[r] >= v}
      fits(v) == Cardinality(Referenced(kept(v))) <= MaxBytes IN
  {r \in Root : manifest[r] # None /\ ~fits(manifest[r])}

\* Mutant: an object of an evicted timeline is removed with it.
CompactShared(p) ==
  /\ call[p].pc = "compact"
  /\ call' = [call EXCEPT ![p] =
       [@ EXCEPT !.pc = "evict", !.evict = Evicted,
                 !.sweep = (objects \ Referenced(Root)) \cup Referenced(Evicted)]]
  /\ UNCHANGED <<disk, pid, service, timelines, faults, raced>>

Compact(p) ==
  /\ call[p].pc = "compact"
  /\ call' = [call EXCEPT ![p] =
       [@ EXCEPT !.pc = "evict", !.evict = Evicted,
                 !.sweep = objects \ Referenced(Root \ Evicted)]]
  /\ UNCHANGED <<disk, pid, service, timelines, faults, raced>>

\* A manifest that cannot be read at the moment: nothing is compacted, and the
\* call goes on as if it were.
CompactSkipped(p) ==
  /\ call[p].pc = "compact"
  /\ \E r \in Root : manifest[r] # None
  /\ Fail
  /\ Goto(p, "release")
  /\ UNCHANGED <<disk, pid, service, timelines, crashes, raced>>

Evict(p) ==
  /\ call[p].pc = "evict"
  /\ IF call[p].evict = {}
     THEN Goto(p, "sweep") /\ UNCHANGED manifest
     ELSE /\ \E r \in call[p].evict :
               /\ \A x \in call[p].evict : manifest[r] <= manifest[x]
               /\ manifest' = [manifest EXCEPT ![r] = None]
               /\ call' = [call EXCEPT ![p].evict = @ \ {r}]
  /\ UNCHANGED <<lock, objects, pid, service, timelines, faults, raced>>

Sweep(p) ==
  /\ call[p].pc = "sweep"
  /\ IF call[p].sweep = {}
     THEN Goto(p, "release") /\ UNCHANGED objects
     ELSE /\ \E o \in call[p].sweep :
               /\ objects' = objects \ {o}
               /\ call' = [call EXCEPT ![p].sweep = @ \ {o}]
  /\ UNCHANGED <<lock, manifest, pid, service, timelines, faults, raced>>

\* Directories that cannot be listed are left as they are.
SweepSkipped(p) ==
  /\ call[p].pc = "sweep"
  /\ Fail
  /\ \E rest \in SUBSET call[p].sweep : call' = [call EXCEPT ![p].sweep = rest]
  /\ UNCHANGED <<disk, pid, service, timelines, crashes, raced>>

-----------------------------------------------------------------------------

\* The memory is lost; the process that takes its place has another id.
Crash(p) ==
  /\ crashes < MaxCrash
  /\ crashes' = crashes + 1
  /\ pid' = [pid EXCEPT ![p] = @ + 1]
  /\ call' = [call EXCEPT ![p] = NoCall]
  /\ status' = [status EXCEPT ![p] = [r \in Root |-> "fresh"]]
  /\ revision' = [revision EXCEPT ![p] = [r \in Root |-> None]]
  /\ UNCHANGED <<disk, timelines, failures, raced>>

LockStep(p) ==
  \/ OpenLock(p) \/ WriteLock(p) \/ StatLock(p) \/ ReadLock(p) \/ ClearLock(p)
  \/ Retry(p) \/ TimedOut(p) \/ ReadToken(p) \/ Unlock(p)

BodyStep(p) ==
  \/ Load(p) \/ Check(p) \/ Store(p) \/ Publish(p) \/ Erase(p)
  \/ Compact(p) \/ Evict(p) \/ Sweep(p)

CallStep(p) == LockStep(p) \/ BodyStep(p)

Next ==
  \/ \E p \in Proc, r \in Root : Activate(p, r) \/ Persist(p, r)
  \/ \E p \in Proc : \/ CallStep(p) \/ Crash(p)
                     \/ LockOperationFailed(p) \/ LockFailed(p) \/ OperationFailed(p)
                     \/ QuarantinedInError(p) \/ CompactSkipped(p) \/ SweepSkipped(p)
  \/ LockAged

Spec == Init /\ [][Next]_vars

\* File operations end, and a waiting call reaches its deadline.
Fairness ==
  \A p \in Proc : WF_vars(CallStep(p)) /\ SF_vars(TimedOut(p))

FairSpec == Spec /\ Fairness

-----------------------------------------------------------------------------
(* Properties                                                              *)

\* Two processes are inside the repository at the same time only after a crash,
\* and after a process that had inspected the lock of a crashed one cleared
\* another lock file, which had taken its place.  No age of a lock, no failing
\* file operation and no release takes the lock of a live process away.
MutualExclusion ==
  \/ \A p, q \in Proc : call[p].pc \in Holding /\ call[q].pc \in Holding => p = q
  \/ raced /\ crashes > 0

\* A manifest on disk can always be materialized: a crash or a failure between
\* the writes of a save or the removals of a compaction loses no object of it.
ManifestComplete ==
  ~raced => Referenced(Root) \subseteq objects

\* A process replaces only the timeline it has loaded or saved last, never a
\* newer one of another process.
NoLostUpdate ==
  [][ \A p \in Proc, r \in Root :
        /\ call[p].pc = "publish" /\ call'[p].pc = "compact" /\ call[p].root = r
        /\ ~raced
        => manifest[r] = revision[p][r] ]_vars

\* Every repository call ends, also when the lock is never released.
CallsEnd ==
  \A p \in Proc : call[p].pc # "idle" ~> call[p].pc = "idle"
=============================================================================
