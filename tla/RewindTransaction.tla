------------------------- MODULE RewindTransaction -------------------------
(***************************************************************************)
(* A rewind of code and conversation (modules/rewind/process.ts,           *)
(* application/transaction.ts, application/service.ts,                     *)
(* adapters/local-workspace.ts): the user picks a point, a plan is made    *)
(* from the journal and the files, the files are restored one by one, the  *)
(* conversation is forked and opened, the journal is committed, and a      *)
(* failure on the way is compensated.                                      *)
(*                                                                         *)
(* Meanwhile agents write files and their edits are ingested by the        *)
(* journal some time later, the user writes files, and file operations and *)
(* Host calls fail.  Only prompts wait: the dialog covers the composer.    *)
(***************************************************************************)
EXTENDS RewindJournal

CONSTANTS
  Regions,     \* of each file of the workspace; files are numbered in the order
               \* of their paths
  Linked,      \* files that are a link at times
  MaxSession,  \* bound: Sessions, the first one and those forked
  MaxPoint,    \* bound: Prompts
  MaxEdit,     \* bound: edits
  MaxFault     \* bound: operations that fail and restarts of the program

ASSUME TransactionAssumption ==
  /\ Regions # <<>> /\ \A f \in DOMAIN Regions : Regions[f] # {}
  /\ \A f \in DOMAIN Regions : Absent \notin [Regions[f] -> Nat]
  /\ Linked \subseteq DOMAIN Regions
  /\ MaxSession \in Nat \ {0}
  /\ MaxPoint \in Nat \ {0} /\ MaxEdit \in Nat \ {0}
  /\ MaxFault \in Nat

VARIABLES
  content,   \* of each file
  edits,     \* all edits: their file and the Prompt that caused them, or User (history)
  sessions,  \* Sessions created so far
  history,   \* of each Session: its Prompts
  working,   \* Sessions whose last Prompt was admitted in this process: their
             \* agent may be working on it
  active,    \* the Session the terminal shows
  order,     \* number of the edit observed last, in this process
  ingest,    \* of each Session: what the journal has still to record
  timeline,  \* of the workspace
  rw,        \* the rewind
  faults,
  raced      \* an edit between the comparison and the replacement of a file
             \* was overwritten, a commit covered edits recorded while its plan
             \* was being made, or a workspace could not be put back (history)

log == <<edits, order>>
facts == <<content, log>>
host == <<sessions, history, working>>
journal == <<ingest, timeline>>
vars == <<facts, host, active, journal, rw, faults, raced>>

File == DOMAIN Regions
Session == 1 .. MaxSession
Point == 1 .. MaxPoint
Edit == 1 .. MaxEdit
Content(f) == {Absent} \cup [Regions[f] -> 0 .. MaxEdit]
User == 0

Points == LET all == UNION {{history[s][i] : i \in 1 .. Len(history[s])} : s \in Session} IN
          Cardinality(all)
NextEdit == Len(edits) + 1

Busy == {"drafting", "check", "apply", "rollback", "fork", "open", "commit"}

NoRewind == [pc |-> "idle", session |-> 1, point |-> 0, action |-> "code-only",
             waits |-> 0, listed |-> {}, scope |-> "none", lineage |-> 0,
             mutations |-> <<>>, state |-> "safe", from |-> <<>>, to |-> <<>>,
             done |-> {}, undo |-> FALSE, target |-> 0, broken |-> FALSE,
             prepared |-> FALSE,    \* the plan is registered with the service
             touched |-> {},        \* files edited since the plan was prepared
             unplanned |-> FALSE]   \* the journal has edits the plan does not know

TypeOK ==
  /\ DOMAIN content = File /\ \A f \in File : content[f] \in Content(f)
  /\ Len(edits) \in 0 .. MaxEdit /\ order \in 0 .. Len(edits)
  /\ \A e \in 1 .. Len(edits) : edits[e] \in [by : Point \cup {User}, file : File]
  /\ \A s \in Session : \A i \in 1 .. Len(history[s]) : history[s][i] \in Point
  /\ working \subseteq Session
  /\ sessions \in Session /\ active \in 1 .. sessions
  /\ timeline = NoTimeline \/ timeline.cursor \in 0 .. Len(timeline.nodes)
  /\ rw.pc \in {"idle", "listing", "selecting", "planning", "preparing", "confirm"} \cup Busy
  /\ rw.done \subseteq DOMAIN rw.to /\ DOMAIN rw.from = DOMAIN rw.to
  /\ faults \in 0 .. MaxFault
  /\ rw.touched \subseteq File
  /\ raced \in BOOLEAN

Init ==
  /\ content = [f \in File |-> [r \in Regions[f] |-> 0]]
  /\ edits = <<>>
  /\ order = 0
  /\ sessions = 1
  /\ history = [s \in Session |-> <<>>]
  /\ working = {}
  /\ active = 1
  /\ ingest = [s \in Session |-> <<>>]
  /\ timeline = NoTimeline
  /\ rw = NoRewind
  /\ faults = 0
  /\ raced = FALSE

-----------------------------------------------------------------------------
(* The Sessions and the files                                              *)

Fault == faults < MaxFault /\ faults' = faults + 1

Admit(s) ==
  LET point == [id |-> Points + 1, session |-> s, turn |-> Len(history[s]) + 1] IN
  /\ Points < MaxPoint
  /\ history' = [history EXCEPT ![s] = Append(@, point.id)]
  /\ ingest' = [ingest EXCEPT ![s] = Append(@, [kind |-> "point", point |-> point])]

\* A Prompt of the Session on screen starts a turn, when the last one has ended.
Prompt ==
  /\ rw.pc = "idle"
  /\ Admit(active)
  /\ working' = working \cup {active}
  /\ UNCHANGED <<facts, sessions, active, timeline, rw, faults, raced>>

\* A turn ends and a Prompt queued behind it starts the next one.
NextQueued(s) ==
  /\ s \in working
  /\ Admit(s)
  /\ UNCHANGED <<facts, sessions, working, active, timeline, rw, faults, raced>>

\* The user shows another Session.
Resume(s) ==
  /\ rw.pc = "idle" /\ history[s] # <<>> /\ s # active
  /\ active' = s
  /\ UNCHANGED <<facts, host, journal, rw, faults, raced>>

\* The program ends when everything is recorded and saved, and starts again:
\* the timeline is loaded and edits are numbered from the beginning.
Restart ==
  /\ rw.pc = "idle" /\ \A s \in Session : ingest[s] = <<>>
  /\ Fault
  /\ order' = 0
  /\ working' = {}
  /\ timeline' = Reloaded(timeline)
  /\ UNCHANGED <<content, edits, sessions, history, active, ingest, rw, raced>>

Write(f, c, who) ==
  /\ NextEdit \in Edit
  /\ content' = [content EXCEPT ![f] = c]
  /\ edits' = Append(edits, [by |-> who, file |-> f])
  /\ rw' = IF rw.pc \in Busy \cup {"confirm"} THEN [rw EXCEPT !.touched = @ \cup {f}] ELSE rw

\* A region of a file, or a new file, is written.
Written(f, r) ==
  IF content[f] = Absent THEN [x \in Regions[f] |-> NextEdit]
  ELSE [content[f] EXCEPT ![r] = NextEdit]

UserWrites(f, r) ==
  /\ Write(f, Written(f, r), User)
  /\ UNCHANGED <<order, host, active, journal, faults, raced>>

UserRemoves(f) ==
  /\ content[f] # Absent
  /\ Write(f, Absent, User)
  /\ UNCHANGED <<order, host, active, journal, faults, raced>>

\* An agent's tool writes a file; of the tools that run at the same time any
\* may report its result first.  An edit of a link is not supported.
AgentWrites(s, f, r, i, supported) ==
  LET turn == Len(history[s])
      item == [kind |-> "mutation", turn |-> turn,
               mutation |-> [edit |-> NextEdit, order |-> order + 1, file |-> f,
                             before |-> content[f], after |-> Written(f, r),
                             reversible |-> supported]] IN
  /\ s \in working /\ (supported \/ f \in Linked)
  /\ i \in 1 .. Len(ingest[s]) + 1
  /\ \A j \in i .. Len(ingest[s]) : ingest[s][j].kind = "mutation" /\ ingest[s][j].turn = turn
  /\ Write(f, Written(f, r), history[s][turn])
  /\ order' = order + 1
  /\ ingest' = [ingest EXCEPT ![s] = InsertAt(@, i, item)]
  /\ UNCHANGED <<host, active, timeline, faults, raced>>

-----------------------------------------------------------------------------
(* The service: ingestion                                                  *)

\* points(): the latest checkpoints of a Session.
Checkpoints(s) ==
  LastPoints([i \in 1 .. Len(history[s]) |->
                [id |-> history[s][i], session |-> s, turn |-> i]])

Take(s) == ingest' = [ingest EXCEPT ![s] = Tail(@)]

\* Mutant: the end of queued work is not told to who waits for it.
IngestedSilently(s, edited, kept) ==
  rw' = [rw EXCEPT !.prepared = @ /\ kept,
                   !.unplanned = @ \/ (rw.pc = "preparing" /\ edited)]

\* settle() waits for the work queued when it is called; an edit that reaches
\* the journal while a plan is being made is not in that plan.
Ingested(s, edited, kept) ==
  rw' = [rw EXCEPT !.waits = IF s = rw.session /\ @ > 0 THEN @ - 1 ELSE @,
                   !.prepared = @ /\ kept,
                   !.unplanned = @ \/ (rw.pc = "preparing" /\ edited)]

\* ingestPoint()
IngestPoint(s) ==
  /\ ingest[s] # <<>> /\ Head(ingest[s]).kind = "point"
  /\ LET point == Head(ingest[s]).point IN
     timeline' = RecordPoint(timeline, point, point.id)
  /\ Take(s) /\ Ingested(s, FALSE, timeline' = timeline \/ rw.session # s)
  /\ UNCHANGED <<facts, host, active, faults, raced>>

\* A turn that the lineage does not own makes its Session claim it.
Attributed(s, item) ==
  LET points == Checkpoints(s)
      known == \E i \in 1 .. Len(points) : points[i].turn = item.turn
      claimed == IF OwnsTurn(timeline, s, item.turn) THEN timeline
                 ELSE Claim(timeline, s, points, MaxPoint + item.mutation.edit) IN
  IF ~OwnsTurn(timeline, s, item.turn) /\ ~known THEN timeline
  ELSE RecordMutation(claimed, s, item.turn, item.mutation)

\* Mutant: a plan outlives a change of the journal.
IngestMutationKeepsPlan(s) ==
  /\ ingest[s] # <<>> /\ Head(ingest[s]).kind = "mutation"
  /\ timeline' = Attributed(s, Head(ingest[s]))
  /\ Take(s) /\ Ingested(s, timeline' # timeline, TRUE)
  /\ UNCHANGED <<facts, host, active, faults, raced>>

\* ingestWorkspaceMutation()
IngestMutation(s) ==
  /\ ingest[s] # <<>> /\ Head(ingest[s]).kind = "mutation"
  /\ timeline' = Attributed(s, Head(ingest[s]))
  /\ Take(s) /\ Ingested(s, timeline' # timeline, timeline' = timeline)
  /\ UNCHANGED <<facts, host, active, faults, raced>>

-----------------------------------------------------------------------------
(* The dialog                                                              *)

Close == rw' = NoRewind

\* open(): the Session's points are listed when its ingestion has settled.
Open ==
  /\ rw.pc = "idle"
  /\ rw' = [NoRewind EXCEPT !.pc = "listing", !.session = active, !.waits = Len(ingest[active])]
  /\ UNCHANGED <<facts, host, active, journal, faults, raced>>

Listed ==
  LET points == Checkpoints(rw.session) IN
  /\ rw.pc = "listing" /\ rw.waits = 0
  /\ IF points = <<>> THEN Close
     ELSE rw' = [rw EXCEPT !.pc = "selecting",
                           !.listed = {points[i].id : i \in 1 .. Len(points)}]
  /\ UNCHANGED <<facts, host, active, journal, faults, raced>>

\* openPlan(): the older plans of the Session are dropped.
Choose(p) ==
  /\ rw.pc = "selecting" /\ p \in rw.listed
  /\ rw' = [rw EXCEPT !.pc = "planning", !.point = p]
  /\ UNCHANGED <<facts, host, active, ingest, timeline, faults, raced>>

\* plan(): what has to be undone, after the points have been read again ...
Select ==
  LET points == Checkpoints(rw.session)
      selection == SelectEffects(timeline, rw.session, rw.point) IN
  /\ rw.pc = "planning"
  /\ IF \E i \in 1 .. Len(points) : points[i].id = rw.point
     THEN rw' = [rw EXCEPT !.pc = "preparing", !.scope = selection.scope,
                           !.lineage = selection.lineage, !.mutations = selection.mutations]
     ELSE Close
  /\ UNCHANGED <<facts, host, active, journal, faults, raced>>

EditsOf(f) ==
  LET made[n \in 0 .. Len(rw.mutations)] ==
        IF n = 0 THEN <<>>
        ELSE IF rw.mutations[n].file = f THEN Append(made[n - 1], rw.mutations[n])
        ELSE made[n - 1] IN
  made[Len(rw.mutations)]

\* ... and, after another await, the content the files would have then.
Prepare ==
  LET files == {f \in File : EditsOf(f) # <<>>}
      to == [f \in files |-> PlanContent(content[f], EditsOf(f))] IN
  /\ rw.pc = "preparing"
  /\ rw' = [rw EXCEPT !.pc = "confirm", !.from = [f \in files |-> content[f]], !.to = to,
                      !.mutations = <<>>, !.touched = {}, !.prepared = TRUE,
                      !.state = IF \E f \in files : to[f] \in {Conflict, Unsupported}
                                THEN "blocked" ELSE "safe"]
  /\ UNCHANGED <<facts, host, active, ingest, timeline, faults, raced>>

Cancel ==
  /\ rw.pc \in {"selecting", "confirm"}
  /\ IF rw.pc = "selecting" THEN Close
     ELSE rw' = [NoRewind EXCEPT !.pc = "selecting", !.session = rw.session, !.listed = rw.listed]
  /\ UNCHANGED <<facts, host, active, journal, faults, raced>>

\* restore(): the plan must still be there.
Begin(action) ==
  IF action = "conversation-only" THEN rw' = [rw EXCEPT !.action = action, !.pc = "fork"]
  ELSE IF rw.prepared THEN rw' = [rw EXCEPT !.action = action, !.pc = "check"]
  ELSE Close

\* perform(): for a new conversation the Prompt's images are read first.
Confirm(action) ==
  /\ rw.pc = "confirm"
  /\ action = "conversation-only" \/ (rw.scope = "backward" /\ rw.state = "safe")
  /\ IF action = "code-only" THEN Begin(action)
     ELSE rw' = [rw EXCEPT !.action = action, !.pc = "drafting"]
  /\ UNCHANGED <<facts, host, active, journal, faults, raced>>

Drafted ==
  /\ rw.pc = "drafting"
  /\ \/ Begin(rw.action) /\ UNCHANGED faults
     \/ Fault /\ Close
  /\ UNCHANGED <<facts, host, active, journal, raced>>

-----------------------------------------------------------------------------
(* The transaction: code                                                   *)

\* applyStates(): all files are compared with the plan before one is written.
Check ==
  LET matches == \A f \in DOMAIN rw.from : content[f] = rw.from[f] IN
  /\ rw.pc = "check"
  /\ IF matches
     THEN rw' = [rw EXCEPT !.pc = "apply", !.done = {}] /\ UNCHANGED raced
     ELSE /\ Close
          /\ raced' = (raced \/ rw.undo)
  /\ UNCHANGED <<facts, host, active, journal, faults>>

Replace(f, expected, target) ==
  /\ content' = [content EXCEPT ![f] = target]
  /\ raced' = (raced \/ content[f] # expected)

\* The files are replaced in the order of the plan.
ApplyFile(f) ==
  /\ rw.pc = "apply"
  /\ f \in DOMAIN rw.to \ rw.done /\ \A g \in DOMAIN rw.to \ rw.done : f <= g
  /\ Replace(f, rw.from[f], rw.to[f])
  /\ rw' = [rw EXCEPT !.done = @ \cup {f}]
  /\ UNCHANGED <<log, host, active, journal, faults>>

ApplyFailed ==
  /\ rw.pc = "apply" /\ rw.done # DOMAIN rw.to
  /\ Fault
  /\ rw' = [rw EXCEPT !.pc = "rollback"]
  /\ UNCHANGED <<facts, host, active, journal, raced>>

Restored ==
  /\ rw.pc = "apply" /\ rw.done = DOMAIN rw.to
  /\ IF rw.undo THEN Close
     ELSE rw' = [rw EXCEPT !.pc = IF rw.action = "code-only" THEN "commit" ELSE "fork"]
  /\ UNCHANGED <<facts, host, active, journal, faults, raced>>

\* The files replaced so far are put back, the last one first ...
Rollback(f) ==
  /\ rw.pc = "rollback"
  /\ f \in rw.done /\ \A g \in rw.done : g <= f
  /\ Replace(f, rw.to[f], rw.from[f])
  /\ rw' = [rw EXCEPT !.done = @ \ {f}]
  /\ UNCHANGED <<log, host, active, journal, faults>>

\* ... and one that cannot be, on the disk that has failed already, is passed over.
RollbackFailed(f) ==
  /\ rw.pc = "rollback"
  /\ f \in rw.done /\ \A g \in rw.done : g <= f
  /\ rw' = [rw EXCEPT !.done = @ \ {f}, !.broken = TRUE]
  /\ UNCHANGED <<facts, host, active, journal, faults, raced>>

RolledBack ==
  LET broken == rw.undo \/ rw.broken IN
  /\ rw.pc = "rollback" /\ rw.done = {}
  /\ Close
  /\ raced' = (raced \/ broken)
  /\ UNCHANGED <<facts, host, active, journal, faults>>

-----------------------------------------------------------------------------
(* The transaction: conversation and commit                                *)

\* Mutant: a failure after the code phase is only reported.
CompensateNothing == Close

\* A later phase failed: the restored files are put back.
Compensate ==
  IF rw.action = "conversation-only" THEN Close
  ELSE rw' = [rw EXCEPT !.pc = "check", !.undo = TRUE, !.from = rw.to, !.to = rw.from]

\* Mutant: the new Session's name is lost.
ForkUnnamed ==
  LET before == CHOOSE i \in 1 .. Len(history[rw.session]) : history[rw.session][i] = rw.point IN
  /\ rw.pc = "fork" /\ sessions < MaxSession
  /\ sessions' = sessions + 1
  /\ history' = [history EXCEPT ![sessions + 1] = SubSeq(history[rw.session], 1, before - 1)]
  /\ rw' = [rw EXCEPT !.pc = "open"]
  /\ UNCHANGED <<facts, working, active, journal, faults, raced>>

\* HostRewindFork.fork: a Session with the Prompts before the point.
Fork ==
  LET before == CHOOSE i \in 1 .. Len(history[rw.session]) : history[rw.session][i] = rw.point IN
  /\ rw.pc = "fork" /\ sessions < MaxSession
  /\ sessions' = sessions + 1
  /\ history' = [history EXCEPT ![sessions + 1] = SubSeq(history[rw.session], 1, before - 1)]
  /\ rw' = [rw EXCEPT !.pc = "open", !.target = sessions + 1]
  /\ UNCHANGED <<facts, working, active, journal, faults, raced>>

OpenFork ==
  /\ rw.pc = "open"
  /\ active' = rw.target
  /\ rw' = [rw EXCEPT !.pc = "commit"]
  /\ UNCHANGED <<facts, host, journal, faults, raced>>

\* The Host refuses the fork or its opening; beyond MaxSession always.
ConversationFailed ==
  /\ rw.pc \in {"fork", "open"}
  /\ Fault \/ (rw.pc = "fork" /\ sessions = MaxSession /\ UNCHANGED faults)
  /\ Compensate
  /\ UNCHANGED <<facts, host, active, journal, raced>>

\* commit() of the service and of the journal.
Commit ==
  LET accepted == /\ rw.prepared
                  /\ rw.lineage # 0 => /\ Owned(timeline, rw.session)
                                       /\ timeline.lineage = rw.lineage
      code == rw.action # "conversation-only" IN
  /\ rw.pc = "commit"
  /\ IF accepted
     THEN /\ timeline' = IF rw.lineage = 0 THEN timeline
                         ELSE CommitTimeline(timeline, rw.point, rw.action, rw.target)
          /\ raced' = (raced \/ (code /\ rw.unplanned))
          /\ Close
     ELSE /\ Compensate
          /\ UNCHANGED <<timeline, raced>>
  /\ UNCHANGED <<facts, host, active, ingest, faults>>

-----------------------------------------------------------------------------

Ingest(s) == IngestPoint(s) \/ IngestMutation(s)

DialogStep ==
  \/ Open \/ Cancel
  \/ \E p \in Point : Choose(p)
  \/ \E a \in {"code-and-conversation", "conversation-only", "code-only"} : Confirm(a)

PlanStep == Listed \/ Select \/ Prepare

TransactionStep ==
  \/ Drafted \/ Check \/ Restored \/ RolledBack \/ Fork \/ OpenFork \/ Commit
  \/ ApplyFailed \/ ConversationFailed
  \/ \E f \in File : ApplyFile(f) \/ Rollback(f) \/ RollbackFailed(f)

Writes ==
  \E f \in File : \/ UserRemoves(f)
                  \/ \E r \in Regions[f] : \/ UserWrites(f, r)
                                       \/ \E s \in Session, i \in 1 .. MaxEdit + MaxPoint,
                                            supported \in BOOLEAN :
                                            AgentWrites(s, f, r, i, supported)

Next ==
  \/ Prompt \/ Writes \/ DialogStep \/ PlanStep \/ TransactionStep
  \/ Restart
  \/ \E s \in Session : NextQueued(s) \/ Resume(s) \/ Ingest(s)

Spec == Init /\ [][Next]_vars

-----------------------------------------------------------------------------
(* Properties                                                              *)

\* The cursor of the journal tells which edits the files contain: between
\* rewinds no file holds an edit of a node beyond the cursor, and none has lost
\* an edit of a node before it to a rewind.
CursorTruthful ==
  ~raced /\ rw.pc \notin Busy /\ timeline # NoTimeline =>
    /\ \A i \in 1 .. Len(Undone(timeline)) :
         \A k \in 1 .. Len(Undone(timeline)[i].mutations) :
           LET m == Undone(timeline)[i].mutations[k] IN
           content[m.file] = Absent \/ \A r \in Regions[m.file] : content[m.file][r] # m.edit
    /\ \A i \in 1 .. timeline.cursor :
         \A k \in 1 .. Len(timeline.nodes[i].mutations) :
           LET m == timeline.nodes[i].mutations[k] IN
           content[m.file] = Absent \/ \A r \in Changed(m) : content[m.file][r] >= m.edit

ByUser(e) == e = 0 \/ edits[e].by = User

\* What the rewind itself has put into the file is still there.
PutByRewind(f) ==
  \/ rw.pc = "rollback" /\ content[f] = rw.to[f]
  \/ rw.pc = "apply" /\ rw.undo /\ content[f] = rw.from[f]

\* A rewind, its rollback and its compensation never remove what the user has
\* written, except in a file written while it was being replaced.
UserEditsKept ==
  [][ rw.pc \in {"apply", "rollback"} /\ edits' = edits /\ ~raced' =>
        \A f \in File : \A r \in Regions[f] :
          content'[f] # content[f] /\ content[f] # Absent /\ ByUser(content[f][r])
            => PutByRewind(f) \/ (content'[f] # Absent /\ content'[f][r] = content[f][r]) ]_vars

\* The numbers given to the edits of a file tell which was made first.
Numbered(f) ==
  \A i, j \in 1 .. Len(EditsOf(f)) :
    EditsOf(f)[i].edit < EditsOf(f)[j].edit => EditsOf(f)[i].order < EditsOf(f)[j].order

\* Whoever wrote the file since the first of these edits is one of them.
OnlyBy(f, made) ==
  \A e \in made[1].edit .. Len(edits) :
    edits[e].file = f => \E i \in 1 .. Len(made) : made[i].edit = e

Restores(f) ==
  LET made == SortSeq(EditsOf(f), LAMBDA m, n : m.edit < n.edit) IN
  /\ ~raced /\ OnlyBy(f, made)
  /\ content[f] = made[Len(made)].after
  /\ \A i \in 1 .. Len(made) : made[i].reversible

Planned == rw.pc = "preparing" /\ rw'.pc = "confirm"

\* A file that only the recorded edits have written since is planned to become
\* what it was before them: neither a conflict nor anything else, in whatever
\* order the results of the tools were ingested.
PlanExact ==
  [][ Planned => \A f \in DOMAIN rw'.to :
        Restores(f) /\ Numbered(f)
          => rw'.to[f] = (SortSeq(EditsOf(f), LAMBDA m, n : m.edit < n.edit))[1].before ]_vars

\* The same whatever numbers the edits were given.
RestoredAfterRestart ==
  [][ Planned => \A f \in DOMAIN rw'.to : Restores(f) => rw'.to[f] # Conflict ]_vars

\* A rewind that ends before its commit, and does not report that it could not be
\* undone, leaves every planned file as it was, unless somebody wrote it meanwhile.
FailureRestores ==
  [][ rw.pc \in Busy \ {"commit"} /\ rw'.pc = "idle" /\ ~raced' =>
        \A f \in DOMAIN rw.from \ rw.touched :
          content'[f] = IF rw.undo THEN rw.to[f] ELSE rw.from[f] ]_vars

\* Whatever was claimed, branched off and undone, the timeline can be loaded as it
\* was saved (file-repository.ts:198, journal.ts:198), and an edit stands under the
\* Prompt that caused it.
LineageReloads ==
  /\ Reloaded(timeline) = timeline
  /\ timeline # NoTimeline =>
       \A i \in 1 .. Len(timeline.nodes) : \A k \in 1 .. Len(timeline.nodes[i].mutations) :
         edits[timeline.nodes[i].mutations[k].edit].by = timeline.nodes[i].id

\* A rewind waits for nobody but the user and the edits queued when it began:
\* whatever is ingested, fails or is written meanwhile, it has a next step.
RewindProceeds ==
  \/ rw.pc \in {"idle", "selecting", "confirm"}
  \/ ENABLED (PlanStep \/ TransactionStep)
  \/ rw.pc = "listing" /\ ingest[rw.session] # <<>>
=============================================================================
