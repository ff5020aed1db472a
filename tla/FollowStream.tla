---------------------------- MODULE FollowStream ----------------------------
(***************************************************************************)
(* The read model of one Session epoch (runtime/session/runtime.ts) and the*)
(* three sources that feed it (runtime/session/manager.ts):                *)
(*                                                                         *)
(*   - the follow stream: a snapshot of the newest history, then every     *)
(*     event once, reconnected after a failure;                            *)
(*   - the control stream: a baseline of the projections, then patches;    *)
(*   - the pages of earlier history the user asks for.                     *)
(*                                                                         *)
(* The Host's log is external.  An event starts a message, which pages are *)
(* aligned to, or changes a projection.                                    *)
(***************************************************************************)
EXTENDS Integers, Sequences, FiniteSetsExt

CONSTANTS
  Key,          \* projections
  Message,      \* an event that starts a message
  MaxSeq,       \* bound: events of the Session
  PageMessages, \* historyMessages, the messages of a page
  MaxFaults     \* bound: streams that break and frames that are lost

ASSUME FollowAssumption ==
  /\ Message \notin Key
  /\ MaxSeq \in Nat \ {0}
  /\ PageMessages \in Nat \ {0}
  /\ MaxFaults \in Nat

VARIABLES
  log,       \* the Host's events, by sequence number
  events,    \* snapshot.events: the sequence numbers shown
  cursor,    \* followCursor, or Undefined
  hasMore,   \* snapshot.historyHasMore
  base,      \* first event of the latest snapshot (history variable)
  value,     \* snapshot.projections: the event that set the value, or Absent
  asOf,      \* projectionSeqs, or Undefined
  follow,    \* the follow loop and its stream
  control,   \* the control loop and its stream
  page,      \* the pending request of historyPages
  faults,    \* faults so far
  owned      \* workspace.owns(runtime)

history == <<events, cursor, hasMore, base>>
projections == <<value, asOf>>
vars == <<log, history, projections, follow, control, page, faults, owned>>

Undefined == -1
Absent == 0
Seq1 == 1 .. MaxSeq
Cursor == 0 .. MaxSeq

TypeOK ==
  /\ log \in Seq(Key \cup {Message}) /\ Len(log) <= MaxSeq
  /\ events \in Seq(Seq1)
  /\ cursor \in Cursor \cup {Undefined}
  /\ hasMore \in BOOLEAN
  /\ base \in 1 .. MaxSeq + 1
  /\ value \in [Key -> Cursor]
  /\ asOf \in [Key -> Cursor \cup {Undefined}]
  \* at: the last event the stream has sent
  /\ follow \in [pc : {"connecting", "snapshot", "open", "backoff", "ended"}, at : Cursor]
  /\ control \in [pc : {"backoff", "baseline", "open"}, at : Cursor]
  /\ page \in [pc : {"none", "pending"}, before : Cursor]
  /\ faults \in 0 .. MaxFaults
  /\ owned \in BOOLEAN

Init ==
  /\ log = <<>>
  /\ events = <<>> /\ cursor = Undefined /\ hasMore = FALSE /\ base = 1
  /\ value = [k \in Key |-> Absent]
  /\ asOf = [k \in Key |-> Undefined]
  /\ follow = [pc |-> "connecting", at |-> 0]
  /\ control = [pc |-> "backoff", at |-> 0]
  /\ page = [pc |-> "none", before |-> 0]
  /\ faults = 0
  /\ owned = TRUE

-----------------------------------------------------------------------------
(* The Host                                                                *)

Interval(first, last) == [i \in 1 .. last - first + 1 |-> first + i - 1]

\* Mutant: the window starts before the first event.
PageStartZero(last) ==
  LET messages == {i \in 1 .. last : log[i] = Message} IN
  IF Cardinality(messages) < PageMessages THEN 0
  ELSE CHOOSE i \in messages :
         Cardinality({j \in messages : j >= i}) = PageMessages

\* The page of the newest PageMessages messages up to an event starts here.
PageStart(last) ==
  LET messages == {i \in 1 .. last : log[i] = Message} IN
  IF Cardinality(messages) < PageMessages THEN 1
  ELSE CHOOSE i \in messages :
         Cardinality({j \in messages : j >= i}) = PageMessages

\* The event that gave a projection the value it has after the n-th event.
ValueAt(k, n) == Max({i \in 1 .. n : log[i] = k} \cup {Absent})

Logged(e) ==
  /\ Len(log) < MaxSeq
  /\ log' = Append(log, e)
  /\ UNCHANGED <<history, projections, follow, control, page, faults, owned>>

-----------------------------------------------------------------------------
(* The projections                                                         *)

\* Mutant: an older baseline overwrites a newer patch.
MergeAlways(n) ==
  /\ value' = [k \in Key |-> ValueAt(k, n)]
  /\ asOf' = [k \in Key |-> n]

\* mergeProjectionBaseline(): a key the baseline knows, or that is shown.
MergeBaseline(n) ==
  LET merged(k) == asOf[k] <= n /\ (value[k] # Absent \/ ValueAt(k, n) # Absent) IN
  /\ value' = [k \in Key |-> IF merged(k) THEN ValueAt(k, n) ELSE value[k]]
  /\ asOf' = [k \in Key |-> IF merged(k) THEN n ELSE asOf[k]]

\* applyProjection(): the patch that the n-th event makes.
ApplyPatch(n) ==
  IF log[n] \in Key /\ asOf[log[n]] < n
  THEN /\ value' = [value EXCEPT ![log[n]] = n]
       /\ asOf' = [asOf EXCEPT ![log[n]] = n]
  ELSE UNCHANGED projections

-----------------------------------------------------------------------------
(* runFollowLoop()                                                         *)

Fault == faults < MaxFaults /\ faults' = faults + 1

\* The Host cuts the snapshot; events may follow before it arrives.
Connected ==
  /\ owned
  /\ follow.pc \in {"connecting", "backoff"}
  /\ follow' = [pc |-> "snapshot", at |-> Len(log)]
  /\ UNCHANGED <<log, history, projections, control, page, faults, owned>>

\* Mutant: the history of the first snapshot stays marked complete.
HydrateKeepsHasMore(n) ==
  /\ events' = Interval(PageStart(n), n)
  /\ cursor' = n
  /\ hasMore' = (IF cursor = Undefined THEN PageStart(n) > 1 ELSE hasMore)
  /\ base' = PageStart(n)
  /\ MergeBaseline(n)

\* hydrate(): the snapshot replaces the history shown.
Hydrate(n) ==
  /\ events' = Interval(PageStart(n), n)
  /\ cursor' = n
  /\ hasMore' = (PageStart(n) > 1)
  /\ base' = PageStart(n)
  /\ MergeBaseline(n)

SnapshotFrame ==
  /\ owned
  /\ follow.pc = "snapshot"
  /\ Hydrate(follow.at)
  /\ follow' = [follow EXCEPT !.pc = "open"]
  /\ UNCHANGED <<log, control, page, faults, owned>>

\* Mutant: a frame after a lost one is appended.
AppendOverGap(n) ==
  /\ IF n <= cursor
     THEN UNCHANGED history
     ELSE /\ events' = Append(events, n)
          /\ cursor' = n
          /\ UNCHANGED <<hasMore, base>>
  /\ follow' = [follow EXCEPT !.at = n]

\* ... and a gap is dropped without a reconnect.
AppendIgnoresGap(n) ==
  /\ IF n # cursor + 1
     THEN UNCHANGED history
     ELSE /\ events' = Append(events, n)
          /\ cursor' = n
          /\ UNCHANGED <<hasMore, base>>
  /\ follow' = [follow EXCEPT !.at = n]

\* appendEvent(): a repeated event is dropped, a gap breaks the stream.
AppendEvent(n) ==
  CASE n <= cursor ->
         /\ follow' = [follow EXCEPT !.at = n]
         /\ UNCHANGED history
    [] n = cursor + 1 ->
         /\ events' = Append(events, n)
         /\ cursor' = n
         /\ follow' = [follow EXCEPT !.at = n]
         /\ UNCHANGED <<hasMore, base>>
    [] OTHER ->
         /\ follow' = [pc |-> "backoff", at |-> n]
         /\ UNCHANGED history

\* The next frame, or the last one again.
EventFrame(n) ==
  /\ owned
  /\ follow.pc = "open"
  /\ n \in {follow.at, follow.at + 1} \cap 1 .. Len(log)
  /\ AppendEvent(n)
  /\ UNCHANGED <<log, projections, control, page, faults, owned>>

\* A frame before the newest one is lost (no reader can notice the loss of the
\* last frame a Host will ever send).
FrameLost ==
  /\ follow.pc = "open"
  /\ follow.at + 1 < Len(log)
  /\ Fault
  /\ follow' = [follow EXCEPT !.at = @ + 1]
  /\ UNCHANGED <<log, history, projections, control, page, owned>>

\* Before the first snapshot a failure ends the loop.
FollowBroken ==
  /\ owned
  /\ follow.pc \in {"connecting", "snapshot", "open"}
  /\ Fault
  /\ follow' = [follow EXCEPT !.pc = IF cursor = Undefined THEN "ended" ELSE "backoff"]
  /\ UNCHANGED <<log, history, projections, control, page, owned>>

FollowEnded ==
  /\ ~owned
  /\ follow.pc # "ended"
  /\ follow' = [follow EXCEPT !.pc = "ended"]
  /\ UNCHANGED <<log, history, projections, control, page, faults, owned>>

-----------------------------------------------------------------------------
(* runControlLoop()                                                        *)

ControlConnected ==
  /\ control.pc = "backoff"
  /\ control' = [pc |-> "baseline", at |-> Len(log)]
  /\ UNCHANGED <<log, history, projections, follow, page, faults, owned>>

ControlBaseline ==
  /\ control.pc = "baseline"
  /\ IF owned THEN MergeBaseline(control.at) ELSE UNCHANGED projections
  /\ control' = [control EXCEPT !.pc = "open"]
  /\ UNCHANGED <<log, history, follow, page, faults, owned>>

ControlPatch ==
  /\ control.pc = "open"
  /\ control.at < Len(log)
  /\ IF owned THEN ApplyPatch(control.at + 1) ELSE UNCHANGED projections
  /\ control' = [control EXCEPT !.at = @ + 1]
  /\ UNCHANGED <<log, history, follow, page, faults, owned>>

ControlBroken ==
  /\ control.pc \in {"baseline", "open"}
  /\ Fault
  /\ control' = [control EXCEPT !.pc = "backoff"]
  /\ UNCHANGED <<log, history, projections, follow, page, owned>>

-----------------------------------------------------------------------------
(* loadEarlierHistory()                                                    *)

\* A second request while one is pending shares it.
PageRequested ==
  /\ owned
  /\ page.pc = "none"
  /\ hasMore /\ events # <<>> /\ cursor # Undefined
  /\ page' = [pc |-> "pending", before |-> Head(events)]
  /\ UNCHANGED <<log, history, projections, follow, control, faults, owned>>

\* The loaded events that are not shown yet.
Unseen(loaded) ==
  LET unseen[n \in 0 .. Len(loaded)] ==
        IF n = 0 THEN <<>>
        ELSE IF \E i \in DOMAIN events : events[i] = loaded[n] THEN unseen[n - 1]
        ELSE Append(unseen[n - 1], loaded[n]) IN
  unseen[Len(loaded)]

\* prependHistory()
PrependHistory(first, before) ==
  /\ events' = Unseen(Interval(first, before - 1)) \o events
  /\ hasMore' = (first > 1)
  /\ UNCHANGED <<cursor, base>>

PageReturned ==
  /\ page.pc = "pending"
  /\ IF owned THEN PrependHistory(PageStart(page.before - 1), page.before)
              ELSE UNCHANGED history
  /\ page' = [page EXCEPT !.pc = "none"]
  /\ UNCHANGED <<log, projections, follow, control, faults, owned>>

PageFailed ==
  /\ page.pc = "pending"
  /\ page' = [page EXCEPT !.pc = "none"]
  /\ UNCHANGED <<log, history, projections, follow, control, faults, owned>>

-----------------------------------------------------------------------------

\* Another binding is committed, or the application ends.
Replaced ==
  /\ owned
  /\ owned' = FALSE
  /\ UNCHANGED <<log, history, projections, follow, control, page, faults>>

FollowStep ==
  \/ Connected \/ SnapshotFrame
  \/ \E n \in Seq1 : EventFrame(n)
  \/ FrameLost \/ FollowBroken \/ FollowEnded

ControlStep == ControlConnected \/ ControlBaseline \/ ControlPatch \/ ControlBroken

PageStep == PageRequested \/ PageReturned \/ PageFailed

Next ==
  \/ \E e \in Key \cup {Message} : Logged(e)
  \/ FollowStep
  \/ ControlStep
  \/ PageStep
  \/ Replaced

Spec == Init /\ [][Next]_vars

\* Streams reconnect, deliver what they have not sent yet, and patches arrive.
Fairness ==
  /\ WF_vars(Connected) /\ WF_vars(SnapshotFrame)
  /\ WF_vars(\E n \in Seq1 : n = follow.at + 1 /\ EventFrame(n))
  /\ WF_vars(ControlConnected) /\ WF_vars(ControlBaseline) /\ WF_vars(ControlPatch)

FairSpec == Spec /\ Fairness

-----------------------------------------------------------------------------
(* Properties                                                              *)

\* From the start of the latest snapshot to the cursor the history shows every
\* event once and in log order: a lost frame never goes unnoticed, a repeated
\* one is never shown twice, and a late page cannot disturb the live tail.
TailContiguous ==
  cursor # Undefined =>
    LET earlier == Len(events) - (cursor - base + 1) IN
    /\ earlier >= 0
    /\ \A i \in DOMAIN events :
         IF i <= earlier THEN events[i] < base ELSE events[i] = base + (i - earlier) - 1

\* History that claims to be complete begins with the first event, after any
\* number of reconnects and pages.
CompleteHistory ==
  ~hasMore /\ events # <<>> => Head(events) = 1

\* The history shown is the Host's, from its true beginning or from a gap on.
HistoryExact == TailContiguous /\ CompleteHistory

\* A projection shows the value the Host had at the sequence number recorded
\* for it, whichever of snapshot, baseline and patch came last, and never goes
\* back to an older one, although the two streams are not ordered with each
\* other.
ProjectionsOrdered ==
  [][ \A k \in Key : /\ value'[k] = ValueAt(k, asOf[k])'
                     /\ asOf'[k] >= asOf[k] /\ value'[k] >= value[k] ]_vars

\* When faults stop, the epoch that is still followed shows the whole tail of
\* the log and the latest value of every projection.
CatchesUp ==
  <>[](\/ follow.pc = "ended"
       \/ ~owned
       \/ /\ cursor = Len(log)
          /\ \A k \in Key : value[k] = ValueAt(k, Len(log)))

-----------------------------------------------------------------------------
(* What the architecture notes say and the code does not do                *)

\* "Reconnect and history replacement must rebuild the same semantic state":
\* the events shown are an uninterrupted part of the log.
HistoryContiguous ==
  \A i \in 1 .. Len(events) - 1 : events[i + 1] = events[i] + 1
=============================================================================
