--------------------------- MODULE RewindJournal ---------------------------
(***************************************************************************)
(* The timeline of one workspace (modules/rewind/domain/journal.ts) and    *)
(* the reversal of recorded edits (modules/rewind/domain/planner.ts), as   *)
(* operators: each returns the timeline, or the content, that the method   *)
(* leaves.                                                                 *)
(*                                                                         *)
(* A file's content gives every region of the file, further apart than the *)
(* context of a patch, the number of the edit that wrote it last.          *)
(***************************************************************************)
EXTENDS Naturals, FiniteSets, SequencesExt, TLC

CONSTANTS
  Absent,      \* the content of a file that does not exist
  Conflict,    \* the plan of a file that cannot be restored
  Unsupported,
  NoTimeline,
  History,     \* limits.history
  MaxBytes     \* limits.maxSessionBytes, an edit being one byte

ASSUME JournalAssumption ==
  /\ History \in Nat \ {0}
  /\ MaxBytes \in Nat \ {0}

LastPoints(s) == SubSeq(s, IF Len(s) > History THEN Len(s) - History + 1 ELSE 1, Len(s))

NewNode(point) == [id |-> point.id, session |-> point.session, turn |-> point.turn,
                   mutations |-> <<>>]

NewTimeline(lineage, owner, points) ==
  LET kept == LastPoints(points) IN
  [lineage |-> lineage, owner |-> owner, cursor |-> Len(kept),
   nodes |-> [i \in 1 .. Len(kept) |-> NewNode(kept[i])]]

Owned(tl, s) == tl # NoTimeline /\ tl.owner = s

Applied(tl) == SubSeq(tl.nodes, 1, tl.cursor)

Undone(tl) == SubSeq(tl.nodes, tl.cursor + 1, Len(tl.nodes))

\* The retained future ends where a new point branches off.
AppendPoint(tl, point) ==
  LET nodes == LastPoints(Append(Applied(tl), NewNode(point))) IN
  [tl EXCEPT !.nodes = nodes, !.cursor = Len(nodes)]

\* A turn after the point's own has been applied in its session.
Outdated(tl, point) ==
  \E i \in 1 .. tl.cursor :
    /\ tl.nodes[i].session = point.session
    /\ \A j \in i + 1 .. tl.cursor : tl.nodes[j].session # point.session
    /\ tl.nodes[i].turn > point.turn

\* Mutant: a Prompt that is known is recorded again.
RecordPointAgain(tl, point, lineage) ==
  IF tl = NoTimeline THEN NewTimeline(lineage, point.session, <<point>>)
  ELSE IF tl.owner # point.session \/ Outdated(tl, point) THEN tl
  ELSE AppendPoint(tl, point)

RecordPoint(tl, point, lineage) ==
  IF tl = NoTimeline THEN NewTimeline(lineage, point.session, <<point>>)
  ELSE IF \/ tl.owner # point.session
          \/ \E i \in 1 .. Len(tl.nodes) : tl.nodes[i].id = point.id
          \/ Outdated(tl, point)
  THEN tl
  ELSE AppendPoint(tl, point)

\* The checkpoints of a Session become the active lineage.
Claim(tl, s, points, lineage) ==
  LET recorded[n \in 0 .. Len(points)] ==
        IF n = 0 THEN tl ELSE RecordPoint(recorded[n - 1], points[n], lineage) IN
  IF Owned(tl, s) THEN recorded[Len(points)] ELSE NewTimeline(lineage, s, points)

\* The applied nodes of a turn of the owner.
PointsFor(tl, s, turn) ==
  IF ~Owned(tl, s) THEN {}
  ELSE {i \in 1 .. tl.cursor : tl.nodes[i].session = s /\ tl.nodes[i].turn = turn}

OwnsTurn(tl, s, turn) == PointsFor(tl, s, turn) # {}

\* Edits that count against the byte limit.
TimelineBytes(tl) ==
  LET bytes[n \in 0 .. Len(tl.nodes)] ==
        IF n = 0 THEN 0
        ELSE bytes[n - 1] + Len(SelectSeq(tl.nodes[n].mutations, LAMBDA m : m.reversible)) IN
  bytes[Len(tl.nodes)]

RecordMutation(tl, s, turn, m) ==
  LET found == PointsFor(tl, s, turn)
      at == CHOOSE i \in found : \A j \in found : i <= j
      kept == [m EXCEPT !.reversible = @ /\ TimelineBytes(tl) < MaxBytes] IN
  IF found = {} THEN tl ELSE [tl EXCEPT !.nodes[at].mutations = Append(@, kept)]

\* The edits of a sequence of nodes, in the order they were observed.
MutationsAsRecorded(nodes) ==
  LET all[n \in 0 .. Len(nodes)] ==
        IF n = 0 THEN <<>> ELSE all[n - 1] \o nodes[n].mutations IN
  all[Len(nodes)]

\* A later observation goes behind the earlier ones and those of its own number.
InOrder(mutations, m) ==
  InsertAt(mutations, 1 + Cardinality({i \in DOMAIN mutations : mutations[i].order <= m.order}), m)

\* Their results may have arrived in another order.
Mutations(nodes) ==
  LET recorded == MutationsAsRecorded(nodes)
      sorted[n \in 0 .. Len(recorded)] ==
        IF n = 0 THEN <<>> ELSE InOrder(sorted[n - 1], recorded[n]) IN
  sorted[Len(recorded)]

IndexOf(tl, id) == {i \in 1 .. Len(tl.nodes) : tl.nodes[i].id = id}

\* What a restore to a point has to undo.
SelectEffects(tl, s, id) ==
  IF ~Owned(tl, s) THEN [scope |-> "none", lineage |-> 0, mutations |-> <<>>]
  ELSE LET selected == {i \in IndexOf(tl, id) : i <= tl.cursor}
           undo == IF selected = {} THEN <<>>
                   ELSE Mutations(SubSeq(tl.nodes, CHOOSE i \in selected : TRUE, tl.cursor)) IN
       [scope |-> IF undo # <<>> THEN "backward"
                  ELSE IF IndexOf(tl, id) # selected THEN "forward-unavailable"
                  ELSE "none",
        lineage |-> tl.lineage, mutations |-> undo]

\* The two dimensions of a rewind: who owns the lineage, and what is applied.
CommitTimeline(tl, id, action, target) ==
  LET selected == {i \in IndexOf(tl, id) : i <= tl.cursor} IN
  [tl EXCEPT
     !.owner = IF action = "code-only" THEN @ ELSE target,
     !.cursor = IF action = "conversation-only" \/ selected = {} THEN @
                ELSE (CHOOSE i \in selected : TRUE) - 1]

-----------------------------------------------------------------------------
(* The saved timeline                                                      *)

SameTurn(m, n) == m.session = n.session /\ m.turn = n.turn

\* parseManifest: a cursor among the nodes, and no Prompt twice.
ManifestValid(tl) ==
  /\ tl.cursor \in 0 .. Len(tl.nodes)
  /\ \A i, j \in 1 .. Len(tl.nodes) : i # j => tl.nodes[i].id # tl.nodes[j].id

\* hydrate: nor a turn of a Session.
Loadable(tl) ==
  /\ ManifestValid(tl)
  /\ \A i \in 1 .. Len(tl.nodes) : tl.nodes[i].turn >= 1
  /\ \A i, j \in 1 .. Len(tl.nodes) : i # j => ~SameTurn(tl.nodes[i], tl.nodes[j])

\* The latest nodes of a timeline, with the cursor where it was among them.
Bounded(tl) ==
  LET nodes == LastPoints(tl.nodes)
      dropped == Len(tl.nodes) - Len(nodes) IN
  [tl EXCEPT !.nodes = nodes, !.cursor = IF @ > dropped THEN @ - dropped ELSE 0]

\* What a new process begins with: any other timeline is put aside.
Reloaded(tl) ==
  IF tl = NoTimeline THEN NoTimeline
  ELSE IF Loadable(tl) THEN Bounded(tl) ELSE NoTimeline

-----------------------------------------------------------------------------
(* Reversal of edits                                                       *)

Changed(m) == {r \in DOMAIN m.after : m.before = Absent \/ m.before[r] # m.after[r]}

\* Mutant: a later change in the way of the reversed edit is overwritten.
ReverseMutationBlindly(current, m) ==
  IF current = m.after THEN m.before
  ELSE IF current = Absent \/ m.before = Absent THEN Conflict
  ELSE [r \in DOMAIN current |-> IF r \in Changed(m) THEN m.before[r] ELSE current[r]]

\* Later changes elsewhere in the file are kept.
ReverseMutation(current, m) ==
  IF current = m.after THEN m.before
  ELSE IF current = Absent \/ m.before = Absent THEN Conflict
  ELSE IF \E r \in Changed(m) : current[r] # m.after[r] THEN Conflict
  ELSE [r \in DOMAIN current |-> IF r \in Changed(m) THEN m.before[r] ELSE current[r]]

\* planWorkspaceContent(): the edits of one file are reversed, the last first.
PlanContent(current, mutations) ==
  LET n == Len(mutations)
      reversed[k \in 0 .. n] ==
        IF k = 0 THEN current
        ELSE IF reversed[k - 1] = Conflict THEN Conflict
        ELSE ReverseMutation(reversed[k - 1], mutations[n - k + 1]) IN
  IF \E k \in 1 .. n : ~mutations[k].reversible THEN Unsupported ELSE reversed[n]
=============================================================================
