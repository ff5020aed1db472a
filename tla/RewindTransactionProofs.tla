----------------------- MODULE RewindTransactionProofs -----------------------
(***************************************************************************)
(* What a rewind does to the files and to the saved timeline               *)
(* (RewindTransaction), for any workspace, any number of Sessions, Prompts *)
(* and edits, and any number of failures.                                  *)
(*                                                                         *)
(* First what the operators of the journal and the planner return, for any *)
(* timeline, any edits and any content.  Those that go through a sequence  *)
(* are recursive functions.  Each lemma about one shows that the function  *)
(* exists (Computed), that it is the one the definition chooses, and that  *)
(* it never leaves the set it starts in (Kept); both rest on the least     *)
(* element of a set of numbers.                                            *)
(***************************************************************************)
EXTENDS RewindTransaction, SequenceTheorems, WellFoundedInduction, FiniteSetTheorems, TLAPS

-----------------------------------------------------------------------------
(* Recursive functions                                                     *)

\* Lemma: a set of natural numbers that is not empty has a least element.
LEMMA LeastElement ==
  ASSUME NEW T, T \subseteq Nat, T # {}
  PROVE  \E x \in T : \A y \in T : x <= y
<1> DEFINE R == {ss \in Nat \X Nat : ss[1] < ss[2]}
<1>1. IsWellFoundedOn(R, Nat)
  BY NatLessThanWellFounded, Zenon DEF OpToRel
<1> HIDE DEF R
<1>2. PICK x \in T : \A y \in T : ~ (<<y, x>> \in R)
  BY <1>1, WFMin
<1>3. \A y \in T : ~ (y < x)
  BY <1>2 DEF R
<1> QED  BY <1>3

\* Lemma: numbers that are reached one by one from zero are reached all.
LEMMA Reached ==
  ASSUME NEW N \in Nat, NEW T, 0 \in T, \A n \in 1 .. N : n - 1 \in T => n \in T
  PROVE  \A n \in 0 .. N : n \in T
<1> DEFINE missing == {n \in 0 .. N : n \notin T}
<1> SUFFICES ASSUME missing # {}  PROVE FALSE
  OBVIOUS
<1>1. PICK x \in missing : \A y \in missing : x <= y
  <2>1. missing \subseteq Nat
    OBVIOUS
  <2> HIDE DEF missing
  <2> QED  BY <2>1, LeastElement
<1>2. x \in 1 .. N /\ x - 1 \in 0 .. N
  BY <1>1
<1>3. x - 1 \notin missing
  BY <1>1, <1>2
<1> QED  BY <1>1, <1>2, <1>3

\* The values that n applications of G give, from x0 on.
Computes(h, N, x0, G) == \A n \in 0 .. N : h[n] = IF n = 0 THEN x0 ELSE G[n][h[n - 1]]

\* Lemma: what is computed step by step, in a set that no step leaves, exists.
LEMMA Computed ==
  ASSUME NEW N \in Nat, NEW X, NEW x0 \in X, NEW G \in [1 .. N -> [X -> X]]
  PROVE  \E h \in [0 .. N -> X] : Computes(h, N, x0, G)
<1> DEFINE Upto(k, h) == /\ h \in [0 .. k -> X]
                         /\ \A n \in 0 .. k : h[n] = IF n = 0 THEN x0 ELSE G[n][h[n - 1]]
           T == {k \in 0 .. N : \E h : Upto(k, h)}
<1>1. 0 \in T
  <2> DEFINE g == [n \in 0 .. 0 |-> x0]
  <2>1. Upto(0, g)
    OBVIOUS
  <2> HIDE DEF Upto, g
  <2>2. \E h : Upto(0, h)
    BY <2>1
  <2> QED  BY <2>2
<1>2. ASSUME NEW k \in 1 .. N, k - 1 \in T  PROVE k \in T
  <2>1. PICK h : Upto(k - 1, h)
    BY <1>2
  <2> DEFINE next == G[k][h[k - 1]]
             g == [n \in 0 .. k |-> IF n = k THEN next ELSE h[n]]
  <2>2. next \in X
    <3>1. k - 1 \in 0 .. k - 1
      OBVIOUS
    <3> QED  BY <2>1, <3>1
  <2>3. g \in [0 .. k -> X]
    <3> HIDE DEF next
    <3> QED  BY <2>1, <2>2
  <2>4. ASSUME NEW n \in 0 .. k
        PROVE  g[n] = IF n = 0 THEN x0 ELSE G[n][g[n - 1]]
    <3>1. CASE n = k
      <4>1. k - 1 \in 0 .. k /\ k - 1 # k /\ k # 0
        OBVIOUS
      <4>2. g[k - 1] = h[k - 1] /\ g[k] = next
        BY <4>1
      <4> QED  BY <3>1, <4>1, <4>2
    <3>2. CASE n # k
      <4>1. n \in 0 .. k - 1 /\ g[n] = h[n]
        BY <3>2
      <4>2. n # 0 => n - 1 \in 0 .. k /\ n - 1 # k
        BY <4>1
      <4>3. n # 0 => g[n - 1] = h[n - 1]
        BY <4>2
      <4> QED  BY <2>1, <4>1, <4>3
    <3> QED  BY <3>1, <3>2
  <2>5. Upto(k, g)
    <3> HIDE DEF g
    <3> QED  BY <2>3, <2>4
  <2>6. \E f : Upto(k, f)
    <3> HIDE DEF Upto, g
    <3> QED  BY <2>5
  <2> QED  BY <2>6
<1>3. \A n \in 0 .. N : n \in T
  <2> HIDE DEF T
  <2> QED  BY <1>1, <1>2, Reached
<1>4. N \in T
  BY <1>3
<1> QED  BY <1>4 DEF Computes

\* Lemma: a set that no step leaves holds the last value.
LEMMA Kept ==
  ASSUME NEW N \in Nat, NEW X, NEW f, f[0] \in X, \A n \in 1 .. N : f[n - 1] \in X => f[n] \in X
  PROVE  f[N] \in X
<1> DEFINE T == {n \in 0 .. N : f[n] \in X}
<1>1. 0 \in T /\ \A n \in 1 .. N : n - 1 \in T => n \in T
  OBVIOUS
<1>2. \A n \in 0 .. N : n \in T
  <2> HIDE DEF T
  <2> QED  BY <1>1, Reached
<1> QED  BY <1>2

\* Lemma: an element is put into a sequence.
LEMMA InsertType ==
  ASSUME NEW S, NEW s \in Seq(S), NEW i \in 1 .. Len(s) + 1, NEW e \in S
  PROVE  InsertAt(s, i, e) \in Seq(S)
<1>1. SubSeq(s, 1, i - 1) \in Seq(S)
  BY SubSeqProperties
<1>2. SubSeq(s, i, Len(s)) \in Seq(S)
  BY SubSeqProperties
<1> QED  BY <1>1, <1>2 DEF InsertAt

-----------------------------------------------------------------------------
(* The journal, for any set of edits                                       *)

\* Lemma: the edits of the nodes are edits.
LEMMA RecordedType ==
  ASSUME NEW E, NEW nodes, Len(nodes) \in Nat,
         \A n \in 1 .. Len(nodes) : nodes[n].mutations \in Seq(E)
  PROVE  MutationsAsRecorded(nodes) \in Seq(E)
<1> DEFINE N == Len(nodes)
           step(h) == [n \in 0 .. N |-> IF n = 0 THEN <<>> ELSE h[n - 1] \o nodes[n].mutations]
           all == CHOOSE h : h = step(h)
           G == [n \in 1 .. N |-> [x \in Seq(E) |-> x \o nodes[n].mutations]]
<1>1. MutationsAsRecorded(nodes) = all[N]
  BY DEF MutationsAsRecorded
<1>2. ASSUME NEW x \in Seq(E), NEW n \in 1 .. N
      PROVE  x \o nodes[n].mutations \in Seq(E) /\ G[n][x] = x \o nodes[n].mutations
  OBVIOUS
<1>3. G \in [1 .. N -> [Seq(E) -> Seq(E)]]
  BY <1>2
<1>4. <<>> \in Seq(E) /\ N \in Nat
  OBVIOUS
<1> HIDE DEF N
<1>5. PICK h \in [0 .. N -> Seq(E)] : Computes(h, N, <<>>, G)
  <2> HIDE DEF G
  <2> QED  BY <1>3, <1>4, Computed
<1> HIDE DEF G
<1>6. h = step(h)
  <2>1. ASSUME NEW n \in 1 .. N  PROVE h[n] = h[n - 1] \o nodes[n].mutations
    <3>1. n \in 0 .. N /\ n # 0 /\ n - 1 \in 0 .. N
      BY <1>4
    <3>2. h[n - 1] \in Seq(E)
      BY <1>5, <3>1
    <3> QED  BY <1>2, <1>5, <3>1, <3>2 DEF Computes
  <2>2. ASSUME NEW n \in 0 .. N  PROVE h[n] = step(h)[n]
    <3>1. CASE n = 0
      BY <1>5, <3>1 DEF Computes
    <3>2. CASE n # 0
      <4>1. n \in 1 .. N
        BY <1>4, <3>2
      <4> QED  BY <2>1, <3>2, <4>1
    <3> QED  BY <3>1, <3>2
  <2> QED  BY <1>5, <2>2
<1>7. all = step(all)
  <2> HIDE DEF step
  <2> QED  BY <1>6
<1> HIDE DEF all
<1>8. all[0] = <<>>
  BY <1>4, <1>7
<1>9. ASSUME NEW n \in 1 .. N, all[n - 1] \in Seq(E)  PROVE all[n] \in Seq(E)
  <2>1. n \in 0 .. N /\ n # 0
    BY <1>4
  <2>2. all[n] = all[n - 1] \o nodes[n].mutations
    BY <1>7, <2>1
  <2> QED  BY <1>2, <1>9, <2>2
<1> HIDE DEF step
<1>10. all[N] \in Seq(E)
  <2>1. all[0] \in Seq(E)
    BY <1>4, <1>8
  <2>2. \A n \in 1 .. N : all[n - 1] \in Seq(E) => all[n] \in Seq(E)
    BY <1>9
  <2> QED  BY <1>4, <2>1, <2>2, Kept
<1> QED  BY <1>1, <1>10

\* Lemma: an edit is put among the others.
LEMMA InOrderType ==
  ASSUME NEW E, NEW ms \in Seq(E), NEW m \in E
  PROVE  InOrder(ms, m) \in Seq(E)
<1> DEFINE earlier == {i \in DOMAIN ms : ms[i].order <= m.order}
           at == 1 + Cardinality(earlier)
<1>1. Cardinality(earlier) \in 0 .. Len(ms)
  <2>1. DOMAIN ms = 1 .. Len(ms) /\ Len(ms) \in Nat
    OBVIOUS
  <2>2. IsFiniteSet(1 .. Len(ms)) /\ Cardinality(1 .. Len(ms)) = Len(ms)
    BY <2>1, FS_Interval
  <2>3. earlier \in SUBSET (1 .. Len(ms))
    BY <2>1
  <2> HIDE DEF earlier
  <2>4. IsFiniteSet(earlier) /\ Cardinality(earlier) <= Len(ms)
    BY <2>2, <2>3, FS_Subset
  <2>5. Cardinality(earlier) \in Nat
    BY <2>4, FS_CardinalityType
  <2> QED  BY <2>1, <2>4, <2>5
<1>2. InOrder(ms, m) = InsertAt(ms, at, m)
  BY DEF InOrder
<1>3. at \in 1 .. Len(ms) + 1
  <2> HIDE DEF earlier
  <2> QED  BY <1>1
<1> HIDE DEF at
<1> QED  BY <1>2, <1>3, InsertType

\* Lemma: the sorted edits of the nodes are edits.
LEMMA MutationsType ==
  ASSUME NEW E, NEW nodes, Len(nodes) \in Nat,
         \A n \in 1 .. Len(nodes) : nodes[n].mutations \in Seq(E)
  PROVE  Mutations(nodes) \in Seq(E)
<1> DEFINE ms == MutationsAsRecorded(nodes)
           N == Len(ms)
           step(h) == [n \in 0 .. N |-> IF n = 0 THEN <<>> ELSE InOrder(h[n - 1], ms[n])]
           all == CHOOSE h : h = step(h)
           G == [n \in 1 .. N |-> [x \in Seq(E) |-> InOrder(x, ms[n])]]
<1>0. ms \in Seq(E)
  BY RecordedType
<1>1. Mutations(nodes) = all[N]
  BY DEF Mutations
<1> HIDE DEF ms
<1>2. ASSUME NEW x \in Seq(E), NEW n \in 1 .. N
      PROVE  InOrder(x, ms[n]) \in Seq(E) /\ G[n][x] = InOrder(x, ms[n])
  <2>1. ms[n] \in E
    BY <1>0
  <2> QED  BY <2>1, InOrderType
<1>3. G \in [1 .. N -> [Seq(E) -> Seq(E)]]
  BY <1>2
<1>4. <<>> \in Seq(E) /\ N \in Nat
  BY <1>0
<1> HIDE DEF N
<1>5. PICK h \in [0 .. N -> Seq(E)] : Computes(h, N, <<>>, G)
  <2> HIDE DEF G
  <2> QED  BY <1>3, <1>4, Computed
<1> HIDE DEF G
<1>6. h = step(h)
  <2>1. ASSUME NEW n \in 1 .. N  PROVE h[n] = InOrder(h[n - 1], ms[n])
    <3>1. n \in 0 .. N /\ n # 0 /\ n - 1 \in 0 .. N
      BY <1>4
    <3>2. h[n - 1] \in Seq(E)
      BY <1>5, <3>1
    <3> QED  BY <1>2, <1>5, <3>1, <3>2 DEF Computes
  <2>2. ASSUME NEW n \in 0 .. N  PROVE h[n] = step(h)[n]
    <3>1. CASE n = 0
      BY <1>5, <3>1 DEF Computes
    <3>2. CASE n # 0
      <4>1. n \in 1 .. N
        BY <1>4, <3>2
      <4> QED  BY <2>1, <3>2, <4>1
    <3> QED  BY <3>1, <3>2
  <2> QED  BY <1>5, <2>2
<1>7. all = step(all)
  <2> HIDE DEF step
  <2> QED  BY <1>6
<1> HIDE DEF all
<1>8. all[0] = <<>>
  BY <1>4, <1>7
<1>9. ASSUME NEW n \in 1 .. N, all[n - 1] \in Seq(E)  PROVE all[n] \in Seq(E)
  <2>1. n \in 0 .. N /\ n # 0
    BY <1>4
  <2>2. all[n] = InOrder(all[n - 1], ms[n])
    BY <1>7, <2>1
  <2> QED  BY <1>2, <1>9, <2>2
<1> HIDE DEF step
<1>10. all[N] \in Seq(E)
  <2>1. all[0] \in Seq(E)
    BY <1>4, <1>8
  <2>2. \A n \in 1 .. N : all[n - 1] \in Seq(E) => all[n] \in Seq(E)
    BY <1>9
  <2> QED  BY <1>4, <2>1, <2>2, Kept
<1> QED  BY <1>1, <1>10

Checkpoint == [id : Nat, session : Nat, turn : Nat]

Node(E) == [id : Nat, session : Nat, turn : Nat, mutations : Seq(E)]

\* What a timeline is: its cursor is a place among its nodes.
Recording(E) ==
  {tl \in [lineage : Nat, owner : Nat, cursor : Nat, nodes : Seq(Node(E))] :
     tl.cursor <= Len(tl.nodes)}

Timeline(E) == {NoTimeline} \cup Recording(E)

\* Lemma: the latest points are points.
LEMMA LastPointsType ==
  ASSUME NEW S, NEW s \in Seq(S)
  PROVE  LastPoints(s) \in Seq(S)
<1> DEFINE first == IF Len(s) > History THEN Len(s) - History + 1 ELSE 1
<1>1. first \in Nat /\ first >= 1
  BY JournalAssumption
<1>2. LastPoints(s) = SubSeq(s, first, Len(s))
  BY DEF LastPoints
<1>3. \A i \in first .. Len(s) : s[i] \in S
  BY <1>1
<1> HIDE DEF first
<1> QED  BY <1>1, <1>2, <1>3, SubSeqProperties

\* Lemma: which of the points are the latest.
LEMMA LastPointsLength ==
  ASSUME NEW S, NEW s \in Seq(S)
  PROVE  \E first \in 1 .. Len(s) + 1 :
           /\ Len(LastPoints(s)) = Len(s) - first + 1
           /\ \A i \in 1 .. Len(LastPoints(s)) : LastPoints(s)[i] = s[first + i - 1]
           /\ Len(LastPoints(s)) <= History /\ Len(LastPoints(s)) <= Len(s)
           /\ Len(s) <= History => LastPoints(s) = s
<1> DEFINE first == IF Len(s) > History THEN Len(s) - History + 1 ELSE 1
<1>1. /\ first \in 1 .. Len(s) + 1 /\ Len(s) - first + 1 <= History /\ Len(s) \in Nat
      /\ Len(s) <= History => first = 1
  BY JournalAssumption
<1>2. LastPoints(s) = SubSeq(s, first, Len(s))
  BY DEF LastPoints
<1> HIDE DEF first
<1>3. /\ Len(LastPoints(s)) = Len(s) - first + 1
      /\ \A i \in 1 .. Len(s) - first + 1 : LastPoints(s)[i] = s[first + i - 1]
  BY <1>1, <1>2
<1>4. Len(s) <= History => LastPoints(s) = s
  BY <1>1, <1>2
<1> QED  BY <1>1, <1>3, <1>4

\* Lemma: a timeline begins.
LEMMA NewTimelineType ==
  ASSUME NEW E, NEW lineage \in Nat, NEW owner \in Nat, NEW points \in Seq(Checkpoint)
  PROVE  NewTimeline(lineage, owner, points) \in Recording(E)
<1> DEFINE kept == LastPoints(points)
           nodes == [i \in 1 .. Len(kept) |-> NewNode(kept[i])]
<1>1. kept \in Seq(Checkpoint)
  BY LastPointsType
<1>2. NewTimeline(lineage, owner, points) =
        [lineage |-> lineage, owner |-> owner, cursor |-> Len(kept), nodes |-> nodes]
  BY DEF NewTimeline
<1> HIDE DEF kept
<1>3. \A i \in 1 .. Len(kept) : NewNode(kept[i]) \in Node(E)
  <2> SUFFICES ASSUME NEW i \in 1 .. Len(kept)  PROVE NewNode(kept[i]) \in Node(E)
    OBVIOUS
  <2>1. kept[i] \in Checkpoint /\ <<>> \in Seq(E)
    BY <1>1
  <2> QED  BY <2>1 DEF NewNode, Node, Checkpoint
<1>4. nodes \in Seq(Node(E)) /\ Len(nodes) = Len(kept)
  <2>1. Len(kept) \in Nat
    BY <1>1
  <2>2. nodes \in [1 .. Len(kept) -> Node(E)]
    BY <1>3
  <2> QED  BY <2>1, <2>2
<1> HIDE DEF nodes
<1>5. Len(kept) \in Nat
  BY <1>1
<1> QED  BY <1>2, <1>4, <1>5 DEF Recording

\* Lemma: a node is added, and what was undone is dropped.
LEMMA AppendPointType ==
  ASSUME NEW E, NEW tl \in Recording(E), NEW point \in Checkpoint
  PROVE  AppendPoint(tl, point) \in Recording(E)
<1> DEFINE longer == Append(Applied(tl), NewNode(point))
           nodes == LastPoints(longer)
<1>1. /\ tl \in [lineage : Nat, owner : Nat, cursor : Nat, nodes : Seq(Node(E))]
      /\ tl.cursor \in Nat /\ tl.cursor <= Len(tl.nodes) /\ tl.nodes \in Seq(Node(E))
  BY DEF Recording
<1>2. Applied(tl) \in Seq(Node(E))
  <2>1. \A i \in 1 .. tl.cursor : tl.nodes[i] \in Node(E)
    BY <1>1
  <2> QED  BY <1>1, <2>1, SubSeqProperties DEF Applied
<1>3. NewNode(point) \in Node(E)
  <2>1. <<>> \in Seq(E)
    OBVIOUS
  <2> QED  BY <2>1 DEF NewNode, Node, Checkpoint
<1>4. nodes \in Seq(Node(E))
  <2>1. longer \in Seq(Node(E))
    BY <1>2, <1>3
  <2> HIDE DEF longer
  <2> QED  BY <2>1, LastPointsType
<1>5. AppendPoint(tl, point) = [tl EXCEPT !.nodes = nodes, !.cursor = Len(nodes)]
  BY DEF AppendPoint
<1> HIDE DEF nodes
<1>6. Len(nodes) \in Nat
  BY <1>4
<1>7. AppendPoint(tl, point) = [lineage |-> tl.lineage, owner |-> tl.owner,
                                cursor |-> Len(nodes), nodes |-> nodes]
  BY <1>1, <1>5
<1>8. tl.lineage \in Nat /\ tl.owner \in Nat
  BY <1>1
<1> QED  BY <1>4, <1>6, <1>7, <1>8 DEF Recording

\* Lemma: a point is recorded once.
LEMMA RecordPointType ==
  ASSUME NEW E, NEW tl \in Timeline(E), NEW point \in Checkpoint, NEW lineage \in Nat
  PROVE  RecordPoint(tl, point, lineage) \in Timeline(E)
<1>1. CASE tl = NoTimeline
  <2>1. point.session \in Nat /\ <<point>> \in Seq(Checkpoint)
    BY DEF Checkpoint
  <2> QED  BY <1>1, <2>1, NewTimelineType DEF RecordPoint, Timeline
<1>2. CASE tl # NoTimeline
  <2>1. tl \in Recording(E)
    BY <1>2 DEF Timeline
  <2> QED  BY <1>2, <2>1, AppendPointType DEF RecordPoint, Timeline
<1> QED  BY <1>1, <1>2

\* Lemma: what every recorded point keeps, a claim keeps.
LEMMA ClaimKeeps ==
  ASSUME NEW X, NEW tl \in X, NEW s, NEW points, Len(points) \in Nat, NEW lineage,
         \A x \in X : \A n \in 1 .. Len(points) : RecordPoint(x, points[n], lineage) \in X,
         NewTimeline(lineage, s, points) \in X
  PROVE  Claim(tl, s, points, lineage) \in X
<1> DEFINE N == Len(points)
           step(h) == [n \in 0 .. N |->
                         IF n = 0 THEN tl ELSE RecordPoint(h[n - 1], points[n], lineage)]
           recorded == CHOOSE h : h = step(h)
           G == [n \in 1 .. N |-> [x \in X |-> RecordPoint(x, points[n], lineage)]]
<1>1. Claim(tl, s, points, lineage) =
        IF Owned(tl, s) THEN recorded[N] ELSE NewTimeline(lineage, s, points)
  BY DEF Claim
<1>2. ASSUME NEW x \in X, NEW n \in 1 .. N
      PROVE  /\ RecordPoint(x, points[n], lineage) \in X
             /\ G[n][x] = RecordPoint(x, points[n], lineage)
  OBVIOUS
<1>3. G \in [1 .. N -> [X -> X]]
  BY <1>2
<1>4. N \in Nat
  OBVIOUS
<1> HIDE DEF N
<1>5. PICK h \in [0 .. N -> X] : Computes(h, N, tl, G)
  <2> HIDE DEF G
  <2> QED  BY <1>3, <1>4, Computed
<1> HIDE DEF G
<1>6. h = step(h)
  <2>1. ASSUME NEW n \in 1 .. N  PROVE h[n] = RecordPoint(h[n - 1], points[n], lineage)
    <3>1. n \in 0 .. N /\ n # 0 /\ n - 1 \in 0 .. N
      BY <1>4
    <3>2. h[n - 1] \in X
      BY <1>5, <3>1
    <3> QED  BY <1>2, <1>5, <3>1, <3>2 DEF Computes
  <2>2. ASSUME NEW n \in 0 .. N  PROVE h[n] = step(h)[n]
    <3>1. CASE n = 0
      BY <1>5, <3>1 DEF Computes
    <3>2. CASE n # 0
      <4>1. n \in 1 .. N
        BY <1>4, <3>2
      <4> QED  BY <2>1, <3>2, <4>1
    <3> QED  BY <3>1, <3>2
  <2> QED  BY <1>5, <2>2
<1>7. recorded = step(recorded)
  <2> HIDE DEF step
  <2> QED  BY <1>6
<1> HIDE DEF recorded
<1>8. recorded[0] \in X
  BY <1>4, <1>7
<1>9. ASSUME NEW n \in 1 .. N, recorded[n - 1] \in X
      PROVE  recorded[n] \in X
  <2>1. n \in 0 .. N /\ n # 0
    BY <1>4
  <2>2. recorded[n] = RecordPoint(recorded[n - 1], points[n], lineage)
    BY <1>7, <2>1
  <2> QED  BY <1>2, <1>9, <2>2
<1> HIDE DEF step
<1>10. recorded[N] \in X
  <2>1. \A n \in 1 .. N : recorded[n - 1] \in X => recorded[n] \in X
    BY <1>9
  <2> QED  BY <1>4, <1>8, <2>1, Kept
<1> QED  BY <1>1, <1>10

\* Lemma: a Session that continues an older one takes the timeline over.
LEMMA ClaimType ==
  ASSUME NEW E, NEW tl \in Timeline(E), NEW s \in Nat, NEW points \in Seq(Checkpoint),
         NEW lineage \in Nat
  PROVE  Claim(tl, s, points, lineage) \in Timeline(E)
<1>1. \A x \in Timeline(E) : \A n \in 1 .. Len(points) :
        RecordPoint(x, points[n], lineage) \in Timeline(E)
  <2> SUFFICES ASSUME NEW x \in Timeline(E), NEW n \in 1 .. Len(points)
               PROVE  RecordPoint(x, points[n], lineage) \in Timeline(E)
    OBVIOUS
  <2>1. points[n] \in Checkpoint
    OBVIOUS
  <2> QED  BY <2>1, RecordPointType
<1>2. NewTimeline(lineage, s, points) \in Timeline(E)
  BY NewTimelineType DEF Timeline
<1> DEFINE X == Timeline(E)
<1>3. tl \in X /\ Len(points) \in Nat
  OBVIOUS
<1> HIDE DEF X
<1> QED  BY <1>1, <1>2, <1>3, ClaimKeeps DEF X

\* Lemma: the nodes of a turn are nodes of the timeline.
LEMMA PointsForType ==
  ASSUME NEW E, NEW tl \in Timeline(E), NEW s, NEW turn
  PROVE  /\ tl # NoTimeline \/ PointsFor(tl, s, turn) = {}
         /\ tl \in Recording(E) => PointsFor(tl, s, turn) \subseteq 1 .. Len(tl.nodes)
BY DEF PointsFor, Owned, Timeline, Recording

\* Lemma: an edit is recorded with the edits of its turn.
LEMMA RecordMutationType ==
  ASSUME NEW E, NEW tl \in Timeline(E), NEW s, NEW turn, NEW m \in E,
         \A e \in E, b \in BOOLEAN : [e EXCEPT !.reversible = b] \in E, m.reversible \in BOOLEAN
  PROVE  RecordMutation(tl, s, turn, m) \in Timeline(E)
<1> DEFINE found == PointsFor(tl, s, turn)
           at == CHOOSE i \in found : \A j \in found : i <= j
           counted == m.reversible /\ TimelineBytes(tl) < MaxBytes
           kept == [m EXCEPT !.reversible = counted]
<1>1. CASE found = {}
  BY <1>1 DEF RecordMutation
<1>2. CASE found # {}
  <2>1. tl \in Recording(E)
    BY <1>2, PointsForType DEF Timeline
  <2>2. found \subseteq 1 .. Len(tl.nodes)
    BY <2>1, PointsForType
  <2>3. /\ tl \in [lineage : Nat, owner : Nat, cursor : Nat, nodes : Seq(Node(E))]
        /\ tl.cursor \in Nat /\ tl.cursor <= Len(tl.nodes) /\ tl.nodes \in Seq(Node(E))
    BY <2>1 DEF Recording
  <2>4. at \in found
    <3>1. found \subseteq Nat
      BY <2>2, <2>3
    <3> HIDE DEF found
    <3>2. \E i \in found : \A j \in found : i <= j
      BY <1>2, <3>1, LeastElement
    <3> QED  BY <3>2
  <2>5. kept \in E
    <3>1. counted \in BOOLEAN
      OBVIOUS
    <3> HIDE DEF counted
    <3> QED  BY <3>1
  <2>6. RecordMutation(tl, s, turn, m) = [tl EXCEPT !.nodes[at].mutations = Append(@, kept)]
    BY <1>2 DEF RecordMutation
  <2> HIDE DEF found, at, kept
  <2>7. at \in 1 .. Len(tl.nodes) /\ tl.nodes[at] \in Node(E)
    BY <2>2, <2>3, <2>4
  <2> DEFINE node == [tl.nodes[at] EXCEPT !.mutations = Append(@, kept)]
             nodes == [tl.nodes EXCEPT ![at] = node]
  <2>8. node \in Node(E)
    <3>1. Append(tl.nodes[at].mutations, kept) \in Seq(E)
      BY <2>5, <2>7 DEF Node
    <3> QED  BY <2>7, <3>1 DEF Node
  <2>9. RecordMutation(tl, s, turn, m) = [tl EXCEPT !.nodes = nodes]
    BY <2>6
  <2> HIDE DEF node
  <2>10. nodes \in Seq(Node(E)) /\ Len(nodes) = Len(tl.nodes)
    BY <2>3, <2>7, <2>8, ExceptSeq
  <2> HIDE DEF nodes
  <2> QED  BY <2>3, <2>9, <2>10 DEF Recording, Timeline
<1> QED  BY <1>1, <1>2

\* Lemma: what a restore has to undo is a sequence of edits.
LEMMA SelectEffectsType ==
  ASSUME NEW E, NEW tl \in Timeline(E), NEW s, NEW id
  PROVE  SelectEffects(tl, s, id).mutations \in Seq(E)
<1> DEFINE selected == {i \in IndexOf(tl, id) : i <= tl.cursor}
           first == CHOOSE i \in selected : TRUE
           undo == IF selected = {} THEN <<>> ELSE Mutations(SubSeq(tl.nodes, first, tl.cursor))
<1>0. <<>> \in Seq(E)
  OBVIOUS
<1>1. CASE ~Owned(tl, s)
  BY <1>0, <1>1 DEF SelectEffects
<1>2. CASE Owned(tl, s)
  <2>1. /\ tl.cursor \in Nat /\ tl.cursor <= Len(tl.nodes) /\ tl.nodes \in Seq(Node(E))
    BY <1>2 DEF Owned, Timeline, Recording
  <2>2. SelectEffects(tl, s, id).mutations = undo
    BY <1>2 DEF SelectEffects
  <2>3. CASE selected # {}
    <3>1. first \in selected
      BY <2>3
    <3>2. first \in 1 .. Len(tl.nodes)
      BY <3>1 DEF IndexOf
    <3> HIDE DEF first, selected
    <3> DEFINE nodes == SubSeq(tl.nodes, first, tl.cursor)
    <3>3. nodes \in Seq(Node(E))
      <4>1. \A i \in first .. tl.cursor : tl.nodes[i] \in Node(E)
        BY <2>1, <3>2
      <4> QED  BY <2>1, <3>2, <4>1, SubSeqProperties
    <3>4. undo = Mutations(nodes)
      BY <2>3
    <3> HIDE DEF nodes
    <3>5. Len(nodes) \in Nat /\ \A n \in 1 .. Len(nodes) : nodes[n].mutations \in Seq(E)
      <4>1. \A n \in 1 .. Len(nodes) : nodes[n] \in Node(E)
        BY <3>3
      <4> QED  BY <3>3, <4>1 DEF Node
    <3> QED  BY <2>2, <3>4, <3>5, MutationsType
  <2>4. CASE selected = {}
    BY <1>0, <2>2, <2>4
  <2> QED  BY <2>3, <2>4
<1> QED  BY <1>1, <1>2

\* Lemma: a rewind moves the cursor, and names the Session that goes on.
LEMMA CommitTimelineType ==
  ASSUME NEW E, NEW tl \in Recording(E), NEW id, NEW action, NEW target \in Nat
  PROVE  CommitTimeline(tl, id, action, target) \in Timeline(E)
<1> DEFINE selected == {i \in IndexOf(tl, id) : i <= tl.cursor}
           owner == IF action = "code-only" THEN tl.owner ELSE target
           cursor == IF action = "conversation-only" \/ selected = {} THEN tl.cursor
                     ELSE (CHOOSE i \in selected : TRUE) - 1
<1>1. /\ tl \in [lineage : Nat, owner : Nat, cursor : Nat, nodes : Seq(Node(E))]
      /\ tl.cursor \in Nat /\ tl.cursor <= Len(tl.nodes) /\ tl.owner \in Nat
      /\ Len(tl.nodes) \in Nat
  BY DEF Recording
<1>2. CommitTimeline(tl, id, action, target) = [tl EXCEPT !.owner = owner, !.cursor = cursor]
  BY DEF CommitTimeline
<1>3. owner \in Nat
  BY <1>1
<1>4. cursor \in Nat /\ cursor <= Len(tl.nodes)
  <2>1. CASE selected = {}
    BY <1>1, <2>1
  <2>2. CASE selected # {}
    <3>1. PICK i : i = CHOOSE j \in selected : TRUE
      OBVIOUS
    <3>2. i \in selected
      BY <2>2, <3>1
    <3>3. i \in 1 .. Len(tl.nodes) /\ i <= tl.cursor
      BY <3>2 DEF IndexOf
    <3>4. cursor = tl.cursor \/ cursor = i - 1
      BY <3>1
    <3> HIDE DEF cursor
    <3> QED  BY <1>1, <3>3, <3>4
  <2> QED  BY <2>1, <2>2
<1> HIDE DEF owner, cursor
<1> QED  BY <1>1, <1>2, <1>3, <1>4 DEF Recording, Timeline

\* Lemma: the latest nodes of a timeline are a timeline.
LEMMA ReloadedType ==
  ASSUME NEW E, NEW tl \in Timeline(E)
  PROVE  Reloaded(tl) \in Timeline(E)
<1>1. CASE tl = NoTimeline \/ ~Loadable(tl)
  BY <1>1 DEF Reloaded, Timeline
<1>2. CASE tl # NoTimeline /\ Loadable(tl)
  <2> DEFINE nodes == LastPoints(tl.nodes)
             dropped == Len(tl.nodes) - Len(nodes)
             cursor == IF tl.cursor > dropped THEN tl.cursor - dropped ELSE 0
  <2>1. /\ tl \in [lineage : Nat, owner : Nat, cursor : Nat, nodes : Seq(Node(E))]
        /\ tl.cursor \in Nat /\ tl.cursor <= Len(tl.nodes) /\ tl.nodes \in Seq(Node(E))
    BY <1>2 DEF Timeline, Recording
  <2>2. nodes \in Seq(Node(E)) /\ Len(nodes) \in Nat /\ Len(nodes) <= Len(tl.nodes)
    BY <2>1, LastPointsType, LastPointsLength
  <2>3. Reloaded(tl) = [tl EXCEPT !.nodes = nodes, !.cursor = cursor]
    BY <1>2 DEF Reloaded, Bounded
  <2> HIDE DEF nodes
  <2>4. cursor \in Nat /\ cursor <= Len(nodes)
    BY <2>1, <2>2
  <2> HIDE DEF cursor
  <2> QED  BY <2>1, <2>2, <2>3, <2>4 DEF Timeline, Recording
<1> QED  BY <1>1, <1>2

-----------------------------------------------------------------------------
(* The lineage: nodes that stand for the Prompts of K, each with the edits *)
(* that W gives to its Prompt                                              *)

PointOf(node) == [id |-> node.id, session |-> node.session, turn |-> node.turn]

Attributes(nodes, K, W) ==
  /\ \A i \in 1 .. Len(nodes) : PointOf(nodes[i]) \in K
  /\ \A i, j \in 1 .. Len(nodes) : i # j => nodes[i].id # nodes[j].id
  /\ \A i \in 1 .. Len(nodes) : \A k \in 1 .. Len(nodes[i].mutations) :
       <<nodes[i].mutations[k].edit, nodes[i].id>> \in W

Lineage(E, K, W) ==
  {tl \in Timeline(E) :
     tl # NoTimeline => Len(tl.nodes) <= History /\ Attributes(tl.nodes, K, W)}

\* Lemma: a part of a lineage is one.
LEMMA PartAttributes ==
  ASSUME NEW K, NEW W, NEW nodes, NEW part, NEW n \in Nat, Attributes(nodes, K, W),
         Len(nodes) \in Nat, Len(part) \in Nat,
         \A i \in 1 .. Len(part) : n + i \in 1 .. Len(nodes) /\ part[i] = nodes[n + i]
  PROVE  Attributes(part, K, W)
<1>1. \A i, j \in 1 .. Len(part) : i # j => n + i # n + j
  OBVIOUS
<1>2. \A i \in 1 .. Len(part) : PointOf(part[i]) \in K
  BY DEF Attributes
<1>3. \A i, j \in 1 .. Len(part) : i # j => part[i].id # part[j].id
  BY <1>1 DEF Attributes
<1>4. \A i \in 1 .. Len(part) : \A k \in 1 .. Len(part[i].mutations) :
        <<part[i].mutations[k].edit, part[i].id>> \in W
  BY DEF Attributes
<1> QED  BY <1>2, <1>3, <1>4 DEF Attributes

\* Lemma: the latest nodes of a lineage are one.
LEMMA LastAttributes ==
  ASSUME NEW E, NEW K, NEW W, NEW nodes \in Seq(Node(E)), Attributes(nodes, K, W)
  PROVE  Len(LastPoints(nodes)) <= History /\ Attributes(LastPoints(nodes), K, W)
<1> DEFINE part == LastPoints(nodes)
<1>1. PICK first \in 1 .. Len(nodes) + 1 :
        /\ Len(part) = Len(nodes) - first + 1 /\ Len(part) <= History
        /\ \A i \in 1 .. Len(part) : part[i] = nodes[first + i - 1]
  BY LastPointsLength
<1> HIDE DEF part
<1>2. Len(nodes) \in Nat /\ first - 1 \in Nat /\ Len(part) \in Nat
  BY <1>1
<1> DEFINE n == first - 1
<1>3. \A i \in 1 .. Len(part) : n + i \in 1 .. Len(nodes) /\ part[i] = nodes[n + i]
  <2> SUFFICES ASSUME NEW i \in 1 .. Len(part)
               PROVE  n + i \in 1 .. Len(nodes) /\ part[i] = nodes[n + i]
    OBVIOUS
  <2>1. n + i = first + i - 1 /\ first + i - 1 \in 1 .. Len(nodes)
    BY <1>1, <1>2
  <2> QED  BY <1>1, <2>1
<1>4. n \in Nat
  BY <1>2
<1> HIDE DEF n
<1>5. Attributes(part, K, W)
  BY <1>2, <1>3, <1>4, PartAttributes
<1> QED  BY <1>1, <1>5 DEF part

\* Lemma: a lineage begins with Prompts of K, no one twice.
LEMMA NewLineage ==
  ASSUME NEW E, NEW K, K \subseteq Checkpoint, NEW W, NEW lineage \in Nat, NEW owner \in Nat,
         NEW points \in Seq(K), \A i, j \in 1 .. Len(points) : i # j => points[i].id # points[j].id
  PROVE  NewTimeline(lineage, owner, points) \in Lineage(E, K, W)
<1> DEFINE kept == LastPoints(points)
           nodes == [i \in 1 .. Len(kept) |-> NewNode(kept[i])]
           tl == NewTimeline(lineage, owner, points)
<1>1. PICK first \in 1 .. Len(points) + 1 :
        /\ Len(kept) = Len(points) - first + 1 /\ Len(kept) <= History
        /\ \A i \in 1 .. Len(kept) : kept[i] = points[first + i - 1]
  BY LastPointsLength
<1>2. tl \in Timeline(E)
  <2>1. points \in Seq(Checkpoint)
    OBVIOUS
  <2> QED  BY <2>1, NewTimelineType DEF Timeline
<1>3. tl.nodes = nodes
  BY DEF NewTimeline
<1> HIDE DEF tl, kept
<1>4. Len(points) \in Nat /\ Len(kept) \in Nat /\ Len(nodes) = Len(kept)
  BY <1>1
<1>5. \A i \in 1 .. Len(kept) : first + i - 1 \in 1 .. Len(points)
  BY <1>1, <1>4
<1>6. \A i \in 1 .. Len(kept) : /\ nodes[i].id = kept[i].id
                                /\ nodes[i].mutations = <<>>
                                /\ PointOf(nodes[i]) = kept[i] /\ kept[i] \in K
  <2> SUFFICES ASSUME NEW i \in 1 .. Len(kept)
               PROVE  /\ nodes[i].id = kept[i].id /\ nodes[i].mutations = <<>>
                      /\ PointOf(nodes[i]) = kept[i] /\ kept[i] \in K
    OBVIOUS
  <2>1. kept[i] \in K
    BY <1>1, <1>5
  <2>2. kept[i] \in Checkpoint /\ nodes[i] = NewNode(kept[i])
    BY <2>1
  <2> HIDE DEF nodes
  <2> QED  BY <2>1, <2>2 DEF NewNode, PointOf, Checkpoint
<1> HIDE DEF nodes
<1>7. \A i, j \in 1 .. Len(kept) : i # j => kept[i].id # kept[j].id
  <2> SUFFICES ASSUME NEW i \in 1 .. Len(kept), NEW j \in 1 .. Len(kept), i # j
               PROVE  kept[i].id # kept[j].id
    OBVIOUS
  <2>1. first + i - 1 # first + j - 1
    BY <1>1
  <2> QED  BY <1>1, <1>5, <2>1
<1>8. Attributes(nodes, K, W)
  BY <1>4, <1>6, <1>7 DEF Attributes
<1> QED  BY <1>1, <1>2, <1>3, <1>4, <1>8 DEF Lineage, tl

\* Lemma: a Prompt that is not known is added to the lineage.
LEMMA AppendLineage ==
  ASSUME NEW E, NEW K, K \subseteq Checkpoint, NEW W, NEW tl \in Lineage(E, K, W),
         tl # NoTimeline, NEW point \in K, \A i \in 1 .. Len(tl.nodes) : tl.nodes[i].id # point.id
  PROVE  AppendPoint(tl, point) \in Lineage(E, K, W)
<1> DEFINE old == Applied(tl)
           node == NewNode(point)
           longer == Append(old, node)
           next == AppendPoint(tl, point)
<1>1. /\ tl \in Recording(E) /\ Attributes(tl.nodes, K, W) /\ tl.nodes \in Seq(Node(E))
      /\ tl.cursor \in Nat /\ tl.cursor <= Len(tl.nodes) /\ Len(tl.nodes) \in Nat
  BY DEF Lineage, Timeline, Recording
<1>2. point \in Checkpoint
  OBVIOUS
<1>3. next \in Timeline(E)
  BY <1>1, <1>2, AppendPointType DEF Timeline
<1>4. next.nodes = LastPoints(longer)
  BY <1>1 DEF AppendPoint, Recording
<1>5. /\ old \in Seq(Node(E)) /\ Len(old) = tl.cursor
      /\ \A i \in 1 .. Len(old) : i \in 1 .. Len(tl.nodes) /\ old[i] = tl.nodes[i]
  <2>1. \A i \in 1 .. tl.cursor : i \in 1 .. Len(tl.nodes) /\ tl.nodes[i] \in Node(E)
    BY <1>1
  <2>2. old = SubSeq(tl.nodes, 1, tl.cursor)
    BY DEF Applied
  <2> HIDE DEF old
  <2>3. old \in Seq(Node(E)) /\ Len(old) = tl.cursor
    BY <1>1, <2>1, <2>2, SubSeqProperties
  <2>4. \A i \in 1 .. tl.cursor : old[i] = tl.nodes[i]
    BY <1>1, <2>2
  <2> QED  BY <2>1, <2>3, <2>4
<1>6. node \in Node(E) /\ node.id = point.id /\ node.mutations = <<>> /\ PointOf(node) = point
  <2>1. <<>> \in Seq(E)
    OBVIOUS
  <2> QED  BY <1>2, <2>1 DEF NewNode, Node, PointOf, Checkpoint
<1> HIDE DEF next, old, node
<1>7. /\ longer \in Seq(Node(E)) /\ Len(longer) = tl.cursor + 1
      /\ longer[tl.cursor + 1] = node
      /\ \A i \in 1 .. tl.cursor : longer[i] = tl.nodes[i] /\ i \in 1 .. Len(tl.nodes)
  BY <1>1, <1>5, <1>6
<1> HIDE DEF longer
<1>8. \A i \in 1 .. Len(longer) : i \in 1 .. tl.cursor \/ i = tl.cursor + 1
  BY <1>1, <1>7
<1>9. Attributes(longer, K, W)
  <2>1. \A i \in 1 .. Len(longer) : PointOf(longer[i]) \in K
    BY <1>1, <1>6, <1>7, <1>8 DEF Attributes
  <2>2. \A i, j \in 1 .. Len(longer) : i # j => longer[i].id # longer[j].id
    <3>1. \A i \in 1 .. tl.cursor : longer[i].id # point.id
      BY <1>7
    <3>2. longer[tl.cursor + 1].id = point.id
      BY <1>6, <1>7
    <3>3. \A i, j \in 1 .. tl.cursor : i # j => longer[i].id # longer[j].id
      BY <1>1, <1>7 DEF Attributes
    <3> QED  BY <1>8, <3>1, <3>2, <3>3
  <2>3. \A i \in 1 .. Len(longer) : \A k \in 1 .. Len(longer[i].mutations) :
          <<longer[i].mutations[k].edit, longer[i].id>> \in W
    <3> SUFFICES ASSUME NEW i \in 1 .. Len(longer), NEW k \in 1 .. Len(longer[i].mutations)
                 PROVE  <<longer[i].mutations[k].edit, longer[i].id>> \in W
      OBVIOUS
    <3>1. CASE i = tl.cursor + 1
      BY <1>6, <1>7, <3>1
    <3>2. CASE i \in 1 .. tl.cursor
      BY <1>1, <1>7, <3>2 DEF Attributes
    <3> QED  BY <1>8, <3>1, <3>2
  <2> QED  BY <2>1, <2>2, <2>3 DEF Attributes
<1>10. Len(next.nodes) <= History /\ Attributes(next.nodes, K, W)
  BY <1>4, <1>7, <1>9, LastAttributes
<1> QED  BY <1>3, <1>10 DEF Lineage, next

\* Lemma: a Prompt is recorded in the lineage once.
LEMMA RecordLineage ==
  ASSUME NEW E, NEW K, K \subseteq Checkpoint, NEW W, NEW tl \in Lineage(E, K, W),
         NEW point \in K, NEW lineage \in Nat
  PROVE  RecordPoint(tl, point, lineage) \in Lineage(E, K, W)
<1>1. CASE tl = NoTimeline
  <2>1. point.session \in Nat /\ <<point>> \in Seq(K)
    BY DEF Checkpoint
  <2>2. \A i, j \in 1 .. Len(<<point>>) : i # j => <<point>>[i].id # <<point>>[j].id
    OBVIOUS
  <2>3. NewTimeline(lineage, point.session, <<point>>) \in Lineage(E, K, W)
    BY <2>1, <2>2, NewLineage
  <2> QED  BY <1>1, <2>3 DEF RecordPoint
<1>2. CASE tl # NoTimeline
  BY <1>2, AppendLineage DEF RecordPoint
<1> QED  BY <1>1, <1>2

\* Lemma: a Session claims the lineage with its own Prompts.
LEMMA ClaimLineage ==
  ASSUME NEW E, NEW K, K \subseteq Checkpoint, NEW W, NEW tl \in Lineage(E, K, W), NEW s \in Nat,
         NEW points \in Seq(K), \A i, j \in 1 .. Len(points) : i # j => points[i].id # points[j].id,
         NEW lineage \in Nat
  PROVE  Claim(tl, s, points, lineage) \in Lineage(E, K, W)
<1> DEFINE X == Lineage(E, K, W)
<1>1. \A x \in X : \A n \in 1 .. Len(points) : RecordPoint(x, points[n], lineage) \in X
  <2> SUFFICES ASSUME NEW x \in X, NEW n \in 1 .. Len(points)
               PROVE  RecordPoint(x, points[n], lineage) \in X
    OBVIOUS
  <2>1. points[n] \in K
    OBVIOUS
  <2> QED  BY <2>1, RecordLineage
<1>2. NewTimeline(lineage, s, points) \in X
  BY NewLineage
<1>3. tl \in X /\ Len(points) \in Nat
  OBVIOUS
<1> HIDE DEF X
<1> QED  BY <1>1, <1>2, <1>3, ClaimKeeps DEF X

\* Lemma: an edit is recorded under the Prompt of its turn.
LEMMA MutationLineage ==
  ASSUME NEW E, NEW K, K \subseteq Checkpoint, NEW W, NEW tl \in Lineage(E, K, W), NEW s, NEW turn,
         NEW m \in E, m.reversible \in BOOLEAN,
         \A e \in E, b \in BOOLEAN : /\ [e EXCEPT !.reversible = b] \in E
                                     /\ [e EXCEPT !.reversible = b].edit = e.edit,
         \A c \in K : c.session = s /\ c.turn = turn => <<m.edit, c.id>> \in W
  PROVE  RecordMutation(tl, s, turn, m) \in Lineage(E, K, W)
<1> DEFINE found == PointsFor(tl, s, turn)
           at == CHOOSE i \in found : \A j \in found : i <= j
           counted == m.reversible /\ TimelineBytes(tl) < MaxBytes
           kept == [m EXCEPT !.reversible = counted]
           next == RecordMutation(tl, s, turn, m)
<1>1. CASE found = {}
  BY <1>1 DEF RecordMutation
<1>2. CASE found # {}
  <2>1. tl \in Timeline(E) /\ tl # NoTimeline /\ tl \in Recording(E)
    BY <1>2, PointsForType DEF Lineage, Timeline
  <2>2. found \subseteq 1 .. Len(tl.nodes)
    BY <2>1, PointsForType
  <2>3. /\ tl \in [lineage : Nat, owner : Nat, cursor : Nat, nodes : Seq(Node(E))]
        /\ Len(tl.nodes) \in Nat /\ tl.nodes \in Seq(Node(E))
        /\ Len(tl.nodes) <= History /\ Attributes(tl.nodes, K, W)
    BY <2>1 DEF Recording, Lineage
  <2>4. PICK i : i = at
    OBVIOUS
  <2>5. i \in found
    <3>1. found \subseteq Nat
      BY <2>2, <2>3
    <3> HIDE DEF found
    <3>2. \E x \in found : \A j \in found : x <= j
      BY <1>2, <3>1, LeastElement
    <3> QED  BY <2>4, <3>2
  <2>6. tl.nodes[i].session = s /\ tl.nodes[i].turn = turn
    BY <1>2, <2>5 DEF PointsFor
  <2>7. kept \in E /\ kept.edit = m.edit
    <3>1. counted \in BOOLEAN
      OBVIOUS
    <3> HIDE DEF counted
    <3> QED  BY <3>1
  <2>8. next = [tl EXCEPT !.nodes[i].mutations = Append(@, kept)]
    BY <1>2, <2>4 DEF RecordMutation
  <2>9. next \in Timeline(E)
    <3>1. \A e \in E, b \in BOOLEAN : [e EXCEPT !.reversible = b] \in E
      OBVIOUS
    <3> QED  BY <2>1, <3>1, RecordMutationType
  <2> HIDE DEF found, at, kept
  <2>10. i \in 1 .. Len(tl.nodes) /\ tl.nodes[i] \in Node(E)
    BY <2>2, <2>3, <2>5
  <2> DEFINE ms == Append(tl.nodes[i].mutations, kept)
             node == [tl.nodes[i] EXCEPT !.mutations = ms]
             nodes == [tl.nodes EXCEPT ![i] = node]
  <2>11. next.nodes = nodes
    BY <2>3, <2>8
  <2> HIDE DEF next
  <2>12. /\ node.id = tl.nodes[i].id /\ node.mutations = ms /\ PointOf(node) = PointOf(tl.nodes[i])
    BY <2>10 DEF Node, PointOf
  <2>13. /\ tl.nodes[i].mutations \in Seq(E)
         /\ \A k \in 1 .. Len(ms) : \/ k \in 1 .. Len(tl.nodes[i].mutations)
                                         /\ ms[k] = tl.nodes[i].mutations[k]
                                    \/ ms[k] = kept
    BY <2>7, <2>10 DEF Node
  <2>14. <<kept.edit, tl.nodes[i].id>> \in W
    <3>1. PointOf(tl.nodes[i]) \in K
      BY <2>3, <2>10 DEF Attributes
    <3> QED  BY <2>6, <2>7, <3>1 DEF PointOf
  <2> HIDE DEF node, ms
  <2>15. /\ Len(nodes) = Len(tl.nodes) /\ nodes[i] = node
         /\ \A j \in 1 .. Len(tl.nodes) : j # i => nodes[j] = tl.nodes[j]
    BY <2>3, <2>10
  <2> HIDE DEF nodes
  <2>16. \A j \in 1 .. Len(nodes) : /\ nodes[j].id = tl.nodes[j].id
                                    /\ PointOf(nodes[j]) = PointOf(tl.nodes[j])
    BY <2>12, <2>15
  <2>17. \A j \in 1 .. Len(nodes) : \A k \in 1 .. Len(nodes[j].mutations) :
           <<nodes[j].mutations[k].edit, nodes[j].id>> \in W
    <3> SUFFICES ASSUME NEW j \in 1 .. Len(nodes), NEW k \in 1 .. Len(nodes[j].mutations)
                 PROVE  <<nodes[j].mutations[k].edit, nodes[j].id>> \in W
      OBVIOUS
    <3>1. CASE j = i
      <4>1. k \in 1 .. Len(ms) /\ nodes[j].mutations[k] = ms[k] /\ nodes[j].id = tl.nodes[i].id
        BY <2>12, <2>15, <3>1
      <4>2. CASE ms[k] = kept
        BY <2>14, <4>1, <4>2
      <4>3. CASE k \in 1 .. Len(tl.nodes[i].mutations) /\ ms[k] = tl.nodes[i].mutations[k]
        BY <2>3, <2>10, <4>1, <4>3 DEF Attributes
      <4> QED  BY <2>13, <4>1, <4>2, <4>3
    <3>2. CASE j # i
      BY <2>3, <2>15, <3>2 DEF Attributes
    <3> QED  BY <3>1, <3>2
  <2>18. Attributes(nodes, K, W)
    BY <2>3, <2>15, <2>16, <2>17 DEF Attributes
  <2> QED  BY <2>3, <2>9, <2>11, <2>15, <2>18 DEF Lineage, next
<1> QED  BY <1>1, <1>2

\* Lemma: a lineage of Prompts that are each a turn of their own loads as it is.
LEMMA LineageLoads ==
  ASSUME NEW E, NEW K, NEW W, NEW tl \in Lineage(E, K, W),
         \A c \in K : c.turn >= 1,
         \A c, d \in K : c.session = d.session /\ c.turn = d.turn => c.id = d.id
  PROVE  Reloaded(tl) = tl
<1>1. CASE tl = NoTimeline
  BY <1>1 DEF Reloaded
<1>2. CASE tl # NoTimeline
  <2>1. /\ tl \in [lineage : Nat, owner : Nat, cursor : Nat, nodes : Seq(Node(E))]
        /\ tl.cursor \in Nat /\ tl.cursor <= Len(tl.nodes) /\ tl.nodes \in Seq(Node(E))
        /\ Len(tl.nodes) \in Nat /\ Len(tl.nodes) <= History /\ Attributes(tl.nodes, K, W)
    BY <1>2 DEF Lineage, Timeline, Recording
  <2>2. \A i \in 1 .. Len(tl.nodes) : /\ PointOf(tl.nodes[i]) \in K
                                      /\ PointOf(tl.nodes[i]).id = tl.nodes[i].id
                                      /\ PointOf(tl.nodes[i]).turn = tl.nodes[i].turn
                                      /\ PointOf(tl.nodes[i]).session = tl.nodes[i].session
    BY <2>1 DEF Attributes, PointOf
  <2>3. \A i \in 1 .. Len(tl.nodes) : tl.nodes[i].turn >= 1
    BY <2>2
  <2>4. \A i, j \in 1 .. Len(tl.nodes) : i # j => ~SameTurn(tl.nodes[i], tl.nodes[j])
    <3> SUFFICES ASSUME NEW i \in 1 .. Len(tl.nodes), NEW j \in 1 .. Len(tl.nodes), i # j,
                        SameTurn(tl.nodes[i], tl.nodes[j])
                 PROVE  FALSE
      OBVIOUS
    <3>1. tl.nodes[i].id = tl.nodes[j].id
      BY <2>2 DEF SameTurn
    <3> QED  BY <2>1, <3>1 DEF Attributes
  <2>5. ManifestValid(tl)
    <3>1. tl.cursor \in 0 .. Len(tl.nodes)
      BY <2>1
    <3> QED  BY <2>1, <3>1 DEF ManifestValid, Attributes
  <2>6. Loadable(tl)
    BY <2>3, <2>4, <2>5 DEF Loadable
  <2>7. LastPoints(tl.nodes) = tl.nodes
    BY <2>1, LastPointsLength
  <2>8. Bounded(tl) = [tl EXCEPT !.nodes = tl.nodes, !.cursor = tl.cursor]
    <3> DEFINE dropped == Len(tl.nodes) - Len(LastPoints(tl.nodes))
               cursor == IF tl.cursor > dropped THEN tl.cursor - dropped ELSE 0
    <3>1. Bounded(tl) = [tl EXCEPT !.nodes = LastPoints(tl.nodes), !.cursor = cursor]
      BY DEF Bounded
    <3>2. dropped = 0
      BY <2>1, <2>7
    <3> HIDE DEF dropped
    <3>3. cursor = tl.cursor
      BY <2>1, <3>2
    <3> QED  BY <2>7, <3>1, <3>3
  <2>9. Bounded(tl) = tl
    <3>1. [tl EXCEPT !.nodes = tl.nodes, !.cursor = tl.cursor] = tl
      BY <2>1
    <3> QED  BY <2>8, <3>1
  <2> QED  BY <1>2, <2>6, <2>9 DEF Reloaded
<1> QED  BY <1>1, <1>2

-----------------------------------------------------------------------------
(* The planner, for a file of the regions R, edits up to M, and those of   *)
(* them, U, that a plan must spare                                         *)

Contents(R, M) == {Absent} \cup [R -> 0 .. M]

\* An edit that put into the file nothing that has to be spared.
OthersEdit(R, M, U, m) ==
  /\ m.before \in Contents(R, M) /\ m.after \in [R -> 0 .. M]
  /\ \A r \in R : m.after[r] \in U => m.before # Absent /\ m.after[r] = m.before[r]

Spared(R, U, from, to) ==
  from # Absent => \A r \in R : from[r] \in U => to # Absent /\ to[r] = from[r]

\* Lemma: the reversal of an edit either meets a conflict or spares the rest.
LEMMA ReverseSpares ==
  ASSUME NEW R, NEW M \in Nat, NEW U, Absent \notin [R -> Nat],
         NEW m, OthersEdit(R, M, U, m), NEW current \in Contents(R, M),
         ReverseMutation(current, m) # Conflict
  PROVE  /\ ReverseMutation(current, m) \in Contents(R, M)
         /\ Spared(R, U, current, ReverseMutation(current, m))
<1> DEFINE to == [r \in DOMAIN current |-> IF r \in Changed(m) THEN m.before[r] ELSE current[r]]
<1>1. CASE current = m.after
  <2>1. ReverseMutation(current, m) = m.before
    BY <1>1 DEF ReverseMutation
  <2> QED  BY <1>1, <2>1 DEF OthersEdit, Spared
<1>2. CASE current # m.after
  <2>1. /\ current # Absent /\ m.before # Absent
        /\ \A r \in Changed(m) : current[r] = m.after[r]
        /\ ReverseMutation(current, m) = to
    BY <1>2 DEF ReverseMutation
  <2>2. current \in [R -> 0 .. M] /\ m.before \in [R -> 0 .. M] /\ m.after \in [R -> 0 .. M]
    BY <2>1 DEF OthersEdit, Contents
  <2>3. to \in [R -> 0 .. M]
    BY <2>2
  <2>4. to # Absent
    <3>1. [R -> 0 .. M] \subseteq [R -> Nat]
      OBVIOUS
    <3> HIDE DEF to
    <3> QED  BY <2>3, <3>1
  <2>5. ASSUME NEW r \in R, current[r] \in U  PROVE to[r] = current[r]
    <3>1. r \in Changed(m) => m.before[r] # m.after[r] /\ current[r] = m.after[r]
      BY <2>1 DEF Changed
    <3>2. r \notin Changed(m)
      BY <2>5, <3>1 DEF OthersEdit
    <3> QED  BY <2>2, <3>2
  <2> HIDE DEF to
  <2> QED  BY <2>1, <2>3, <2>4, <2>5 DEF Contents, Spared
<1> QED  BY <1>1, <1>2

\* Lemma: so does a plan, which reverses one after the other.
LEMMA PlanSpares ==
  ASSUME NEW R, NEW M \in Nat, NEW U, Absent \notin [R -> Nat],
         NEW E, \A m \in E : OthersEdit(R, M, U, m),
         NEW ms \in Seq(E), NEW current \in Contents(R, M),
         PlanContent(current, ms) \notin {Conflict, Unsupported}
  PROVE  /\ PlanContent(current, ms) \in Contents(R, M)
         /\ Spared(R, U, current, PlanContent(current, ms))
<1> DEFINE N == Len(ms)
           next(x, k) == IF x = Conflict THEN Conflict ELSE ReverseMutation(x, ms[N - k + 1])
           step(h) == [k \in 0 .. N |->
                         IF k = 0 THEN current
                         ELSE IF h[k - 1] = Conflict THEN Conflict
                         ELSE ReverseMutation(h[k - 1], ms[N - k + 1])]
           reversed == CHOOSE h : h = step(h)
           X == {x \in Contents(R, M) \cup {Conflict} :
                   x = Conflict \/ (x \in Contents(R, M) /\ Spared(R, U, current, x))}
           G == [k \in 1 .. N |-> [x \in X |-> next(x, k)]]
<1>1. PlanContent(current, ms) \in {Unsupported, reversed[N]}
  BY DEF PlanContent
<1>2. ASSUME NEW x \in X, NEW k \in 1 .. N  PROVE next(x, k) \in X
  <2>1. CASE next(x, k) = Conflict
    BY <2>1
  <2>2. CASE next(x, k) # Conflict
    <3>1. x # Conflict /\ x \in Contents(R, M) /\ Spared(R, U, current, x)
      BY <2>2
    <3>2. N - k + 1 \in 1 .. N
      OBVIOUS
    <3> DEFINE m == ms[N - k + 1]
               to == ReverseMutation(x, m)
    <3>3. m \in E /\ next(x, k) = to /\ to # Conflict
      BY <2>2, <3>1, <3>2
    <3>4. OthersEdit(R, M, U, m)
      BY <3>3
    <3> HIDE DEF m
    <3>5. to \in Contents(R, M) /\ Spared(R, U, x, to)
      BY <3>1, <3>3, <3>4, ReverseSpares
    <3> HIDE DEF to
    <3>6. Spared(R, U, current, to)
      BY <3>1, <3>5 DEF Spared
    <3> HIDE DEF next
    <3> QED  BY <3>3, <3>5, <3>6
  <2> QED  BY <2>1, <2>2
<1>3. G \in [1 .. N -> [X -> X]]
  <2> HIDE DEF next, X
  <2> QED  BY <1>2
<1>4. N \in Nat
  OBVIOUS
<1>5. current \in X
  BY DEF Spared
<1>6. \A k \in 1 .. N : \A x \in X : G[k][x] = next(x, k)
  <2> HIDE DEF next, X
  <2> QED  OBVIOUS
<1> HIDE DEF N
<1>7. PICK h \in [0 .. N -> X] : Computes(h, N, current, G)
  <2> HIDE DEF G, X
  <2> QED  BY <1>3, <1>4, <1>5, Computed
<1> HIDE DEF G
<1>8. h = step(h)
  <2>1. ASSUME NEW k \in 1 .. N  PROVE h[k] = next(h[k - 1], k)
    <3>1. k \in 0 .. N /\ k # 0 /\ k - 1 \in 0 .. N
      BY <1>4
    <3> HIDE DEF X, next
    <3>2. h[k - 1] \in X
      BY <1>7, <3>1
    <3> QED  BY <1>6, <1>7, <3>1, <3>2 DEF Computes
  <2>2. ASSUME NEW k \in 0 .. N  PROVE h[k] = step(h)[k]
    <3>1. CASE k = 0
      BY <1>7, <3>1 DEF Computes
    <3>2. CASE k # 0
      <4>1. k \in 1 .. N
        BY <1>4, <3>2
      <4> QED  BY <2>1, <3>2, <4>1
    <3> QED  BY <3>1, <3>2
  <2> HIDE DEF X
  <2> QED  BY <1>7, <2>2
<1>9. reversed = step(reversed)
  <2> HIDE DEF step
  <2> QED  BY <1>8
<1> HIDE DEF reversed
<1>10. reversed[0] = current
  BY <1>4, <1>9
<1>11. ASSUME NEW k \in 1 .. N, reversed[k - 1] \in X  PROVE reversed[k] \in X
  <2>1. k \in 0 .. N /\ k # 0
    BY <1>4
  <2>2. reversed[k] = next(reversed[k - 1], k)
    BY <1>9, <2>1
  <2> HIDE DEF next, X
  <2> QED  BY <1>2, <1>11, <2>2
<1> HIDE DEF step, next
<1>12. reversed[N] \in X
  <2>1. \A k \in 1 .. N : reversed[k - 1] \in X => reversed[k] \in X
    BY <1>11
  <2>2. reversed[0] \in X
    BY <1>5, <1>10
  <2> HIDE DEF X
  <2> QED  BY <1>4, <2>1, <2>2, Kept
<1>13. PlanContent(current, ms) = reversed[N] /\ reversed[N] # Conflict
  BY <1>1
<1> QED  BY <1>12, <1>13

-----------------------------------------------------------------------------
(* The state of the rewind and of the files                                *)

\* The rewind has these fields, whatever their values.
RewindFields ==
  rw \in [pc : {rw.pc}, session : {rw.session}, point : {rw.point},
          action : {rw.action}, waits : {rw.waits}, listed : {rw.listed},
          scope : {rw.scope}, lineage : {rw.lineage}, mutations : {rw.mutations},
          state : {rw.state}, from : {rw.from}, to : {rw.to}, done : {rw.done},
          undo : {rw.undo}, target : {rw.target}, broken : {rw.broken},
          prepared : {rw.prepared}, touched : {rw.touched},
          unplanned : {rw.unplanned}]

Files == content = [f \in File |-> content[f]]

\* Only what an edit has restored is compensated, and only while its files are
\* put back can one of them stay behind.
Phases ==
  /\ DOMAIN rw.from = DOMAIN rw.to /\ DOMAIN rw.to \subseteq File
  /\ rw.done \subseteq DOMAIN rw.to /\ (rw.pc \notin Busy => rw.done = {})
  /\ rw.undo \in BOOLEAN /\ rw.broken \in BOOLEAN /\ raced \in BOOLEAN
  /\ rw.undo => rw.pc \in {"check", "apply", "rollback"}
  /\ rw.pc \in {"check", "apply", "rollback"} => rw.action # "conversation-only"
  /\ rw.broken => rw.pc = "rollback"

\* The file has been replaced by what the plan, or its compensation, wants.
Put(f) ==
  \/ rw.pc \in {"apply", "rollback"} /\ f \in rw.done
  \/ rw.pc \in {"fork", "open", "commit"} /\ rw.action # "conversation-only"

\* At every moment of a rewind each planned file that nobody else has written has
\* one of its two contents, and the progress of the rewind tells which.
Accounted ==
  rw.pc \in Busy \cup {"confirm"} /\ ~raced /\ ~rw.broken =>
    \A f \in DOMAIN rw.from \ rw.touched :
      /\ Put(f) => content[f] = rw.to[f]
      /\ ~Put(f) => content[f] = rw.from[f]

FilesInv == RewindFields /\ Files /\ Phases /\ Accounted

-----------------------------------------------------------------------------
(* Steps that leave the files and the transaction alone                    *)

\* What the invariant reads of the rewind.
Same ==
  /\ rw'.pc = rw.pc /\ rw'.action = rw.action /\ rw'.from = rw.from /\ rw'.to = rw.to
  /\ rw'.done = rw.done /\ rw'.undo = rw.undo /\ rw'.broken = rw.broken
  /\ rw'.touched = rw.touched

\* Lemma: a step that leaves the rewind where it is, and the files.
LEMMA SameKeeps ==
  ASSUME FilesInv, Same, RewindFields', content' = content, raced' = raced
  PROVE  FilesInv'
<1>1. Files' /\ Phases'
  BY DEF FilesInv, Files, Phases, Same
<1>2. Accounted'
  <2>1. \A f : Put(f)' <=> Put(f)
    BY DEF Put, Same
  <2> QED  BY <2>1 DEF FilesInv, Accounted, Same
<1> QED  BY <1>1, <1>2 DEF FilesInv

\* Lemma: nothing but the Host and the journal changes.
LEMMA RestKeeps ==
  ASSUME FilesInv, UNCHANGED <<content, rw, raced>>
  PROVE  FilesInv'
BY DEF FilesInv, RewindFields, Files, Phases, Accounted, Put, File

\* Lemma: an ingestion tells the rewind only that it has ended.
LEMMA IngestedKeeps ==
  ASSUME FilesInv, NEW s, NEW edited, NEW kept, Ingested(s, edited, kept),
         content' = content, raced' = raced
  PROVE  FilesInv'
<1>1. Same /\ RewindFields'
  BY DEF Ingested, Same, RewindFields, FilesInv
<1> QED  BY <1>1, SameKeeps

\* A dialog that is not confirming, or that is closed, has no plan.
NoPlan ==
  /\ rw'.pc \notin Busy \cup {"confirm"}
  /\ rw'.from = <<>> /\ rw'.to = <<>> /\ rw'.done = {}
  /\ rw'.undo = FALSE /\ rw'.broken = FALSE

\* Lemma: without a plan there is nothing to account for.
LEMMA NoPlanHolds ==
  ASSUME Files, NoPlan, RewindFields', content' = content, raced' \in BOOLEAN
  PROVE  FilesInv'
<1>1. Phases'
  <2>1. DOMAIN <<>> = {}
    OBVIOUS
  <2> QED  BY <2>1 DEF Phases, NoPlan, Busy
<1>2. Accounted'
  BY DEF Accounted, NoPlan, Busy
<1> QED  BY <1>1, <1>2 DEF FilesInv, Files

\* Lemma: a rewind ends, whatever the reason.
LEMMA CloseKeeps ==
  ASSUME FilesInv, Close, content' = content, raced' \in BOOLEAN
  PROVE  FilesInv'
<1>1. NoPlan /\ RewindFields'
  BY DEF Close, NoRewind, NoPlan, RewindFields, Busy
<1> QED  BY <1>1, NoPlanHolds DEF FilesInv

-----------------------------------------------------------------------------
(* Writers of files                                                        *)

\* Lemma: a file written meanwhile is one that is not accounted for.
LEMMA WriteKeeps ==
  ASSUME FilesInv, NEW f \in File, NEW c, NEW who, Write(f, c, who), raced' = raced
  PROVE  FilesInv'
<1>1. RewindFields'
  BY DEF Write, RewindFields, FilesInv
<1>2. Files'
  BY DEF Write, Files, FilesInv
<1>3. /\ rw'.pc = rw.pc /\ rw'.action = rw.action /\ rw'.from = rw.from /\ rw'.to = rw.to
      /\ rw'.done = rw.done /\ rw'.undo = rw.undo /\ rw'.broken = rw.broken
  BY DEF Write, RewindFields, FilesInv
<1>4. Phases'
  BY <1>3 DEF FilesInv, Phases
<1>5. Accounted'
  <2>1. SUFFICES ASSUME rw.pc \in Busy \cup {"confirm"}, ~raced, ~rw.broken,
                        NEW g \in DOMAIN rw.from \ rw'.touched
                 PROVE  /\ Put(g) => content'[g] = rw.to[g]
                        /\ ~Put(g) => content'[g] = rw.from[g]
    <3>1. \A g : Put(g)' <=> Put(g)
      BY <1>3 DEF Put
    <3> QED  BY <1>3, <3>1 DEF Accounted, Busy
  <2>2. rw'.touched = rw.touched \cup {f}
    BY <2>1 DEF Write, RewindFields, FilesInv
  <2>3. g \in File /\ g # f /\ g \in DOMAIN rw.from \ rw.touched
    BY <2>1, <2>2 DEF FilesInv, Phases
  <2>4. content'[g] = content[g]
    BY <2>3 DEF Write, Files, FilesInv
  <2> QED  BY <2>1, <2>3, <2>4 DEF FilesInv, Accounted
<1> QED  BY <1>1, <1>2, <1>4, <1>5 DEF FilesInv

\* Lemma: whoever writes, one file is written.
LEMMA WritesWrite ==
  ASSUME Writes
  PROVE  raced' = raced /\ \E f \in File : \E c, who : Write(f, c, who)
<1>1. PICK f \in File :
        \/ UserRemoves(f)
        \/ \E r \in Regions[f] : UserWrites(f, r)
        \/ \E r \in Regions[f], s \in Session, i \in 1 .. MaxEdit + MaxPoint,
              supported \in BOOLEAN : AgentWrites(s, f, r, i, supported)
  BY DEF Writes
<1>2. \E c, who : Write(f, c, who)
  BY <1>1 DEF UserRemoves, UserWrites, AgentWrites
<1>3. raced' = raced
  BY <1>1 DEF UserRemoves, UserWrites, AgentWrites
<1> QED  BY <1>2, <1>3

\* Lemma: a write of the user or of a tool keeps the files invariant.
LEMMA WritesKeep == FilesInv /\ Writes => FilesInv'
BY WritesWrite, WriteKeeps

-----------------------------------------------------------------------------
(* The dialog and the plan                                                 *)

\* Lemma: a step of the dialog keeps the files invariant.
LEMMA DialogKeeps == FilesInv /\ DialogStep => FilesInv'
<1> SUFFICES ASSUME FilesInv, DialogStep  PROVE FilesInv'
  OBVIOUS
<1>0. raced \in BOOLEAN
  BY DEF FilesInv, Phases
<1>1. CASE Open
  <2>1. NoPlan /\ RewindFields'
    BY <1>1 DEF Open, NoRewind, NoPlan, RewindFields, Busy
  <2>2. content' = content /\ raced' = raced
    BY <1>1 DEF Open, facts
  <2> QED  BY <1>0, <2>1, <2>2, NoPlanHolds DEF FilesInv
<1>2. CASE Cancel
  <2>1. content' = content /\ raced' = raced
    BY <1>2 DEF Cancel, facts
  <2>2. CASE Close
    BY <1>0, <2>1, <2>2, CloseKeeps
  <2>3. CASE rw' = [NoRewind EXCEPT !.pc = "selecting", !.session = rw.session,
                                    !.listed = rw.listed]
    <3>1. NoPlan /\ RewindFields'
      BY <2>3 DEF NoRewind, NoPlan, RewindFields, Busy
    <3> QED  BY <1>0, <2>1, <3>1, NoPlanHolds DEF FilesInv
  <2> QED  BY <1>2, <2>2, <2>3 DEF Cancel
<1>3. ASSUME NEW p \in Point, Choose(p)  PROVE FilesInv'
  <2>1. rw.pc = "selecting" /\ rw' = [rw EXCEPT !.pc = "planning", !.point = p]
    BY <1>3 DEF Choose
  <2>2. content' = content /\ raced' = raced
    BY <1>3 DEF Choose, facts
  <2>3. RewindFields'
    BY <2>1 DEF RewindFields, FilesInv
  <2>4. /\ rw'.pc = "planning" /\ rw'.from = rw.from /\ rw'.to = rw.to
        /\ rw'.done = rw.done /\ rw'.undo = rw.undo /\ rw'.broken = rw.broken
    BY <2>1 DEF RewindFields, FilesInv
  <2> QED  BY <2>1, <2>2, <2>3, <2>4 DEF FilesInv, Files, Phases, Accounted, Busy
<1>4. ASSUME NEW a, Confirm(a)  PROVE FilesInv'
  <2>1. content' = content /\ raced' = raced /\ rw.pc = "confirm"
    BY <1>4 DEF Confirm, facts
  <2>2. CASE Close
    BY <1>0, <2>1, <2>2, CloseKeeps
  <2>3. CASE ~Close
    <3>1. \E p \in {"fork", "check", "drafting"} :
            /\ rw' = [rw EXCEPT !.action = a, !.pc = p]
            /\ p = "fork" => a = "conversation-only"
            /\ p = "check" => a # "conversation-only"
      BY <1>4, <2>3 DEF Confirm, Begin
    <3>2. PICK p \in {"fork", "check", "drafting"} :
            /\ rw' = [rw EXCEPT !.action = a, !.pc = p]
            /\ p = "fork" => a = "conversation-only"
            /\ p = "check" => a # "conversation-only"
      BY <3>1
    <3>3. RewindFields'
      BY <3>2 DEF RewindFields, FilesInv
    <3>4. /\ rw'.pc = p /\ rw'.from = rw.from /\ rw'.to = rw.to /\ rw'.action = a
          /\ rw'.done = rw.done /\ rw'.undo = rw.undo /\ rw'.broken = rw.broken
          /\ rw'.touched = rw.touched
      BY <3>2 DEF RewindFields, FilesInv
    <3>5. Phases'
      BY <2>1, <3>2, <3>4 DEF FilesInv, Phases, Busy
    <3>6. \A f : ~Put(f) /\ ~Put(f)'
      BY <2>1, <3>2, <3>4 DEF Put
    <3>7. Accounted'
      BY <2>1, <3>4, <3>6 DEF FilesInv, Accounted
    <3> QED  BY <2>1, <3>3, <3>5, <3>7 DEF FilesInv, Files
  <2> QED  BY <2>2, <2>3
<1> QED  BY <1>1, <1>2, <1>3, <1>4 DEF DialogStep

\* Lemma: a step of the planning keeps the files invariant.
LEMMA PlanKeeps == FilesInv /\ PlanStep => FilesInv'
<1> SUFFICES ASSUME FilesInv, PlanStep  PROVE FilesInv'
  OBVIOUS
<1>0. raced \in BOOLEAN
  BY DEF FilesInv, Phases
<1>1. CASE Listed \/ Select
  <2>1. content' = content /\ raced' = raced /\ rw.pc \in {"listing", "planning"}
    BY <1>1 DEF Listed, Select, facts
  <2>2. CASE Close
    BY <1>0, <2>1, <2>2, CloseKeeps
  <2>3. CASE ~Close
    <3> DEFINE points == Checkpoints(rw.session)
               listed == {points[i].id : i \in 1 .. Len(points)}
               chosen == SelectEffects(timeline, rw.session, rw.point)
    <3>1. \/ rw' = [rw EXCEPT !.pc = "selecting", !.listed = listed]
          \/ rw' = [rw EXCEPT !.pc = "preparing", !.scope = chosen.scope,
                              !.lineage = chosen.lineage, !.mutations = chosen.mutations]
      <4>1. CASE Listed
        BY <2>3, <4>1, Zenon DEF Listed
      <4>2. CASE Select
        BY <2>3, <4>2, Zenon DEF Select
      <4> QED  BY <1>1, <4>1, <4>2
    <3> HIDE DEF listed, chosen
    <3>2. RewindFields'
      BY <3>1 DEF RewindFields, FilesInv
    <3>3. /\ rw'.pc \in {"selecting", "preparing"} /\ rw'.from = rw.from /\ rw'.to = rw.to
          /\ rw'.done = rw.done /\ rw'.undo = rw.undo /\ rw'.broken = rw.broken
      BY <3>1 DEF RewindFields, FilesInv
    <3> QED  BY <2>1, <3>2, <3>3 DEF FilesInv, Files, Phases, Accounted, Busy
  <2> QED  BY <2>2, <2>3
<1>2. CASE Prepare
  <2> DEFINE files == {f \in File : EditsOf(f) # <<>>}
             to == [f \in files |-> PlanContent(content[f], EditsOf(f))]
             from == [f \in files |-> content[f]]
  <2>1. rw.pc = "preparing" /\ content' = content /\ raced' = raced
    BY <1>2 DEF Prepare, facts
  <2>2. \E state : rw' = [rw EXCEPT !.pc = "confirm", !.from = from, !.to = to,
                            !.mutations = <<>>, !.touched = {}, !.prepared = TRUE,
                            !.state = state]
    BY <1>2 DEF Prepare
  <2>3. DOMAIN from = files /\ DOMAIN to = files /\ files \subseteq File
        /\ \A f \in files : from[f] = content[f]
    OBVIOUS
  <2> HIDE DEF from, to
  <2>4. RewindFields'
    BY <2>2 DEF RewindFields, FilesInv
  <2>5. /\ rw'.pc = "confirm" /\ rw'.from = from /\ rw'.to = to /\ rw'.touched = {}
        /\ rw'.done = rw.done /\ rw'.undo = rw.undo /\ rw'.broken = rw.broken
    BY <2>2 DEF RewindFields, FilesInv
  <2> QED  BY <2>1, <2>3, <2>4, <2>5
           DEF FilesInv, Files, Phases, Accounted, Put, Busy
<1> QED  BY <1>1, <1>2 DEF PlanStep

-----------------------------------------------------------------------------
(* The transaction                                                         *)

\* Lemma: taking the draft keeps the files invariant.
LEMMA DraftedKeeps == FilesInv /\ Drafted => FilesInv'
<1> SUFFICES ASSUME FilesInv, Drafted  PROVE FilesInv'
  OBVIOUS
<1>1. content' = content /\ raced' = raced /\ raced \in BOOLEAN /\ rw.pc = "drafting"
  BY DEF Drafted, facts, FilesInv, Phases
<1>2. CASE Close
  BY <1>1, <1>2, CloseKeeps
<1>3. CASE ~Close
  <2>1. PICK p \in {"fork", "check"} :
          /\ rw' = [rw EXCEPT !.action = rw.action, !.pc = p]
          /\ p = "fork" <=> rw.action = "conversation-only"
    BY <1>3 DEF Drafted, Begin
  <2>2. RewindFields'
    BY <2>1 DEF RewindFields, FilesInv
  <2>3. /\ rw'.pc = p /\ rw'.from = rw.from /\ rw'.to = rw.to /\ rw'.action = rw.action
        /\ rw'.done = rw.done /\ rw'.undo = rw.undo /\ rw'.broken = rw.broken
        /\ rw'.touched = rw.touched
    BY <2>1 DEF RewindFields, FilesInv
  <2>4. Phases'
    BY <1>1, <2>1, <2>3 DEF FilesInv, Phases, Busy
  <2>5. \A f : ~Put(f) /\ ~Put(f)'
    BY <1>1, <2>1, <2>3 DEF Put
  <2>6. Accounted'
    BY <1>1, <2>3, <2>5 DEF FilesInv, Accounted, Busy
  <2> QED  BY <1>1, <2>2, <2>4, <2>6 DEF FilesInv, Files
<1> QED  BY <1>2, <1>3

\* Lemma: the check before the replacement keeps the files invariant.
LEMMA CheckKeeps == FilesInv /\ Check => FilesInv'
<1> SUFFICES ASSUME FilesInv, Check  PROVE FilesInv'
  OBVIOUS
<1>1. content' = content /\ raced \in BOOLEAN /\ rw.undo \in BOOLEAN /\ rw.pc = "check"
  BY DEF Check, facts, FilesInv, Phases
<1>2. CASE Close /\ raced' = (raced \/ rw.undo)
  <2>1. raced' \in BOOLEAN
    BY <1>2
  <2> QED  BY <1>1, <1>2, <2>1, CloseKeeps
<1>3. CASE rw' = [rw EXCEPT !.pc = "apply", !.done = {}] /\ UNCHANGED raced
  <2>1. RewindFields'
    BY <1>3 DEF RewindFields, FilesInv
  <2>2. /\ rw'.pc = "apply" /\ rw'.from = rw.from /\ rw'.to = rw.to /\ rw'.action = rw.action
        /\ rw'.done = {} /\ rw'.undo = rw.undo /\ rw'.broken = rw.broken
        /\ rw'.touched = rw.touched
    BY <1>3 DEF RewindFields, FilesInv
  <2>3. Phases'
    BY <1>1, <1>3, <2>2 DEF FilesInv, Phases, Busy
  <2>4. \A f : ~Put(f) /\ ~Put(f)'
    BY <1>1, <2>2 DEF Put
  <2>5. Accounted'
    BY <1>1, <1>3, <2>2, <2>4 DEF FilesInv, Accounted, Busy
  <2> QED  BY <1>1, <2>1, <2>3, <2>5 DEF FilesInv, Files
<1> QED  BY <1>2, <1>3 DEF Check

\* A file that is replaced, on the way forth or back, is afterwards what the
\* progress of the rewind tells, and the others are as they were.
LEMMA ReplaceKeeps ==
  ASSUME FilesInv, NEW f \in DOMAIN rw.to, NEW d,
         rw.pc \in {"apply", "rollback"},
         rw' = [rw EXCEPT !.done = d],
         \/ d = rw.done \cup {f} /\ Replace(f, rw.from[f], rw.to[f])
         \/ d = rw.done \ {f} /\ Replace(f, rw.to[f], rw.from[f])
  PROVE  FilesInv'
<1>1. RewindFields'
  BY DEF RewindFields, FilesInv
<1>2. /\ rw'.pc = rw.pc /\ rw'.from = rw.from /\ rw'.to = rw.to /\ rw'.action = rw.action
      /\ rw'.done = d /\ rw'.undo = rw.undo /\ rw'.broken = rw.broken
      /\ rw'.touched = rw.touched
  BY DEF RewindFields, FilesInv
<1>3. /\ raced' \in BOOLEAN /\ (~raced' => ~raced)
      /\ \/ d = rw.done \cup {f} /\ content' = [content EXCEPT ![f] = rw.to[f]]
         \/ d = rw.done \ {f} /\ content' = [content EXCEPT ![f] = rw.from[f]]
  BY DEF Replace, FilesInv, Phases
<1>4. f \in File
  BY DEF FilesInv, Phases
<1>5. Files'
  BY <1>3, <1>4 DEF Files, FilesInv
<1>6. Phases'
  BY <1>2, <1>3 DEF FilesInv, Phases, Busy
<1>7. Accounted'
  <2>1. SUFFICES ASSUME ~raced, ~rw.broken, NEW g \in DOMAIN rw.from \ rw.touched
                 PROVE  /\ g \in d => content'[g] = rw.to[g]
                        /\ g \notin d => content'[g] = rw.from[g]
    BY <1>2, <1>3 DEF Accounted, Put
  <2>2. /\ g \in rw.done => content[g] = rw.to[g]
        /\ g \notin rw.done => content[g] = rw.from[g]
    BY <2>1 DEF FilesInv, Accounted, Put, Busy
  <2>3. g \in File /\ (g # f => content'[g] = content[g])
        /\ (d = rw.done \cup {f} => content'[f] = rw.to[f] \/ d = rw.done \ {f})
        /\ (d = rw.done \ {f} => content'[f] = rw.from[f] \/ d = rw.done \cup {f})
    BY <1>3, <1>4, <2>1 DEF FilesInv, Files, Phases
  <2>4. CASE d = rw.done \cup {f}
    BY <2>2, <2>3, <2>4
  <2>5. CASE d = rw.done \ {f}
    BY <2>2, <2>3, <2>5
  <2> QED  BY <1>3, <2>4, <2>5
<1> QED  BY <1>1, <1>5, <1>6, <1>7 DEF FilesInv

\* Lemma: replacing a file or rolling it back keeps the files invariant.
LEMMA ApplyKeeps ==
  ASSUME FilesInv, NEW f, ApplyFile(f) \/ Rollback(f)
  PROVE  FilesInv'
<1>1. rw.done \subseteq DOMAIN rw.to
  BY DEF FilesInv, Phases
<1>2. CASE ApplyFile(f)
  <2> DEFINE d == rw.done \cup {f}
  <2>1. /\ rw.pc = "apply" /\ f \in DOMAIN rw.to
        /\ Replace(f, rw.from[f], rw.to[f]) /\ rw' = [rw EXCEPT !.done = d] /\ d = rw.done \cup {f}
    BY <1>2 DEF ApplyFile
  <2> HIDE DEF d
  <2> QED  BY <2>1, ReplaceKeeps
<1>3. CASE Rollback(f)
  <2> DEFINE d == rw.done \ {f}
  <2>1. /\ rw.pc = "rollback" /\ f \in DOMAIN rw.to
        /\ Replace(f, rw.to[f], rw.from[f]) /\ rw' = [rw EXCEPT !.done = d] /\ d = rw.done \ {f}
    BY <1>1, <1>3 DEF Rollback
  <2> HIDE DEF d
  <2> QED  BY <2>1, ReplaceKeeps
<1> QED  BY <1>2, <1>3

\* Lemma: a replacement or a rollback that fails keeps the files invariant.
LEMMA FailedKeeps ==
  ASSUME FilesInv, ApplyFailed \/ \E f \in File : RollbackFailed(f)
  PROVE  FilesInv'
<1>1. content' = content /\ raced' = raced
  BY DEF ApplyFailed, RollbackFailed, facts
<1>2. CASE ApplyFailed
  <2>0. rw.pc = "apply" /\ rw' = [rw EXCEPT !.pc = "rollback"]
    BY <1>2 DEF ApplyFailed
  <2>1. RewindFields'
    BY <2>0 DEF RewindFields, FilesInv
  <2>2. /\ rw'.pc = "rollback" /\ rw'.from = rw.from /\ rw'.to = rw.to
        /\ rw'.action = rw.action /\ rw'.done = rw.done /\ rw'.undo = rw.undo
        /\ rw'.broken = rw.broken /\ rw'.touched = rw.touched
    BY <2>0 DEF RewindFields, FilesInv
  <2>3. Phases'
    BY <1>1, <2>0, <2>2 DEF FilesInv, Phases, Busy
  <2>4. \A f : Put(f) <=> Put(f)'
    BY <2>0, <2>2 DEF Put
  <2>5. Accounted'
    BY <1>1, <2>0, <2>2, <2>4 DEF FilesInv, Accounted, Busy
  <2> QED  BY <1>1, <2>1, <2>3, <2>5 DEF FilesInv, Files
<1>3. CASE \E f \in File : RollbackFailed(f)
  <2>1. PICK f \in File :
          /\ rw.pc = "rollback" /\ f \in rw.done
          /\ rw' = [rw EXCEPT !.done = rw.done \ {f}, !.broken = TRUE]
    BY <1>3 DEF RollbackFailed
  <2>2. RewindFields'
    BY <2>1 DEF RewindFields, FilesInv
  <2>3. /\ rw'.pc = rw.pc /\ rw'.from = rw.from /\ rw'.to = rw.to
        /\ rw'.action = rw.action /\ rw'.done = rw.done \ {f} /\ rw'.undo = rw.undo
        /\ rw'.broken = TRUE
    BY <2>1 DEF RewindFields, FilesInv
  <2> QED  BY <1>1, <2>1, <2>2, <2>3 DEF FilesInv, Files, Phases, Accounted, Busy
<1> QED  BY <1>2, <1>3

\* Lemma: the end of the replacement keeps the files invariant.
LEMMA RestoredKeeps == FilesInv /\ Restored => FilesInv'
<1> SUFFICES ASSUME FilesInv, Restored  PROVE FilesInv'
  OBVIOUS
<1>1. /\ content' = content /\ raced' = raced /\ raced \in BOOLEAN
      /\ rw.pc = "apply" /\ rw.done = DOMAIN rw.to
  BY DEF Restored, facts, FilesInv, Phases
<1>2. CASE Close
  BY <1>1, <1>2, CloseKeeps
<1>3. CASE ~Close
  <2>1. PICK p \in {"commit", "fork"} : rw' = [rw EXCEPT !.pc = p] /\ ~rw.undo
    BY <1>3 DEF Restored
  <2>2. RewindFields'
    BY <2>1 DEF RewindFields, FilesInv
  <2>3. /\ rw'.pc = p /\ rw'.from = rw.from /\ rw'.to = rw.to /\ rw'.action = rw.action
        /\ rw'.done = rw.done /\ rw'.undo = rw.undo /\ rw'.broken = rw.broken
        /\ rw'.touched = rw.touched
    BY <2>1 DEF RewindFields, FilesInv
  <2>4. Phases'
    BY <1>1, <2>1, <2>3 DEF FilesInv, Phases, Busy
  <2>5. \A f \in DOMAIN rw.from : Put(f) /\ Put(f)'
    BY <1>1, <2>1, <2>3 DEF Put, FilesInv, Phases
  <2>6. Accounted'
    BY <1>1, <2>3, <2>5 DEF FilesInv, Accounted, Busy
  <2> QED  BY <1>1, <2>2, <2>4, <2>6 DEF FilesInv, Files
<1> QED  BY <1>2, <1>3

\* Lemma: the end of the rollback keeps the files invariant.
LEMMA RolledBackKeeps == FilesInv /\ RolledBack => FilesInv'
<1> SUFFICES ASSUME FilesInv, RolledBack  PROVE FilesInv'
  OBVIOUS
<1>1. content' = content /\ Close /\ raced' = (raced \/ (rw.undo \/ rw.broken))
  BY DEF RolledBack, facts
<1>2. raced' \in BOOLEAN
  BY <1>1 DEF FilesInv, Phases
<1> QED  BY <1>1, <1>2, CloseKeeps

\* What the compensation has to put back is what the code phase has left.
LEMMA CompensateKeeps ==
  ASSUME FilesInv, rw.pc \in {"fork", "open", "commit"}, Compensate,
         content' = content, raced' = raced
  PROVE  FilesInv'
<1>1. CASE Close
  BY <1>1, CloseKeeps DEF FilesInv, Phases
<1>2. CASE ~Close
  <2>1. /\ rw.action # "conversation-only"
        /\ rw' = [rw EXCEPT !.pc = "check", !.undo = TRUE, !.from = rw.to, !.to = rw.from]
    BY <1>2 DEF Compensate
  <2>2. RewindFields'
    BY <2>1 DEF RewindFields, FilesInv
  <2>3. /\ rw'.pc = "check" /\ rw'.from = rw.to /\ rw'.to = rw.from /\ rw'.action = rw.action
        /\ rw'.done = rw.done /\ rw'.undo = TRUE /\ rw'.broken = rw.broken
        /\ rw'.touched = rw.touched
    BY <2>1 DEF RewindFields, FilesInv
  <2>4. Phases'
    BY <2>1, <2>3 DEF FilesInv, Phases, Busy
  <2>5. \A f : Put(f) /\ ~Put(f)'
    BY <2>1, <2>3 DEF Put
  <2>6. Accounted'
    BY <2>3, <2>5 DEF FilesInv, Accounted, Phases, Busy
  <2> QED  BY <2>2, <2>4, <2>6 DEF FilesInv, Files
<1> QED  BY <1>1, <1>2

\* Lemma: the fork and its opening keep the files invariant.
LEMMA ConversationKeeps ==
  ASSUME FilesInv, Fork \/ OpenFork
  PROVE  FilesInv'
<1>1. content' = content /\ raced' = raced /\ rw.pc \in {"fork", "open"}
  BY DEF Fork, OpenFork, facts
<1>2. \/ rw' = [rw EXCEPT !.pc = "open", !.target = sessions + 1]
      \/ rw' = [rw EXCEPT !.pc = "commit"]
  BY DEF Fork, OpenFork
<1>3. RewindFields'
  BY <1>2 DEF RewindFields, FilesInv
<1>4. /\ rw'.pc \in {"open", "commit"} /\ rw'.from = rw.from /\ rw'.to = rw.to
      /\ rw'.action = rw.action /\ rw'.done = rw.done /\ rw'.undo = rw.undo
      /\ rw'.broken = rw.broken /\ rw'.touched = rw.touched
  BY <1>2 DEF RewindFields, FilesInv
<1>5. Phases'
  BY <1>1, <1>4 DEF FilesInv, Phases, Busy
<1>6. \A f : Put(f) <=> Put(f)'
  BY <1>1, <1>4 DEF Put
<1>7. Accounted'
  BY <1>1, <1>4, <1>6 DEF FilesInv, Accounted, Busy
<1> QED  BY <1>1, <1>3, <1>5, <1>7 DEF FilesInv, Files

\* Lemma: the commit keeps the files invariant.
LEMMA CommitKeeps == FilesInv /\ Commit => FilesInv'
<1> SUFFICES ASSUME FilesInv, Commit  PROVE FilesInv'
  OBVIOUS
<1>1. content' = content /\ rw.pc = "commit"
  BY DEF Commit, facts
<1>2. CASE Compensate /\ raced' = raced
  BY <1>1, <1>2, CompensateKeeps
<1>3. CASE Close /\ raced' = (raced \/ (rw.action # "conversation-only" /\ rw.unplanned))
  <2>1. raced' \in BOOLEAN
    BY <1>3 DEF FilesInv, Phases
  <2> QED  BY <1>1, <1>3, <2>1, CloseKeeps
<1> QED  BY <1>2, <1>3 DEF Commit

\* Lemma: every step of the transaction keeps the files invariant.
LEMMA TransactionKeeps == FilesInv /\ TransactionStep => FilesInv'
<1> SUFFICES ASSUME FilesInv, TransactionStep  PROVE FilesInv'
  OBVIOUS
<1>1. CASE ConversationFailed
  <2>1. /\ rw.pc \in {"fork", "open"} /\ Compensate
        /\ content' = content /\ raced' = raced
    BY <1>1 DEF ConversationFailed, facts
  <2> QED  BY <2>1, CompensateKeeps
<1>2. ASSUME NEW f \in File, ApplyFile(f) \/ Rollback(f)  PROVE FilesInv'
  BY <1>2, ApplyKeeps
<1> QED  BY <1>1, <1>2, DraftedKeeps, CheckKeeps, FailedKeeps, RestoredKeeps,
            RolledBackKeeps, ConversationKeeps, CommitKeeps DEF TransactionStep

-----------------------------------------------------------------------------

\* Lemma: the files invariant holds at the start.
LEMMA FilesInit == Init => FilesInv
<1> SUFFICES ASSUME Init  PROVE FilesInv
  OBVIOUS
<1>1. RewindFields
  BY DEF Init, NoRewind, RewindFields
<1>2. Files
  BY DEF Init, Files
<1>3. /\ rw.pc = "idle" /\ rw.from = <<>> /\ rw.to = <<>> /\ rw.done = {}
      /\ rw.undo = FALSE /\ rw.broken = FALSE /\ raced = FALSE
  BY DEF Init, NoRewind
<1>4. DOMAIN <<>> = {}
  OBVIOUS
<1>5. Phases
  BY <1>3, <1>4 DEF Phases, Busy
<1>6. Accounted
  BY <1>3 DEF Accounted, Busy
<1> QED  BY <1>1, <1>2, <1>5, <1>6 DEF FilesInv

\* Lemma: every step keeps the files invariant.
LEMMA FilesStep == FilesInv /\ [Next]_vars => FilesInv'
<1> SUFFICES ASSUME FilesInv, [Next]_vars  PROVE FilesInv'
  OBVIOUS
<1>1. CASE UNCHANGED vars
  BY <1>1, RestKeeps DEF vars, facts
<1>2. ASSUME NEW s \in Session, NextQueued(s) \/ Resume(s)  PROVE FilesInv'
  BY <1>2, RestKeeps DEF NextQueued, Resume, facts
<1>3. ASSUME NEW s \in Session, Ingest(s)  PROVE FilesInv'
  <2>1. /\ \E edited, kept : Ingested(s, edited, kept)
        /\ content' = content /\ raced' = raced
    BY <1>3 DEF Ingest, IngestPoint, IngestMutation, facts
  <2> QED  BY <2>1, IngestedKeeps
<1>4. CASE Prompt \/ Restart
  BY <1>4, RestKeeps DEF Prompt, Restart, facts
<1> QED  BY <1>1, <1>2, <1>3, <1>4, WritesKeep, DialogKeeps, PlanKeeps, TransactionKeeps
         DEF Next

-----------------------------------------------------------------------------
(* A rewind that fails                                                     *)

\* Where a rewind ends without its commit, every planned file that nobody else
\* has written is as it was before the rewind.
LEMMA EndRestores ==
  ASSUME FilesInv, [Next]_vars, rw.pc \in Busy \ {"commit"}, rw'.pc = "idle", ~raced',
         NEW f \in DOMAIN rw.from \ rw.touched
  PROVE  content'[f] = IF rw.undo THEN rw.to[f] ELSE rw.from[f]
<1>0. /\ rw.undo \in BOOLEAN /\ rw.broken \in BOOLEAN /\ raced \in BOOLEAN
      /\ rw.undo => rw.pc \in {"check", "apply", "rollback"}
      /\ rw.broken => rw.pc = "rollback"
      /\ DOMAIN rw.from = DOMAIN rw.to
  BY DEF FilesInv, Phases
<1>1. ~raced /\ ~rw.broken =>
        /\ Put(f) => content[f] = rw.to[f]
        /\ ~Put(f) => content[f] = rw.from[f]
  BY DEF FilesInv, Accounted
<1>2. CASE Drafted
  <2>1. content' = content /\ rw.pc = "drafting" /\ ~raced
    BY <1>2 DEF Drafted, facts
  <2> QED  BY <1>0, <1>1, <2>1 DEF Put
<1>3. CASE Check
  <2>1. content' = content /\ rw.pc = "check"
    BY <1>3 DEF Check, facts
  <2>2. CASE rw' = [rw EXCEPT !.pc = "apply", !.done = {}]
    BY <2>2 DEF RewindFields, FilesInv
  <2>3. CASE raced' = (raced \/ rw.undo)
    BY <1>0, <1>1, <2>1, <2>3 DEF Put
  <2> QED  BY <1>3, <2>2, <2>3 DEF Check
<1>4. CASE Restored
  <2>1. /\ content' = content /\ raced' = raced
        /\ rw.pc = "apply" /\ rw.done = DOMAIN rw.to
    BY <1>4 DEF Restored, facts
  <2>2. CASE rw.undo
    BY <1>0, <1>1, <2>1, <2>2 DEF Put
  <2>3. CASE ~rw.undo
    <3>1. \E p \in {"commit", "fork"} : rw' = [rw EXCEPT !.pc = p]
      BY <1>4, <2>3 DEF Restored
    <3> QED  BY <3>1 DEF RewindFields, FilesInv
  <2> QED  BY <2>2, <2>3
<1>5. CASE RolledBack
  <2>1. /\ content' = content /\ rw.pc = "rollback" /\ rw.done = {}
        /\ raced' = (raced \/ (rw.undo \/ rw.broken))
    BY <1>5 DEF RolledBack, facts
  <2> QED  BY <1>0, <1>1, <2>1 DEF Put
<1>6. CASE ConversationFailed
  <2>1. content' = content /\ raced' = raced /\ rw.pc \in {"fork", "open"} /\ Compensate
    BY <1>6 DEF ConversationFailed, facts
  <2>2. CASE rw.action = "conversation-only"
    BY <1>0, <1>1, <2>1, <2>2 DEF Put
  <2>3. CASE rw.action # "conversation-only"
    <3>1. rw' = [rw EXCEPT !.pc = "check", !.undo = TRUE, !.from = rw.to, !.to = rw.from]
      BY <2>1, <2>3 DEF Compensate
    <3> QED  BY <3>1 DEF RewindFields, FilesInv
  <2> QED  BY <2>2, <2>3
<1>7. CASE rw'.pc = rw.pc
  BY <1>7 DEF Busy
<1>8. CASE TransactionStep
  <2>1. Fork \/ OpenFork => rw'.pc \in {"open", "commit"}
    BY DEF Fork, OpenFork, RewindFields, FilesInv
  <2>2. ApplyFailed => rw'.pc = "rollback"
    BY DEF ApplyFailed, RewindFields, FilesInv
  <2>3. \A g \in File : ApplyFile(g) \/ Rollback(g) \/ RollbackFailed(g) => rw'.pc = rw.pc
    BY DEF ApplyFile, Rollback, RollbackFailed, RewindFields, FilesInv
  <2>4. ~Commit
    BY DEF Commit
  <2> QED  BY <1>2, <1>3, <1>4, <1>5, <1>6, <1>7, <1>8, <2>1, <2>2, <2>3, <2>4
           DEF TransactionStep
<1>9. CASE ~TransactionStep
  <2>1. Writes => rw'.pc = rw.pc
    <3>1. ASSUME NEW g, NEW c, NEW who, Write(g, c, who)  PROVE rw'.pc = rw.pc
      BY <3>1 DEF Write, RewindFields, FilesInv
    <3> QED  BY <3>1, WritesWrite
  <2>2. \A s \in Session : Ingest(s) => rw'.pc = rw.pc
    BY DEF Ingest, IngestPoint, IngestMutation, Ingested, RewindFields, FilesInv
  <2>3. ~DialogStep /\ ~PlanStep
    BY DEF DialogStep, PlanStep, Open, Cancel, Choose, Confirm, Listed, Select, Prepare, Busy
  <2>4. \A s \in Session : NextQueued(s) \/ Resume(s) => rw'.pc = rw.pc
    BY DEF NextQueued, Resume
  <2>5. Prompt \/ Restart \/ UNCHANGED vars => rw'.pc = rw.pc
    BY DEF Prompt, Restart, vars
  <2> QED  BY <1>7, <1>9, <2>1, <2>2, <2>3, <2>4, <2>5 DEF Next
<1> QED  BY <1>8, <1>9

\* A rewind that ends before its commit, and does not report that it could not be
\* undone, leaves every planned file as it was, unless somebody wrote it meanwhile
\* (applyStates() and its rollback, and the compensation of restore()).
THEOREM FailuresRestore == Spec => FailureRestores
<1>1. FilesInv /\ [Next]_vars =>
        [rw.pc \in Busy \ {"commit"} /\ rw'.pc = "idle" /\ ~raced' =>
           \A f \in DOMAIN rw.from \ rw.touched :
             content'[f] = IF rw.undo THEN rw.to[f] ELSE rw.from[f]]_vars
  BY EndRestores
<1> QED  BY <1>1, FilesInit, FilesStep, PTL DEF Spec, FailureRestores

-----------------------------------------------------------------------------
(* What is recorded of the edits                                           *)

\* The edits that a rewind has to spare; 0 is what the files began with.
Users == {e \in 0 .. Len(edits) : ByUser(e)}

ContentsOf(f) == Contents(Regions[f], Len(edits))

\* What may be recorded of a file: an edit that put nothing of the user's into it.
EditsFor(f) ==
  {m \in [edit : Nat, order : Nat, file : {f}, before : ContentsOf(f),
          after : [Regions[f] -> 0 .. Len(edits)], reversible : BOOLEAN] :
     OthersEdit(Regions[f], Len(edits), Users, m)}

AgentEdit == UNION {EditsFor(f) : f \in File}

Item == [kind : {"point"}, point : Checkpoint]
          \cup [kind : {"mutation"}, turn : Nat, mutation : AgentEdit]

EditsInv == order \in Nat /\ edits \in Seq([by : Nat, file : File])

\* Only a Session that has been created has Prompts, and its agent works on the last.
HostInv ==
  /\ history \in [Session -> Seq(Point)]
  /\ sessions \in Session /\ active \in 1 .. sessions
  /\ \A s \in Session : s > sessions => history[s] = <<>>
  /\ working \subseteq 1 .. sessions /\ \A s \in working : history[s] # <<>>

\* Nothing of the user's is recorded, neither by the journal nor on the way there.
JournalInv ==
  /\ ingest \in [Session -> Seq(Item)]
  /\ timeline \in Timeline(AgentEdit)

\* A rewind is about a Prompt of its Session.
Chosen ==
  rw.pc \in {"preparing", "confirm"} \cup Busy =>
    \E i \in 1 .. Len(history[rw.session]) : history[rw.session][i] = rw.point

RewindInv ==
  /\ rw.session \in 1 .. sessions
  /\ rw.target \in 0 .. sessions /\ (rw.pc = "open" => rw.target # 0)
  /\ rw.mutations \in Seq(AgentEdit)
  /\ Chosen

RecordsInv == EditsInv /\ HostInv /\ JournalInv /\ RewindInv

-----------------------------------------------------------------------------
(* What the steps leave alone                                              *)

\* Lemma: the dialog writes nothing.
LEMMA DialogUnchanged ==
  DialogStep \/ PlanStep =>
    UNCHANGED <<content, edits, order, sessions, history, working, active, ingest, timeline>>
BY DEF DialogStep, PlanStep, Open, Cancel, Choose, Confirm, Listed, Select, Prepare,
       facts, log, host, journal

\* Lemma: the transaction edits nothing, and only its last phases tell the
\* journal and the Host.
LEMMA TransactionUnchanged ==
  ASSUME TransactionStep
  PROVE  /\ UNCHANGED <<edits, order, ingest>>
         /\ Commit \/ UNCHANGED timeline
         /\ Fork \/ OpenFork \/ UNCHANGED <<sessions, history, working, active>>
BY DEF TransactionStep, Drafted, Check, Restored, RolledBack, Fork, OpenFork, Commit,
       ApplyFailed, ConversationFailed, ApplyFile, Rollback, RollbackFailed,
       facts, log, host, journal

\* Lemma: the journal reads.
LEMMA IngestUnchanged ==
  ASSUME NEW s, Ingest(s)
  PROVE  UNCHANGED <<content, edits, order, sessions, history, working, active>>
BY DEF Ingest, IngestPoint, IngestMutation, facts, log, host

\* Lemma: whoever writes, the edit is noted, and an agent's is told to the journal.
LEMMA WritesRecord ==
  ASSUME Writes
  PROVE  /\ UNCHANGED <<sessions, history, working, active, timeline>>
         /\ \E f \in File :
              \/ \E c \in {Absent} \cup {Written(f, r) : r \in Regions[f]} :
                   Write(f, c, User) /\ UNCHANGED <<order, ingest>>
              \/ \E r \in Regions[f], s \in Session, i \in 1 .. MaxEdit + MaxPoint,
                    supported \in BOOLEAN : AgentWrites(s, f, r, i, supported)
<1>1. PICK f \in File :
        \/ UserRemoves(f)
        \/ \E r \in Regions[f] : UserWrites(f, r)
        \/ \E r \in Regions[f], s \in Session, i \in 1 .. MaxEdit + MaxPoint,
              supported \in BOOLEAN : AgentWrites(s, f, r, i, supported)
  BY DEF Writes
<1>2. UNCHANGED <<sessions, history, working, active, timeline>>
  BY <1>1 DEF UserRemoves, UserWrites, AgentWrites, host, journal
<1>3. \/ \E c \in {Absent} \cup {Written(f, r) : r \in Regions[f]} :
           Write(f, c, User) /\ UNCHANGED <<order, ingest>>
      \/ \E r \in Regions[f], s \in Session, i \in 1 .. MaxEdit + MaxPoint,
            supported \in BOOLEAN : AgentWrites(s, f, r, i, supported)
  BY <1>1 DEF UserRemoves, UserWrites, journal
<1> QED  BY <1>2, <1>3

-----------------------------------------------------------------------------
(* The edits grow                                                          *)

\* Lemma: an edit more changes nothing that is said of the earlier ones.
LEMMA EditsGrow ==
  ASSUME EditsInv, NEW who \in Nat, NEW f \in File,
         edits' = Append(edits, [by |-> who, file |-> f])
  PROVE  /\ edits' \in Seq([by : Nat, file : File]) /\ Len(edits') = Len(edits) + 1
         /\ \A e \in 0 .. Len(edits) : e \in Users <=> e \in Users'
         /\ Len(edits) + 1 \in Users' <=> who = User
         /\ \A g \in File : ContentsOf(g) \subseteq ContentsOf(g)'
         /\ AgentEdit \subseteq AgentEdit'
<1>1. edits' \in Seq([by : Nat, file : File]) /\ Len(edits') = Len(edits) + 1
  BY DEF EditsInv
<1>2. /\ \A e \in 1 .. Len(edits) : edits'[e] = edits[e]
      /\ edits'[Len(edits) + 1] = [by |-> who, file |-> f]
  BY DEF EditsInv
<1>3. Len(edits) \in Nat
  BY DEF EditsInv
<1>4. \A e \in 0 .. Len(edits) : e \in Users <=> e \in Users'
  BY <1>1, <1>2, <1>3 DEF Users, ByUser
<1>5. Len(edits) + 1 \in Users' <=> who = User
  BY <1>1, <1>2, <1>3 DEF Users, ByUser
<1>6. \A g \in File : ContentsOf(g) \subseteq ContentsOf(g)'
  BY <1>1, <1>3 DEF ContentsOf, Contents
<1>7. ASSUME NEW g \in File, NEW m \in EditsFor(g)  PROVE m \in EditsFor(g)'
  <2>1. /\ m \in [edit : Nat, order : Nat, file : {g}, before : ContentsOf(g),
                  after : [Regions[g] -> 0 .. Len(edits)], reversible : BOOLEAN]
        /\ OthersEdit(Regions[g], Len(edits), Users, m)
    BY <1>7 DEF EditsFor
  <2>2. m.after \in [Regions[g] -> 0 .. Len(edits')]
    BY <1>1, <1>3, <2>1
  <2>3. m.before \in ContentsOf(g)'
    BY <1>6, <2>1
  <2>4. m \in [edit : Nat, order : Nat, file : {g}, before : ContentsOf(g)',
               after : [Regions[g] -> 0 .. Len(edits')], reversible : BOOLEAN]
    BY <2>1, <2>2, <2>3
  <2>5. \A r \in Regions[g] : m.after[r] \in Users' => m.after[r] \in Users
    BY <1>4, <2>1
  <2>6. OthersEdit(Regions[g], Len(edits'), Users', m)
    BY <2>1, <2>2, <2>3, <2>5 DEF OthersEdit, ContentsOf
  <2> QED  BY <2>4, <2>6 DEF EditsFor
<1>8. AgentEdit \subseteq AgentEdit'
  BY <1>7 DEF AgentEdit
<1> QED  BY <1>1, <1>4, <1>5, <1>6, <1>8

\* Lemma: what is recorded stays so.
LEMMA RecordsGrow ==
  ASSUME AgentEdit \subseteq AgentEdit'
  PROVE  /\ Seq(AgentEdit) \subseteq Seq(AgentEdit')
         /\ Item \subseteq Item'
         /\ Timeline(AgentEdit) \subseteq Timeline(AgentEdit')
<1>1. Seq(AgentEdit) \subseteq Seq(AgentEdit')
  OBVIOUS
<1>2. Item \subseteq Item'
  BY DEF Item
<1>3. Node(AgentEdit) \subseteq Node(AgentEdit')
  BY <1>1 DEF Node
<1>4. Seq(Node(AgentEdit)) \subseteq Seq(Node(AgentEdit'))
  BY <1>3
<1>5. Timeline(AgentEdit) \subseteq Timeline(AgentEdit')
  BY <1>4 DEF Timeline, Recording
<1> QED  BY <1>1, <1>2, <1>5

\* Lemma: the numbers of the edits are all that an edit is judged by.
LEMMA SameEdits ==
  ASSUME edits' = edits
  PROVE  /\ AgentEdit' = AgentEdit /\ Users' = Users /\ Item' = Item
         /\ \A f \in File : ContentsOf(f)' = ContentsOf(f)
BY DEF AgentEdit, EditsFor, Users, ByUser, Item, ContentsOf, File

-----------------------------------------------------------------------------
(* The Sessions                                                            *)

\* Lemma: the checkpoints of a Session name its Prompts.
LEMMA CheckpointsType ==
  ASSUME HostInv, NEW s \in Session
  PROVE  Checkpoints(s) \in
           Seq({c \in Checkpoint : \E i \in 1 .. Len(history[s]) : history[s][i] = c.id})
<1> DEFINE S == {c \in Checkpoint : \E i \in 1 .. Len(history[s]) : history[s][i] = c.id}
           points == [i \in 1 .. Len(history[s]) |->
                        [id |-> history[s][i], session |-> s, turn |-> i]]
<1>1. history[s] \in Seq(Point) /\ Len(history[s]) \in Nat /\ s \in Nat
  BY DEF HostInv, Session
<1>2. ASSUME NEW i \in 1 .. Len(history[s])
      PROVE  [id |-> history[s][i], session |-> s, turn |-> i] \in S
  <2>1. history[s][i] \in Point /\ i \in Nat
    BY <1>1
  <2>2. history[s][i] \in Nat
    BY <2>1, TransactionAssumption DEF Point
  <2> QED  BY <1>1, <2>1, <2>2 DEF Checkpoint
<1>3. points \in Seq(S)
  <2> HIDE DEF S
  <2>1. points \in [1 .. Len(history[s]) -> S]
    BY <1>2
  <2> QED  BY <1>1, <2>1
<1> HIDE DEF S, points
<1>4. LastPoints(points) \in Seq(S)
  BY <1>3, LastPointsType
<1> QED  BY <1>4 DEF Checkpoints, S, points

\* Lemma: the number of a new Prompt.
LEMMA AdmitPoint ==
  ASSUME HostInv, NEW s \in Session, Admit(s)
  PROVE  Points + 1 \in Point
<1> DEFINE all == UNION {{history[t][i] : i \in 1 .. Len(history[t])} : t \in Session}
<1>1. Points = Cardinality(all) /\ Points < MaxPoint
  BY DEF Points, Admit
<1>2. all \in SUBSET Point
  <2>1. \A t \in Session : \A i \in 1 .. Len(history[t]) : history[t][i] \in Point
    BY DEF HostInv
  <2> QED  BY <2>1
<1> HIDE DEF all
<1>3. MaxPoint \in Nat /\ IsFiniteSet(Point)
  BY FS_Interval, TransactionAssumption DEF Point
<1>4. Points \in Nat
  BY <1>1, <1>2, <1>3, FS_Subset, FS_CardinalityType
<1> QED  BY <1>1, <1>3, <1>4 DEF Point

\* Lemma: a Prompt more.
LEMMA AdmitKeeps ==
  ASSUME HostInv, NEW s \in 1 .. sessions, Admit(s),
         UNCHANGED <<sessions, active>>, working' \subseteq working \cup {s}
  PROVE  HostInv'
<1>1. s \in Session /\ sessions \in Session /\ 1 .. sessions \subseteq Session
  BY TransactionAssumption DEF HostInv, Session
<1>2. history' = [history EXCEPT ![s] = Append(@, Points + 1)]
  BY DEF Admit
<1>3. Points + 1 \in Point
  BY <1>1, AdmitPoint
<1> HIDE DEF Points
<1>4. history' \in [Session -> Seq(Point)]
  BY <1>1, <1>2, <1>3 DEF HostInv
<1>5. history'[s] # <<>> /\ \A t \in Session : t # s => history'[t] = history[t]
  <2>1. history[s] \in Seq(Point) /\ history'[s] = Append(history[s], Points + 1)
    BY <1>1, <1>2 DEF HostInv
  <2>2. Append(history[s], Points + 1) # <<>>
    BY <1>3, <2>1
  <2> QED  BY <1>1, <1>2, <2>1, <2>2 DEF HostInv
<1>6. \A t \in Session : t > sessions => t # s
  BY <1>1 DEF Session
<1>7. \A t \in working' : t \in Session /\ history'[t] # <<>> /\ t \in 1 .. sessions
  BY <1>1, <1>5 DEF HostInv
<1> QED  BY <1>1, <1>4, <1>5, <1>6, <1>7 DEF HostInv

\* Lemma: a Session more, with the Prompts before the one that is undone.
LEMMA ForkKeeps ==
  ASSUME HostInv, RewindInv, Fork
  PROVE  HostInv'
<1> DEFINE prompts == history[rw.session]
           before == CHOOSE i \in 1 .. Len(prompts) : prompts[i] = rw.point
           branch == SubSeq(prompts, 1, before - 1)
<1>1. /\ rw.pc = "fork" /\ sessions < MaxSession /\ sessions' = sessions + 1
      /\ history' = [history EXCEPT ![sessions + 1] = branch]
      /\ working' = working /\ active' = active
  BY DEF Fork
<1>2. rw.session \in Session /\ sessions \in Nat /\ MaxSession \in Nat
      /\ sessions + 1 \in Session /\ prompts \in Seq(Point)
  BY <1>1, TransactionAssumption DEF RewindInv, HostInv, Session
<1>3. before \in 1 .. Len(prompts)
  <2>1. \E i \in 1 .. Len(prompts) : prompts[i] = rw.point
    BY <1>1 DEF RewindInv, Chosen, Busy
  <2> QED  BY <2>1
<1>4. branch \in Seq(Point)
  <2>1. \A i \in 1 .. before - 1 : prompts[i] \in Point
    BY <1>2, <1>3
  <2> HIDE DEF before, prompts
  <2> QED  BY <1>3, <2>1, SubSeqProperties
<1> HIDE DEF branch
<1>5. history' \in [Session -> Seq(Point)]
  BY <1>1, <1>2, <1>4 DEF HostInv
<1>6. \A s \in Session : s # sessions + 1 => history'[s] = history[s]
  BY <1>1, <1>2 DEF HostInv
<1>7. \A s \in Session : s > sessions' => history'[s] = <<>>
  BY <1>1, <1>2, <1>6 DEF HostInv, Session
<1>8. \A s \in working' : s # sessions + 1 /\ s \in Session /\ s \in 1 .. sessions'
  BY <1>1, <1>2 DEF HostInv, Session
<1>9. active' \in 1 .. sessions'
  BY <1>1, <1>2 DEF HostInv
<1> QED  BY <1>1, <1>2, <1>5, <1>6, <1>7, <1>8, <1>9 DEF HostInv

\* Lemma: every step keeps what is known of the Host.
LEMMA HostStep == RecordsInv /\ [Next]_vars => HostInv'
<1> SUFFICES ASSUME RecordsInv, [Next]_vars  PROVE HostInv'
  OBVIOUS
<1>0. HostInv /\ RewindInv
  BY DEF RecordsInv
<1>1. CASE UNCHANGED <<sessions, history, working, active>>
  BY <1>0, <1>1 DEF HostInv, Session, Point
<1>2. CASE Prompt
  <2>1. Admit(active) /\ UNCHANGED <<sessions, active>> /\ working' \subseteq working \cup {active}
    BY <1>2 DEF Prompt
  <2>2. active \in 1 .. sessions
    BY <1>0 DEF HostInv
  <2> QED  BY <1>0, <2>1, <2>2, AdmitKeeps
<1>3. ASSUME NEW s \in Session, NextQueued(s)  PROVE HostInv'
  <2>1. Admit(s) /\ UNCHANGED <<sessions, active>> /\ working' \subseteq working \cup {s}
    BY <1>3 DEF NextQueued
  <2>2. s \in 1 .. sessions
    BY <1>0, <1>3 DEF HostInv, NextQueued
  <2> QED  BY <1>0, <2>1, <2>2, AdmitKeeps
<1>4. ASSUME NEW s \in Session, Resume(s)  PROVE HostInv'
  <2>1. UNCHANGED <<sessions, history, working>> /\ active' = s /\ history[s] # <<>>
    BY <1>4 DEF Resume, host
  <2>2. s \in 1 .. sessions
    BY <1>0, <2>1 DEF HostInv, Session
  <2> QED  BY <1>0, <2>1, <2>2 DEF HostInv, Session, Point
<1>5. CASE Restart
  <2>1. UNCHANGED <<sessions, history, active>> /\ working' = {}
    BY <1>5 DEF Restart
  <2> QED  BY <1>0, <2>1 DEF HostInv, Session, Point
<1>6. CASE Fork
  BY <1>0, <1>6, ForkKeeps
<1>7. CASE OpenFork
  <2>1. UNCHANGED <<sessions, history, working>> /\ active' = rw.target /\ rw.pc = "open"
    BY <1>7 DEF OpenFork, host
  <2>2. rw.target \in 1 .. sessions
    BY <1>0, <2>1 DEF RewindInv, HostInv, Session
  <2> QED  BY <1>0, <2>1, <2>2 DEF HostInv, Session, Point
<1>8. CASE Writes
  <2>1. UNCHANGED <<sessions, history, working, active>>
    BY <1>8, WritesRecord
  <2> QED  BY <1>1, <2>1
<1>9. ASSUME NEW s \in Session, Ingest(s)  PROVE HostInv'
  BY <1>1, <1>9, IngestUnchanged
<1>10. UNCHANGED vars => HostInv'
  BY <1>1 DEF vars, host
<1> QED  BY <1>1, <1>2, <1>3, <1>4, <1>5, <1>6, <1>7, <1>8, <1>9, <1>10,
            DialogUnchanged, TransactionUnchanged DEF Next

-----------------------------------------------------------------------------
(* The journal                                                             *)

\* Lemma: an edit recorded is one, however it counts against the limit.
LEMMA CountedEdit ==
  ASSUME NEW m \in AgentEdit
  PROVE  m.reversible \in BOOLEAN /\ \A b \in BOOLEAN : [m EXCEPT !.reversible = b] \in AgentEdit
<1>1. PICK f \in File : m \in EditsFor(f)
  BY DEF AgentEdit
<1>2. ASSUME NEW b \in BOOLEAN  PROVE [m EXCEPT !.reversible = b] \in EditsFor(f)
  BY <1>1 DEF EditsFor, OthersEdit
<1>3. m.reversible \in BOOLEAN
  BY <1>1 DEF EditsFor
<1> QED  BY <1>2, <1>3 DEF AgentEdit

\* Lemma: the edit of an agent's tool is one that may be recorded.
LEMMA AgentEditMade ==
  ASSUME EditsInv, NEW who \in Nat \ {User}, NEW f \in File, NEW r \in Regions[f],
         content[f] \in ContentsOf(f), NEW supported \in BOOLEAN,
         edits' = Append(edits, [by |-> who, file |-> f])
  PROVE  [edit |-> NextEdit, order |-> order + 1, file |-> f, before |-> content[f],
          after |-> Written(f, r), reversible |-> supported] \in AgentEdit'
<1> DEFINE after == Written(f, r)
           m == [edit |-> NextEdit, order |-> order + 1, file |-> f, before |-> content[f],
                 after |-> after, reversible |-> supported]
<1>1. /\ Len(edits') = Len(edits) + 1 /\ Len(edits) \in Nat /\ NextEdit = Len(edits) + 1
      /\ Len(edits) + 1 \notin Users' /\ content[f] \in ContentsOf(f)'
      /\ \A e \in 0 .. Len(edits) : e \in Users <=> e \in Users'
  <2>1. Len(edits) \in Nat
    BY DEF EditsInv
  <2> QED  BY <2>1, EditsGrow DEF NextEdit
<1>2. CASE content[f] = Absent
  <2>1. after = [x \in Regions[f] |-> NextEdit]
    BY <1>2 DEF Written
  <2>2. after \in [Regions[f] -> 0 .. Len(edits')]
    BY <1>1, <2>1
  <2>3. \A x \in Regions[f] : after[x] \notin Users'
    BY <1>1, <2>1
  <2> HIDE DEF after
  <2>4. OthersEdit(Regions[f], Len(edits'), Users', m)
    BY <1>1, <2>2, <2>3 DEF OthersEdit, ContentsOf
  <2>5. m \in EditsFor(f)'
    BY <1>1, <2>2, <2>4 DEF EditsFor, EditsInv
  <2> QED  BY <2>5 DEF AgentEdit, after
<1>3. CASE content[f] # Absent
  <2>1. content[f] \in [Regions[f] -> 0 .. Len(edits)]
    BY <1>3 DEF ContentsOf, Contents
  <2>2. after = [content[f] EXCEPT ![r] = NextEdit]
    BY <1>3 DEF Written
  <2>3. after \in [Regions[f] -> 0 .. Len(edits')]
    BY <1>1, <2>1, <2>2
  <2>4. \A x \in Regions[f] : after[x] \in Users' => after[x] = content[f][x]
    BY <1>1, <2>1, <2>2
  <2> HIDE DEF after
  <2>5. OthersEdit(Regions[f], Len(edits'), Users', m)
    BY <1>1, <1>3, <2>3, <2>4 DEF OthersEdit, ContentsOf
  <2>6. m \in EditsFor(f)'
    BY <1>1, <2>3, <2>5 DEF EditsFor, EditsInv
  <2> QED  BY <2>6 DEF AgentEdit, after
<1> QED  BY <1>2, <1>3

\* The files hold nothing but what was there and what the edits have put there.
FilesSound == \A f \in File : content[f] \in ContentsOf(f)

\* Lemma: an edit is recorded as what it is.
LEMMA WritesJournal ==
  ASSUME RecordsInv, FilesSound, Writes
  PROVE  EditsInv' /\ JournalInv' /\ AgentEdit \subseteq AgentEdit'
<1>0. EditsInv /\ HostInv /\ JournalInv
  BY DEF RecordsInv
<1>1. UNCHANGED <<sessions, history, working, active, timeline>>
  BY WritesRecord
<1>2. ASSUME NEW f \in File, NEW c, Write(f, c, User), UNCHANGED <<order, ingest>>
      PROVE  EditsInv' /\ JournalInv' /\ AgentEdit \subseteq AgentEdit'
  <2>1. edits' = Append(edits, [by |-> User, file |-> f]) /\ User \in Nat
    BY <1>2 DEF Write, User
  <2>2. EditsInv' /\ AgentEdit \subseteq AgentEdit'
    BY <1>0, <1>2, <2>1, EditsGrow DEF EditsInv
  <2>3. JournalInv'
    BY <1>0, <1>1, <1>2, <2>2, RecordsGrow DEF JournalInv, Session
  <2> QED  BY <2>2, <2>3
<1>3. ASSUME NEW f \in File, NEW r \in Regions[f], NEW s \in Session,
             NEW i \in 1 .. MaxEdit + MaxPoint, NEW supported \in BOOLEAN,
             AgentWrites(s, f, r, i, supported)
      PROVE  EditsInv' /\ JournalInv' /\ AgentEdit \subseteq AgentEdit'
  <2> DEFINE turn == Len(history[s])
             m == [edit |-> NextEdit, order |-> order + 1, file |-> f, before |-> content[f],
                   after |-> Written(f, r), reversible |-> supported]
             item == [kind |-> "mutation", turn |-> turn, mutation |-> m]
  <2>1. /\ s \in working /\ i \in 1 .. Len(ingest[s]) + 1
        /\ edits' = Append(edits, [by |-> history[s][turn], file |-> f])
        /\ order' = order + 1
        /\ ingest' = [ingest EXCEPT ![s] = InsertAt(ingest[s], i, item)]
    BY <1>3 DEF AgentWrites, Write
  <2>2. history[s][turn] \in Nat \ {User} /\ turn \in Nat
    <3>1. history[s] \in Seq(Point) /\ history[s] # <<>>
      BY <1>0, <2>1 DEF HostInv
    <3>2. history[s][turn] \in Point /\ turn \in Nat
      BY <3>1
    <3> QED  BY <3>2, TransactionAssumption DEF Point, User
  <2> DEFINE who == history[s][turn]
  <2>3. EditsInv' /\ AgentEdit \subseteq AgentEdit'
    <3>1. who \in Nat /\ edits' = Append(edits, [by |-> who, file |-> f])
      BY <2>1, <2>2
    <3> HIDE DEF who
    <3>2. order' \in Nat
      BY <1>0, <2>1 DEF EditsInv
    <3>3. edits' \in Seq([by : Nat, file : File]) /\ AgentEdit \subseteq AgentEdit'
      BY <1>0, <3>1, EditsGrow
    <3> QED  BY <3>2, <3>3 DEF EditsInv, File
  <2>4. m \in AgentEdit'
    <3>1. content[f] \in ContentsOf(f)
      BY DEF FilesSound
    <3>2. who \in Nat \ {User} /\ edits' = Append(edits, [by |-> who, file |-> f])
      BY <2>1, <2>2
    <3> HIDE DEF who
    <3> QED  BY <1>0, <3>1, <3>2, AgentEditMade
  <2> HIDE DEF m, turn
  <2>5. item \in Item'
    BY <2>2, <2>4 DEF Item
  <2> HIDE DEF item
  <2>6. ingest[s] \in Seq(Item') /\ ingest \in [Session -> Seq(Item')]
    BY <1>0, <2>3, RecordsGrow DEF JournalInv
  <2>7. InsertAt(ingest[s], i, item) \in Seq(Item')
    BY <2>1, <2>5, <2>6, InsertType
  <2>8. JournalInv'
    BY <1>0, <1>1, <2>1, <2>3, <2>6, <2>7, RecordsGrow DEF JournalInv, Session
  <2> QED  BY <2>3, <2>8
<1> QED  BY <1>2, <1>3, WritesRecord

\* Lemma: a new Prompt waits to be recorded.
LEMMA AdmitJournal ==
  ASSUME HostInv, JournalInv, EditsInv, NEW s \in Session, Admit(s),
         UNCHANGED <<edits, order, timeline>>
  PROVE  JournalInv'
<1> DEFINE point == [id |-> Points + 1, session |-> s, turn |-> Len(history[s]) + 1]
           item == [kind |-> "point", point |-> point]
<1>1. ingest' = [ingest EXCEPT ![s] = Append(@, item)]
  BY DEF Admit
<1>2. item \in Item
  <2>1. Points + 1 \in Nat /\ s \in Nat
    BY AdmitPoint, TransactionAssumption DEF Point, Session
  <2>2. Len(history[s]) + 1 \in Nat
    BY DEF HostInv
  <2> HIDE DEF Points
  <2> QED  BY <2>1, <2>2 DEF Item, Checkpoint
<1> HIDE DEF item
<1>3. ingest' \in [Session -> Seq(Item)]
  BY <1>1, <1>2 DEF JournalInv
<1> QED  BY <1>3, SameEdits DEF JournalInv, Session

\* Lemma: the journal takes what waits to be recorded.
LEMMA IngestJournal ==
  ASSUME HostInv, JournalInv, EditsInv, NEW s \in Session, Ingest(s)
  PROVE  JournalInv'
<1>0. UNCHANGED <<edits, order, history>>
  BY IngestUnchanged
<1>1. ingest[s] \in Seq(Item) /\ ingest[s] # <<>> /\ Take(s) /\ s \in Nat
  <2>1. ingest[s] # <<>> /\ Take(s)
    BY DEF Ingest, IngestPoint, IngestMutation
  <2>2. ingest[s] \in Seq(Item)
    BY DEF JournalInv
  <2>3. s \in Nat
    BY TransactionAssumption DEF Session
  <2> QED  BY <2>1, <2>2, <2>3
<1>2. Head(ingest[s]) \in Item /\ Tail(ingest[s]) \in Seq(Item)
  BY <1>1, HeadTailProperties
<1>3. ingest' \in [Session -> Seq(Item)]
  BY <1>1, <1>2 DEF Take, JournalInv
<1>4. timeline' \in Timeline(AgentEdit)
  <2> DEFINE item == Head(ingest[s])
  <2>1. CASE IngestPoint(s)
    <3>1. item.kind = "point" /\ timeline' = RecordPoint(timeline, item.point, item.point.id)
      BY <2>1 DEF IngestPoint
    <3>2. item.point \in Checkpoint /\ item.point.id \in Nat
      BY <1>2, <3>1 DEF Item, Checkpoint
    <3> HIDE DEF item
    <3> QED  BY <3>1, <3>2, RecordPointType DEF JournalInv
  <2>2. CASE IngestMutation(s)
    <3>1. item.kind = "mutation" /\ timeline' = Attributed(s, item)
      BY <2>2 DEF IngestMutation
    <3>2. item.mutation \in AgentEdit
      BY <1>2, <3>1 DEF Item
    <3> HIDE DEF item
    <3> DEFINE points == Checkpoints(s)
               lineage == MaxPoint + item.mutation.edit
               claimed == IF OwnsTurn(timeline, s, item.turn) THEN timeline
                          ELSE Claim(timeline, s, points, lineage)
    <3>3. \/ timeline' = timeline
          \/ timeline' = RecordMutation(claimed, s, item.turn, item.mutation)
      BY <3>1 DEF Attributed
    <3>4. points \in Seq(Checkpoint)
      <4> DEFINE S == {c \in Checkpoint :
                         \E i \in 1 .. Len(history[s]) : history[s][i] = c.id}
      <4>1. points \in Seq(S) /\ S \subseteq Checkpoint
        BY CheckpointsType
      <4> HIDE DEF S, points
      <4> QED  BY <4>1
    <3>5. lineage \in Nat
      <4>1. item.mutation.edit \in Nat
        BY <3>2 DEF AgentEdit, EditsFor
      <4> QED  BY <4>1, TransactionAssumption
    <3> HIDE DEF points, lineage
    <3>6. claimed \in Timeline(AgentEdit)
      BY <1>1, <3>4, <3>5, ClaimType DEF JournalInv
    <3> HIDE DEF claimed
    <3>7. /\ item.mutation.reversible \in BOOLEAN
          /\ \A e \in AgentEdit, b \in BOOLEAN : [e EXCEPT !.reversible = b] \in AgentEdit
      BY <3>2, CountedEdit
    <3>8. RecordMutation(claimed, s, item.turn, item.mutation) \in Timeline(AgentEdit)
      BY <3>2, <3>6, <3>7, RecordMutationType
    <3> QED  BY <3>3, <3>8 DEF JournalInv
  <2> QED  BY <2>1, <2>2 DEF Ingest
<1> QED  BY <1>0, <1>3, <1>4, SameEdits DEF JournalInv, Session

\* Lemma: every step keeps the journal, and an edit of the agent stays one.
LEMMA JournalStep ==
  RecordsInv /\ FilesSound /\ [Next]_vars
    => EditsInv' /\ JournalInv' /\ AgentEdit \subseteq AgentEdit'
<1> SUFFICES ASSUME RecordsInv, FilesSound, [Next]_vars
             PROVE  EditsInv' /\ JournalInv' /\ AgentEdit \subseteq AgentEdit'
  OBVIOUS
<1>0. EditsInv /\ HostInv /\ JournalInv /\ RewindInv
  BY DEF RecordsInv
<1>1. CASE UNCHANGED <<edits, order, ingest, timeline>>
  BY <1>0, <1>1, SameEdits DEF EditsInv, JournalInv, Session, File
<1>2. CASE Writes
  BY <1>2, WritesJournal
<1>3. ASSUME UNCHANGED <<edits, order>>, JournalInv'
      PROVE  EditsInv' /\ JournalInv' /\ AgentEdit \subseteq AgentEdit'
  BY <1>0, <1>3, SameEdits DEF EditsInv, File
<1>4. CASE Prompt
  <2>1. Admit(active) /\ UNCHANGED <<edits, order, timeline>>
    BY <1>4 DEF Prompt, facts, log
  <2>2. active \in Session
    BY <1>0, TransactionAssumption DEF HostInv, Session
  <2> QED  BY <1>0, <1>3, <2>1, <2>2, AdmitJournal
<1>5. ASSUME NEW s \in Session, NextQueued(s) \/ Resume(s) \/ Ingest(s)
      PROVE  EditsInv' /\ JournalInv' /\ AgentEdit \subseteq AgentEdit'
  <2>1. CASE NextQueued(s)
    <3>1. Admit(s) /\ UNCHANGED <<edits, order, timeline>>
      BY <2>1 DEF NextQueued, facts, log
    <3> QED  BY <1>0, <1>3, <3>1, AdmitJournal
  <2>2. CASE Resume(s)
    BY <1>1, <2>2 DEF Resume, facts, log, journal
  <2>3. CASE Ingest(s)
    BY <1>0, <1>3, <2>3, IngestJournal, IngestUnchanged
  <2> QED  BY <1>5, <2>1, <2>2, <2>3
<1>6. CASE Restart
  <2>1. UNCHANGED <<edits, ingest>> /\ order' = 0 /\ timeline' = Reloaded(timeline)
    BY <1>6 DEF Restart
  <2>2. timeline' \in Timeline(AgentEdit)
    BY <1>0, <2>1, ReloadedType DEF JournalInv
  <2> QED  BY <1>0, <2>1, <2>2, SameEdits DEF EditsInv, JournalInv, Session, File
<1>7. CASE Commit
  <2>1. UNCHANGED <<edits, order, ingest>>
    BY <1>7 DEF Commit, facts, log
  <2>2. \/ timeline' = timeline
        \/ /\ timeline # NoTimeline
           /\ timeline' = CommitTimeline(timeline, rw.point, rw.action, rw.target)
    BY <1>7 DEF Commit, Owned
  <2>3. rw.target \in Nat
    BY <1>0 DEF RewindInv
  <2>4. timeline' \in Timeline(AgentEdit)
    BY <1>0, <2>2, <2>3, CommitTimelineType DEF JournalInv, Timeline
  <2>5. JournalInv'
    BY <1>0, <2>1, <2>4, SameEdits DEF JournalInv, Session
  <2> QED  BY <1>3, <2>1, <2>5
<1>8. UNCHANGED vars => UNCHANGED <<edits, order, ingest, timeline>>
  BY DEF vars, facts, log, journal
<1> QED  BY <1>1, <1>2, <1>4, <1>5, <1>6, <1>7, <1>8, DialogUnchanged, TransactionUnchanged
         DEF Next

-----------------------------------------------------------------------------
(* The rewind                                                              *)

Committed == {"preparing", "confirm"} \cup Busy

\* The rewind stays about the same Prompt.
Carried ==
  /\ rw'.session = rw.session /\ rw'.target = rw.target
  /\ rw'.mutations \in {rw.mutations, <<>>}
  /\ rw'.pc = "open" => rw.pc = "open"
  /\ rw'.pc \in Committed => rw.pc \in Committed /\ rw'.point = rw.point

Dropped ==
  /\ rw'.session \in {1, rw.session, active} /\ rw'.target = 0
  /\ rw'.mutations = <<>>
  /\ rw'.pc \notin Committed

\* Sessions and Prompts are only added.
HostGrows ==
  /\ sessions \in Nat /\ sessions' \in Nat /\ sessions <= sessions'
  /\ \A s \in 1 .. sessions : \A i \in 1 .. Len(history[s]) :
       i \in 1 .. Len(history'[s]) /\ history'[s][i] = history[s][i]

\* Lemma: no step takes a Prompt away.
LEMMA HostGrown == RecordsInv /\ HostInv' /\ [Next]_vars => HostGrows
<1> SUFFICES ASSUME RecordsInv, HostInv', [Next]_vars  PROVE HostGrows
  OBVIOUS
<1>0. /\ sessions \in Nat /\ sessions' \in Nat /\ 1 .. sessions \subseteq Session
      /\ history \in [Session -> Seq(Point)]
  BY TransactionAssumption DEF RecordsInv, HostInv, Session
<1>1. CASE UNCHANGED <<sessions, history>>
  BY <1>0, <1>1 DEF HostGrows
<1>2. ASSUME NEW s \in Session, Admit(s), sessions' = sessions  PROVE HostGrows
  <2>1. history' = [history EXCEPT ![s] = Append(@, Points + 1)] /\ Points + 1 \in Point
    BY <1>2, AdmitPoint DEF Admit, RecordsInv
  <2> HIDE DEF Points
  <2>2. ASSUME NEW t \in 1 .. sessions, NEW i \in 1 .. Len(history[t])
        PROVE  i \in 1 .. Len(history'[t]) /\ history'[t][i] = history[t][i]
    <3>1. t \in Session /\ history[t] \in Seq(Point)
      BY <1>0
    <3>2. CASE t = s
      <4>1. history'[t] = Append(history[t], Points + 1)
        BY <1>0, <2>1, <3>1, <3>2
      <4> QED  BY <2>1, <3>1, <4>1
    <3>3. CASE t # s
      BY <1>0, <2>1, <3>1, <3>3
    <3> QED  BY <3>2, <3>3
  <2> QED  BY <1>0, <1>2, <2>2 DEF HostGrows
<1>3. CASE Prompt
  <2>1. active \in Session /\ Admit(active) /\ sessions' = sessions
    BY <1>0, <1>3 DEF Prompt, RecordsInv, HostInv
  <2> QED  BY <1>2, <2>1
<1>4. ASSUME NEW s \in Session, NextQueued(s) \/ Resume(s) \/ Ingest(s)  PROVE HostGrows
  <2>1. NextQueued(s) => Admit(s) /\ sessions' = sessions
    BY DEF NextQueued
  <2>2. Resume(s) => UNCHANGED <<sessions, history>>
    BY DEF Resume, host
  <2> QED  BY <1>1, <1>2, <1>4, <2>1, <2>2, IngestUnchanged
<1>5. CASE Fork
  <2> DEFINE branch == SubSeq(history[rw.session], 1,
                         (CHOOSE i \in 1 .. Len(history[rw.session]) :
                            history[rw.session][i] = rw.point) - 1)
  <2>1. sessions' = sessions + 1 /\ history' = [history EXCEPT ![sessions + 1] = branch]
    BY <1>5 DEF Fork
  <2> HIDE DEF branch
  <2>2. \A s \in 1 .. sessions : history'[s] = history[s]
    BY <1>0, <2>1
  <2> QED  BY <1>0, <2>1, <2>2 DEF HostGrows
<1>6. OpenFork \/ Restart \/ UNCHANGED vars => UNCHANGED <<sessions, history>>
  BY DEF OpenFork, Restart, host, vars
<1> QED  BY <1>1, <1>3, <1>4, <1>5, <1>6, DialogUnchanged, TransactionUnchanged, WritesRecord
         DEF Next

\* Lemma: a rewind goes on while edits and Prompts are added.
LEMMA CarriedKeeps ==
  ASSUME RewindInv, HostGrows, AgentEdit \subseteq AgentEdit', Carried
  PROVE  RewindInv'
<1>1. rw'.session \in 1 .. sessions' /\ rw'.target \in 0 .. sessions'
  BY DEF RewindInv, HostGrows, Carried
<1>2. rw'.mutations \in Seq(AgentEdit')
  <2>1. <<>> \in Seq(AgentEdit') /\ Seq(AgentEdit) \subseteq Seq(AgentEdit')
    BY RecordsGrow
  <2> QED  BY <2>1 DEF RewindInv, Carried
<1>3. Chosen'
  <2> SUFFICES ASSUME rw'.pc \in Committed
               PROVE  \E i \in 1 .. Len(history'[rw'.session]) :
                        history'[rw'.session][i] = rw'.point
    BY DEF Chosen, Committed
  <2>1. PICK i \in 1 .. Len(history[rw.session]) : history[rw.session][i] = rw.point
    BY DEF Carried, RewindInv, Chosen, Committed
  <2> QED  BY <2>1 DEF HostGrows, Carried, RewindInv
<1> QED  BY <1>1, <1>2, <1>3 DEF RewindInv, Carried

\* Lemma: a rewind that is given up is about nothing.
LEMMA DroppedKeeps ==
  ASSUME RewindInv, HostInv, HostGrows, Dropped
  PROVE  RewindInv'
<1>1. rw'.session \in 1 .. sessions' /\ 0 \in 0 .. sessions'
  BY TransactionAssumption DEF RewindInv, HostGrows, HostInv, Dropped, Session
<1>2. <<>> \in Seq(AgentEdit')
  OBVIOUS
<1>3. Chosen' /\ rw'.pc # "open"
  BY DEF Chosen, Dropped, Committed, Busy
<1> QED  BY <1>1, <1>2, <1>3 DEF RewindInv, Dropped

\* Lemma: a rewind that is over is dropped.
LEMMA CloseDrops == Close => Dropped
BY DEF Close, NoRewind, Dropped, Committed, Busy

\* Lemma: a phase after the other is about the same Prompt.
LEMMA TransactionCarries ==
  ASSUME FilesInv, TransactionStep
  PROVE  Close \/ Carried \/ Fork
<1>0. RewindFields
  BY DEF FilesInv
<1>1. Drafted => Close \/ Carried
  BY <1>0 DEF Drafted, Begin, RewindFields, Carried, Committed, Busy
<1>2. Check \/ ApplyFailed => Close \/ Carried
  BY <1>0 DEF Check, ApplyFailed, RewindFields, Carried, Committed, Busy
<1>3. ASSUME Restored  PROVE Close \/ Carried
  <2>1. CASE rw.undo
    BY <1>3, <2>1 DEF Restored
  <2>2. CASE ~rw.undo
    <3>1. rw.pc = "apply" /\ \E p \in {"commit", "fork"} : rw' = [rw EXCEPT !.pc = p]
      BY <1>3, <2>2 DEF Restored
    <3> QED  BY <1>0, <3>1 DEF RewindFields, Carried, Committed, Busy
  <2> QED  BY <2>1, <2>2
<1>4. RolledBack => Close
  BY DEF RolledBack
<1>5. OpenFork => Carried
  BY <1>0 DEF OpenFork, RewindFields, Carried, Committed, Busy
<1>6. rw.pc \in Busy /\ Compensate => Close \/ Carried
  BY <1>0 DEF Compensate, RewindFields, Carried, Committed, Busy
<1>7. Commit \/ ConversationFailed => Close \/ (rw.pc \in Busy /\ Compensate)
  BY DEF Commit, ConversationFailed, Busy
<1>8. \A f \in File : ApplyFile(f) \/ Rollback(f) \/ RollbackFailed(f) => Carried
  BY <1>0 DEF ApplyFile, Rollback, RollbackFailed, RewindFields, Carried, Committed, Busy
<1> QED  BY <1>1, <1>2, <1>3, <1>4, <1>5, <1>6, <1>7, <1>8 DEF TransactionStep

\* Lemma: so is a step of the dialog, or the dialog begins again.
LEMMA DialogCarries ==
  ASSUME FilesInv, DialogStep \/ PlanStep
  PROVE  Dropped \/ Carried \/ Select
<1>0. RewindFields
  BY DEF FilesInv
<1>1. Open => Dropped
  BY DEF Open, NoRewind, Dropped, Committed, Busy
<1>2. ASSUME Cancel  PROVE Dropped
  <2>1. CASE rw' = [NoRewind EXCEPT !.pc = "selecting", !.session = rw.session,
                                    !.listed = rw.listed]
    BY <2>1 DEF NoRewind, Dropped, Committed, Busy
  <2> QED  BY <1>2, <2>1, CloseDrops DEF Cancel
<1>3. \A p \in Point : Choose(p) => Carried
  BY <1>0 DEF Choose, RewindFields, Carried, Committed, Busy
<1>4. ASSUME NEW a, Confirm(a)  PROVE Close \/ Carried
  <2>1. /\ rw.pc = "confirm"
        /\ Close \/ \E p : rw' = [rw EXCEPT !.action = a, !.pc = p] /\ p # "open"
    BY <1>4 DEF Confirm, Begin
  <2> QED  BY <1>0, <2>1 DEF RewindFields, Carried, Committed
<1>5. ASSUME Listed  PROVE Close \/ Carried
  <2> DEFINE points == Checkpoints(rw.session)
             listed == {points[i].id : i \in 1 .. Len(points)}
  <2>1. Close \/ rw' = [rw EXCEPT !.pc = "selecting", !.listed = listed]
    BY <1>5, Zenon DEF Listed
  <2> HIDE DEF listed
  <2> QED  BY <1>0, <2>1 DEF RewindFields, Carried, Committed, Busy
<1>6. ASSUME Prepare  PROVE Carried
  <2> DEFINE files == {f \in File : EditsOf(f) # <<>>}
             to == [f \in files |-> PlanContent(content[f], EditsOf(f))]
             from == [f \in files |-> content[f]]
  <2>1. /\ rw.pc = "preparing"
        /\ \E state : rw' = [rw EXCEPT !.pc = "confirm", !.from = from, !.to = to,
                               !.mutations = <<>>, !.touched = {}, !.prepared = TRUE,
                               !.state = state]
    BY <1>6 DEF Prepare
  <2> HIDE DEF from, to
  <2> QED  BY <1>0, <2>1 DEF RewindFields, Carried, Committed, Busy
<1> QED  BY <1>1, <1>2, <1>3, <1>4, <1>5, <1>6, CloseDrops DEF DialogStep, PlanStep

\* Lemma: the Prompt is looked up again before the plan is made.
LEMMA SelectKeeps ==
  ASSUME RecordsInv, FilesInv, HostGrows, HostInv, Select
  PROVE  RewindInv'
<1> DEFINE points == Checkpoints(rw.session)
           chosen == SelectEffects(timeline, rw.session, rw.point)
           S == {c \in Checkpoint :
                   \E i \in 1 .. Len(history[rw.session]) : history[rw.session][i] = c.id}
<1>0. RewindFields /\ RewindInv /\ edits' = edits /\ history' = history
  BY DialogUnchanged DEF FilesInv, RecordsInv, PlanStep
<1>1. CASE Close
  BY <1>0, <1>1, CloseDrops, DroppedKeeps
<1>2. CASE ~Close
  <2>1. /\ \E i \in 1 .. Len(points) : points[i].id = rw.point
        /\ rw' = [rw EXCEPT !.pc = "preparing", !.scope = chosen.scope,
                            !.lineage = chosen.lineage, !.mutations = chosen.mutations]
    BY <1>2, Zenon DEF Select
  <2>2. chosen.mutations \in Seq(AgentEdit)
    BY SelectEffectsType DEF RecordsInv, JournalInv
  <2> HIDE DEF chosen
  <2>3. /\ rw'.pc = "preparing" /\ rw'.session = rw.session /\ rw'.point = rw.point
        /\ rw'.target = rw.target /\ rw'.mutations = chosen.mutations
    BY <1>0, <2>1 DEF RewindFields
  <2>4. rw.session \in Session
    BY <1>0, TransactionAssumption DEF RewindInv, HostInv, Session
  <2>5. points \in Seq(S)
    BY <2>4, CheckpointsType
  <2> HIDE DEF points
  <2>6. \E i \in 1 .. Len(history[rw.session]) : history[rw.session][i] = rw.point
    <3>1. PICK i \in 1 .. Len(points) : points[i].id = rw.point
      BY <2>1
    <3>2. points[i] \in S
      BY <2>5
    <3> QED  BY <3>1, <3>2
  <2>7. rw'.session \in 1 .. sessions' /\ rw'.target \in 0 .. sessions'
    BY <1>0, <2>3 DEF RewindInv, HostGrows
  <2>8. rw'.mutations \in Seq(AgentEdit)'
    BY <1>0, <2>2, <2>3, SameEdits
  <2>9. Chosen'
    BY <1>0, <2>3, <2>6 DEF Chosen
  <2> QED  BY <2>3, <2>7, <2>8, <2>9 DEF RewindInv
<1> QED  BY <1>1, <1>2

\* Lemma: the new Session is the one that is opened.
LEMMA ForkTargets ==
  ASSUME RecordsInv, FilesInv, HostGrows, Fork
  PROVE  RewindInv'
<1>0. RewindFields /\ RewindInv /\ edits' = edits /\ AgentEdit' = AgentEdit
  BY TransactionUnchanged, SameEdits DEF FilesInv, RecordsInv, TransactionStep
<1>1. /\ rw.pc = "fork" /\ sessions' = sessions + 1
      /\ rw' = [rw EXCEPT !.pc = "open", !.target = sessions + 1]
  BY DEF Fork
<1>2. /\ rw'.pc = "open" /\ rw'.session = rw.session /\ rw'.point = rw.point
      /\ rw'.target = sessions + 1 /\ rw'.mutations = rw.mutations
  BY <1>0, <1>1 DEF RewindFields
<1>3. rw'.session \in 1 .. sessions' /\ rw'.target \in 0 .. sessions' /\ rw'.target # 0
  BY <1>0, <1>1, <1>2 DEF RewindInv, HostGrows
<1>4. Chosen'
  <2>1. PICK i \in 1 .. Len(history[rw.session]) : history[rw.session][i] = rw.point
    BY <1>0, <1>1 DEF RewindInv, Chosen, Busy
  <2> QED  BY <1>0, <1>2, <2>1 DEF HostGrows, RewindInv, Chosen
<1> QED  BY <1>0, <1>2, <1>3, <1>4 DEF RewindInv

\* Lemma: every step keeps what is known of the rewind.
LEMMA RewindStep ==
  RecordsInv /\ FilesInv /\ FilesSound /\ [Next]_vars => RewindInv'
<1> SUFFICES ASSUME RecordsInv, FilesInv, FilesSound, [Next]_vars  PROVE RewindInv'
  OBVIOUS
<1>0. /\ HostInv /\ RewindInv /\ HostGrows /\ AgentEdit \subseteq AgentEdit' /\ RewindFields
  BY HostStep, JournalStep, HostGrown DEF RecordsInv, FilesInv
<1>1. CASE Carried
  BY <1>0, <1>1, CarriedKeeps
<1>2. CASE rw' = rw
  BY <1>1, <1>2 DEF Carried
<1>3. CASE Writes
  <2>1. ASSUME NEW f, NEW c, NEW who, Write(f, c, who)  PROVE Carried
    BY <1>0, <2>1 DEF Write, RewindFields, Carried
  <2> QED  BY <1>1, <1>3, <2>1, WritesWrite
<1>4. CASE TransactionStep
  BY <1>0, <1>1, <1>4, TransactionCarries, CloseDrops, DroppedKeeps, ForkTargets
<1>5. CASE DialogStep \/ PlanStep
  BY <1>0, <1>1, <1>5, DialogCarries, DroppedKeeps, SelectKeeps
<1>6. ASSUME NEW s \in Session, NextQueued(s) \/ Resume(s) \/ Ingest(s)  PROVE RewindInv'
  <2>1. NextQueued(s) \/ Resume(s) => rw' = rw
    BY DEF NextQueued, Resume
  <2>2. ASSUME NEW edited, NEW kept, Ingested(s, edited, kept)  PROVE Carried
    BY <1>0, <2>2 DEF Ingested, RewindFields, Carried
  <2>3. Ingest(s) => Carried
    BY <2>2 DEF Ingest, IngestPoint, IngestMutation
  <2> QED  BY <1>1, <1>2, <1>6, <2>1, <2>3
<1>7. Prompt \/ Restart \/ UNCHANGED vars => rw' = rw
  BY DEF Prompt, Restart, vars
<1> QED  BY <1>1, <1>2, <1>3, <1>4, <1>5, <1>6, <1>7 DEF Next

-----------------------------------------------------------------------------
(* The plan                                                                *)

\* What is planned for a file is a content of the file, and keeps what the user
\* has put there.
PlannedSound(f) ==
  /\ rw.from[f] \in ContentsOf(f) /\ rw.to[f] \in ContentsOf(f)
  /\ ~rw.undo => Spared(Regions[f], Users, rw.from[f], rw.to[f])

\* Only a plan without a conflict is carried out.
PlanSound ==
  /\ rw.pc \in Busy \cup {"confirm"} /\ rw.state = "safe" =>
       \A f \in DOMAIN rw.to : PlannedSound(f)
  /\ rw.pc \in Busy /\ rw.action # "conversation-only" => rw.state = "safe"

\* Lemma: the edits of a file are edits of that file.
LEMMA EditsOfType ==
  ASSUME NEW f \in File, rw.mutations \in Seq(AgentEdit)
  PROVE  EditsOf(f) \in Seq(EditsFor(f))
<1> DEFINE ms == rw.mutations
           N == Len(ms)
           next(x, n) == IF ms[n].file = f THEN Append(x, ms[n]) ELSE x
           step(h) == [n \in 0 .. N |->
                         IF n = 0 THEN <<>>
                         ELSE IF ms[n].file = f THEN Append(h[n - 1], ms[n])
                         ELSE h[n - 1]]
           made == CHOOSE h : h = step(h)
           X == Seq(EditsFor(f))
           G == [n \in 1 .. N |-> [x \in X |-> next(x, n)]]
<1>1. EditsOf(f) = made[N]
  BY DEF EditsOf
<1>2. ASSUME NEW x \in X, NEW n \in 1 .. N  PROVE next(x, n) \in X
  <2>1. ms[n] \in AgentEdit
    OBVIOUS
  <2>2. ms[n].file = f => ms[n] \in EditsFor(f)
    BY <2>1 DEF AgentEdit, EditsFor
  <2> QED  BY <2>2
<1>3. G \in [1 .. N -> [X -> X]]
  <2> HIDE DEF next, X
  <2> QED  BY <1>2
<1>4. N \in Nat /\ <<>> \in X
  OBVIOUS
<1>5. \A n \in 1 .. N : \A x \in X : G[n][x] = next(x, n)
  <2> HIDE DEF next, X
  <2> QED  OBVIOUS
<1> HIDE DEF N, X
<1>6. PICK h \in [0 .. N -> X] : Computes(h, N, <<>>, G)
  <2> HIDE DEF G
  <2> QED  BY <1>3, <1>4, Computed
<1> HIDE DEF G
<1>7. h = step(h)
  <2>1. ASSUME NEW n \in 1 .. N  PROVE h[n] = next(h[n - 1], n)
    <3>1. n \in 0 .. N /\ n # 0 /\ n - 1 \in 0 .. N
      BY <1>4
    <3> HIDE DEF next
    <3>2. h[n - 1] \in X
      BY <1>6, <3>1
    <3> QED  BY <1>5, <1>6, <3>1, <3>2 DEF Computes
  <2>2. ASSUME NEW n \in 0 .. N  PROVE h[n] = step(h)[n]
    <3>1. CASE n = 0
      BY <1>6, <3>1 DEF Computes
    <3>2. CASE n # 0
      <4>1. n \in 1 .. N
        BY <1>4, <3>2
      <4> QED  BY <2>1, <3>2, <4>1
    <3> QED  BY <3>1, <3>2
  <2> QED  BY <1>6, <2>2
<1>8. made = step(made)
  <2> HIDE DEF step
  <2> QED  BY <1>7
<1> HIDE DEF made
<1>9. made[0] = <<>>
  BY <1>4, <1>8
<1>10. ASSUME NEW n \in 1 .. N, made[n - 1] \in X  PROVE made[n] \in X
  <2>1. n \in 0 .. N /\ n # 0
    BY <1>4
  <2>2. made[n] = next(made[n - 1], n)
    BY <1>8, <2>1
  <2> HIDE DEF next
  <2> QED  BY <1>2, <1>10, <2>2
<1> HIDE DEF step, next
<1>11. made[N] \in X
  <2>1. \A n \in 1 .. N : made[n - 1] \in X => made[n] \in X
    BY <1>10
  <2> QED  BY <1>4, <1>9, <2>1, Kept
<1> QED  BY <1>1, <1>11 DEF X

\* Lemma: a plan without a conflict is sound when it is made.
LEMMA PreparePlans ==
  ASSUME RecordsInv, FilesInv, FilesSound, Prepare
  PROVE  PlanSound'
<1> DEFINE files == {f \in File : EditsOf(f) # <<>>}
           to == [f \in files |-> PlanContent(content[f], EditsOf(f))]
           from == [f \in files |-> content[f]]
           blocked == \E f \in files : to[f] \in {Conflict, Unsupported}
           state == IF blocked THEN "blocked" ELSE "safe"
<1>1. /\ rw.pc = "preparing" /\ edits' = edits
      /\ rw' = [rw EXCEPT !.pc = "confirm", !.from = from, !.to = to, !.mutations = <<>>,
                          !.touched = {}, !.prepared = TRUE, !.state = state]
  BY DEF Prepare, facts, log
<1>2. RewindFields /\ rw.mutations \in Seq(AgentEdit) /\ ~rw.undo
  BY <1>1 DEF FilesInv, RecordsInv, RewindInv, Phases
<1>3. ASSUME NEW f \in files, ~blocked
      PROVE  /\ from[f] \in ContentsOf(f) /\ to[f] \in ContentsOf(f)
             /\ Spared(Regions[f], Users, from[f], to[f])
  <2>1. f \in File /\ content[f] \in ContentsOf(f) /\ from[f] = content[f]
    BY DEF FilesSound
  <2>2. EditsOf(f) \in Seq(EditsFor(f))
    BY <1>2, <2>1, EditsOfType
  <2>3. \A m \in EditsFor(f) : OthersEdit(Regions[f], Len(edits), Users, m)
    BY DEF EditsFor
  <2>4. Absent \notin [Regions[f] -> Nat] /\ Len(edits) \in Nat
    BY <2>1, TransactionAssumption DEF File, RecordsInv, EditsInv
  <2>5. to[f] = PlanContent(content[f], EditsOf(f)) /\ to[f] \notin {Conflict, Unsupported}
    BY <1>3
  <2> DEFINE made == EditsOf(f)
             now == content[f]
             planned == PlanContent(now, made)
  <2>6. /\ made \in Seq(EditsFor(f)) /\ now \in Contents(Regions[f], Len(edits))
        /\ planned \notin {Conflict, Unsupported}
    BY <2>1, <2>2, <2>5 DEF ContentsOf
  <2>7. from[f] = now /\ to[f] = planned
    BY <2>1, <2>5
  <2> HIDE DEF files, to, from, blocked, made, now
  <2>8. planned \in Contents(Regions[f], Len(edits)) /\ Spared(Regions[f], Users, now, planned)
    BY <2>3, <2>4, <2>6, PlanSpares
  <2> HIDE DEF planned
  <2> QED  BY <2>6, <2>7, <2>8 DEF ContentsOf
<1>4. DOMAIN to = files
  OBVIOUS
<1>5. state = "safe" => ~blocked
  OBVIOUS
<1> HIDE DEF files, to, from, blocked, state
<1>6. /\ rw'.pc = "confirm" /\ rw'.from = from /\ rw'.to = to /\ rw'.state = state
      /\ rw'.undo = rw.undo
  BY <1>1, <1>2 DEF RewindFields
<1>7. \A f : Users' = Users /\ ContentsOf(f)' = ContentsOf(f)
  BY <1>1 DEF Users, ByUser, ContentsOf
<1>8. rw'.state = "safe" => \A f \in DOMAIN rw'.to : PlannedSound(f)'
  BY <1>3, <1>4, <1>5, <1>6, <1>7 DEF PlannedSound
<1> QED  BY <1>6, <1>8 DEF PlanSound, Busy

\* The plan stays what it was.
PlanCarried ==
  /\ rw'.from = rw.from /\ rw'.to = rw.to /\ rw'.undo = rw.undo /\ rw'.state = rw.state
  /\ rw'.pc \in Busy \cup {"confirm"} => rw.pc \in Busy \cup {"confirm"}
  /\ rw'.pc \in Busy /\ rw'.action # "conversation-only" => rw.state = "safe"

\* Lemma: whatever is written meanwhile.
LEMMA PlanCarriedKeeps ==
  ASSUME FilesInv, EditsInv, PlanSound, PlanCarried,
         \/ edits' = edits
         \/ \E who \in Nat, f \in File : edits' = Append(edits, [by |-> who, file |-> f])
  PROVE  PlanSound'
<1>1. /\ \A e \in 0 .. Len(edits) : e \in Users <=> e \in Users'
      /\ \A f \in File : ContentsOf(f) \subseteq ContentsOf(f)'
  <2>1. CASE edits' = edits
    BY <2>1, SameEdits
  <2>2. CASE \E who \in Nat, f \in File : edits' = Append(edits, [by |-> who, file |-> f])
    BY <2>2, EditsGrow
  <2> QED  BY <2>1, <2>2
<1>2. ASSUME NEW f \in DOMAIN rw.to, PlannedSound(f)  PROVE PlannedSound(f)'
  <2>1. f \in File
    BY DEF FilesInv, Phases
  <2>2. rw.from[f] # Absent => \A r \in Regions[f] : rw.from[f][r] \in 0 .. Len(edits)
    BY <1>2 DEF PlannedSound, ContentsOf, Contents
  <2>3. ~rw.undo => Spared(Regions[f], Users', rw.from[f], rw.to[f])
    BY <1>1, <1>2, <2>2 DEF PlannedSound, Spared
  <2> QED  BY <1>1, <1>2, <2>1, <2>3 DEF PlannedSound, PlanCarried
<1> QED  BY <1>2 DEF PlanSound, PlanCarried

\* Lemma: and so when nothing is written.
LEMMA SamePlanKeeps ==
  ASSUME FilesInv, PlanSound, PlanCarried, edits' = edits
  PROVE  PlanSound'
<1>1. Users' = Users /\ DOMAIN rw.to \subseteq File /\ \A f \in File : ContentsOf(f)' = ContentsOf(f)
  BY SameEdits DEF FilesInv, Phases
<1>2. \A f \in DOMAIN rw.to : PlannedSound(f) => PlannedSound(f)'
  BY <1>1 DEF PlannedSound, PlanCarried
<1> QED  BY <1>2 DEF PlanSound, PlanCarried

\* Lemma: there is no plan before it is made and after it is carried out.
LEMMA NoPlanSound ==
  ASSUME rw'.pc \notin Busy \cup {"confirm"}
  PROVE  PlanSound'
BY DEF PlanSound

\* Lemma: the plan that is turned round puts back what was there.
LEMMA CompensateSound ==
  ASSUME FilesInv, PlanSound, Compensate, rw.pc \in {"fork", "open", "commit"}, edits' = edits
  PROVE  PlanSound'
<1>1. CASE Close
  BY <1>1, NoPlanSound DEF Close, NoRewind, Busy
<1>2. CASE ~Close
  <2>1. /\ rw.action # "conversation-only"
        /\ rw' = [rw EXCEPT !.pc = "check", !.undo = TRUE, !.from = rw.to, !.to = rw.from]
    BY <1>2 DEF Compensate
  <2>2. /\ rw'.pc = "check" /\ rw'.undo = TRUE /\ rw'.from = rw.to /\ rw'.to = rw.from
        /\ rw'.state = rw.state
    BY <2>1 DEF FilesInv, RewindFields
  <2>3. DOMAIN rw.from = DOMAIN rw.to /\ DOMAIN rw.to \subseteq File
    BY DEF FilesInv, Phases
  <2>4. rw.state = "safe" /\ \A f \in DOMAIN rw.to : PlannedSound(f)
    BY <2>1 DEF PlanSound, Busy
  <2>5. \A f \in DOMAIN rw'.to : PlannedSound(f)'
    BY <2>2, <2>3, <2>4, SameEdits DEF PlannedSound
  <2> QED  BY <2>2, <2>4, <2>5 DEF PlanSound
<1> QED  BY <1>1, <1>2

\* Lemma: a phase that does not compensate carries out the same plan.
LEMMA TransactionPlan ==
  ASSUME FilesInv, PlanSound, TransactionStep
  PROVE  PlanSound'
<1>0. RewindFields /\ edits' = edits
  BY TransactionUnchanged DEF FilesInv
<1>1. CASE Close
  BY <1>1, NoPlanSound DEF Close, NoRewind, Busy
<1>2. Drafted => Close \/ PlanCarried
  BY <1>0 DEF Drafted, Begin, RewindFields, PlanCarried, PlanSound, Busy
<1>3. Check \/ ApplyFailed \/ Fork \/ OpenFork => Close \/ PlanCarried
  BY <1>0 DEF Check, ApplyFailed, Fork, OpenFork, RewindFields, PlanCarried, PlanSound, Busy
<1>4. ASSUME Restored  PROVE Close \/ PlanCarried
  <2>1. CASE rw.undo
    BY <1>4, <2>1 DEF Restored
  <2>2. CASE ~rw.undo
    <3>1. rw.pc = "apply" /\ \E p \in {"commit", "fork"} : rw' = [rw EXCEPT !.pc = p]
      BY <1>4, <2>2 DEF Restored
    <3> QED  BY <1>0, <3>1 DEF RewindFields, PlanCarried, PlanSound, Busy
  <2> QED  BY <2>1, <2>2
<1>5. \A f \in File : ApplyFile(f) \/ Rollback(f) \/ RollbackFailed(f) => PlanCarried
  BY <1>0 DEF ApplyFile, Rollback, RollbackFailed, RewindFields, PlanCarried, PlanSound, Busy
<1>6. CASE PlanCarried
  BY <1>0, <1>6, SamePlanKeeps
<1>7. Commit \/ ConversationFailed =>
        Close \/ (Compensate /\ rw.pc \in {"fork", "open", "commit"})
  BY DEF Commit, ConversationFailed
<1>8. RolledBack => Close
  BY DEF RolledBack
<1> QED  BY <1>0, <1>1, <1>2, <1>3, <1>4, <1>5, <1>6, <1>7, <1>8, CompensateSound
         DEF TransactionStep

\* Lemma: the dialog carries a plan out only when it may.
LEMMA DialogPlan ==
  ASSUME RecordsInv, FilesInv, FilesSound, PlanSound, DialogStep \/ PlanStep
  PROVE  PlanSound'
<1>0. RewindFields /\ edits' = edits
  BY DialogUnchanged DEF FilesInv
<1>1. CASE Close
  BY <1>1, NoPlanSound DEF Close, NoRewind, Busy
<1>2. CASE rw'.pc \notin Busy \cup {"confirm"}
  BY <1>2, NoPlanSound
<1>3. ASSUME Open \/ Cancel  PROVE Close \/ rw'.pc \notin Busy \cup {"confirm"}
  <2>1. Close \/ rw'.pc \in {"listing", "selecting"}
    BY <1>3 DEF Open, Cancel, NoRewind
  <2> QED  BY <2>1 DEF Busy
<1>4. \A p \in Point : Choose(p) => rw'.pc \notin Busy \cup {"confirm"}
  BY <1>0 DEF Choose, RewindFields, Busy
<1>5. ASSUME NEW a, Confirm(a)  PROVE Close \/ PlanCarried
  <2>1. /\ rw.pc = "confirm"
        /\ a = "conversation-only" \/ rw.state = "safe"
        /\ Close \/ \E p : rw' = [rw EXCEPT !.action = a, !.pc = p]
    BY <1>5 DEF Confirm, Begin
  <2> QED  BY <1>0, <2>1 DEF RewindFields, PlanCarried
<1>6. ASSUME Listed  PROVE Close \/ rw'.pc \notin Busy \cup {"confirm"}
  <2> DEFINE points == Checkpoints(rw.session)
             listed == {points[i].id : i \in 1 .. Len(points)}
  <2>1. Close \/ rw' = [rw EXCEPT !.pc = "selecting", !.listed = listed]
    BY <1>6, Zenon DEF Listed
  <2> HIDE DEF listed
  <2> QED  BY <1>0, <2>1 DEF RewindFields, Busy
<1>7. ASSUME Select  PROVE Close \/ rw'.pc \notin Busy \cup {"confirm"}
  <2> DEFINE chosen == SelectEffects(timeline, rw.session, rw.point)
  <2>1. \/ Close
        \/ rw' = [rw EXCEPT !.pc = "preparing", !.scope = chosen.scope,
                            !.lineage = chosen.lineage, !.mutations = chosen.mutations]
    BY <1>7, Zenon DEF Select
  <2> HIDE DEF chosen
  <2> QED  BY <1>0, <2>1 DEF RewindFields, Busy
<1>8. CASE PlanCarried
  BY <1>0, <1>8, SamePlanKeeps
<1> QED  BY <1>1, <1>2, <1>3, <1>4, <1>5, <1>6, <1>7, <1>8, PreparePlans
         DEF DialogStep, PlanStep

\* Lemma: a plan stays sound until it is carried out or given up.
LEMMA PlanStaysSound ==
  RecordsInv /\ FilesInv /\ FilesSound /\ PlanSound /\ [Next]_vars => PlanSound'
<1> SUFFICES ASSUME RecordsInv, FilesInv, FilesSound, PlanSound, [Next]_vars
             PROVE  PlanSound'
  OBVIOUS
<1>0. RewindFields /\ EditsInv
  BY DEF FilesInv, RecordsInv
<1>1. CASE PlanCarried /\ edits' = edits
  BY <1>1, SamePlanKeeps
<1>2. CASE rw' = rw /\ edits' = edits
  BY <1>1, <1>2 DEF PlanCarried, PlanSound
<1>3. CASE Writes
  <2>1. ASSUME NEW f \in File, NEW c, NEW who \in Nat, Write(f, c, who)  PROVE PlanSound'
    <3>1. edits' = Append(edits, [by |-> who, file |-> f])
      BY <2>1 DEF Write
    <3>2. PlanCarried
      BY <1>0, <2>1 DEF Write, RewindFields, PlanCarried, PlanSound
    <3> QED  BY <1>0, <3>1, <3>2, PlanCarriedKeeps
  <2>2. ASSUME NEW s \in Session, s \in working  PROVE history[s][Len(history[s])] \in Nat
    <3>1. history[s] \in Seq(Point) /\ history[s] # <<>>
      BY <2>2 DEF RecordsInv, HostInv
    <3>2. history[s][Len(history[s])] \in Point
      BY <3>1
    <3> QED  BY <3>2, TransactionAssumption DEF Point
  <2>3. ASSUME NEW f \in File, NEW r, NEW s \in Session, NEW i, NEW supported,
               AgentWrites(s, f, r, i, supported)
        PROVE  PlanSound'
    <3>1. s \in working /\ Write(f, Written(f, r), history[s][Len(history[s])])
      BY <2>3 DEF AgentWrites
    <3> QED  BY <2>1, <2>2, <3>1
  <2>4. User \in Nat
    BY DEF User
  <2> QED  BY <1>3, <2>1, <2>3, <2>4, WritesRecord
<1>4. ASSUME NEW s \in Session, NextQueued(s) \/ Resume(s) \/ Ingest(s)  PROVE PlanSound'
  <2>1. NextQueued(s) \/ Resume(s) => rw' = rw /\ edits' = edits
    BY DEF NextQueued, Resume, facts, log
  <2>2. Ingest(s) => PlanCarried
    BY <1>0 DEF Ingest, IngestPoint, IngestMutation, Ingested, RewindFields, PlanCarried, PlanSound
  <2> QED  BY <1>1, <1>2, <1>4, <2>1, <2>2, IngestUnchanged
<1>5. Prompt \/ Restart \/ UNCHANGED vars => rw' = rw /\ edits' = edits
  BY DEF Prompt, Restart, vars, facts, log
<1> QED  BY <1>2, <1>3, <1>4, <1>5, TransactionPlan, DialogPlan DEF Next

-----------------------------------------------------------------------------
(* The files                                                               *)

\* Lemma: what is put into a file is what the plan has for it.
LEMMA ReplacementSound ==
  ASSUME FilesInv, PlanSound, NEW f, ApplyFile(f) \/ Rollback(f)
  PROVE  /\ f \in DOMAIN rw.to /\ f \in File /\ PlannedSound(f) /\ edits' = edits
         /\ \/ /\ ApplyFile(f) /\ rw.pc = "apply"
               /\ Replace(f, rw.from[f], rw.to[f])
            \/ /\ Rollback(f) /\ rw.pc = "rollback"
               /\ Replace(f, rw.to[f], rw.from[f])
<1>1. f \in DOMAIN rw.to /\ rw.pc \in {"apply", "rollback"} /\ f \in File
  BY DEF ApplyFile, Rollback, FilesInv, Phases
<1>2. rw.action # "conversation-only"
  BY <1>1 DEF FilesInv, Phases
<1>3. PlannedSound(f)
  BY <1>1, <1>2 DEF PlanSound, Busy
<1> QED  BY <1>1, <1>3 DEF ApplyFile, Rollback, log

\* Lemma: so do the files.
LEMMA FilesStaySound ==
  RecordsInv /\ FilesInv /\ FilesSound /\ PlanSound /\ [Next]_vars => FilesSound'
<1> SUFFICES ASSUME RecordsInv, FilesInv, FilesSound, PlanSound, [Next]_vars
             PROVE  FilesSound'
  OBVIOUS
<1>0. Files /\ EditsInv /\ HostInv
  BY DEF FilesInv, RecordsInv
<1>1. CASE content' = content /\ edits' = edits
  BY <1>1, SameEdits DEF FilesSound, File
<1>2. ASSUME NEW f \in File, NEW c \in {Absent} \cup {Written(f, r) : r \in Regions[f]},
             NEW who \in Nat, Write(f, c, who)
      PROVE  FilesSound'
  <2>1. /\ edits' = Append(edits, [by |-> who, file |-> f])
        /\ content' = [content EXCEPT ![f] = c]
    BY <1>2 DEF Write
  <2>2. /\ Len(edits') = Len(edits) + 1 /\ Len(edits) \in Nat
        /\ \A g \in File : ContentsOf(g) \subseteq ContentsOf(g)'
    BY <1>0, <2>1, EditsGrow DEF EditsInv
  <2>3. c \in ContentsOf(f)'
    <3>1. CASE c = Absent
      BY <3>1 DEF ContentsOf, Contents
    <3>2. CASE c # Absent /\ content[f] = Absent
      <4>1. c = [x \in Regions[f] |-> Len(edits) + 1]
        BY <1>2, <3>2 DEF Written, NextEdit
      <4>2. c \in [Regions[f] -> 0 .. Len(edits')]
        BY <2>2, <4>1
      <4> QED  BY <4>2 DEF ContentsOf, Contents
    <3>3. CASE c # Absent /\ content[f] # Absent
      <4>1. content[f] \in [Regions[f] -> 0 .. Len(edits)]
        BY <3>3 DEF FilesSound, ContentsOf, Contents
      <4> PICK r \in Regions[f] : c = Written(f, r)
        BY <3>3
      <4>2. c = [content[f] EXCEPT ![r] = Len(edits) + 1]
        BY <3>3 DEF Written, NextEdit
      <4>3. c \in [Regions[f] -> 0 .. Len(edits')]
        <5> DEFINE old == content[f]
                   n == Len(edits)
        <5>1. /\ old \in [Regions[f] -> 0 .. n] /\ c = [old EXCEPT ![r] = n + 1]
              /\ Len(edits') = n + 1 /\ n \in Nat
          BY <2>2, <4>1, <4>2
        <5> HIDE DEF old, n
        <5> QED  BY <5>1
      <4> QED  BY <4>3 DEF ContentsOf, Contents
    <3> QED  BY <3>1, <3>2, <3>3
  <2>4. \A g \in File : content'[g] = IF g = f THEN c ELSE content[g]
    BY <1>0, <2>1 DEF Files
  <2> QED  BY <2>2, <2>3, <2>4 DEF FilesSound, File
<1>3. CASE Writes
  <2>1. ASSUME NEW f \in File, NEW r \in Regions[f], NEW s \in Session, NEW i, NEW supported,
               AgentWrites(s, f, r, i, supported)
        PROVE  FilesSound'
    <3>1. s \in working /\ Write(f, Written(f, r), history[s][Len(history[s])])
      BY <2>1 DEF AgentWrites
    <3>2. history[s] \in Seq(Point) /\ history[s] # <<>>
      BY <1>0, <3>1 DEF HostInv
    <3>3. history[s][Len(history[s])] \in Point
      BY <3>2
    <3>4. history[s][Len(history[s])] \in Nat
      BY <3>3, TransactionAssumption DEF Point
    <3> QED  BY <1>2, <3>1, <3>4
  <2>2. User \in Nat
    BY DEF User
  <2> QED  BY <1>2, <1>3, <2>1, <2>2, WritesRecord
<1>4. ASSUME NEW f, ApplyFile(f) \/ Rollback(f)  PROVE FilesSound'
  <2>1. /\ f \in File /\ edits' = edits
        /\ \E c \in ContentsOf(f) : content' = [content EXCEPT ![f] = c]
    BY <1>4, ReplacementSound DEF Replace, PlannedSound
  <2> QED  BY <1>0, <2>1, SameEdits DEF FilesSound, Files, File
<1>5. TransactionStep => content' = content \/ \E f : ApplyFile(f) \/ Rollback(f)
  BY DEF TransactionStep, Drafted, Check, Restored, RolledBack, Fork, OpenFork, Commit,
         ApplyFailed, ConversationFailed, RollbackFailed, facts
<1>6. Prompt \/ Restart \/ UNCHANGED vars => content' = content /\ edits' = edits
  BY DEF Prompt, Restart, vars, facts, log
<1>7. \A s \in Session : NextQueued(s) \/ Resume(s) => content' = content /\ edits' = edits
  BY DEF NextQueued, Resume, facts, log
<1> QED  BY <1>1, <1>3, <1>4, <1>5, <1>6, <1>7, TransactionUnchanged, DialogUnchanged,
            IngestUnchanged DEF Next

-----------------------------------------------------------------------------
(* What the user has written                                               *)

UserEditsInv == FilesInv /\ RecordsInv /\ FilesSound /\ PlanSound

\* Lemma: the invariant holds at the start.
LEMMA UserEditsInit == Init => UserEditsInv
<1> SUFFICES ASSUME Init  PROVE UserEditsInv
  OBVIOUS
<1>1. EditsInv
  BY DEF Init, EditsInv
<1>2. HostInv
  BY TransactionAssumption DEF Init, HostInv, Session
<1>3. JournalInv
  <2>1. <<>> \in Seq(Item)
    OBVIOUS
  <2>2. NoTimeline \in Timeline(AgentEdit)
    BY DEF Timeline
  <2> QED  BY <2>1, <2>2 DEF Init, JournalInv
<1>4. RewindInv
  <2>1. <<>> \in Seq(AgentEdit)
    OBVIOUS
  <2> QED  BY <2>1 DEF Init, RewindInv, NoRewind, Chosen, Busy
<1>5. FilesSound
  <2>1. \A f \in File : content[f] = [r \in Regions[f] |-> 0]
    BY DEF Init
  <2>2. Len(edits) = 0
    BY DEF Init
  <2>3. ASSUME NEW f \in File  PROVE content[f] \in [Regions[f] -> 0 .. Len(edits)]
    <3> DEFINE R == Regions[f]
               c == content[f]
    <3>1. c = [r \in R |-> 0]
      BY <2>1
    <3> HIDE DEF R, c
    <3>2. c \in [R -> 0 .. 0]
      BY <3>1
    <3> QED  BY <2>2, <3>2 DEF R, c
  <2> QED  BY <2>3 DEF FilesSound, ContentsOf, Contents
<1>6. PlanSound
  BY DEF Init, NoRewind, PlanSound, Busy
<1> QED  BY <1>1, <1>2, <1>3, <1>4, <1>5, <1>6, FilesInit DEF UserEditsInv, RecordsInv

\* Lemma: every step keeps the invariant.
LEMMA UserEditsStep == UserEditsInv /\ [Next]_vars => UserEditsInv'
BY FilesStep, HostStep, JournalStep, RewindStep, FilesStaySound, PlanStaysSound
   DEF UserEditsInv, RecordsInv

\* While files are replaced, a step that is not an edit replaces one of them by
\* what the plan has for it, and the plan spares what the user has written.
LEMMA ReplacementSpares ==
  ASSUME UserEditsInv, [Next]_vars, rw.pc \in {"apply", "rollback"}, edits' = edits, ~raced',
         NEW f \in File, NEW r \in Regions[f], content'[f] # content[f],
         content[f] # Absent, ByUser(content[f][r]), ~PutByRewind(f)
  PROVE  content'[f] # Absent /\ content'[f][r] = content[f][r]
<1>0. FilesInv /\ Files /\ PlanSound /\ RecordsInv /\ FilesSound
  BY DEF UserEditsInv, FilesInv
<1>1. PICK g : ApplyFile(g) \/ Rollback(g)
  <2>1. ~Writes
    <3>1. Len(edits) \in Nat /\ edits \in Seq([by : Nat, file : File])
      BY <1>0 DEF RecordsInv, EditsInv
    <3>2. \A x : edits # Append(edits, x)
      BY <3>1
    <3> QED  BY <3>2, WritesWrite DEF Write
  <2>2. content' # content
    OBVIOUS
  <2>3. TransactionStep => content' = content \/ \E h : ApplyFile(h) \/ Rollback(h)
    BY DEF TransactionStep, Drafted, Check, Restored, RolledBack, Fork, OpenFork, Commit,
           ApplyFailed, ConversationFailed, RollbackFailed, facts
  <2>4. Prompt \/ Restart \/ UNCHANGED vars => content' = content
    BY DEF Prompt, Restart, vars, facts
  <2>5. \A s \in Session : NextQueued(s) \/ Resume(s) => content' = content
    BY DEF NextQueued, Resume, facts
  <2> QED  BY <2>1, <2>2, <2>3, <2>4, <2>5, DialogUnchanged, IngestUnchanged DEF Next
<1>2. /\ g \in File /\ PlannedSound(g)
      /\ \/ rw.pc = "apply" /\ Replace(g, rw.from[g], rw.to[g])
         \/ rw.pc = "rollback" /\ Replace(g, rw.to[g], rw.from[g])
  BY <1>0, <1>1, ReplacementSound
<1>3. f = g
  BY <1>0, <1>2 DEF Replace, Files
<1>4. /\ rw.pc = "apply" /\ ~rw.undo
      /\ content[f] = rw.from[f] /\ content'[f] = rw.to[f]
  <2>1. rw.undo \in BOOLEAN
    BY <1>0 DEF FilesInv, Phases
  <2>2. rw.pc = "rollback" => content[f] = rw.to[f]
    BY <1>2, <1>3 DEF Replace
  <2>3. rw.pc = "apply" => content[f] = rw.from[f]
    BY <1>2, <1>3 DEF Replace
  <2>4. rw.pc = "apply" /\ ~rw.undo
    BY <2>1, <2>2, <2>3 DEF PutByRewind
  <2>5. content'[f] = rw.to[f]
    BY <1>0, <1>2, <1>3, <2>4 DEF Replace, Files
  <2> QED  BY <2>3, <2>4, <2>5
<1>5. content[f][r] \in Users
  <2>1. content[f] \in [Regions[f] -> 0 .. Len(edits)]
    BY <1>0 DEF FilesSound, ContentsOf, Contents
  <2> QED  BY <2>1 DEF Users
<1> QED  BY <1>2, <1>3, <1>4, <1>5 DEF PlannedSound, Spared

\* Theorem: files, plans and what is recorded fit together: a plan that is
\* carried out leaves to the user what is the user's.
THEOREM PlansSound == Spec => []UserEditsInv
<1>1. Init => UserEditsInv
  BY UserEditsInit
<1>2. UserEditsInv /\ [Next]_vars => UserEditsInv'
  BY UserEditsStep
<1> QED  BY <1>1, <1>2, PTL DEF Spec

\* Theorem: a rewind, its rollback and its compensation never remove what the
\* user has written, except in a file written while it was being replaced.
THEOREM UserEditsSpared == Spec => UserEditsKept
<1>1. UserEditsInv /\ [Next]_vars =>
        [ rw.pc \in {"apply", "rollback"} /\ edits' = edits /\ ~raced' =>
            \A f \in File : \A r \in Regions[f] :
              content'[f] # content[f] /\ content[f] # Absent /\ ByUser(content[f][r])
                => PutByRewind(f) \/ (content'[f] # Absent /\ content'[f][r] = content[f][r])
        ]_vars
  BY ReplacementSpares
<1> QED  BY <1>1, PlansSound, PTL DEF Spec, UserEditsKept

-----------------------------------------------------------------------------
(* The lineage that is saved                                               *)

Prompts == UNION {{history[s][i] : i \in 1 .. Len(history[s])} : s \in Session}

\* The Prompts are numbered one after the other, and a Session has none twice.
NumbersInv ==
  /\ Prompts \subseteq 1 .. Cardinality(Prompts)
  /\ \A s \in Session : \A i, j \in 1 .. Len(history[s]) :
       i # j => history[s][i] # history[s][j]

\* The turns of the Sessions, and the edits with the Prompts that caused them.
Known ==
  {c \in Checkpoint : /\ c.session \in Session /\ c.turn \in 1 .. Len(history[c.session])
                      /\ history[c.session][c.turn] = c.id}

Caused == {<<e, edits[e].by>> : e \in 1 .. Len(edits)}

\* What waits to be recorded is of a turn of its Session.
Traced(item, prompts, K, W) ==
  /\ item.kind = "point" => item.point \in K
  /\ item.kind = "mutation" => /\ item.turn \in 1 .. Len(prompts)
                               /\ <<item.mutation.edit, prompts[item.turn]>> \in W

LineageInv ==
  /\ NumbersInv
  /\ \A s \in Session : \A n \in 1 .. Len(ingest[s]) :
           Traced(ingest[s][n], history[s], Known, Caused)
  /\ timeline \in Lineage(AgentEdit, Known, Caused)

\* Lemma: a new Prompt has a number of its own.
LEMMA AdmitNumbers ==
  ASSUME HostInv, NumbersInv, NEW s \in Session, Admit(s)
  PROVE  NumbersInv'
<1> DEFINE id == Points + 1
<1>1. history' = [history EXCEPT ![s] = Append(@, id)] /\ history \in [Session -> Seq(Point)]
  BY DEF Admit, HostInv
<1>2. id \in Point /\ id = Cardinality(Prompts) + 1
  BY AdmitPoint DEF Points, Prompts
<1>3. /\ IsFiniteSet(Prompts) /\ Cardinality(Prompts) \in Nat
      /\ id \notin Prompts
  <2>1. Prompts \subseteq Point
    BY <1>1 DEF Prompts
  <2>2. IsFiniteSet(Point)
    BY FS_Interval, TransactionAssumption DEF Point
  <2>3. IsFiniteSet(Prompts)
    BY <2>1, <2>2, FS_Subset
  <2>4. Cardinality(Prompts) \in Nat
    BY <2>3, FS_CardinalityType
  <2> QED  BY <1>2, <2>3, <2>4 DEF NumbersInv
<1> HIDE DEF id
<1>4. /\ history'[s] = Append(history[s], id) /\ Len(history'[s]) = Len(history[s]) + 1
      /\ \A t \in Session : t # s => history'[t] = history[t]
      /\ \A t \in Session : history[t] \in Seq(Point)
  BY <1>1
<1>5. /\ \A i \in 1 .. Len(history[s]) : history'[s][i] = history[s][i]
      /\ history'[s][Len(history[s]) + 1] = id
      /\ \A i \in 1 .. Len(history'[s]) : i \in 1 .. Len(history[s]) \/ i = Len(history[s]) + 1
      /\ Len(history[s]) \in Nat
  BY <1>4
<1>6. Prompts' = Prompts \cup {id}
  <2>1. ASSUME NEW p \in Prompts'  PROVE p \in Prompts \cup {id}
    <3>1. PICK t \in Session : \E i \in 1 .. Len(history'[t]) : history'[t][i] = p
      BY DEF Prompts, Session
    <3>2. PICK i \in 1 .. Len(history'[t]) : history'[t][i] = p
      BY <3>1
    <3>3. CASE t = s
      BY <1>5, <3>2, <3>3 DEF Prompts
    <3>4. CASE t # s
      <4>1. history'[t] = history[t]
        BY <1>4, <3>4
      <4> QED  BY <3>2, <4>1 DEF Prompts
    <3> QED  BY <3>3, <3>4
  <2>2. ASSUME NEW p \in Prompts  PROVE p \in Prompts'
    <3>1. PICK t \in Session : \E i \in 1 .. Len(history[t]) : history[t][i] = p
      BY DEF Prompts
    <3>2. PICK i \in 1 .. Len(history[t]) : history[t][i] = p
      BY <3>1
    <3>3. i \in 1 .. Len(history'[t]) /\ history'[t][i] = p
      BY <1>4, <1>5, <3>2
    <3> QED  BY <3>3 DEF Prompts, Session
  <2>3. id \in Prompts'
    <3>1. Len(history[s]) + 1 \in 1 .. Len(history'[s])
      BY <1>4, <1>5
    <3> QED  BY <1>5, <3>1 DEF Prompts, Session
  <2> QED  BY <2>1, <2>2, <2>3
<1>7. Cardinality(Prompts') = Cardinality(Prompts) + 1
  BY <1>3, <1>6, FS_AddElement
<1>8. Prompts' \subseteq 1 .. Cardinality(Prompts')
  BY <1>2, <1>3, <1>6, <1>7 DEF NumbersInv
<1>9. \A t \in Session : \A i, j \in 1 .. Len(history'[t]) :
        i # j => history'[t][i] # history'[t][j]
  <2>1. \A i \in 1 .. Len(history[s]) : history[s][i] \in Prompts
    BY DEF Prompts
  <2>2. \A i, j \in 1 .. Len(history'[s]) : i # j => history'[s][i] # history'[s][j]
    BY <1>3, <1>5, <2>1 DEF NumbersInv
  <2>3. ASSUME NEW t \in Session, t # s
        PROVE  \A i, j \in 1 .. Len(history'[t]) : i # j => history'[t][i] # history'[t][j]
    <3>1. history'[t] = history[t]
      BY <1>4, <2>3
    <3> QED  BY <3>1 DEF NumbersInv
  <2> QED  BY <2>2, <2>3
<1> QED  BY <1>8, <1>9 DEF NumbersInv, Session

\* Lemma: a new Session has Prompts of an older one.
LEMMA ForkNumbers ==
  ASSUME HostInv, RewindInv, NumbersInv, Fork
  PROVE  NumbersInv'
<1> DEFINE prompts == history[rw.session]
           before == CHOOSE i \in 1 .. Len(prompts) : prompts[i] = rw.point
           branch == SubSeq(prompts, 1, before - 1)
<1>1. /\ rw.pc = "fork" /\ sessions < MaxSession
      /\ history' = [history EXCEPT ![sessions + 1] = branch]
  BY DEF Fork
<1>2. /\ rw.session \in Session /\ sessions \in Nat /\ sessions + 1 \in Session
      /\ prompts \in Seq(Point) /\ history \in [Session -> Seq(Point)]
      /\ history[sessions + 1] = <<>>
  BY <1>1, TransactionAssumption DEF RewindInv, HostInv, Session
<1>3. before \in 1 .. Len(prompts)
  <2>1. \E i \in 1 .. Len(prompts) : prompts[i] = rw.point
    BY <1>1 DEF RewindInv, Chosen, Busy
  <2> QED  BY <2>1
<1>4. Len(branch) <= Len(prompts) /\ Len(branch) \in Nat
      /\ \A i \in 1 .. Len(branch) : i \in 1 .. Len(prompts) /\ branch[i] = prompts[i]
  <2> HIDE DEF before, prompts
  <2> QED  BY <1>2, <1>3
<1> HIDE DEF branch
<1>5. /\ history'[sessions + 1] = branch
      /\ \A t \in Session : t # sessions + 1 => history'[t] = history[t]
  BY <1>1, <1>2
<1>6. Prompts' = Prompts
  <2>1. ASSUME NEW p \in Prompts'  PROVE p \in Prompts
    <3>1. PICK t \in Session : \E i \in 1 .. Len(history'[t]) : history'[t][i] = p
      BY DEF Prompts, Session
    <3>2. PICK i \in 1 .. Len(history'[t]) : history'[t][i] = p
      BY <3>1
    <3>3. CASE t = sessions + 1
      <4>1. i \in 1 .. Len(history[rw.session]) /\ history[rw.session][i] = p
        BY <1>4, <1>5, <3>2, <3>3
      <4> QED  BY <1>2, <4>1 DEF Prompts
    <3>4. CASE t # sessions + 1
      BY <1>5, <3>2, <3>4 DEF Prompts
    <3> QED  BY <3>3, <3>4
  <2>2. ASSUME NEW p \in Prompts  PROVE p \in Prompts'
    <3>1. PICK t \in Session : \E i \in 1 .. Len(history[t]) : history[t][i] = p
      BY DEF Prompts
    <3>2. t # sessions + 1
      BY <1>2, <3>1
    <3> QED  BY <1>5, <3>1, <3>2 DEF Prompts, Session
  <2> QED  BY <2>1, <2>2
<1>7. \A t \in Session : \A i, j \in 1 .. Len(history'[t]) :
        i # j => history'[t][i] # history'[t][j]
  <2>1. \A i, j \in 1 .. Len(prompts) : i # j => prompts[i] # prompts[j]
    BY <1>2 DEF NumbersInv
  <2> HIDE DEF prompts
  <2>2. \A i, j \in 1 .. Len(branch) : i # j => branch[i] # branch[j]
    BY <1>4, <2>1
  <2> QED  BY <1>5, <2>2 DEF NumbersInv
<1> QED  BY <1>6, <1>7 DEF NumbersInv, Session

\* Lemma: every step keeps the numbers of the Prompts.
LEMMA NumbersStep == RecordsInv /\ NumbersInv /\ [Next]_vars => NumbersInv'
<1> SUFFICES ASSUME RecordsInv, NumbersInv, [Next]_vars  PROVE NumbersInv'
  OBVIOUS
<1>0. HostInv /\ RewindInv
  BY DEF RecordsInv
<1>1. CASE history' = history
  <2>1. Prompts' = Prompts
    BY <1>1 DEF Prompts, Session
  <2> QED  BY <1>1, <2>1 DEF NumbersInv, Session
<1>2. CASE Prompt
  <2>1. Admit(active) /\ active \in Session
    BY <1>0, <1>2, TransactionAssumption DEF Prompt, HostInv, Session
  <2> QED  BY <1>0, <2>1, AdmitNumbers
<1>3. ASSUME NEW s \in Session, NextQueued(s) \/ Resume(s) \/ Ingest(s)  PROVE NumbersInv'
  <2>1. NextQueued(s) => Admit(s)
    BY DEF NextQueued
  <2>2. Resume(s) => history' = history
    BY DEF Resume, host
  <2> QED  BY <1>0, <1>1, <1>3, <2>1, <2>2, AdmitNumbers, IngestUnchanged
<1>4. CASE Fork
  BY <1>0, <1>4, ForkNumbers
<1>5. OpenFork \/ Restart \/ UNCHANGED vars => history' = history
  BY DEF OpenFork, Restart, host, vars
<1> QED  BY <1>1, <1>2, <1>3, <1>4, <1>5, DialogUnchanged, TransactionUnchanged, WritesRecord
         DEF Next

\* Lemma: every edit keeps its number and the Prompt that caused it.
LEMMA CausesGrow ==
  ASSUME EditsInv, [Next]_vars
  PROVE  Caused \subseteq Caused'
<1>1. edits' = edits \/ \E x : edits' = Append(edits, x)
  <2>1. Prompt \/ Restart \/ UNCHANGED vars => edits' = edits
    BY DEF Prompt, Restart, vars, facts, log
  <2>2. \A s \in Session : NextQueued(s) \/ Resume(s) => edits' = edits
    BY DEF NextQueued, Resume, facts, log
  <2>3. Writes => \E x : edits' = Append(edits, x)
    BY WritesWrite DEF Write
  <2> QED  BY <2>1, <2>2, <2>3, DialogUnchanged, TransactionUnchanged, IngestUnchanged DEF Next
<1>2. CASE edits' = edits
  BY <1>2 DEF Caused
<1>3. ASSUME NEW x, edits' = Append(edits, x)  PROVE Caused \subseteq Caused'
  <2>1. /\ Len(edits') = Len(edits) + 1 /\ Len(edits) \in Nat
        /\ \A e \in 1 .. Len(edits) : edits'[e] = edits[e]
    BY <1>3 DEF EditsInv
  <2> QED  BY <2>1 DEF Caused
<1> QED  BY <1>1, <1>2, <1>3

\* Lemma: the turns of the Sessions stay what they are.
LEMMA KnownGrows ==
  ASSUME HostInv, HostGrows
  PROVE  Known \subseteq Known'
<1> SUFFICES ASSUME NEW c \in Known  PROVE c \in Known'
  OBVIOUS
<1>1. /\ c \in Checkpoint /\ c.session \in Session /\ c.turn \in 1 .. Len(history[c.session])
      /\ history[c.session][c.turn] = c.id
  BY DEF Known
<1>2. c.session \in 1 .. sessions
  BY <1>1 DEF HostInv, Session
<1>3. c.turn \in 1 .. Len(history'[c.session]) /\ history'[c.session][c.turn] = c.id
  BY <1>1, <1>2 DEF HostGrows
<1> QED  BY <1>1, <1>3 DEF Known, Session

\* Lemma: what is traced stays so.
LEMMA TracesGrow ==
  ASSUME HostInv, HostGrows, Known \subseteq Known', Caused \subseteq Caused',
         AgentEdit \subseteq AgentEdit'
  PROVE  /\ \A s \in Session : \A item :
                 Traced(item, history[s], Known, Caused)
                   => Traced(item, history'[s], Known', Caused')
         /\ Lineage(AgentEdit, Known, Caused) \subseteq Lineage(AgentEdit', Known', Caused')
<1>1. ASSUME NEW s \in Session, NEW item, Traced(item, history[s], Known, Caused)
      PROVE  Traced(item, history'[s], Known', Caused')
  <2>1. CASE item.kind = "mutation"
    <3>1. item.turn \in 1 .. Len(history[s])
          /\ <<item.mutation.edit, history[s][item.turn]>> \in Caused
      BY <1>1, <2>1 DEF Traced
    <3>2. s \in 1 .. sessions
      BY <3>1 DEF HostInv, Session
    <3>3. item.turn \in 1 .. Len(history'[s]) /\ history'[s][item.turn] = history[s][item.turn]
      BY <3>1, <3>2 DEF HostGrows
    <3> QED  BY <2>1, <3>1, <3>3 DEF Traced
  <2>2. CASE item.kind # "mutation"
    BY <1>1, <2>2 DEF Traced
  <2> QED  BY <2>1, <2>2
<1>2. ASSUME NEW tl \in Lineage(AgentEdit, Known, Caused)
      PROVE  tl \in Lineage(AgentEdit', Known', Caused')
  <2>1. tl \in Timeline(AgentEdit')
    BY RecordsGrow DEF Lineage
  <2>2. tl # NoTimeline => /\ Len(tl.nodes) <= History
                           /\ Attributes(tl.nodes, Known', Caused')
    BY DEF Lineage, Attributes
  <2> QED  BY <2>1, <2>2 DEF Lineage
<1> QED  BY <1>1, <1>2

\* Lemma: the latest checkpoints of a Session are turns of it, no one twice.
LEMMA CheckpointsKnown ==
  ASSUME HostInv, NumbersInv, NEW s \in Session
  PROVE  /\ Checkpoints(s) \in Seq(Known)
         /\ \A i, j \in 1 .. Len(Checkpoints(s)) :
              i # j => Checkpoints(s)[i].id # Checkpoints(s)[j].id
<1> DEFINE point(i) == [id |-> history[s][i], session |-> s, turn |-> i]
           points == [i \in 1 .. Len(history[s]) |-> point(i)]
           part == LastPoints(points)
<1>1. history[s] \in Seq(Point) /\ Len(history[s]) \in Nat /\ s \in Nat
  BY DEF HostInv, Session
<1>2. ASSUME NEW i \in 1 .. Len(history[s])  PROVE point(i) \in Known
  <2>1. history[s][i] \in Point /\ i \in Nat
    BY <1>1
  <2>2. history[s][i] \in Nat
    BY <2>1, TransactionAssumption DEF Point
  <2> QED  BY <1>1, <2>1, <2>2 DEF Known, Checkpoint
<1>3. points \in Seq(Known) /\ Len(points) = Len(history[s])
      /\ \A i \in 1 .. Len(points) : points[i].id = history[s][i]
  <2>1. points \in [1 .. Len(history[s]) -> Known]
    BY <1>2
  <2> QED  BY <1>1, <2>1
<1>4. Checkpoints(s) = part
  BY DEF Checkpoints
<1> HIDE DEF points
<1>5. part \in Seq(Known)
  BY <1>3, LastPointsType
<1>6. PICK first \in 1 .. Len(points) + 1 :
        /\ Len(part) = Len(points) - first + 1
        /\ \A i \in 1 .. Len(part) : part[i] = points[first + i - 1]
  BY <1>3, LastPointsLength
<1> HIDE DEF part
<1>7. ASSUME NEW i \in 1 .. Len(part), NEW j \in 1 .. Len(part), i # j
      PROVE  part[i].id # part[j].id
  <2>1. Len(points) \in Nat /\ first \in 1 .. Len(points) + 1 /\ Len(part) = Len(points) - first + 1
    BY <1>1, <1>3, <1>6
  <2>2. /\ first + i - 1 \in 1 .. Len(points) /\ first + j - 1 \in 1 .. Len(points)
        /\ first + i - 1 # first + j - 1
    <3> DEFINE N == Len(points)
               M == Len(part)
    <3>1. N \in Nat /\ first \in 1 .. N + 1 /\ M = N - first + 1 /\ i \in 1 .. M /\ j \in 1 .. M
      BY <2>1
    <3> HIDE DEF N, M
    <3>2. /\ first + i - 1 \in 1 .. N /\ first + j - 1 \in 1 .. N
          /\ first + i - 1 # first + j - 1
      BY <3>1, <1>7
    <3> QED  BY <3>2 DEF N
  <2>3. history[s][first + i - 1] # history[s][first + j - 1]
    BY <1>3, <2>2 DEF NumbersInv
  <2> QED  BY <1>3, <1>6, <2>2, <2>3
<1> QED  BY <1>4, <1>5, <1>7

\* Lemma: what an insertion gives is made of what there was.
LEMMA InsertedFrom ==
  ASSUME NEW S, NEW s \in Seq(S), NEW i \in 1 .. Len(s) + 1, NEW e
  PROVE  \A n \in 1 .. Len(InsertAt(s, i, e)) :
           InsertAt(s, i, e)[n] = e \/ \E k \in 1 .. Len(s) : InsertAt(s, i, e)[n] = s[k]
<1> DEFINE T == {s[k] : k \in 1 .. Len(s)} \cup {e}
<1>1. s \in Seq(T) /\ e \in T
  OBVIOUS
<1> HIDE DEF T
<1>2. InsertAt(s, i, e) \in Seq(T)
  BY <1>1, InsertType
<1>3. \A n \in 1 .. Len(InsertAt(s, i, e)) : InsertAt(s, i, e)[n] \in T
  BY <1>2
<1> QED  BY <1>3 DEF T

\* Lemma: what waits to be recorded is told with its turn.
LEMMA WaitingStep ==
  ASSUME UserEditsInv, LineageInv, [Next]_vars, HostGrows,
         \A s \in Session : \A item :
              Traced(item, history[s], Known, Caused)
                => Traced(item, history'[s], Known', Caused'),
         NEW t \in Session, NEW n \in 1 .. Len(ingest'[t])
  PROVE  Traced(ingest'[t][n], history'[t], Known', Caused')
<1>0. /\ RecordsInv /\ HostInv /\ EditsInv
      /\ ingest \in [Session -> Seq(Item)]
  BY DEF UserEditsInv, RecordsInv, JournalInv
<1>1. \A k \in 1 .. Len(ingest[t]) : Traced(ingest[t][k], history'[t], Known', Caused')
  BY DEF LineageInv
<1>2. CASE ingest' = ingest
  BY <1>1, <1>2
<1>3. ASSUME NEW s \in Session, Admit(s)  PROVE Traced(ingest'[t][n], history'[t], Known', Caused')
  <2> DEFINE point == [id |-> Points + 1, session |-> s, turn |-> Len(history[s]) + 1]
             item == [kind |-> "point", point |-> point]
  <2>1. /\ ingest' = [ingest EXCEPT ![s] = Append(@, item)]
        /\ history' = [history EXCEPT ![s] = Append(@, Points + 1)]
    BY <1>3 DEF Admit
  <2>2. Points + 1 \in Nat /\ Points + 1 \in Point
    BY <1>0, <1>3, AdmitPoint, TransactionAssumption DEF Point
  <2> HIDE DEF Points
  <2>3. /\ history[s] \in Seq(Point) /\ s \in Nat
        /\ history'[s] = Append(history[s], Points + 1)
    BY <1>0, <2>1 DEF HostInv, Session
  <2>4. /\ Len(history[s]) + 1 \in 1 .. Len(history'[s])
        /\ history'[s][Len(history[s]) + 1] = Points + 1
    BY <2>2, <2>3
  <2>5. point \in Checkpoint
    BY <2>2, <2>3 DEF Checkpoint
  <2>6. point \in Known'
    BY <2>4, <2>5 DEF Known, Session
  <2>7. item.kind = "point" /\ item.point = point
    OBVIOUS
  <2>8. Traced(item, history'[t], Known', Caused')
    BY <2>6, <2>7 DEF Traced
  <2> HIDE DEF item
  <2>9. ingest'[t][n] = item \/ \E k \in 1 .. Len(ingest[t]) : ingest'[t][n] = ingest[t][k]
    <3>1. CASE t = s
      <4>1. ingest'[t] = Append(ingest[t], item) /\ ingest[t] \in Seq(Item)
        BY <1>0, <2>1, <3>1
      <4>2. n = Len(ingest[t]) + 1 \/ n \in 1 .. Len(ingest[t])
        BY <4>1
      <4> QED  BY <4>1, <4>2
    <3>2. CASE t # s
      <4>1. ingest'[t] = ingest[t]
        BY <1>0, <2>1, <3>2
      <4> QED  BY <4>1
    <3> QED  BY <3>1, <3>2
  <2> QED  BY <1>1, <2>8, <2>9
<1>4. ASSUME NEW s \in Session, Ingest(s)  PROVE Traced(ingest'[t][n], history'[t], Known', Caused')
  <2>1. ingest[s] # <<>> /\ ingest' = [ingest EXCEPT ![s] = Tail(@)]
    BY <1>4 DEF Ingest, IngestPoint, IngestMutation, Take
  <2>2. \E k \in 1 .. Len(ingest[t]) : ingest'[t][n] = ingest[t][k]
    <3>1. CASE t = s
      <4>1. ingest'[t] = Tail(ingest[t]) /\ ingest[t] \in Seq(Item) /\ ingest[t] # <<>>
        BY <1>0, <2>1, <3>1
      <4>2. n + 1 \in 1 .. Len(ingest[t]) /\ ingest'[t][n] = ingest[t][n + 1]
        BY <4>1
      <4> QED  BY <4>2
    <3>2. CASE t # s
      <4>1. ingest'[t] = ingest[t]
        BY <1>0, <2>1, <3>2
      <4> QED  BY <4>1
    <3> QED  BY <3>1, <3>2
  <2> QED  BY <1>1, <2>2
<1>5. ASSUME NEW f \in File, NEW r \in Regions[f], NEW s \in Session,
             NEW i \in 1 .. MaxEdit + MaxPoint, NEW supported \in BOOLEAN,
             AgentWrites(s, f, r, i, supported)
      PROVE  Traced(ingest'[t][n], history'[t], Known', Caused')
  <2> DEFINE turn == Len(history[s])
             m == [edit |-> NextEdit, order |-> order + 1, file |-> f, before |-> content[f],
                   after |-> Written(f, r), reversible |-> supported]
             item == [kind |-> "mutation", turn |-> turn, mutation |-> m]
  <2>1. /\ s \in working /\ i \in 1 .. Len(ingest[s]) + 1
        /\ edits' = Append(edits, [by |-> history[s][turn], file |-> f])
        /\ ingest' = [ingest EXCEPT ![s] = InsertAt(ingest[s], i, item)]
        /\ history' = history
    BY <1>5 DEF AgentWrites, Write, host
  <2>2. turn \in 1 .. Len(history[s])
    <3>1. history[s] \in Seq(Point) /\ history[s] # <<>>
      BY <1>0, <2>1 DEF HostInv
    <3> QED  BY <3>1
  <2>3. /\ Len(edits) \in Nat /\ Len(edits') = Len(edits) + 1
        /\ edits'[Len(edits) + 1].by = history[s][turn]
    <3> HIDE DEF turn
    <3> QED  BY <1>0, <2>1 DEF EditsInv
  <2>4. item.kind = "mutation" /\ item.turn = turn /\ item.mutation.edit = Len(edits) + 1
    BY DEF NextEdit
  <2>5. <<Len(edits) + 1, history[s][turn]>> \in Caused'
    <3>1. Len(edits) + 1 \in 1 .. Len(edits')
      BY <2>3
    <3> QED  BY <2>3, <3>1 DEF Caused
  <2> HIDE DEF item, turn
  <2>6. Traced(item, history'[s], Known', Caused')
    BY <2>1, <2>2, <2>4, <2>5 DEF Traced
  <2>7. CASE t = s
    <3>1. ingest'[t] = InsertAt(ingest[t], i, item) /\ ingest[t] \in Seq(Item)
      BY <1>0, <2>1, <2>7
    <3>2. ingest'[t][n] = item \/ \E k \in 1 .. Len(ingest[t]) : ingest'[t][n] = ingest[t][k]
      BY <2>1, <2>7, <3>1, InsertedFrom
    <3> QED  BY <1>1, <2>6, <2>7, <3>2
  <2>8. CASE t # s
    <3>1. ingest'[t] = ingest[t]
      BY <1>0, <2>1, <2>8
    <3> QED  BY <1>1, <3>1
  <2> QED  BY <2>7, <2>8
<1>6. CASE Prompt
  <2>1. Admit(active) /\ active \in Session
    BY <1>0, <1>6, TransactionAssumption DEF Prompt, HostInv, Session
  <2> QED  BY <1>3, <2>1
<1>7. \A s \in Session : NextQueued(s) => Admit(s)
  BY DEF NextQueued
<1>8. \A s \in Session : Resume(s) => ingest' = ingest
  BY DEF Resume, journal
<1>9. Restart \/ UNCHANGED vars => ingest' = ingest
  BY DEF Restart, vars, journal
<1>10. CASE Writes
  BY <1>2, <1>5, <1>10, WritesRecord
<1> QED  BY <1>2, <1>3, <1>4, <1>6, <1>7, <1>8, <1>9, <1>10, DialogUnchanged, TransactionUnchanged
         DEF Next

\* Lemma: what is ingested is recorded in the lineage under its Prompt.
LEMMA IngestLineage ==
  ASSUME UserEditsInv, LineageInv, NEW s \in Session, Ingest(s)
  PROVE  timeline' \in Lineage(AgentEdit, Known, Caused)
<1> DEFINE item == Head(ingest[s])
<1>0. HostInv /\ JournalInv /\ NumbersInv /\ timeline \in Lineage(AgentEdit, Known, Caused)
      /\ Known \subseteq Checkpoint /\ s \in Nat
  BY TransactionAssumption DEF UserEditsInv, RecordsInv, LineageInv, Known, Session
<1>1. item \in Item /\ Traced(item, history[s], Known, Caused)
  <2>1. ingest[s] \in Seq(Item) /\ ingest[s] # <<>>
    BY <1>0 DEF JournalInv, Ingest, IngestPoint, IngestMutation
  <2>2. 1 \in 1 .. Len(ingest[s]) /\ item = ingest[s][1]
    BY <2>1
  <2> QED  BY <2>1, <2>2 DEF LineageInv
<1>2. CASE IngestPoint(s)
  <2>1. item.kind = "point" /\ timeline' = RecordPoint(timeline, item.point, item.point.id)
    BY <1>2 DEF IngestPoint
  <2> HIDE DEF item
  <2>2. item.point \in Known
    BY <1>1, <2>1 DEF Traced
  <2>3. item.point.id \in Nat
    BY <1>0, <2>2 DEF Checkpoint
  <2> QED  BY <1>0, <2>1, <2>2, <2>3, RecordLineage
<1>3. CASE IngestMutation(s)
  <2>1. item.kind = "mutation" /\ timeline' = Attributed(s, item)
    BY <1>3 DEF IngestMutation
  <2> HIDE DEF item
  <2>2. item.mutation \in AgentEdit
    BY <1>1, <2>1 DEF Item
  <2> DEFINE points == Checkpoints(s)
             lineage == MaxPoint + item.mutation.edit
             claimed == IF OwnsTurn(timeline, s, item.turn) THEN timeline
                        ELSE Claim(timeline, s, points, lineage)
  <2>3. \/ timeline' = timeline
        \/ timeline' = RecordMutation(claimed, s, item.turn, item.mutation)
    BY <2>1 DEF Attributed
  <2>4. /\ points \in Seq(Known)
        /\ \A i, j \in 1 .. Len(points) : i # j => points[i].id # points[j].id
    BY <1>0, CheckpointsKnown
  <2>5. lineage \in Nat
    <3>1. item.mutation.edit \in Nat
      BY <2>2 DEF AgentEdit, EditsFor
    <3> QED  BY <3>1, TransactionAssumption
  <2> HIDE DEF points, lineage
  <2>6. claimed \in Lineage(AgentEdit, Known, Caused)
    BY <1>0, <2>4, <2>5, ClaimLineage
  <2> HIDE DEF claimed
  <2>7. /\ item.mutation.reversible \in BOOLEAN
        /\ \A e \in AgentEdit, b \in BOOLEAN : /\ [e EXCEPT !.reversible = b] \in AgentEdit
                                               /\ [e EXCEPT !.reversible = b].edit = e.edit
    <3>1. \A e \in AgentEdit, b \in BOOLEAN : [e EXCEPT !.reversible = b].edit = e.edit
      BY DEF AgentEdit, EditsFor
    <3> QED  BY <2>2, <3>1, CountedEdit
  <2>8. \A c \in Known :
          c.session = s /\ c.turn = item.turn => <<item.mutation.edit, c.id>> \in Caused
    BY <1>1, <2>1 DEF Traced, Known
  <2>9. RecordMutation(claimed, s, item.turn, item.mutation) \in Lineage(AgentEdit, Known, Caused)
    BY <1>0, <2>2, <2>6, <2>7, <2>8, MutationLineage
  <2> QED  BY <1>0, <2>3, <2>9
<1> QED  BY <1>2, <1>3 DEF Ingest

\* Lemma: the saved lineage is loaded as it is.
LEMMA LineageSame ==
  ASSUME LineageInv
  PROVE  Reloaded(timeline) = timeline
<1>1. \A c \in Known : c.turn >= 1
  BY DEF Known
<1>2. \A c, d \in Known : c.session = d.session /\ c.turn = d.turn => c.id = d.id
  BY DEF Known
<1>3. timeline \in Lineage(AgentEdit, Known, Caused)
  BY DEF LineageInv
<1> QED  BY <1>1, <1>2, <1>3, LineageLoads

\* Lemma: every other step leaves the nodes of the lineage as they are.
LEMMA LineageKept ==
  ASSUME UserEditsInv, LineageInv, [Next]_vars
  PROVE  timeline' \in Lineage(AgentEdit, Known, Caused)
<1>0. /\ timeline \in Lineage(AgentEdit, Known, Caused) /\ timeline \in Timeline(AgentEdit)
      /\ rw.target \in Nat
  BY DEF LineageInv, Lineage, UserEditsInv, RecordsInv, RewindInv
<1>1. CASE timeline' = timeline
  BY <1>0, <1>1
<1>2. ASSUME NEW s \in Session, Ingest(s)  PROVE timeline' \in Lineage(AgentEdit, Known, Caused)
  BY <1>2, IngestLineage
<1>3. CASE Commit
  <2>1. \/ timeline' = timeline
        \/ /\ timeline # NoTimeline
           /\ timeline' = CommitTimeline(timeline, rw.point, rw.action, rw.target)
    BY <1>3 DEF Commit, Owned
  <2>2. ASSUME timeline # NoTimeline,
               timeline' = CommitTimeline(timeline, rw.point, rw.action, rw.target)
        PROVE  timeline' \in Lineage(AgentEdit, Known, Caused)
    <3>1. timeline \in Recording(AgentEdit)
      BY <1>0, <2>2 DEF Timeline
    <3>2. timeline' \in Timeline(AgentEdit)
      BY <1>0, <2>2, <3>1, CommitTimelineType
    <3>3. timeline'.nodes = timeline.nodes
      BY <2>2, <3>1 DEF CommitTimeline, Recording
    <3> QED  BY <1>0, <2>2, <3>2, <3>3 DEF Lineage
  <2> QED  BY <1>0, <2>1, <2>2
<1>4. CASE Restart
  <2>1. timeline' = Reloaded(timeline)
    BY <1>4 DEF Restart
  <2> QED  BY <1>1, <2>1, LineageSame
<1>5. Prompt \/ UNCHANGED vars => timeline' = timeline
  BY DEF Prompt, vars, journal
<1>6. \A s \in Session : NextQueued(s) \/ Resume(s) => timeline' = timeline
  BY DEF NextQueued, Resume, journal
<1> QED  BY <1>1, <1>2, <1>3, <1>4, <1>5, <1>6, DialogUnchanged, TransactionUnchanged, WritesRecord
         DEF Next

\* Lemma: every step keeps the lineage.
LEMMA LineageStep == UserEditsInv /\ LineageInv /\ [Next]_vars => LineageInv'
<1> SUFFICES ASSUME UserEditsInv, LineageInv, [Next]_vars  PROVE LineageInv'
  OBVIOUS
<1>0. RecordsInv /\ HostInv /\ EditsInv /\ FilesSound /\ NumbersInv
  BY DEF UserEditsInv, RecordsInv, LineageInv
<1>1. HostGrows /\ AgentEdit \subseteq AgentEdit'
  BY <1>0, HostStep, HostGrown, JournalStep
<1>2. Known \subseteq Known' /\ Caused \subseteq Caused'
  BY <1>0, <1>1, KnownGrows, CausesGrow
<1>3. /\ \A s \in Session : \A item :
              Traced(item, history[s], Known, Caused)
                => Traced(item, history'[s], Known', Caused')
      /\ Lineage(AgentEdit, Known, Caused) \subseteq Lineage(AgentEdit', Known', Caused')
  BY <1>0, <1>1, <1>2, TracesGrow
<1>4. NumbersInv'
  BY <1>0, NumbersStep
<1>5. \A s \in Session : \A n \in 1 .. Len(ingest'[s]) :
         Traced(ingest'[s][n], history'[s], Known', Caused')
  BY <1>1, <1>3, WaitingStep
<1>6. timeline' \in Lineage(AgentEdit', Known', Caused')
  BY <1>3, LineageKept
<1> QED  BY <1>4, <1>5, <1>6 DEF LineageInv, Session

\* Lemma: the lineage invariant holds at the start.
LEMMA LineageInit == Init => LineageInv
<1> SUFFICES ASSUME Init  PROVE LineageInv
  OBVIOUS
<1>1. NumbersInv
  BY DEF Init, NumbersInv, Prompts
<1>2. \A s \in Session : \A n \in 1 .. Len(ingest[s]) :
         Traced(ingest[s][n], history[s], Known, Caused)
  BY DEF Init
<1>3. timeline \in Lineage(AgentEdit, Known, Caused)
  BY DEF Init, Lineage, Timeline
<1> QED  BY <1>1, <1>2, <1>3 DEF LineageInv

\* Theorem: whatever was claimed, branched off and undone, the timeline can be
\* loaded as it was saved, and an edit stands under the Prompt that caused it.
THEOREM LineageComesBack == Spec => []LineageReloads
<1>1. Init => LineageInv
  BY LineageInit
<1>2. UserEditsInv /\ LineageInv /\ [Next]_vars => LineageInv'
  BY LineageStep
<1>3. LineageInv => LineageReloads
  <2> SUFFICES ASSUME LineageInv  PROVE LineageReloads
    OBVIOUS
  <2>1. Reloaded(timeline) = timeline
    BY LineageSame
  <2>2. ASSUME timeline # NoTimeline, NEW i \in 1 .. Len(timeline.nodes),
               NEW k \in 1 .. Len(timeline.nodes[i].mutations)
        PROVE  edits[timeline.nodes[i].mutations[k].edit].by = timeline.nodes[i].id
    <3>1. <<timeline.nodes[i].mutations[k].edit, timeline.nodes[i].id>> \in Caused
      BY <2>2 DEF LineageInv, Lineage, Attributes
    <3> QED  BY <3>1 DEF Caused
  <2> QED  BY <2>1, <2>2 DEF LineageReloads
<1> QED  BY <1>1, <1>2, <1>3, PlansSound, PTL DEF Spec
====
