------------------------- MODULE FollowStreamProofs -------------------------
(***************************************************************************)
(* The order in which a followed Session's projections change, for every   *)
(* set of projections and every length of the log.                         *)
(*                                                                         *)
(* A projection has the value the Host had at the sequence number recorded *)
(* for it because snapshots, baselines and patches speak of a past of the  *)
(* log that later events do not change: ProjInv says so of the projections *)
(* and of what the two streams have still to deliver.                      *)
(***************************************************************************)
EXTENDS FollowStream, WellFoundedInduction, FiniteSetTheorems, TLAPS

-----------------------------------------------------------------------------
(* The value of a projection at a point of the log                         *)

\* Lemma: a set of natural numbers that is not empty has a least element.
LEMMA LeastElement ==
  ASSUME NEW T, T \subseteq Nat, T # {}
  PROVE  \E x \in T : \A y \in T : x <= y
<1> DEFINE R == {ss \in Nat \X Nat : ss[1] < ss[2]}
<1>0. IsWellFoundedOn(R, Nat)
  BY NatLessThanWellFounded, Zenon DEF OpToRel
<1> HIDE DEF R
<1>1. PICK x \in T : \A y \in T : ~ (<<y, x>> \in R)
  BY <1>0, WFMin
<1>2. \A y \in T : ~ (y < x)
  BY <1>1 DEF R
<1> QED BY <1>2

\* Lemma: the maximum of numbers up to n is one of them, and none is greater.
LEMMA MaxOf ==
  ASSUME NEW n \in Nat, NEW S, S \subseteq 0 .. n, S # {}
  PROVE  Max(S) \in S /\ \A y \in S : Max(S) >= y
<1> DEFINE T == {n - x : x \in S}
<1>1. T \subseteq Nat /\ T # {}
  <2>1. \A x \in S : x \in 0 .. n /\ n - x \in Nat
    OBVIOUS
  <2> QED BY <2>1
<1>2. PICK d \in T : \A e \in T : d <= e
  BY <1>1, LeastElement
<1>3. PICK x \in S : d = n - x
  BY <1>2
<1>4. \A y \in S : x >= y
  BY <1>2, <1>3
<1> QED BY <1>3, <1>4 DEF Max

\* The events that set a projection, up to the n-th, and the start.
Settings(k, n) == {i \in 1 .. n : log[i] = k} \cup {Absent}

\* Lemma: the value after the n-th event is the last event that set it.
LEMMA ValueIsLast ==
  ASSUME NEW k, NEW n \in Nat \cup {Undefined}
  PROVE  /\ ValueAt(k, n) \in Nat
         /\ ValueAt(k, n) \in Settings(k, n)
         /\ \A i \in Settings(k, n) : i <= ValueAt(k, n)
<1> DEFINE bound == IF n = Undefined THEN 0 ELSE n
<1>1. bound \in Nat /\ Settings(k, n) \subseteq 0 .. bound /\ Settings(k, n) # {}
  BY DEF Settings, Absent, Undefined
<1>2. Max(Settings(k, n)) \in Settings(k, n) /\ \A i \in Settings(k, n) : Max(Settings(k, n)) >= i
  <2> HIDE DEF bound, Settings
  <2> QED BY <1>1, MaxOf
<1>3. ValueAt(k, n) = Max(Settings(k, n))
  BY DEF ValueAt, Settings
<1>4. Settings(k, n) \subseteq Nat
  BY <1>1
<1> HIDE DEF Settings
<1> QED BY <1>2, <1>3, <1>4

\* Lemma: a later value is no older.
LEMMA ValueAdvances ==
  ASSUME NEW k, NEW m \in Nat \cup {Undefined}, NEW n \in Nat \cup {Undefined}, m <= n
  PROVE  ValueAt(k, m) <= ValueAt(k, n)
<1>1. ValueAt(k, m) \in Settings(k, m)
  BY ValueIsLast
<1>2. ValueAt(k, m) \in Settings(k, n)
  BY <1>1 DEF Settings, Undefined
<1> QED BY <1>2, ValueIsLast

\* Lemma: an event that sets a projection is its value then.
LEMMA ValueSet ==
  ASSUME NEW n \in Nat \ {0}
  PROVE  ValueAt(log[n], n) = n
<1>1. n \in Settings(log[n], n) /\ \A i \in Settings(log[n], n) : i <= n
  BY DEF Settings, Absent
<1> QED BY <1>1, ValueIsLast

\* Lemma: what the Host logs later does not change a value of the past.
LEMMA ValueStays ==
  ASSUME NEW S, log \in Seq(S), NEW e \in S, log' = Append(log, e),
         NEW k, NEW n \in Nat \cup {Undefined}, n <= Len(log)
  PROVE  ValueAt(k, n)' = ValueAt(k, n)
<1>1. \A i \in 1 .. n : log'[i] = log[i]
  BY DEF Undefined
<1>2. {i \in 1 .. n : log'[i] = k} = {i \in 1 .. n : log[i] = k}
  BY <1>1
<1> QED BY <1>2 DEF ValueAt, Absent

-----------------------------------------------------------------------------
(* The invariant                                                           *)

StreamTypes ==
  /\ log \in Seq(Key \cup {Message})
  /\ value \in [Key -> Nat]
  /\ asOf \in [Key -> Nat \cup {Undefined}]
  /\ follow \in [pc : {"connecting", "snapshot", "open", "backoff", "ended"}, at : Nat]
  /\ control \in [pc : {"backoff", "baseline", "open"}, at : Nat]

\* Nothing is known of a future of the log.
FromThePast ==
  /\ \A k \in Key : asOf[k] <= Len(log)
  /\ follow.at <= Len(log) /\ control.at <= Len(log)

ValuesExact == \A k \in Key : value[k] = ValueAt(k, asOf[k])

ProjInv == StreamTypes /\ FromThePast /\ ValuesExact

\* What a step may do to the projections.
Ordered ==
  \A k \in Key : /\ value'[k] = ValueAt(k, asOf[k])'
                 /\ asOf'[k] >= asOf[k] /\ value'[k] >= value[k]

-----------------------------------------------------------------------------
(* The steps                                                               *)

\* Lemma: nothing is shown at the start.
LEMMA ProjStart == Init => ProjInv
<1> SUFFICES ASSUME Init PROVE ProjInv
  OBVIOUS
<1>1. StreamTypes /\ FromThePast
  BY DEF Init, StreamTypes, FromThePast, Absent, Undefined
<1>2. ASSUME NEW k \in Key PROVE value[k] = ValueAt(k, asOf[k])
  <2>1. Settings(k, Undefined) = {Absent}
    BY DEF Settings, Undefined
  <2> QED BY <2>1, ValueIsLast DEF Init
<1> QED BY <1>1, <1>2 DEF ProjInv, ValuesExact

\* Lemma: a step that touches neither the log nor the projections.
LEMMA OtherSteps ==
  ASSUME ProjInv, UNCHANGED <<log, value, asOf>>,
         follow' \in [pc : {"connecting", "snapshot", "open", "backoff", "ended"}, at : Nat],
         control' \in [pc : {"backoff", "baseline", "open"}, at : Nat],
         follow'.at <= Len(log), control'.at <= Len(log)
  PROVE  ProjInv' /\ Ordered
<1>1. StreamTypes' /\ FromThePast'
  BY DEF ProjInv, StreamTypes, FromThePast
<1>2. \A k \in Key : ValueAt(k, asOf[k])' = ValueAt(k, asOf[k])
  BY DEF ValueAt
<1>3. \A k \in Key : value[k] = ValueAt(k, asOf[k]) /\ value[k] >= value[k] /\ asOf[k] >= asOf[k]
  BY DEF ProjInv, StreamTypes, ValuesExact, Undefined
<1> QED BY <1>1, <1>2, <1>3 DEF ProjInv, ValuesExact, Ordered

\* Lemma: the Host logs an event.
LEMMA LogStep ==
  ASSUME ProjInv, NEW e \in Key \cup {Message}, Logged(e)
  PROVE  ProjInv' /\ Ordered
<1>1. log' \in Seq(Key \cup {Message}) /\ Len(log') = Len(log) + 1 /\ log' = Append(log, e)
  BY DEF Logged, ProjInv, StreamTypes
<1>2. UNCHANGED <<value, asOf, follow, control>>
  BY DEF Logged, projections
<1>3. StreamTypes' /\ FromThePast'
  <2>1. StreamTypes'
    BY <1>1, <1>2 DEF ProjInv, StreamTypes
  <2>2. \A n \in Nat \cup {Undefined} : n <= Len(log) => n <= Len(log')
    BY <1>1 DEF ProjInv, StreamTypes, Undefined
  <2>3. /\ \A k \in Key : asOf[k] \in Nat \cup {Undefined} /\ asOf[k] <= Len(log)
        /\ follow.at \in Nat /\ follow.at <= Len(log)
        /\ control.at \in Nat /\ control.at <= Len(log)
    BY DEF ProjInv, StreamTypes, FromThePast
  <2> QED BY <1>2, <2>1, <2>2, <2>3 DEF FromThePast
<1>4. ASSUME NEW k \in Key PROVE ValueAt(k, asOf[k])' = ValueAt(k, asOf[k])
  <2>1. asOf[k] \in Nat \cup {Undefined} /\ asOf[k] <= Len(log) /\ log \in Seq(Key \cup {Message})
    BY DEF ProjInv, StreamTypes, FromThePast
  <2>2. \A n \in Nat \cup {Undefined} : n <= Len(log) => ValueAt(k, n)' = ValueAt(k, n)
    BY <1>1, <2>1, ValueStays
  <2>3. ValueAt(k, asOf[k])' = Max({i \in 1 .. asOf[k] : log'[i] = k} \cup {Absent})
    BY <1>2 DEF ValueAt
  <2> QED BY <2>1, <2>2, <2>3 DEF ValueAt
<1>5. \A k \in Key : value[k] = ValueAt(k, asOf[k]) /\ value[k] >= value[k] /\ asOf[k] >= asOf[k]
  BY DEF ProjInv, StreamTypes, ValuesExact, Undefined
<1> QED BY <1>2, <1>3, <1>4, <1>5 DEF ProjInv, ValuesExact, Ordered

\* Lemma: a snapshot or a baseline of a past of the log.
LEMMA MergeStep ==
  ASSUME ProjInv, NEW n \in Nat, n <= Len(log), MergeBaseline(n), UNCHANGED log
  PROVE  /\ value' \in [Key -> Nat]
         /\ asOf' \in [Key -> Nat \cup {Undefined}]
         /\ \A k \in Key : asOf'[k] <= Len(log)
         /\ ValuesExact' /\ Ordered
<1> DEFINE merged(k) == asOf[k] <= n /\ (value[k] # Absent \/ ValueAt(k, n) # Absent)
<1>1. /\ value' = [k \in Key |-> IF merged(k) THEN ValueAt(k, n) ELSE value[k]]
      /\ asOf' = [k \in Key |-> IF merged(k) THEN n ELSE asOf[k]]
  BY DEF MergeBaseline
<1> HIDE DEF merged
<1>2. ASSUME NEW k \in Key
      PROVE  /\ value'[k] \in Nat /\ value'[k] = ValueAt(k, asOf'[k]) /\ value'[k] >= value[k]
             /\ asOf'[k] \in Nat \cup {Undefined} /\ asOf'[k] >= asOf[k]
             /\ asOf'[k] <= Len(log)
  <2>1. /\ asOf[k] \in Nat \cup {Undefined} /\ asOf[k] <= Len(log)
        /\ value[k] \in Nat /\ value[k] = ValueAt(k, asOf[k])
    BY DEF ProjInv, StreamTypes, FromThePast, ValuesExact
  <2>2. CASE merged(k)
    <3>1. value'[k] = ValueAt(k, n) /\ asOf'[k] = n /\ asOf[k] <= n
      BY <1>1, <2>2 DEF merged
    <3>2. ValueAt(k, n) \in Nat /\ ValueAt(k, asOf[k]) <= ValueAt(k, n)
      BY <2>1, <3>1, ValueIsLast, ValueAdvances
    <3> QED BY <2>1, <3>1, <3>2 DEF Undefined
  <2>3. CASE ~merged(k)
    <3>1. value'[k] = value[k] /\ asOf'[k] = asOf[k]
      BY <1>1, <2>3
    <3> QED BY <2>1, <3>1 DEF Undefined
  <2> QED BY <2>2, <2>3
<1>3. \A k \in Key : ValueAt(k, asOf[k])' = ValueAt(k, asOf'[k])
  BY DEF ValueAt
<1> QED BY <1>1, <1>2, <1>3 DEF ValuesExact, Ordered

\* Lemma: the patch that the n-th event makes.
LEMMA PatchStep ==
  ASSUME ProjInv, NEW n \in Nat \ {0}, n <= Len(log), ApplyPatch(n), UNCHANGED log
  PROVE  /\ value' \in [Key -> Nat]
         /\ asOf' \in [Key -> Nat \cup {Undefined}]
         /\ \A k \in Key : asOf'[k] <= Len(log)
         /\ ValuesExact' /\ Ordered
<1> DEFINE patched(k) == log[n] = k /\ asOf[k] < n
<1>1. /\ value \in [Key -> Nat] /\ asOf \in [Key -> Nat \cup {Undefined}]
      /\ \A k \in Key : asOf[k] <= Len(log) /\ value[k] = ValueAt(k, asOf[k])
  BY DEF ProjInv, StreamTypes, FromThePast, ValuesExact
<1>2. /\ value' \in [Key -> Nat] /\ asOf' \in [Key -> Nat \cup {Undefined}]
      /\ \A k \in Key : /\ value'[k] = IF patched(k) THEN n ELSE value[k]
                        /\ asOf'[k] = IF patched(k) THEN n ELSE asOf[k]
  BY <1>1 DEF ApplyPatch, projections
<1> HIDE DEF patched
<1>3. ASSUME NEW k \in Key
      PROVE  /\ value'[k] = ValueAt(k, asOf'[k]) /\ value'[k] >= value[k]
             /\ asOf'[k] >= asOf[k] /\ asOf'[k] <= Len(log)
  <2>1. CASE patched(k)
    <3>1. value'[k] = n /\ asOf'[k] = n /\ log[n] = k /\ asOf[k] < n
      BY <1>2, <2>1 DEF patched
    <3>2. ValueAt(k, n) = n
      BY <3>1, ValueSet
    <3>3. asOf[k] \in Nat \cup {Undefined} /\ asOf[k] <= n
      BY <1>1, <3>1 DEF Undefined
    <3>4. value[k] <= n
      BY <1>1, <3>2, <3>3, ValueAdvances
    <3> QED BY <1>1, <3>1, <3>2, <3>3, <3>4 DEF Undefined
  <2>2. CASE ~patched(k)
    <3>1. value'[k] = value[k] /\ asOf'[k] = asOf[k]
      BY <1>2, <2>2
    <3>2. asOf[k] \in Nat \cup {Undefined} /\ value[k] \in Nat
      BY <1>1
    <3> QED BY <1>1, <3>1, <3>2 DEF Undefined
  <2> QED BY <2>1, <2>2
<1>4. \A k \in Key : ValueAt(k, asOf[k])' = ValueAt(k, asOf'[k])
  BY DEF ValueAt
<1> QED BY <1>2, <1>3, <1>4 DEF ValuesExact, Ordered

\* Lemma: every step keeps the invariant and the order of the projections.
LEMMA ProjStep == ProjInv /\ [Next]_vars => ProjInv' /\ Ordered
<1> SUFFICES ASSUME ProjInv, [Next]_vars PROVE ProjInv' /\ Ordered
  OBVIOUS
<1>t. /\ follow \in [pc : {"connecting", "snapshot", "open", "backoff", "ended"}, at : Nat]
      /\ control \in [pc : {"backoff", "baseline", "open"}, at : Nat]
      /\ log \in Seq(Key \cup {Message})
      /\ follow.at <= Len(log) /\ control.at <= Len(log) /\ Len(log) \in Nat
  BY DEF ProjInv, StreamTypes, FromThePast
<1>1. ASSUME NEW e \in Key \cup {Message}, Logged(e) PROVE ProjInv' /\ Ordered
  BY <1>1, LogStep
<1>2. CASE Connected
  BY <1>2, <1>t, OtherSteps DEF Connected, projections
<1>3. CASE SnapshotFrame
  <2>1. /\ UNCHANGED <<log, control>> /\ MergeBaseline(follow.at)
        /\ follow' = [follow EXCEPT !.pc = "open"]
    BY <1>3 DEF SnapshotFrame, Hydrate
  <2>2. /\ follow' \in [pc : {"connecting", "snapshot", "open", "backoff", "ended"}, at : Nat]
        /\ follow'.at = follow.at
    BY <1>t, <2>1
  <2>3. follow.at \in Nat
    BY <1>t
  <2> QED BY <1>t, <2>1, <2>2, <2>3, MergeStep DEF ProjInv, StreamTypes, FromThePast
<1>4. ASSUME NEW n \in Seq1, EventFrame(n) PROVE ProjInv' /\ Ordered
  <2>1. n \in Nat /\ n <= Len(log) /\ UNCHANGED <<log, value, asOf, control>> /\ follow.pc = "open"
    BY <1>4, <1>t, FollowAssumption DEF EventFrame, projections, Seq1
  <2>2. follow' = [follow EXCEPT !.at = n] \/ follow' = [pc |-> "backoff", at |-> n]
    BY <1>4 DEF EventFrame, AppendEvent
  <2>3. /\ follow' \in [pc : {"connecting", "snapshot", "open", "backoff", "ended"}, at : Nat]
        /\ follow'.at = n
    BY <1>t, <2>1, <2>2
  <2> QED BY <1>t, <2>1, <2>3, OtherSteps
<1>5. CASE FrameLost
  BY <1>5, <1>t, OtherSteps DEF FrameLost, projections
<1>6. CASE FollowBroken \/ FollowEnded
  BY <1>6, <1>t, OtherSteps DEF FollowBroken, FollowEnded, projections
<1>7. CASE ControlConnected \/ ControlBroken
  BY <1>7, <1>t, OtherSteps DEF ControlConnected, ControlBroken, projections
<1>8. CASE ControlBaseline
  <2>1. /\ UNCHANGED <<log, follow>> /\ control' = [control EXCEPT !.pc = "open"]
        /\ control.at \in Nat
    BY <1>8, <1>t DEF ControlBaseline
  <2>2. control' \in [pc : {"backoff", "baseline", "open"}, at : Nat] /\ control'.at = control.at
    BY <1>t, <2>1
  <2>3. CASE owned
    <3>1. MergeBaseline(control.at)
      BY <1>8, <2>3 DEF ControlBaseline
    <3> QED BY <1>t, <2>1, <2>2, <3>1, MergeStep DEF ProjInv, StreamTypes, FromThePast
  <2>4. CASE ~owned
    BY <1>8, <1>t, <2>1, <2>2, <2>4, OtherSteps DEF ControlBaseline, projections
  <2> QED BY <2>3, <2>4
<1>9. CASE ControlPatch
  <2>1. /\ UNCHANGED <<log, follow>> /\ control' = [control EXCEPT !.at = @ + 1]
        /\ control.at + 1 \in Nat \ {0} /\ control.at + 1 <= Len(log)
    BY <1>9, <1>t DEF ControlPatch
  <2>2. /\ control' \in [pc : {"backoff", "baseline", "open"}, at : Nat]
        /\ control'.at = control.at + 1
    BY <1>t, <2>1
  <2>3. CASE owned
    <3>1. ApplyPatch(control.at + 1)
      BY <1>9, <2>3 DEF ControlPatch
    <3> QED BY <1>t, <2>1, <2>2, <3>1, PatchStep DEF ProjInv, StreamTypes, FromThePast
  <2>4. CASE ~owned
    BY <1>9, <1>t, <2>1, <2>2, <2>4, OtherSteps DEF ControlPatch, projections
  <2> QED BY <2>3, <2>4
<1>10. CASE PageStep
  BY <1>10, <1>t, OtherSteps DEF PageStep, PageRequested, PageReturned, PageFailed, projections
<1>11. CASE Replaced
  BY <1>11, <1>t, OtherSteps DEF Replaced, projections
<1>12. CASE UNCHANGED vars
  BY <1>12, <1>t, OtherSteps DEF vars, projections
<1> QED BY <1>1, <1>2, <1>3, <1>4, <1>5, <1>6, <1>7, <1>8, <1>9, <1>10, <1>11, <1>12
        DEF Next, FollowStep, ControlStep

-----------------------------------------------------------------------------
(* The theorem                                                             *)

\* A projection shows the value the Host had at the sequence number recorded for
\* it and never goes back, in whatever order the snapshots of the follow stream,
\* the baselines and the patches of the control stream arrive (runtime.ts:
\* mergeProjectionBaseline, applyProjection).
THEOREM ProjectionsInOrder == Spec => ProjectionsOrdered
<1>1. Init => ProjInv
  BY ProjStart
<1>2. ProjInv /\ [Next]_vars => ProjInv'
  BY ProjStep
<1>3. ProjInv /\ [Next]_vars => [Ordered]_vars
  BY ProjStep
<1>4. ProjectionsOrdered <=> [][Ordered]_vars
  BY PTL DEF ProjectionsOrdered, Ordered
<1> QED BY <1>1, <1>2, <1>3, <1>4, PTL DEF Spec

-----------------------------------------------------------------------------
(* The pages of the Host                                                   *)

Newer(S, i) == {j \in S : j >= i}

\* Lemma: of at least p numbers one is the p-th from the greatest.
LEMMA NthNewest ==
  ASSUME NEW S, S \subseteq Nat, IsFiniteSet(S), NEW p \in Nat \ {0}, Cardinality(S) >= p
  PROVE  \E i \in S : Cardinality(Newer(S, i)) = p
<1> DEFINE T == {n \in Nat : n >= p /\ \E i \in S : Cardinality(Newer(S, i)) = n}
<1>f. \A i : IsFiniteSet(Newer(S, i)) /\ Cardinality(Newer(S, i)) \in Nat
  BY FS_Subset, FS_CardinalityType DEF Newer
<1>1. T # {}
  <2>1. S # {}
    BY FS_EmptySet
  <2>2. PICK i \in S : \A j \in S : i <= j
    BY <2>1, LeastElement
  <2>3. Newer(S, i) = S
    BY <2>2 DEF Newer
  <2>4. Cardinality(S) \in T
    BY <2>3, FS_CardinalityType
  <2> QED BY <2>4
<1>2. PICK n \in T : \A m \in T : n <= m
  <2>1. T \subseteq Nat
    OBVIOUS
  <2> HIDE DEF T
  <2> QED BY <1>1, <2>1, LeastElement
<1>3. PICK i \in S : Cardinality(Newer(S, i)) = n
  BY <1>2
<1>4. n \in Nat /\ n >= p
  BY <1>2
<1>5. CASE n = p
  BY <1>3, <1>5
<1>6. CASE n > p
  <2> DEFINE R == Newer(S, i) \ {i}
  <2>0. i \in Newer(S, i) /\ IsFiniteSet(Newer(S, i)) /\ \A j \in R : j \in S /\ j >= i /\ j # i
    BY <1>f DEF Newer
  <2>1. IsFiniteSet(R) /\ Cardinality(R) = n - 1
    <3> HIDE DEF Newer
    <3> QED BY <1>3, <2>0, FS_RemoveElement
  <2>2. R # {} /\ R \subseteq Nat
    <3>1. Cardinality({}) = 0
      BY FS_EmptySet
    <3>2. Cardinality(R) # 0
      BY <1>4, <1>6, <2>1
    <3> QED BY <2>0, <3>1, <3>2
  <2>3. PICK k \in R : \A j \in R : k <= j
    <3> HIDE DEF R
    <3> QED BY <2>2, LeastElement
  <2>4. k \in S /\ Newer(S, k) = R
    <3>1. k \in S /\ k >= i /\ k # i
      BY <2>0, <2>3
    <3>2. \A j \in S : j >= k <=> j \in R
      BY <2>3, <3>1 DEF Newer
    <3>3. R \subseteq S
      BY <2>0
    <3> HIDE DEF R
    <3> QED BY <3>1, <3>2, <3>3 DEF Newer
  <2>5. n - 1 \in T
    BY <1>4, <1>6, <2>1, <2>4
  <2> QED BY <1>2, <1>4, <2>5
<1> QED BY <1>4, <1>5, <1>6

Messages(n) == {i \in 1 .. n : log[i] = Message}

\* Lemma: the messages up to an event are finitely many numbers.
LEMMA MessagesFinite ==
  ASSUME NEW n \in Nat
  PROVE  /\ Messages(n) \subseteq 1 .. n /\ IsFiniteSet(Messages(n))
         /\ Cardinality(Messages(n)) \in Nat
<1>1. IsFiniteSet(1 .. n)
  BY FS_Interval
<1> QED BY <1>1, FS_Subset, FS_CardinalityType DEF Messages

\* Lemma: a page starts at the first event or at the message that makes it full.
LEMMA PageStartIs ==
  ASSUME NEW n \in Nat
  PROVE  \/ /\ Cardinality(Messages(n)) < PageMessages
            /\ PageStart(n) = 1
         \/ /\ Cardinality(Messages(n)) >= PageMessages
            /\ PageStart(n) \in Messages(n)
            /\ Cardinality(Newer(Messages(n), PageStart(n))) = PageMessages
<1>1. CASE Cardinality(Messages(n)) < PageMessages
  BY <1>1 DEF PageStart, Messages
<1>2. CASE ~(Cardinality(Messages(n)) < PageMessages)
  <2>1. Cardinality(Messages(n)) >= PageMessages /\ PageMessages \in Nat \ {0}
    BY <1>2, MessagesFinite, FollowAssumption
  <2>2. \E i \in Messages(n) : Cardinality(Newer(Messages(n), i)) = PageMessages
    BY <2>1, MessagesFinite, NthNewest
  <2>3. PageStart(n) = CHOOSE i \in Messages(n) : Cardinality(Newer(Messages(n), i)) = PageMessages
    BY <1>2 DEF PageStart, Messages, Newer
  <2> QED BY <2>1, <2>2, <2>3
<1> QED BY <1>1, <1>2

\* Lemma: where a page may start.
LEMMA PageStartRange ==
  ASSUME NEW n \in Nat
  PROVE  /\ PageStart(n) \in Nat \ {0}
         /\ PageStart(n) <= n \/ (n = 0 /\ PageStart(n) = 1)
  BY PageStartIs, MessagesFinite

\* Lemma: a page that ends later starts no earlier.
LEMMA PageStartAdvances ==
  ASSUME NEW m \in Nat, NEW n \in Nat, m <= n
  PROVE  PageStart(m) <= PageStart(n)
<1> DEFINE a == PageStart(m)
           b == PageStart(n)
<1>1. a \in Nat \ {0} /\ b \in Nat \ {0}
  BY PageStartRange
<1>2. Messages(m) \subseteq Messages(n)
  BY DEF Messages
<1>3. Cardinality(Messages(m)) <= Cardinality(Messages(n))
  BY <1>2, MessagesFinite, FS_Subset
<1> SUFFICES ASSUME b < a PROVE FALSE
  BY <1>1
<1>4. /\ a \in Messages(m) /\ Cardinality(Newer(Messages(m), a)) = PageMessages
      /\ Cardinality(Messages(m)) >= PageMessages
  BY <1>1, PageStartIs
<1>5. b \in Messages(n) /\ Cardinality(Newer(Messages(n), b)) = PageMessages
  BY <1>3, <1>4, PageStartIs, MessagesFinite, FollowAssumption
<1> DEFINE A == Newer(Messages(m), a)
           B == Newer(Messages(n), b)
<1>6. A \subseteq B /\ b \in B /\ b \notin A
  BY <1>1, <1>2, <1>5, MessagesFinite DEF Newer
<1>7. IsFiniteSet(B)
  BY MessagesFinite, FS_Subset DEF Newer
<1> HIDE DEF A, B
<1>8. Cardinality(A) = Cardinality(B) => A = B
  BY <1>6, <1>7, FS_Subset
<1> QED BY <1>4, <1>5, <1>6, <1>8 DEF A, B

\* Lemma: what the Host logs later does not move a page of the past.
LEMMA PageStartStays ==
  ASSUME NEW S, log \in Seq(S), NEW e \in S, log' = Append(log, e),
         NEW n \in Nat, n <= Len(log)
  PROVE  PageStart(n)' = PageStart(n)
<1>1. \A i \in 1 .. n : log'[i] = log[i]
  OBVIOUS
<1>2. {i \in 1 .. n : log'[i] = Message} = {i \in 1 .. n : log[i] = Message}
  BY <1>1
<1> DEFINE messages == {i \in 1 .. n : log[i] = Message}
           start(set) == IF Cardinality(set) < PageMessages THEN 1
                         ELSE CHOOSE i \in set : Cardinality({j \in set : j >= i}) = PageMessages
<1>3. PageStart(n) = start(messages) /\ PageStart(n)' = start({i \in 1 .. n : log'[i] = Message})
  BY DEF PageStart
<1> HIDE DEF start
<1> QED BY <1>2, <1>3

\* Lemma: a prefix of a sequence is the one before it with one more element.
LEMMA PrefixGrows ==
  ASSUME NEW s \in Seq(Nat), NEW n \in 1 .. Len(s)
  PROVE  SubSeq(s, 1, n) = Append(SubSeq(s, 1, n - 1), s[n])
<1> DEFINE front == SubSeq(s, 1, n - 1)
<1>1. /\ front \in Seq(Nat) /\ Len(front) = n - 1
      /\ \A i \in 1 .. n - 1 : front[i] = s[i]
  OBVIOUS
<1>2. /\ SubSeq(s, 1, n) \in Seq(Nat) /\ Len(SubSeq(s, 1, n)) = n
      /\ \A i \in 1 .. n : SubSeq(s, 1, n)[i] = s[i]
  OBVIOUS
<1>3. s[n] \in Nat
  OBVIOUS
<1> HIDE DEF front
<1>4. /\ Append(front, s[n]) \in Seq(Nat) /\ Len(Append(front, s[n])) = n
      /\ \A i \in 1 .. n : Append(front, s[n])[i] = s[i]
  BY <1>1, <1>3
<1>5. SubSeq(s, 1, n) = Append(front, s[n])
  BY <1>2, <1>4
<1> QED  BY <1>5 DEF front

\* Lemma: of loaded events none of which is shown, all are put in front.
LEMMA AllUnseen ==
  ASSUME NEW loaded \in Seq(Nat),
         \A n \in 1 .. Len(loaded) : ~ \E i \in DOMAIN events : events[i] = loaded[n]
  PROVE  Unseen(loaded) = loaded
<1> DEFINE step(h) == [n \in 0 .. Len(loaded) |->
                         IF n = 0 THEN <<>>
                         ELSE IF \E i \in DOMAIN events : events[i] = loaded[n] THEN h[n - 1]
                         ELSE Append(h[n - 1], loaded[n])]
           unseen == CHOOSE h : h = step(h)
           prefix == [n \in 0 .. Len(loaded) |-> SubSeq(loaded, 1, n)]
<1>1. Unseen(loaded) = unseen[Len(loaded)]
  BY DEF Unseen
<1>2. Len(loaded) \in Nat
  OBVIOUS
<1>3. ASSUME NEW n \in 0 .. Len(loaded) PROVE prefix[n] = step(prefix)[n]
  <2>1. CASE n = 0
    BY <2>1
  <2>2. CASE n # 0
    <3>1. n \in 1 .. Len(loaded) /\ n - 1 \in 0 .. Len(loaded)
      BY <2>2
    <3>2. SubSeq(loaded, 1, n) = Append(SubSeq(loaded, 1, n - 1), loaded[n])
      BY <3>1, PrefixGrows
    <3> QED BY <2>2, <3>1, <3>2
  <2> QED BY <2>1, <2>2
<1>4. prefix = step(prefix)
  BY <1>3
<1>5. unseen = step(unseen)
  <2> HIDE DEF step, prefix
  <2> QED BY <1>4
<1> DEFINE T == {n \in 0 .. Len(loaded) : unseen[n] # SubSeq(loaded, 1, n)}
<1> HIDE DEF unseen
<1>6. T = {}
  <2> SUFFICES ASSUME T # {} PROVE FALSE
    OBVIOUS
  <2>1. PICK n \in T : \A m \in T : n <= m
    <3>1. T \subseteq Nat
      OBVIOUS
    <3> HIDE DEF T
    <3> QED BY <3>1, LeastElement
  <2>2. n # 0
    <3>1. unseen[0] = <<>>
      BY <1>2, <1>5
    <3>2. SubSeq(loaded, 1, 0) = <<>>
      OBVIOUS
    <3> QED BY <2>1, <3>1, <3>2
  <2>3. n \in 1 .. Len(loaded) /\ n - 1 \in 0 .. Len(loaded) /\ n - 1 \notin T
    BY <2>1, <2>2
  <2>4. unseen[n - 1] = SubSeq(loaded, 1, n - 1)
    BY <2>3
  <2>5. unseen[n] = Append(unseen[n - 1], loaded[n])
    <3>1. unseen[n] = step(unseen)[n]
      BY <1>5
    <3>2. step(unseen)[n] = Append(unseen[n - 1], loaded[n])
      BY <2>2, <2>3
    <3> QED BY <3>1, <3>2
  <2>6. SubSeq(loaded, 1, n) = Append(SubSeq(loaded, 1, n - 1), loaded[n])
    BY <2>3, PrefixGrows
  <2> QED BY <2>1, <2>4, <2>5, <2>6
<1>7. unseen[Len(loaded)] = SubSeq(loaded, 1, Len(loaded))
  BY <1>2, <1>6
<1> QED BY <1>1, <1>7

-----------------------------------------------------------------------------
(* The history shown                                                       *)

FollowTypes == [pc : {"connecting", "snapshot", "open", "backoff", "ended"}, at : Nat]

HistTypes ==
  /\ log \in Seq(Key \cup {Message})
  /\ events \in Seq(Nat \ {0})
  /\ cursor \in Nat \cup {Undefined}
  /\ base \in Nat \ {0}
  /\ hasMore \in BOOLEAN
  /\ follow \in FollowTypes /\ follow.at <= Len(log)
  /\ page \in [pc : {"none", "pending"}, before : Nat]

\* The start of a snapshot is that of a past of the log the stream has read.
Aligned == cursor # Undefined => \E n \in 0 .. follow.at : base = PageStart(n)

\* Nothing is shown before the first snapshot; an empty history is a complete one.
Fresh ==
  /\ cursor = Undefined => follow.pc # "open"
  /\ cursor = Undefined => events = <<>> /\ ~hasMore /\ page.pc = "none"
  /\ cursor # Undefined => base <= cursor + 1
  /\ cursor # Undefined /\ events = <<>> => base = 1 /\ ~hasMore

\* The history begins with its oldest event, which is the Host's first one
\* exactly when the history says so.
FirstShown ==
  events # <<>> => /\ hasMore <=> events[1] > 1
                   /\ \A i \in DOMAIN events : events[1] <= events[i]

\* The page that is asked for ends before everything that is shown.
PageBefore ==
  page.pc = "pending" =>
    /\ page.before >= 2 /\ page.before <= base
    /\ \A i \in DOMAIN events : page.before <= events[i]

HistInv ==
  /\ HistTypes
  /\ Aligned /\ Fresh /\ TailContiguous /\ FirstShown /\ PageBefore

\* Lemma: nothing is shown at the start.
LEMMA HistStart == Init => HistInv
<1> SUFFICES ASSUME Init PROVE HistInv
  OBVIOUS
<1>1. HistTypes
  <2>1. hasMore \in BOOLEAN
    BY DEF Init
  <2>2. log \in Seq(Key \cup {Message}) /\ events \in Seq(Nat \ {0}) /\ base \in Nat \ {0}
    BY DEF Init
  <2>3. /\ follow \in FollowTypes /\ follow.at = 0 /\ Len(log) = 0
        /\ page \in [pc : {"none", "pending"}, before : Nat]
    BY DEF Init, FollowTypes
  <2> QED BY <2>1, <2>2, <2>3 DEF HistTypes, Init
<1>2. Aligned /\ Fresh /\ TailContiguous
  BY DEF Init, Aligned, Fresh, TailContiguous
<1>3. FirstShown /\ PageBefore
  BY DEF Init, FirstShown, PageBefore
<1> QED BY <1>1, <1>2, <1>3 DEF HistInv

\* Lemma: a step that leaves the history, and takes the stream no further back.
LEMMA HistSame ==
  ASSUME HistInv, UNCHANGED <<log, events, cursor, base, hasMore>>,
         follow' \in FollowTypes, follow.at <= follow'.at, follow'.at <= Len(log),
         follow'.pc = "open" => follow.pc = "open",
         page' = page \/ (page' = [page EXCEPT !.pc = "none"])
  PROVE  HistInv'
<1>1. page' \in [pc : {"none", "pending"}, before : Nat] /\ (page'.pc = "pending" => page' = page)
  BY DEF HistInv, HistTypes
<1>2. HistTypes'
  BY <1>1 DEF HistInv, HistTypes
<1>3. Aligned'
  <2>1. follow.at \in Nat /\ follow'.at \in Nat
    BY DEF HistInv, HistTypes, FollowTypes
  <2>2. \A n \in 0 .. follow.at : n \in 0 .. follow'.at /\ PageStart(n)' = PageStart(n)
    BY <2>1 DEF PageStart
  <2> QED BY <2>2 DEF HistInv, Aligned
<1>4. Fresh' /\ TailContiguous' /\ FirstShown' /\ PageBefore'
  BY <1>1 DEF HistInv, Fresh, TailContiguous, FirstShown, PageBefore, HistTypes
<1> QED BY <1>2, <1>3, <1>4 DEF HistInv

\* Lemma: the Host logs an event.
LEMMA HistLogged ==
  ASSUME HistInv, NEW e \in Key \cup {Message}, Logged(e)
  PROVE  HistInv'
<1>1. /\ log' = Append(log, e) /\ log \in Seq(Key \cup {Message})
      /\ UNCHANGED <<events, cursor, base, hasMore, follow, page>>
  BY DEF Logged, history, HistInv, HistTypes
<1>2. HistTypes'
  BY <1>1 DEF HistInv, HistTypes, FollowTypes
<1>3. Aligned'
  <2>1. \A n \in 0 .. follow.at : PageStart(n)' = PageStart(n)
    <3>1. follow.at \in Nat /\ follow.at <= Len(log)
      BY DEF HistInv, HistTypes, FollowTypes
    <3>2. \A n \in Nat : n <= Len(log) => PageStart(n)' = PageStart(n)
      BY <1>1, PageStartStays
    <3> QED BY <1>1, <3>1, <3>2
  <2> QED BY <1>1, <2>1 DEF HistInv, Aligned
<1>4. Fresh' /\ TailContiguous' /\ FirstShown' /\ PageBefore'
  BY <1>1 DEF HistInv, Fresh, TailContiguous, FirstShown, PageBefore
<1> QED BY <1>2, <1>3, <1>4 DEF HistInv

\* Lemma: a snapshot replaces the history, and starts no earlier than the last.
LEMMA HistHydrated ==
  ASSUME HistInv, SnapshotFrame
  PROVE  HistInv'
<1> DEFINE n == follow.at
           b == PageStart(n)
<1>1. /\ n \in Nat /\ n <= Len(log) /\ follow' = [follow EXCEPT !.pc = "open"]
      /\ UNCHANGED <<log, page>>
      /\ events' = Interval(b, n) /\ cursor' = n /\ hasMore' = (b > 1) /\ base' = b
  BY DEF SnapshotFrame, Hydrate, HistInv, HistTypes, FollowTypes
<1>2. b \in Nat \ {0} /\ (b <= n \/ (n = 0 /\ b = 1))
  BY <1>1, PageStartRange
<1>3. follow' \in FollowTypes /\ follow'.at = n
  BY <1>1 DEF HistInv, HistTypes, FollowTypes
<1> HIDE DEF n, b
<1>4. /\ events' \in Seq(Nat \ {0}) /\ Len(events') = n - b + 1
      /\ \A i \in 1 .. Len(events') : events'[i] = b + i - 1
  <2>1. n - b + 1 \in Nat /\ \A i \in 1 .. n - b + 1 : b + i - 1 \in Nat \ {0}
    BY <1>1, <1>2
  <2> QED BY <1>1, <2>1 DEF Interval
<1>5. HistTypes'
  BY <1>1, <1>2, <1>3, <1>4 DEF HistInv, HistTypes
<1>6. Aligned'
  <2>1. PageStart(n)' = PageStart(n) /\ n' = n
    BY <1>1, <1>3 DEF PageStart, n
  <2>2. base' = PageStart(n) /\ n \in 0 .. n
    BY <1>1 DEF b
  <2>3. \E m \in 0 .. n : base' = PageStart(m)
    BY <2>2
  <2>4. \A m \in 0 .. n : PageStart(m)' = PageStart(m)
    BY <1>1 DEF PageStart
  <2> QED BY <1>3, <2>3, <2>4 DEF Aligned
<1>7. Fresh' /\ TailContiguous' /\ FirstShown'
  <2>1. \A i \in DOMAIN events' : i \in 1 .. Len(events')
    BY <1>4
  <2>2. events' # <<>> => 1 \in 1 .. Len(events')
    BY <1>4
  <2>3. events' = <<>> => n = 0 /\ b = 1
    BY <1>1, <1>2, <1>4
  <2>b. hasMore' <=> b > 1
    BY <1>1
  <2>4. Fresh'
    <3>1. cursor' # Undefined /\ base' <= cursor' + 1
      BY <1>1, <1>2 DEF Undefined
    <3>2. events' = <<>> => base' = 1 /\ ~hasMore'
      BY <1>1, <2>3, <2>b
    <3> QED BY <3>1, <3>2 DEF Fresh
  <2>5. TailContiguous'
    BY <1>1, <1>2, <1>4, <2>1 DEF TailContiguous
  <2>6. FirstShown'
    <3> SUFFICES ASSUME events' # <<>>
                 PROVE  /\ hasMore' <=> events'[1] > 1
                        /\ \A i \in DOMAIN events' : events'[1] <= events'[i]
      BY DEF FirstShown
    <3>1. events'[1] = b
      BY <1>2, <1>4, <2>2
    <3> QED BY <1>2, <1>4, <2>1, <2>b, <3>1
  <2> QED BY <2>4, <2>5, <2>6
<1>8. PageBefore'
  <2> SUFFICES ASSUME page.pc = "pending"
               PROVE  /\ page.before >= 2 /\ page.before <= b
                      /\ \A i \in 1 .. Len(events') : page.before <= b + i - 1
    BY <1>1, <1>4 DEF PageBefore
  <2>1. cursor # Undefined /\ page.before >= 2 /\ page.before <= base
    BY DEF HistInv, Fresh, PageBefore
  <2>2. PICK m \in 0 .. n : base = PageStart(m)
    BY <2>1 DEF HistInv, Aligned, n
  <2>3. base <= b
    BY <1>1, <2>2, PageStartAdvances DEF b
  <2>4. page.before \in Nat /\ base \in Nat
    BY DEF HistInv, HistTypes
  <2> QED BY <1>2, <1>4, <2>1, <2>3, <2>4
<1> QED BY <1>5, <1>6, <1>7, <1>8 DEF HistInv

\* Lemma: the next event is shown at the end, one shown before is dropped.
LEMMA HistAppended ==
  ASSUME HistInv, NEW n \in Seq1, EventFrame(n)
  PROVE  HistInv'
<1>1. /\ follow.pc = "open" /\ n \in {follow.at, follow.at + 1} /\ n <= Len(log) /\ n \in Nat \ {0}
      /\ UNCHANGED <<log, page>> /\ AppendEvent(n)
  BY FollowAssumption DEF EventFrame, Seq1, HistInv, HistTypes
<1>2. follow' = [follow EXCEPT !.at = n] \/ follow' = [pc |-> "backoff", at |-> n]
  BY <1>1 DEF AppendEvent
<1>3. /\ follow' \in FollowTypes /\ follow'.at = n /\ follow.at <= follow'.at
      /\ (follow'.pc = "open" => follow.pc = "open")
  BY <1>1, <1>2 DEF HistInv, HistTypes, FollowTypes
<1>4. CASE UNCHANGED <<events, cursor, base, hasMore>>
  BY <1>1, <1>3, <1>4, HistSame
<1>5. CASE /\ n = cursor + 1 /\ events' = Append(events, n) /\ cursor' = n
           /\ UNCHANGED <<base, hasMore>>
  <2>1. /\ cursor \in Nat /\ cursor # Undefined /\ base \in Nat \ {0} /\ base <= cursor + 1
        /\ events \in Seq(Nat \ {0}) /\ Len(events) \in Nat
    BY <1>1 DEF HistInv, HistTypes, Fresh
  <2>2. /\ events' \in Seq(Nat \ {0}) /\ Len(events') = Len(events) + 1
        /\ events'[Len(events) + 1] = n
        /\ \A i \in 1 .. Len(events) : events'[i] = events[i]
    BY <1>1, <1>5, <2>1
  <2> DEFINE earlier == Len(events) - (cursor - base + 1)
  <2>3. /\ earlier \in Nat
        /\ \A i \in 1 .. Len(events) :
             /\ events[i] \in Nat
             /\ IF i <= earlier THEN events[i] < base ELSE events[i] = base + (i - earlier) - 1
    BY <2>1 DEF HistInv, TailContiguous
  <2>4. HistTypes'
    BY <1>1, <1>3, <1>5, <2>1, <2>2 DEF HistInv, HistTypes
  <2>5. Aligned'
    <3>1. follow.at \in Nat
      BY DEF HistInv, HistTypes, FollowTypes
    <3>2. PICK m \in 0 .. follow.at : base = PageStart(m)
      BY <2>1 DEF HistInv, Aligned
    <3>3. m \in 0 .. n /\ PageStart(m)' = PageStart(m)
      BY <1>1, <1>3, <3>1 DEF PageStart
    <3>4. \A k \in 0 .. n : PageStart(k)' = PageStart(k)
      BY <1>1 DEF PageStart
    <3> QED BY <1>3, <1>5, <3>2, <3>3, <3>4 DEF Aligned
  <2>6. Fresh'
    BY <1>5, <2>1, <2>2 DEF Fresh, Undefined
  <2>7. TailContiguous'
    <3>1. Len(events') - (cursor' - base' + 1) = earlier
      BY <1>5, <2>1, <2>2
    <3>2. ASSUME NEW i \in 1 .. Len(events')
          PROVE  IF i <= earlier THEN events'[i] < base ELSE events'[i] = base + (i - earlier) - 1
      <4>1. CASE i <= Len(events)
        <5>1. i \in 1 .. Len(events) /\ events'[i] = events[i]
          BY <2>1, <2>2, <4>1
        <5> HIDE DEF earlier
        <5> QED BY <2>3, <5>1
      <4>2. CASE i = Len(events) + 1
        BY <1>5, <2>1, <2>2, <2>3, <4>2
      <4> QED BY <2>1, <2>2, <4>1, <4>2
    <3>3. DOMAIN events' = 1 .. Len(events')
      BY <2>2
    <3> QED BY <1>5, <2>3, <3>1, <3>2, <3>3 DEF TailContiguous
  <2>8. FirstShown'
    <3>1. CASE events = <<>>
      <4>1. base = 1 /\ ~hasMore
        BY <2>1, <3>1 DEF HistInv, Fresh
      <4>2. n = 1
        BY <1>5, <2>1, <2>3, <3>1, <4>1
      <4> QED BY <1>5, <2>2, <3>1, <4>1, <4>2 DEF FirstShown
    <3>2. CASE events # <<>>
      <4>1. 1 \in 1 .. Len(events) /\ events'[1] = events[1]
        BY <2>1, <2>2, <3>2
      <4>2. events[1] <= n
        BY <1>5, <2>1, <2>3, <4>1
      <4>3. /\ hasMore <=> events[1] > 1
            /\ \A i \in 1 .. Len(events) : events[1] <= events[i]
        BY <2>1, <3>2 DEF HistInv, FirstShown
      <4> QED BY <1>5, <2>1, <2>2, <4>1, <4>2, <4>3 DEF FirstShown
    <3> QED BY <3>1, <3>2
  <2>9. PageBefore'
    <3>1. /\ page' = page /\ page.before \in Nat
          /\ DOMAIN events = 1 .. Len(events) /\ DOMAIN events' = 1 .. Len(events) + 1
      BY <1>1, <2>1, <2>2 DEF HistInv, HistTypes
    <3>2. page.pc = "pending" => /\ page.before >= 2 /\ page.before <= base
                                 /\ \A i \in 1 .. Len(events) : page.before <= events[i]
      BY <3>1 DEF HistInv, PageBefore
    <3> QED BY <1>5, <2>1, <2>2, <3>1, <3>2 DEF PageBefore
  <2> QED BY <2>4, <2>5, <2>6, <2>7, <2>8, <2>9 DEF HistInv
<1> QED BY <1>1, <1>4, <1>5 DEF AppendEvent, history

\* Lemma: a page is asked for before the first event shown.
LEMMA HistRequested ==
  ASSUME HistInv, PageRequested
  PROVE  HistInv'
<1>1. /\ UNCHANGED <<log, events, cursor, base, hasMore, follow>>
      /\ hasMore /\ events # <<>> /\ cursor # Undefined
      /\ page' = [pc |-> "pending", before |-> Head(events)]
  BY DEF PageRequested, history
<1>2. /\ events \in Seq(Nat \ {0}) /\ 1 \in 1 .. Len(events) /\ Head(events) = events[1]
      /\ cursor \in Nat /\ base \in Nat
  BY <1>1 DEF HistInv, HistTypes
<1>3. page' \in [pc : {"none", "pending"}, before : Nat] /\ page'.before = events[1]
  BY <1>1, <1>2
<1>4. HistTypes'
  BY <1>1, <1>3 DEF HistInv, HistTypes
<1>5. Aligned' /\ Fresh' /\ TailContiguous' /\ FirstShown'
  BY <1>1 DEF HistInv, Aligned, Fresh, TailContiguous, FirstShown, PageStart
<1>6. events[1] > 1 /\ \A i \in DOMAIN events : events[1] <= events[i]
  BY <1>1 DEF HistInv, FirstShown
<1>7. events[1] <= base
  BY <1>1, <1>2 DEF HistInv, TailContiguous, Fresh
<1>8. PageBefore'
  BY <1>1, <1>2, <1>3, <1>6, <1>7 DEF PageBefore
<1> QED BY <1>4, <1>5, <1>8 DEF HistInv

\* Lemma: a page that returns is put in front, whatever is shown by then.
LEMMA HistPrepended ==
  ASSUME HistInv, PageReturned, owned
  PROVE  HistInv'
<1> DEFINE before == page.before
           first == PageStart(before - 1)
           loaded == Interval(first, before - 1)
<1>1. /\ UNCHANGED <<log, cursor, base, follow>> /\ page.pc = "pending"
      /\ events' = Unseen(loaded) \o events
      /\ hasMore' = (first > 1)
      /\ page' = [page EXCEPT !.pc = "none"]
  BY DEF PageReturned, PrependHistory
<1>2. /\ before \in Nat /\ before >= 2 /\ before <= base /\ base \in Nat \ {0}
      /\ cursor \in Nat /\ cursor # Undefined
      /\ events \in Seq(Nat \ {0}) /\ Len(events) \in Nat
      /\ \A i \in DOMAIN events : before <= events[i]
  BY <1>1 DEF HistInv, HistTypes, Fresh, PageBefore
<1>3. first \in Nat \ {0} /\ first <= before - 1
  <2>1. before - 1 \in Nat /\ before - 1 # 0
    BY <1>2
  <2> HIDE DEF before
  <2> QED BY <2>1, PageStartRange
<1> HIDE DEF before, first
<1>4. /\ loaded \in Seq(Nat \ {0}) /\ Len(loaded) = before - first
      /\ \A i \in 1 .. Len(loaded) : loaded[i] = first + i - 1
  <2>1. before - first \in Nat /\ (before - 1) - first + 1 = before - first
    BY <1>2, <1>3
  <2>2. \A i \in 1 .. before - first : first + i - 1 \in Nat \ {0}
    BY <1>2, <1>3
  <2> QED BY <2>1, <2>2 DEF Interval
<1> HIDE DEF loaded
<1>5. Unseen(loaded) = loaded
  <2>1. loaded \in Seq(Nat)
    BY <1>4
  <2>2. ASSUME NEW n \in 1 .. Len(loaded), NEW i \in DOMAIN events PROVE events[i] # loaded[n]
    <3>1. loaded[n] < before
      BY <1>2, <1>3, <1>4
    <3>2. events[i] \in Nat
      BY <1>2
    <3> QED BY <1>2, <1>4, <3>1, <3>2
  <2> QED BY <2>1, <2>2, AllUnseen
<1> DEFINE l == Len(loaded)
<1>6. /\ l \in Nat /\ l >= 1
      /\ events' \in Seq(Nat \ {0}) /\ Len(events') = l + Len(events)
      /\ \A i \in 1 .. l : events'[i] = first + i - 1
      /\ \A i \in l + 1 .. l + Len(events) : events'[i] = events[i - l]
  <2>1. events' = loaded \o events
    BY <1>1, <1>5
  <2>2. l \in Nat /\ l >= 1
    BY <1>2, <1>3, <1>4
  <2>3. /\ events' \in Seq(Nat \ {0}) /\ Len(events') = l + Len(events)
        /\ \A i \in 1 .. l + Len(events) :
             events'[i] = IF i <= l THEN loaded[i] ELSE events[i - l]
    <3>1. loaded \in Seq(Nat \ {0}) /\ events \in Seq(Nat \ {0})
      BY <1>2, <1>4
    <3>2. events' \in Seq(Nat \ {0}) /\ Len(events') = l + Len(events)
      BY <2>1, <3>1
    <3>3. \A i \in 1 .. l + Len(events) :
             events'[i] = IF i <= l THEN loaded[i] ELSE events[i - l]
      BY <2>1, <3>1
    <3> QED BY <3>2, <3>3
  <2> HIDE DEF l
  <2>4. \A i \in 1 .. l : i \in 1 .. l + Len(events) /\ i <= l
    BY <1>2, <2>2
  <2>5. \A i \in l + 1 .. l + Len(events) : i \in 1 .. l + Len(events) /\ ~(i <= l)
    BY <1>2, <2>2
  <2>6. \A i \in 1 .. l : loaded[i] = first + i - 1
    BY <1>4 DEF l
  <2> QED BY <2>2, <2>3, <2>4, <2>5, <2>6
<1> HIDE DEF l
<1>7. page' \in [pc : {"none", "pending"}, before : Nat] /\ page'.pc = "none"
  BY <1>1 DEF HistInv, HistTypes
<1>8. HistTypes'
  BY <1>1, <1>6, <1>7 DEF HistInv, HistTypes
<1>9. Aligned'
  BY <1>1 DEF HistInv, Aligned, PageStart
<1>10. Fresh' /\ PageBefore'
  <2>1. events' # <<>>
    BY <1>2, <1>6
  <2> QED BY <1>1, <1>2, <1>7, <2>1 DEF HistInv, Fresh, PageBefore
<1>11. TailContiguous'
  <2> DEFINE earlier == Len(events) - (cursor - base + 1)
  <2>1. /\ earlier \in Nat
        /\ \A i \in 1 .. Len(events) :
             IF i <= earlier THEN events[i] < base ELSE events[i] = base + (i - earlier) - 1
    BY <1>2 DEF HistInv, TailContiguous
  <2>2. Len(events') - (cursor' - base' + 1) = earlier + l
    BY <1>1, <1>2, <1>6
  <2>3. ASSUME NEW i \in 1 .. Len(events')
        PROVE  IF i <= earlier + l THEN events'[i] < base
               ELSE events'[i] = base + (i - (earlier + l)) - 1
    <3>1. CASE i <= l
      <4>1. i \in 1 .. l /\ events'[i] = first + i - 1 /\ l = before - first
        BY <1>4, <1>6, <3>1 DEF l
      <4> QED BY <1>2, <1>3, <1>6, <2>1, <4>1
    <3>2. CASE i > l
      <4>1. /\ i - l \in 1 .. Len(events) /\ i \in l + 1 .. l + Len(events)
            /\ events'[i] = events[i - l]
        BY <1>2, <1>6, <3>2
      <4>2. i <= earlier + l <=> i - l <= earlier
        BY <1>6, <2>1
      <4>3. (i - l) - earlier = i - (earlier + l)
        BY <1>6, <2>1
      <4> HIDE DEF earlier
      <4> QED BY <2>1, <4>1, <4>2, <4>3
    <3> QED BY <1>6, <3>1, <3>2
  <2>4. DOMAIN events' = 1 .. Len(events') /\ earlier + l >= 0
    BY <1>6, <2>1
  <2> HIDE DEF earlier
  <2> QED BY <1>1, <2>2, <2>3, <2>4 DEF TailContiguous
<1>12. FirstShown'
  <2>1. events'[1] = first
    BY <1>3, <1>6
  <2>2. ASSUME NEW i \in DOMAIN events' PROVE first <= events'[i]
    <3>1. CASE i <= l
      BY <1>3, <1>6, <3>1
    <3>2. CASE i > l
      <4>0. i \in 1 .. l + Len(events) /\ DOMAIN events = 1 .. Len(events)
        BY <1>2, <1>6
      <4>1. i - l \in DOMAIN events /\ events'[i] = events[i - l] /\ events[i - l] \in Nat
        BY <1>2, <1>6, <3>2, <4>0
      <4> QED BY <1>2, <1>3, <4>1
    <3> QED BY <1>6, <3>1, <3>2
  <2> QED BY <1>1, <2>1, <2>2 DEF FirstShown
<1> QED BY <1>8, <1>9, <1>10, <1>11, <1>12 DEF HistInv

\* Lemma: every step keeps the invariant.
LEMMA HistStep == HistInv /\ [Next]_vars => HistInv'
<1> SUFFICES ASSUME HistInv, [Next]_vars PROVE HistInv'
  OBVIOUS
<1>t. follow \in FollowTypes /\ follow.at \in Nat /\ follow.at <= Len(log) /\ Len(log) \in Nat
      /\ log \in Seq(Key \cup {Message})
  BY DEF HistInv, HistTypes, FollowTypes
<1>1. ASSUME NEW e \in Key \cup {Message}, Logged(e) PROVE HistInv'
  BY <1>1, HistLogged
<1>2. CASE Connected
  <2>1. /\ UNCHANGED <<log, events, cursor, base, hasMore, page>>
        /\ follow' = [pc |-> "snapshot", at |-> Len(log)]
    BY <1>2 DEF Connected, history
  <2>2. follow' \in FollowTypes /\ follow'.at = Len(log) /\ follow'.pc = "snapshot"
    BY <1>t, <2>1 DEF FollowTypes
  <2> QED BY <1>t, <2>1, <2>2, HistSame
<1>3. CASE SnapshotFrame
  BY <1>3, HistHydrated
<1>4. ASSUME NEW n \in Seq1, EventFrame(n) PROVE HistInv'
  BY <1>4, HistAppended
<1>5. CASE FrameLost
  <2>1. /\ UNCHANGED <<log, events, cursor, base, hasMore, page>>
        /\ follow' = [follow EXCEPT !.at = @ + 1] /\ follow.at + 1 < Len(log)
    BY <1>5 DEF FrameLost, history
  <2>2. /\ follow' \in FollowTypes /\ follow'.at = follow.at + 1 /\ follow'.pc = follow.pc
    BY <1>t, <2>1 DEF FollowTypes
  <2> QED BY <1>t, <2>1, <2>2, HistSame
<1>6. CASE FollowBroken \/ FollowEnded
  <2>1. /\ UNCHANGED <<log, events, cursor, base, hasMore, page>>
        /\ \E pc \in {"ended", "backoff"} : follow' = [follow EXCEPT !.pc = pc]
    BY <1>6 DEF FollowBroken, FollowEnded, history
  <2>2. /\ follow' \in FollowTypes /\ follow'.at = follow.at /\ follow'.pc # "open"
    BY <1>t, <2>1 DEF FollowTypes
  <2> QED BY <1>t, <2>1, <2>2, HistSame
<1>7. CASE ControlStep
  BY <1>7, <1>t, HistSame
     DEF ControlStep, ControlConnected, ControlBaseline, ControlPatch, ControlBroken, history
<1>8. CASE PageRequested
  BY <1>8, HistRequested
<1>9. CASE PageReturned
  <2>1. CASE owned
    BY <1>9, <2>1, HistPrepended
  <2>2. CASE ~owned
    BY <1>9, <1>t, <2>2, HistSame DEF PageReturned, history
  <2> QED BY <2>1, <2>2
<1>10. CASE PageFailed
  BY <1>10, <1>t, HistSame DEF PageFailed, history
<1>11. CASE Replaced
  BY <1>11, <1>t, HistSame DEF Replaced, history
<1>12. CASE UNCHANGED vars
  BY <1>12, <1>t, HistSame DEF vars, history
<1> QED BY <1>1, <1>2, <1>3, <1>4, <1>5, <1>6, <1>7, <1>8, <1>9, <1>10, <1>11, <1>12
        DEF Next, FollowStep, PageStep

\* Lemma: the invariant says what the history shows.
LEMMA HistHolds == HistInv => HistoryExact
<1> SUFFICES ASSUME HistInv PROVE CompleteHistory
  BY DEF HistInv, HistoryExact
<1>1. events # <<>> => Head(events) = events[1] /\ events[1] \in Nat \ {0}
  BY DEF HistInv, HistTypes
<1> QED BY <1>1 DEF CompleteHistory, HistInv, FirstShown

\* Every event from the start of the latest snapshot to the cursor is shown once
\* and in order, and a history that claims to be complete begins with the first
\* event, through lost and repeated frames, reconnects and late pages
\* (runtime.ts: hydrate, appendEvent, prependHistory).
THEOREM HistoryTruthful == Spec => []HistoryExact
<1>1. Init => HistInv
  BY HistStart
<1>2. HistInv /\ [Next]_vars => HistInv'
  BY HistStep
<1>3. HistInv => HistoryExact
  BY HistHolds
<1> QED BY <1>1, <1>2, <1>3, PTL DEF Spec
=============================================================================
