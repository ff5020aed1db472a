--------------------------- MODULE TrajectoryMetrics ---------------------------
(***************************************************************************)
(* The timing of the ledger (trajectory/model.ts): built once for a set of *)
(* records, then refreshed at each frame for what still runs, its children *)
(* and its rankings only.                                                  *)
(***************************************************************************)
EXTENDS Integers, FiniteSets, FiniteSetsExt

CONSTANTS
  Node,       \* the records, numbered in their order
  ParentOf,   \* for each the record above it, or 0
  KindOf,     \* "turn", "step" or "tool"
  Latest      \* bound: the last instant

VARIABLES
  timing,     \* for each record when it started and ended: -1 when it did not
  measured    \* what TrajectoryModel keeps and hands out

metricsVars == <<timing, measured>>

Never == -1
Ticking(n) == timing[n].started # Never /\ timing[n].ended = Never
Timed(n) == timing[n].started # Never
Ranked(n) == Timed(n) /\ KindOf[n] # "turn"
NoShare == <<0, 0>>

\* A child's part of its parent: at most all of it, and none of an empty one.
Share(durations, n) ==
  LET p == ParentOf[n]
  IN  IF p = 0 \/ ~Timed(n) THEN NoShare
      ELSE IF ~Timed(p) \/ durations[p] <= 0 THEN NoShare
      ELSE <<Min({durations[n], durations[p]}), durations[p]>>

\* The longest of some records, the first of those as long; 0 for none.
Longest(durations, candidates) ==
  LET most == {n \in candidates : \A m \in candidates : durations[m] <= durations[n]}
  IN  IF candidates = {} THEN 0 ELSE Min(most)

Siblings(n) == {m \in Node : Ranked(m) /\ ParentOf[m] = ParentOf[n]}
Groups == {Siblings(n) : n \in {n \in Node : Ranked(n)}}
Leaves == {n \in Node : Ranked(n) /\ KindOf[n] # "step"}
Steps == {n \in Node : Ranked(n) /\ KindOf[n] = "step"}
Bottlenecks == IF Leaves # {} THEN Leaves ELSE Steps

\* What was finished when the model was built reduces to one candidate.
Reduced(durations, group) ==
  LET running == {n \in group : Ticking(n)}
      fixed == Longest(durations, group \ running)
  IN  running \cup (IF fixed = 0 THEN {} ELSE {fixed})

Built ==
  LET durations == [n \in Node |-> IF Timed(n) /\ ~Ticking(n)
                                   THEN Max({0, timing[n].ended - timing[n].started}) ELSE 0]
  IN  [durations |-> durations, shares |-> [n \in Node |-> Share(durations, n)],
       candidates |-> {Reduced(durations, g) : g \in Groups},
       slowest |-> {Longest(durations, g) : g \in Groups},
       ranked |-> Reduced(durations, Bottlenecks), bottleneck |-> Longest(durations, Bottlenecks),
       at |-> Never]

\* Refresh: durations that grow, shares that hang on them, groups that run.
Refreshed(m, now) ==
  LET durations == [n \in Node |-> IF Ticking(n) THEN Max({0, now - timing[n].started}) ELSE m.durations[n]]
      moving(n) == ParentOf[n] # 0 /\ (Ticking(n) \/ Ticking(ParentOf[n]))
      running == {g \in m.candidates : \E n \in g : Ticking(n)}
  IN  [m EXCEPT !.durations = durations,
                !.shares = [n \in Node |-> IF moving(n) THEN Share(durations, n) ELSE m.shares[n]],
                !.slowest = {n \in @ : \A g \in running : ParentOf[n] # ParentOf[CHOOSE c \in g : TRUE]}
                              \cup {Longest(durations, g) : g \in running},
                !.bottleneck = Longest(durations, m.ranked),
                !.at = now]

NotMeasured == [at |-> Latest + 1]

MetricsInit ==
  /\ timing = [n \in Node |-> [started |-> Never, ended |-> Never]]
  /\ measured = NotMeasured

\* A snapshot of the Session: other records or timings, hence another model.
Rebuild ==
  /\ measured = NotMeasured
  /\ timing' \in [Node -> [started : Never..1, ended : {Never, 1, 2}]]
  /\ \A n \in Node : timing'[n].started = Never => timing'[n].ended = Never
  /\ measured' = Built'

\* A frame at some instant, the clock set back included.
Measure(now) ==
  /\ measured # NotMeasured /\ measured.at # now
  /\ measured' = IF \E n \in Node : Ticking(n) THEN Refreshed(measured, now) ELSE [measured EXCEPT !.at = now]
  /\ UNCHANGED timing

MetricsNext == Rebuild \/ \E now \in 0..Latest : Measure(now)
MetricsSpec == MetricsInit /\ [][MetricsNext]_metricsVars

-----------------------------------------------------------------------------
(* Properties *)

\* What is shown at an instant is what measuring everything anew would show.
RefreshIsExact ==
  (measured # NotMeasured /\ measured.at # Never) =>
    LET durations == [n \in Node |-> CASE ~Timed(n) -> 0
                                       [] Timed(n) /\ Ticking(n) -> Max({0, measured.at - timing[n].started})
                                       [] OTHER -> Max({0, timing[n].ended - timing[n].started})]
    IN  /\ measured.durations = durations
        /\ \A n \in Node : measured.shares[n] = Share(durations, n)
        /\ measured.slowest = {Longest(durations, g) : g \in Groups}
        /\ measured.bottleneck = Longest(durations, Bottlenecks)
=============================================================================
