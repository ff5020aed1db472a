------------------------------ MODULE ProviderUsage ------------------------------
(***************************************************************************)
(* Usage of a subscription (modules/usage/process.ts): one quota snapshot, *)
(* of the provider that is observed, refreshed by a timer and by whoever   *)
(* asks; reads answer in any order, fail, or are aborted.                  *)
(***************************************************************************)
EXTENDS Integers, FiniteSets

CONSTANTS
  Provider,  \* providers
  Quotaless, \* those that report no quota
  ReadBound  \* bound: reads, and observations

ASSUME UsageAssumption == "none" \notin Provider

VARIABLES
  usage,  \* the observation, the snapshot, the timer, whether the scope is active
  reads   \* reads on their way

usageVars == <<usage, reads>>

NoProvider == "none"
NoSnapshot == [of |-> NoProvider, revision |-> 0]

-----------------------------------------------------------------------------

\* read: of the observation, when it is about the same provider.
ReadUsage(u, provider, background) ==
  /\ u.reads < ReadBound
  /\ \E seen \in {u.provider = provider} :
       /\ usage' = [u EXCEPT !.reads = @ + 1, !.revision = IF seen THEN @ + 1 ELSE @]
       /\ reads' = reads \cup {[id |-> u.reads, of |-> provider, background |-> background,
                                by |-> IF seen THEN u.id ELSE 0, revision |-> IF seen THEN u.revision + 1 ELSE 0]}

Stopped == [usage EXCEPT !.provider = NoProvider, !.snapshot = NoSnapshot, !.timer = FALSE]

\* observe: another provider takes the place of the one before; a read begins.
Observe ==
  \E provider \in Provider \cup {NoProvider} :
    /\ provider # usage.provider /\ usage.id < ReadBound
    /\ IF provider = NoProvider \/ ~usage.active THEN usage' = Stopped /\ UNCHANGED reads
       ELSE ReadUsage([Stopped EXCEPT !.provider = provider, !.id = @ + 1, !.revision = 0], provider, TRUE)

Ticks == usage.timer /\ ReadUsage([usage EXCEPT !.timer = FALSE], usage.provider, TRUE)

\* /usage asks about any provider.
Asks_ == \E provider \in Provider : ReadUsage(usage, provider, FALSE)

\* publish: the last read of the observation, while it is observed.
Publishes(r) ==
  r.by # 0 /\ r.by = usage.id /\ usage.provider # NoProvider /\ r.revision = usage.revision /\ usage.active

\* A provider without quotas is not asked again; a failure hides what was shown.
Answers(r) ==
  /\ reads' = reads \ {r}
  /\ \E failed \in BOOLEAN, snapshot \in {[of |-> r.of, revision |-> r.revision]} :
       usage' = [usage EXCEPT
         !.snapshot = IF ~Publishes(r) THEN @ ELSE IF failed \/ r.of \in Quotaless THEN NoSnapshot ELSE snapshot,
         !.timer = @ \/ (r.background /\ (failed \/ r.of \notin Quotaless)
                           /\ r.by = usage.id /\ usage.provider # NoProvider /\ usage.active)]

DisposeUsage == usage.active /\ usage' = [Stopped EXCEPT !.active = FALSE] /\ UNCHANGED reads

-----------------------------------------------------------------------------

UsageInit ==
  /\ usage = [provider |-> NoProvider, id |-> 0, revision |-> 0, snapshot |-> NoSnapshot, timer |-> FALSE,
              active |-> TRUE, reads |-> 0]
  /\ reads = {}

UsageNext == Observe \/ Ticks \/ Asks_ \/ DisposeUsage \/ \E r \in reads : Answers(r)

\* The quota shown is that of the provider observed, and the newest of those
\* that were read, unless a newer read is still on its way; one refresh at a
\* time waits or runs.
UsageCurrent ==
  /\ usage.snapshot # NoSnapshot =>
       /\ usage.snapshot.of = usage.provider
       /\ usage.snapshot.revision = usage.revision
            \/ \E r \in reads : r.by = usage.id /\ r.revision = usage.revision
  /\ Cardinality({r \in reads : r.background /\ r.by = usage.id}) + (IF usage.timer THEN 1 ELSE 0) <= 1
  /\ usage.timer => usage.provider # NoProvider /\ usage.active
=============================================================================
