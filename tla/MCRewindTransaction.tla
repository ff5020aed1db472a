------------------------ MODULE MCRewindTransaction ------------------------
(* Small instances of RewindTransaction. *)
EXTENDS RewindTransaction

CONSTANTS r1, r2, r3

OneFile == <<{r3}>>
TwoFiles == <<{r1, r2}, {r3}>>

\* Regions are only compared with each other.
RegionSymmetry == Permutations({r1, r2})
=============================================================================
