------------------------- MODULE MCRewindRepository -------------------------
(* Small instances of RewindRepository: one or two terminal processes       *)
(* that use one or two workspaces.                                          *)
EXTENDS RewindRepository, TLC

OneProc == {"p"}
TwoProcs == {"p", "q"}
OneRoot == {"w"}
TwoRoots == {"w", "x"}
OneObject == {"a"}
ThreeObjects == {"a", "b", "c"}
=============================================================================
