SPECIFICATION Spec
CONSTANTS
  Proc <- TwoProcs
  NoProc = "nobody"
  Root <- OneRoot
  Object <- OneObject
  MaxVersion = 3
  MaxBytes = 1
  MaxTimelineBytes = 1
  MaxCrash = 1
  MaxFailure = 1
INVARIANTS MutualExclusion
PROPERTIES NoLostUpdate
\* a service whose bounds are used up stops
CHECK_DEADLOCK FALSE
