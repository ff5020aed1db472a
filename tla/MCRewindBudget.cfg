SPECIFICATION FairSpec
CONSTANTS
  Proc <- OneProc
  NoProc = "nobody"
  Root <- TwoRoots
  Object <- ThreeObjects
  MaxVersion = 2
  MaxBytes = 2
  MaxTimelineBytes = 2
  MaxCrash = 1
  MaxFailure = 1
INVARIANTS ManifestComplete
PROPERTIES CallsEnd
\* a service whose bounds are used up stops
CHECK_DEADLOCK FALSE
