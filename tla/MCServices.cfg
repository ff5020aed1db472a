SPECIFICATION ServicesSpec
CONSTANTS
  t1 = t1  t2 = t2  r1 = r1  r2 = r2  r3 = r3
  Regions <- TwoFiles
  Linked = {2}
  Absent = Absent
  Conflict = Conflict
  Unsupported = Unsupported
  NoTimeline = NoTimeline
  History = 2
  MaxBytes = 2
  MaxSession = 2
  MaxPoint = 2
  MaxEdit = 2
  MaxFault = 1
  NoTopic = NoTopic
  Index = Index
  Topic <- TwoTopics
  Asked <- Requests
  Summary <- Summaries
  Detail <- Details
  Caller <- Callers
  Stored <- StoredDocs
  MaxEntries = 2
  MaxOps = 2
  MaxTurn = 2
  MaxCall = 2
  MaxAsk = 2
  MaxRequest = 1
  MaxFileFault = 1
SYMMETRY RegionSymmetry
INVARIANTS CursorTruthful LineageReloads NothingLost OffStaysOff WaitersProceed
PROPERTIES UserEditsKept FailureRestores PlanExact CorrectionKeepsOne YieldsToForeground
\* nothing is left to do when the bounds are reached, or a service is closed
CHECK_DEADLOCK FALSE
