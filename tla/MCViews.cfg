SPECIFICATION ViewsSpec
CONSTANTS
  l1 = l1  l2 = l2
  EventLog <- MCEventLog
  Happened = 4
  TabNames <- MCTabNames
  Revision = {"v1", "v2"}
  Missing = {"m"}
  Query = {"q"}
  Hits <- MCHits
  MaxScopes = 4
  Tree <- MCTree
  Height = 3
  Unit = {"a", "hi", "lo"}
  TextLength = 5
  QueryLength = 2
  ChunkSize = 2
  Node = {1, 2, 3, 4}
  ParentOf <- MCParent
  KindOf <- MCKind
  Latest = 2
  RawText <- MCText
  Widths = {1, 3}
  CheckpointRows = 2
  BufferRows = 1
  LastTop = 5
  Link = {l1, l2}
  Href = {"a"}
  Icon = {"x", "y"}
  Prompt = {p1}
  p1 = p1
  Remote = Remote
  ContextNote = ContextNote
  Merged = Merged
  PageRows = 1
  LogBound = 7
  OthersBound = 1
  ReconnectBound = 1
  Sessions <- MCSessions
  PageSizes = {4}
  EpochBound = 2
  FrameBound = 1
  Arrivals <- MCArrivals
  Older <- MCOlder
  Heights = {4, 5}
  DockRows = 2
  ThoughtRows = 2
  LargeDiff = 3
  GestureBound = 2
  r1 = r1  r2 = r2
  Request <- TwoRequests
  PagesOf <- MCPages
  Pressed <- MCPressed
INVARIANTS RecordsTruthful InspectionTruthful
  ExactWhenAsked IconRestored PromptShown PendingShown FocusOwned
PROPERTIES StaysInPlace AnswersWhatIsShown
\* a search is made once
CHECK_DEADLOCK FALSE
