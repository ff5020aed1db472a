SPECIFICATION Spec
CONSTANTS
  Key = {}
  Message = "message"
  MaxSeq = 4
  PageMessages = 1
  MaxFaults = 2
CHECK_DEADLOCK FALSE
INVARIANTS HistoryContiguous
