SPECIFICATION StreamsSpec
CONSTANTS
  c1 = c1  c2 = c2  b1 = b1  b2 = b2
  Key <- OneKey
  Message = "message"
  MaxSeq = 4
  PageMessages = 1
  MaxFaults = 2
  Client <- TwoClients
  Tab <- TwoTabs
INVARIANTS HistoryExact DebuggedForOwner
PROPERTIES ProjectionsOrdered StreamCatchesUp ControlEnds
\* a stream that has shown the whole log waits, and so does a browser left alone
CHECK_DEADLOCK FALSE
