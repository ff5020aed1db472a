SPECIFICATION Spec
CONSTANTS
  r1 = r1  r2 = r2  r3 = r3
  Regions <- OneFile
  Linked = {}
  Absent = Absent
  Conflict = Conflict
  Unsupported = Unsupported
  NoTimeline = NoTimeline
  History = 2
  MaxBytes = 3
  MaxSession = 1
  MaxPoint = 2
  MaxEdit = 3
  MaxFault = 1
PROPERTIES RestoredAfterRestart
CHECK_DEADLOCK FALSE
