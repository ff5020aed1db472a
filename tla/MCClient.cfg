SPECIFICATION ClientSpec
CONSTANTS
  Word = Word
  Command = Command
  NoDraft = NoDraft
  MaxMarker = 2
  MaxLength = 2
  MaxImage = 2
  MaxTokens = 2
  MaxCall = 2
  MaxEpoch = 1
  Typed <- MCTyped
  Area <- MCArea
  EffortsOf <- MCEfforts
  Danger = "danger"
  WaitBound = 2
  ChangeBound = 1
  Skill = {1, 2}
  Provided = {2}
  Query_ = {1}
  SkillFaults = 1
  OthersWrite = 1
  Phase = {"none", "active", "blocked", "complete"}
  TodoCount = {0, 2}
  RevisionBound = 2
  EpochOfTasks = 2
  DocLines <- MCDocLines
  PageOfLines = 3
  OpenBound = 2
  SaveFaults = 1
  Url = {"u", "v"}
  AttemptBound = 2
  PromptBound = 2
  SessionLists <- MCSessionLists
  SwitchBound = 2
  Provider = {"c", "d"}
  Quotaless = {"d"}
  ReadBound = 4
  Listing <- MCListing
  SkillSet <- MCSkillSet
  LineBound = 2
  RuntimeBound = 2
  LogBound = 3
INVARIANTS DialogsCurrent RecoveryExact
PROPERTIES LandsInText AdmittedAsSubmitted FailureGivesBack
CHECK_DEADLOCK FALSE
