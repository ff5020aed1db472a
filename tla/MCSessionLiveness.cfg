SPECIFICATION FairSpec
CONSTANTS
  s1 = s1  s2 = s2  s3 = s3  p1 = p1  p2 = p2  a1 = a1
  NoSession = NoSession
  Session <- OneSession
  Stored <- NoSessions
  Prompt <- OnePrompt
  Ask <- NoAsk
  MaxOps = 2
  MaxEpoch = 4
PROPERTIES EverythingSettles
\* a disposed application stops
CHECK_DEADLOCK FALSE
