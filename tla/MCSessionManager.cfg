SPECIFICATION Spec
CONSTANTS
  s1 = s1  s2 = s2  s3 = s3  p1 = p1  p2 = p2  a1 = a1
  NoSession = NoSession
  Session <- TwoSessions
  Stored <- OneStored
  Prompt <- NoPrompt
  Ask <- OneAsk
  MaxOps = 2
  MaxEpoch = 4
INVARIANTS BindingTruthful PendingAsksVisible DisposedQuiet
PROPERTIES ImplementsBinding
\* a disposed application stops
CHECK_DEADLOCK FALSE
