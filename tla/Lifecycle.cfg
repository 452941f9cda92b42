SPECIFICATION FairSpec
CONSTANTS
  Node = {n1}
  Settings <- SomeSettings
  CountMod = 4
  MailboxLen = 3
  MaxCommands = 4
INVARIANTS OneThread ThreadIsReached StateTellsTruth CountAgrees
PROPERTY RestartRevives
CHECK_DEADLOCK FALSE
