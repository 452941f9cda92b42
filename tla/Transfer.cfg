SPECIFICATION Spec
CONSTANTS
  NumPkts = 3
  BulkMax = 2
  QueueLen = 2
  MailboxLen = 8
  Steps = 4
  MaxLost = 1
  MaxRelayed = 2
  MaxInFlight = 1
  Invalid = Invalid
  None = None
INVARIANTS TypeOK CompleteIsTrue
PROPERTIES EnvironmentCovered
CHECK_DEADLOCK FALSE
