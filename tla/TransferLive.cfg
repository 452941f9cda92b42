SPECIFICATION FairSpec
CONSTANTS
  NumPkts = 2
  BulkMax = 2
  QueueLen = 4
  MailboxLen = 8
  Steps = 4
  MaxLost = 1
  MaxRelayed = 2
  MaxInFlight = 1
  Invalid = Invalid
  None = None
PROPERTIES TransferCompletes FallsSilent
CHECK_DEADLOCK FALSE
