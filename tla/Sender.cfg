SPECIFICATION FairSpec
CONSTANTS
  Modes = {"TIMED", "SIZE", "BIDIR"}
  NumPkts = 3
  SizePkts = 4
  Bulks <- SomeBulks
  QueueLen = 3
  MailboxLen = 5
  PktSlots = 1
  MaxPending = 1
  MaxInputs = 5
  MaxChunk = 4
  Invalid = Invalid
  None = None
INVARIANTS
  TypeOK MailboxSuffices SendingTicks RequestsTick NeverPastEnd SizeIsExact
PROPERTIES TransferEnds RequestAnswered IdleFallsSilent
