SPECIFICATION OneStart
CONSTANTS
  Modes = {"BIDIR"}
  NumPkts = 3
  SizePkts = 3
  Bulks <- SomeBulks
  QueueLen = 3
  MailboxLen = 8
  PktSlots = 2
  MaxPending = 2
  MaxInputs = 2
  MaxChunk = 4
  Invalid = Invalid
  None = None
INVARIANT NeverPastEnd
