SPECIFICATION FairSpec
CONSTANTS
  MaxChunk = 2
  QueueLen = 2
  BulkMax = 1
  MailboxLen = 6
  PktSlots = 1
  MaxPending = 1
  Disciplined = TRUE
  Configs <- BothModes
  SyncConfigs <- BothModes
INVARIANTS TypeOK MailboxSuffices RequestsScheduled StoppedIsQuiet AllReceivedStops ReceivedIsCopied CountExact
PROPERTIES RetryArmed MissingIsRequested
