SPECIFICATION RelaysKeepPromises
CONSTANTS
  MaxChunk = 2
  QueueLen = 6
  BulkMax = 2
  MailboxLen = 6
  PktSlots = 1
  MaxPending = 1
  Disciplined = TRUE
  Configs <- OnlyBidir
  SyncConfigs <- NoSync
INVARIANT CompleteMeansAll
