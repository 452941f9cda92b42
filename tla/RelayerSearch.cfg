SPECIFICATION FairSpec
CONSTANTS
  LockSize = 3
  CacheBlocks = {3}
  Chunk = {1, 2}
  Bulks <- SomeBulks
  QueueLen = 3
  MailboxLen = 3
  Probes = FALSE
  MaxInputs = 2
  Invalid = Invalid
  None = None
PROPERTY SearchEnds
