SPECIFICATION FairSpec
CONSTANTS
  LockSize = 3
  CacheBlocks = {2, 3}
  Chunk = {1, 2}
  Bulks <- SomeBulks
  QueueLen = 3
  MailboxLen = 3
  Probes = TRUE
  MaxInputs = 3
  Invalid = Invalid
  None = None
INVARIANTS TypeOK LockedIsQueued PromiseKept
PROPERTIES LockedIsKept NoInterestSwallowed QueuedIsServed
