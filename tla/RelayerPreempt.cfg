SPECIFICATION Spec
CONSTANTS
  NumCacheBlocks = 2
  Chunk = {1, 2}
  QueueLen = 4
  MaxQueued = 3
  MaxMail = 3
  None = None
INVARIANTS NeverPopsTwice ExactUnlessRaced
PROPERTY LockedUntilUnlock
