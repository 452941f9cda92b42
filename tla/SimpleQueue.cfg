SPECIFICATION Spec
CONSTANTS
  QueueLen = 3
  Data = {0, 1, 2}
  None = None
INVARIANT RingInv
PROPERTY ImplementsFifo
