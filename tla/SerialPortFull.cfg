\* A linear Buffer of 3 that the drain loop can fill while the ring of 4 still
\* holds bytes.
CONSTANTS
  Size = 4
  Expect = 2
  BufSize = 3
  MaxTail = 1
  HasEventFd = TRUE
  MaxBytes = 6
SPECIFICATION FairSpec
PROPERTY FullIsConsumed
CHECK_DEADLOCK FALSE
