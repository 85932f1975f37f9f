\* A ring of 4 that refuses a request of 2, a linear Buffer of 3 that the bytes
\* and a tail can fill while the ring still holds some, and a device that may
\* stop, fail or go on at every point of the shutdown.
CONSTANTS
  Size = 4
  Expect = 2
  BufSize = 3
  MaxTail = 2
  HasEventFd = TRUE
  MaxBytes = 5
SPECIFICATION FairSpec
INVARIANTS NoLostWakeup StopReachesMessageThread StopReachesReadThread BufferConsistent DestroyedLast
PROPERTIES ShutdownCompletes BytesAreRead
CHECK_DEADLOCK FALSE
