\* More buffers than the code's one, so that callbacks overlap on the pool.
CONSTANTS
  Buffers = {b1, b2}
  MaxCapture = 4
  Threads = {t1, t2}
  MaxFaults = 1
SPECIFICATION FairSpec
INVARIANTS PoolNeverEmpty NoBufferStranded PoolInv SameCapture
PROPERTY StreamSurvives
\* The process may exit.
CHECK_DEADLOCK FALSE
