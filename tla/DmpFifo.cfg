\* A FIFO that overflows in its second frame, one failing transaction and one
\* reset, anywhere.
CONSTANTS
  Kinds <- MCKinds
  CountBase = 4
  Capacity = 7
  MaxFrames = 2
  MaxFaults = 1
  MaxResets = 1
SPECIFICATION FairSpec
INVARIANTS FifoInv CountNeverHigh FramesStayWhole
PROPERTIES FramesInOrder EveryFrameReturned
\* The frames are bounded, and the reader may have returned the last.
CHECK_DEADLOCK FALSE
