\* The code's configuration: one buffer (camera_mipi.cpp:265), and callbacks
\* that MMAL could run at the same time.
CONSTANTS
  Buffers = {b1}
  MaxCapture = 3
  Threads = {t1, t2}
  MaxFaults = 1
SPECIFICATION DriverFairSpec
INVARIANTS PairInv DriverInv OneFrameShown OnlyCalibratedDisparity
PROPERTIES ImplementsPair CallbackEnds LastCaptureShown
\* The process may end.
CHECK_DEADLOCK FALSE
