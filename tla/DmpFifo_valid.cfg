SPECIFICATION Spec
CONSTANTS
  Kinds <- MCKinds
  CountBase = 4
  Capacity = 20
  MaxFrames = 2
  MaxFaults = 0
  MaxResets = 0
INVARIANT OkFrameIsValid
\* The frames and the calls are bounded.
CHECK_DEADLOCK FALSE
