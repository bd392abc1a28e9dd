SPECIFICATION Spec
CONSTANTS
  BankSize = 4
  Banks = 2
  MaxSerial = 2
  LoadStart = 2
  Image <- MCImage
  Ranges <- MCRanges
  Payload = 9
  MaxCalls = 3
  MaxFaults = 1
  MaxResets = 0
INVARIANT OkWriteLands
\* The calls are bounded.
CHECK_DEADLOCK FALSE
