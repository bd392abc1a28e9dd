SPECIFICATION Spec
CONSTANTS
  Sensors <- MCSensors
  Outputs <- MCOutputs
  Needs <- MCNeeds
  Bits <- MCBits
  MotionBits <- MCMotion
  Parts <- MCParts
  Accuracy <- MCAccuracy
  Unsupported = {"humidity"}
  Unknown = "unknown"
  Intervals = {1, 2}
  MaxCalls = 2
  MaxFaults = 1
  MaxRestarts = 1
  Banks = 2
INVARIANT OkRateApplies
\* The calls are bounded.
CHECK_DEADLOCK FALSE
