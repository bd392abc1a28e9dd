SPECIFICATION Spec
CONSTANTS
  Sensors <- MCSensors
  Outputs <- MCOutputs
  Needs <- MCNeeds
  Bits <- MCBits
  MotionBits <- MCMotion
  Parts <- MCParts
  Accuracy <- MCAccuracy
  Unsupported = {"humidity"}
  Unknown = "unknown"
  Intervals = {1}
  MaxCalls = 4
  MaxFaults = 2
  MaxRestarts = 1
  Banks = 2
INVARIANTS SensorsInv OkEnableApplies
PROPERTIES NoOutputTakenAway ParametersKeepOut
\* The calls are bounded.
CHECK_DEADLOCK FALSE
