\* No transaction fails.
CONSTANTS
  Garbage <- MCGarbage
  MaxFaults = 0
SPECIFICATION Spec
INVARIANT DataReadyInterruptOff
