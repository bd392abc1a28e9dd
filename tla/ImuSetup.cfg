\* Any three transactions of the setup fail.
CONSTANTS
  Garbage <- MCGarbage
  MaxFaults = 3
SPECIFICATION Spec
INVARIANTS ImuInv EnabledMeansConfigured CarefulKeepsOthers OkKeepsOthers
