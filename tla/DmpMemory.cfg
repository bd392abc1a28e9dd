SPECIFICATION Spec
CONSTANTS
  BankSize = 4
  Banks = 2
  MaxSerial = 2
  LoadStart = 2
  Image <- MCImage
  Ranges <- MCRanges
  Payload = 9
  MaxCalls = 5
  MaxFaults = 3
  MaxResets = 2
INVARIANTS MemInv CachedBankIsReal
PROPERTIES ImplementsPort LoadedMeansImage CleanLoadLoads
\* The calls are bounded.
CHECK_DEADLOCK FALSE
