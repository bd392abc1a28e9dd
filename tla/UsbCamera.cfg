CONSTANTS
  MaxCapture = 4
  MaxFaults = 2
  Empty = Empty
SPECIFICATION FairSpec
INVARIANTS UsbInv SkewHeals
PROPERTIES ImplementsPair PassesEnd PairsNeverGoBack
\* initialize_cameras may fail, and the program may end or die.
CHECK_DEADLOCK FALSE
