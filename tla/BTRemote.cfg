\* Every way read() can split a stream of all kinds of bytes, with polling.
CONSTANTS
  Bytes = {"a", "NL", "NUL", "CTL"}
  MaxSent = 4
  MaxCalls = 2
SPECIFICATION FairSpec
INVARIANTS BTInv CutAtNewlines InOrderOnce LostOnlyWhenOvertaken
PROPERTY AllBytesRead
\* setup_remote may fail, and the calls of get_data are bounded.
CHECK_DEADLOCK FALSE
