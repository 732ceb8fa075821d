\* dl and ls on the stock firmware, every way to cut a file into replies.
SPECIFICATION FairSpec
CONSTANTS
  Byte = {1, 2}
  Contents <- MCContents
  Header <- MCHeader
  ContHeader <- MCContHeader
  FirstMax <- MCFirstMax
  UINT32_MAX = 7
  NHandles = 2
  Continues <- MCContinues
INVARIANTS
  
  
  RepliesFit
PROPERTIES
  
  RunsEnd
