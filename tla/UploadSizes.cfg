\* One path, two handles, every file size: chunk arithmetic and liveness.
SPECIFICATION FairSpec
CONSTANTS
  a = a
  b = b
  Names = {a}
  Byte = {1, 2}
  Commands = {"up", "rm", "mkdir", "closehnd"}
  LocalFiles <- MCFiles
  CHUNK_SIZE = 2
  UINT32_MAX = 4
  NHandles = 2
  Refusals = TRUE
  MaxLate = 0
INVARIANTS
  TypeOK
  UpStored
  UpLeavesNoHandle
  CloseAllFrees
  
PROPERTIES
  RunsEnd
