\* A directory is made, its reply is late, and the directory is deleted.
SPECIFICATION Spec
CONSTANTS
  a = a
  b = b
  Names = {a}
  Byte = {1, 2}
  Commands = {"rm", "mkdir"}
  LocalFiles = {}
  CHUNK_SIZE = 1
  UINT32_MAX = 4
  NHandles = 2
  Refusals = FALSE
  MaxLate = 1
INVARIANT
  RmWasSuccessful
