\* Two paths, two handles, packets that outlive their invocation.
SPECIFICATION Spec
CONSTANTS
  a = a
  b = b
  Names = {a, b}
  Byte = {1, 2}
  Commands = {"up", "closehnd"}
  LocalFiles <- MCFewFiles
  CHUNK_SIZE = 1
  UINT32_MAX = 4
  NHandles = 2
  Refusals = TRUE
  MaxLate = 1
SYMMETRY NameSymmetry
INVARIANTS
  StopAndWait
  UpPrefix
PROPERTIES
  UpTouchesOnlyItsFile
