\* A chunk in the middle of the file is refused; no packet is ever late.
SPECIFICATION Spec
CONSTANTS
  a = a
  b = b
  Names = {a}
  Byte = {1, 2}
  Commands = {"up"}
  LocalFiles <- MCFewFiles
  CHUNK_SIZE = 1
  UINT32_MAX = 4
  NHandles = 2
  Refusals = TRUE
  MaxLate = 0
INVARIANT
  UploadWasSuccessful
