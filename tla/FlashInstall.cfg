\* Every flash command, USB 2.0 and 3.0 ports, one wrongly programmed byte,
\* one packet that outlives its invocation.
SPECIFICATION FairSpec
CONSTANTS
  Byte = {0, 1}
  Erased = 255
  Firmwares <- MCFirmwares
  FLASH_SIZE = 3
  max_payload = 2
  Crcs = {0, 1, 2, 3, 4}
  CrcStep <- MCCrcStep
  Complement <- MCComplement
  MaxFlips = 1
  MaxLate = 1
INVARIANTS
  InstalledImage
  RefusalStopsInstall
PROPERTIES
  RebootsOnlyVerified
  ProgramsErasedCells
  RunsEnd
