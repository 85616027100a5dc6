SPECIFICATION MCSpec
CONSTANTS
  Opcodes <- AllOpcodes
  Address = 512
  Roms <- SomeRoms
  RamStart = 8
  RamEnd = 16
  WordRange = 32
  BiosBase = 3000000
  XbeImages <- SomeXbes
  Words <- SmallWords
  EpKey <- SmallEpKey
  ThunkKey <- SmallThunkKey
  KernelBase = 24
  KernelSize = 4
INVARIANTS
  FlowMatchesDecode
  ListingKeepsOperands
  MemoryAsOnTheConsole
  EntryAsOnTheConsole
  LoadedAsLinked
PROPERTIES
  XbeLoadEnds
CHECK_DEADLOCK FALSE
