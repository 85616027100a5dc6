SPECIFICATION Spec
CONSTANTS
  Images <- LittleEndianImages
  WordSize = 4
INVARIANTS
  CodeAddressesSound
  ArraysComplete
  StubsNamed
CHECK_DEADLOCK FALSE
