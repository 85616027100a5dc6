SPECIFICATION Spec
CONSTANTS
  Images <- BigEndianImages
  WordSize = 4
INVARIANT
  BigEndianMapped
CHECK_DEADLOCK FALSE
