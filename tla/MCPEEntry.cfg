SPECIFICATION Spec
CONSTANTS
  Images <- LaidOutImages
  ImageBase = 16
  KnownOrdinals <- Ordinals
INVARIANT EntryPointsToCode
CHECK_DEADLOCK FALSE
