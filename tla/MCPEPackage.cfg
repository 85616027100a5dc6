SPECIFICATION Spec
CONSTANTS
  Images <- ClassifiedImages
  ImageBase = 16
  KnownOrdinals <- Ordinals
INVARIANT ReportedMissingIsMissing
CHECK_DEADLOCK FALSE
