SPECIFICATION Spec
CONSTANTS
  Images <- AllImages
  ImageBase = 16
  KnownOrdinals <- Ordinals
INVARIANTS
  TypeOK
  VerdictIsNative
  ManagedIsNotNative
  LayoutAgrees
  SlotsNameTheirThunk
PROPERTIES
  VBSticks
CHECK_DEADLOCK FALSE
