SPECIFICATION MCSpec
CONSTANTS
  Files <- MCFiles
  Image0Offset = 32
  Image1Offset = 64
  Imports <- MCImports
  Images <- MCImages
  Instructions <- Insns
INVARIANTS
  ChainOfTheImagePicked
  CompleteOrNothing
  SegmentsDisjoint
  FlowIsListed
  WordsDecodedWhole
CHECK_DEADLOCK FALSE
