SPECIFICATION Spec
CONSTANTS
  c1 = c1
  c2 = c2
  NoFile = NoFile
  NoName = NoName
  Contexts = {c1, c2}
  Files <- BothFiles
  KeyRange = 4
SYMMETRY Symmetry
INVARIANTS
  TypeOK
  SelectionRespected
  NamesOfOpenedFiles
PROPERTIES
  ShowsOwnNames
CHECK_DEADLOCK FALSE
