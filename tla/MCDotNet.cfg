SPECIFICATION ReaderSpec
CONSTANTS
  ManagedImages <- AllImages
  Strays = {0, 1, 3, 7}
  MaxRows = 4
  U32Range = 1073741824
INVARIANTS
  RowsInPlace
  MethodsReported
CHECK_DEADLOCK FALSE
