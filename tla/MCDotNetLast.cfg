SPECIFICATION ReaderSpec
CONSTANTS
  ManagedImages <- Small
  Strays = {1}
  MaxRows = 4
  U32Range = 1073741824
INVARIANTS
  MethodListIsLast
CHECK_DEADLOCK FALSE
