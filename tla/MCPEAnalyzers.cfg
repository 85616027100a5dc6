SPECIFICATION Spec
CONSTANTS
  Loads <- MCLoads
  Apis <- MCApis
  Components <- MCComponents
  Addresses <- MCAddresses
INVARIANTS
  WindowProcedures
  HandlersNamed
CHECK_DEADLOCK FALSE
