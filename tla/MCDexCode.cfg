SPECIFICATION MCSpec
CONSTANTS
  Methods <- SomeMethods
  StringCount = 2
  ClassLists <- SomeClassLists
  Descriptors <- ClassNames
  HashRange = 65536
  NoClass = NoClass
  CodeItems <- SomeCodeItems
  Addresses = {0, 1, 2, 3, 4, 5, 6, 7, 8}
  AnyType = 99
  DebugMethods <- SomeDebugMethods
  U2Range = 65536
  This = "this"
  NoName = NoName
  Protos <- SomeProtos
  Blocks = {b1, b2}
  BufferSize = 8
  NoBlock = NoBlock
  ClassItems <- SomeClassItems
  NoLimit = NoLimit
  IndexRange = 512
  Buffers <- SomeBuffers
  HeaderSize = 112
  SizeRange = 64
  LookupChunk = 41
  MapsChunk = 42
  EndChunk = 43
INVARIANTS
  FlowIsTheInstructions
  DecodesWhole
  ListingIsTheInstruction
  HandlerFound
  HandlersListed
  LocalsAsDescribed
  CacheOwnership
  DescriptorsReadBack
  ClassReadBack
  TablesAsWritten
PROPERTIES
  ImplementsDirectory
  CallsReturn
CHECK_DEADLOCK FALSE
