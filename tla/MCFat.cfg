CONSTANTS
  LbaLimit = 1000
  Disks <- MCDisks
  Paths <- MCPaths
  Full <- MCFull
  Starts <- MCStarts
  ORDERS = 2
  BLOCK_COUNT = 2
  ENTRIES = 2
  EOC = 90
  PopLimit = 2
  PartStart = 10
SPECIFICATION Spec
CHECK_DEADLOCK FALSE
INVARIANTS
  IInv
PROPERTIES
  ChainFollowed
  SearchFinds
  FileRight
  TreeListed
  CallsReturn
