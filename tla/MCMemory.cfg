CONSTANTS
  Quarter <- MCQuarter
  Usable <- MCUsable
  Requests <- MCRequests
  BootTables <- MCBootTables
  TlbSize = 1
  NULL = NULL
SPECIFICATION Spec
INVARIANTS
  RegionsPartitionHeap
  ListReachesEveryRegion
  HeldBlocksBacked
  FramesAccounted
  TlbCoherent
  UnusedSlotLeft
PROPERTIES
  HeldMappingsStable
  ImplementsPageGrants
