CONSTANTS
  Quarter <- MCQuarter
  Usable <- MCUsable
  Requests <- MCRequests
  BootTables <- MCBootTables
  TlbSize = 0
  NULL = NULL
SPECIFICATION Spec
INVARIANT MemoryConsistent
