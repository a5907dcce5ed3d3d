CONSTANTS
  PageSize <- MCPageSize
  Quarter <- MCQuarter
  KernelSize = 8
  BiosMaps <- MCBiosMaps
  OtherCalls <- MCAnyCalls
  NULL = NULL
SPECIFICATION BootSpec
CHECK_DEADLOCK FALSE
INVARIANTS
  MemoryReady
  RangeDisabled
PROPERTY Terminates
