CONSTANTS
  PageSize = 27
  MinPages = 1
  MajorSize = 3
  MinorSize = 3
  Alignment = 2
  AlignInfo = 2
  WordSize = 128
  Heap <- MCHeap
  Sizes <- MCSizes
SPECIFICATION Spec
PROPERTY FailedReallocKeepsBlock
