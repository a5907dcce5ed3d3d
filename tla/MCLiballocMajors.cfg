CONSTANTS
  PageSize = 26
  MinPages = 1
  MajorSize = 3
  MinorSize = 3
  Alignment = 2
  AlignInfo = 2
  WordSize = 128
  Heap <- MCManyPages
  Sizes <- MCFewSizes
SPECIFICATION Spec
INVARIANT NoMajorDangles
PROPERTIES
  GrowsOnlyWhenFull
  CallsReturn
