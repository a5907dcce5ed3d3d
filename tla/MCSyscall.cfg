CONSTANTS
  Width = 5
  Height = 2
  Glyphs <- MCGlyphs
  Sizes <- MCSizes
  MaxText = 6
  StackSize = 14
  Values <- MCValues
  Junk = 9
  Chars <- MCChars
  Pointers <- MCPointers
  Message <- MCMessage
  LineSize = 4
  MaxCalls = 2
  MaxBanner = 1
SPECIFICATION SysSpec
INVARIANTS
  ScreenShowsText
  CallerKept
PROPERTIES
  GetlineReturnsTheLine
  SyscallsReturn
CHECK_DEADLOCK FALSE
