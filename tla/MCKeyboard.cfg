CONSTANTS
  Events <- MCEvents
  Keys <- MCKeys
  MaxEvents = 3
  Set1 <- MCSet1
  AnswersInterrupt = FALSE
SPECIFICATION Spec
INVARIANTS
  FramingKept
  CharsMatchKeys
  WaitEndsWithFreshKey
PROPERTIES
  BytesAreRead
  CallsReturn
CHECK_DEADLOCK FALSE
