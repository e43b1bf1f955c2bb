SPECIFICATION Spec
CONSTANTS
  Writers = {w1, w2}
  Capacity = 2
  MAX_LINES = 2
  MaxLines = 5
  MaxDay = 2
INVARIANTS
  WrittenOnce
  OnlyDirectOvertakes
  PushNeverWaits
  FileOfToday
PROPERTIES
  EveryLineWritten
  DestructorReturns
CHECK_DEADLOCK FALSE
