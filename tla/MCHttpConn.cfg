CONSTANTS
  Nul = Nul
  StackSize = 20
  FileUnits = 2
  Methods = {"GET", "POST"}
  Paths = {"/", "/login", "/picture"}
  Streams <- MCStreams
  MaxArrivals = 2
  ReadSize = 8
  WriteSize = 2
  Threshold = 1
  Modes = {TRUE, FALSE}
  Garbage = {0, 2}
SPECIFICATION Spec
INVARIANTS
  InOrder
  WholeRequestUnderstood
  ResponseIntact
PROPERTIES
  ClosesInTime
CHECK_DEADLOCK FALSE
