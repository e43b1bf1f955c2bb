CONSTANTS
  Workers = {w1, w2}
  Tasks = {c1, c2, c3}
  NoTask = NoTask
  MaxPieces = 1
  BufSize = 1
SPECIFICATION Spec
INVARIANTS
  NoStrandedTask
  OneHolder
PROPERTIES
  EveryClientAnswered
  ServerEnds
CHECK_DEADLOCK FALSE
