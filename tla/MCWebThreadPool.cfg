CONSTANTS
  Workers = {w1, w2, w3}
  Callers = {c1, c2}
  Tasks = {t1, t2, t3}
  NoTask = NoTask
SPECIFICATION Spec
INVARIANTS
  NoStrandedTask
  CleanShutdown
PROPERTIES
  ImplementsTaskPool
  WorkersTerminate
CHECK_DEADLOCK FALSE
