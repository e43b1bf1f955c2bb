CONSTANTS
  Producers = {p1, p2}
  Tasks = {t1, t2}
  NoTask = NoTask
  minNum = 1
  maxNum = 2
  NUMBER = 2
  Garbage = {0, 1}
SPECIFICATION Spec
INVARIANTS
  NoStrandedTask
  DestroyedWhenAllGone
PROPERTIES
  ImplementsTaskPool
  DestructorReturns
CHECK_DEADLOCK FALSE
