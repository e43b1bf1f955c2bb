CONSTANTS
  Producers = {p1, p2}
  Tasks = {t1, t2, t3}
  NoTask = NoTask
  minNum = 1
  maxNum = 3
  queueCapacity = 2
  NUM = 2
SPECIFICATION Spec
INVARIANTS
  NoStrandedTask
  NoStrandedProducer
  ThreadsAccounted
PROPERTIES
  ImplementsTaskPool
SYMMETRY Symmetry
CHECK_DEADLOCK FALSE
