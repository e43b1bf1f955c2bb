CONSTANTS
  Ids = {1, 2, 3}
  Callbacks = {close1, close2}
  Timeouts = {1, 2}
  TicksPerMs = 2
  Horizon = 4
SPECIFICATION Spec
INVARIANTS
  RefConsistent
PROPERTIES
  ImplementsTimerMap
  EveryTimerFires
