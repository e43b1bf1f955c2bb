CONSTANTS
  Ids = {1, 2}
  Callbacks = {close}
  Timeouts = {2}
  TicksPerMs = 2
  Horizon = 8
SPECIFICATION Spec
PROPERTIES
  TickRemovesTimedOut
