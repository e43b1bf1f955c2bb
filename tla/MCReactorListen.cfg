CONSTANTS
  Conns = {c1, c2}
  NoConn = NoConn
  Fds = {5, 6}
  NoFd = NoFd
  Workers = {w1}
  Main = Main
  MaxUsers = 2
  MaxPieces = 2
  FileUnits = 0
  Threshold = 1
  Configs <- ListenConfigs
SPECIFICATION FairSpec
INVARIANTS
  NoStrandedBacklog
PROPERTIES
  RequestsAreRead
CHECK_DEADLOCK FALSE
