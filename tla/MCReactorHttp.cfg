CONSTANTS
  Conns = {c1, c2}
  NoConn = NoConn
  Fds = {5, 6}
  NoFd = NoFd
  Workers = {w1}
  Main = Main
  MaxUsers = 1
  MaxPieces = 4
  FileUnits = 2
  Threshold = 1
  Configs <- HttpConfigs
SPECIFICATION Spec
INVARIANTS
  NoCrosstalk
  NoOverwrite
SYMMETRY Symmetry
CHECK_DEADLOCK FALSE
