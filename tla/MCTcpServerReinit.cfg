SPECIFICATION Spec
CONSTANTS
  Ports = {p1, p2}
  Conns = {c1, c2}
  InetAddrs = {inet}
  LocalPaths = {path}
  NoAddr = NoAddr
  Fds = {3, 4, 5}
  NoFd = NoFd
  NoWatcher = NoWatcher
  MaxQueue = 1
  ClosesRunningPorts = FALSE
  ReinitsWithConnections = TRUE
SYMMETRY Symmetry
INVARIANT ReadCallbackAssert
