SPECIFICATION FairSpec
CONSTANTS
  Ports = {p1, p2}
  Conns = {c1}
  InetAddrs = {inet}
  LocalPaths = {path}
  NoAddr = NoAddr
  Fds = {3, 4, 5, 6}
  NoFd = NoFd
  NoWatcher = NoWatcher
  MaxQueue = 1
  ClosesRunningPorts = FALSE
  ReinitsWithConnections = FALSE
PROPERTY WaitingIsAccepted
