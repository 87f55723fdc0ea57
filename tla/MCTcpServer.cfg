SPECIFICATION Spec
CONSTANTS
  Ports = {p1, p2}
  Conns = {c1, c2}
  InetAddrs = {inet}
  LocalPaths = {path, other}
  NoAddr = NoAddr
  Fds = {3, 4, 5}
  NoFd = NoFd
  NoWatcher = NoWatcher
  MaxQueue = 1
  ClosesRunningPorts = FALSE
  ReinitsWithConnections = FALSE
SYMMETRY Symmetry
INVARIANTS
  TypeOK
  FdAccounting
  KindsMatch
  NoEventLost
  ActiveIffServed
  ConnectCallbackAssert
  ReadCallbackAssert
  NeverBlocks
PROPERTIES
  OnlyServedPortsAccept
  LocalPortsReached
  OwnershipSpec
