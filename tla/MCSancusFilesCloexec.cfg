SPECIFICATION Spec
CONSTANTS
  Fds = {0, 1, 2, 3}
  NoFd = NoFd
  Limits = {2, 4}
  Systems <- Kinds
INVARIANT
  CloexecAsAsked
