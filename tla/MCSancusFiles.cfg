SPECIFICATION FairSpec
CONSTANTS
  Fds = {0, 1, 2, 3}
  NoFd = NoFd
  Limits = {2, 4}
  Systems <- Kinds
INVARIANTS
  TypeOK
  NothingLeaks
  FlagsAsAsked
  FailsForACause
PROPERTIES
  CloseReleases
  Sanitized
  CallsReturn
