SPECIFICATION FairSpec
CONSTANTS
  Watchers = {wint, wterm}
  Handlers = {h1, h2}
  Signals = {INT, TERM}
  SIGINT = INT
  SIGTERM = TERM
  IntWatcher = wint
  TermWatcher = wterm
  State = State
  NULL = NULL
  NoSignal = NoSignal
PROPERTY StopStops
