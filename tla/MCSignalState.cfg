SPECIFICATION Spec
CONSTANTS
  Watchers = {wint, wterm, w1}
  Handlers = {h1, h2}
  Signals = {INT, TERM}
  SIGINT = INT
  SIGTERM = TERM
  IntWatcher = wint
  TermWatcher = wterm
  State = State
  NULL = NULL
  NoSignal = NoSignal
SYMMETRY Symmetry
INVARIANTS
  TypeOK
  HandlersAreHooked
  CursorInRing
  ListedAreActive
  OneWatcherPerSignal
PROPERTIES
  EachHandlerOnce
  StateCloseClosesAll
