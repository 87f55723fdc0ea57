SPECIFICATION FairSpec
CONSTANTS
  Null = Null
  Names <- MCNames
  MaxText = 2
  TraceTexts <- MCTraces
  STR_BUFSIZE = 2
  TRACE_STR_BUFSIZE = 4
  NDEBUG = FALSE
INVARIANTS
  TypeOK
PROPERTIES
  LineSpec
  LogReturns
