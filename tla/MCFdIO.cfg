SPECIFICATION FairSpec
CONSTANTS
  MaxVecs = 3
  MaxLen = 3
  EmptyTail = FALSE
INVARIANTS
  TypeOK
  RestIsUnsent
PROPERTIES
  TransmissionSpec
  Returns
