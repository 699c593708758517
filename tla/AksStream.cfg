SPECIFICATION FairSpec
CONSTANTS
  MaxStart = 1
  MaxSize = 3
  LaBlock = 2
  NULL = NULL
  MaxLength = 3
  MaxCount = 3
  Block = 2
INVARIANTS
  TypeOK
  Aligned
  CauseReported
  NothingPending
  NoGap
  Disarmed
PROPERTY OperationsEnd
