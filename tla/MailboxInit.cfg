SPECIFICATION FairSpec
CONSTANTS
  LogSizes <- MCLogSizes
  MaxTriggers = 1
  InWindow = FALSE
INVARIANTS
  TypeOK
  RingsAgreed
  NeverWaitsBesideAnItem
PROPERTIES
  InitEnds
CHECK_DEADLOCK FALSE
