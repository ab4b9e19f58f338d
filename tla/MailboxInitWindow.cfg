SPECIFICATION FairSpec
CONSTANTS
  LogSizes <- MCLogSizes
  MaxTriggers = 1
  InWindow = TRUE
PROPERTIES
  InitEnds
CHECK_DEADLOCK FALSE
