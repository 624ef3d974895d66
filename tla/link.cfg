SPECIFICATION FairSpec
CONSTANTS
  MaxFlaps = 3
  MaxNaks = 1
  MAX_RETRY_COUNT = 3
INVARIANT TypeOK
PROPERTIES LinkFollows ServiceComes
CHECK_DEADLOCK FALSE
