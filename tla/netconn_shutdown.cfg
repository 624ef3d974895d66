SPECIFICATION FairSpec
CONSTANT MaxUnread = 1
PROPERTY EveryCallReturns
CHECK_DEADLOCK FALSE
