SPECIFICATION FairSpec
CONSTANT MaxUnread = 3
INVARIANTS TypeOK CallerWakes CallbacksSound EndIsLast
PROPERTY CallsReturn
CHECK_DEADLOCK FALSE
