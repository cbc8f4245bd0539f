CONSTANT MaxRequests = 2
SPECIFICATION ChatSpec
INVARIANTS ChatInv WaitingCanBeStopped
PROPERTIES StableAfterLoadUnraced RepliesSettle
CHECK_DEADLOCK FALSE
