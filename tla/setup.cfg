CONSTANTS
  Count = 2
  MaxAttempts = 2
SPECIFICATION FairSpec
INVARIANTS TypeOK OpensPrepared WorkerIsAwaited CancelTold LeavesOnlyFeed
PROPERTIES CancelWins Ends
CHECK_DEADLOCK FALSE
