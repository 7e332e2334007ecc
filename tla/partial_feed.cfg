CONSTANTS
  Count = 1
  MaxAttempts = 2
SPECIFICATION Spec
INVARIANT OpensWholeFeed
CHECK_DEADLOCK FALSE
