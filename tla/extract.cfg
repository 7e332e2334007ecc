CONSTANTS
  Archives = 2
  Split = {2}
  NoFile = NoFile
  Components <- Names
  DriveLike = {"c:"}
  MaxDepth = 4
  MaxOperations = 3
  MaxReplacements = 1
  InitialContents <- First
  Replacements <- Others
SPECIFICATION FairSpec
INVARIANTS TypeOK MatchesChecks NothingUnsafe BatchInOrder CleansUp
PROPERTIES CancelEndsBatch
CHECK_DEADLOCK FALSE
