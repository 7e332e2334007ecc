CONSTANTS
  MaxOps = 4
  MaxLoads = 3
SPECIFICATION FairSpec
INVARIANTS TypeOK OneOperation PreviewMatches NoProgressAfterCancel RevealIsTrue ProgressBounded CloseWaits
PROPERTIES SelectionFrozen BecomesIdle CloseHappens
CHECK_DEADLOCK FALSE
