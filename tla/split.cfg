CONSTANTS
  Items <- Places
  Parent <- Tree
  Top = "top"
  Stage = "stage"
  Key <- Keys
  Metadata = {"m"}
  ExcludeMetadata = TRUE
  Selections <- Lists
  Destinations = {"o", "e"}
  InitialTrees <- First
  NewKinds = {"file", "dir"}
  MaxSize = 1
  MaxChanges = 2
  InitialSizes <- Sizes
  SplitRequests <- ToSplit
  SplitSize = 2
  MaxVolumes = 3
  StrayChoices <- Some
  MaxDeletions = 1
SPECIFICATION SplitSpec
INVARIANTS SplitTypeOK ArchivesAll ArchivesOnly JoinsWhole
CHECK_DEADLOCK FALSE
