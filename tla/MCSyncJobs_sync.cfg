\* A copying run, then a mirroring one; attempts fail, crash and are cancelled.
CONSTANTS
  Run = {1, 2}
  Listing <- Found
  Size <- Sizes
  Include <- Found
  Exclude <- OnlyX
  MinSize = 0
  MaxSize = 9
  Marker = {"skip"}
  Before <- Destinations
  PartSize <- TwoUnits
  Encrypted <- Plain
  Mirror <- CopyThenSync
  MaxAttempts = 2
  PageCap = 3
  Liberty = {}
SPECIFICATION FairSpec
INVARIANTS TypeOK TransferredWhole Mirrored
PROPERTIES SourceKept RunsEnd
CHECK_DEADLOCK FALSE
