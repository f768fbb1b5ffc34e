\* A transfer is resumed after the cleaner removed its oldest rows.
CONSTANTS
  Run = {1, 2}
  Listing <- OneFile
  Size <- Sizes
  Include <- OneFile
  Exclude = {}
  MinSize = 1
  MaxSize = 9
  Marker = {"skip"}
  Before <- Nowhere
  PartSize <- TwoUnits
  Encrypted <- Plain
  Mirror <- Mirroring
  MaxAttempts = 2
  PageCap = 3
  Liberty = {"stale"}
SPECIFICATION Spec
INVARIANT TransferredWhole
CHECK_DEADLOCK FALSE
