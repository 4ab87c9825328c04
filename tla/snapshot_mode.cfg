SPECIFICATION Spec
CONSTANTS
  Expected = 1
  Longshots = {FALSE}
  MsgEnabled = {TRUE}
  MaxPictures = 2
  MaxOthers = 0
INVARIANTS SnapshotModeFollows
CHECK_DEADLOCK FALSE
