SPECIFICATION FairSpec
CONSTANTS
  Expected = 2
  Longshots = {TRUE, FALSE}
  MsgEnabled = {TRUE, FALSE}
  MaxPictures = 2
  MaxOthers = 1
INVARIANTS TypeOK NoCallbackStranded NothingLeftAfterExit
PROPERTIES WaitsEnd
CHECK_DEADLOCK FALSE
