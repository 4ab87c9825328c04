SPECIFICATION Spec
CONSTANTS
  c1 = c1
  c2 = c2
  Clients = {c1}
  Calls <- ModeCalls
  Faults = FALSE
  RawPicture = FALSE
  DefaultZsl = FALSE
  MaxLive = 1
  PreviewRestartEnabled = FALSE
  RetroSnapshots = FALSE
  FlashNeeded = FALSE
  DaemonMayDie = FALSE
  MaxQueue = 1
  MaxEvts = 1
  MaxResults = 1
  MaxJobs = 1
INVARIANTS StoppedMeansStopped
CHECK_DEADLOCK FALSE
