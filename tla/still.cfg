SPECIFICATION FairSpec
CONSTANTS
  c1 = c1
  c2 = c2
  Clients = {c1}
  Calls <- StillCalls
  Faults = FALSE
  RawPicture = FALSE
  DefaultZsl = FALSE
  MaxLive = 1
  PreviewRestartEnabled = FALSE
  RetroSnapshots = FALSE
  FlashNeeded = TRUE
  DaemonMayDie = FALSE
  MaxQueue = 1
  MaxEvts = 1
  MaxResults = 2
  MaxJobs = 1
INVARIANTS TypeOK StoppedMeansStopped ReadyMeansWaiting
PROPERTIES CallsReturn QueuesSpec
CHECK_DEADLOCK FALSE
