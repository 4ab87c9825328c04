SPECIFICATION Spec
CONSTANTS
  c1 = c1
  c2 = c2
  Clients = {c1}
  Calls <- VideoCalls
  Faults = TRUE
  RawPicture = FALSE
  DefaultZsl = TRUE
  MaxLive = 1
  PreviewRestartEnabled = FALSE
  RetroSnapshots = TRUE
  FlashNeeded = FALSE
  DaemonMayDie = TRUE
  MaxQueue = 1
  MaxEvts = 1
  MaxResults = 1
  MaxJobs = 1
INVARIANTS VideoIffRecording
CHECK_DEADLOCK FALSE
