SPECIFICATION Spec
CONSTANTS
  c1 = c1
  c2 = c2
  Clients = {c1, c2}
  Calls <- SharedCalls
  Faults = TRUE
  RawPicture = FALSE
  DefaultZsl = FALSE
  MaxLive = 1
  PreviewRestartEnabled = FALSE
  RetroSnapshots = FALSE
  FlashNeeded = TRUE
  DaemonMayDie = FALSE
  MaxQueue = 1
  MaxEvts = 1
  MaxResults = 1
  MaxJobs = 1
INVARIANTS AnswersMatchCalls
SYMMETRY CallerSymmetry
CHECK_DEADLOCK FALSE
