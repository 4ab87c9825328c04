SPECIFICATION StackSpec
CONSTANTS
    Threads = {"t1", "t2", "t3"}
    Slots = {1}
    Overlap = FALSE
    MaxOpens = 2
    MaxChannels = 2
    MaxRefs = 2
    Buffers = {"b1", "b2"}
    InitiallyHeld = {"b2"}
    MaxPipe = 7
    Requesters = {"t1", "t2"}
    Callbacks = {"c1", "c2"}
    MaxRequests = 3
INVARIANTS PollingFollows StreamSound InterfaceSound ChannelSound AnswersAreOwn
PROPERTIES BlockingCallsReturn
CHECK_DEADLOCK FALSE
