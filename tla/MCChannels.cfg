CONSTANTS
    NChunks = 2
    QueueDepth = 1
    MaxSessions = 2
    LinkMayDrop = TRUE
    FlashMayFail = TRUE
    MaxPosts = 2
SPECIFICATION CSpec
INVARIANTS CTypeOK OkIsBootable CompleteIsInstalled
PROPERTY RunsWhatWasAccepted
CHECK_DEADLOCK FALSE
