CONSTANTS
    NChunks = 4
    QueueDepth = 2
    MaxSessions = 4
    LinkMayDrop = TRUE
    FlashMayFail = TRUE
SPECIFICATION FairSpec
INVARIANTS ActiveHandleIsOpen OneUploadInFlash BootsWholeImage OnlyFullQueueLeaks
PROPERTY HostUnblocks
CHECK_DEADLOCK FALSE
