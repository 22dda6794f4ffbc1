CONSTANTS
    AlarmTypes = {"Fire"}
    QueueDepth = 1
    MinInterval = 2
    ClockMod = 16
    MaxClock = 3
SPECIFICATION HSpec
PROPERTY RetriesAfterQueueFull
