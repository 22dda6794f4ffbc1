CONSTANTS
    AlarmTypes = {"Fire"}
    QueueDepth = 2
    MinInterval = 2
    ClockMod = 3
    MaxClock = 4
SPECIFICATION HSpec
PROPERTY RateLimitUnlessRaced
