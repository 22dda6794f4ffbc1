CONSTANTS
    AlarmTypes = {"Fire", "Sensor"}
    QueueDepth = 1
    MinInterval = 0
    ClockMod = 1
    MaxClock = 1
SPECIFICATION FairSpec
INVARIANTS OneMailPerFlag MailShowsItsAlarm
PROPERTIES FireContract SensorContract
