SPECIFICATION FairSpec
CONSTANTS
    ReconnectMin = 1
    ReconnectMax = 5
    AssocTime = 3
    SamplePeriod = 6
    Burst = 1
    LagMs = 1
    ClockMod = 9
INVARIANTS
    AttemptInTime
    FoundByScan
PROPERTY
    WebComesBack
