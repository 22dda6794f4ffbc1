SPECIFICATION FairSpec
CONSTANTS
    Tests = {"tone", "fire"}
    ToneMs = 1
    MelodyMs = 1
    TestMs = 1
    BurstMs = 2
    PeriodMs = 2
    ClockMod = 4
    LagMs = 1
    BeeperMayToggle = TRUE
INVARIANTS
    TypeOK
    FireTakesOver
PROPERTIES
    
    SirenRecurs
    SirenStops
