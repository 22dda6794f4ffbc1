CONSTANTS
    Averages <- MCAverages
    SeqMod = 2
SPECIFICATION Spec
INVARIANTS ScreenShowsLast MonitorReads ReadersAgree
