CONSTANTS
    FireThrs = {2, 4}
    FireHysts = {1, 3}
    Contrasts = {0, 1}
    Defaults <- MCDefaults
    OpenMayFail = TRUE
    PutMayFail = TRUE
SPECIFICATION PSpec
INVARIANTS ValidInUse KeptIsStored MessageIsTrue
PROPERTIES BootRestoresSaved ReloadShowsSaved
