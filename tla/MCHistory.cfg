SPECIFICATION ASpec
CONSTANTS
    Depth = 2
    Temps = {t1}
    NoTemp = NoTemp
    AlarmFlags = {}
    MailFlags = {"EmailSent"}
    Cap = 17
    HeadLen = 2
    TailLen = 1
    RecordLen = 1
    TempLen = 3
    NullLen = 2
INVARIANTS
    FlagsMatchTemperatures
    ApiTellsAll
PROPERTY
    HistoryIsKept
