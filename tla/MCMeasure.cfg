SPECIFICATION Spec
CONSTANTS
    InnerReadable <- MCInner
    OuterReadable <- MCOuter
    Window = 3
    ErrThreshold = 3
    ValidMin <- MCValidMin
    ValidMax = 160
    Sentinel = 170
    VentOpen = 40
    VentClose = 41
    FireThrs = {90}
    FireHysts = {4}
    DiffThrs = {4}
    Minutes = 2
INVARIANTS
    TypeOK
    AdviceNeedsFullWindows
    AveragesArePlausible
    ErrorsShowAsFault
PROPERTY
    FireNeedsReading
