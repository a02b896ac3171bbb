CONSTANTS
    Procs = {p1}
    None = None
    Spoilt = Spoilt
    RxCap = 1
    OutCap = 1
    InCap = 2
    MaxEvents = 3
SPECIFICATION FairSpec
PROPERTIES
    HangUpCloses
CHECK_DEADLOCK FALSE
