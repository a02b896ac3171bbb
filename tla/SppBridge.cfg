CONSTANTS
    Procs = {p1, p2}
    None = None
    Spoilt = Spoilt
    RxCap = 1
    OutCap = 1
    InCap = 2
    MaxEvents = 4
SPECIFICATION Spec
SYMMETRY Symmetry
INVARIANTS
    TypeOK
    FramesInOrder
    GoodbyeIsLast
\* every bridge used up, every frame sent: nothing is left to happen
CHECK_DEADLOCK FALSE
