CONSTANTS
    Tasks = {k1, k2}
    Transports = {t1, t2}
    None = None
    SendTries = 2
    EnsureTries = 2
    MaxOps = 3
    MaxDrops = 1
SPECIFICATION Spec
SYMMETRY Symmetry
INVARIANTS
    TypeOK
    LinkOwned
    NobodyStuck
\* every operation begun and ended: nothing is left to happen
CHECK_DEADLOCK FALSE
