SPECIFICATION FairSpec
CONSTANTS
    j1 = j1
    j2 = j2
    a = a
    b = b
    Jobs <- TwoJobs
    Tokens <- TwoTokens
    NoToken = NoToken
    NoJob = NoJob
    ExclusiveTimeout = 1
    ItemTimeout = 2
INVARIANTS
    TypeOK
    SlotAgrees
    ParkedForAReason
    StopDropsAll
PROPERTIES
    NeverStartsLate
    LeaseNeverReaped
    ImplementsSerialQueue
    EveryItemResolved
\* every job done and the queue stopped: nothing is left to happen
CHECK_DEADLOCK FALSE
