CONSTANTS
    Agents = {a1, a2}
    a1 = a1
    a2 = a2
    Session = Session
    None = None
    Closed = Closed
    MaxLinks = 2
    TTL = 1
    MaxRenewals = 1
SPECIFICATION FairSpec
INVARIANTS
    TypeOK
    OldLinksRetired
    NothingStranded
    HoldAccountedFor
    LeaseHoldsItsLink
PROPERTIES
    LeaseEnds
CHECK_DEADLOCK FALSE
