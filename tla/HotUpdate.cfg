CONSTANTS
    v1 = v1
    v2 = v2
    Vendors <- MCVendors
    Catalogue <- MCCatalogue
    MaxDrops = 2
    MaxMishaps = 2
SPECIFICATION FairSpec
INVARIANTS
    TypeOK
    ConfirmedIsStored
    CleanRunCompletes
PROPERTIES
    SessionEnds
\* a session ends, and its panel falls silent
CHECK_DEADLOCK FALSE
