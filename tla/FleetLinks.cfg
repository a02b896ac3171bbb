CONSTANTS
    Clients = {c1, c2}
    Restore = Restore
    NumPanels = 2
    MaxRequests = 2
    MaxLinks = 3
    MaxReports = 1
SPECIFICATION Spec
SYMMETRY Symmetry
INVARIANTS
    TypeOK
    NothingStranded
    SomethingSelected
    LinkedIsWanted
PROPERTIES
    OneOwner
\* every request made and answered: nothing is left to happen
CHECK_DEADLOCK FALSE
