CONSTANTS
    Clients = {c1, c2}
    Restore = Restore
    NumPanels = 2
    MaxRequests = 1
    MaxLinks = 3
    MaxReports = 1
SPECIFICATION Spec
INVARIANTS
    StaysDropped
CHECK_DEADLOCK FALSE
