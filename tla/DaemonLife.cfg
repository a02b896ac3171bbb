CONSTANTS
    Daemons = {d1, d2}
    Gui = gui
    Others = {mcp}
    Knows = {gui, mcp}
    Inodes = {i1, i2, i3}
    None = None
    MaxCalls = 1
    MaxMishaps = 1
    MaxSweeps = 1
SPECIFICATION FairSpec
INVARIANTS
    TypeOK
    OneDaemon
PROPERTIES
    NotStolen
    Recovers
\* the window closed and every daemon gone: nothing is left to happen
CHECK_DEADLOCK FALSE
