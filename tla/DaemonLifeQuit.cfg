CONSTANTS
    Daemons = {d1, d2}
    Gui = gui
    Others = {mcp}
    Knows = {gui, mcp}
    Inodes = {i1, i2, i3}
    None = None
    MaxCalls = 0
    MaxMishaps = 0
    MaxSweeps = 0
SPECIFICATION FairSpec
PROPERTIES
    FollowsDown
\* the window closed and every daemon gone: nothing is left to happen
CHECK_DEADLOCK FALSE
