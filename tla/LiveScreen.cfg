CONSTANTS
    c1 = c1
    c2 = c2
    Calls = {c1, c2}
    TokenOf <- UserAndHolder
    Holder = Holder
    Session = Session
    NoToken = NoToken
    Nothing = Nothing
    Channel = Channel
    MaxJobs = 1
    MaxFrames = 2
SPECIFICATION Spec
INVARIANTS
    TypeOK
    RepaintIsNewest
PROPERTIES
    UserImageStays
    NewerImageStays
CHECK_DEADLOCK FALSE
