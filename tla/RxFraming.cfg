CONSTANTS
    Scripts <- MCScripts
    Base = 256
    MaxFrame = 18
SPECIFICATION RxSpec
INVARIANTS
    RxTypeOK
    SentIsRead
    WaitBounded
