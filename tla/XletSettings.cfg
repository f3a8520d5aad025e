SPECIFICATION Spec
CONSTANTS
    Schemas <- MCSchemas
    NoFile = NoFile
    Off = Off
    Closed = Closed
    Idle = Idle
INVARIANTS
    CopiesAgree
    XletKnows
PROPERTIES
    SetReachesXlet
    WindowFollows
