SPECIFICATION Spec
CONSTANTS
    Schemas <- MCSchemas
    NoFile = NoFile
    Off = Off
    Closed = Closed
    Idle = Idle
PROPERTIES
    UpgradeKeepsValues
