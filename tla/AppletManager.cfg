SPECIFICATION Spec
CONSTANTS
    top = top
    left = left
    clock = clock
    chat = chat
    mail = mail
    MaxMonitors = 2
    Edges = {top, left}
    InitialPanels <- MCPanels
    Slots = {1, 2}
    UuidOf <- MCUuidOf
    Fault <- MCFault
    MultiInstance = {clock}
    InitialApplets <- MCApplets
    MaxChanges = 3
INVARIANTS PanelsAsEnabled PlacesSound AppletsOnPanels NoAppletForgotten
PROPERTIES ConfigKept EnabledGetsShown
CHECK_DEADLOCK FALSE
