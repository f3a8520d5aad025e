SPECIFICATION PanelsSpec
CONSTANTS
    MaxMonitors = 2
    top = top
    left = left
    Edges = {top, left}
    InitialPanels <- MCPanels
INVARIANT MissingMonitorIsTemporary
