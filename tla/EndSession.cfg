SPECIFICATION Spec
CONSTANTS
    MaxShows = 2
    Delays = {0, 1, 2}
    Restarts = {TRUE, FALSE}
    CloseWaits = TRUE
    None = None
INVARIANTS
    DialogSound
PROPERTIES
    ClosedAsAsked
