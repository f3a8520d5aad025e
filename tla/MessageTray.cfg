SPECIFICATION FairSpec
CONSTANTS
    Notifications = {a, b, t}
    Transient = {t}
    Urgencies = {1, 3}
    Nothing = Nothing
    a = a
    b = b
    t = t
INVARIANTS QueueSound CurrentMatchesState ShownHasTimer NothingLost
PROPERTIES BusyShowsOnlyCritical CriticalStays ScreenClears
