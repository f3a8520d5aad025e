SPECIFICATION LoaderSpec
CONSTANTS
    Uuids = {clock, menu}
    Unreliable = {menu}
    MaxLoads = 2
    clock = clock
    menu = menu
INVARIANTS EnabledIsLoaded ListsSound
PROPERTIES EnabledGetsActive
