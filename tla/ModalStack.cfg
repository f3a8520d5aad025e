SPECIFICATION Spec
CONSTANTS
    Owners = {dialog, group}
    Widgets = {entry}
    Destroyable = {dialog, entry}
    Nobody = Nobody
    MaxDepth = 3
    dialog = dialog
    group = group
    entry = entry
INVARIANTS GrabFollowsStack RecordsSound
PROPERTIES EmptyStackRestoresFocus
SYMMETRY Symmetry
