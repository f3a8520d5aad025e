SPECIFICATION SpecExpo
CONSTANTS
    Owners = {group, dialog, expo1, expo2}
    Widgets = {}
    Destroyable = {expo1, expo2}
    Groups = {expo1, expo2}
    Nobody = Nobody
    Group = group
    MaxDepth = 3
    group = group
    dialog = dialog
    expo1 = expo1
    expo2 = expo2
INVARIANTS BothAtRestAsAsked GrabsAreKnown SharedStateBalanced
PROPERTIES RequestsHonoured
