SPECIFICATION Spec
CONSTANTS
    Windows = {main, child, orphan}
    Dialogs = {child, orphan}
    Sticky = {main}
    Fickle = {child}
    Pid <- MCPid
    Ids = {viewer}
    Declaring = {viewer}
    Pool = {m1, c1, o1, v1, v2}
    MadeFor <- MCMadeFor
    MaxSequences = 2
    None = None
    main = main
    child = child
    orphan = orphan
    viewer = viewer
    m1 = m1
    c1 = c1
    o1 = o1
    v1 = v1
    v2 = v2
INVARIANTS
    BooksBalance
    OneApp
PROPERTIES
    StartingEnds
