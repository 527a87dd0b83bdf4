SPECIFICATION SpecPostsFirst
CONSTANTS
    a = a
    b = b
    c = c
    r1 = r1
    r2 = r2
    r3 = r3
    e1 = e1
    Tasks = {a, b, c}
    Runs = {r1, r2}
    Editors = {}
    Keep = Keep
    NoTask = NoTask
    NoEdit = NoEdit
    PoolSize = 2
    Creations <- Posts
    Patches = {}
    MaxFaults = 0
    MaxCrashes = 0
SYMMETRY Interchangeable
CHECK_DEADLOCK FALSE
INVARIANT BlockedHasOpenParent
