SPECIFICATION FairSpec
CONSTANTS
    a = a
    b = b
    c = c
    r1 = r1
    r2 = r2
    r3 = r3
    e1 = e1
    Tasks = {a, b}
    Runs = {r1, r2, r3}
    Editors = {}
    Keep = Keep
    NoTask = NoTask
    NoEdit = NoEdit
    PoolSize = 2
    Creations <- Family
    Patches = {}
    MaxFaults = 1
    MaxCrashes = 1
INVARIANTS VerdictAgrees
PROPERTIES RunsEnd InProgressEnds
CHECK_DEADLOCK FALSE
