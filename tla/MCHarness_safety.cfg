SPECIFICATION Spec
CONSTANTS
    a = a
    b = b
    c = c
    r1 = r1
    r2 = r2
    r3 = r3
    e1 = e1
    Tasks = {a, b, c}
    Runs = {r1, r2}
    Editors = {e1}
    Keep = Keep
    NoTask = NoTask
    NoEdit = NoEdit
    PoolSize = 1
    Creations <- Posts
    Patches <- Requests
    MaxFaults = 1
    MaxCrashes = 1
SYMMETRY Interchangeable
INVARIANTS TypeOK NoDependencySkipped InProgressHasRun
CHECK_DEADLOCK FALSE
PROPERTY ImplementsGraph
