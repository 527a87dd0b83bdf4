SPECIFICATION FairSpec
CONSTANTS
    p1 = p1
    h1 = h1
    h2 = h2
    h3 = h3
    Approvals = {p1}
    Handlers = {h1, h2, h3}
    List = List
    NoRequest = NoRequest
    Never = Never
    Expiries <- Deadlines
    MaxTime = 1
INVARIANTS TypeOK DecidedInTime LateIsRefused FreshView
PROPERTY SweepExpires
CHECK_DEADLOCK FALSE
