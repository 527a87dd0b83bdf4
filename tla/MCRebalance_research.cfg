SPECIFICATION SpecWatchFirst
CONSTANTS
    A = A
    B = B
    w1 = w1
    c1 = c1
    c2 = c2
    Symbols = {A, B}
    Clients = {w1, c1, c2}
    Tolerant = {w1}
    Requests <- Orders
    Openings <- HeldBefore
    Quotes = {1, 3}
    MaxRows = 3
    MaxFaults = 1
    Reports <- Decisions
    Cash = 10
    Scale = 10
    MinTrade = 1
    MaxOrders = 2
    MaxOrderAmount = 5
    MaxPosition = 4
SYMMETRY Interchangeable
INVARIANT ResearchIsDecided
CHECK_DEADLOCK FALSE
