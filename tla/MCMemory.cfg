SPECIFICATION Spec
CONSTANTS
    c1 = c1
    c2 = c2
    i1 = i1
    i2 = i2
    ofSymbol = ofSymbol
    ofNone = ofNone
    short = short
    long = long
    other = other
    Clients = {c1, c2}
    Ids = {i1, i2}
    Topics = {ofSymbol, ofNone}
    Contents = {short, long, other}
    Keywords = {1, 2, 3, 4, 5, 6, 7}
    Words <- WordsOf
    Requests <- SomeWrites
    Queries <- SomeQueries
    Forever = Forever
    Unwritten = Unwritten
    Swept = Swept
    NoId = NoId
    NoRequest = NoRequest
    MaxResults = 1
    MaxScanned = 1
    MaxClock = 2
    MaxRestarts = 1
VIEW AllButPromised
SYMMETRY Interchangeable
INVARIANTS TypeOK IndexedOnceWritten GhostsHaveExpired KeywordsAgree NoDuplicatesWhenApart ContextFindsWritten
