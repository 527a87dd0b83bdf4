SPECIFICATION Spec
CONSTANTS
    ShortWindow = 2
    LongWindow = 3
    WalkForwardBars = 3
    Cheap = 95
    InitialCash = 2400
    Lot = 1000
    Scores <- const_Scores
    Requests <- const_Requests
    Closes = {80, 100, 120}
    MaxBars = 8
    DefaultBudget = 10
    ChunkSize = 2
    MaxItems = 2
    Estimates = {1, 2, 3, 5}
    Budgets = {0, 1, 2, 5, 20}
    MaxMemories = 5
    MaxProfiles = 2
INVARIANTS NoLookAhead BadgeIsEarned ContextFits ProfilesAgree
CHECK_DEADLOCK FALSE
