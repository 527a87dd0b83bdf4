SPECIFICATION Spec
CONSTANTS
    c1 = c1
    c2 = c2
    c3 = c3
    run1 = run1
    run2 = run2
    Calls = {c1, c2, c3}
    Runs = {run1}
    NoRun = NoRun
    Modes = {"manual", "paper_auto", "live_auto"}
    Signals = {"BUY", "HOLD"}
    UsesFundamentals = TRUE
    MaxKills = 1
SYMMETRY Interchangeable
INVARIANTS TypeOK OrderIsApproved LogIsTruthful OrderLeavesTrace
CHECK_DEADLOCK FALSE
