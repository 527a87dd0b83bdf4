SPECIFICATION Spec
CONSTANTS
    c1 = c1
    c2 = c2
    c3 = c3
    run1 = run1
    run2 = run2
    Calls = {c1, c2}
    Runs = {run1}
    NoRun = NoRun
    Modes = {"manual"}
    Signals = {"BUY"}
    UsesFundamentals = FALSE
    MaxKills = 0
INVARIANT RetrySucceeds
CHECK_DEADLOCK FALSE
