SPECIFICATION SafeSpec
CONSTANTS
    Execs = {e1, e2}
    Exempt = {}
    Risky = {e1}
    PauseLengths = {1}
    Faults = {"thread", "malloc", "read", "curl"}
    MaxClock = 2
    MaxSignals = 2
    MaxRestarts = 1
INVARIANTS
    NoUnclearedExec
    StopNeedsApproval
CHECK_DEADLOCK FALSE
