SPECIFICATION SafeSpec
CONSTANTS
    Execs = {e1, e2}
    Exempt = {}
    Risky = {e1}
    PauseLengths = {1, 2}
    Faults = {}
    MaxClock = 3
    MaxSignals = 0
    MaxRestarts = 0
INVARIANTS
    PauseHonoured
CHECK_DEADLOCK FALSE
