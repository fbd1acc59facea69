SPECIFICATION Spec
CONSTANTS
    Execs = {e1, e2}
    Exempt = {e2}
    Risky = {e1}
    PauseLengths = {1}
    Faults = {"thread", "malloc"}
    MaxClock = 0
    MaxSignals = 2
    MaxRestarts = 1
PROPERTIES
    EveryExecAnswered
CHECK_DEADLOCK FALSE
