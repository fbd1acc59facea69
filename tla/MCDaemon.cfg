SPECIFICATION Spec
CONSTANTS
    Conns = {h1, h2}
    PauseLengths = {1}
    Backlog = 0
    Workers = {w}
    MaxClock = 1
    MaxSignals = 1
    MaxEvents = 1
INVARIANTS
    StopNeedsConsent
    MonitorFollows
    ConfigFollows
SYMMETRY Symmetry
CHECK_DEADLOCK FALSE
