SPECIFICATION Spec
CONSTANTS
    p1 = p1
    Cmds = {c1, c2}
    Kinds = {"login", "pause"}
    Shims = {}
    Risky = {}
    Listed = {p1}
    NoPath = NoPath
    Root = {c1, c2}
    PauseLength = 2
    MayFail = {}
    MaxClock = 2
    MaxKills = 0
    Target <- SharedTarget
INVARIANTS
    PauseKept
CHECK_DEADLOCK FALSE
