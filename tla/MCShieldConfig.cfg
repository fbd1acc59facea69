SPECIFICATION Spec
CONSTANTS
    p1 = p1
    Cmds = {c1, c2}
    Kinds = {"setup", "login", "logout", "pause", "enable", "install", "uninstall", "doctor"}
    Shims = {s1, s2}
    Risky = {s1}
    Listed = {p1}
    NoPath = NoPath
    Root = {c1, c2, s1, s2}
    PauseLength = 1
    MayFail = {s2}
    MaxClock = 1
    MaxKills = 1
    Target <- SharedTarget
INVARIANTS
    FileSound
    RiskyAdmitted
    UnlockedAccounted
SYMMETRY Symmetry
CHECK_DEADLOCK FALSE
