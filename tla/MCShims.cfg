SPECIFICATION Spec
CONSTANTS
    d1 = d1
    d2 = d2
    d3 = d3
    Dirs = {d1, d2, d3}
    NoDir = NoDir
    Rank <- SearchOrder
    Standard = {d1, d2}
    LocalBin = d2
    Protected = {d1}
    Linked = {d3}
    Platforms = {"linux", "darwin", "windows"}
    MaxVersion = 2
INVARIANTS
    ProgramKept
    ShimRuns
    InstallCovers
    DoctorFixes
    WrapperAsksOnce
    SoleCopyRestored
CHECK_DEADLOCK FALSE
