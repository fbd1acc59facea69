SPECIFICATION Spec
CONSTANTS
    root = root
    user = user
    own = own
    rm = rm
    bashrc = bashrc
    claude = claude
    Services = {execmon}
    MaxDirect = 1
    Homes = {root, user}
    NoHome = NoHome
    Paths = {own}
    DefaultPaths <- ListOf
    Callers = {rm, bashrc, claude}
    KindOf <- Kinds
    HomeOf <- Places
INVARIANTS
    
    UninstallComplete
    NoDeadCaller
    BootstrapIdle
CHECK_DEADLOCK FALSE
