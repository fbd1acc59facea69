SPECIFICATION HooksSpec
CONSTANTS
    root = root
    user = user
    bashrc = bashrc
    rootrc = rootrc
    wslrc = wslrc
    NoFile = NoFile
    Homes = {root, user}
    Files = {bashrc, rootrc, wslrc}
    Machines = {{bashrc, rootrc}, {bashrc, wslrc}}
    HomeOf <- FileHome
    ShellOf <- FileShell
    Diagnosed = {"bash"}
    MaxLines = 2
    MaxFaults = 2
INVARIANTS
    UserLinesKept
    AskedOnce
    InstallsOneHook
    NoDeadHook
CHECK_DEADLOCK FALSE
