SPECIFICATION Spec
CONSTANTS
    Words <- MCWords
    Base <- MCBase
    Backups = {".rm.shield-real"}
    Dangerous <- MCDangerous
    Destructive = {"rm", "kill"}
    Known = {"rm", "kill", "ls", "env", "sudo", "command", "eval", "xargs", "sh", "python"}
    Interpreters = {"python"}
    PathWords = {"/bin/rm", "/etc/x", "./y"}
    Sensitive = {"/etc/x"}
    System = {"/bin/rm", "/etc/x"}
    Rules <- MCRules
    Escalated = {"kill"}
    AutoApproveRead = FALSE
    Calls <- MCCalls
    Threshold = 30
    PipeSize = 0
    MaxMessages = 2
INVARIANTS
    TypeOK
    InOrder
    
PROPERTIES
    ImplementsGuard
    AllRead
    Answered
    Ends
CHECK_DEADLOCK FALSE
