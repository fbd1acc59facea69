SPECIFICATION Spec
CONSTANTS
    Requests = {r1}
    MinInterval = 2
    DefaultInterval = 3
    MinExpiry = 4
    DefaultExpiry = 6
    HttpTimeout = 2
    OfferedIntervals = {1, 2}
    OfferedExpiries = {3, 4}
    LongestInterval = 3
    LongestExpiry = 6
INVARIANTS
    ResultIsVerdict
    BoundedWait
    PromptApprovalHonoured
PROPERTY
    ImplementsDecision
CHECK_DEADLOCK FALSE
