SPECIFICATION Spec
CONSTANTS
    secret = secret
    key = key
    note = note
    saved = saved
    Opens = {secret, key, note}
    Closes = {saved}
    Own = Own
    Guarded = {secret, key, saved}
    OwnOpens = TRUE
    MaxPolls = 1
    MaxQueue = 2
    MaxRestarts = 1
INVARIANTS
    TypeOK
    NoUnclearedOpen
PROPERTIES
    ImplementsGuard
    EveryOpenAnswered
CHECK_DEADLOCK FALSE
