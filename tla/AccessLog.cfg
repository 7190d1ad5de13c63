CONSTANTS
    Workers = {t1, t2}
    Requests = {r1, r2}
    MaxSteps = 1
    LineParts = 1
    Faults = {"format", "error", "panic", "stderr"}
    LogInternalErrors = TRUE
    LogsHoldingStderr = FALSE
    None = None
SPECIFICATION FairSpec
INVARIANTS
    TypeOK
    OneAccessLine
    RecordIsAccountedFor
    AbortTakesTwoPanics
PROPERTIES
    EveryRequestEnds
