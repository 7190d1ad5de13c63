CONSTANTS
    Threads = {t1, t2, t3}
    MaxEvents = 2
    LineParts = 2
    Faults = {"format", "error", "panic", "stderr"}
    LogInternalErrors = TRUE
    None = None
SPECIFICATION Spec
INVARIANTS
    TypeOK
    LockIsExclusive
    NoInterleaving
    WrittenMeansTerminated
    NoSilentLoss
    LineStartsAfterLineOrFailure
PROPERTIES
    ImplementsNdjsonStream
SYMMETRY Symmetry
