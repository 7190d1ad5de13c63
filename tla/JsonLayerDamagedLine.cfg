CONSTANTS
    Threads = {t1, t2}
    MaxEvents = 1
    LineParts = 2
    Faults = {"error"}
    LogInternalErrors = TRUE
    None = None
SPECIFICATION Spec
INVARIANTS
    WrittenOnOwnLine
SYMMETRY Symmetry
