CONSTANTS
    Requests = {r1, r2}
    BaselineIds = {a, b}
    BroadIds = {x}
    Malformed = malformed
    Traces = {ta, tb}
    Nesting = TRUE
    CustomValidator = FALSE
    Reissuing = FALSE
    ResponseHeader = TRUE
    None = None
SPECIFICATION Spec
INVARIANTS
    TraceOnlyWithContext
SYMMETRY Symmetry
