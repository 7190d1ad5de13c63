CONSTANTS
    Requests = {r1, r2}
    BaselineIds = {a, b}
    BroadIds = {x}
    Malformed = malformed
    Traces = {ta, tb}
    Nesting = FALSE
    CustomValidator = TRUE
    Reissuing = TRUE
    ResponseHeader = TRUE
    None = None
SPECIFICATION Spec
INVARIANTS
    GeneratedIsBaseline
SYMMETRY Symmetry
