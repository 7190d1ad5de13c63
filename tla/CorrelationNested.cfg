CONSTANTS
    Requests = {r1, r2}
    BaselineIds = {a, b}
    BroadIds = {x}
    Malformed = malformed
    Traces = {ta, tb}
    Nesting = TRUE
    CustomValidator = TRUE
    Reissuing = TRUE
    ResponseHeader = TRUE
    None = None
SPECIFICATION Spec
INVARIANTS
    TypeOK
    OneIdentity
    AccessLineCorrelates
    AppLineIsNotSpoofed
    BroadIdsWereAdmitted
    TraceFromOwnScope
SYMMETRY Symmetry
