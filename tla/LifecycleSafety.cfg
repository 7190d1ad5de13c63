CONSTANTS
    Requests = {r1, r2}
    Statuses = {"success", "server_error"}
    Operations = {op1}
    MapperLevels = {"DEBUG"}
    BodyKinds = {"full", "stream"}
    MaxFrames = 1
    None = None
SPECIFICATION Spec
INVARIANTS
    TypeOK
    ExactlyOneRecord
    EofExposedAfterRecord
SYMMETRY Symmetry
