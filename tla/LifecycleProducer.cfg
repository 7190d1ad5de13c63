CONSTANTS
    Requests = {r1}
    Statuses = {"success", "client_error", "server_error"}
    Operations = {op1, op2}
    MapperLevels = {"TRACE", "INFO"}
    BodyKinds = {"full", "stream", "shared"}
    MaxFrames = 3
    None = None
SPECIFICATION FairSpec
INVARIANTS
    RecordReflectsResponse
    CompletedAccountsForFrames
PROPERTIES
    ImplementsTerminalOnce
    EventuallyRecorded
