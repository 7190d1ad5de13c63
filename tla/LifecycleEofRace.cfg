CONSTANTS
    Requests = {r1}
    Statuses = {"success"}
    Operations = {}
    MapperLevels = {"INFO"}
    BodyKinds = {"shared"}
    MaxFrames = 1
    None = None
SPECIFICATION Spec
INVARIANTS
    DroppedOnlyUnfinished
