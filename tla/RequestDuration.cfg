CONSTANTS
    Radix = 3
    Precision = 512
    Grains = 16384
    LimitMs = 20
    Horizon = 220
    Readings = {0, 7, 30, 150}
    None = None
SPECIFICATION Spec
INVARIANTS
    TypeOK
    DurationIsElapsed
    LatencyIsExact
    LatencyIsClose
