CONSTANTS
    Arrivals <- MCArrivals
    MaxHops = 3
    MaxMembers = 3
    MaxKey = 4
    MaxTenant = 2
    MaxSystem = 1
    None = None
    Pending = Pending
SPECIFICATION Spec
INVARIANTS
    TypeOK
    StateAsReceived
    LegalStateIsKept
    BadStateKeepsParent
    ForwardedContextArrives
