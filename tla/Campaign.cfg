\* A campaign interrupted anywhere and its last driver; three drivers in one directory.
SPECIFICATION CampaignSpec
CONSTANTS
    k1 = k1
    x1 = x1
    d1 = d1
    d2 = d2
    d3 = d3
    Cells = {k1, x1}
    Canary = {k1}
    Slices <- OneSlice
    Drivers = {d1, d2, d3}
    Jobs = 1
    Edits = TRUE
    KillDriver = {d1, d2}
    KillRunner <- Debris
    Outcomes <- CanaryMayFail
INVARIANTS
    ZeroMeansComplete
PROPERTIES
    GateHolds
    CellsKeepPromise
    
    DriversReturn
\* Every driver lives once and ends.
CHECK_DEADLOCK FALSE
