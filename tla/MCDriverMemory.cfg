SPECIFICATION DriverSpec
CONSTANTS
    Process = {p1, p2, p3}
    File = {x, y, z}
    Nobody = Nobody
    MaxOpen = 2
    PageSize = 4
    NumDevices = 2
    TableSize = 6
    SortSpan = 13
    PageThreshold = 2
    PhysSize = 20
    DmaSize = 6
    FreeSets <- MCFreeSets
    Regions <- MCRegions
INVARIANTS OwnerHasFile ExclusiveAccess DevicesApart ReturnsWhatItTook
CHECK_DEADLOCK FALSE
