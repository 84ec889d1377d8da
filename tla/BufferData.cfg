\* Every kind of buffer, used in the ways its implementation supports.
CONSTANTS
    t1 = t1
    t2 = t2
    d1 = d1
    d2 = d2
    none = none
    Threads = {t1, t2}
    Devices = {d1, d2}
    First = d1
    NoDevice = none
    P2P <- OneWay
    Size = 2
    Values = {1, 2}
    Uses <- Supported
    Serial = TRUE
    MaxMaps = 2
SYMMETRY Symmetry
SPECIFICATION Spec
INVARIANTS TypeOK LatestData MappedData
PROPERTY AllocationStays
