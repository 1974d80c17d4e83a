CONSTANTS
    h1 = h1
    h2 = h2
    Holds = {h1, h2}
    k1 = k1
    Checkouts = {k1}
    d1 = d1
    Deliveries = {d1}
    Events = {"success"}
    None = None
    s1 = s1
    Services = {s1}
    ServiceConfigs <- Edited
    DayRanges <- Morning
    Starts <- NineToTen
    Quantities = {2, 3}
    HoldDuration = 1
    ReferencesCollide = TRUE
    MaxFailures = 1
SPECIFICATION OverlapSpec
SYMMETRY HoldSymmetry
INVARIANTS
    TypeOK
    OneActivePerSlot
    OverlapsAreRaces
    FitsTheDay
    AmountIsAgreed
CHECK_DEADLOCK FALSE
