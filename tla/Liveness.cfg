CONSTANTS
    h1 = h1
    h2 = h2
    Holds = {h1, h2}
    k1 = k1
    k2 = k2
    Checkouts = {k1, k2}
    d1 = d1
    Deliveries = {d1}
    Events = {"success"}
    None = None
    s1 = s1
    Services = {s1}
    ServiceConfigs <- HalfHour
    DayRanges <- Morning
    Starts <- Nine
    Quantities = {1}
    HoldDuration = 1
    ReferencesCollide = FALSE
    MaxFailures = 1
SPECIFICATION FairReceiptSpec
INVARIANTS
    ConfirmedOncePerHandler
PROPERTIES
    HoldsAreReleased
    RequestsAreAnswered
    ChargesAreRecorded
    ConfirmedIsMailed
CHECK_DEADLOCK FALSE
