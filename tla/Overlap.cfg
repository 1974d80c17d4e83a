CONSTANTS
    h1 = h1
    h2 = h2
    Holds = {h1, h2}
    Checkouts = {}
    Deliveries = {}
    Events = {}
    None = None
    s1 = s1
    Services = {s1}
    ServiceConfigs <- HourLong
    DayRanges <- Morning
    Starts <- NineAndHalfPast
    Quantities = {1}
    HoldDuration = 1
    ReferencesCollide = FALSE
    MaxFailures = 0
SPECIFICATION Spec
SYMMETRY HoldSymmetry
INVARIANTS
    NoDoubleBooking
CHECK_DEADLOCK FALSE
