CONSTANTS
    h1 = h1
    Holds = {h1}
    k1 = k1
    Checkouts = {k1}
    d1 = d1
    Deliveries = {d1}
    Events = {"success"}
    None = None
    s1 = s1
    Services = {s1}
    ServiceConfigs <- HalfHour
    DayRanges <- Morning
    Starts <- Nine
    Quantities = {1}
    HoldDuration = 1
    ReferencesCollide = FALSE
    MaxFailures = 0
SPECIFICATION Spec
PROPERTIES
    StaleSlotIsNotConfirmed
CHECK_DEADLOCK FALSE
