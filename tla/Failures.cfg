CONSTANTS
    h1 = h1
    h2 = h2
    Holds = {h1, h2}
    k1 = k1
    Checkouts = {k1}
    d1 = d1
    d2 = d2
    Deliveries = {d1, d2}
    Events = {"success", "failed"}
    None = None
    s1 = s1
    Services = {s1}
    ServiceConfigs <- HalfHour
    DayRanges <- Morning
    Starts <- Nine
    Quantities = {1}
    HoldDuration = 1
    ReferencesCollide = FALSE
    MaxFailures = 1
SPECIFICATION Spec
SYMMETRY Symmetry
INVARIANTS
    ConfirmedIsPaid
    StatusIsBacked
PROPERTIES
    AckedChargeIsRecorded
    RecordedStaysRecorded
CHECK_DEADLOCK FALSE
