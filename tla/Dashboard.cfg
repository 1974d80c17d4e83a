CONSTANTS
    b1 = b1
    b2 = b2
    Bookings = {b1, b2}
    s1 = s1
    Slots = {s1}
    NoSlot = NoSlot
    d1 = d1
    d2 = d2
    Deliveries = {d1, d2}
    c1 = c1
    Cancellations = {c1}
    None = None
    PageSize = 1
    MaxLost = 1
    Filters = {"CONFIRMED"}
SPECIFICATION DashboardSpec
SYMMETRY Symmetry
INVARIANTS
    DashboardTypeOK
    LastWordIsTrue
    LinkReachesCustomer
    NothingIsMissed
CHECK_DEADLOCK FALSE
