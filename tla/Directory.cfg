CONSTANTS
    john = john
    amaka = amaka
    Users = {john, amaka}
    Usernames = {"john-consulting", "dr-amaka"}
    Names = {"Discovery", "Discovery Deep Dive"}
    r1 = r1
    r2 = r2
    Requests = {r1, r2}
    None = None
    MaxServices = 4
    Demo <- DemoProfessionals
    Days <- Weekdays
    Samples <- SampleBookings
    Mentions <- Includes
    MaxRuns = 2
SPECIFICATION Spec
SYMMETRY Symmetry
INVARIANTS
    SeedTypeOK
    SeedIsIdempotent
PROPERTIES
    RemovedStaysRemoved
CHECK_DEADLOCK FALSE
