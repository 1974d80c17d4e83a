CONSTANTS
    r1 = r1
    r2 = r2
    r3 = r3
    r4 = r4
    Requests = {r1, r2, r3, r4}
    e1 = e1
    e2 = e2
    Emails = {e1, e2}
    p1 = p1
    p2 = p2
    Passwords = {p1, p2}
    None = None
    TokenLife = 1
    ResetLife = 1
    MaxFailures = 1
SPECIFICATION Spec
SYMMETRY Symmetry
INVARIANTS
    TypeOK
    RotationRetiresToken
    SessionsEndForAReason
PROPERTIES
    RetiredStaysRetired
    PasswordNeedsMailedLink
    SpentStaysSpent
CHECK_DEADLOCK FALSE
