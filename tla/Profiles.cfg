CONSTANTS
    r1 = r1
    r2 = r2
    r3 = r3
    r4 = r4
    r5 = r5
    Requests = {r1, r2, r3, r4, r5}
    own = own
    other = other
    GoogleAccounts = {own, other}
    Own = own
    b1 = b1
    b2 = b2
    BankAccounts = {b1, b2}
    None = None
    MaxFailures = 1
SPECIFICATION Spec
SYMMETRY Symmetry
INVARIANTS
    TypeOK
    ConnectionAgrees
    PayoutAgrees
PROPERTIES
    DisconnectedStaysSo
    SubaccountIsReused
CHECK_DEADLOCK FALSE
