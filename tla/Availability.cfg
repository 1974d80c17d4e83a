CONSTANTS
    ServiceConfigs <- Services
    RuleRanges <- Ranges
    Intervals <- NineToTen
    HoldMinutes = 10
    Times = {520, 525, 530}
    MaxRows = 2
    MaxEdits = 1
SPECIFICATION Spec
INVARIANTS
    TypeOK
PROPERTIES
    LoopsAreExact
    OfferIsFree
CHECK_DEADLOCK FALSE
