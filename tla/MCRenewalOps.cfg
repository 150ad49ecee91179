SPECIFICATION Spec
CONSTANTS
    Subs = {s1}
    MaxCards = 2
    Day = 2
    Late = 1
    Duration = 4
    FirstEnds = {6, 9}
    Horizon = 7
    MaxOps = 2
    MaxFaults = 1
INVARIANTS
    TypeOK
    AnnouncedOnce
PROPERTIES
    ExtendedByItsPayment
    ChargedWithConsent
CHECK_DEADLOCK FALSE
