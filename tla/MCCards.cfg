SPECIFICATION Spec
CONSTANTS
    Numbers = {visa}
    Requests = {r1, r2, r3, r4, r5}
SYMMETRY Symmetry
INVARIANTS
    TypeOK
    VerifiedIsChargeable
    TwinsOnlyByOverlap
    OrphanExplained
CHECK_DEADLOCK FALSE
