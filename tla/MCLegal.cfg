SPECIFICATION Spec
CONSTANTS
    Types = {terms, privacy}
    Users = {u1, u2}
    Requests = {r1, r2, r3, r4}
SYMMETRY Symmetry
INVARIANTS
    TypeOK
    ConsentsStand
PROPERTIES
    NeverWithoutText
    PublishedIsShown
    ActivationRestoresOne
    ActiveDeletedOnlyByOverlap
CHECK_DEADLOCK FALSE
