SPECIFICATION Spec
CONSTANTS
    Users = {u1, u2}
    Plans <- MCPlans
    Books <- MCBooks
    Free <- MCFree
    Requests = {r1, r2, r3}
    Production = FALSE
SYMMETRY Symmetry
INVARIANTS
    TypeOK
    GrantsArePaid
    LedgerMatchesClick
    GoodsMatchLedger
    SequentialNeverDoubles
    RefulfilledOnlyByOverlap
PROPERTIES
    SettledOnce
    KeepsPromise
CHECK_DEADLOCK FALSE
