SPECIFICATION Spec
CONSTANTS
    Users = {u1}
    Plans <- MCPlans
    Books <- MCBooks
    Free <- MCFree
    Requests = {r1, r2}
    Production = TRUE
SYMMETRY Symmetry
INVARIANTS
    BookPaidOnce
CHECK_DEADLOCK FALSE
