SPECIFICATION Spec
CONSTANTS
    Types = {terms}
    Users = {u1}
    Requests = {r1, r2, r3}
SYMMETRY Symmetry
INVARIANTS
    OneActivePerType
CHECK_DEADLOCK FALSE
