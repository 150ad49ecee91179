SPECIFICATION Spec
CONSTANTS
    Subs = {s1}
    MaxCards = 1
    Day = 3
    Late = 2
    Duration = 6
    FirstEnds = {6, 7, 8}
    Horizon = 9
    MaxOps = 0
    MaxFaults = 0
INVARIANTS
    NoneLapsesUntried
CHECK_DEADLOCK FALSE
