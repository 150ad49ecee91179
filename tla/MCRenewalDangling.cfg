SPECIFICATION Spec
CONSTANTS
    Subs = {s1}
    MaxCards = 1
    Day = 2
    Late = 1
    Duration = 4
    FirstEnds = {6}
    Horizon = 6
    MaxOps = 2
    MaxFaults = 0
INVARIANTS
    RemovalTurnsAutoPayOff
CHECK_DEADLOCK FALSE
