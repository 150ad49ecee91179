SPECIFICATION Spec
CONSTANTS
    Subs = {s1, s2}
    MaxCards = 1
    Day = 2
    Late = 1
    Duration = 4
    FirstEnds = {6, 9}
    Horizon = 7
    MaxOps = 0
    MaxFaults = 1
INVARIANTS
    DueIsAttempted
    DueIsAnnounced
PROPERTIES
    RunEnds
CHECK_DEADLOCK FALSE
