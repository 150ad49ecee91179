SPECIFICATION Spec
CONSTANTS
    r1 = r1
    r2 = r2
    r3 = r3
    r4 = r4
    r5 = r5
    Line <- MCLine
    Nothing = Nothing
    Traffic <- MCSessions
    Phones = {"ph", "an"}
    Emails = {"ed", "em"}
    Seeded = {"an", "em"}
    OtpMax = 1
    Tokens = {"tk"}
    PageSize = 1
    AiUsers = {"em"}
    AiMax = 1
    Limit = 1
    Prices = {0}
    MaxOptions = 0
    Kept = {"book"}
    Members = {"em"}
    Readers = {"em"}
    TargetChars = 6
    OverlapChars = 1
    MinChars = 2
    Texts <- MCTexts
INVARIANT TokensRotate
CHECK_DEADLOCK FALSE
