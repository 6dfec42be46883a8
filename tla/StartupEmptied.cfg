\* All rows of the only table are deleted and the process is restarted.
SPECIFICATION FairSpec
CONSTANTS
    SeedOrder <- OneTable
    SeedCode = {s1, s2}
    OtherCode = {o1}
    s1 = s1
    s2 = s2
    Kept <- None
    MaxAttempts = 2
    Mishaps = 1
\* When every code and failure is used up, the backend serves and nothing is left to do.
CHECK_DEADLOCK FALSE
PROPERTIES
    ServesAgain
