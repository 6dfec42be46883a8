\* Starts that fail or are cut off three times, over two tables.
SPECIFICATION FairSpec
CONSTANTS
    SeedOrder <- TwoTables
    SeedCode = {s1, s2}
    OtherCode = {o1}
    s1 = s1
    s2 = s2
    Kept <- FinalDecisions
    MaxAttempts = 2
    Mishaps = 3
\* When every code and failure is used up, the backend serves and nothing is left to do.
CHECK_DEADLOCK FALSE
INVARIANTS
    TypeOK
    SeededBeforeServing
    SeedIsAtomic
PROPERTIES
    NoResurrection
    StartsAdvance
    EmptiedStaysDown
    ServesUnlessEmptied
