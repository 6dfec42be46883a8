\* Four requests with three keys, over two minutes and a restart.
SPECIFICATION Spec
CONSTANTS
    Request = {r1, r2, r3, r4}
    Key = {k1, k2, k3}
    Limit = 2
    TableSize = 2
    Retries = 1
    MaxWindow = 1
    MaxBoot = 1
SYMMETRY Symmetry
\* Each request is handled once: when all are answered the instance is at rest.
CHECK_DEADLOCK FALSE
INVARIANTS
    TypeOK
    LimitPerCounter
    LimitedOnlyWhenFull
    BigTableIsFresh
