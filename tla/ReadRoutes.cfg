\* One read among three requests; the clock ticks twice.
SPECIFICATION Spec
CONSTANTS
    olga = olga
    adam = adam
    c1 = c1
    User = {olga, adam}
    RoleOf <- Roles
    Code = {c1}
    Content = {x1, x2}
    SeedPreparer = olga
    SeedReviewer = adam
    Request = {r1, r2, r3}
    DefaultWindow = 1
    MaxWindow = 2
    DefaultLimit = 1
    MaxLimit = 2
    Asked = {0, 5}
    MaxClock = 2
CONSTRAINT Reading
SYMMETRY Symmetry
\* The instance is at rest when the requests and the read are done.
CHECK_DEADLOCK FALSE
INVARIANTS
    TypeOK
    GetExplainsItself
    ShownIsLawful
    SummaryFigures
PROPERTIES
    HistoryInRealTime
    HistoryIsBounded
