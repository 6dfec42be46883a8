\* One page, two requests in flight, a session that another tab changes.
SPECIFICATION FairSpec
CONSTANTS
    olga = olga
    rita = rita
    vera = vera
    i1 = i1
    p1 = p1
    User = {olga, rita, vera}
    RoleOf <- Roles
    Code = {i1, p1}
    KindOf <- Pages
    Content = {x1}
    SeedPreparer = olga
    SeedReviewer = rita
    NoRow = NoRow
    NoOne = NoOne
    MaxCalls = 2
    MaxVersion = 2
INVARIANTS
    TypeOK
    ConfirmedAsSeen
    OfferedIsAccepted
    ReloadShowsMove
    SpinnerHasReason
PROPERTIES
    MovesAsConfirmed
    SpinnerStops
