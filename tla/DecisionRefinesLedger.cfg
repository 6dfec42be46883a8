\* Two requests of any account on two decisions, against the abstract ledger.
SPECIFICATION Spec
CONSTANTS
    User <- AllUsers
    RoleOf <- RoleOfAll
    Code = {c1, c2}
    Request = {r1, r2}
    Content = {x1, x2}
    NoContent = blank
    NoUser = nobody
    SeedRequest = seed
    SeedPreparer = "operator"
    SeedReviewer = "reviewer"
    Lookahead = 0
SYMMETRY Symmetry
\* Each request is handled once: when all are answered the instance is at rest.
CHECK_DEADLOCK FALSE
PROPERTIES
    LedgerSpec
