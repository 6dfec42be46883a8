\* A client that names the version the row is about to have.
SPECIFICATION Spec
CONSTANTS
    User <- Writers
    RoleOf <- RoleOfWriters
    Code = {c1}
    Request = {r1, r2}
    Content = {x1, x2}
    NoContent = blank
    NoUser = nobody
    SeedRequest = seed
    SeedPreparer = "operator"
    SeedReviewer = "reviewer"
    Lookahead = 1
SYMMETRY Symmetry
\* Each request is handled once: when all are answered the instance is at rest.
CHECK_DEADLOCK FALSE
PROPERTIES
    FinalIsFrozen
