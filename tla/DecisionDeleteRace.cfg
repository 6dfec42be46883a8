\* A delete that read a draft meets a transition.
SPECIFICATION Spec
CONSTANTS
    User <- Writers
    RoleOf <- RoleOfWriters
    Code = {c1}
    Request = {r1, r2}
    Content = {x1, x2}
    NoContent = blank
    NoUser = nobody
    SeedRequest = seed
    SeedPreparer = "operator"
    SeedReviewer = "reviewer"
    Lookahead = 0
SYMMETRY Symmetry
\* Each request is handled once: when all are answered the instance is at rest.
CHECK_DEADLOCK FALSE
INVARIANTS
    FinalNeverDeleted
