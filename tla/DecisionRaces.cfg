\* Three requests race on one decision.
SPECIFICATION Spec
CONSTANTS
    User <- Writers
    RoleOf <- RoleOfWriters
    Code = {c1}
    Request = {r1, r2, r3}
    Content = {x1, x2}
    NoContent = blank
    NoUser = nobody
    SeedRequest = seed
    SeedPreparer = "operator"
    SeedReviewer = "reviewer"
    Lookahead = 0
SYMMETRY Symmetry
\* Each request is handled once: when all are answered the instance is at rest.
CHECK_DEADLOCK FALSE
INVARIANTS
    TypeOK
    RevisionChain
    RowIsNewestRevision
    SeparationOfDuty
    ReviewedEvidence
    AuditAgrees
    ReplyHonest
    ConflictHasWinner
    SnapshotIsFaithful
PROPERTIES
    FinalIsFrozen
