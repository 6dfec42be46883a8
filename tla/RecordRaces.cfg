\* Three requests race on one defect.
SPECIFICATION Spec
CONSTANTS
    bridge = bridge
    inspection = inspection
    defect = defect
    User <- Users
    RoleOf <- RoleOfUsers
    Code = {defect}
    KindOf <- OneDefect
    Request = {r1, r2, r3}
    Content = {x1, x2}
    NoContent = blank
    Lookahead = 0
SYMMETRY Symmetry
\* Each request is handled once: when all are answered the instance is at rest.
CHECK_DEADLOCK FALSE
INVARIANTS
    TypeOK
    SnapshotIsFaithful
    AuditExplainsStatus
