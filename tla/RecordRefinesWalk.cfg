\* Two requests on a bridge and an inspection, against the abstract walk.
SPECIFICATION Spec
CONSTANTS
    bridge = bridge
    inspection = inspection
    defect = defect
    User <- UsersAndViewer
    RoleOf <- RoleOfUsersAndViewer
    Code = {bridge, inspection}
    KindOf <- BridgeAndInspection
    Request = {r1, r2}
    Content = {x1, x2}
    NoContent = blank
    Lookahead = 0
SYMMETRY Symmetry
\* Each request is handled once: when all are answered the instance is at rest.
CHECK_DEADLOCK FALSE
PROPERTIES
    WalkSpec
