------------------------------- MODULE Access -------------------------------
(***************************************************************************)
(* Who may call what: the role carried by a caller's token and the two     *)
(* route guards of backend/internal/middleware/auth.go.  No route of the   *)
(* program changes a user's role, so a token's role is a constant of its   *)
(* user.                                                                   *)
(***************************************************************************)
EXTENDS Naturals

CONSTANTS
    User,       \* the usernames that appear in tokens
    RoleOf      \* the role claim of each user's token

Role == {"viewer", "operator", "reviewer", "admin"}

ASSUME RolesAssigned == RoleOf \in [User -> Role]

roleRank == [viewer |-> 1, operator |-> 2, reviewer |-> 3, admin |-> 4]

(* The guard of the write routes: a role of at least the given rank. *)
RequireMinimumRole(u, minimum) == roleRank[RoleOf[u]] >= roleRank[minimum]

(* The guard of the delete routes: one of the listed roles. *)
RequireRoles(u, allowed) == RoleOf[u] \in allowed

=============================================================================
