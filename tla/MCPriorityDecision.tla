------------------------- MODULE MCPriorityDecision -------------------------
(***************************************************************************)
(* Finite instances of PriorityDecision.  The users are the accounts that  *)
(* database.go seeds, whose usernames are their roles.                     *)
(***************************************************************************)
EXTENDS PriorityDecision, TLC

AllUsers == Role
Writers == Role \ {"viewer"}     \* those that the route guards let write

RoleOfAll == [u \in AllUsers |-> u]
RoleOfWriters == [u \in Writers |-> u]

(* Requests are alike, and so are contents and codes.                      *)
Symmetry == Permutations(Request) \cup Permutations(Content) \cup Permutations(Code)

=============================================================================
