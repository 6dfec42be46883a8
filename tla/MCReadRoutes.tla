---------------------------- MODULE MCReadRoutes ----------------------------
(***************************************************************************)
(* A finite instance of ReadRoutes: one decision, three writing requests   *)
(* of an operator and an admin, one read that starts at any moment.        *)
(***************************************************************************)
EXTENDS ReadRoutes, TLC

CONSTANTS c1, olga, adam

Roles == olga :> "operator" @@ adam :> "admin"

(* The properties speak of the moment a read ends; what is written after     *)
(* that is left out.                                                        *)
Reading ==
    /\ reader.pc \notin {"shown", "history", "failed"}
    /\ reader.pc = "summary" => Len(reader.counted) < Len(Statement)

Symmetry == Permutations(Request) \cup Permutations(Content)

=============================================================================
