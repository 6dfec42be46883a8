------------------------- MODULE MCVersionedRecord -------------------------
(***************************************************************************)
(* Finite instances of VersionedRecord.                                    *)
(***************************************************************************)
EXTENDS VersionedRecord, TLC

CONSTANTS bridge, inspection, defect

Users == {"operator", "admin"}
UsersAndViewer == {"viewer", "operator", "admin"}
RoleOfUsers == [u \in Users |-> u]
RoleOfUsersAndViewer == [u \in UsersAndViewer |-> u]

OneDefect == [c \in {defect} |-> "DefectFinding"]
BridgeAndInspection == (bridge :> "BridgeAsset") @@ (inspection :> "InspectionRound")

(* Requests are alike, and so are contents. *)
Symmetry == Permutations(Request) \cup Permutations(Content)

=============================================================================
