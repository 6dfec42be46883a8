----------------------------- MODULE MCWorkbench -----------------------------
(***************************************************************************)
(* A finite instance of Workbench: the page of the inspections with one    *)
(* inspection, or that of the decisions with one decision.                 *)
(***************************************************************************)
EXTENDS Workbench, TLC

CONSTANTS i1, p1, olga, rita, vera

Roles == olga :> "operator" @@ rita :> "reviewer" @@ vera :> "viewer"
Pages == i1 :> "InspectionRound" @@ p1 :> "PriorityDecision"

=============================================================================
