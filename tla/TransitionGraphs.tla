-------------------------- MODULE TransitionGraphs --------------------------
(***************************************************************************)
(* The status graphs of bridges, inspections and defects, with the status  *)
(* of a new record and those that the seed inserts.                        *)
(*                                                                         *)
(* Sources: backend/internal/constants/status.go, the InitialStatus of     *)
(* each model, and the seeds in database/database.go.                      *)
(***************************************************************************)

BridgeAssetTransitions ==
    [active     |-> {"restricted", "closed"},
     restricted |-> {"closed", "retired", "active"},
     closed     |-> {"retired", "restricted"},
     retired    |-> {"closed"}]

InspectionRoundTransitions ==
    [planned   |-> {"running", "review"},
     running   |-> {"review", "completed", "planned"},
     review    |-> {"completed", "running"},
     completed |-> {"review"}]

DefectFindingTransitions ==
    [new        |-> {"verified", "monitoring"},
     verified   |-> {"monitoring", "mitigated", "new"},
     monitoring |-> {"mitigated", "closed", "verified"},
     mitigated  |-> {"closed", "monitoring"},
     closed     |-> {"mitigated"}]

Graph ==
    [BridgeAsset     |-> BridgeAssetTransitions,
     InspectionRound |-> InspectionRoundTransitions,
     DefectFinding   |-> DefectFindingTransitions]

Kind == DOMAIN Graph
StatusOf(kind) == DOMAIN Graph[kind]
Status == UNION {StatusOf(kind) : kind \in Kind}

InitialStatus == [BridgeAsset |-> "active", InspectionRound |-> "planned", DefectFinding |-> "new"]

SeedStatus ==
    [BridgeAsset     |-> {"active", "restricted", "closed"},
     InspectionRound |-> {"planned", "running", "review"},
     DefectFinding   |-> {"new", "verified", "monitoring"}]

CanTransition(kind, from, to) ==
    from \in StatusOf(kind) /\ to \in Graph[kind][from]

=============================================================================
