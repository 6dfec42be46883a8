------------------------------ MODULE MCStartup ------------------------------
(***************************************************************************)
(* Finite instances of Startup: two of the four tables, one whose rows can *)
(* all be deleted and the decisions, two of whose seeds are final; or the  *)
(* first alone.                                                            *)
(***************************************************************************)
EXTENDS Startup

CONSTANTS s1, s2

TwoTables == <<"bridge_assets", "priority_decisions">>
OneTable == <<"bridge_assets">>

FinalDecisions == {<<"priority_decisions", s2>>}
None == {}

=============================================================================
