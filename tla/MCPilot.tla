------------------------------ MODULE MCPilot ------------------------------
(***************************************************************************)
(* Two models in their order, so that one of them can wait or be broken     *)
(* while the other goes on.                                                *)
(***************************************************************************)
EXTENDS Pilot

CONSTANTS m1, m2

TwoModels == <<m1, m2>>
=============================================================================
