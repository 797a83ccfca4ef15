--------------------------- MODULE MCPlanSequence ---------------------------
(* Instances of PlanSequence: a vehicle that is connected and has no geo   *)
(* fence, and one that is connecting and supports every element.           *)
EXTENDS PlanSequence, TLC

CONSTANTS old, new, offline

MCVehicles  == {old, new}
MCConnected == {old}
MCSupported == (old :> {"mission", "rally"}) @@ (new :> Elements)
MCLinkKinds == {"normal", "none", "highLatency"}
=============================================================================
