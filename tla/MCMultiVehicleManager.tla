------------------------- MODULE MCMultiVehicleManager -------------------------
(* MultiVehicleManager with links and system ids that are interchangeable. *)
EXTENDS MultiVehicleManager, TLC

Interchangeable == Permutations(Links) \cup Permutations(Ids)
================================================================================
