----------------------------- MODULE PlanTransaction -----------------------------
(***************************************************************************)
(* What a PlanManager promises the controllers that call it                *)
(* (PlanManager.h:45-57, "Signals ... when done"): one transaction at a    *)
(* time, and each one ends with exactly one completion signal, its own.    *)
(* The ArduPilot guided item is the exception the code makes: it ends      *)
(* silently, or with a sendComplete error.                                 *)
(***************************************************************************)
VARIABLES transaction, completion

Kinds == {"Read", "Write", "Guided", "RemoveAll"}

CompletionOf(kind) ==
  CASE kind = "Read"      -> {{"newMissionItemsAvailable"}}
    [] kind = "Write"     -> {{"sendComplete"}, {"sendCompleteError"}}
    [] kind = "Guided"    -> {{}, {"sendCompleteError"}}
    [] kind = "RemoveAll" -> {{"removeAllComplete"}, {"removeAllCompleteError"}}

TransactionInit == transaction = "None" /\ completion = {}

Begin ==
  /\ transaction = "None"
  /\ transaction' \in Kinds
  /\ completion' = {}

Continue ==
  /\ completion' = {}
  /\ UNCHANGED transaction

End ==
  /\ transaction \in Kinds
  /\ transaction' = "None"
  /\ completion' \in CompletionOf(transaction)

TransactionNext == Begin \/ Continue \/ End

TransactionSpec == TransactionInit /\ [][TransactionNext]_<<transaction, completion>>
================================================================================
