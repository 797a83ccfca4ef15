----------------------------- MODULE PlanManagerOpen -----------------------------
(***************************************************************************)
(* PlanManager against any vehicle at all: it may send any message of      *)
(* VehicleMessages at any moment, and the timer may fire whenever it runs. *)
(* What holds here holds whatever the vehicle and the link do.             *)
(***************************************************************************)
EXTENDS PlanManager

CONSTANT VehicleMessages

Messages ==
  [msgid : {"MISSION_COUNT"}, count : Nat, type : PlanTypes]
    \cup [msgid : {"MISSION_ITEM_INT"}, item : MissionItems, type : PlanTypes]
    \cup [msgid : {"MISSION_REQUEST_INT"}, seq : Nat, type : PlanTypes]
    \cup [msgid : {"MISSION_ACK"}, result : MavMissionResult, type : PlanTypes]

ASSUME MessagesAssumption == VehicleMessages \subseteq Messages

Next ==
  \/ Call
  \/ \E m \in VehicleMessages : Receive(m)
  \/ AckTimeout

Spec == Init /\ [][Next]_vars

--------------------------------------------------------------------------------
TypeOK ==
  /\ transactionInProgress \in Transactions
  /\ expectedAck \in Acks
  /\ timerActive \in BOOLEAN
  /\ retryCount \in 0 .. MaxRetryCount + 1
  /\ resumeMission \in BOOLEAN
  /\ itemIndicesToRead \subseteq Nat /\ itemIndicesToWrite \subseteq Nat
  /\ missionItemCountToRead \in Nat
  /\ missionItems \in Seq(MissionItems) /\ writeMissionItems \in Seq(MissionItems)
  /\ connections \in Nat
  /\ served \subseteq Nat
  /\ emitted \subseteq Signals \cup Errors

(* The waits each kind of transaction can be in. *)
AcksOf(transaction) ==
  CASE transaction = "Read"      -> {"AckMissionCount", "AckMissionItem"}
    [] transaction = "Write"     -> {"AckMissionRequest", "AckGuidedItem"}
    [] transaction = "RemoveAll" -> {"AckMissionClearAll"}
    [] transaction = "None"      -> Acks

(* No transaction can be forgotten: between handlers, the manager is in a  *)
(* transaction exactly when its timer runs and exactly when it listens to  *)
(* the vehicle, and then it waits for an answer that belongs to the        *)
(* transaction (_startAckTimeout, _checkForExpectedAck, _finishTransaction,*)
(* called from every handler and from every retry).                        *)
TransactionIsGuarded ==
  /\ InProgress <=> timerActive
  /\ InProgress <=> connections > 0
  /\ expectedAck \in AcksOf(transactionInProgress)

(* Part of ItemsArePartitioned: the items a read has and the indices it    *)
(* still wants are, together, each index of the plan once: duplicated, repeated or misnumbered items never *)
(* cost or double an index, whatever order they come in                    *)
(* (_handleMissionCount, _handleMissionItem).                              *)
ReadPartition ==
  (transactionInProgress = "Read" /\ expectedAck = "AckMissionItem") =>
    /\ itemIndicesToRead # {}
    /\ itemIndicesToRead \subseteq 0 .. missionItemCountToRead - 1
    /\ \A i \in DOMAIN missionItems :
         missionItems[i].seq \in (0 .. missionItemCountToRead - 1) \ itemIndicesToRead
    /\ \A i, j \in DOMAIN missionItems :
         i # j => missionItems[i].seq # missionItems[j].seq
    /\ \A k \in (0 .. missionItemCountToRead - 1) \ itemIndicesToRead :
         \E i \in DOMAIN missionItems : missionItems[i].seq = k

(* Part of it too: what a write still has to send and what it has sent     *)
(* cover the plan.                                                         *)
WritePartition ==
  (transactionInProgress = "Write" /\ expectedAck = "AckMissionRequest") =>
    itemIndicesToWrite \cup served = 0 .. Len(writeMissionItems) - 1

(* No item of a plan is lost or doubled on its way, in either direction    *)
(* (_handleMissionItem, _handleMissionRequest).                            *)
ItemsArePartitioned == ReadPartition /\ WritePartition

(* A write is reported sent only after the vehicle asked for, and was      *)
(* sent, every item of the plan (PlanManager::_handleMissionAck).          *)
SentEveryItem ==
  [][ "sendComplete" \in emitted' => served = 0 .. Len(missionItems') - 1 ]_vars

(* A read reported without an error delivers items 0 .. n-1, each once. *)
ReadEveryItem ==
  [][ ("newMissionItemsAvailable" \in emitted' /\ emitted' \cap Errors = {})
        => /\ \A i, j \in DOMAIN missionItems' :
                i # j => missionItems'[i].seq # missionItems'[j].seq
           /\ {missionItems'[i].seq : i \in DOMAIN missionItems'}
                = 0 .. Len(missionItems') - 1 ]_vars

(* Whatever is reported done was done to every item.                       *)
ItemsAreCarried == SentEveryItem /\ ReadEveryItem

(* The promise of PlanTransaction. *)
Transaction ==
  INSTANCE PlanTransaction WITH
    transaction <- IF transactionInProgress = "Write" /\ expectedAck = "AckGuidedItem"
                     THEN "Guided" ELSE transactionInProgress,
    completion  <- emitted \ (Errors \cup {"resumeMissionReady", "resumeMissionUploadFail"})

OneCompletionEach == Transaction!TransactionSpec
================================================================================
