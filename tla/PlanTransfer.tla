------------------------------ MODULE PlanTransfer ------------------------------
(***************************************************************************)
(* A PlanManager and its vehicle, joined by a FIFO link that may lose      *)
(* messages and takes any time to deliver them: a timer may fire while the *)
(* answer it waits for is still under way.  As long as that has not        *)
(* happened the link was prompt: a round trip took less than the timeout.  *)
(***************************************************************************)
EXTENDS PlanManager, MissionItemHandler

CONSTANTS
  InitialPlan,        \* the plan on the vehicle at the start
  Started,            \* the kinds of transaction users start
  MaxCalls,           \* bound on the transactions started
  MaxLosses           \* bound on the messages lost

VARIABLES
  toVehicle,          \* messages on their way to the vehicle
  calls, losses,
  stable,             \* history: when the transaction began the vehicle's
                      \* plan was complete and no answer about another one
                      \* was under way; and the plan has not changed since
  prompt              \* history: no timer fired with a message under way

ASSUME TransferAssumption ==
  /\ InitialPlan \in Seq(MissionItems)
  /\ EmptyItem \in MissionItems
  /\ HandlerType = OwnType

transferVars == <<vars, vehicle, toGcs, toVehicle, calls, losses, stable, prompt>>

TransferInit ==
  /\ Init
  /\ VehicleInit(InitialPlan)
  /\ toVehicle = <<>> /\ calls = 0 /\ losses = 0 /\ stable = FALSE /\ prompt = TRUE

(* The vehicle holds items 0 .. n-1.                                       *)
Complete(items) == DOMAIN items = 0 .. Cardinality(DOMAIN items) - 1

(* An item as the vehicle sends it, and as the manager keeps it. *)
Numbered(item, seq) == [item EXCEPT !.seq = seq]

AsRead(items, seq) == ShiftJump(Numbered(items[seq], seq), IF SendsHome THEN 0 ELSE 1)

(* An answer that tells what the vehicle holds: its count, or an item of it. *)
Fits(m, items) ==
  /\ m.msgid = "MISSION_COUNT" => m.count = Cardinality(DOMAIN items)
  /\ m.msgid = "MISSION_ITEM_INT" =>
       m.item.seq \in DOMAIN items /\ m.item = Numbered(items[m.item.seq], m.item.seq)

SendOutbox == toVehicle' = toVehicle \o outbox'

UserCall ==
  /\ calls < MaxCalls /\ calls' = calls + 1
  /\ Call
  /\ transactionInProgress' \in Started
  /\ SendOutbox
  /\ stable' = (Complete(vehicleItems) /\ \A i \in DOMAIN toGcs : Fits(toGcs[i], vehicleItems))
  /\ UNCHANGED <<vehicle, toGcs, losses, prompt>>

Timeout ==
  /\ AckTimeout
  /\ prompt' = (prompt /\ toGcs = <<>> /\ toVehicle = <<>>)
  /\ SendOutbox
  /\ UNCHANGED <<vehicle, toGcs, calls, losses, stable>>

DeliverToGcs ==
  /\ toGcs # <<>>
  /\ Receive(Head(toGcs))
  /\ toGcs' = Tail(toGcs)
  /\ SendOutbox
  /\ UNCHANGED <<vehicle, calls, losses, stable, prompt>>

DeliverToVehicle ==
  /\ toVehicle # <<>>
  /\ HandleMessage(Head(toVehicle))
  /\ toVehicle' = Tail(toVehicle)
  /\ stable' = (stable /\ vehicleItems' = vehicleItems)
  /\ UNCHANGED <<vars, calls, losses, prompt>>

Lose ==
  /\ losses < MaxLosses /\ losses' = losses + 1
  /\ \/ toVehicle # <<>> /\ toVehicle' = Tail(toVehicle) /\ UNCHANGED toGcs
     \/ toGcs # <<>> /\ toGcs' = Tail(toGcs) /\ UNCHANGED toVehicle
  /\ UNCHANGED <<vars, vehicle, calls, stable, prompt>>

TransferNext == UserCall \/ Timeout \/ DeliverToGcs \/ DeliverToVehicle \/ Lose

TransferSpec == TransferInit /\ [][TransferNext]_transferVars

(* The timer fires and the link delivers; users and losses owe nothing. *)
FairTransferSpec ==
  /\ TransferSpec
  /\ WF_transferVars(Timeout)
  /\ WF_transferVars(DeliverToGcs)
  /\ WF_transferVars(DeliverToVehicle)

--------------------------------------------------------------------------------
ReadSucceeds == "newMissionItemsAvailable" \in emitted /\ emitted \cap Errors = {}

(* A read that succeeds while the vehicle's plan stayed as it was gives    *)
(* every item of it once, however late or often the vehicle's answers came *)
(* (PlanManager::_handleMissionCount, _handleMissionItem and the retries); *)
(* and gives them in order on a prompt link, whatever is lost: no item is  *)
(* taken for the one asked for.                                            *)
ReadHasVehicleItems ==
  ReadSucceeds /\ stable =>
    /\ Len(missionItems) = Cardinality(DOMAIN vehicleItems)
    /\ Range(missionItems) = {AsRead(vehicleItems, seq) : seq \in DOMAIN vehicleItems}
    /\ prompt => \A i \in DOMAIN missionItems : missionItems[i] = AsRead(vehicleItems, i - 1)

(* The vehicle's plan is the list `items', item by item. *)
OnVehicle(items) ==
  /\ DOMAIN vehicleItems = 0 .. Len(items) - 1
  /\ \A i \in DOMAIN vehicleItems :
       Numbered(vehicleItems[i], i) = Numbered(items[i + 1], i)

(* When a write is reported sent over a prompt link, the plan the station  *)
(* keeps is the plan on the vehicle (PlanManager.h:152, "Set of mission    *)
(* items on vehicle"; _handleMissionRequest, _handleMissionAck); and when  *)
(* a removal is, the vehicle has no items left (_ackTimeout repeats        *)
(* CLEAR_ALL, and each copy is acked).                                     *)
PromptPlanIsOnVehicle ==
  prompt =>
    /\ "sendComplete" \in emitted => OnVehicle(missionItems)
    /\ "removeAllComplete" \in emitted => DOMAIN vehicleItems = {}

(* Every transaction ends: no wait of the manager is without a timer, and  *)
(* no retry goes on for ever (PlanManager::_ackTimeout).                   *)
TransactionEnds == InProgress ~> ~InProgress
================================================================================
