------------------------------ MODULE PlanManager ------------------------------
(***************************************************************************)
(* PlanManager (and the two writes MissionManager adds to it): the ground  *)
(* station's half of the mission protocol, for one plan type.  One         *)
(* transaction at a time; every wait for the vehicle is guarded by a       *)
(* single-shot timer.  The module is open: Receive(m) is the handler for   *)
(* any message m a vehicle may send, and `outbox' holds what the last step *)
(* sent.  PlanTransfer closes it with a link and a vehicle.                *)
(*                                                                         *)
(* Left out: progress and error wording, the current-item index, and the   *)
(* early return for the offline editing vehicle.  A send on an expired     *)
(* primary link is a message the link loses.                               *)
(***************************************************************************)
EXTENDS MissionProtocol, FiniteSets, FiniteSetsExt

CONSTANTS
  OwnType,         \* _planType
  MaxRetryCount,   \* _maxRetryCount
  ApmFirmware,     \* _vehicle->apmFirmware()
  SendsHome,       \* firmwarePlugin()->sendHomePositionToVehicle(), or not a mission
  Plans            \* the lists writeMissionItems may be called with

ASSUME PlanManagerAssumption ==
  /\ OwnType \in PlanTypes
  /\ MaxRetryCount \in Nat
  /\ ApmFirmware \in BOOLEAN
  /\ SendsHome \in BOOLEAN
  /\ Plans \subseteq Seq(MissionItems)

VARIABLES
  transactionInProgress, expectedAck, timerActive, retryCount, resumeMission,
  itemIndicesToRead, itemIndicesToWrite, missionItemCountToRead,
  missionItems, writeMissionItems,
  connections,     \* connections of mavlinkMessageReceived to our slot
  served,          \* history: indices sent in the current write
  outbox,          \* messages sent by the last step
  emitted          \* signals, and error codes, emitted by the last step

lists == <<itemIndicesToRead, itemIndicesToWrite, missionItemCountToRead,
           missionItems, writeMissionItems>>
state == <<transactionInProgress, expectedAck, timerActive, retryCount,
           resumeMission, lists, connections, served>>
vars  == <<state, outbox, emitted>>

Transactions == {"None", "Read", "Write", "RemoveAll"}
Acks == {"AckNone", "AckMissionCount", "AckMissionItem", "AckMissionRequest",
         "AckMissionClearAll", "AckGuidedItem"}
Signals == {"newMissionItemsAvailable", "sendComplete", "sendCompleteError",
            "removeAllComplete", "removeAllCompleteError",
            "resumeMissionReady", "resumeMissionUploadFail"}
Errors == {"AckTimeoutError", "ProtocolError", "RequestRangeError",
           "VehicleAckError", "MaxRetryExceeded"}

InProgress == transactionInProgress # "None"

Init ==
  /\ transactionInProgress = "None" /\ expectedAck = "AckNone"
  /\ timerActive = FALSE /\ retryCount = 0 /\ resumeMission = FALSE
  /\ itemIndicesToRead = {} /\ itemIndicesToWrite = {}
  /\ missionItemCountToRead = 0
  /\ missionItems = <<>> /\ writeMissionItems = <<>>
  /\ connections = 0 /\ served = {} /\ outbox = <<>> /\ emitted = {}

--------------------------------------------------------------------------------
(* Steps the handlers are made of. *)

StartAckTimeout(ack) == expectedAck' = ack /\ timerActive' = TRUE

(* _checkForExpectedAck with a matching ack. *)
StopAckTimeout == expectedAck' = "AckNone" /\ timerActive' = FALSE

Ignore == outbox' = <<>> /\ emitted' = {} /\ UNCHANGED state

(* _finishTransaction, entered with `items' as the items read so far.      *)
(* errors holds the code of the error signalled first, if there was one.   *)
FinishTransaction(success, guided, items, errors) ==
  /\ connections' = 0
  /\ itemIndicesToRead' = {} /\ itemIndicesToWrite' = {}
  /\ transactionInProgress' = "None"
  /\ LET written == transactionInProgress = "Write" /\ ~guided
     IN  /\ missionItems' = CASE transactionInProgress = "Read" /\ ~success -> <<>>
                              [] written /\ success -> writeMissionItems
                              [] OTHER -> items
         /\ writeMissionItems' = IF written THEN <<>> ELSE writeMissionItems
         /\ emitted' = errors
              \cup {s \in {"newMissionItemsAvailable"} : transactionInProgress = "Read"}
              \cup {s \in {IF success THEN "sendComplete" ELSE "sendCompleteError"} : written}
              \cup {s \in {IF success THEN "removeAllComplete" ELSE "removeAllCompleteError"} :
                      transactionInProgress = "RemoveAll"}
              \cup {s \in {IF success THEN "resumeMissionReady" ELSE "resumeMissionUploadFail"} :
                      resumeMission}
  /\ resumeMission' = FALSE
  /\ UNCHANGED <<missionItemCountToRead, served>>

Fail(error, guided) == FinishTransaction(FALSE, guided, missionItems, {error})

RequestList ==
  /\ itemIndicesToRead' = {} /\ missionItems' = <<>>
  /\ outbox' = <<RequestListMsg(OwnType)>>
  /\ StartAckTimeout("AckMissionCount")
  /\ UNCHANGED <<itemIndicesToWrite, missionItemCountToRead, writeMissionItems>>

(* The list is ascending, so its first element is the smallest. *)
RequestNextMissionItem(indices) ==
  /\ outbox' = <<MissionRequestMsg(Min(indices), OwnType)>>
  /\ StartAckTimeout("AckMissionItem")

WriteMissionCount(items) ==
  /\ outbox' = <<MissionCountMsg(Len(items), OwnType)>>
  /\ StartAckTimeout("AckMissionRequest")

RemoveAllWorker ==
  /\ connections' = connections + 1
  /\ outbox' = <<ClearAllMsg(OwnType)>>
  /\ StartAckTimeout("AckMissionClearAll")

ReadTransactionComplete(items) ==
  /\ StopAckTimeout
  /\ outbox' = <<MissionAckMsg("ACCEPTED", OwnType)>>
  /\ FinishTransaction(TRUE, FALSE, items, {})

--------------------------------------------------------------------------------
(* Calls from the controllers. *)

(* Mutant of LoadFromVehicle: not refused while a transaction is under way.*)
LoadFromVehicleAnytime ==
  /\ retryCount' = 0
  /\ transactionInProgress' = "Read"
  /\ connections' = connections + 1
  /\ RequestList
  /\ emitted' = {}
  /\ UNCHANGED <<resumeMission, served>>

LoadFromVehicle ==
  /\ ~InProgress
  /\ retryCount' = 0
  /\ transactionInProgress' = "Read"
  /\ connections' = connections + 1
  /\ RequestList
  /\ emitted' = {}
  /\ UNCHANGED <<resumeMission, served>>

(* _writeMissionItemsWorker *)
BeginWrite(items) ==
  /\ writeMissionItems' = items
  /\ itemIndicesToWrite' = 0 .. Len(items) - 1
  /\ served' = {}
  /\ retryCount' = 0
  /\ transactionInProgress' = "Write"
  /\ connections' = connections + 1
  /\ WriteMissionCount(items)
  /\ emitted' = {}
  /\ UNCHANGED <<itemIndicesToRead, missionItemCountToRead, missionItems>>

WriteMissionItems(plan) ==
  /\ ~InProgress
  /\ BeginWrite(ItemsToWrite(plan, ~SendsHome))
  /\ UNCHANGED resumeMission

(* generateResumeMission: which of the current items it keeps is an input, *)
(* the last one always among them; it refuses a plan with a DO_JUMP.  An   *)
(* empty plan, which the code indexes out of range, is no input here.      *)
GenerateResumeMission(kept) ==
  /\ ~InProgress
  /\ \A i \in DOMAIN missionItems : missionItems[i].command # "DO_JUMP"
  /\ kept[Len(kept)] = Len(missionItems)
  /\ \A i, j \in DOMAIN kept : i < j => kept[i] < kept[j]
  /\ resumeMission' = TRUE
  /\ BeginWrite([n \in DOMAIN kept |-> [missionItems[kept[n]] EXCEPT !.seq = n - 1]])

(* Neither the retry count nor the write lists are touched. *)
WriteArduPilotGuidedMissionItem ==
  /\ ~InProgress
  /\ transactionInProgress' = "Write"
  /\ connections' = connections + 1
  /\ outbox' = <<GuidedItemMsg>>
  /\ StartAckTimeout("AckGuidedItem")
  /\ emitted' = {}
  /\ UNCHANGED <<retryCount, resumeMission, lists, served>>

RemoveAll ==
  /\ ~InProgress
  /\ missionItems' = <<>>
  /\ retryCount' = 0
  /\ transactionInProgress' = "RemoveAll"
  /\ RemoveAllWorker
  /\ emitted' = {}
  /\ UNCHANGED <<resumeMission, itemIndicesToRead, itemIndicesToWrite,
                 missionItemCountToRead, writeMissionItems, served>>

--------------------------------------------------------------------------------
(* Message handlers.  Messages only reach them while the slot is connected.*)

HandleMissionCount(m) ==
  /\ m.msgid = "MISSION_COUNT"
  /\ IF m.type # OwnType \/ expectedAck # "AckMissionCount" THEN Ignore
     ELSE /\ retryCount' = 0
          /\ IF m.count = 0
               THEN ReadTransactionComplete(missionItems)
               ELSE /\ itemIndicesToRead' = 0 .. m.count - 1
                    /\ missionItemCountToRead' = m.count
                    /\ RequestNextMissionItem(0 .. m.count - 1)
                    /\ emitted' = {}
                    /\ UNCHANGED <<transactionInProgress, resumeMission, connections,
                         itemIndicesToWrite, missionItems, writeMissionItems, served>>

(* Mutant of HandleMissionItem: the wait is not resumed after an item that *)
(* was not asked for.                                                      *)
HandleMissionItemOnce(m) ==
  /\ m.msgid = "MISSION_ITEM_INT"
  /\ LET item == ShiftJump(m.item, IF SendsHome THEN 0 ELSE 1)
         rest == itemIndicesToRead \ {m.item.seq}
     IN  CASE expectedAck # "AckMissionItem" -> Ignore
           [] expectedAck = "AckMissionItem" /\ m.item.seq \notin itemIndicesToRead ->
                /\ StopAckTimeout
                /\ outbox' = <<>> /\ emitted' = {}
                /\ UNCHANGED <<transactionInProgress, retryCount, resumeMission,
                               lists, connections, served>>
           [] OTHER ->
                /\ retryCount' = 0
                /\ IF rest = {}
                     THEN ReadTransactionComplete(Append(missionItems, item))
                     ELSE /\ itemIndicesToRead' = rest
                          /\ missionItems' = Append(missionItems, item)
                          /\ RequestNextMissionItem(rest)
                          /\ emitted' = {}
                          /\ UNCHANGED <<transactionInProgress, resumeMission, connections,
                               itemIndicesToWrite, missionItemCountToRead,
                               writeMissionItems, served>>

(* Mutant of HandleMissionItem: every item is appended. *)
HandleEveryMissionItem(m) ==
  /\ m.msgid = "MISSION_ITEM_INT"
  /\ LET item == ShiftJump(m.item, IF SendsHome THEN 0 ELSE 1)
         rest == itemIndicesToRead \ {m.item.seq}
     IN  IF expectedAck # "AckMissionItem" THEN Ignore
         ELSE /\ retryCount' = 0
              /\ IF rest = {}
                   THEN ReadTransactionComplete(Append(missionItems, item))
                   ELSE /\ itemIndicesToRead' = rest
                        /\ missionItems' = Append(missionItems, item)
                        /\ RequestNextMissionItem(rest)
                        /\ emitted' = {}
                        /\ UNCHANGED <<transactionInProgress, resumeMission, connections,
                             itemIndicesToWrite, missionItemCountToRead,
                             writeMissionItems, served>>

(* The mission type of the item is not looked at.  On ArduPilot an         *)
(* unexpected item 0 updates the home position and nothing else.           *)
HandleMissionItem(m) ==
  /\ m.msgid = "MISSION_ITEM_INT"
  /\ LET seq  == m.item.seq
         item == ShiftJump(m.item, IF SendsHome THEN 0 ELSE 1)
         rest == itemIndicesToRead \ {seq}
     IN  CASE expectedAck # "AckMissionItem" -> Ignore
           [] expectedAck = "AckMissionItem" /\ seq \notin itemIndicesToRead ->
                /\ StartAckTimeout("AckMissionItem")
                /\ outbox' = <<>> /\ emitted' = {}
                /\ UNCHANGED <<transactionInProgress, retryCount, resumeMission,
                               lists, connections, served>>
           [] OTHER ->
                /\ retryCount' = 0
                /\ IF rest = {}
                     THEN ReadTransactionComplete(Append(missionItems, item))
                     ELSE /\ itemIndicesToRead' = rest
                          /\ missionItems' = Append(missionItems, item)
                          /\ RequestNextMissionItem(rest)
                          /\ emitted' = {}
                          /\ UNCHANGED <<transactionInProgress, resumeMission, connections,
                               itemIndicesToWrite, missionItemCountToRead,
                               writeMissionItems, served>>

(* Mutant of HandleMissionRequest: a request for an item is taken to mean  *)
(* that the ones before it have arrived.                                   *)
HandleCumulativeRequest(m) ==
  /\ m.msgid = "MISSION_REQUEST_INT"
  /\ IF m.type # OwnType \/ expectedAck # "AckMissionRequest" \/ m.seq >= Len(writeMissionItems)
       THEN Ignore
       ELSE /\ itemIndicesToWrite' = itemIndicesToWrite \ (0 .. m.seq)
            /\ served' = served \cup {m.seq}
            /\ outbox' = <<MissionItemMsg(
                             [writeMissionItems[m.seq + 1] EXCEPT !.seq = m.seq], OwnType)>>
            /\ StartAckTimeout("AckMissionRequest")
            /\ emitted' = {}
            /\ UNCHANGED <<transactionInProgress, retryCount, resumeMission, connections,
                 itemIndicesToRead, missionItemCountToRead, missionItems, writeMissionItems>>

HandleMissionRequest(m) ==
  /\ m.msgid = "MISSION_REQUEST_INT"
  /\ IF m.type # OwnType \/ expectedAck # "AckMissionRequest" THEN Ignore
     ELSE /\ UNCHANGED retryCount
          /\ IF m.seq >= Len(writeMissionItems)
               THEN StopAckTimeout /\ outbox' = <<>> /\ Fail("RequestRangeError", FALSE)
               ELSE /\ itemIndicesToWrite' = itemIndicesToWrite \ {m.seq}
                    /\ served' = served \cup {m.seq}
                    /\ outbox' = <<MissionItemMsg(
                                     [writeMissionItems[m.seq + 1] EXCEPT !.seq = m.seq], OwnType)>>
                    /\ StartAckTimeout("AckMissionRequest")
                    /\ emitted' = {}
                    /\ UNCHANGED <<transactionInProgress, resumeMission, connections,
                         itemIndicesToRead, missionItemCountToRead,
                         missionItems, writeMissionItems>>

(* Mutant of HandleMissionAck: an accepting ack ends a write successfully  *)
(* even if the vehicle has not asked for every item.                       *)
HandleEarlyMissionAck(m) ==
  /\ m.msgid = "MISSION_ACK"
  /\ IF \/ m.type # OwnType \/ expectedAck = "AckNone"
        \/ ApmFirmware /\ m.result = "INVALID_SEQUENCE"
     THEN Ignore
     ELSE /\ StopAckTimeout
          /\ outbox' = <<>>
          /\ UNCHANGED retryCount
          /\ IF m.result = "ACCEPTED" /\ transactionInProgress # "Read"
               THEN FinishTransaction(TRUE, expectedAck = "AckGuidedItem", missionItems, {})
               ELSE Fail("VehicleAckError", expectedAck = "AckGuidedItem")

(* An ack ends the transaction whatever it was waiting for. *)
HandleMissionAck(m) ==
  /\ m.msgid = "MISSION_ACK"
  /\ LET accepted == m.result = "ACCEPTED"
         success  == \/ expectedAck = "AckMissionRequest" /\ itemIndicesToWrite = {}
                     \/ expectedAck \in {"AckMissionClearAll", "AckGuidedItem"}
     IN  IF \/ m.type # OwnType \/ expectedAck = "AckNone"
            \/ ApmFirmware /\ m.result = "INVALID_SEQUENCE"
         THEN Ignore
         ELSE /\ StopAckTimeout
              /\ outbox' = <<>>
              /\ UNCHANGED retryCount
              /\ IF accepted /\ success
                   THEN FinishTransaction(TRUE, expectedAck = "AckGuidedItem", missionItems, {})
                   ELSE Fail("VehicleAckError", expectedAck = "AckGuidedItem")

Receive(m) ==
  \/ connections = 0 /\ Ignore
  \/ /\ connections > 0
     /\ \/ HandleMissionCount(m)
        \/ HandleMissionItem(m)
        \/ HandleMissionRequest(m)
        \/ HandleMissionAck(m)

--------------------------------------------------------------------------------
(* _ackTimeout: the single-shot timer has fired. *)

GiveUp(error) == timerActive' = FALSE /\ outbox' = <<>> /\ Fail(error, FALSE)

Retry == retryCount' = retryCount + 1 /\ emitted' = {}

TimeoutRead ==
  /\ expectedAck \in {"AckMissionCount", "AckMissionItem"}
  /\ IF retryCount > MaxRetryCount
       THEN GiveUp("MaxRetryExceeded") /\ UNCHANGED <<expectedAck, retryCount>>
       ELSE /\ Retry
            /\ UNCHANGED <<transactionInProgress, resumeMission, connections, served>>
            /\ IF expectedAck = "AckMissionCount" THEN RequestList
               ELSE RequestNextMissionItem(itemIndicesToRead) /\ UNCHANGED lists

(* Only a write whose first item has not been asked for is retried. *)
TimeoutWrite ==
  /\ expectedAck = "AckMissionRequest"
  /\ CASE itemIndicesToWrite = {} ->
            GiveUp("ProtocolError") /\ UNCHANGED <<expectedAck, retryCount>>
       [] 0 \in itemIndicesToWrite /\ retryCount > MaxRetryCount ->
            GiveUp("MaxRetryExceeded") /\ UNCHANGED <<expectedAck, retryCount>>
       [] 0 \in itemIndicesToWrite /\ retryCount <= MaxRetryCount ->
            /\ Retry
            /\ WriteMissionCount(writeMissionItems)
            /\ UNCHANGED <<transactionInProgress, resumeMission, lists, connections, served>>
       [] OTHER ->
            GiveUp("ProtocolError") /\ expectedAck' = "AckNone" /\ UNCHANGED retryCount

(* Mutant of TimeoutClearAll: silence is taken for success. *)
TimeoutClearAllSucceeds ==
  /\ expectedAck = "AckMissionClearAll"
  /\ timerActive' = FALSE /\ outbox' = <<>>
  /\ FinishTransaction(TRUE, FALSE, missionItems, {})
  /\ UNCHANGED <<expectedAck, retryCount>>

TimeoutClearAll ==
  /\ expectedAck = "AckMissionClearAll"
  /\ IF retryCount > MaxRetryCount
       THEN GiveUp("MaxRetryExceeded") /\ UNCHANGED <<expectedAck, retryCount>>
       ELSE /\ Retry
            /\ RemoveAllWorker
            /\ UNCHANGED <<transactionInProgress, resumeMission, lists, served>>

TimeoutGuided ==
  /\ expectedAck = "AckGuidedItem"
  /\ GiveUp("AckTimeoutError") /\ expectedAck' = "AckNone" /\ UNCHANGED retryCount

AckTimeout ==
  /\ timerActive
  /\ TimeoutRead \/ TimeoutWrite \/ TimeoutClearAll \/ TimeoutGuided

--------------------------------------------------------------------------------
Call ==
  \/ LoadFromVehicle
  \/ \E plan \in Plans : WriteMissionItems(plan)
  \/ \E n \in DOMAIN missionItems : \E kept \in [1 .. n -> DOMAIN missionItems] :
       GenerateResumeMission(kept)
  \/ WriteArduPilotGuidedMissionItem
  \/ RemoveAll

================================================================================
