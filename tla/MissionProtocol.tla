---------------------------- MODULE MissionProtocol ----------------------------
(***************************************************************************)
(* The data of the MAVLink mission microservice as QGroundControl uses it: *)
(* mission items, the messages exchanged by PlanManager and the vehicle,   *)
(* and the renumbering of items for vehicles that are not sent their home  *)
(* position.  An item keeps the parts the code looks into: its sequence    *)
(* number, its command, and param1 (the target of a DO_JUMP).              *)
(***************************************************************************)
EXTENDS Integers, Sequences

CONSTANTS
  PlanTypes,   \* MAV_MISSION_TYPE values: one per PlanManager of the vehicle
  Commands     \* MAV_CMD values; "DO_JUMP" is the one that is looked into

MissionItems == [seq : Int, command : Commands, param1 : Int]

MavMissionResult == {"ACCEPTED", "ERROR", "INVALID_SEQUENCE"}

(* One constructor per message. *)
MissionCountMsg(n, t)   == [msgid |-> "MISSION_COUNT", count |-> n, type |-> t]
MissionItemMsg(item, t) == [msgid |-> "MISSION_ITEM_INT", item |-> item, type |-> t]
MissionRequestMsg(i, t) == [msgid |-> "MISSION_REQUEST_INT", seq |-> i, type |-> t]
MissionAckMsg(r, t)     == [msgid |-> "MISSION_ACK", result |-> r, type |-> t]
RequestListMsg(t)       == [msgid |-> "MISSION_REQUEST_LIST", type |-> t]
ClearAllMsg(t)          == [msgid |-> "MISSION_CLEAR_ALL", type |-> t]
GuidedItemMsg           == [msgid |-> "MISSION_ITEM"]

(* Items whose DO_JUMP target, if they have one, is moved by d. *)
ShiftJump(item, d) ==
  IF item.command = "DO_JUMP" THEN [item EXCEPT !.param1 = @ + d] ELSE item

(* What writeMissionItems makes of the plan it is handed: a vehicle that   *)
(* is not sent its home position gets the plan without item 0, the rest    *)
(* renumbered to start at 0 and the jump targets moved with them.          *)
ItemsToWrite(plan, skipFirstItem) ==
  IF skipFirstItem
    THEN [i \in 1 .. Len(plan) - 1 |->
            ShiftJump([plan[i + 1] EXCEPT !.seq = @ - 1], -1)]
    ELSE plan
================================================================================
