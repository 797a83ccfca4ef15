--------------------------- MODULE MissionItemHandler ---------------------------
(***************************************************************************)
(* MockLinkMissionItemHandler: the vehicle's half of the mission protocol, *)
(* for one plan type, with the failure modes the unit tests select.  The   *)
(* no-response modes are absent: a response that is not sent is a response *)
(* the link loses.  Its response timer only asserts and is left out, and   *)
(* so is the home position for an empty list: nothing in the repository    *)
(* calls setSendHomePositionOnEmptyList.                                   *)
(***************************************************************************)
EXTENDS MissionProtocol, Functions, FiniteSets

CONSTANTS
  HandlerType,    \* the plan type of the messages
  EmptyItem,      \* what the map of items returns for an index it lacks
  FailureModes    \* the pairs <<mode, index>> a test may select

VARIABLES
  vehicleItems,          \* _missionItems: partial function from index to item
  writeSequenceCount, writeSequenceIndex,
  failureMode,
  toGcs                  \* messages on their way to the ground station

vehicle == <<vehicleItems, writeSequenceCount, writeSequenceIndex, failureMode>>

NoItems == [i \in {} |-> EmptyItem]

VehicleInit(plan) ==
  /\ vehicleItems = [i \in 0 .. Len(plan) - 1 |-> plan[i + 1]]
  /\ writeSequenceCount = 0 /\ writeSequenceIndex = 0
  /\ failureMode \in FailureModes
  /\ toGcs = <<>>

Store(items, i, item) == [j \in DOMAIN items \cup {i} |-> IF j = i THEN item ELSE items[j]]

Send(m) == toGcs' = Append(toGcs, m)

SendAck(result) == Send(MissionAckMsg(result, HandlerType))

HandleClearAll(m) ==
  /\ m.msgid = "MISSION_CLEAR_ALL"
  /\ vehicleItems' = NoItems
  /\ SendAck("ACCEPTED")
  /\ UNCHANGED <<writeSequenceCount, writeSequenceIndex, failureMode>>

HandleRequestList(m) ==
  /\ m.msgid = "MISSION_REQUEST_LIST"
  /\ Send(MissionCountMsg(Cardinality(DOMAIN vehicleItems), HandlerType))
  /\ UNCHANGED vehicle

(* Looking up an index the map lacks inserts an empty item for it. *)
HandleReadRequest(m) ==
  /\ m.msgid = "MISSION_REQUEST_INT"
  /\ LET seq   == IF failureMode = <<"ReadIncorrectSequence", m.seq>>
                    THEN m.seq + 1 ELSE m.seq
         items == IF seq \in DOMAIN vehicleItems THEN vehicleItems
                    ELSE Store(vehicleItems, seq, EmptyItem)
     IN  IF failureMode = <<"ReadErrorAck", seq>>
           THEN SendAck("ERROR") /\ UNCHANGED vehicleItems
           ELSE /\ Send(MissionItemMsg([items[seq] EXCEPT !.seq = seq], HandlerType))
                /\ vehicleItems' = items
  /\ UNCHANGED <<writeSequenceCount, writeSequenceIndex, failureMode>>

(* Asks the ground station for an item of the plan it writes. *)
RequestItem(seq) ==
  IF failureMode = <<"WriteErrorAck", seq>>
    THEN SendAck("ERROR")
    ELSE Send(MissionRequestMsg(
                IF failureMode = <<"WriteIncorrectSequence", seq>> THEN seq + 1 ELSE seq,
                HandlerType))

HandleCount(m) ==
  /\ m.msgid = "MISSION_COUNT"
  /\ vehicleItems' = NoItems
  /\ writeSequenceCount' = m.count
  /\ IF m.count = 0
       THEN SendAck("ACCEPTED") /\ UNCHANGED writeSequenceIndex
       ELSE RequestItem(0) /\ writeSequenceIndex' = 0
  /\ UNCHANGED failureMode

(* Items are counted, whichever index they have. *)
HandleItem(m) ==
  /\ m.msgid = "MISSION_ITEM_INT"
  /\ vehicleItems' = Store(vehicleItems, m.item.seq, m.item)
  /\ writeSequenceIndex' = writeSequenceIndex + 1
  /\ LET next == writeSequenceIndex + 1
     IN  CASE next >= writeSequenceCount ->
                SendAck(IF failureMode[1] = "FinalAckError" THEN "ERROR" ELSE "ACCEPTED")
           [] next < writeSequenceCount /\ failureMode = <<"FinalAckEarly", next>> ->
                SendAck("ACCEPTED")
           [] OTHER -> RequestItem(next)
  /\ UNCHANGED <<writeSequenceCount, failureMode>>

(* Acks and the guided item are not answered by this handler. *)
HandleOther(m) ==
  /\ m.msgid \in {"MISSION_ACK", "MISSION_ITEM"}
  /\ UNCHANGED <<vehicle, toGcs>>

HandleMessage(m) ==
  \/ HandleClearAll(m)
  \/ HandleRequestList(m)
  \/ HandleReadRequest(m)
  \/ HandleCount(m)
  \/ HandleItem(m)
  \/ HandleOther(m)
================================================================================
