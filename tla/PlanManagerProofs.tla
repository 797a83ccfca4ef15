---------------------------- MODULE PlanManagerProofs ----------------------------
(***************************************************************************)
(* Theorems about PlanManager, for every plan, every retry limit and every *)
(* vehicle: what is proved of PlanManagerOpen holds of PlanManager joined  *)
(* to any link and any vehicle.  The second half joins it to the vehicle   *)
(* of PlanTransfer, where what is reported can be compared with what the   *)
(* vehicle holds.                                                          *)
(***************************************************************************)
EXTENDS PlanManagerOpen, PlanTransfer, FiniteSetTheorems, WellFoundedInduction, TLAPS

(* A read that has not heard the count yet has no items. *)
ReadStartsEmpty ==
  (transactionInProgress = "Read" /\ expectedAck = "AckMissionCount") => missionItems = <<>>

IInv == TypeOK /\ TransactionIsGuarded /\ ReadPartition /\ WritePartition /\ ReadStartsEmpty

USE DEF InProgress

--------------------------------------------------------------------------------
(* Moving a jump target gives an item again, with the same number. *)
LEMMA ShiftJumpType ==
  ASSUME NEW item \in MissionItems, NEW d \in Int
  PROVE  /\ ShiftJump(item, d) \in MissionItems
         /\ ShiftJump(item, d).seq = item.seq
BY DEF ShiftJump, MissionItems

(* Renumbering an item gives an item. *)
LEMMA RenumberType ==
  ASSUME NEW item \in MissionItems, NEW s \in Int
  PROVE  [item EXCEPT !.seq = s] \in MissionItems
BY DEF MissionItems

(* What is written of a plan is a list of items. *)
LEMMA ItemsToWriteType ==
  ASSUME NEW plan \in Seq(MissionItems), NEW skip \in BOOLEAN
  PROVE  ItemsToWrite(plan, skip) \in Seq(MissionItems)
<1>1. CASE ~skip
  BY <1>1 DEF ItemsToWrite
<1>2. CASE skip
  <2>. DEFINE n == Len(plan) - 1
              F == [i \in 1 .. n |-> ShiftJump([plan[i + 1] EXCEPT !.seq = @ - 1], -1)]
  <2>1. \A i \in 1 .. n : F[i] \in MissionItems
    <3>. TAKE i \in 1 .. n
    <3>1. plan[i + 1] \in MissionItems
      OBVIOUS
    <3>2. [plan[i + 1] EXCEPT !.seq = @ - 1] \in MissionItems
      <4>1. plan[i + 1].seq - 1 \in Int
        BY <3>1 DEF MissionItems
      <4>. QED  BY <3>1, <4>1, RenumberType
    <3>. QED  BY <3>2, ShiftJumpType
  <2>2. CASE n >= 0
    BY <2>1, <2>2, <1>2 DEF ItemsToWrite
  <2>3. CASE n < 0
    <3>1. F = <<>>
      BY <2>3
    <3>. QED  BY <3>1, <1>2 DEF ItemsToWrite
  <2>. QED  BY <2>2, <2>3
<1>. QED  BY <1>1, <1>2

(* So is what a resumed mission keeps of the current one. *)
LEMMA ResumedItemsType ==
  ASSUME missionItems \in Seq(MissionItems), NEW n \in DOMAIN missionItems,
         NEW kept \in [1 .. n -> DOMAIN missionItems], GenerateResumeMission(kept)
  PROVE  \E items \in Seq(MissionItems) : BeginWrite(items)
<1>. DEFINE F == [i \in 1 .. n |-> [missionItems[kept[i]] EXCEPT !.seq = i - 1]]
<1>1. n \in Nat
  OBVIOUS
<1>2. \A i \in 1 .. n : F[i] \in MissionItems
  <2>. TAKE i \in 1 .. n
  <2>1. missionItems[kept[i]] \in MissionItems
    BY <1>1
  <2>. QED  BY <1>1, <2>1, RenumberType
<1>3. F \in Seq(MissionItems)
  BY <1>1, <1>2
<1>4. BeginWrite(F)
  BY DEF GenerateResumeMission
<1>. QED  BY <1>3, <1>4

--------------------------------------------------------------------------------
(* _finishTransaction leaves the manager idle and unguarded, provided the  *)
(* caller has stopped the timer. *)
LEMMA FinishKeepsIInv ==
  ASSUME IInv, NEW success \in BOOLEAN, NEW guided \in BOOLEAN,
         NEW items \in Seq(MissionItems), NEW errors \in SUBSET Errors,
         FinishTransaction(success, guided, items, errors),
         timerActive' = FALSE, expectedAck' \in Acks,
         retryCount' \in 0 .. MaxRetryCount + 1
  PROVE  IInv'
<1>1. /\ transactionInProgress' = "None" /\ connections' = 0
      /\ itemIndicesToRead' = {} /\ itemIndicesToWrite' = {}
      /\ resumeMission' = FALSE
      /\ missionItemCountToRead' = missionItemCountToRead /\ served' = served
  BY DEF FinishTransaction
<1>2. /\ missionItems' \in Seq(MissionItems)
      /\ writeMissionItems' \in Seq(MissionItems)
  BY DEF FinishTransaction, IInv, TypeOK
<1>3. emitted' \subseteq Signals \cup Errors
  BY DEF FinishTransaction, Signals
<1>4. TypeOK'
  BY <1>1, <1>2, <1>3 DEF IInv, TypeOK, Transactions
<1>5. TransactionIsGuarded'
  BY <1>1 DEF TransactionIsGuarded, AcksOf
<1>6. ReadPartition' /\ WritePartition' /\ ReadStartsEmpty'
  BY <1>1 DEF ReadPartition, WritePartition, ReadStartsEmpty
<1>. QED  BY <1>4, <1>5, <1>6 DEF IInv

(* A write of any list of items starts guarded, with everything to send.   *)
LEMMA BeginWriteKeepsIInv ==
  ASSUME IInv, NEW items \in Seq(MissionItems), BeginWrite(items),
         resumeMission' \in BOOLEAN
  PROVE  IInv'
<1>1. /\ writeMissionItems' = items /\ missionItems' = missionItems
      /\ transactionInProgress' = "Write" /\ expectedAck' = "AckMissionRequest"
      /\ timerActive' = TRUE /\ retryCount' = 0
      /\ connections' = connections + 1
      /\ itemIndicesToWrite' = 0 .. Len(items) - 1 /\ served' = {}
      /\ itemIndicesToRead' = itemIndicesToRead
      /\ missionItemCountToRead' = missionItemCountToRead /\ emitted' = {}
  BY DEF BeginWrite, WriteMissionCount, StartAckTimeout
<1>2. TypeOK'
  <2>1. Len(items) \in Nat
    OBVIOUS
  <2>. QED  BY <1>1, <2>1, PlanManagerAssumption DEF IInv, TypeOK, Transactions, Acks
<1>3. TransactionIsGuarded'
  BY <1>1 DEF IInv, TypeOK, TransactionIsGuarded, AcksOf
<1>4. ReadPartition' /\ WritePartition' /\ ReadStartsEmpty'
  BY <1>1 DEF ReadPartition, WritePartition, ReadStartsEmpty
<1>. QED  BY <1>2, <1>3, <1>4 DEF IInv

(* The calls of the controllers. *)
LEMMA CallKeepsIInv == ASSUME IInv, Call PROVE IInv'
<1>1. CASE LoadFromVehicle
  <2>1. /\ transactionInProgress' = "Read" /\ expectedAck' = "AckMissionCount"
        /\ timerActive' = TRUE /\ retryCount' = 0 /\ connections' = connections + 1
        /\ itemIndicesToRead' = {} /\ missionItems' = <<>> /\ emitted' = {}
        /\ UNCHANGED <<resumeMission, served, itemIndicesToWrite,
                       missionItemCountToRead, writeMissionItems>>
    BY <1>1 DEF LoadFromVehicle, RequestList, StartAckTimeout
  <2>2. TypeOK'
    BY <2>1, PlanManagerAssumption DEF IInv, TypeOK, Transactions, Acks
  <2>3. TransactionIsGuarded'
    BY <2>1 DEF IInv, TypeOK, TransactionIsGuarded, AcksOf
  <2>4. ReadPartition' /\ WritePartition' /\ ReadStartsEmpty'
    BY <2>1 DEF ReadPartition, WritePartition, ReadStartsEmpty
  <2>. QED  BY <2>2, <2>3, <2>4 DEF IInv
<1>2. ASSUME NEW plan \in Plans, WriteMissionItems(plan) PROVE IInv'
  <2>1. ItemsToWrite(plan, ~SendsHome) \in Seq(MissionItems)
    BY PlanManagerAssumption, ItemsToWriteType
  <2>. QED  BY <1>2, <2>1, BeginWriteKeepsIInv DEF WriteMissionItems, IInv, TypeOK
<1>3. ASSUME NEW n \in DOMAIN missionItems, NEW kept \in [1 .. n -> DOMAIN missionItems],
             GenerateResumeMission(kept)
      PROVE  IInv'
  <2>1. PICK items \in Seq(MissionItems) : BeginWrite(items)
    BY <1>3, ResumedItemsType DEF IInv, TypeOK
  <2>2. resumeMission' = TRUE
    BY <1>3 DEF GenerateResumeMission
  <2>. QED  BY <2>1, <2>2, BeginWriteKeepsIInv
<1>4. CASE WriteArduPilotGuidedMissionItem
  <2>1. /\ transactionInProgress' = "Write" /\ expectedAck' = "AckGuidedItem"
        /\ timerActive' = TRUE /\ connections' = connections + 1 /\ emitted' = {}
        /\ UNCHANGED <<retryCount, resumeMission, served, itemIndicesToRead,
              itemIndicesToWrite, missionItemCountToRead, missionItems, writeMissionItems>>
    BY <1>4 DEF WriteArduPilotGuidedMissionItem, StartAckTimeout, lists
  <2>2. TypeOK'
    BY <2>1 DEF IInv, TypeOK, Transactions, Acks
  <2>3. TransactionIsGuarded'
    BY <2>1 DEF IInv, TypeOK, TransactionIsGuarded, AcksOf
  <2>4. ReadPartition' /\ WritePartition' /\ ReadStartsEmpty'
    BY <2>1 DEF ReadPartition, WritePartition, ReadStartsEmpty
  <2>. QED  BY <2>2, <2>3, <2>4 DEF IInv
<1>5. CASE RemoveAll
  <2>1. /\ transactionInProgress' = "RemoveAll" /\ expectedAck' = "AckMissionClearAll"
        /\ timerActive' = TRUE /\ retryCount' = 0 /\ connections' = connections + 1
        /\ missionItems' = <<>> /\ emitted' = {}
        /\ UNCHANGED <<resumeMission, served, itemIndicesToRead, itemIndicesToWrite,
                       missionItemCountToRead, writeMissionItems>>
    BY <1>5 DEF RemoveAll, RemoveAllWorker, StartAckTimeout
  <2>2. TypeOK'
    BY <2>1, PlanManagerAssumption DEF IInv, TypeOK, Transactions, Acks
  <2>3. TransactionIsGuarded'
    BY <2>1 DEF IInv, TypeOK, TransactionIsGuarded, AcksOf
  <2>4. ReadPartition' /\ WritePartition' /\ ReadStartsEmpty'
    BY <2>1 DEF ReadPartition, WritePartition, ReadStartsEmpty
  <2>. QED  BY <2>2, <2>3, <2>4 DEF IInv
<1>. QED  BY <1>1, <1>2, <1>3, <1>4, <1>5 DEF Call

(* A step that changes nothing but what it sent and emitted. *)
LEMMA IgnoreKeepsIInv == ASSUME IInv, Ignore \/ UNCHANGED vars PROVE IInv'
<1>1. /\ UNCHANGED <<transactionInProgress, expectedAck, timerActive, retryCount,
           resumeMission, itemIndicesToRead, itemIndicesToWrite, missionItemCountToRead,
           missionItems, writeMissionItems, connections, served>>
      /\ emitted' \in {{}, emitted}
  BY DEF Ignore, vars, state, lists
<1>2. TypeOK'
  BY <1>1 DEF IInv, TypeOK
<1>3. TransactionIsGuarded'
  BY <1>1 DEF IInv, TransactionIsGuarded
<1>4. ReadPartition' /\ WritePartition' /\ ReadStartsEmpty'
  BY <1>1 DEF IInv, ReadPartition, WritePartition, ReadStartsEmpty
<1>. QED  BY <1>2, <1>3, <1>4 DEF IInv

--------------------------------------------------------------------------------
(* A read that completes has stopped its timer and is idle. *)
LEMMA ReadCompleteKeepsIInv ==
  ASSUME IInv, NEW items \in Seq(MissionItems), ReadTransactionComplete(items),
         retryCount' = 0
  PROVE  IInv'
<1>1. /\ timerActive' = FALSE /\ expectedAck' = "AckNone"
      /\ FinishTransaction(TRUE, FALSE, items, {})
  BY DEF ReadTransactionComplete, StopAckTimeout
<1>2. expectedAck' \in Acks /\ retryCount' \in 0 .. MaxRetryCount + 1
  BY <1>1, PlanManagerAssumption DEF Acks
<1>3. {} \in SUBSET Errors
  OBVIOUS
<1>. QED  BY <1>1, <1>2, <1>3, FinishKeepsIInv

(* The handlers of MISSION_COUNT and MISSION_ITEM_INT. *)
LEMMA CountKeepsIInv ==
  ASSUME IInv, NEW m \in Messages, connections > 0, HandleMissionCount(m)
  PROVE  IInv'
<1>1. CASE m.type # OwnType \/ expectedAck # "AckMissionCount"
  BY <1>1, IgnoreKeepsIInv DEF HandleMissionCount
<1>2. CASE m.type = OwnType /\ expectedAck = "AckMissionCount"
  <2>1. transactionInProgress = "Read"
    BY <1>2 DEF IInv, TypeOK, TransactionIsGuarded, AcksOf, Transactions
  <2>2. missionItems = <<>> /\ m.count \in Nat
    BY <1>2, <2>1 DEF IInv, ReadStartsEmpty, Messages, HandleMissionCount
  <2>3. CASE m.count = 0
    <3>1. ReadTransactionComplete(missionItems) /\ retryCount' = 0
      BY <1>2, <2>3 DEF HandleMissionCount
    <3>2. missionItems \in Seq(MissionItems)
      BY DEF IInv, TypeOK
    <3>. QED  BY <3>1, <3>2, ReadCompleteKeepsIInv
  <2>4. CASE m.count # 0
    <3>1. /\ retryCount' = 0 /\ emitted' = {}
          /\ itemIndicesToRead' = 0 .. m.count - 1 /\ missionItemCountToRead' = m.count
          /\ expectedAck' = "AckMissionItem" /\ timerActive' = TRUE
          /\ UNCHANGED <<transactionInProgress, resumeMission, connections,
               itemIndicesToWrite, missionItems, writeMissionItems, served>>
      BY <1>2, <2>4 DEF HandleMissionCount, RequestNextMissionItem, StartAckTimeout
    <3>2. TypeOK'
      BY <2>2, <3>1, PlanManagerAssumption DEF IInv, TypeOK, Acks
    <3>3. TransactionIsGuarded'
      BY <2>1, <3>1 DEF IInv, TransactionIsGuarded, AcksOf
    <3>4. ReadPartition'
      <4>1. missionItems' = <<>> /\ DOMAIN <<>> = {}
        BY <2>2, <3>1
      <4>2. itemIndicesToRead' = 0 .. missionItemCountToRead' - 1 /\ itemIndicesToRead' # {}
        BY <2>2, <2>4, <3>1
      <4>. QED  BY <4>1, <4>2 DEF ReadPartition
    <3>5. WritePartition' /\ ReadStartsEmpty'
      BY <3>1 DEF WritePartition, ReadStartsEmpty
    <3>. QED  BY <3>2, <3>3, <3>4, <3>5 DEF IInv
  <2>. QED  BY <2>3, <2>4
<1>. QED  BY <1>1, <1>2

(* The handler of MISSION_ITEM_INT: every way out of it either leaves the  *)
(* read guarded or ends it.                                                *)
LEMMA ItemKeepsIInv ==
  ASSUME IInv, NEW m \in Messages, connections > 0, HandleMissionItem(m)
  PROVE  IInv'
<1>. DEFINE seq  == m.item.seq
            item == ShiftJump(m.item, IF SendsHome THEN 0 ELSE 1)
            rest == itemIndicesToRead \ {seq}
<1>0. m.item \in MissionItems /\ item \in MissionItems /\ item.seq = seq
  <2>1. m.item \in MissionItems
    BY DEF Messages, HandleMissionItem
  <2>. QED  BY <2>1, ShiftJumpType
<1>. HIDE DEF item
<1>1. CASE expectedAck # "AckMissionItem"
  BY <1>1, IgnoreKeepsIInv DEF HandleMissionItem
<1>2. CASE expectedAck = "AckMissionItem" /\ seq \notin itemIndicesToRead
  <2>1. /\ expectedAck' = "AckMissionItem" /\ timerActive' = TRUE /\ emitted' = {}
        /\ UNCHANGED <<transactionInProgress, retryCount, resumeMission, itemIndicesToRead,
             itemIndicesToWrite, missionItemCountToRead, missionItems, writeMissionItems,
             connections, served>>
    BY <1>2 DEF HandleMissionItem, StartAckTimeout, lists
  <2>2. TypeOK'
    BY <2>1 DEF IInv, TypeOK, Acks
  <2>3. TransactionIsGuarded'
    BY <1>2, <2>1 DEF IInv, TransactionIsGuarded
  <2>4. ReadPartition' /\ WritePartition' /\ ReadStartsEmpty'
    BY <1>2, <2>1 DEF IInv, ReadPartition, WritePartition, ReadStartsEmpty
  <2>. QED  BY <2>2, <2>3, <2>4 DEF IInv
<1>3. CASE expectedAck = "AckMissionItem" /\ seq \in itemIndicesToRead
  <2>1. Append(missionItems, item) \in Seq(MissionItems)
    BY <1>0 DEF IInv, TypeOK
  <2>2. CASE rest = {}
    <3>1. ReadTransactionComplete(Append(missionItems, item)) /\ retryCount' = 0
      BY <1>3, <2>2 DEF HandleMissionItem, item
    <3>. QED  BY <2>1, <3>1, ReadCompleteKeepsIInv
  <2>3. CASE rest # {}
    <3>1. /\ retryCount' = 0 /\ emitted' = {}
          /\ itemIndicesToRead' = rest
          /\ missionItems' = Append(missionItems, item)
          /\ expectedAck' = "AckMissionItem" /\ timerActive' = TRUE
          /\ UNCHANGED <<transactionInProgress, resumeMission, connections,
               itemIndicesToWrite, missionItemCountToRead, writeMissionItems, served>>
      BY <1>3, <2>3 DEF HandleMissionItem, RequestNextMissionItem, StartAckTimeout, item
    <3>2. TypeOK'
      <4>1. rest \subseteq Nat /\ missionItems' \in Seq(MissionItems)
        BY <2>1, <3>1 DEF IInv, TypeOK
      <4>. QED  BY <3>1, <4>1, PlanManagerAssumption DEF IInv, TypeOK, Acks
    <3>3. TransactionIsGuarded'
      BY <1>3, <3>1 DEF IInv, TransactionIsGuarded
    <3>4. ReadPartition'
      <4>. SUFFICES ASSUME transactionInProgress = "Read"
                    PROVE  ReadPartition'
        BY <3>1 DEF ReadPartition
      <4>. DEFINE N == 0 .. missionItemCountToRead - 1
      <4>1. /\ itemIndicesToRead \subseteq N
            /\ \A i \in DOMAIN missionItems : missionItems[i].seq \in N \ itemIndicesToRead
            /\ \A i, j \in DOMAIN missionItems :
                 i # j => missionItems[i].seq # missionItems[j].seq
            /\ \A k \in N \ itemIndicesToRead :
                 \E i \in DOMAIN missionItems : missionItems[i].seq = k
        BY <1>3 DEF IInv, ReadPartition
      <4>2. /\ DOMAIN missionItems = 1 .. Len(missionItems)
            /\ DOMAIN missionItems' = 1 .. Len(missionItems) + 1
            /\ \A i \in 1 .. Len(missionItems) : missionItems'[i] = missionItems[i]
            /\ missionItems'[Len(missionItems) + 1].seq = seq
            /\ Len(missionItems) \in Nat
        BY <1>0, <3>1 DEF IInv, TypeOK
      <4>3. rest # {} /\ rest \subseteq N
        BY <2>3, <4>1
      <4>4. \A i \in DOMAIN missionItems' : missionItems'[i].seq \in N \ rest
        <5>. TAKE i \in DOMAIN missionItems'
        <5>1. seq \in N \ rest
          BY <1>3, <4>1
        <5>2. CASE i \in DOMAIN missionItems
          BY <4>1, <4>2, <5>2
        <5>3. CASE i = Len(missionItems) + 1
          BY <4>2, <5>1, <5>3
        <5>. QED  BY <4>2, <5>2, <5>3
      <4>5. \A i, j \in DOMAIN missionItems' :
              i # j => missionItems'[i].seq # missionItems'[j].seq
        BY <1>3, <4>1, <4>2
      <4>6. \A k \in N \ rest : \E i \in DOMAIN missionItems' : missionItems'[i].seq = k
        BY <1>3, <4>1, <4>2
      <4>. QED  BY <3>1, <4>3, <4>4, <4>5, <4>6 DEF ReadPartition
    <3>5. WritePartition' /\ ReadStartsEmpty'
      BY <3>1 DEF WritePartition, ReadStartsEmpty
    <3>. QED  BY <3>2, <3>3, <3>4, <3>5 DEF IInv
  <2>. QED  BY <2>2, <2>3
<1>. QED  BY <1>1, <1>2, <1>3

(* Every failure is a _finishTransaction whose caller stopped the timer. *)
LEMMA FailKeepsIInv ==
  ASSUME IInv, NEW error \in Errors, NEW guided \in BOOLEAN, Fail(error, guided),
         timerActive' = FALSE, expectedAck' \in Acks, UNCHANGED retryCount
  PROVE  IInv'
<1>1. FinishTransaction(FALSE, guided, missionItems, {error})
  BY DEF Fail
<1>2. {error} \in SUBSET Errors
  OBVIOUS
<1>3. missionItems \in Seq(MissionItems) /\ retryCount' \in 0 .. MaxRetryCount + 1
  BY DEF IInv, TypeOK
<1>. QED  BY <1>1, <1>2, <1>3, FinishKeepsIInv

(* The handlers of MISSION_REQUEST and MISSION_ACK. *)
LEMMA RequestKeepsIInv ==
  ASSUME IInv, NEW m \in Messages, connections > 0, HandleMissionRequest(m)
  PROVE  IInv'
<1>1. CASE m.type # OwnType \/ expectedAck # "AckMissionRequest"
  BY <1>1, IgnoreKeepsIInv DEF HandleMissionRequest
<1>2. CASE m.type = OwnType /\ expectedAck = "AckMissionRequest"
  <2>1. m.seq \in Nat
    BY DEF HandleMissionRequest, Messages
  <2>2. CASE m.seq >= Len(writeMissionItems)
    <3>1. /\ timerActive' = FALSE /\ expectedAck' = "AckNone"
          /\ Fail("RequestRangeError", FALSE) /\ UNCHANGED retryCount
      BY <1>2, <2>2 DEF HandleMissionRequest, StopAckTimeout
    <3>2. "RequestRangeError" \in Errors /\ expectedAck' \in Acks
      BY <3>1 DEF Errors, Acks
    <3>. QED  BY <3>1, <3>2, FailKeepsIInv
  <2>3. CASE ~(m.seq >= Len(writeMissionItems))
    <3>1. /\ itemIndicesToWrite' = itemIndicesToWrite \ {m.seq}
          /\ served' = served \cup {m.seq}
          /\ expectedAck' = "AckMissionRequest" /\ timerActive' = TRUE /\ emitted' = {}
          /\ UNCHANGED <<transactionInProgress, retryCount, resumeMission, connections,
               itemIndicesToRead, missionItemCountToRead, missionItems, writeMissionItems>>
      BY <1>2, <2>3 DEF HandleMissionRequest, StartAckTimeout
    <3>2. TypeOK'
      BY <2>1, <3>1 DEF IInv, TypeOK, Acks
    <3>3. TransactionIsGuarded'
      BY <1>2, <3>1 DEF IInv, TransactionIsGuarded
    <3>4. WritePartition'
      <4>1. m.seq \in 0 .. Len(writeMissionItems) - 1
        BY <2>1, <2>3 DEF IInv, TypeOK
      <4>. QED  BY <1>2, <3>1, <4>1 DEF IInv, WritePartition
    <3>5. ReadPartition' /\ ReadStartsEmpty'
      BY <3>1 DEF ReadPartition, ReadStartsEmpty
    <3>. QED  BY <3>2, <3>3, <3>4, <3>5 DEF IInv
  <2>. QED  BY <2>2, <2>3
<1>. QED  BY <1>1, <1>2

(* The handler of MISSION_ACK: taken, ignored, or the end of a write.      *)
LEMMA AckKeepsIInv ==
  ASSUME IInv, NEW m \in Messages, connections > 0, HandleMissionAck(m)
  PROVE  IInv'
<1>1. CASE \/ m.type # OwnType \/ expectedAck = "AckNone"
           \/ ApmFirmware /\ m.result = "INVALID_SEQUENCE"
  BY <1>1, IgnoreKeepsIInv DEF HandleMissionAck
<1>2. CASE ~(\/ m.type # OwnType \/ expectedAck = "AckNone"
             \/ ApmFirmware /\ m.result = "INVALID_SEQUENCE")
  <2>. DEFINE guided == expectedAck = "AckGuidedItem"
  <2>1. /\ timerActive' = FALSE /\ expectedAck' = "AckNone" /\ UNCHANGED retryCount
        /\ \/ FinishTransaction(TRUE, guided, missionItems, {})
           \/ Fail("VehicleAckError", guided)
    BY <1>2 DEF HandleMissionAck, StopAckTimeout
  <2>2. /\ "VehicleAckError" \in Errors /\ {} \in SUBSET Errors
        /\ expectedAck' \in Acks /\ guided \in BOOLEAN
    BY <2>1 DEF Errors, Acks
  <2>3. missionItems \in Seq(MissionItems) /\ retryCount' \in 0 .. MaxRetryCount + 1
    BY <2>1 DEF IInv, TypeOK
  <2>. HIDE DEF guided
  <2>4. CASE FinishTransaction(TRUE, guided, missionItems, {})
    BY <2>1, <2>2, <2>3, <2>4, FinishKeepsIInv
  <2>5. CASE Fail("VehicleAckError", guided)
    BY <2>1, <2>2, <2>5, FailKeepsIInv
  <2>. QED  BY <2>1, <2>4, <2>5
<1>. QED  BY <1>1, <1>2

--------------------------------------------------------------------------------
(* A retry sends again and waits again for the same answer. *)
LEMMA RetryKeepsIInv ==
  ASSUME IInv, timerActive, retryCount <= MaxRetryCount, Retry,
         expectedAck' = expectedAck, timerActive' = TRUE,
         connections' \in {connections, connections + 1},
         UNCHANGED <<transactionInProgress, resumeMission, itemIndicesToRead,
           itemIndicesToWrite, missionItemCountToRead, missionItems,
           writeMissionItems, served>>
  PROVE  IInv'
<1>1. retryCount' = retryCount + 1 /\ emitted' = {}
  BY DEF Retry
<1>2. TypeOK'
  BY <1>1, PlanManagerAssumption DEF IInv, TypeOK
<1>3. TransactionIsGuarded'
  BY DEF IInv, TypeOK, TransactionIsGuarded
<1>4. ReadPartition' /\ WritePartition' /\ ReadStartsEmpty'
  BY DEF IInv, ReadPartition, WritePartition, ReadStartsEmpty
<1>. QED  BY <1>2, <1>3, <1>4 DEF IInv

(* A timeout after the last retry ends the transaction with an error.      *)
LEMMA GiveUpKeepsIInv ==
  ASSUME IInv, NEW error \in Errors, GiveUp(error), UNCHANGED retryCount,
         expectedAck' \in {expectedAck, "AckNone"}
  PROVE  IInv'
<1>1. Fail(error, FALSE) /\ timerActive' = FALSE
  BY DEF GiveUp
<1>2. expectedAck' \in Acks
  BY DEF IInv, TypeOK, Acks
<1>. QED  BY <1>1, <1>2, FailKeepsIInv

(* _ackTimeout, for every answer it may have waited for.                   *)
LEMMA TimeoutKeepsIInv == ASSUME IInv, AckTimeout PROVE IInv'
<1>0. /\ timerActive
      /\ {"AckTimeoutError", "ProtocolError", "MaxRetryExceeded"} \subseteq Errors
      /\ retryCount \in Nat /\ MaxRetryCount \in Nat
  BY PlanManagerAssumption DEF AckTimeout, Errors, IInv, TypeOK
<1>1. CASE TimeoutRead
  <2>1. CASE retryCount > MaxRetryCount
    BY <1>0, <1>1, <2>1, GiveUpKeepsIInv DEF TimeoutRead
  <2>2. CASE retryCount <= MaxRetryCount /\ expectedAck = "AckMissionCount"
    <3>1. missionItems = <<>> /\ transactionInProgress = "Read"
      BY <1>0, <2>2 DEF IInv, TypeOK, TransactionIsGuarded, AcksOf, Transactions, ReadStartsEmpty
    <3>2. /\ retryCount' = retryCount + 1 /\ emitted' = {}
          /\ expectedAck' = "AckMissionCount" /\ timerActive' = TRUE
          /\ itemIndicesToRead' = {} /\ missionItems' = <<>>
          /\ UNCHANGED <<transactionInProgress, resumeMission, connections, served,
                itemIndicesToWrite, missionItemCountToRead, writeMissionItems>>
      BY <1>0, <1>1, <2>2 DEF TimeoutRead, Retry, RequestList, StartAckTimeout
    <3>3. TypeOK'
      BY <1>0, <2>2, <3>2 DEF IInv, TypeOK, Acks
    <3>4. TransactionIsGuarded'
      BY <1>0, <2>2, <3>2 DEF IInv, TransactionIsGuarded
    <3>5. ReadPartition' /\ WritePartition' /\ ReadStartsEmpty'
      BY <3>1, <3>2 DEF ReadPartition, WritePartition, ReadStartsEmpty
    <3>. QED  BY <3>3, <3>4, <3>5 DEF IInv
  <2>3. CASE retryCount <= MaxRetryCount /\ expectedAck = "AckMissionItem"
    <3>1. /\ Retry /\ expectedAck' = expectedAck /\ timerActive' = TRUE
          /\ UNCHANGED <<transactionInProgress, resumeMission, itemIndicesToRead,
               itemIndicesToWrite, missionItemCountToRead, missionItems,
               writeMissionItems, connections, served>>
      BY <1>0, <1>1, <2>3 DEF TimeoutRead, RequestNextMissionItem, StartAckTimeout, lists
    <3>. QED  BY <1>0, <2>3, <3>1, RetryKeepsIInv
  <2>. QED  BY <1>0, <1>1, <2>1, <2>2, <2>3 DEF TimeoutRead
<1>2. CASE TimeoutWrite
  <2>1. CASE itemIndicesToWrite = {}
    BY <1>0, <1>2, <2>1, GiveUpKeepsIInv DEF TimeoutWrite
  <2>2. CASE itemIndicesToWrite # {} /\ 0 \in itemIndicesToWrite /\ retryCount > MaxRetryCount
    BY <1>0, <1>2, <2>2, GiveUpKeepsIInv DEF TimeoutWrite
  <2>3. CASE itemIndicesToWrite # {} /\ 0 \in itemIndicesToWrite /\ retryCount <= MaxRetryCount
    <3>1. /\ Retry /\ expectedAck' = expectedAck /\ timerActive' = TRUE
          /\ UNCHANGED <<transactionInProgress, resumeMission, itemIndicesToRead,
               itemIndicesToWrite, missionItemCountToRead, missionItems,
               writeMissionItems, connections, served>>
      BY <1>0, <1>2, <2>3 DEF TimeoutWrite, WriteMissionCount, StartAckTimeout, lists
    <3>. QED  BY <1>0, <2>3, <3>1, RetryKeepsIInv
  <2>4. CASE itemIndicesToWrite # {} /\ 0 \notin itemIndicesToWrite
    BY <1>0, <1>2, <2>4, GiveUpKeepsIInv DEF TimeoutWrite
  <2>. QED  BY <1>0, <2>1, <2>2, <2>3, <2>4
<1>3. CASE TimeoutClearAll
  <2>1. CASE retryCount > MaxRetryCount
    BY <1>0, <1>3, <2>1, GiveUpKeepsIInv DEF TimeoutClearAll
  <2>2. CASE retryCount <= MaxRetryCount
    <3>1. /\ Retry /\ expectedAck' = expectedAck /\ timerActive' = TRUE
          /\ connections' = connections + 1
          /\ UNCHANGED <<transactionInProgress, resumeMission, itemIndicesToRead,
               itemIndicesToWrite, missionItemCountToRead, missionItems,
               writeMissionItems, served>>
      BY <1>0, <1>3, <2>2 DEF TimeoutClearAll, RemoveAllWorker, StartAckTimeout, lists
    <3>. QED  BY <1>0, <2>2, <3>1, RetryKeepsIInv
  <2>. QED  BY <1>0, <2>1, <2>2
<1>4. CASE TimeoutGuided
  BY <1>0, <1>4, GiveUpKeepsIInv DEF TimeoutGuided
<1>. QED  BY <1>1, <1>2, <1>3, <1>4 DEF AckTimeout

--------------------------------------------------------------------------------
(* A new manager is idle, so the invariant holds at first.                 *)
LEMMA InitIInv == Init => IInv
<1>. SUFFICES ASSUME Init PROVE IInv
  OBVIOUS
<1>1. TypeOK
  <2>1. /\ transactionInProgress \in Transactions /\ expectedAck \in Acks
        /\ retryCount \in 0 .. MaxRetryCount + 1
    BY PlanManagerAssumption DEF Init, Transactions, Acks
  <2>2. missionItems \in Seq(MissionItems) /\ writeMissionItems \in Seq(MissionItems)
    BY DEF Init
  <2>. QED  BY <2>1, <2>2 DEF Init, TypeOK
<1>2. TransactionIsGuarded
  BY DEF Init, TransactionIsGuarded, AcksOf, Acks
<1>3. ReadPartition /\ WritePartition /\ ReadStartsEmpty
  BY DEF Init, ReadPartition, WritePartition, ReadStartsEmpty
<1>. QED  BY <1>1, <1>2, <1>3 DEF IInv

(* Every step keeps the invariant: calls, messages, timeouts.              *)
LEMMA NextKeepsIInv == IInv /\ [Next]_vars => IInv'
<1>. SUFFICES ASSUME IInv, [Next]_vars PROVE IInv'
  OBVIOUS
<1>1. CASE Call
  BY <1>1, CallKeepsIInv
<1>2. ASSUME NEW m \in VehicleMessages, Receive(m) PROVE IInv'
  <2>1. m \in Messages
    BY MessagesAssumption
  <2>2. CASE connections = 0 /\ Ignore
    BY <2>2, IgnoreKeepsIInv
  <2>3. CASE connections > 0 /\ HandleMissionCount(m)
    BY <2>1, <2>3, CountKeepsIInv
  <2>4. CASE connections > 0 /\ HandleMissionItem(m)
    BY <2>1, <2>4, ItemKeepsIInv
  <2>5. CASE connections > 0 /\ HandleMissionRequest(m)
    BY <2>1, <2>5, RequestKeepsIInv
  <2>6. CASE connections > 0 /\ HandleMissionAck(m)
    BY <2>1, <2>6, AckKeepsIInv
  <2>. QED  BY <1>2, <2>2, <2>3, <2>4, <2>5, <2>6 DEF Receive
<1>3. CASE AckTimeout
  BY <1>3, TimeoutKeepsIInv
<1>4. CASE UNCHANGED vars
  BY <1>4, IgnoreKeepsIInv
<1>. QED  BY <1>1, <1>2, <1>3, <1>4 DEF Next

(* The inductive invariant holds for every plan, retry limit and vehicle.  *)
THEOREM Invariance == Spec => []IInv
BY InitIInv, NextKeepsIInv, PTL DEF Spec

(* The manager's state keeps its type, the retry count its bound. *)
THEOREM TypeCorrect == Spec => []TypeOK
<1>1. IInv => TypeOK
  BY DEF IInv
<1>. QED  BY <1>1, Invariance, PTL

(* Whatever the vehicle sends, no transaction is left without its timer    *)
(* and its connection, and none of them outlives its transaction.          *)
THEOREM Guarded == Spec => []TransactionIsGuarded
<1>1. IInv => TransactionIsGuarded
  BY DEF IInv
<1>. QED  BY <1>1, Invariance, PTL

(* Whatever the vehicle sends, items read and indices wanted partition the *)
(* plan, and items sent and indices unsent cover it.                       *)
THEOREM Partitioned == Spec => []ItemsArePartitioned
<1>1. IInv => ItemsArePartitioned
  BY DEF IInv, ItemsArePartitioned
<1>. QED  BY <1>1, Invariance, PTL

--------------------------------------------------------------------------------
(* What a step may do to the transaction: leave it, begin one, or end it.  *)
Guided == transactionInProgress = "Write" /\ expectedAck = "AckGuidedItem"

Stays ==
  /\ emitted' = {}
  /\ transactionInProgress' = transactionInProgress
  /\ Guided' <=> Guided

Begins ==
  /\ emitted' = {}
  /\ transactionInProgress = "None"
  /\ transactionInProgress' \in {"Read", "Write", "RemoveAll"}

ReadDone(items) ==
  /\ transactionInProgress = "Read"
  /\ FinishTransaction(TRUE, FALSE, items, {})
  /\ items \in Seq(MissionItems)
  /\ \A i, j \in DOMAIN items : i # j => items[i].seq # items[j].seq
  /\ {items[i].seq : i \in DOMAIN items} = 0 .. Len(items) - 1

AckDone ==
  /\ transactionInProgress \in {"Write", "RemoveAll"}
  /\ FinishTransaction(TRUE, Guided, missionItems, {})
  /\ transactionInProgress = "Write" /\ ~Guided =>
       served = 0 .. Len(writeMissionItems) - 1

Failed(error, guided) ==
  /\ InProgress
  /\ guided => Guided
  /\ Fail(error, guided)

Outcome ==
  \/ Stays \/ Begins \/ AckDone
  \/ \E items \in Seq(MissionItems) : ReadDone(items)
  \/ \E error \in Errors, guided \in BOOLEAN : Failed(error, guided)

(* A plan of n distinct numbers below n that leaves none out has n items.  *)
LEMMA CompleteReadHasEachIndex ==
  ASSUME NEW n \in Nat, NEW items \in Seq(MissionItems),
         \A i, j \in DOMAIN items : i # j => items[i].seq # items[j].seq,
         {items[i].seq : i \in DOMAIN items} = 0 .. n - 1
  PROVE  Len(items) = n
<1>. DEFINE f == [i \in 1 .. Len(items) |-> items[i].seq + 1]
<1>1. Len(items) \in Nat /\ DOMAIN items = 1 .. Len(items)
  OBVIOUS
<1>2. f \in Bijection(1 .. Len(items), 1 .. n)
  <2>1. \A i \in 1 .. Len(items) : items[i].seq \in 0 .. n - 1
    BY <1>1
  <2>2. f \in [1 .. Len(items) -> 1 .. n]
    BY <2>1
  <2>3. \A i, j \in 1 .. Len(items) : f[i] = f[j] => i = j
    <3>. TAKE i, j \in 1 .. Len(items)
    <3>. HAVE f[i] = f[j]
    <3>1. items[i].seq \in Int /\ items[j].seq \in Int
      BY <2>1
    <3>2. items[i].seq = items[j].seq
      BY <3>1
    <3>. QED  BY <1>1, <3>2
  <2>4. \A k \in 1 .. n : \E i \in 1 .. Len(items) : f[i] = k
    <3>. TAKE k \in 1 .. n
    <3>1. k - 1 \in 0 .. n - 1
      OBVIOUS
    <3>2. PICK i \in DOMAIN items : items[i].seq = k - 1
      BY <3>1
    <3>. QED  BY <1>1, <3>2
  <2>. QED  BY <2>2, <2>3, <2>4 DEF Bijection, Injection, Surjection, IsInjective
<1>3. ExistsBijection(1 .. Len(items), 1 .. n)
  BY <1>2 DEF ExistsBijection
<1>4. Cardinality(1 .. Len(items)) = Len(items) /\ IsFiniteSet(1 .. Len(items))
  BY <1>1, FS_Interval
<1>5. Cardinality(1 .. n) = n /\ IsFiniteSet(1 .. n)
  BY FS_Interval
<1>. QED  BY <1>3, <1>4, <1>5, FS_Bijection

(* The list `items' has each of the numbers 0 .. n-1 once. *)
IsWhole(items, n) ==
  /\ items \in Seq(MissionItems) /\ Len(items) = n
  /\ \A i, j \in DOMAIN items : i # j => items[i].seq # items[j].seq
  /\ {items[i].seq : i \in DOMAIN items} = 0 .. n - 1

(* The item of the last index wanted makes a plan whole. *)
LEMMA LastItemCompletes ==
  ASSUME IInv, transactionInProgress = "Read", expectedAck = "AckMissionItem",
         NEW item \in MissionItems, itemIndicesToRead = {item.seq}
  PROVE  IsWhole(Append(missionItems, item), missionItemCountToRead)
<1>. DEFINE n == missionItemCountToRead
            items == Append(missionItems, item)
<1>1. /\ items \in Seq(MissionItems) /\ DOMAIN items = 1 .. Len(missionItems) + 1
      /\ DOMAIN missionItems = 1 .. Len(missionItems) /\ Len(missionItems) \in Nat
      /\ \A i \in 1 .. Len(missionItems) : items[i] = missionItems[i]
      /\ items[Len(missionItems) + 1] = item
  BY DEF IInv, TypeOK
<1>2. /\ item.seq \in 0 .. n - 1 /\ n \in Nat
      /\ \A i \in DOMAIN missionItems :
           missionItems[i].seq \in 0 .. n - 1 /\ missionItems[i].seq # item.seq
      /\ \A i, j \in DOMAIN missionItems :
           i # j => missionItems[i].seq # missionItems[j].seq
      /\ \A k \in (0 .. n - 1) \ {item.seq} :
           \E i \in DOMAIN missionItems : missionItems[i].seq = k
  BY DEF IInv, TypeOK, ReadPartition
<1>. HIDE DEF items
<1>3. \A i, j \in DOMAIN items : i # j => items[i].seq # items[j].seq
  BY <1>1, <1>2
<1>4. {items[i].seq : i \in DOMAIN items} = 0 .. n - 1
  <2>1. \A i \in DOMAIN items : items[i].seq \in 0 .. n - 1
    BY <1>1, <1>2
  <2>2. \A k \in 0 .. n - 1 : \E i \in DOMAIN items : items[i].seq = k
    BY <1>1, <1>2
  <2>. QED  BY <2>1, <2>2
<1>5. Len(items) = n
  BY <1>1, <1>2, <1>3, <1>4, CompleteReadHasEachIndex
<1>. QED  BY <1>1, <1>3, <1>4, <1>5 DEF IsWhole, items

(* A call of a controller starts a transaction, or is refused.             *)
LEMMA CallOutcome == ASSUME IInv, Call PROVE Outcome
<1>. USE DEF Guided, Outcome, Begins
<1>1. CASE LoadFromVehicle
  BY <1>1 DEF LoadFromVehicle
<1>2. ASSUME NEW plan \in Plans, WriteMissionItems(plan) PROVE Outcome
  BY <1>2 DEF WriteMissionItems, BeginWrite
<1>3. ASSUME NEW n \in DOMAIN missionItems, NEW kept \in [1 .. n -> DOMAIN missionItems],
             GenerateResumeMission(kept)
      PROVE  Outcome
  BY <1>3 DEF GenerateResumeMission, BeginWrite
<1>4. CASE WriteArduPilotGuidedMissionItem
  BY <1>4 DEF WriteArduPilotGuidedMissionItem
<1>5. CASE RemoveAll
  BY <1>5 DEF RemoveAll
<1>. QED  BY <1>1, <1>2, <1>3, <1>4, <1>5 DEF Call

(* An ignored message is a stutter of the promise.                         *)
LEMMA IgnoreStays == Ignore => Stays
BY DEF Ignore, Stays, Guided, state

(* MISSION_COUNT continues a read, ends it, or changes nothing.            *)
LEMMA CountOutcome ==
  ASSUME IInv, NEW m \in Messages, connections > 0, HandleMissionCount(m)
  PROVE  Outcome
<1>1. CASE m.type # OwnType \/ expectedAck # "AckMissionCount"
  BY <1>1, IgnoreStays DEF HandleMissionCount, Outcome
<1>2. CASE m.type = OwnType /\ expectedAck = "AckMissionCount"
  <2>1. transactionInProgress = "Read" /\ missionItems = <<>>
    BY <1>2 DEF IInv, TypeOK, TransactionIsGuarded, AcksOf, Transactions, ReadStartsEmpty
  <2>2. CASE m.count = 0
    <3>1. FinishTransaction(TRUE, FALSE, missionItems, {})
      BY <1>2, <2>2 DEF HandleMissionCount, ReadTransactionComplete
    <3>2. {missionItems[i].seq : i \in DOMAIN missionItems} = 0 .. Len(missionItems) - 1
      BY <2>1
    <3>3. ReadDone(missionItems) /\ missionItems \in Seq(MissionItems)
      <4>1. DOMAIN missionItems = {} /\ missionItems \in Seq(MissionItems)
        BY <2>1
      <4>. QED  BY <2>1, <3>1, <3>2, <4>1 DEF ReadDone
    <3>. QED  BY <3>3 DEF Outcome
  <2>3. CASE m.count # 0
    <3>1. /\ emitted' = {} /\ UNCHANGED transactionInProgress
      BY <1>2, <2>3 DEF HandleMissionCount
    <3>. QED  BY <2>1, <3>1 DEF Stays, Guided, Outcome
  <2>. QED  BY <2>2, <2>3
<1>. QED  BY <1>1, <1>2

(* MISSION_ITEM_INT continues a read, ends it, or changes nothing.         *)
LEMMA ItemOutcome ==
  ASSUME IInv, NEW m \in Messages, connections > 0, HandleMissionItem(m)
  PROVE  Outcome
<1>1. CASE expectedAck # "AckMissionItem"
  BY <1>1, IgnoreStays DEF HandleMissionItem, Outcome
<1>2. CASE expectedAck = "AckMissionItem"
  <2>. DEFINE seq  == m.item.seq
              item == ShiftJump(m.item, IF SendsHome THEN 0 ELSE 1)
              rest == itemIndicesToRead \ {seq}
              items == Append(missionItems, item)
              n == missionItemCountToRead
  <2>1. transactionInProgress = "Read"
    BY <1>2 DEF IInv, TypeOK, TransactionIsGuarded, AcksOf, Transactions
  <2>2. CASE seq \notin itemIndicesToRead \/ rest # {}
    <3>1. emitted' = {} /\ UNCHANGED transactionInProgress
      BY <1>2, <2>2 DEF HandleMissionItem
    <3>. QED  BY <2>1, <3>1 DEF Stays, Guided, Outcome
  <2>3. CASE seq \in itemIndicesToRead /\ rest = {}
    <3>1. FinishTransaction(TRUE, FALSE, items, {})
      BY <1>2, <2>3 DEF HandleMissionItem, ReadTransactionComplete
    <3>2. item \in MissionItems /\ item.seq = seq
      <4>1. m.item \in MissionItems
        BY DEF Messages, HandleMissionItem
      <4>. QED  BY <4>1, ShiftJumpType
    <3>3. itemIndicesToRead = {seq}
      BY <2>3
    <3>. HIDE DEF item
    <3>4. IsWhole(items, n)
      BY <1>2, <2>1, <3>2, <3>3, LastItemCompletes
    <3>5. ReadDone(items) /\ items \in Seq(MissionItems)
      BY <2>1, <3>1, <3>4 DEF ReadDone, IsWhole
    <3>. QED  BY <3>5 DEF Outcome
  <2>. QED  BY <2>2, <2>3
<1>. QED  BY <1>1, <1>2

(* MISSION_REQUEST continues a write, ends it, or changes nothing.         *)
LEMMA RequestOutcome ==
  ASSUME IInv, NEW m \in Messages, connections > 0, HandleMissionRequest(m)
  PROVE  Outcome
<1>1. CASE m.type # OwnType \/ expectedAck # "AckMissionRequest"
  BY <1>1, IgnoreStays DEF HandleMissionRequest, Outcome
<1>2. CASE m.type = OwnType /\ expectedAck = "AckMissionRequest"
  <2>1. CASE m.seq >= Len(writeMissionItems)
    <3>1. Failed("RequestRangeError", FALSE) /\ "RequestRangeError" \in Errors
      BY <1>2, <2>1 DEF HandleMissionRequest, Failed, Errors, IInv, TransactionIsGuarded
    <3>. QED  BY <3>1 DEF Outcome
  <2>2. CASE ~(m.seq >= Len(writeMissionItems))
    <3>1. emitted' = {} /\ UNCHANGED transactionInProgress /\ expectedAck' = expectedAck
      BY <1>2, <2>2 DEF HandleMissionRequest, StartAckTimeout
    <3>. QED  BY <3>1 DEF Stays, Guided, Outcome
  <2>. QED  BY <2>1, <2>2
<1>. QED  BY <1>1, <1>2

(* MISSION_ACK ends a write or a removal, or changes nothing.              *)
LEMMA AckOutcome ==
  ASSUME IInv, NEW m \in Messages, connections > 0, HandleMissionAck(m)
  PROVE  Outcome
<1>1. CASE \/ m.type # OwnType \/ expectedAck = "AckNone"
           \/ ApmFirmware /\ m.result = "INVALID_SEQUENCE"
  BY <1>1, IgnoreStays DEF HandleMissionAck, Outcome
<1>2. CASE ~(\/ m.type # OwnType \/ expectedAck = "AckNone"
             \/ ApmFirmware /\ m.result = "INVALID_SEQUENCE")
  <2>1. InProgress /\ (expectedAck = "AckGuidedItem" <=> Guided)
    BY DEF Guided, IInv, TypeOK, TransactionIsGuarded, AcksOf, Transactions
  <2>2. CASE \/ expectedAck = "AckMissionRequest" /\ itemIndicesToWrite = {}
             \/ expectedAck \in {"AckMissionClearAll", "AckGuidedItem"}
    <3>1. CASE m.result = "ACCEPTED"
      <4>1. FinishTransaction(TRUE, Guided, missionItems, {})
        BY <1>2, <2>1, <2>2, <3>1 DEF HandleMissionAck, Guided
      <4>2. transactionInProgress \in {"Write", "RemoveAll"}
        BY <2>1, <2>2 DEF IInv, TypeOK, TransactionIsGuarded, AcksOf, Transactions
      <4>3. transactionInProgress = "Write" /\ ~Guided =>
              served = 0 .. Len(writeMissionItems) - 1
        BY <2>2, <4>2 DEF Guided, IInv, TransactionIsGuarded, AcksOf, WritePartition
      <4>. QED  BY <4>1, <4>2, <4>3 DEF AckDone, Outcome
    <3>2. CASE m.result # "ACCEPTED"
      <4>1. Fail("VehicleAckError", expectedAck = "AckGuidedItem")
        BY <1>2, <2>2, <3>2 DEF HandleMissionAck
      <4>. QED  BY <2>1, <4>1 DEF Failed, Errors, Outcome
    <3>. QED  BY <3>1, <3>2
  <2>3. CASE ~(\/ expectedAck = "AckMissionRequest" /\ itemIndicesToWrite = {}
               \/ expectedAck \in {"AckMissionClearAll", "AckGuidedItem"})
    <3>1. Fail("VehicleAckError", expectedAck = "AckGuidedItem")
      BY <1>2, <2>3 DEF HandleMissionAck
    <3>. QED  BY <2>1, <3>1 DEF Failed, Errors, Outcome
  <2>. QED  BY <2>2, <2>3
<1>. QED  BY <1>1, <1>2

(* A timeout retries, which is a stutter, or ends the transaction.         *)
LEMMA TimeoutOutcome == ASSUME IInv, AckTimeout PROVE Outcome
<1>1. InProgress
  BY DEF AckTimeout, IInv, TransactionIsGuarded
<1>2. ASSUME NEW error \in Errors, GiveUp(error) PROVE Outcome
  BY <1>1, <1>2 DEF GiveUp, Failed, Outcome
<1>3. CASE /\ emitted' = {} /\ UNCHANGED transactionInProgress
           /\ expectedAck' = expectedAck
  BY <1>3 DEF Stays, Guided, Outcome
<1>4. \/ \E error \in Errors : GiveUp(error)
      \/ emitted' = {} /\ UNCHANGED transactionInProgress /\ expectedAck' = expectedAck
  <2>1. "AckTimeoutError" \in Errors /\ "ProtocolError" \in Errors
          /\ "MaxRetryExceeded" \in Errors
    BY DEF Errors
  <2>2. CASE TimeoutRead
    BY <2>1, <2>2 DEF TimeoutRead, Retry, RequestList, RequestNextMissionItem, StartAckTimeout
  <2>3. CASE TimeoutWrite
    <3>1. retryCount \in Nat /\ MaxRetryCount \in Nat
      BY PlanManagerAssumption DEF IInv, TypeOK
    <3>. QED  BY <2>1, <2>3, <3>1 DEF TimeoutWrite, Retry, WriteMissionCount, StartAckTimeout
  <2>4. CASE TimeoutClearAll
    BY <2>1, <2>4 DEF TimeoutClearAll, Retry, RemoveAllWorker, StartAckTimeout
  <2>5. CASE TimeoutGuided
    BY <2>1, <2>5 DEF TimeoutGuided
  <2>. QED  BY <2>2, <2>3, <2>4, <2>5 DEF AckTimeout
<1>. QED  BY <1>2, <1>3, <1>4

(* Every step is one of the promise, or a stutter of it.                   *)
LEMMA StepOutcome == ASSUME IInv, Next PROVE Outcome
<1>1. ASSUME NEW m \in VehicleMessages, Receive(m) PROVE Outcome
  <2>1. m \in Messages
    BY MessagesAssumption
  <2>2. CASE connections = 0 /\ Ignore
    BY <2>2, IgnoreStays DEF Outcome
  <2>3. CASE connections > 0 /\ HandleMissionCount(m)
    BY <2>1, <2>3, CountOutcome
  <2>4. CASE connections > 0 /\ HandleMissionItem(m)
    BY <2>1, <2>4, ItemOutcome
  <2>5. CASE connections > 0 /\ HandleMissionRequest(m)
    BY <2>1, <2>5, RequestOutcome
  <2>6. CASE connections > 0 /\ HandleMissionAck(m)
    BY <2>1, <2>6, AckOutcome
  <2>. QED  BY <1>1, <2>2, <2>3, <2>4, <2>5, <2>6 DEF Receive
<1>. QED  BY <1>1, CallOutcome, TimeoutOutcome DEF Next

--------------------------------------------------------------------------------
(* What _finishTransaction emits. *)
Completions == {"newMissionItemsAvailable", "sendComplete", "sendCompleteError",
                "removeAllComplete", "removeAllCompleteError"}

(* Reporting no error is reporting a set of errors.                        *)
LEMMA NoErrors == {} \in SUBSET Errors
OBVIOUS

(* The end of a transaction emits the completion signal of its kind.       *)
LEMMA FinishEmits ==
  ASSUME NEW success \in BOOLEAN, NEW guided \in BOOLEAN, NEW items, NEW errors \in SUBSET Errors,
         FinishTransaction(success, guided, items, errors)
  PROVE  /\ transactionInProgress' = "None"
         /\ emitted' \cap Errors = errors
         /\ emitted' \cap Completions =
              CASE transactionInProgress = "Read" -> {"newMissionItemsAvailable"}
                [] transactionInProgress = "Write" /\ ~guided ->
                     {IF success THEN "sendComplete" ELSE "sendCompleteError"}
                [] transactionInProgress = "RemoveAll" ->
                     {IF success THEN "removeAllComplete" ELSE "removeAllCompleteError"}
                [] OTHER -> {}
BY DEF FinishTransaction, Completions, Errors

(* A write is only reported sent once every item of it has been sent.      *)
THEOREM WritesAreSent == Spec => SentEveryItem
<1>1. ASSUME IInv, [Next]_vars
      PROVE  ["sendComplete" \in emitted' => served = 0 .. Len(missionItems') - 1]_vars
  <2>. SUFFICES ASSUME Next, "sendComplete" \in emitted'
                PROVE  served = 0 .. Len(missionItems') - 1
    BY <1>1
  <2>1. CASE Stays \/ Begins
    BY <2>1 DEF Stays, Begins
  <2>2. ASSUME NEW items \in Seq(MissionItems), ReadDone(items) PROVE FALSE
    <3>1. emitted' \cap Completions = {"newMissionItemsAvailable"}
      BY <2>2, NoErrors, FinishEmits DEF ReadDone
    <3>. QED  BY <3>1 DEF Completions
  <2>3. CASE AckDone
    <3>1. transactionInProgress = "Write" /\ ~Guided
      <4>1. FinishTransaction(TRUE, Guided, missionItems, {}) /\ Guided \in BOOLEAN
        BY <2>3 DEF AckDone, Guided
      <4>2. "sendComplete" \in Completions
        BY DEF Completions
      <4>. QED  BY <2>3, <4>1, <4>2, NoErrors, FinishEmits DEF AckDone, Completions
    <3>2. missionItems' = writeMissionItems
      BY <2>3, <3>1 DEF AckDone, FinishTransaction
    <3>. QED  BY <2>3, <3>1, <3>2 DEF AckDone
  <2>4. ASSUME NEW error \in Errors, NEW guided \in BOOLEAN, Failed(error, guided)
        PROVE  FALSE
    <3>1. FinishTransaction(FALSE, guided, missionItems, {error}) /\ {error} \in SUBSET Errors
      BY <2>4 DEF Failed, Fail
    <3>2. "sendComplete" \notin emitted'
      BY <3>1 DEF FinishTransaction, Errors
    <3>. QED  BY <3>2
  <2>. QED  BY <1>1, <2>1, <2>2, <2>3, <2>4, StepOutcome DEF Outcome
<1>. QED  BY <1>1, Invariance, PTL DEF SentEveryItem, Spec

(* A read reported without an error has items 0 .. n-1, each once.         *)
THEOREM ReadsAreWhole == Spec => ReadEveryItem
<1>. DEFINE Whole == /\ \A i, j \in DOMAIN missionItems' :
                          i # j => missionItems'[i].seq # missionItems'[j].seq
                     /\ {missionItems'[i].seq : i \in DOMAIN missionItems'}
                          = 0 .. Len(missionItems') - 1
            Delivered == "newMissionItemsAvailable" \in emitted' /\ emitted' \cap Errors = {}
<1>1. ASSUME IInv, [Next]_vars PROVE [Delivered => Whole]_vars
  <2>. SUFFICES ASSUME Next, Delivered PROVE Whole
    BY <1>1
  <2>1. CASE Stays \/ Begins
    BY <2>1 DEF Stays, Begins
  <2>2. ASSUME NEW items \in Seq(MissionItems), ReadDone(items) PROVE Whole
    <3>1. missionItems' = items
      BY <2>2 DEF ReadDone, FinishTransaction
    <3>. QED  BY <2>2, <3>1 DEF ReadDone
  <2>3. CASE AckDone
    <3>1. FinishTransaction(TRUE, Guided, missionItems, {}) /\ Guided \in BOOLEAN
      BY <2>3 DEF AckDone, Guided
    <3>2. "newMissionItemsAvailable" \in Completions
      BY DEF Completions
    <3>. QED  BY <2>3, <3>1, <3>2, NoErrors, FinishEmits DEF AckDone, Completions
  <2>4. ASSUME NEW error \in Errors, NEW guided \in BOOLEAN, Failed(error, guided)
        PROVE  FALSE
    <3>1. FinishTransaction(FALSE, guided, missionItems, {error}) /\ {error} \in SUBSET Errors
      BY <2>4 DEF Failed, Fail
    <3>2. emitted' \cap Errors = {error}
      BY <3>1, FinishEmits
    <3>. QED  BY <3>2
  <2>. QED  BY <1>1, <2>1, <2>2, <2>3, <2>4, StepOutcome DEF Outcome
<1>. QED  BY <1>1, Invariance, PTL DEF ReadEveryItem, Spec

(* Whatever is reported done, in either direction, was done to every item. *)
THEOREM Carried == Spec => ItemsAreCarried
BY WritesAreSent, ReadsAreWhole DEF ItemsAreCarried

(* PlanManager implements PlanTransaction: whatever the vehicle sends, one *)
(* transaction at a time and one completion signal for each.               *)
THEOREM Refinement == Spec => OneCompletionEach
<1>. DEFINE transaction == IF Guided THEN "Guided" ELSE transactionInProgress
            completion == emitted \ (Errors \cup {"resumeMissionReady", "resumeMissionUploadFail"})
<1>1. Init => Transaction!TransactionInit
  BY DEF Init, Transaction!TransactionInit
<1>2. ASSUME IInv, [Next]_vars
      PROVE  [Transaction!TransactionNext]_<<transaction, completion>>
  <2>. USE DEF Transaction!TransactionNext, Transaction!Begin, Transaction!Continue,
               Transaction!End, Transaction!Kinds
  <2>0. TypeOK /\ TypeOK'
    BY <1>2, NextKeepsIInv DEF IInv
  <2>1. CASE UNCHANGED vars
    BY <2>1 DEF vars, state, Guided
  <2>2. CASE Stays
    BY <2>2 DEF Stays, Guided
  <2>3. CASE Begins
    BY <2>3 DEF Begins, Guided
  <2>4. ASSUME NEW success \in BOOLEAN, NEW guided \in BOOLEAN, NEW items,
               NEW errors \in SUBSET Errors,
               FinishTransaction(success, guided, items, errors),
               InProgress, guided => Guided,
               transactionInProgress = "Write" /\ success /\ ~guided => ~Guided
        PROVE  Transaction!End
    <3>1. completion' = emitted' \cap Completions
      BY <2>0 DEF TypeOK, Signals, Errors, Completions
    <3>2. transactionInProgress' = "None" /\ transaction' = "None"
      BY <2>4, FinishEmits DEF Guided
    <3>3. completion' \in Transaction!CompletionOf(transaction)
      BY <2>0, <2>4, <3>1, FinishEmits
      DEF Transaction!CompletionOf, Guided, TypeOK, Transactions
    <3>4. transaction \in Transaction!Kinds
      BY <2>0, <2>4 DEF TypeOK, Transactions
    <3>. QED  BY <3>2, <3>3, <3>4 DEF Guided
  <2>5. ASSUME NEW items \in Seq(MissionItems), ReadDone(items) PROVE Transaction!End
    BY <2>4, <2>5, NoErrors DEF ReadDone
  <2>6. CASE AckDone
    <3>1. Guided \in BOOLEAN /\ InProgress
      BY <2>6 DEF Guided, AckDone
    <3>. QED  BY <2>4, <2>6, <3>1, NoErrors DEF AckDone
  <2>7. ASSUME NEW error \in Errors, NEW guided \in BOOLEAN, Failed(error, guided)
        PROVE  Transaction!End
    <3>1. FinishTransaction(FALSE, guided, missionItems, {error}) /\ {error} \in SUBSET Errors
      BY <2>7 DEF Failed, Fail
    <3>. QED  BY <2>4, <2>7, <3>1 DEF Failed
  <2>. QED  BY <1>2, <2>1, <2>2, <2>3, <2>5, <2>6, <2>7, StepOutcome DEF Outcome
<1>. QED  BY <1>1, <1>2, Invariance, PTL
     DEF OneCompletionEach, Spec, Transaction!TransactionSpec, Guided

--------------------------------------------------------------------------------
(* PlanManager joined to its vehicle.  What the manager sends. *)
NumberedItems == {item \in MissionItems : item.seq \in Nat}

Orders ==
  [msgid : {"MISSION_REQUEST_LIST", "MISSION_CLEAR_ALL"}, type : PlanTypes]
    \cup [msgid : {"MISSION_REQUEST_INT"}, seq : Nat, type : PlanTypes]
    \cup [msgid : {"MISSION_COUNT"}, count : Nat, type : PlanTypes]
    \cup [msgid : {"MISSION_ITEM_INT"}, item : NumberedItems, type : PlanTypes]
    \cup [msgid : {"MISSION_ACK"}, result : MavMissionResult, type : PlanTypes]
    \cup [msgid : {"MISSION_ITEM"}]

VehicleOK ==
  /\ DOMAIN vehicleItems \subseteq Nat /\ IsFiniteSet(DOMAIN vehicleItems)
  /\ \A i \in DOMAIN vehicleItems : vehicleItems[i] \in MissionItems
  /\ writeSequenceIndex \in Nat

LinkOK == toGcs \in Seq(Messages) /\ toVehicle \in Seq(Orders)

Reading == transactionInProgress = "Read" /\ expectedAck = "AckMissionItem"
Writing == transactionInProgress = "Write" /\ expectedAck = "AckMissionRequest"

(* A vehicle that misnumbers the answer to a request never gives the item  *)
(* of that number, and one that misnumbers its first request never asks    *)
(* for item 0.                                                             *)
Possible(m) ==
  /\ m.msgid = "MISSION_ITEM_INT" => failureMode # <<"ReadIncorrectSequence", m.item.seq>>
  /\ m.msgid = "MISSION_REQUEST_INT" /\ m.seq = 0 =>
       failureMode # <<"WriteIncorrectSequence", 0>>

(* So the transaction cannot succeed. *)
Misread == \E k \in itemIndicesToRead : failureMode = <<"ReadIncorrectSequence", k>>
Misasked == 0 \in itemIndicesToWrite /\ failureMode = <<"WriteIncorrectSequence", 0>>

ServedOnce == Writing => itemIndicesToWrite \cap served = {}

(* While the vehicle's plan is stable, what it has answered fits it, and   *)
(* so does what has been read of it.                                       *)
AnswersFit ==
  stable => Complete(vehicleItems) /\ \A i \in DOMAIN toGcs : Fits(toGcs[i], vehicleItems)

ReadSoFar ==
  stable /\ Reading =>
    /\ missionItemCountToRead = Cardinality(DOMAIN vehicleItems)
    /\ \A i \in DOMAIN missionItems :
         missionItems[i] = AsRead(vehicleItems, missionItems[i].seq)

(* On a prompt link items arrive in the order they are asked for, and the  *)
(* vehicle asks for item 0 first.                                          *)
ReadInOrder ==
  prompt /\ Reading /\ ~Misread =>
    /\ itemIndicesToRead = Len(missionItems) .. missionItemCountToRead - 1
    /\ \A i \in DOMAIN missionItems : missionItems[i].seq = i - 1

ServedFromZero == prompt /\ Writing /\ ~Misasked /\ served # {} => 0 \in served

(* Success is reported at the end of a transaction. *)
Reported == emitted \cap {"sendComplete", "removeAllComplete"} # {} => ~InProgress

(* The part of the invariant about the manager. *)
ManagerInv ==
  /\ ServedOnce /\ ReadSoFar /\ ReadInOrder /\ ServedFromZero /\ Reported
  /\ ReadHasVehicleItems /\ PromptPlanIsOnVehicle

(* On a prompt link one message at a time is owed an answer or is one:     *)
(* what the manager waits for is what the vehicle is asked.                *)
Holds ==
  \A i \in DOMAIN vehicleItems :
    Numbered(vehicleItems[i], i) = Numbered(writeMissionItems[i + 1], i)

HoldsAllBut(seq) ==
  Holds /\ DOMAIN vehicleItems \subseteq served /\ served \ {seq} \subseteq DOMAIN vehicleItems

Asks(m) ==
  /\ InProgress
  /\ m.msgid = "MISSION_REQUEST_LIST" => expectedAck = "AckMissionCount"
  /\ m.msgid = "MISSION_REQUEST_INT" => Reading /\ (Misread \/ m.seq = Len(missionItems))
  /\ m.msgid = "MISSION_COUNT" =>
       Writing /\ m.count = Len(writeMissionItems) /\ (Misasked \/ served = {})
  /\ m.msgid = "MISSION_ITEM_INT" =>
       Writing /\ (Misasked \/ /\ HoldsAllBut(m.item.seq) /\ m.item.seq \in served
                               /\ m.item = Numbered(writeMissionItems[m.item.seq + 1], m.item.seq))
  /\ m.msgid = "MISSION_CLEAR_ALL" => expectedAck = "AckMissionClearAll"
  /\ m.msgid = "MISSION_ITEM" => expectedAck = "AckGuidedItem"

Answers(m) ==
  /\ InProgress
  /\ m.msgid = "MISSION_ITEM_INT" => Misread \/ m.item.seq = Len(missionItems)
  /\ expectedAck = "AckMissionClearAll" => DOMAIN vehicleItems = {}
  /\ Writing => Misasked \/ /\ Holds /\ DOMAIN vehicleItems = served
                            /\ m.msgid = "MISSION_REQUEST_INT" /\ served = {} => m.seq = 0

Live(m) == m.msgid # "MISSION_ACK"

OneUnderWay ==
  prompt =>
    /\ Len(toGcs) <= 1
    /\ \A i \in DOMAIN toGcs : Answers(toGcs[i])
    /\ \A i \in DOMAIN toVehicle :
         Live(toVehicle[i]) => i = Len(toVehicle) /\ toGcs = <<>> /\ Asks(toVehicle[i])

TInv ==
  /\ IInv /\ ManagerInv
  /\ LinkOK /\ VehicleOK /\ AnswersFit /\ OneUnderWay
  /\ \A i \in DOMAIN toGcs : Possible(toGcs[i])

--------------------------------------------------------------------------------
(* The manager's steps. *)

(* What a step of the manager sends. *)
Sends ==
  \/ outbox' = <<>>
  \/ \E m \in Orders : outbox' = <<m>> /\ (prompt' /\ Live(m) => Asks(m)')

(* A step that leaves transaction, wait and lists alone and reports nothing. *)
LEMMA WaitingKeeps ==
  ASSUME ManagerInv, emitted' = {}, prompt' => prompt, stable' = stable,
         UNCHANGED <<transactionInProgress, expectedAck, lists, served,
                     vehicleItems, failureMode>>
  PROVE  ManagerInv'
<1>1. UNCHANGED <<itemIndicesToRead, itemIndicesToWrite, missionItemCountToRead,
                  missionItems, writeMissionItems>>
  BY DEF lists
<1>2. ServedOnce' /\ Reported'
  BY <1>1 DEF ManagerInv, ServedOnce, Writing, Reported
<1>3. ReadSoFar'
  BY <1>1 DEF ManagerInv, ReadSoFar, Reading, AsRead
<1>4. ReadInOrder' /\ ServedFromZero'
  BY <1>1 DEF ManagerInv, ReadInOrder, ServedFromZero, Reading, Writing, Misread, Misasked
<1>5. ReadHasVehicleItems' /\ PromptPlanIsOnVehicle'
  BY DEF ReadHasVehicleItems, ReadSucceeds, PromptPlanIsOnVehicle
<1>. QED  BY <1>2, <1>3, <1>4, <1>5 DEF ManagerInv

(* A transaction that ends owes what it reports and nothing else.          *)
LEMMA EndKeeps ==
  ASSUME transactionInProgress' = "None",
         ReadHasVehicleItems', PromptPlanIsOnVehicle'
  PROVE  ManagerInv'
BY DEF ManagerInv, ServedOnce, ReadSoFar, ReadInOrder, ServedFromZero, Reported,
       Reading, Writing

(* A failure is no success. *)
LEMMA FailKeeps ==
  ASSUME NEW error \in Errors, NEW guided \in BOOLEAN, Fail(error, guided)
  PROVE  ManagerInv'
<1>1. FinishTransaction(FALSE, guided, missionItems, {error})
  BY DEF Fail
<1>2. transactionInProgress' = "None"
  BY <1>1 DEF FinishTransaction
<1>3. error \in emitted' /\ "sendComplete" \notin emitted' /\ "removeAllComplete" \notin emitted'
  BY <1>1 DEF FinishTransaction, Errors
<1>4. ReadHasVehicleItems' /\ PromptPlanIsOnVehicle'
  BY <1>3 DEF ReadHasVehicleItems, ReadSucceeds, PromptPlanIsOnVehicle
<1>. QED  BY <1>2, <1>4, EndKeeps

(* A transaction that begins has read nothing, served nothing and reports  *)
(* nothing.                                                                *)
LEMMA BeginKeeps ==
  ASSUME emitted' = {}, ~Reading', served' = {} \/ ~Writing'
  PROVE  ManagerInv'
<1>1. ServedOnce' /\ ReadSoFar' /\ ReadInOrder' /\ ServedFromZero' /\ Reported'
  BY DEF ServedOnce, ReadSoFar, ReadInOrder, ServedFromZero, Reported
<1>2. ReadHasVehicleItems' /\ PromptPlanIsOnVehicle'
  BY DEF ReadHasVehicleItems, ReadSucceeds, PromptPlanIsOnVehicle
<1>. QED  BY <1>1, <1>2 DEF ManagerInv

(* Calls: the first message of each transaction. *)
LEMMA CallKeepsManager ==
  ASSUME IInv, Call
  PROVE  ManagerInv' /\ Sends /\ ~InProgress
<1>0. OwnType \in PlanTypes
  BY PlanManagerAssumption
<1>1. CASE LoadFromVehicle
  <2>1. /\ transactionInProgress' = "Read" /\ expectedAck' = "AckMissionCount"
        /\ emitted' = {} /\ outbox' = <<RequestListMsg(OwnType)>> /\ ~InProgress
    BY <1>1 DEF LoadFromVehicle, RequestList, StartAckTimeout
  <2>2. ManagerInv'
    BY <2>1, BeginKeeps DEF Reading, Writing
  <2>3. RequestListMsg(OwnType) \in Orders /\ Asks(RequestListMsg(OwnType))'
    BY <1>0, <2>1 DEF RequestListMsg, Orders, Asks
  <2>. QED  BY <2>1, <2>2, <2>3 DEF Sends
<1>2. ASSUME NEW items \in Seq(MissionItems), BeginWrite(items), ~InProgress
      PROVE  ManagerInv' /\ Sends
  <2>1. /\ transactionInProgress' = "Write" /\ expectedAck' = "AckMissionRequest"
        /\ emitted' = {} /\ served' = {} /\ writeMissionItems' = items
        /\ outbox' = <<MissionCountMsg(Len(items), OwnType)>>
    BY <1>2 DEF BeginWrite, WriteMissionCount, StartAckTimeout
  <2>2. ManagerInv'
    BY <2>1, BeginKeeps DEF Reading, Writing
  <2>3. Len(items) \in Nat
    OBVIOUS
  <2>4. /\ MissionCountMsg(Len(items), OwnType) \in Orders
        /\ Asks(MissionCountMsg(Len(items), OwnType))'
    BY <1>0, <2>1, <2>3 DEF MissionCountMsg, Orders, Asks, Writing
  <2>. QED  BY <2>1, <2>2, <2>4 DEF Sends
<1>3. ASSUME NEW plan \in Plans, WriteMissionItems(plan) PROVE ManagerInv' /\ Sends /\ ~InProgress
  <2>1. ItemsToWrite(plan, ~SendsHome) \in Seq(MissionItems)
    BY PlanManagerAssumption, ItemsToWriteType
  <2>. QED  BY <1>2, <1>3, <2>1 DEF WriteMissionItems
<1>4. ASSUME NEW n \in DOMAIN missionItems, NEW kept \in [1 .. n -> DOMAIN missionItems],
             GenerateResumeMission(kept)
      PROVE  ManagerInv' /\ Sends /\ ~InProgress
  <2>1. resumeMission' = TRUE /\ ~InProgress
    BY <1>4 DEF GenerateResumeMission
  <2>2. PICK items \in Seq(MissionItems) : BeginWrite(items)
    BY <1>4, ResumedItemsType DEF IInv, TypeOK
  <2>. QED  BY <1>2, <2>1, <2>2
<1>5. CASE WriteArduPilotGuidedMissionItem
  <2>1. /\ transactionInProgress' = "Write" /\ expectedAck' = "AckGuidedItem"
        /\ emitted' = {} /\ outbox' = <<GuidedItemMsg>> /\ ~InProgress
    BY <1>5 DEF WriteArduPilotGuidedMissionItem, StartAckTimeout
  <2>2. ManagerInv'
    BY <2>1, BeginKeeps DEF Reading, Writing
  <2>3. GuidedItemMsg \in Orders /\ Asks(GuidedItemMsg)'
    BY <2>1 DEF GuidedItemMsg, Orders, Asks
  <2>. QED  BY <2>1, <2>2, <2>3 DEF Sends
<1>6. CASE RemoveAll
  <2>1. /\ transactionInProgress' = "RemoveAll" /\ expectedAck' = "AckMissionClearAll"
        /\ emitted' = {} /\ outbox' = <<ClearAllMsg(OwnType)>> /\ ~InProgress
    BY <1>6 DEF RemoveAll, RemoveAllWorker, StartAckTimeout
  <2>2. ManagerInv'
    BY <2>1, BeginKeeps DEF Reading, Writing
  <2>3. ClearAllMsg(OwnType) \in Orders /\ Asks(ClearAllMsg(OwnType))'
    BY <1>0, <2>1 DEF ClearAllMsg, Orders, Asks
  <2>. QED  BY <2>1, <2>2, <2>3 DEF Sends
<1>. QED  BY <1>1, <1>3, <1>4, <1>5, <1>6 DEF Call

--------------------------------------------------------------------------------
(* What a message the manager receives tells of the vehicle. *)
Heard(m) ==
  /\ stable => Fits(m, vehicleItems) /\ Complete(vehicleItems)
  /\ prompt => Answers(m)
  /\ Possible(m)

HeardFrame == UNCHANGED <<vehicleItems, failureMode, stable, prompt>>

(* A message that is ignored. *)
LEMMA IgnoreKeeps ==
  ASSUME ManagerInv, HeardFrame, Ignore
  PROVE  ManagerInv' /\ Sends
BY WaitingKeeps DEF HeardFrame, Ignore, state, Sends

(* A read that is told to have no items, or that has its last one.         *)
LEMMA ReadCompleteSends ==
  ASSUME NEW items, ReadTransactionComplete(items)
  PROVE  Sends /\ FinishTransaction(TRUE, FALSE, items, {})
<1>1. outbox' = <<MissionAckMsg("ACCEPTED", OwnType)>>
  BY DEF ReadTransactionComplete
<1>2. /\ MissionAckMsg("ACCEPTED", OwnType) \in Orders
      /\ ~Live(MissionAckMsg("ACCEPTED", OwnType))
  BY PlanManagerAssumption DEF MissionAckMsg, Orders, Live, MavMissionResult
<1>. QED  BY <1>1, <1>2 DEF Sends, ReadTransactionComplete

(* The smallest of an interval is its first. *)
LEMMA MinOfInterval ==
  ASSUME NEW lo \in Nat, NEW hi \in Int, lo <= hi
  PROVE  Min(lo .. hi) = lo
<1>1. lo \in lo .. hi /\ \A x \in lo .. hi : lo <= x
  OBVIOUS
<1>2. \A x \in lo .. hi : (\A y \in lo .. hi : x <= y) => x = lo
  BY <1>1
<1>. QED  BY <1>1, <1>2 DEF Min

(* The smallest of a set of indices is one of them. *)
LEMMA MinIsMember ==
  ASSUME NEW S \in SUBSET Nat, S # {}
  PROVE  Min(S) \in S
<1>. DEFINE R == {r \in Nat \X Nat : r[1] < r[2]}
<1>1. IsWellFoundedOn(R, Nat)
  BY NatLessThanWellFounded DEF OpToRel
<1>. HIDE DEF R
<1>2. PICK x \in S : \A y \in S : <<y, x>> \notin R
  BY <1>1, WFMin
<1>3. ASSUME NEW y \in S PROVE x =< y
  <2>1. x \in Nat /\ y \in Nat /\ <<y, x>> \notin R
    BY <1>2
  <2>2. ~(y < x)
    BY <2>1 DEF R
  <2>. QED  BY <2>1, <2>2
<1>. QED  BY <1>3 DEF Min

(* A request for the next item asks for it. *)
LEMMA RequestNextSends ==
  ASSUME outbox' = <<MissionRequestMsg(Min(itemIndicesToRead'), OwnType)>>,
         IInv', ManagerInv', Reading'
  PROVE  Sends
<1>1. /\ itemIndicesToRead' # {} /\ itemIndicesToRead' \in SUBSET Nat
      /\ missionItemCountToRead' \in Nat /\ missionItems' \in Seq(MissionItems)
  BY DEF IInv, TypeOK, ReadPartition, Reading
<1>2. PICK k \in Nat : k = Min(itemIndicesToRead')
  BY <1>1, MinIsMember
<1>3. ASSUME prompt', ~Misread' PROVE k = Len(missionItems')
  <2>1. itemIndicesToRead' = Len(missionItems') .. missionItemCountToRead' - 1
    BY <1>3 DEF ManagerInv, ReadInOrder
  <2>2. Len(missionItems') \in Nat
    BY <1>1
  <2>3. Len(missionItems') <= missionItemCountToRead' - 1
    BY <1>1, <2>1, <2>2
  <2>. QED  BY <1>1, <1>2, <2>1, <2>2, <2>3, MinOfInterval
<1>. DEFINE m == MissionRequestMsg(k, OwnType)
<1>4. m \in Orders /\ m.msgid = "MISSION_REQUEST_INT" /\ m.seq = k
  BY PlanManagerAssumption DEF Orders, MissionRequestMsg
<1>5. outbox' = <<m>>
  BY <1>2
<1>. HIDE DEF m
<1>6. prompt' => Asks(m)'
  BY <1>3, <1>4 DEF Asks, Reading
<1>. QED  BY <1>4, <1>5, <1>6 DEF Sends

(* MISSION_COUNT. *)
LEMMA CountKeepsManager ==
  ASSUME IInv, ManagerInv, VehicleOK, HeardFrame, NEW m \in Messages, Heard(m),
         connections > 0, HandleMissionCount(m)
  PROVE  ManagerInv' /\ Sends
<1>1. CASE m.type # OwnType \/ expectedAck # "AckMissionCount"
  BY <1>1, IgnoreKeeps DEF HandleMissionCount
<1>2. CASE m.type = OwnType /\ expectedAck = "AckMissionCount"
  <2>1. transactionInProgress = "Read" /\ missionItems = <<>> /\ m.count \in Nat
        /\ m.msgid = "MISSION_COUNT"
    BY <1>2 DEF IInv, TypeOK, TransactionIsGuarded, AcksOf, Transactions, ReadStartsEmpty,
                Messages, HandleMissionCount
  <2>2. stable => m.count = Cardinality(DOMAIN vehicleItems)
    BY <2>1 DEF Heard, Fits
  <2>3. CASE m.count = 0
    <3>1. ReadTransactionComplete(missionItems)
      BY <1>2, <2>3 DEF HandleMissionCount
    <3>2. FinishTransaction(TRUE, FALSE, <<>>, {}) /\ Sends
      BY <2>1, <3>1, ReadCompleteSends
    <3>3. /\ transactionInProgress' = "None" /\ missionItems' = <<>>
          /\ "sendComplete" \notin emitted' /\ "removeAllComplete" \notin emitted'
      BY <2>1, <3>2 DEF FinishTransaction
    <3>4. ReadHasVehicleItems'
      <4>1. SUFFICES ASSUME stable
                     PROVE  /\ Len(missionItems') = Cardinality(DOMAIN vehicleItems')
                            /\ Range(missionItems')
                                 = {AsRead(vehicleItems', seq) : seq \in DOMAIN vehicleItems'}
                            /\ \A i \in DOMAIN missionItems' :
                                 missionItems'[i] = AsRead(vehicleItems', i - 1)
        BY DEF ReadHasVehicleItems, HeardFrame, AsRead
      <4>2. DOMAIN vehicleItems' = {} /\ Cardinality(DOMAIN vehicleItems') = 0
        BY <2>2, <2>3, <4>1, FS_EmptySet DEF HeardFrame, VehicleOK
      <4>3. DOMAIN missionItems' = {} /\ Len(missionItems') = 0 /\ Range(missionItems') = {}
        BY <3>3 DEF Range
      <4>. QED  BY <4>2, <4>3
    <3>5. PromptPlanIsOnVehicle'
      BY <3>3 DEF PromptPlanIsOnVehicle
    <3>. QED  BY <3>2, <3>3, <3>4, <3>5, EndKeeps
  <2>4. CASE m.count # 0
    <3>1. /\ emitted' = {} /\ itemIndicesToRead' = 0 .. m.count - 1
          /\ missionItemCountToRead' = m.count
          /\ outbox' = <<MissionRequestMsg(Min(0 .. m.count - 1), OwnType)>>
          /\ expectedAck' = "AckMissionItem"
          /\ UNCHANGED <<transactionInProgress, missionItems>>
      BY <1>2, <2>4 DEF HandleMissionCount, RequestNextMissionItem, StartAckTimeout
    <3>2. Reading' /\ ~Writing'
      BY <2>1, <3>1 DEF Reading, Writing
    <3>3. missionItems' = <<>> /\ DOMAIN missionItems' = {} /\ Len(missionItems') = 0
      BY <2>1, <3>1
    <3>4. ReadSoFar'
      BY <2>2, <3>1, <3>3 DEF ReadSoFar, HeardFrame
    <3>5. ReadInOrder'
      BY <3>1, <3>3 DEF ReadInOrder
    <3>6. ReadHasVehicleItems' /\ PromptPlanIsOnVehicle'
      BY <3>1 DEF ReadHasVehicleItems, ReadSucceeds, PromptPlanIsOnVehicle
    <3>7. ManagerInv'
      BY <3>1, <3>2, <3>4, <3>5, <3>6
      DEF ManagerInv, ServedOnce, ServedFromZero, Reported
    <3>8. IInv'
      BY CountKeepsIInv
    <3>9. outbox' = <<MissionRequestMsg(Min(itemIndicesToRead'), OwnType)>>
      BY <3>1
    <3>. QED  BY <3>2, <3>7, <3>8, <3>9, RequestNextSends
  <2>. QED  BY <2>3, <2>4
<1>. QED  BY <1>1, <1>2

(* MISSION_ITEM_INT. *)
LEMMA ItemKeepsManager ==
  ASSUME IInv, ManagerInv, VehicleOK, HeardFrame, NEW m \in Messages, Heard(m),
         connections > 0, HandleMissionItem(m)
  PROVE  ManagerInv' /\ Sends
<1>. DEFINE seq  == m.item.seq
            item == ShiftJump(m.item, IF SendsHome THEN 0 ELSE 1)
            rest == itemIndicesToRead \ {seq}
<1>0. /\ m.msgid = "MISSION_ITEM_INT" /\ m.item \in MissionItems
      /\ item \in MissionItems /\ item.seq = seq /\ seq \in Int
  <2>1. m.msgid = "MISSION_ITEM_INT" /\ m.item \in MissionItems
    BY DEF Messages, HandleMissionItem
  <2>2. item \in MissionItems /\ item.seq = seq
    BY <2>1, ShiftJumpType
  <2>3. seq \in Int
    BY <2>1 DEF MissionItems
  <2>. QED  BY <2>1, <2>2, <2>3
<1>1. CASE expectedAck # "AckMissionItem"
  BY <1>1, IgnoreKeeps DEF HandleMissionItem
<1>2. CASE expectedAck = "AckMissionItem" /\ seq \notin itemIndicesToRead
  <2>1. /\ expectedAck' = "AckMissionItem" /\ emitted' = {} /\ outbox' = <<>>
        /\ UNCHANGED <<transactionInProgress, lists, served>>
    BY <1>2 DEF HandleMissionItem, StartAckTimeout
  <2>. QED  BY <1>2, <2>1, WaitingKeeps DEF HeardFrame, Sends
<1>3. CASE expectedAck = "AckMissionItem" /\ seq \in itemIndicesToRead
  <2>. DEFINE n     == missionItemCountToRead
              items == Append(missionItems, item)
  <2>1. Reading /\ transactionInProgress = "Read"
    BY <1>3 DEF Reading, IInv, TypeOK, TransactionIsGuarded, AcksOf, Transactions
  <2>2. /\ missionItems \in Seq(MissionItems) /\ Len(missionItems) \in Nat /\ n \in Nat
        /\ itemIndicesToRead \subseteq Nat
    BY DEF IInv, TypeOK
  <2>3. /\ items \in Seq(MissionItems) /\ Len(items) = Len(missionItems) + 1
        /\ DOMAIN items = 1 .. Len(missionItems) + 1
        /\ \A i \in DOMAIN items :
             items[i] = IF i = Len(missionItems) + 1 THEN item ELSE missionItems[i]
        /\ DOMAIN missionItems = 1 .. Len(missionItems)
    BY <1>0, <2>2
  <2>4. stable => /\ n = Cardinality(DOMAIN vehicleItems) /\ Complete(vehicleItems)
                  /\ seq \in DOMAIN vehicleItems /\ item = AsRead(vehicleItems, seq)
                  /\ \A i \in DOMAIN missionItems :
                       missionItems[i] = AsRead(vehicleItems, missionItems[i].seq)
    BY <1>0, <2>1 DEF Heard, Fits, ManagerInv, ReadSoFar, AsRead
  <2>5. failureMode # <<"ReadIncorrectSequence", seq>>
    BY <1>0 DEF Heard, Possible
  <2>6. prompt /\ ~Misread =>
          /\ seq = Len(missionItems)
          /\ itemIndicesToRead = Len(missionItems) .. n - 1
          /\ \A i \in DOMAIN missionItems : missionItems[i].seq = i - 1
    BY <1>0, <2>1 DEF Heard, Answers, ManagerInv, ReadInOrder
  <2>. HIDE DEF items, item
  <2>7. stable => \A i \in DOMAIN items : items[i] = AsRead(vehicleItems, items[i].seq)
    BY <1>0, <2>3, <2>4
  <2>8. prompt /\ ~Misread => \A i \in DOMAIN items : items[i].seq = i - 1
    BY <1>0, <2>2, <2>3, <2>6
  <2>9. CASE rest = {}
    <3>1. ReadTransactionComplete(items)
      BY <1>3, <2>9 DEF HandleMissionItem, items, item
    <3>2. FinishTransaction(TRUE, FALSE, items, {}) /\ Sends
      BY <3>1, ReadCompleteSends
    <3>3. /\ transactionInProgress' = "None" /\ missionItems' = items
          /\ "sendComplete" \notin emitted' /\ "removeAllComplete" \notin emitted'
      BY <2>1, <3>2 DEF FinishTransaction
    <3>4. IsWhole(items, n)
      <4>1. itemIndicesToRead = {item.seq}
        BY <1>0, <1>3, <2>9
      <4>. QED  BY <1>0, <1>3, <2>1, <4>1, LastItemCompletes DEF items
    <3>5. ~Misread
      BY <2>5, <2>9 DEF Misread
    <3>6. ASSUME stable
          PROVE  /\ Len(items) = Cardinality(DOMAIN vehicleItems)
                 /\ Range(items) = {AsRead(vehicleItems, s) : s \in DOMAIN vehicleItems}
                 /\ prompt => \A i \in DOMAIN items : items[i] = AsRead(vehicleItems, i - 1)
      <4>1. DOMAIN vehicleItems = {items[i].seq : i \in DOMAIN items}
        BY <2>4, <3>4, <3>6 DEF Complete, IsWhole
      <4>2. Range(items) = {items[i] : i \in DOMAIN items}
        BY DEF Range
      <4>3. Range(items) = {AsRead(vehicleItems, s) : s \in DOMAIN vehicleItems}
        BY <2>7, <3>6, <4>1, <4>2
      <4>4. Len(items) = Cardinality(DOMAIN vehicleItems)
        BY <2>4, <3>4, <3>6 DEF IsWhole
      <4>5. prompt => \A i \in DOMAIN items : items[i] = AsRead(vehicleItems, i - 1)
        BY <2>7, <2>8, <3>5, <3>6
      <4>. QED  BY <4>3, <4>4, <4>5
    <3>7. ReadHasVehicleItems'
      BY <3>3, <3>6 DEF ReadHasVehicleItems, HeardFrame, AsRead
    <3>8. PromptPlanIsOnVehicle'
      BY <3>3 DEF PromptPlanIsOnVehicle
    <3>. QED  BY <3>2, <3>3, <3>7, <3>8, EndKeeps
  <2>10. CASE rest # {}
    <3>1. /\ emitted' = {} /\ itemIndicesToRead' = rest /\ missionItems' = items
          /\ outbox' = <<MissionRequestMsg(Min(rest), OwnType)>>
          /\ expectedAck' = "AckMissionItem"
          /\ UNCHANGED <<transactionInProgress, missionItemCountToRead>>
      BY <1>3, <2>10 DEF HandleMissionItem, RequestNextMissionItem, StartAckTimeout, items, item
    <3>2. Reading' /\ ~Writing'
      BY <2>1, <3>1 DEF Reading, Writing
    <3>3. ReadSoFar'
      BY <2>4, <2>7, <3>1 DEF ReadSoFar, HeardFrame, AsRead
    <3>4. ReadInOrder'
      <4>1. Misread => Misread'
        BY <2>5, <3>1 DEF Misread, HeardFrame
      <4>2. prompt /\ ~Misread => rest = Len(items) .. n - 1
        BY <2>2, <2>3, <2>6
      <4>. QED  BY <2>8, <3>1, <4>1, <4>2 DEF ReadInOrder, HeardFrame
    <3>5. ReadHasVehicleItems' /\ PromptPlanIsOnVehicle'
      BY <3>1 DEF ReadHasVehicleItems, ReadSucceeds, PromptPlanIsOnVehicle
    <3>6. ManagerInv'
      BY <3>1, <3>2, <3>3, <3>4, <3>5
      DEF ManagerInv, ServedOnce, ServedFromZero, Reported
    <3>7. IInv'
      BY ItemKeepsIInv
    <3>8. outbox' = <<MissionRequestMsg(Min(itemIndicesToRead'), OwnType)>>
      BY <3>1
    <3>. QED  BY <3>2, <3>6, <3>7, <3>8, RequestNextSends
  <2>. QED  BY <2>9, <2>10
<1>. QED  BY <1>1, <1>2, <1>3

(* MISSION_REQUEST. *)
LEMMA RequestKeepsManager ==
  ASSUME IInv, ManagerInv, HeardFrame, NEW m \in Messages, Heard(m),
         connections > 0, HandleMissionRequest(m)
  PROVE  ManagerInv' /\ Sends
<1>1. CASE m.type # OwnType \/ expectedAck # "AckMissionRequest"
  BY <1>1, IgnoreKeeps DEF HandleMissionRequest
<1>2. CASE m.type = OwnType /\ expectedAck = "AckMissionRequest"
  <2>1. Writing /\ m.seq \in Nat /\ m.msgid = "MISSION_REQUEST_INT"
    BY <1>2 DEF Writing, IInv, TypeOK, TransactionIsGuarded, AcksOf, Transactions,
                HandleMissionRequest, Messages
  <2>2. CASE m.seq >= Len(writeMissionItems)
    <3>1. Fail("RequestRangeError", FALSE) /\ outbox' = <<>> /\ "RequestRangeError" \in Errors
      BY <1>2, <2>2 DEF HandleMissionRequest, Errors
    <3>. QED  BY <3>1, FailKeeps DEF Sends
  <2>3. CASE ~(m.seq >= Len(writeMissionItems))
    <3>. DEFINE seq == m.seq
    <3>3. PICK item \in NumberedItems :
            item.seq = seq /\ item = Numbered(writeMissionItems[seq + 1], seq)
      <4>1. writeMissionItems \in Seq(MissionItems) /\ seq \in 0 .. Len(writeMissionItems) - 1
        BY <2>1, <2>3 DEF IInv, TypeOK
      <4>2. writeMissionItems[seq + 1] \in MissionItems
        BY <4>1
      <4>. DEFINE it == Numbered(writeMissionItems[seq + 1], seq)
      <4>3. it \in MissionItems /\ it.seq = seq
        BY <2>1, <4>2, RenumberType DEF Numbered, MissionItems
      <4>. HIDE DEF it
      <4>4. it \in NumberedItems
        BY <2>1, <4>3 DEF NumberedItems
      <4>. QED  BY <4>3, <4>4 DEF it
    <3>. DEFINE sent == MissionItemMsg(item, OwnType)
    <3>1. /\ itemIndicesToWrite' = itemIndicesToWrite \ {seq}
          /\ served' = served \cup {seq}
          /\ outbox' = <<sent>>
          /\ expectedAck' = "AckMissionRequest" /\ emitted' = {}
          /\ UNCHANGED <<transactionInProgress, itemIndicesToRead, missionItemCountToRead,
               missionItems, writeMissionItems>>
      BY <1>2, <2>3, <3>3 DEF HandleMissionRequest, StartAckTimeout, Numbered
    <3>2. Writing' /\ ~Reading'
      BY <2>1, <3>1 DEF Writing, Reading
    <3>4. sent \in Orders /\ sent.msgid = "MISSION_ITEM_INT" /\ sent.item = item
      BY <3>3, PlanManagerAssumption DEF MissionItemMsg, Orders
    <3>5. Misasked => Misasked'
      BY <2>1, <3>1 DEF Heard, Possible, Misasked, HeardFrame
    <3>6. ASSUME prompt, ~Misasked
          PROVE  HoldsAllBut(seq)' /\ seq \in served' /\ 0 \in served'
      <4>1. /\ InProgress /\ Holds /\ DOMAIN vehicleItems = served
            /\ served = {} => seq = 0
            /\ served # {} => 0 \in served
        BY <2>1, <3>6 DEF Heard, Answers, ManagerInv, ServedFromZero
      <4>2. Holds' /\ vehicleItems' = vehicleItems
        BY <3>1, <4>1 DEF Holds, HeardFrame
      <4>. QED  BY <3>1, <4>1, <4>2 DEF HoldsAllBut
    <3>7. ServedOnce' /\ ServedFromZero'
      <4>1. ServedOnce'
        BY <2>1, <3>1 DEF ManagerInv, ServedOnce
      <4>2. ServedFromZero'
        BY <3>5, <3>6 DEF ServedFromZero, HeardFrame
      <4>. QED  BY <4>1, <4>2
    <3>8. ManagerInv'
      BY <3>1, <3>2, <3>7
      DEF ManagerInv, ReadSoFar, ReadInOrder, Reported, ReadHasVehicleItems, ReadSucceeds,
          PromptPlanIsOnVehicle
    <3>. HIDE DEF sent
    <3>9. prompt' => Asks(sent)'
      <4>1. writeMissionItems' = writeMissionItems /\ InProgress'
        BY <3>1, <3>2 DEF Writing
      <4>2. item = Numbered(writeMissionItems'[seq + 1], seq)
        BY <3>3, <4>1
      <4>3. Misasked' \/ ~prompt' \/ (HoldsAllBut(seq)' /\ seq \in served')
        BY <3>5, <3>6 DEF HeardFrame
      <4>4. sent.item.seq = seq /\ sent.item = item /\ sent.msgid = "MISSION_ITEM_INT"
        BY <3>3, <3>4
      <4>. QED  BY <3>2, <4>1, <4>2, <4>3, <4>4 DEF Asks
    <3>10. outbox' = <<sent>>
      BY <3>1 DEF sent
    <3>. QED  BY <3>4, <3>8, <3>9, <3>10 DEF Sends
  <2>. QED  BY <2>2, <2>3
<1>. QED  BY <1>1, <1>2

(* MISSION_ACK. *)
LEMMA AckKeepsManager ==
  ASSUME IInv, ManagerInv, HeardFrame, NEW m \in Messages, Heard(m),
         connections > 0, HandleMissionAck(m)
  PROVE  ManagerInv' /\ Sends
<1>1. CASE \/ m.type # OwnType \/ expectedAck = "AckNone"
           \/ ApmFirmware /\ m.result = "INVALID_SEQUENCE"
  BY <1>1, IgnoreKeeps DEF HandleMissionAck
<1>2. CASE ~(\/ m.type # OwnType \/ expectedAck = "AckNone"
             \/ ApmFirmware /\ m.result = "INVALID_SEQUENCE")
  <2>. DEFINE guided == expectedAck = "AckGuidedItem"
              success == \/ expectedAck = "AckMissionRequest" /\ itemIndicesToWrite = {}
                         \/ expectedAck \in {"AckMissionClearAll", "AckGuidedItem"}
  <2>0. guided \in BOOLEAN /\ outbox' = <<>> /\ "VehicleAckError" \in Errors
    BY <1>2 DEF HandleMissionAck, Errors
  <2>1. CASE ~(m.result = "ACCEPTED" /\ success)
    <3>1. Fail("VehicleAckError", guided)
      BY <1>2, <2>1 DEF HandleMissionAck
    <3>. HIDE DEF guided
    <3>. QED  BY <2>0, <3>1, FailKeeps DEF Sends
  <2>2. CASE m.result = "ACCEPTED" /\ success
    <3>1. FinishTransaction(TRUE, guided, missionItems, {})
      BY <1>2, <2>2 DEF HandleMissionAck
    <3>2. /\ transactionInProgress \in {"Write", "RemoveAll"}
          /\ expectedAck = "AckMissionRequest" => Writing
          /\ transactionInProgress = "Write" /\ ~guided => Writing
          /\ transactionInProgress = "RemoveAll" => expectedAck = "AckMissionClearAll"
      BY <2>2 DEF IInv, TypeOK, TransactionIsGuarded, AcksOf, Transactions, Writing
    <3>3. /\ transactionInProgress' = "None" /\ "newMissionItemsAvailable" \notin emitted'
          /\ "sendComplete" \in emitted' => transactionInProgress = "Write" /\ ~guided
          /\ "removeAllComplete" \in emitted' => transactionInProgress = "RemoveAll"
          /\ transactionInProgress = "Write" /\ ~guided => missionItems' = writeMissionItems
      BY <3>1, <3>2 DEF FinishTransaction
    <3>4. ASSUME prompt, "sendComplete" \in emitted' PROVE OnVehicle(missionItems)'
      <4>1. Writing /\ itemIndicesToWrite = {} /\ missionItems' = writeMissionItems
        BY <2>2, <3>2, <3>3, <3>4 DEF Writing
      <4>2. Holds /\ DOMAIN vehicleItems = served
        BY <3>4, <4>1 DEF Heard, Answers, Misasked
      <4>3. served = 0 .. Len(writeMissionItems) - 1
        BY <4>1 DEF IInv, WritePartition, Writing
      <4>. QED  BY <4>1, <4>2, <4>3 DEF OnVehicle, Holds, HeardFrame
    <3>5. ASSUME prompt, "removeAllComplete" \in emitted' PROVE DOMAIN vehicleItems' = {}
      BY <3>2, <3>3, <3>5 DEF Heard, Answers, HeardFrame
    <3>6. PromptPlanIsOnVehicle' /\ ReadHasVehicleItems'
      BY <3>3, <3>4, <3>5 DEF PromptPlanIsOnVehicle, ReadHasVehicleItems, ReadSucceeds, HeardFrame
    <3>. QED  BY <2>0, <3>3, <3>6, EndKeeps DEF Sends
  <2>. QED  BY <2>1, <2>2
<1>. QED  BY <1>1, <1>2

(* _ackTimeout. *)
LEMMA TimeoutKeepsManager ==
  ASSUME IInv, ManagerInv, prompt' => prompt, AckTimeout,
         UNCHANGED <<vehicleItems, failureMode, stable>>
  PROVE  ManagerInv' /\ Sends
<1>0. /\ timerActive /\ InProgress /\ OwnType \in PlanTypes
      /\ {"AckTimeoutError", "ProtocolError", "MaxRetryExceeded"} \subseteq Errors
      /\ retryCount \in Nat /\ MaxRetryCount \in Nat
  BY PlanManagerAssumption DEF AckTimeout, Errors, IInv, TypeOK, TransactionIsGuarded
<1>1. ASSUME NEW error \in Errors, GiveUp(error) PROVE ManagerInv' /\ Sends
  BY <1>1, FailKeeps DEF GiveUp, Sends
<1>2. CASE TimeoutRead
  <2>1. CASE retryCount > MaxRetryCount
    BY <1>0, <1>1, <1>2, <2>1 DEF TimeoutRead
  <2>2. CASE retryCount <= MaxRetryCount /\ expectedAck = "AckMissionCount"
    <3>1. transactionInProgress = "Read"
      BY <1>0, <2>2 DEF IInv, TypeOK, TransactionIsGuarded, AcksOf, Transactions
    <3>2. /\ transactionInProgress' = "Read" /\ expectedAck' = "AckMissionCount"
          /\ emitted' = {} /\ outbox' = <<RequestListMsg(OwnType)>>
      BY <1>0, <1>2, <2>2, <3>1 DEF TimeoutRead, Retry, RequestList, StartAckTimeout
    <3>3. ManagerInv'
      BY <3>2, BeginKeeps DEF Reading, Writing
    <3>4. RequestListMsg(OwnType) \in Orders /\ Asks(RequestListMsg(OwnType))'
      BY <1>0, <3>2 DEF RequestListMsg, Orders, Asks
    <3>. QED  BY <3>2, <3>3, <3>4 DEF Sends
  <2>3. CASE retryCount <= MaxRetryCount /\ expectedAck = "AckMissionItem"
    <3>1. /\ expectedAck' = "AckMissionItem" /\ emitted' = {}
          /\ outbox' = <<MissionRequestMsg(Min(itemIndicesToRead), OwnType)>>
          /\ UNCHANGED <<transactionInProgress, lists, served>>
      BY <1>0, <1>2, <2>3
      DEF TimeoutRead, Retry, RequestNextMissionItem, StartAckTimeout
    <3>2. ManagerInv'
      BY <2>3, <3>1, WaitingKeeps
    <3>3. Reading' /\ itemIndicesToRead' = itemIndicesToRead
      BY <1>0, <2>3, <3>1
      DEF Reading, IInv, TypeOK, TransactionIsGuarded, AcksOf, Transactions, lists
    <3>4. outbox' = <<MissionRequestMsg(Min(itemIndicesToRead'), OwnType)>>
      BY <3>1, <3>3
    <3>5. IInv'
      BY TimeoutKeepsIInv
    <3>. QED  BY <3>2, <3>3, <3>4, <3>5, RequestNextSends
  <2>. QED  BY <1>0, <1>2, <2>1, <2>2, <2>3 DEF TimeoutRead
<1>3. CASE TimeoutWrite
  <2>1. CASE /\ 0 \in itemIndicesToWrite /\ retryCount <= MaxRetryCount
    <3>1. /\ expectedAck = "AckMissionRequest" /\ expectedAck' = "AckMissionRequest"
          /\ emitted' = {}
          /\ outbox' = <<MissionCountMsg(Len(writeMissionItems), OwnType)>>
          /\ UNCHANGED <<transactionInProgress, lists, served>>
      BY <1>0, <1>3, <2>1 DEF TimeoutWrite, Retry, WriteMissionCount, StartAckTimeout
    <3>2. ManagerInv'
      BY <3>1, WaitingKeeps
    <3>3. Writing /\ Writing'
      BY <1>0, <3>1 DEF Writing, IInv, TypeOK, TransactionIsGuarded, AcksOf, Transactions
    <3>4. prompt' => Misasked' \/ served' = {}
      BY <2>1, <3>1, <3>3 DEF ManagerInv, ServedOnce, ServedFromZero, Misasked, lists
    <3>5. PICK n \in Nat : n = Len(writeMissionItems) /\ n = Len(writeMissionItems')
      BY <3>1 DEF IInv, TypeOK, lists
    <3>6. /\ MissionCountMsg(n, OwnType) \in Orders
          /\ prompt' => Asks(MissionCountMsg(n, OwnType))'
      BY <1>0, <3>3, <3>4, <3>5 DEF MissionCountMsg, Orders, Asks, Writing
    <3>. QED  BY <3>1, <3>2, <3>5, <3>6 DEF Sends
  <2>2. CASE ~(0 \in itemIndicesToWrite /\ retryCount <= MaxRetryCount)
    BY <1>0, <1>1, <1>3, <2>2 DEF TimeoutWrite
  <2>. QED  BY <2>1, <2>2
<1>4. CASE TimeoutClearAll
  <2>1. CASE retryCount > MaxRetryCount
    BY <1>0, <1>1, <1>4, <2>1 DEF TimeoutClearAll
  <2>2. CASE retryCount <= MaxRetryCount
    <3>1. /\ expectedAck = "AckMissionClearAll" /\ expectedAck' = "AckMissionClearAll"
          /\ emitted' = {} /\ outbox' = <<ClearAllMsg(OwnType)>>
          /\ UNCHANGED <<transactionInProgress, lists, served>>
      BY <1>0, <1>4, <2>2 DEF TimeoutClearAll, Retry, RemoveAllWorker, StartAckTimeout
    <3>2. ManagerInv'
      BY <3>1, WaitingKeeps
    <3>3. ClearAllMsg(OwnType) \in Orders /\ Asks(ClearAllMsg(OwnType))'
      BY <1>0, <3>1 DEF ClearAllMsg, Orders, Asks
    <3>. QED  BY <3>1, <3>2, <3>3 DEF Sends
  <2>. QED  BY <1>0, <2>1, <2>2
<1>5. CASE TimeoutGuided
  BY <1>0, <1>1, <1>5 DEF TimeoutGuided
<1>. QED  BY <1>2, <1>3, <1>4, <1>5 DEF AckTimeout

(* Every message. *)
LEMMA ReceiveKeepsManager ==
  ASSUME IInv, ManagerInv, VehicleOK, HeardFrame, NEW m \in Messages, Heard(m), Receive(m)
  PROVE  IInv' /\ ManagerInv' /\ Sends
<1>1. CASE connections = 0 /\ Ignore
  BY <1>1, IgnoreKeepsIInv, IgnoreKeeps
<1>2. CASE connections > 0 /\ HandleMissionCount(m)
  BY <1>2, CountKeepsIInv, CountKeepsManager
<1>3. CASE connections > 0 /\ HandleMissionItem(m)
  BY <1>3, ItemKeepsIInv, ItemKeepsManager
<1>4. CASE connections > 0 /\ HandleMissionRequest(m)
  BY <1>4, RequestKeepsIInv, RequestKeepsManager
<1>5. CASE connections > 0 /\ HandleMissionAck(m)
  BY <1>5, AckKeepsIInv, AckKeepsManager
<1>. QED  BY <1>1, <1>2, <1>3, <1>4, <1>5 DEF Receive

--------------------------------------------------------------------------------
(* The link. *)

(* What is sent joins the messages under way, of which on a prompt link    *)
(* none is owed an answer.                                                 *)
LEMMA SendKeepsLink ==
  ASSUME toVehicle \in Seq(Orders), Sends, SendOutbox,
         prompt' => /\ toGcs' = <<>>
                    /\ \A i \in DOMAIN toVehicle : ~Live(toVehicle[i])
  PROVE  toVehicle' \in Seq(Orders) /\ OneUnderWay'
<1>1. CASE outbox' = <<>>
  <2>1. toVehicle' = toVehicle
    BY <1>1 DEF SendOutbox
  <2>2. prompt' => Len(toGcs') <= 1 /\ DOMAIN toGcs' = {}
    OBVIOUS
  <2>. QED  BY <2>1, <2>2 DEF OneUnderWay
<1>2. ASSUME NEW m \in Orders, outbox' = <<m>>, prompt' /\ Live(m) => Asks(m)'
      PROVE  toVehicle' \in Seq(Orders) /\ OneUnderWay'
  <2>. DEFINE n == Len(toVehicle)
  <2>1. /\ toVehicle' \in Seq(Orders) /\ Len(toVehicle') = n + 1 /\ n \in Nat
        /\ DOMAIN toVehicle = 1 .. n /\ DOMAIN toVehicle' = 1 .. n + 1
        /\ \A i \in 1 .. n : toVehicle'[i] = toVehicle[i]
        /\ toVehicle'[n + 1] = m
    BY <1>2 DEF SendOutbox
  <2>2. prompt' => Len(toGcs') <= 1 /\ DOMAIN toGcs' = {}
    OBVIOUS
  <2>3. ASSUME prompt', NEW i \in DOMAIN toVehicle', Live(toVehicle[i])'
        PROVE  i = Len(toVehicle') /\ Asks(toVehicle[i])'
    <3>1. i = n + 1
      BY <2>1, <2>3 DEF Live
    <3>2. toVehicle'[i] = m
      BY <2>1, <3>1
    <3>3. Asks(m)'
      BY <1>2, <2>3, <3>2 DEF Live
    <3>4. Asks(toVehicle[i])'
      BY <3>2, <3>3 DEF Asks, HoldsAllBut
    <3>. QED  BY <2>1, <3>1, <3>4
  <2>. QED  BY <2>1, <2>2, <2>3 DEF OneUnderWay
<1>. QED  BY <1>1, <1>2 DEF Sends

--------------------------------------------------------------------------------
(* The vehicle's steps. *)

(* What the vehicle answers to message m. *)
Responds(m) ==
  \E a \in Messages :
    /\ toGcs' = Append(toGcs, a)
    /\ Possible(a)
    /\ vehicleItems' = vehicleItems => Fits(a, vehicleItems)
    /\ prompt /\ Asks(m) => Answers(a)'

VehicleFrame == UNCHANGED <<vars, prompt, failureMode>>

(* The vehicle's handler is that of a plan type.                           *)
LEMMA HandlerIsOwn == HandlerType \in PlanTypes
BY PlanManagerAssumption, TransferAssumption

(* An ack answers a message that leaves nothing to be sorted out.          *)
LEMMA AckResponds ==
  ASSUME NEW m \in Orders, NEW result \in MavMissionResult, SendAck(result),
         prompt /\ Asks(m) => Answers(MissionAckMsg(result, HandlerType))'
  PROVE  Responds(m)
<1>. DEFINE a == MissionAckMsg(result, HandlerType)
<1>1. a \in Messages /\ a.msgid = "MISSION_ACK"
  BY HandlerIsOwn DEF Messages, MissionAckMsg
<1>2. toGcs' = Append(toGcs, a)
  BY DEF SendAck, Send
<1>. HIDE DEF a
<1>3. Possible(a) /\ Fits(a, vehicleItems)
  BY <1>1 DEF Possible, Fits
<1>4. prompt /\ Asks(m) => Answers(a)'
  BY DEF a
<1>. QED  BY <1>1, <1>2, <1>3, <1>4 DEF Responds

(* A request answers with the number asked for, or a wrong one.            *)
LEMMA RequestResponds ==
  ASSUME NEW m \in Orders, NEW seq \in Nat, RequestItem(seq),
         prompt /\ Asks(m) =>
           /\ Writing'
           /\ Misasked' \/ /\ Holds' /\ (DOMAIN vehicleItems = served)'
                           /\ served' = {} =>
                                seq = 0 /\ failureMode # <<"WriteIncorrectSequence", 0>>
  PROVE  Responds(m)
<1>0. {"ERROR"} \subseteq MavMissionResult
  BY DEF MavMissionResult
<1>1. CASE failureMode = <<"WriteErrorAck", seq>>
  <2>1. SendAck("ERROR")
    BY <1>1 DEF RequestItem
  <2>2. prompt /\ Asks(m) => Answers(MissionAckMsg("ERROR", HandlerType))'
    BY DEF Answers, MissionAckMsg, Writing
  <2>. QED  BY <1>0, <2>1, <2>2, AckResponds
<1>2. CASE failureMode # <<"WriteErrorAck", seq>>
  <2>1. PICK k \in Nat : k = IF failureMode = <<"WriteIncorrectSequence", seq>>
                               THEN seq + 1 ELSE seq
    OBVIOUS
  <2>. DEFINE a == MissionRequestMsg(k, HandlerType)
  <2>2. a \in Messages /\ a.msgid = "MISSION_REQUEST_INT" /\ a.seq = k
    BY HandlerIsOwn DEF Messages, MissionRequestMsg
  <2>3. toGcs' = Append(toGcs, a)
    BY <1>2, <2>1 DEF RequestItem, Send
  <2>. HIDE DEF a
  <2>4. k = 0 => seq = 0 /\ failureMode # <<"WriteIncorrectSequence", 0>>
    BY <2>1
  <2>5. Possible(a) /\ Fits(a, vehicleItems)
    BY <2>2, <2>4 DEF Possible, Fits
  <2>6. prompt /\ Asks(m) => Answers(a)'
    BY <2>1, <2>2 DEF Answers, Writing
  <2>. QED  BY <2>2, <2>3, <2>5, <2>6 DEF Responds
<1>. QED  BY <1>1, <1>2

(* An empty map. *)
LEMMA NoItemsIsEmpty == DOMAIN NoItems = {}
BY DEF NoItems

(* CLEAR_ALL and REQUEST_LIST. *)
LEMMA ClearAllResponds ==
  ASSUME IInv, VehicleOK, VehicleFrame, NEW m \in Orders, HandleClearAll(m)
  PROVE  VehicleOK' /\ Responds(m)
<1>1. /\ vehicleItems' = NoItems /\ DOMAIN vehicleItems' = {} /\ SendAck("ACCEPTED")
      /\ m.msgid = "MISSION_CLEAR_ALL" /\ writeSequenceIndex' = writeSequenceIndex
  BY NoItemsIsEmpty DEF HandleClearAll
<1>2. VehicleOK'
  BY <1>1, FS_EmptySet DEF VehicleOK
<1>3. prompt /\ Asks(m) => Answers(MissionAckMsg("ACCEPTED", HandlerType))'
  BY <1>1 DEF Asks, Answers, MissionAckMsg, Writing, VehicleFrame, vars, state
<1>. QED  BY <1>1, <1>2, <1>3, AckResponds DEF MavMissionResult

(* MISSION_REQUEST_LIST: the number of items the vehicle holds.            *)
LEMMA RequestListResponds ==
  ASSUME IInv, VehicleOK, VehicleFrame, NEW m \in Orders, HandleRequestList(m)
  PROVE  VehicleOK' /\ Responds(m)
<1>1. /\ UNCHANGED vehicle /\ m.msgid = "MISSION_REQUEST_LIST"
      /\ toGcs' = Append(toGcs, MissionCountMsg(Cardinality(DOMAIN vehicleItems), HandlerType))
  BY DEF HandleRequestList, Send
<1>2. VehicleOK'
  BY <1>1 DEF VehicleOK, vehicle
<1>3. PICK n \in Nat : n = Cardinality(DOMAIN vehicleItems)
  BY FS_CardinalityType DEF VehicleOK
<1>. DEFINE a == MissionCountMsg(n, HandlerType)
<1>4. a \in Messages /\ a.msgid = "MISSION_COUNT" /\ a.count = n
  BY HandlerIsOwn DEF Messages, MissionCountMsg
<1>5. toGcs' = Append(toGcs, a)
  BY <1>1, <1>3
<1>. HIDE DEF a
<1>6. Possible(a) /\ Fits(a, vehicleItems)
  BY <1>3, <1>4 DEF Possible, Fits
<1>7. prompt /\ Asks(m) => Answers(a)'
  BY <1>1, <1>4 DEF Asks, Answers, Writing, VehicleFrame, vars, state
<1>. QED  BY <1>2, <1>4, <1>5, <1>6, <1>7 DEF Responds

(* Storing an item adds its number to those of the map. *)
StoredIn(items, i, item) ==
  /\ DOMAIN items = DOMAIN vehicleItems \cup {i}
  /\ DOMAIN items \subseteq Nat /\ IsFiniteSet(DOMAIN items)
  /\ \A j \in DOMAIN items : items[j] \in MissionItems
  /\ items[i] = item
  /\ \A j \in DOMAIN vehicleItems \ {i} : items[j] = vehicleItems[j]

(* What storing an item leaves in the map.                                 *)
LEMMA StoreKeeps ==
  ASSUME VehicleOK, NEW i \in Nat, NEW item \in MissionItems
  PROVE  StoredIn(Store(vehicleItems, i, item), i, item)
<1>. DEFINE items == Store(vehicleItems, i, item)
<1>1. DOMAIN items = DOMAIN vehicleItems \cup {i}
  BY DEF Store
<1>2. IsFiniteSet(DOMAIN vehicleItems \cup {i})
  BY FS_AddElement DEF VehicleOK
<1>. QED  BY <1>1, <1>2 DEF Store, VehicleOK, StoredIn

(* MISSION_REQUEST: the item asked for, or the one after it.               *)
LEMMA ReadRequestResponds ==
  ASSUME IInv, ManagerInv, VehicleOK, VehicleFrame, NEW m \in Orders, HandleReadRequest(m)
  PROVE  VehicleOK' /\ Responds(m)
<1>1. m.msgid = "MISSION_REQUEST_INT" /\ m.seq \in Nat /\ EmptyItem \in MissionItems
  BY TransferAssumption DEF HandleReadRequest, Orders
<1>2. PICK seq \in Nat : seq = IF failureMode = <<"ReadIncorrectSequence", m.seq>>
                                 THEN m.seq + 1 ELSE m.seq
  BY <1>1
<1>3. PICK items : items = IF seq \in DOMAIN vehicleItems THEN vehicleItems
                             ELSE Store(vehicleItems, seq, EmptyItem)
  OBVIOUS
<1>4. /\ DOMAIN items = DOMAIN vehicleItems \cup {seq}
      /\ DOMAIN items \subseteq Nat /\ IsFiniteSet(DOMAIN items)
      /\ \A j \in DOMAIN items : items[j] \in MissionItems
  <2>1. CASE seq \in DOMAIN vehicleItems
    BY <1>3, <2>1 DEF VehicleOK
  <2>2. CASE seq \notin DOMAIN vehicleItems
    <3>1. items = Store(vehicleItems, seq, EmptyItem)
      BY <1>3, <2>2
    <3>2. StoredIn(items, seq, EmptyItem)
      BY <1>1, <3>1, StoreKeeps
    <3>. QED  BY <3>2 DEF StoredIn
  <2>. QED  BY <2>1, <2>2
<1>5. /\ writeSequenceIndex' = writeSequenceIndex
      /\ vehicleItems' \in {vehicleItems, items}
  BY <1>2, <1>3 DEF HandleReadRequest
<1>6. VehicleOK'
  BY <1>4, <1>5 DEF VehicleOK
<1>7. CASE failureMode = <<"ReadErrorAck", seq>>
  <2>1. SendAck("ERROR") /\ vehicleItems' = vehicleItems
    BY <1>2, <1>3, <1>7 DEF HandleReadRequest
  <2>2. prompt /\ Asks(m) => Answers(MissionAckMsg("ERROR", HandlerType))'
    BY <1>1, <2>1
    DEF Asks, Answers, MissionAckMsg, Reading, Writing, VehicleFrame, vars, state
  <2>. QED  BY <1>6, <2>1, <2>2, AckResponds DEF MavMissionResult
<1>8. CASE failureMode # <<"ReadErrorAck", seq>>
  <2>1. PICK item : item = Numbered(items[seq], seq)
    OBVIOUS
  <2>2. item \in MissionItems /\ item.seq = seq
    <3>1. items[seq] \in MissionItems
      BY <1>4
    <3>. QED  BY <2>1, <3>1, RenumberType DEF Numbered, MissionItems
  <2>. DEFINE a == MissionItemMsg(item, HandlerType)
  <2>3. a \in Messages /\ a.msgid = "MISSION_ITEM_INT" /\ a.item = item
    BY <2>2, HandlerIsOwn DEF Messages, MissionItemMsg
  <2>4. toGcs' = Append(toGcs, a) /\ vehicleItems' = items
    BY <1>2, <1>3, <1>8, <2>1 DEF HandleReadRequest, Send, Numbered
  <2>. HIDE DEF a
  <2>5. Possible(a)
    <3>1. failureMode # <<"ReadIncorrectSequence", seq>>
      BY <1>1, <1>2
    <3>. QED  BY <2>2, <2>3, <3>1 DEF Possible
  <2>6. vehicleItems' = vehicleItems => Fits(a, vehicleItems)
    BY <1>4, <2>1, <2>2, <2>3, <2>4 DEF Fits
  <2>7. prompt /\ Asks(m) => Answers(a)'
    <3>. SUFFICES ASSUME prompt, Asks(m) PROVE Answers(a)'
      OBVIOUS
    <3>1. Reading /\ (Misread \/ m.seq = Len(missionItems))
      BY <1>1 DEF Asks
    <3>2. ASSUME ~Misread PROVE seq = Len(missionItems)
      <4>1. /\ itemIndicesToRead = Len(missionItems) .. missionItemCountToRead - 1
            /\ itemIndicesToRead # {}
        BY <3>1, <3>2 DEF ManagerInv, ReadInOrder, IInv, ReadPartition, Reading
      <4>2. Len(missionItems) \in Nat /\ missionItemCountToRead \in Nat
        BY DEF IInv, TypeOK
      <4>3. m.seq \in itemIndicesToRead
        BY <3>1, <3>2, <4>1, <4>2
      <4>. QED  BY <1>2, <3>1, <3>2, <4>3 DEF Misread
    <3>3. Misread' \/ a.item.seq = Len(missionItems)
      BY <2>2, <2>3, <3>2 DEF Misread, VehicleFrame, vars, state, lists
    <3>. QED  BY <2>3, <3>1, <3>3 DEF Answers, Reading, Writing, VehicleFrame, vars, state, lists
  <2>. QED  BY <1>6, <2>3, <2>4, <2>5, <2>6, <2>7 DEF Responds
<1>. QED  BY <1>7, <1>8

(* MISSION_COUNT: the plan is dropped before the first item is asked for.  *)
LEMMA CountResponds ==
  ASSUME IInv, VehicleOK, VehicleFrame, NEW m \in Orders, HandleCount(m)
  PROVE  VehicleOK' /\ Responds(m)
<1>1. /\ m.msgid = "MISSION_COUNT" /\ m.count \in Nat
      /\ vehicleItems' = NoItems /\ DOMAIN vehicleItems' = {}
  BY NoItemsIsEmpty DEF HandleCount, Orders
<1>2. failureMode' = failureMode
  BY DEF VehicleFrame
<1>3. Holds'
  BY <1>1 DEF Holds
<1>4. ASSUME Asks(m)
      PROVE  /\ Writing' /\ m.count = Len(writeMissionItems)
             /\ Misasked' \/ served' = {}
             /\ m.count # 0 /\ served' = {} => 0 \in itemIndicesToWrite'
  <2>1. Writing /\ m.count = Len(writeMissionItems) /\ (Misasked \/ served = {})
    BY <1>1, <1>4 DEF Asks
  <2>2. m.count # 0 /\ served = {} => 0 \in itemIndicesToWrite
    BY <1>1, <2>1 DEF IInv, WritePartition, Writing
  <2>. QED  BY <2>1, <2>2 DEF Writing, Misasked, VehicleFrame, vars, state, lists
<1>5. CASE m.count = 0
  <2>1. SendAck("ACCEPTED") /\ writeSequenceIndex' = writeSequenceIndex
    BY <1>5 DEF HandleCount
  <2>2. prompt /\ Asks(m) => Answers(MissionAckMsg("ACCEPTED", HandlerType))'
    BY <1>1, <1>3, <1>4 DEF Answers, MissionAckMsg, Writing
  <2>3. VehicleOK'
    BY <1>1, <2>1, FS_EmptySet DEF VehicleOK
  <2>. QED  BY <2>1, <2>2, <2>3, AckResponds DEF MavMissionResult
<1>6. CASE m.count # 0
  <2>1. RequestItem(0) /\ writeSequenceIndex' = 0
    BY <1>6 DEF HandleCount
  <2>2. prompt /\ Asks(m) =>
          /\ Writing'
          /\ Misasked' \/ /\ Holds' /\ (DOMAIN vehicleItems = served)'
                          /\ served' = {} =>
                               0 = 0 /\ failureMode # <<"WriteIncorrectSequence", 0>>
    BY <1>1, <1>2, <1>3, <1>4, <1>6 DEF Misasked
  <2>3. VehicleOK'
    BY <1>1, <2>1, FS_EmptySet DEF VehicleOK
  <2>. QED  BY <2>1, <2>2, <2>3, RequestResponds
<1>. QED  BY <1>5, <1>6

(* MISSION_ITEM_INT: the item served is on the vehicle now.                *)
LEMMA ItemResponds ==
  ASSUME IInv, VehicleOK, VehicleFrame, NEW m \in Orders, HandleItem(m)
  PROVE  VehicleOK' /\ Responds(m)
<1>. DEFINE seq  == m.item.seq
            next == writeSequenceIndex + 1
<1>1. /\ m.msgid = "MISSION_ITEM_INT" /\ m.item \in MissionItems /\ seq \in Nat
      /\ vehicleItems' = Store(vehicleItems, seq, m.item)
      /\ writeSequenceIndex' = next /\ next \in Nat /\ next # 0
  BY DEF HandleItem, Orders, NumberedItems, VehicleOK
<1>2. /\ DOMAIN vehicleItems' = DOMAIN vehicleItems \cup {seq}
      /\ DOMAIN vehicleItems' \subseteq Nat /\ IsFiniteSet(DOMAIN vehicleItems')
      /\ \A j \in DOMAIN vehicleItems' : vehicleItems'[j] \in MissionItems
      /\ vehicleItems'[seq] = m.item
      /\ \A j \in DOMAIN vehicleItems \ {seq} : vehicleItems'[j] = vehicleItems[j]
  <2>1. StoredIn(vehicleItems', seq, m.item)
    BY <1>1, StoreKeeps
  <2>. QED  BY <2>1 DEF StoredIn
<1>3. VehicleOK'
  BY <1>1, <1>2 DEF VehicleOK
<1>4. failureMode' = failureMode
  BY DEF VehicleFrame
<1>5. ASSUME Asks(m)
      PROVE  /\ Writing'
             /\ Misasked' \/ (Holds' /\ (DOMAIN vehicleItems = served)' /\ served' # {})
  <2>1. /\ Writing
        /\ Misasked \/ /\ HoldsAllBut(seq) /\ seq \in served
                       /\ m.item = Numbered(writeMissionItems[seq + 1], seq)
    BY <1>1, <1>5 DEF Asks
  <2>2. ASSUME ~Misasked PROVE Holds' /\ (DOMAIN vehicleItems = served)' /\ served' # {}
    <3>1. /\ Holds /\ DOMAIN vehicleItems \subseteq served
          /\ served \ {seq} \subseteq DOMAIN vehicleItems /\ seq \in served
          /\ m.item = Numbered(writeMissionItems[seq + 1], seq)
          /\ served' = served /\ writeMissionItems' = writeMissionItems
      BY <2>1, <2>2 DEF HoldsAllBut, VehicleFrame, vars, state, lists
    <3>2. Numbered(m.item, seq) = m.item
      BY <1>1 DEF Numbered, MissionItems
    <3>3. Holds'
      BY <1>2, <3>1, <3>2 DEF Holds
    <3>. QED  BY <1>2, <3>1, <3>3
  <2>. QED  BY <2>1, <2>2 DEF Writing, Misasked, VehicleFrame, vars, state, lists
<1>6. ASSUME NEW result \in MavMissionResult, SendAck(result) PROVE Responds(m)
  <2>1. Asks(m) => Answers(MissionAckMsg(result, HandlerType))'
    BY <1>5 DEF Answers, MissionAckMsg, Writing
  <2>. QED  BY <1>6, <2>1, AckResponds
<1>7. ASSUME RequestItem(next) PROVE Responds(m)
  <2>1. PICK k \in Nat : k = next
    BY <1>1
  <2>2. RequestItem(k)
    BY <1>7, <2>1
  <2>3. prompt /\ Asks(m) =>
          /\ Writing'
          /\ Misasked' \/ /\ Holds' /\ (DOMAIN vehicleItems = served)'
                          /\ served' = {} =>
                               k = 0 /\ failureMode # <<"WriteIncorrectSequence", 0>>
    BY <1>5
  <2>. QED  BY <2>2, <2>3, RequestResponds
<1>8. RequestItem(next) \/ \E result \in MavMissionResult : SendAck(result)
  BY DEF HandleItem, MavMissionResult
<1>. QED  BY <1>3, <1>6, <1>7, <1>8

(* The vehicle answers every message but acks and the guided item.         *)
LEMMA MessageResponds ==
  ASSUME IInv, ManagerInv, VehicleOK, UNCHANGED <<vars, prompt>>,
         NEW m \in Orders, HandleMessage(m)
  PROVE  /\ VehicleOK' /\ VehicleFrame
         /\ \/ Responds(m) /\ Live(m)
            \/ vehicleItems' = vehicleItems /\ toGcs' = toGcs
<1>0. VehicleFrame
  BY DEF VehicleFrame, HandleMessage, HandleClearAll, HandleRequestList, HandleReadRequest,
         HandleCount, HandleItem, HandleOther, vehicle
<1>1. CASE HandleClearAll(m)
  BY <1>0, <1>1, ClearAllResponds DEF HandleClearAll, Live
<1>2. CASE HandleRequestList(m)
  BY <1>0, <1>2, RequestListResponds DEF HandleRequestList, Live
<1>3. CASE HandleReadRequest(m)
  BY <1>0, <1>3, ReadRequestResponds DEF HandleReadRequest, Live
<1>4. CASE HandleCount(m)
  BY <1>0, <1>4, CountResponds DEF HandleCount, Live
<1>5. CASE HandleItem(m)
  BY <1>0, <1>5, ItemResponds DEF HandleItem, Live
<1>6. CASE HandleOther(m)
  BY <1>0, <1>6 DEF HandleOther, vehicle, VehicleOK
<1>. QED  BY <1>1, <1>2, <1>3, <1>4, <1>5, <1>6 DEF HandleMessage

--------------------------------------------------------------------------------
(* The steps of the two, joined. *)

(* What is left of a sequence without its first element. *)
LEMMA TailIs ==
  ASSUME NEW S, NEW s \in Seq(S), s # <<>>
  PROVE  /\ Tail(s) \in Seq(S) /\ Len(Tail(s)) = Len(s) - 1 /\ Len(s) \in Nat \ {0}
         /\ Head(s) \in S /\ Head(s) = s[1] /\ 1 \in DOMAIN s
         /\ \A i \in DOMAIN Tail(s) : i + 1 \in DOMAIN s /\ Tail(s)[i] = s[i + 1]
OBVIOUS

(* Messages that are lost or taken leave the others as they were.          *)
LEMMA FewerAnswers ==
  ASSUME TInv, toGcs # <<>>, toGcs' = Tail(toGcs),
         stable' => stable, UNCHANGED <<vehicleItems, failureMode>>
  PROVE  /\ toGcs' \in Seq(Messages)
         /\ AnswersFit'
         /\ \A i \in DOMAIN toGcs' : Possible(toGcs[i])'
<1>1. /\ toGcs' \in Seq(Messages)
      /\ \A i \in DOMAIN toGcs' : i + 1 \in DOMAIN toGcs /\ toGcs'[i] = toGcs[i + 1]
  BY TailIs DEF TInv, LinkOK
<1>2. AnswersFit'
  <2>1. ASSUME stable', NEW i \in DOMAIN toGcs' PROVE Fits(toGcs[i], vehicleItems)'
    <3>1. Fits(toGcs[i + 1], vehicleItems)
      BY <1>1, <2>1 DEF TInv, AnswersFit
    <3>. QED  BY <1>1, <3>1 DEF Fits
  <2>2. stable' => Complete(vehicleItems)'
    BY DEF TInv, AnswersFit, Complete
  <2>. QED  BY <2>1, <2>2 DEF AnswersFit
<1>3. ASSUME NEW i \in DOMAIN toGcs' PROVE Possible(toGcs[i])'
  <2>1. Possible(toGcs[i + 1])
    BY <1>1 DEF TInv
  <2>. QED  BY <1>1, <2>1 DEF Possible
<1>. QED  BY <1>1, <1>2, <1>3

(* A message reaches the ground station. *)
LEMMA DeliverToGcsKeeps == ASSUME TInv, DeliverToGcs PROVE TInv'
<1>1. /\ toGcs # <<>> /\ toGcs' = Tail(toGcs) /\ SendOutbox
      /\ UNCHANGED <<vehicle, stable, prompt>> /\ Receive(Head(toGcs))
  BY DEF DeliverToGcs
<1>2. /\ HeardFrame /\ UNCHANGED <<vehicleItems, failureMode, writeSequenceIndex>>
      /\ toVehicle \in Seq(Orders)
  BY <1>1 DEF HeardFrame, vehicle, TInv, LinkOK
<1>3. PICK m \in Messages : m = Head(toGcs) /\ m = toGcs[1] /\ 1 \in DOMAIN toGcs
  BY <1>1, TailIs DEF TInv, LinkOK
<1>4. Heard(m)
  BY <1>3 DEF Heard, TInv, AnswersFit, OneUnderWay
<1>5. IInv' /\ ManagerInv' /\ Sends
  BY <1>1, <1>2, <1>3, <1>4, ReceiveKeepsManager DEF TInv
<1>6. prompt' => toGcs' = <<>> /\ \A i \in DOMAIN toVehicle : ~Live(toVehicle[i])
  <2>1. Tail(toGcs) \in Seq(Messages) /\ Len(Tail(toGcs)) = Len(toGcs) - 1
    BY <1>1, TailIs DEF TInv, LinkOK
  <2>2. prompt => Len(Tail(toGcs)) <= 0
    BY <1>1, <2>1, TailIs DEF TInv, OneUnderWay, LinkOK
  <2>3. prompt' => Tail(toGcs) = <<>>
    BY <1>1, <2>1, <2>2
  <2>. QED  BY <1>1, <2>3 DEF TInv, OneUnderWay
<1>7. toVehicle' \in Seq(Orders) /\ OneUnderWay'
  BY <1>1, <1>2, <1>5, <1>6, SendKeepsLink
<1>8. VehicleOK'
  BY <1>2 DEF TInv, VehicleOK
<1>9. /\ toGcs' \in Seq(Messages) /\ AnswersFit'
      /\ \A i \in DOMAIN toGcs' : Possible(toGcs[i])'
  BY <1>1, <1>2, FewerAnswers
<1>. QED  BY <1>5, <1>7, <1>8, <1>9 DEF TInv, LinkOK

(* A controller calls, or the timer fires. *)
LEMMA SameAnswers ==
  ASSUME TInv, UNCHANGED <<vehicle, toGcs>>
  PROVE  /\ VehicleOK' /\ toGcs' \in Seq(Messages)
         /\ \A i \in DOMAIN toGcs' : Possible(toGcs[i])'
<1>1. UNCHANGED <<vehicleItems, writeSequenceIndex, failureMode, toGcs>>
  BY DEF vehicle
<1>. QED  BY <1>1 DEF TInv, VehicleOK, LinkOK, Possible

(* A controller calls: there is no transaction, so on a prompt link nothing *)
(* is under way when the first message leaves, and the plan is stable only *)
(* if whatever late answers there are fit it.                              *)
LEMMA UserCallKeeps == ASSUME TInv, UserCall PROVE TInv'
<1>1. /\ Call /\ SendOutbox /\ UNCHANGED <<vehicle, toGcs, prompt>>
      /\ stable' = (Complete(vehicleItems) /\ \A i \in DOMAIN toGcs : Fits(toGcs[i], vehicleItems))
  BY DEF UserCall
<1>2. IInv' /\ ManagerInv' /\ Sends /\ ~InProgress
  BY <1>1, CallKeepsIInv, CallKeepsManager DEF TInv
<1>3. VehicleOK' /\ toGcs' \in Seq(Messages) /\ \A i \in DOMAIN toGcs' : Possible(toGcs[i])'
  BY <1>1, SameAnswers
<1>4. AnswersFit'
  BY <1>1 DEF AnswersFit, vehicle, Complete, Fits
<1>5. prompt' => toGcs' = <<>> /\ \A i \in DOMAIN toVehicle : ~Live(toVehicle[i])
  <2>. SUFFICES ASSUME prompt
                PROVE  toGcs = <<>> /\ \A i \in DOMAIN toVehicle : ~Live(toVehicle[i])
    BY <1>1
  <2>1. \A i \in DOMAIN toGcs : FALSE
    BY <1>2 DEF TInv, OneUnderWay, Answers
  <2>2. toGcs \in Seq(Messages)
    BY DEF TInv, LinkOK
  <2>3. toGcs = <<>>
    <3>1. Len(toGcs) \in Nat /\ DOMAIN toGcs = 1 .. Len(toGcs)
      BY <2>2
    <3>2. Len(toGcs) = 0
      BY <2>1, <3>1
    <3>. QED  BY <2>2, <3>2
  <2>4. \A i \in DOMAIN toVehicle : ~Live(toVehicle[i])
    BY <1>2 DEF TInv, OneUnderWay, Asks
  <2>. QED  BY <2>3, <2>4
<1>6. toVehicle' \in Seq(Orders) /\ OneUnderWay'
  BY <1>1, <1>2, <1>5, SendKeepsLink DEF TInv, LinkOK
<1>. QED  BY <1>2, <1>3, <1>4, <1>6 DEF TInv, LinkOK

(* The timer fires: the link stays prompt only if nothing is under way, so *)
(* what is sent again is the only message that matters.                    *)
LEMMA TimeoutKeeps == ASSUME TInv, Timeout PROVE TInv'
<1>1. /\ AckTimeout /\ SendOutbox /\ UNCHANGED <<vehicle, toGcs, stable>>
      /\ prompt' = (prompt /\ toGcs = <<>> /\ toVehicle = <<>>)
  BY DEF Timeout
<1>2. IInv' /\ ManagerInv' /\ Sends
  BY <1>1, TimeoutKeepsIInv, TimeoutKeepsManager DEF TInv, vehicle
<1>3. VehicleOK' /\ toGcs' \in Seq(Messages) /\ \A i \in DOMAIN toGcs' : Possible(toGcs[i])'
  BY <1>1, SameAnswers
<1>4. AnswersFit'
  BY <1>1 DEF TInv, AnswersFit, vehicle, Complete, Fits
<1>5. prompt' => toGcs' = <<>> /\ \A i \in DOMAIN toVehicle : ~Live(toVehicle[i])
  <2>1. prompt' => toGcs = <<>> /\ toVehicle = <<>>
    BY <1>1
  <2>2. DOMAIN <<>> = {}
    OBVIOUS
  <2>. QED  BY <1>1, <2>1, <2>2
<1>6. toVehicle' \in Seq(Orders) /\ OneUnderWay'
  BY <1>1, <1>2, <1>5, SendKeepsLink DEF TInv, LinkOK
<1>. QED  BY <1>2, <1>3, <1>4, <1>6 DEF TInv, LinkOK

(* A step of the link or the vehicle shows the manager nothing yet.        *)
LEMMA ManagerUnaware ==
  ASSUME TInv, UNCHANGED <<vars, prompt, failureMode>>,
         stable' => stable /\ vehicleItems' = vehicleItems,
         InProgress \/ vehicleItems' = vehicleItems \/ ~prompt
  PROVE  IInv' /\ ManagerInv'
<1>1. /\ UNCHANGED <<state, transactionInProgress, expectedAck, served, lists, emitted>>
      /\ UNCHANGED <<itemIndicesToRead, itemIndicesToWrite, missionItemCountToRead,
                     missionItems, writeMissionItems>>
  BY DEF vars, state, lists
<1>2. IInv'
  BY IgnoreKeepsIInv DEF TInv
<1>3. ServedOnce' /\ Reported' /\ ServedFromZero' /\ ReadInOrder'
  BY <1>1 DEF TInv, ManagerInv, ServedOnce, Reported, ServedFromZero, ReadInOrder,
              Reading, Writing, Misasked, Misread
<1>4. ReadSoFar' /\ ReadHasVehicleItems'
  BY <1>1 DEF TInv, ManagerInv, ReadSoFar, ReadHasVehicleItems, ReadSucceeds, Reading, AsRead
<1>5. PromptPlanIsOnVehicle'
  <2>1. CASE vehicleItems' = vehicleItems \/ ~prompt
    BY <1>1, <2>1 DEF TInv, ManagerInv, PromptPlanIsOnVehicle, OnVehicle
  <2>2. CASE InProgress
    BY <1>1, <2>2 DEF TInv, ManagerInv, Reported, PromptPlanIsOnVehicle
  <2>. QED  BY <2>1, <2>2
<1>. QED  BY <1>2, <1>3, <1>4, <1>5 DEF ManagerInv

(* The variables what is asked and answered is measured by. *)
Measure == <<transactionInProgress, expectedAck, itemIndicesToRead, itemIndicesToWrite,
             missionItems, writeMissionItems, served, vehicleItems, failureMode, prompt>>

(* Taking the first message to the vehicle leaves the others as they were. *)
LEMMA FewerOrders ==
  ASSUME TInv, UNCHANGED Measure, UNCHANGED toGcs, toVehicle # <<>>, toVehicle' = Tail(toVehicle)
  PROVE  toVehicle' \in Seq(Orders) /\ OneUnderWay'
<1>1. /\ toVehicle' \in Seq(Orders) /\ Len(toVehicle') = Len(toVehicle) - 1
      /\ Len(toVehicle) \in Nat /\ DOMAIN toVehicle' = 1 .. Len(toVehicle) - 1
      /\ \A i \in DOMAIN toVehicle' : i + 1 \in DOMAIN toVehicle /\ toVehicle'[i] = toVehicle[i + 1]
  BY TailIs DEF TInv, LinkOK
<1>2. ASSUME prompt', NEW i \in DOMAIN toVehicle', Live(toVehicle[i])'
      PROVE  i = Len(toVehicle') /\ toGcs' = <<>> /\ Asks(toVehicle[i])'
  <2>1. prompt /\ Live(toVehicle[i + 1])
    BY <1>1, <1>2 DEF Measure, Live
  <2>2. i + 1 = Len(toVehicle) /\ toGcs = <<>> /\ Asks(toVehicle[i + 1])
    BY <1>1, <2>1 DEF TInv, OneUnderWay
  <2>3. Asks(toVehicle[i])'
    BY <1>1, <2>2
    DEF Measure, Asks, HoldsAllBut, Holds, Reading, Writing, Misread, Misasked
  <2>. QED  BY <1>1, <2>2, <2>3
<1>3. ASSUME prompt', NEW i \in DOMAIN toGcs' PROVE Answers(toGcs[i])'
  <2>1. Answers(toGcs[i])
    BY <1>3 DEF TInv, OneUnderWay, Measure
  <2>. QED  BY <2>1 DEF Measure, Answers, Holds, Writing, Misread, Misasked
<1>4. prompt' => Len(toGcs') <= 1
  BY DEF TInv, OneUnderWay, Measure
<1>. QED  BY <1>1, <1>2, <1>3, <1>4 DEF OneUnderWay

(* A message reaches the vehicle. *)
LEMMA DeliverToVehicleKeeps == ASSUME TInv, DeliverToVehicle PROVE TInv'
<1>1. /\ toVehicle # <<>> /\ toVehicle' = Tail(toVehicle)
      /\ HandleMessage(Head(toVehicle)) /\ UNCHANGED <<vars, prompt>>
      /\ stable' = (stable /\ vehicleItems' = vehicleItems)
  BY DEF DeliverToVehicle
<1>2. PICK m \in Orders : m = Head(toVehicle) /\ m = toVehicle[1] /\ 1 \in DOMAIN toVehicle
  BY <1>1, TailIs DEF TInv, LinkOK
<1>3. /\ toVehicle' \in Seq(Orders) /\ Len(toVehicle') = Len(toVehicle) - 1
      /\ Len(toVehicle) \in Nat /\ toGcs \in Seq(Messages)
  BY <1>1, TailIs DEF TInv, LinkOK
<1>4. /\ VehicleOK' /\ VehicleFrame
      /\ \/ Responds(m) /\ Live(m)
         \/ vehicleItems' = vehicleItems /\ toGcs' = toGcs
  BY <1>1, <1>2, MessageResponds DEF TInv
<1>5. UNCHANGED <<vars, prompt, failureMode>>
  BY <1>4 DEF VehicleFrame
<1>6. CASE Responds(m) /\ Live(m)
  <2>1. PICK a \in Messages :
          /\ toGcs' = Append(toGcs, a)
          /\ Possible(a)
          /\ vehicleItems' = vehicleItems => Fits(a, vehicleItems)
          /\ prompt /\ Asks(m) => Answers(a)'
    BY <1>6 DEF Responds
  <2>2. prompt => Len(toVehicle) = 1 /\ toGcs = <<>> /\ Asks(m)
    BY <1>2, <1>6 DEF TInv, OneUnderWay
  <2>3. IInv' /\ ManagerInv'
    <3>1. InProgress \/ ~prompt
      BY <2>2 DEF Asks
    <3>. QED  BY <1>1, <1>5, <3>1, ManagerUnaware
  <2>4. /\ toGcs' \in Seq(Messages) /\ Len(toGcs) \in Nat
        /\ Len(toGcs') = Len(toGcs) + 1 /\ DOMAIN toGcs' = 1 .. Len(toGcs) + 1
        /\ DOMAIN toGcs = 1 .. Len(toGcs)
        /\ \A i \in DOMAIN toGcs : toGcs'[i] = toGcs[i]
        /\ toGcs'[Len(toGcs) + 1] = a
    BY <1>3, <2>1
  <2>5. ASSUME NEW i \in DOMAIN toGcs' PROVE Possible(toGcs[i])'
    <3>1. CASE i \in DOMAIN toGcs
      <4>1. Possible(toGcs[i])
        BY <3>1 DEF TInv
      <4>. QED  BY <1>5, <2>4, <3>1, <4>1 DEF Possible
    <3>2. CASE i = Len(toGcs) + 1
      BY <1>5, <2>1, <2>4, <3>2 DEF Possible
    <3>. QED  BY <2>4, <3>1, <3>2
  <2>6. AnswersFit'
    <3>1. stable' => stable /\ vehicleItems' = vehicleItems /\ Complete(vehicleItems')
      BY <1>1 DEF TInv, AnswersFit
    <3>2. ASSUME stable', NEW i \in DOMAIN toGcs' PROVE Fits(toGcs[i], vehicleItems)'
      <4>1. CASE i \in DOMAIN toGcs
        <5>1. Fits(toGcs[i], vehicleItems)
          BY <3>1, <3>2, <4>1 DEF TInv, AnswersFit
        <5>. QED  BY <2>4, <3>1, <3>2, <4>1, <5>1 DEF Fits
      <4>2. CASE i = Len(toGcs) + 1
        BY <2>1, <2>4, <3>1, <3>2, <4>2 DEF Fits
      <4>. QED  BY <2>4, <4>1, <4>2
    <3>. QED  BY <3>1, <3>2 DEF AnswersFit
  <2>7. OneUnderWay'
    <3>. SUFFICES ASSUME prompt' PROVE OneUnderWay'
      BY DEF OneUnderWay
    <3>1. prompt /\ Len(toVehicle) = 1 /\ toGcs = <<>> /\ Answers(a)'
      BY <1>5, <2>1, <2>2
    <3>2. DOMAIN toVehicle' = {}
      BY <1>3, <3>1
    <3>3. Len(toGcs') = 1 /\ DOMAIN toGcs' = {1} /\ toGcs'[1] = a
      BY <2>4, <3>1
    <3>4. ASSUME NEW i \in DOMAIN toGcs' PROVE Answers(toGcs[i])'
      <4>1. toGcs'[i] = a
        BY <3>3
      <4>. QED  BY <3>1, <4>1 DEF Answers
    <3>. QED  BY <3>2, <3>3, <3>4 DEF OneUnderWay
  <2>. QED  BY <1>3, <1>4, <2>3, <2>4, <2>5, <2>6, <2>7 DEF TInv, LinkOK
<1>7. CASE vehicleItems' = vehicleItems /\ toGcs' = toGcs
  <2>1. IInv' /\ ManagerInv'
    BY <1>1, <1>5, <1>7, ManagerUnaware
  <2>2. UNCHANGED Measure
    BY <1>5, <1>7 DEF Measure, vars, state, lists
  <2>3. OneUnderWay'
    BY <1>1, <1>7, <2>2, FewerOrders
  <2>4. AnswersFit'
    BY <1>1, <1>7 DEF TInv, AnswersFit, Complete, Fits
  <2>5. \A i \in DOMAIN toGcs' : Possible(toGcs[i])'
    BY <1>5, <1>7 DEF TInv, Possible
  <2>. QED  BY <1>3, <1>4, <1>7, <2>1, <2>3, <2>4, <2>5 DEF TInv, LinkOK
<1>. QED  BY <1>4, <1>6, <1>7

(* A message is lost. *)
LEMMA LoseKeeps == ASSUME TInv, Lose PROVE TInv'
<1>1. /\ UNCHANGED <<vars, vehicle, stable, prompt>>
      /\ \/ toVehicle # <<>> /\ toVehicle' = Tail(toVehicle) /\ UNCHANGED toGcs
         \/ toGcs # <<>> /\ toGcs' = Tail(toGcs) /\ UNCHANGED toVehicle
  BY DEF Lose
<1>2. UNCHANGED <<vehicleItems, failureMode, writeSequenceIndex>>
  BY <1>1 DEF vehicle
<1>3. IInv' /\ ManagerInv'
  BY <1>1, <1>2, ManagerUnaware
<1>4. VehicleOK'
  BY <1>2 DEF TInv, VehicleOK
<1>5. UNCHANGED Measure
  BY <1>1, <1>2 DEF Measure, vars, state, lists
<1>6. CASE toVehicle # <<>> /\ toVehicle' = Tail(toVehicle) /\ UNCHANGED toGcs
  <2>1. toVehicle' \in Seq(Orders) /\ OneUnderWay'
    BY <1>5, <1>6, FewerOrders
  <2>2. AnswersFit'
    BY <1>1, <1>2, <1>6 DEF TInv, AnswersFit, Complete, Fits
  <2>3. toGcs' \in Seq(Messages) /\ \A i \in DOMAIN toGcs' : Possible(toGcs[i])'
    BY <1>1, <1>6, SameAnswers
  <2>. QED  BY <1>3, <1>4, <2>1, <2>2, <2>3 DEF TInv, LinkOK
<1>7. CASE toGcs # <<>> /\ toGcs' = Tail(toGcs) /\ UNCHANGED toVehicle
  <2>1. /\ toGcs' \in Seq(Messages) /\ AnswersFit'
        /\ \A i \in DOMAIN toGcs' : Possible(toGcs[i])'
    BY <1>1, <1>2, <1>7, FewerAnswers
  <2>2. toVehicle \in Seq(Orders)
    BY DEF TInv, LinkOK
  <2>3. prompt => toGcs' = <<>> /\ \A i \in DOMAIN toVehicle : ~Live(toVehicle[i])
    <3>1. Tail(toGcs) \in Seq(Messages) /\ Len(Tail(toGcs)) = Len(toGcs) - 1
      BY <1>7, TailIs DEF TInv, LinkOK
    <3>2. prompt => Len(Tail(toGcs)) <= 0
      BY <1>7, <3>1, TailIs DEF TInv, OneUnderWay, LinkOK
    <3>3. prompt => Tail(toGcs) = <<>>
      BY <3>1, <3>2
    <3>. QED  BY <1>7, <3>3 DEF TInv, OneUnderWay
  <2>4. OneUnderWay'
    <3>1. DOMAIN <<>> = {} /\ Len(<<>>) = 0
      OBVIOUS
    <3>2. prompt' => toGcs' = <<>> /\ Len(toGcs') <= 1 /\ DOMAIN toGcs' = {}
      BY <1>1, <2>3, <3>1
    <3>. QED  BY <1>1, <1>7, <2>3, <3>2 DEF OneUnderWay, Live
  <2>. QED  BY <1>3, <1>4, <1>7, <2>1, <2>2, <2>4 DEF TInv, LinkOK
<1>. QED  BY <1>1, <1>6, <1>7

(* The invariant holds of a manager and a vehicle that have not spoken.    *)
LEMMA InitTInv == TransferInit => TInv
<1>. SUFFICES ASSUME TransferInit PROVE TInv
  OBVIOUS
<1>1. IInv
  BY InitIInv DEF TransferInit
<1>2. /\ transactionInProgress = "None" /\ emitted = {}
      /\ toGcs = <<>> /\ toVehicle = <<>> /\ stable = FALSE
  BY DEF TransferInit, Init, VehicleInit
<1>3. ManagerInv
  BY <1>2 DEF ManagerInv, ServedOnce, ReadSoFar, ReadInOrder, ServedFromZero, Reported,
              Reading, Writing, ReadHasVehicleItems, ReadSucceeds, PromptPlanIsOnVehicle
<1>4. VehicleOK
  <2>1. /\ vehicleItems = [i \in 0 .. Len(InitialPlan) - 1 |-> InitialPlan[i + 1]]
        /\ writeSequenceIndex = 0
    BY DEF TransferInit, VehicleInit
  <2>2. InitialPlan \in Seq(MissionItems) /\ Len(InitialPlan) \in Nat
    BY TransferAssumption
  <2>3. IsFiniteSet(0 .. Len(InitialPlan) - 1)
    BY <2>2, FS_Interval
  <2>4. \A i \in 0 .. Len(InitialPlan) - 1 : InitialPlan[i + 1] \in MissionItems
    BY <2>2
  <2>. QED  BY <2>1, <2>2, <2>3, <2>4 DEF VehicleOK
<1>5. LinkOK /\ AnswersFit /\ OneUnderWay /\ \A i \in DOMAIN toGcs : Possible(toGcs[i])
  <2>1. DOMAIN <<>> = {} /\ Len(<<>>) = 0
    OBVIOUS
  <2>. QED  BY <1>2, <2>1 DEF LinkOK, AnswersFit, OneUnderWay
<1>. QED  BY <1>1, <1>3, <1>4, <1>5 DEF TInv

(* Every step keeps the invariant.                                         *)
LEMMA NextTInv == TInv /\ [TransferNext]_transferVars => TInv'
<1>. SUFFICES ASSUME TInv, [TransferNext]_transferVars PROVE TInv'
  OBVIOUS
<1>1. CASE UNCHANGED transferVars
  <2>1. /\ UNCHANGED <<vars, vehicle, toGcs, toVehicle, stable, prompt>>
        /\ UNCHANGED <<vehicleItems, failureMode, writeSequenceIndex>>
    BY <1>1 DEF transferVars, vehicle
  <2>2. IInv' /\ ManagerInv'
    BY <2>1, ManagerUnaware
  <2>3. VehicleOK' /\ LinkOK' /\ AnswersFit' /\ \A i \in DOMAIN toGcs' : Possible(toGcs[i])'
    BY <2>1 DEF TInv, VehicleOK, LinkOK, AnswersFit, Complete, Fits, Possible
  <2>4. UNCHANGED Measure
    BY <2>1 DEF Measure, vars, state, lists
  <2>5. OneUnderWay'
    BY <2>1, <2>4
    DEF TInv, OneUnderWay, Measure, Live, Asks, Answers, HoldsAllBut, Holds, Reading, Writing,
        Misread, Misasked
  <2>. QED  BY <2>2, <2>3, <2>5 DEF TInv
<1>. QED  BY <1>1, UserCallKeeps, TimeoutKeeps, DeliverToGcsKeeps, DeliverToVehicleKeeps,
             LoseKeeps DEF TransferNext

(* The inductive invariant of the manager joined to its vehicle.           *)
THEOREM TransferInvariance == TransferSpec => []TInv
BY InitTInv, NextTInv, PTL DEF TransferSpec

(* What a read reports is what the vehicle holds, on any link. *)
THEOREM ReadsMatch == TransferSpec => []ReadHasVehicleItems
<1>1. TInv => ReadHasVehicleItems
  BY DEF TInv, ManagerInv
<1>. QED  BY <1>1, TransferInvariance, PTL

(* What a write or a removal reports is what the vehicle has, on a prompt link. *)
THEOREM WritesMatch == TransferSpec => []PromptPlanIsOnVehicle
<1>1. TInv => PromptPlanIsOnVehicle
  BY DEF TInv, ManagerInv
<1>. QED  BY <1>1, TransferInvariance, PTL

================================================================================
