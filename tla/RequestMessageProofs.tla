------------------------- MODULE RequestMessageProofs -------------------------
(***************************************************************************)
(* Theorems about the command queue and requestMessage, for any            *)
(* components, commands, messages, limits and timeouts, any number of      *)
(* requesters, and any acks and messages at any moment, whenever the link  *)
(* comes and goes.                                                         *)
(***************************************************************************)
EXTENDS RequestMessage, TLAPS

--------------------------------------------------------------------------------
(***************************************************************************)
(* The queue by itself.                                                    *)
(***************************************************************************)
(* What has been transmitted was submitted, and, of a command still        *)
(* waiting, no more often than it was tried.                               *)
TransmissionsAreTries ==
  /\ DOMAIN transmitted \subseteq 1 .. calls
  /\ DOMAIN commandList \subseteq DOMAIN transmitted
  /\ \A id \in DOMAIN commandList : transmitted[id] <= commandList[id].tryCount

IInv == QueueTypeOK /\ EachCallIsAccounted /\ AcksAreUnambiguous /\ TransmissionsAreTries

(* A command is tried between once and MaxTries times. *)
LEMMA TriesBound ==
  ASSUME NEW command \in Commands
  PROVE  MaxTriesOf(command) \in 1 .. MaxTries
BY MavCommandAssumption DEF MaxTriesOf

(* Nothing is waiting, answered or transmitted at the start. *)
LEMMA InitIInv == QueueInit => IInv
<1>. SUFFICES ASSUME QueueInit PROVE IInv
  OBVIOUS
<1>. USE DEF QueueInit
<1>1. QueueTypeOK
  BY DEF QueueTypeOK
<1>2. EachCallIsAccounted
  BY DEF EachCallIsAccounted
<1>3. AcksAreUnambiguous /\ TransmissionsAreTries
  BY DEF AcksAreUnambiguous, TransmissionsAreTries
<1>. QED  BY <1>1, <1>2, <1>3 DEF IInv

(* A new command is refused, dropped, or waits under an id of its own. *)
LEMMA SubmitKeepsIInv ==
  ASSUME IInv, NEW comp \in Components, NEW command \in Commands, SendMavCommand(comp, command)
  PROVE  IInv'
<1>. DEFINE id == calls + 1
            broadcast == comp = AllComponents
            duplicate == Pending(comp, command) # {} /\ command \notin Duplicable
<1>0. /\ calls \in Nat /\ calls' = id /\ id \notin 1 .. calls /\ 1 .. id = (1 .. calls) \cup {id}
      /\ linkUp' \in BOOLEAN
  BY DEF IInv, QueueTypeOK, SendMavCommand
<1>1. CASE broadcast \/ duplicate
  <2>1. /\ results' = {Result(k, "FAILED", IF broadcast THEN "CommandResultOnly" ELSE "DuplicateCommand") : k \in {id}}
        /\ answered' = answered \cup {id}
        /\ UNCHANGED <<commandList, dropped, transmitted>>
    BY <1>1 DEF SendMavCommand, Tell, TellNobody
  <2>2. QueueTypeOK'
    BY <1>0, <2>1 DEF IInv, QueueTypeOK, Result, AckResults, FailureCodes
  <2>3. EachCallIsAccounted'
    BY <1>0, <2>1 DEF IInv, EachCallIsAccounted
  <2>4. AcksAreUnambiguous' /\ TransmissionsAreTries'
    BY <1>0, <2>1 DEF IInv, AcksAreUnambiguous, TransmissionsAreTries
  <2>. QED  BY <2>2, <2>3, <2>4 DEF IInv
<1>2. CASE ~(broadcast \/ duplicate) /\ ~linkUp
  <2>1. /\ results' = {} /\ answered' = answered
        /\ dropped' = dropped \cup {id}
        /\ UNCHANGED <<commandList, transmitted>>
    BY <1>2 DEF SendMavCommand, Tell, TellNobody
  <2>2. QueueTypeOK'
    BY <1>0, <2>1 DEF IInv, QueueTypeOK
  <2>3. EachCallIsAccounted'
    BY <1>0, <2>1 DEF IInv, EachCallIsAccounted
  <2>4. AcksAreUnambiguous' /\ TransmissionsAreTries'
    BY <1>0, <2>1 DEF IInv, AcksAreUnambiguous, TransmissionsAreTries
  <2>. QED  BY <2>2, <2>3, <2>4 DEF IInv
<1>3. CASE ~(broadcast \/ duplicate) /\ linkUp
  <2>. DEFINE entry == [comp |-> comp, command |-> command, tryCount |-> 1, age |-> 0]
  <2>1. /\ results' = {} /\ answered' = answered /\ dropped' = dropped
        /\ commandList' = [k \in DOMAIN commandList \cup {id} |-> IF k = id THEN entry ELSE commandList[k]]
        /\ transmitted' = [k \in DOMAIN transmitted \cup {id} |-> IF k = id THEN 1 ELSE transmitted[k]]
    BY <1>3 DEF SendMavCommand, TellNobody, Enlist
  <2>2. id \notin DOMAIN commandList /\ id \notin DOMAIN transmitted
    BY <1>0 DEF IInv, EachCallIsAccounted, TransmissionsAreTries
  <2>3. /\ commandList'[id] = entry /\ transmitted'[id] = 1
        /\ \A k \in DOMAIN commandList : commandList'[k] = commandList[k]
        /\ \A k \in DOMAIN transmitted : transmitted'[k] = transmitted[k]
    BY <2>1, <2>2
  <2>4. QueueTypeOK'
    <3>1. entry \in Entries /\ entry.tryCount \in 1 .. MaxTriesOf(entry.command) /\ 1 \in 1 .. MaxTries
      BY TriesBound, MavCommandAssumption DEF Entries
    <3>. QED  BY <1>0, <2>1, <2>3, <3>1 DEF IInv, QueueTypeOK
  <2>5. EachCallIsAccounted'
    BY <1>0, <2>1, <2>2 DEF IInv, EachCallIsAccounted
  <2>6. AcksAreUnambiguous'
    <3>1. Pending(comp, command) = {} \/ command \in Duplicable
      BY <1>3
    <3>2. \A k \in DOMAIN commandList :
            commandList[k].comp = comp /\ commandList[k].command = command => command \in Duplicable
      BY <3>1 DEF Pending
    <3>. QED  BY <2>1, <2>3, <3>2 DEF IInv, AcksAreUnambiguous
  <2>7. TransmissionsAreTries'
    BY <1>0, <2>1, <2>3 DEF IInv, TransmissionsAreTries
  <2>. QED  BY <2>4, <2>5, <2>6, <2>7 DEF IInv
<1>. QED  BY <1>1, <1>2, <1>3

(* Entries that leave the list with a result leave it for `answered'.      *)
LEMMA AnswerKeepsIInv ==
  ASSUME IInv, NEW gone \in SUBSET DOMAIN commandList,
         NEW result \in AckResults, NEW code \in FailureCodes,
         commandList' = Restrict(commandList, DOMAIN commandList \ gone),
         Tell(gone, result, code),
         UNCHANGED <<calls, linkUp, dropped, transmitted>>
  PROVE  IInv'
<1>1. /\ DOMAIN commandList' = DOMAIN commandList \ gone
      /\ \A id \in DOMAIN commandList' : commandList'[id] = commandList[id]
  BY DEF Restrict
<1>2. answered' = answered \cup gone
  BY DEF Tell
<1>3. QueueTypeOK'
  <2>1. \A r \in results' : r.result \in AckResults /\ r.code \in FailureCodes
    BY DEF Tell, Result
  <2>2. \A id \in DOMAIN commandList' :
          /\ commandList'[id] \in Entries
          /\ commandList'[id].tryCount \in 1 .. MaxTriesOf(commandList'[id].command)
    BY <1>1 DEF IInv, QueueTypeOK
  <2>. QED  BY <2>1, <2>2 DEF IInv, QueueTypeOK
<1>4. EachCallIsAccounted'
  BY <1>1, <1>2 DEF IInv, EachCallIsAccounted
<1>5. AcksAreUnambiguous' /\ TransmissionsAreTries'
  BY <1>1 DEF IInv, AcksAreUnambiguous, TransmissionsAreTries
<1>. QED  BY <1>3, <1>4, <1>5 DEF IInv

(* An ack answers the command it is for. *)
LEMMA AckKeepsIInv ==
  ASSUME IInv, NEW comp \in Components, NEW command \in Commands, NEW result \in AckResults,
         HandleCommandAck(comp, command, result)
  PROVE  IInv'
<1>. DEFINE acked == Oldest(Pending(comp, command))
<1>1. acked \in SUBSET DOMAIN commandList
  BY DEF Oldest, Pending
<1>2. "CommandResultOnly" \in FailureCodes
  BY DEF FailureCodes
<1>. QED  BY <1>1, <1>2, AnswerKeepsIInv DEF HandleCommandAck

(* What the check does to the entries that stay. *)
LEMMA CheckedEntries ==
  ASSUME IInv, ResponseTimeoutCheck
  PROVE  /\ DOMAIN commandList' = DOMAIN commandList \ Spent
         /\ DOMAIN transmitted' = DOMAIN transmitted
         /\ \A id \in DOMAIN commandList' :
              /\ commandList'[id] \in Entries
              /\ commandList'[id].comp = commandList[id].comp
              /\ commandList'[id].command = commandList[id].command
              /\ commandList'[id].tryCount = IF id \in Late THEN commandList[id].tryCount + 1
                                             ELSE commandList[id].tryCount
         /\ \A id \in DOMAIN transmitted :
              \/ transmitted'[id] = transmitted[id]
              \/ /\ id \in Late \ Spent
                 /\ transmitted'[id] = transmitted[id] + 1
<1>1. /\ DOMAIN commandList' = DOMAIN commandList \ Spent
      /\ DOMAIN transmitted' = DOMAIN transmitted
  BY DEF ResponseTimeoutCheck, Check
<1>2. ASSUME NEW id \in DOMAIN commandList'
      PROVE  /\ commandList'[id] \in Entries
             /\ commandList'[id].comp = commandList[id].comp
             /\ commandList'[id].command = commandList[id].command
             /\ commandList'[id].tryCount = IF id \in Late THEN commandList[id].tryCount + 1
                                            ELSE commandList[id].tryCount
  <2>1. id \in DOMAIN commandList \ Spent /\ commandList[id] \in Entries
    BY <1>1 DEF IInv, QueueTypeOK
  <2>2. commandList'[id] =
          [commandList[id] EXCEPT
             !.age = CountTo(AckTimeout, @),
             !.tryCount = IF id \in Late \ Spent THEN @ + 1 ELSE @]
    BY <2>1 DEF ResponseTimeoutCheck, Check
  <2>. DEFINE e == commandList[id]
              age == CountTo(AckTimeout, e.age)
              tryCount == IF id \in Late \ Spent THEN e.tryCount + 1 ELSE e.tryCount
  <2>3. e = [comp |-> e.comp, command |-> e.command, tryCount |-> e.tryCount, age |-> e.age]
        /\ e.comp \in Components /\ e.command \in Commands
        /\ e.tryCount \in Nat /\ e.age \in Nat
    BY <2>1 DEF Entries
  <2>4. commandList'[id] = [comp |-> e.comp, command |-> e.command, tryCount |-> tryCount,
                            age |-> age]
    BY <2>2, <2>3
  <2>5. tryCount \in Nat /\ age \in Nat
    BY <2>3, MavCommandAssumption DEF CountTo
  <2>6. commandList'[id] \in Entries
    <3>. HIDE DEF tryCount, age, e
    <3>. QED  BY <2>3, <2>4, <2>5 DEF Entries
  <2>. QED  BY <2>1, <2>4, <2>6
<1>3. ASSUME NEW id \in DOMAIN transmitted
      PROVE  \/ transmitted'[id] = transmitted[id]
             \/ id \in Late \ Spent /\ transmitted'[id] = transmitted[id] + 1
  BY DEF ResponseTimeoutCheck, Check, WithLink
<1>. QED  BY <1>1, <1>2, <1>3

(* A check that gives up on the spent and tries the late again. *)
LEMMA CheckKeepsIInv == ASSUME IInv, ResponseTimeoutCheck PROVE IInv'
<1>1. UNCHANGED <<calls, linkUp, dropped>>
  BY DEF ResponseTimeoutCheck, Check
<1>2. /\ results' = {Result(id, "FAILED", "NoResponseToCommand") : id \in Spent}
      /\ answered' = answered \cup Spent
  BY DEF ResponseTimeoutCheck, GiveUp, Tell
<1>3. Spent \subseteq DOMAIN commandList /\ Late \subseteq DOMAIN commandList
  BY DEF Spent, Late
<1>4. ASSUME NEW id \in DOMAIN commandList'
      PROVE  /\ commandList'[id].tryCount \in 1 .. MaxTriesOf(commandList'[id].command)
             /\ transmitted'[id] <= commandList'[id].tryCount
             /\ transmitted'[id] \in 1 .. MaxTries
  <2>1. /\ id \in DOMAIN commandList \ Spent /\ id \in DOMAIN transmitted
        /\ commandList[id].command \in Commands
        /\ commandList[id].tryCount \in 1 .. MaxTriesOf(commandList[id].command)
        /\ transmitted[id] \in 1 .. MaxTries /\ transmitted[id] <= commandList[id].tryCount
    BY CheckedEntries DEF IInv, QueueTypeOK, TransmissionsAreTries, Entries
  <2>2. MaxTriesOf(commandList[id].command) \in 1 .. MaxTries
    BY <2>1, TriesBound
  <2>3. id \in Late => commandList[id].tryCount < MaxTriesOf(commandList[id].command)
    BY <2>1, <2>2 DEF Spent
  <2>4. /\ commandList'[id].command = commandList[id].command
        /\ commandList'[id].tryCount = IF id \in Late THEN commandList[id].tryCount + 1
                                       ELSE commandList[id].tryCount
    BY CheckedEntries
  <2>5. \/ transmitted'[id] = transmitted[id]
        \/ id \in Late /\ transmitted'[id] = transmitted[id] + 1
    BY <2>1, CheckedEntries
  <2>. QED  BY <2>1, <2>2, <2>3, <2>4, <2>5, MavCommandAssumption
<1>5. ASSUME NEW id \in DOMAIN transmitted'
      PROVE  transmitted'[id] \in 1 .. MaxTries
  <2>1. CASE id \in DOMAIN commandList'
    BY <1>4, <2>1
  <2>2. CASE id \notin DOMAIN commandList'
    <3>1. id \in DOMAIN transmitted /\ id \notin Late \ Spent
      BY <1>3, <2>2, CheckedEntries
    <3>. QED  BY <3>1, CheckedEntries DEF IInv, QueueTypeOK
  <2>. QED  BY <2>1, <2>2
<1>6. QueueTypeOK'
  <2>1. \A r \in results' : r.result \in AckResults /\ r.code \in FailureCodes
    BY <1>2 DEF Result, AckResults, FailureCodes
  <2>. QED  BY <1>1, <1>4, <1>5, <2>1, CheckedEntries DEF IInv, QueueTypeOK
<1>7. EachCallIsAccounted'
  BY <1>1, <1>2, <1>3, CheckedEntries DEF IInv, EachCallIsAccounted
<1>8. AcksAreUnambiguous'
  BY CheckedEntries DEF IInv, AcksAreUnambiguous
<1>9. TransmissionsAreTries'
  BY <1>1, <1>4, CheckedEntries DEF IInv, TransmissionsAreTries
<1>. QED  BY <1>6, <1>7, <1>8, <1>9 DEF IInv

(* The link comes and goes, and other things happen, without touching the  *)
(* list.                                                                   *)
LEMMA LinkKeepsIInv == ASSUME IInv, LinkChange \/ Quiet \/ UNCHANGED queue PROVE IInv'
<1>1. /\ UNCHANGED <<commandList, calls, dropped, transmitted>>
      /\ answered' = answered
      /\ linkUp' \in BOOLEAN
      /\ results' = {} \/ results' = results
  BY DEF LinkChange, Quiet, queue, TellNobody, IInv, QueueTypeOK
<1>2. QueueTypeOK'
  BY <1>1 DEF IInv, QueueTypeOK
<1>3. EachCallIsAccounted' /\ AcksAreUnambiguous' /\ TransmissionsAreTries'
  BY <1>1 DEF IInv, EachCallIsAccounted, AcksAreUnambiguous, TransmissionsAreTries
<1>. QED  BY <1>2, <1>3 DEF IInv

(* The invariant is inductive. *)
LEMMA NextKeepsIInv == IInv /\ [QueueNext]_queue => IInv'
BY SubmitKeepsIInv, AckKeepsIInv, CheckKeepsIInv, LinkKeepsIInv DEF QueueNext, Submit, Acked

(* The inductive invariant holds: types, accounting, unambiguous acks, and *)
(* no more transmissions than tries.                                       *)
THEOREM Invariance == QueueSpec => []IInv
BY InitIInv, NextKeepsIInv, PTL DEF QueueSpec

(* Tries and transmissions keep their bounds. *)
THEOREM TypeCorrect == QueueSpec => []QueueTypeOK
<1>1. IInv => QueueTypeOK
  BY DEF IInv
<1>. QED  BY <1>1, Invariance, PTL

(* Every command is waiting, answered, or dropped for want of a link. *)
THEOREM Accounted == QueueSpec => []EachCallIsAccounted
<1>1. IInv => EachCallIsAccounted
  BY DEF IInv
<1>. QED  BY <1>1, Invariance, PTL

(* An ack has one entry it can be for. *)
THEOREM Unambiguous == QueueSpec => []AcksAreUnambiguous
<1>1. IInv => AcksAreUnambiguous
  BY DEF IInv
<1>. QED  BY <1>1, Invariance, PTL

(* Results only go to ids that had none, and one each. *)
LEMMA ResultsAreNew ==
  ASSUME IInv, QueueNext
  PROVE  /\ \A r \in results' : r.id \notin answered
         /\ \A r, s \in results' : r.id = s.id => r = s
<1>1. answered \subseteq 1 .. calls /\ calls \in Nat
  BY DEF IInv, EachCallIsAccounted, QueueTypeOK
<1>2. calls + 1 \notin answered /\ DOMAIN commandList \cap answered = {}
  BY <1>1 DEF IInv, EachCallIsAccounted
<1>3. ASSUME NEW ids, NEW result, NEW code, Tell(ids, result, code), ids \cap answered = {}
      PROVE  /\ \A r \in results' : r.id \notin answered
             /\ \A r, s \in results' : r.id = s.id => r = s
  BY <1>3 DEF Tell, Result
<1>4. CASE results' = {}
  BY <1>4
<1>5. CASE Submit
  <2>1. PICK comp \in Components, command \in Commands : SendMavCommand(comp, command)
    BY <1>5 DEF Submit
  <2>2. results' = {} \/ \E code : Tell({calls + 1}, "FAILED", code)
    BY <2>1 DEF SendMavCommand, TellNobody
  <2>. QED  BY <1>2, <1>3, <1>4, <2>2
<1>6. CASE Acked
  <2>1. PICK comp \in Components, command \in Commands, result \in AckResults :
          HandleCommandAck(comp, command, result)
    BY <1>6 DEF Acked
  <2>2. Oldest(Pending(comp, command)) \subseteq DOMAIN commandList
    BY DEF Oldest, Pending
  <2>3. Tell(Oldest(Pending(comp, command)), result, "CommandResultOnly")
    BY <2>1 DEF HandleCommandAck
  <2>. QED  BY <1>2, <1>3, <2>2, <2>3
<1>7. CASE ResponseTimeoutCheck
  <2>1. Tell(Spent, "FAILED", "NoResponseToCommand") /\ Spent \subseteq DOMAIN commandList
    BY <1>7 DEF ResponseTimeoutCheck, GiveUp, Spent, Late
  <2>. QED  BY <1>2, <1>3, <2>1
<1>8. CASE LinkChange \/ Quiet
  BY <1>4, <1>8 DEF LinkChange, Quiet, TellNobody
<1>. QED  BY <1>5, <1>6, <1>7, <1>8 DEF QueueNext

(* No caller is told a second result. *)
THEOREM ToldOnce == QueueSpec => OneResultEach
<1>1. IInv /\ [QueueNext]_queue =>
        [ /\ \A r \in results' : r.id \notin answered
          /\ \A r, s \in results' : r.id = s.id => r = s ]_queue
  BY ResultsAreNew
<1>. QED  BY <1>1, Invariance, PTL DEF OneResultEach, QueueSpec

(* A command outside the retry list, an ARM say, is never put on the link  *)
(* a second time, nor is any other once its caller has been told.          *)
THEOREM NeverDelayed == QueueSpec => NoDelayedCommand
<1>1. ASSUME IInv, QueueNext, NEW id \in DOMAIN transmitted, transmitted'[id] # transmitted[id]
      PROVE  /\ id \in DOMAIN commandList /\ commandList[id].command \in Retried
             /\ id \notin answered'
  <2>1. ~LinkChange /\ ~Quiet /\ ~Acked
    BY <1>1 DEF LinkChange, Quiet, Acked, HandleCommandAck
  <2>2. ~Submit
    <3>1. calls + 1 \notin DOMAIN transmitted
      BY <1>1 DEF IInv, TransmissionsAreTries, QueueTypeOK
    <3>. QED  BY <1>1, <3>1 DEF Submit, SendMavCommand, Enlist
  <2>3. ResponseTimeoutCheck
    BY <1>1, <2>1, <2>2 DEF QueueNext
  <2>4. id \in Late \ Spent
    BY <1>1, <2>3, CheckedEntries
  <2>5. id \in DOMAIN commandList /\ commandList[id].tryCount \in 1 .. MaxTriesOf(commandList[id].command)
    BY <1>1, <2>4 DEF Late, IInv, QueueTypeOK
  <2>6. commandList[id].command \in Retried
    BY <2>4, <2>5 DEF Spent, MaxTriesOf
  <2>7. id \notin answered'
    <3>1. answered' = answered \cup Spent
      BY <2>3 DEF ResponseTimeoutCheck, GiveUp, Tell
    <3>. QED  BY <1>1, <2>4, <2>5, <3>1 DEF IInv, EachCallIsAccounted
  <2>. QED  BY <2>5, <2>6, <2>7
<1>2. IInv /\ [QueueNext]_queue =>
        [ \A id \in DOMAIN transmitted :
            transmitted'[id] # transmitted[id] =>
              /\ id \in DOMAIN commandList /\ commandList[id].command \in Retried
              /\ id \notin answered' ]_queue
  BY <1>1
<1>. QED  BY <1>2, Invariance, PTL DEF NoDelayedCommand, QueueSpec

--------------------------------------------------------------------------------
(***************************************************************************)
(* Requests for messages.                                                  *)
(***************************************************************************)
InfoRecord == [msgId : MessageIds, commandAckReceived : BOOLEAN, messageReceived : BOOLEAN,
               message : MessageIds \cup {OtherMessage, NoMessage}]

WaitRecord == [id : Nat, msgId : MessageIds \cup {OtherMessage}, timeoutActive : BOOLEAN,
               age : 0 .. MessageTimeout + 1]

IdsOf(rs) == {r.id : r \in rs}

\* The infos i and the slot w when the requesters in d have been answered: the slot is of
\* one who has not, and whose message has not come.
Held(i, w, d) ==
    /\ \A id \in DOMAIN i : i[id] \in InfoRecord
    /\ w \in WaitRecord
    /\ w.id # 0 => /\ w.id \in DOMAIN i \ d
                   /\ ~i[w.id].messageReceived /\ w.msgId = i[w.id].msgId

\* The requests p have neither an ack nor an answer.
Awaiting(i, d, p) == \A id \in p : id \in DOMAIN i \ d /\ ~i[id].commandAckReceived

\* There is one requester without an answer, who is given the right message, and the timeout
\* of the slot runs since the ack of its own request.
Single(i, w, d) ==
    /\ \A j, k \in DOMAIN i \ d : j = k
    /\ \A id \in DOMAIN i \ d : i[id].messageReceived => i[id].message = i[id].msgId
    /\ w.id # 0 /\ w.timeoutActive => i[w.id].commandAckReceived

Requests == {id \in DOMAIN commandList : commandList[id].command = "REQUEST_MESSAGE"}

\* What holds of the queue holds here too; the infos belong to requests submitted, those in
\* the list have no ack yet.
RInv ==
    /\ IInv
    /\ TypeOK
    /\ DOMAIN infos \subseteq 1 .. calls
    /\ DOMAIN infos \cap DOMAIN commandList \subseteq Requests
    /\ Held(infos, wait, replied) /\ Awaiting(infos, replied, Requests)
    /\ alone => Single(infos, wait, replied)

-----------------------------------------------------------------------------
(* A message passes the slot.                                              *)

\* What n, reached from s, has told: nobody in d, everybody once, and, if the one requester has
\* no failure, the message asked for.
Replied(s, n, d) ==
    /\ \A r \in n.replies \ s.replies :
        /\ r.id \in DOMAIN s.infos \ d
        /\ Single(s.infos, s.wait, d) /\ r.code = "NoFailure" => r.msgId = s.infos[r.id].msgId
    /\ \A q, r \in n.replies \ s.replies : q.id = r.id => q = r

\* The requesters left as they were when those in d and d2 have been answered.
Kept(s, n, d, d2, p, p2) ==
    /\ Held(n.infos, n.wait, d2) /\ Awaiting(n.infos, d2, p2)
    /\ Single(s.infos, s.wait, d) => Single(n.infos, n.wait, d2)
    /\ DOMAIN n.infos \subseteq DOMAIN s.infos

LEMMA IdsOfUnion ==
    ASSUME NEW a, NEW b
    PROVE  IdsOf(a \cup b) = IdsOf(a) \cup IdsOf(b)
BY DEF IdsOf

LEMMA NobodyWaits ==
    ASSUME NEW i, \A id \in DOMAIN i : i[id] \in InfoRecord, NEW d
    PROVE  Held(i, NoWait, d)
<1>1. NoWait \in WaitRecord /\ NoWait.id = 0
  BY RequestMessageAssumption DEF NoWait, WaitRecord
<1>. QED  BY <1>1 DEF Held

\* n is where the end of a wait with a reply of this code leaves i, w and rs.
WaitEnded(i, w, rs, d, p, code, n) ==
    LET s  == Requester(i, w, rs)
        d2 == d \cup IdsOf(n.replies)
    IN  /\ Kept(s, n, d, d2, p, p) /\ Replied(s, n, d)
        /\ \A r \in n.replies \ rs : r.code = code /\ r.id \notin p
        /\ DOMAIN n.infos = DOMAIN i
        /\ \A id \in DOMAIN i : n.infos[id].msgId = i[id].msgId

\* The one who waits is marked, and told if the ack has come.
LEMMA WaitEnds ==
    ASSUME NEW i, NEW w, NEW rs, NEW d, NEW p, Held(i, w, d), Awaiting(i, d, p), w.id # 0,
           IdsOf(rs) \subseteq d,
           NEW m \in MessageIds \cup {OtherMessage}, NEW code,
           code = "NoFailure" => m = w.msgId,
           m # w.msgId => w.timeoutActive
    PROVE  WaitEnded(i, w, rs, d, p, code, EndWait(Requester(i, w, rs), m, TRUE, NoWait, code))
<1>. DEFINE s == Requester(i, w, rs)
            n == EndWait(s, m, TRUE, NoWait, code)
            d2 == d \cup IdsOf(n.replies)
            id == w.id
            acked == i[id].commandAckReceived
            message == IF acked THEN i[id].message ELSE m
            info == [i[id] EXCEPT !.messageReceived = TRUE, !.message = message]
            new == {r \in {Reply(id, code, m)} : acked}
<1>1. s.infos = i /\ s.wait = w /\ s.replies = rs
  BY DEF Requester
<1>2. /\ id \in DOMAIN i \ d /\ i[id] \in InfoRecord
      /\ ~i[id].messageReceived /\ w.msgId = i[id].msgId
  BY DEF Held
<1>3. n.infos = [i EXCEPT ![id] = info] /\ n.wait = NoWait /\ n.replies = rs \cup new
  BY <1>1 DEF EndWait, Requester
<1>4. /\ info \in InfoRecord /\ info.messageReceived /\ info.message = message
      /\ info.msgId = i[id].msgId /\ info.commandAckReceived = i[id].commandAckReceived
  <2>1. message \in MessageIds \cup {OtherMessage, NoMessage}
    BY <1>2 DEF InfoRecord
  <2>. HIDE DEF message
  <2>. QED  BY <1>2, <2>1 DEF InfoRecord
<1>. HIDE DEF info
<1>5. /\ DOMAIN n.infos = DOMAIN i /\ n.infos[id] = info
      /\ \A k \in DOMAIN i : k # id => n.infos[k] = i[k]
  BY <1>2, <1>3
<1>6. d2 = d \cup IdsOf(new)
  <2>1. IdsOf(n.replies) = IdsOf(rs) \cup IdsOf(new)
    <3>. HIDE DEF n, new
    <3>. QED  BY <1>3, IdsOfUnion
  <2>. QED  BY <2>1
<1>7. acked => IdsOf(new) = {id}
  <2>1. Reply(id, code, m).id = id
    BY DEF Reply
  <2>2. acked => new = {Reply(id, code, m)}
    OBVIOUS
  <2>. HIDE DEF new
  <2>. QED  BY <2>1, <2>2 DEF IdsOf
<1>8. ~acked => IdsOf(new) = {} /\ new = {}
  <2>1. ~acked => new = {}
    OBVIOUS
  <2>. HIDE DEF new
  <2>. QED  BY <2>1 DEF IdsOf
<1>9. \A r \in n.replies \ rs : r = Reply(id, code, m) /\ acked
  BY <1>3
<1>. HIDE DEF n, d2, new
<1>10. NoWait.id = 0 /\ NoWait.timeoutActive = FALSE
  BY DEF NoWait
<1>11. Held(n.infos, n.wait, d2)
  <2>1. \A k \in DOMAIN n.infos : n.infos[k] \in InfoRecord
    BY <1>4, <1>5 DEF Held
  <2>. QED  BY <1>3, <2>1, NobodyWaits
<1>12. Awaiting(n.infos, d2, p)
  BY <1>4, <1>5, <1>6, <1>7, <1>8 DEF Awaiting
<1>13. Single(i, w, d) => Single(n.infos, n.wait, d2)
  <2>1. SUFFICES ASSUME Single(i, w, d)
                 PROVE  Single(n.infos, n.wait, d2)
    OBVIOUS
  <2>2. \A j, k \in DOMAIN n.infos \ d2 : j = k
    BY <1>5, <1>6, <2>1 DEF Single
  <2>3. ASSUME NEW k \in DOMAIN n.infos \ d2
        PROVE  n.infos[k].message = n.infos[k].msgId
    <3>1. k = id
      BY <1>2, <1>5, <1>6, <2>1 DEF Single
    <3>2. ~acked
      BY <1>6, <1>7, <2>3, <3>1
    <3>3. ~w.timeoutActive
      BY <2>1, <3>2 DEF Single
    <3>. QED  BY <1>2, <1>4, <1>5, <3>1, <3>2, <3>3
  <2>. QED  BY <1>3, <1>10, <2>2, <2>3 DEF Single
<1>14. Replied(s, n, d)
  <2>1. Reply(id, code, m).id = id /\ Reply(id, code, m).code = code /\ Reply(id, code, m).msgId = m
    BY DEF Reply
  <2>. QED  BY <1>1, <1>2, <1>9, <2>1 DEF Replied
<1>15. \A r \in n.replies \ rs : r.code = code /\ r.id \notin p
  BY <1>9 DEF Reply, Awaiting
<1>16. \A k \in DOMAIN i : n.infos[k].msgId = i[k].msgId
  BY <1>4, <1>5
<1>17. Kept(s, n, d, d2, p, p)
  BY <1>1, <1>5, <1>11, <1>12, <1>13 DEF Kept
<1>18. WaitEnded(i, w, rs, d, p, code, n)
  BY <1>5, <1>14, <1>15, <1>16, <1>17 DEF WaitEnded, d2
<1>. QED  BY <1>18 DEF n

\* n is where a message leaves the infos i and the slot w, p being requests in the list.
Received(i, w, d, p, n) ==
    LET d2 == d \cup IdsOf(n.replies)
    IN  /\ Kept(Requester(i, w, {}), n, d, d2, p, p) /\ Replied(Requester(i, w, {}), n, d)
        /\ \A r \in n.replies : r.code \in {"NoFailure", "MessageNotReceived"} /\ r.id \notin p
        /\ DOMAIN n.infos = DOMAIN i
        /\ \A id \in DOMAIN i : n.infos[id].msgId = i[id].msgId
        /\ n = Requester(n.infos, n.wait, n.replies)

\* A message ends the wait it is for, or one that has timed out, or nothing.
LEMMA MessageReceived ==
    ASSUME NEW i, NEW w, NEW d, NEW p, Held(i, w, d), Awaiting(i, d, p),
           NEW m \in MessageIds \cup {OtherMessage}
    PROVE  Received(i, w, d, p, WaitReceives(Requester(i, w, {}), m))
<1>. DEFINE s == Requester(i, w, {})
            code == IF m = w.msgId THEN "NoFailure" ELSE "MessageNotReceived"
            over == w.id # 0 /\ (m = w.msgId \/ (w.timeoutActive /\ w.age > MessageTimeout))
            n == WaitReceives(s, m)
<1>1. s.infos = i /\ s.wait = w /\ s.replies = {}
  BY DEF Requester
<1>2. (WaitIsOver(s, m) <=> over) /\ (Expected(s, m) <=> m = w.msgId)
  BY <1>1 DEF WaitIsOver, Expected
<1>3. IdsOf({}) = {}
  BY DEF IdsOf
<1>4. CASE over
  <2>1. n = EndWait(s, m, TRUE, NoWait, code)
    BY <1>2, <1>4 DEF WaitReceives
  <2>2. code = "NoFailure" => m = w.msgId
    OBVIOUS
  <2>3. code \in {"NoFailure", "MessageNotReceived"}
    OBVIOUS
  <2>. HIDE DEF code, n
  <2>4. /\ w.id # 0
        /\ m # w.msgId => w.timeoutActive
        /\ IdsOf({}) \subseteq d
    BY <1>3, <1>4
  <2>5. /\ Kept(s, n, d, d \cup IdsOf(n.replies), p, p) /\ Replied(s, n, d)
        /\ \A r \in n.replies \ {} : r.code = code /\ r.id \notin p
        /\ DOMAIN n.infos = DOMAIN i
        /\ \A id \in DOMAIN i : n.infos[id].msgId = i[id].msgId
    <3>1. WaitEnded(i, w, {}, d, p, code, n)
      BY <2>1, <2>2, <2>4, WaitEnds
    <3>. QED  BY <3>1 DEF WaitEnded
  <2>6. n = Requester(n.infos, n.wait, n.replies)
    BY <2>1 DEF EndWait, Requester
  <2>7. Received(i, w, d, p, n)
    BY <2>3, <2>5, <2>6 DEF Received
  <2>. QED  BY <2>7 DEF n
<1>5. CASE ~over
  <2>1. n = s
    BY <1>2, <1>5 DEF WaitReceives
  <2>. HIDE DEF n
  <2>2. d \cup IdsOf(n.replies) = d
    BY <1>1, <1>3, <2>1
  <2>3. Kept(s, n, d, d, p, p)
    BY <1>1, <2>1 DEF Kept
  <2>4. Replied(s, n, d)
    BY <1>1, <2>1 DEF Replied
  <2>5. n = Requester(n.infos, n.wait, n.replies)
    BY <1>1, <2>1
  <2>6. Received(i, w, d, p, n)
    BY <1>1, <2>1, <2>2, <2>3, <2>4, <2>5 DEF Received
  <2>. QED  BY <2>6 DEF n
<1>. QED  BY <1>4, <1>5

-----------------------------------------------------------------------------
(* Results of commands reach their requesters.                             *)

\* The results told: one for each command, and those of requests are of p.
Told(told, i, p) ==
    /\ \A q, r \in told : q.id = r.id => q = r
    /\ \A r \in told : r.code \in FailureCodes /\ (r.id \in DOMAIN i => r.id \in p)

LEMMA FailuresHaveCodes ==
    ASSUME NEW code \in FailureCodes
    PROVE  FailureOf(code) \in ReplyCodes \ {"NoFailure"}
BY DEF FailureOf, FailureCodes, ReplyCodes

\* n is s with the results told taken.
Taken(i, w, rs, d, p, told, n) ==
    LET d2 == d \cup IdsOf(n.replies)
        s  == Requester(i, w, rs)
    IN  /\ Kept(s, n, d, d2, p, p \ IdsOf(told)) /\ Replied(s, n, d)
        /\ rs \subseteq n.replies
        /\ \A r \in n.replies \ rs :
            /\ r.code \in ReplyCodes /\ r.id \in p /\ r.id \in IdsOf(told)
            /\ r.code = "NoFailure" => i[r.id].messageReceived

LEMMA ResultsTaken ==
    ASSUME NEW i, NEW w, NEW rs, NEW d, NEW p, Held(i, w, d), Awaiting(i, d, p),
           IdsOf(rs) \subseteq d, NEW told, Told(told, i, p)
    PROVE  Taken(i, w, rs, d, p, told, CmdResults(Requester(i, w, rs), told))
<1>. DEFINE s == Requester(i, w, rs)
            n == CmdResults(s, told)
            d2 == d \cup IdsOf(n.replies)
            failed == Failed(s, told)
            accepted == Accepted(s, told)
            complete == Complete(s, told)
            new == {Reply(r.id, FailureOf(r.code), NoMessage) : r \in failed}
                   \cup {Reply(id, "NoFailure", i[id].message) : id \in complete}
<1>1. s.infos = i /\ s.wait = w /\ s.replies = rs
  BY DEF Requester
<1>2. /\ n.infos = [id \in DOMAIN i \ complete |->
                      IF id \in IdsOf(told) THEN [i[id] EXCEPT !.commandAckReceived = TRUE]
                      ELSE i[id]]
      /\ n.wait = SlotAfter(s, told)
      /\ n.replies = rs \cup new
  BY <1>1 DEF CmdResults, Acknowledge, Requester, IdsOf
<1>3. /\ failed \subseteq told /\ \A r \in failed : r.id \in DOMAIN i
      /\ complete \subseteq accepted
      /\ \A id \in complete : i[id].messageReceived
      /\ \A id \in accepted : id \in DOMAIN i /\ \E r \in told \ failed : r.id = id
  BY <1>1 DEF Failed, Mine, Accepted, Complete
<1>4. /\ \A id \in accepted : id \in p /\ id \in IdsOf(told)
      /\ \A r \in failed : r.id \in p /\ r.id \in IdsOf(told) /\ r.id \notin accepted
  BY <1>3 DEF Told, IdsOf
<1>5. /\ failed # {} => n.wait = NoWait
      /\ failed = {} /\ accepted # complete =>
            n.wait = [w EXCEPT !.timeoutActive = TRUE, !.age = 0]
      /\ failed = {} /\ accepted = complete => n.wait = w
  BY <1>1, <1>2 DEF SlotAfter
<1>. HIDE DEF n, failed, accepted, complete
\* The replies.
<1>6. \A r \in new : \/ \E q \in failed : r = Reply(q.id, FailureOf(q.code), NoMessage)
                     \/ \E id \in complete : r = Reply(id, "NoFailure", i[id].message)
  OBVIOUS
<1>7. ASSUME NEW q \in failed
      PROVE  /\ Reply(q.id, FailureOf(q.code), NoMessage).id = q.id
             /\ Reply(q.id, FailureOf(q.code), NoMessage).code \in ReplyCodes \ {"NoFailure"}
  <2>1. q.code \in FailureCodes
    BY <1>3 DEF Told
  <2>. QED  BY <2>1, FailuresHaveCodes DEF Reply
<1>8. ASSUME NEW id \in complete
      PROVE  /\ Reply(id, "NoFailure", i[id].message).id = id
             /\ Reply(id, "NoFailure", i[id].message).code = "NoFailure"
             /\ Reply(id, "NoFailure", i[id].message).msgId = i[id].message
  BY DEF Reply
<1>9. "NoFailure" \in ReplyCodes
  BY DEF ReplyCodes
<1>10. \A r \in new : r.code \in ReplyCodes /\ r.id \in p /\ r.id \in IdsOf(told)
  BY <1>3, <1>4, <1>6, <1>7, <1>8, <1>9
<1>10a. \A r \in new : r.code = "NoFailure" => r.id \in complete
  BY <1>6, <1>7, <1>8
<1>11. \A q, r \in new : q.id = r.id => q = r
  BY <1>3, <1>4, <1>6, <1>7, <1>8 DEF Told
<1>12. IdsOf(new) = complete \cup {r.id : r \in failed}
  <2>1. ASSUME NEW x \in IdsOf(new)
        PROVE  x \in complete \cup {r.id : r \in failed}
    <3>1. PICK r \in new : x = r.id
      BY DEF IdsOf
    <3>. QED  BY <1>6, <1>7, <1>8, <3>1
  <2>2. ASSUME NEW x \in complete
        PROVE  x \in IdsOf(new)
    BY <1>8 DEF IdsOf
  <2>3. ASSUME NEW q \in failed
        PROVE  q.id \in IdsOf(new)
    BY <1>7 DEF IdsOf
  <2>. QED  BY <2>1, <2>2, <2>3
<1>13. \A r \in new : Single(i, w, d) /\ r.code = "NoFailure" => r.msgId = i[r.id].msgId
  <2>1. SUFFICES ASSUME NEW id \in complete, Single(i, w, d)
                 PROVE  i[id].message = i[id].msgId
    BY <1>6, <1>7, <1>8
  <2>2. id \in DOMAIN i \ d
    BY <1>3, <1>4 DEF Awaiting
  <2>. QED  BY <1>3, <2>1, <2>2 DEF Single
<1>. HIDE DEF new
<1>14. d2 = d \cup IdsOf(new)
  <2>1. IdsOf(n.replies) = IdsOf(rs) \cup IdsOf(new)
    BY <1>2, IdsOfUnion
  <2>. QED  BY <2>1
<1>. HIDE DEF d2
<1>15. Replied(s, n, d)
  <2>1. \A r \in n.replies \ rs : r \in new
    BY <1>2
  <2>2. \A r \in new : r.id \in DOMAIN i \ d
    BY <1>10 DEF Awaiting
  <2>. QED  BY <1>1, <1>11, <1>13, <2>1, <2>2 DEF Replied
\* The infos.
<1>16. \A id \in DOMAIN i : i[id] \in InfoRecord
  BY DEF Held
<1>17. /\ DOMAIN n.infos = DOMAIN i \ complete
       /\ \A id \in DOMAIN n.infos : n.infos[id] =
            IF id \in IdsOf(told) THEN [i[id] EXCEPT !.commandAckReceived = TRUE] ELSE i[id]
  BY <1>2
<1>18. ASSUME NEW id \in DOMAIN n.infos
       PROVE  /\ n.infos[id] \in InfoRecord /\ n.infos[id].msgId = i[id].msgId
              /\ n.infos[id].messageReceived = i[id].messageReceived
              /\ n.infos[id].message = i[id].message
              /\ id \notin IdsOf(told) => n.infos[id] = i[id]
              /\ id \in IdsOf(told) => n.infos[id].commandAckReceived
  BY <1>16, <1>17 DEF InfoRecord
<1>19. n.wait \in WaitRecord /\ (n.wait.id # 0 => failed = {} /\ n.wait.id = w.id /\ n.wait.msgId = w.msgId)
  <2>1. w \in WaitRecord
    BY DEF Held
  <2>2. NoWait \in WaitRecord /\ NoWait.id = 0
    BY RequestMessageAssumption DEF NoWait, WaitRecord
  <2>3. 0 \in 0 .. MessageTimeout + 1
    BY RequestMessageAssumption
  <2>4. [w EXCEPT !.timeoutActive = TRUE, !.age = 0] \in WaitRecord
    BY <2>1, <2>3 DEF WaitRecord
  <2>5. /\ [w EXCEPT !.timeoutActive = TRUE, !.age = 0].id = w.id
        /\ [w EXCEPT !.timeoutActive = TRUE, !.age = 0].msgId = w.msgId
    BY <2>1 DEF WaitRecord
  <2>. QED  BY <1>5, <2>1, <2>2, <2>4, <2>5
<1>20. n.wait.id # 0 => /\ w.id \in DOMAIN i \ d /\ ~i[w.id].messageReceived
                        /\ w.msgId = i[w.id].msgId
                        /\ w.id \in DOMAIN n.infos \ d2
  <2>1. SUFFICES ASSUME n.wait.id # 0
                 PROVE  /\ w.id \in DOMAIN i \ d /\ ~i[w.id].messageReceived
                        /\ w.msgId = i[w.id].msgId
                        /\ w.id \in DOMAIN n.infos \ d2
    OBVIOUS
  <2>2. w.id # 0 /\ failed = {}
    BY <1>19, <2>1
  <2>3. /\ w.id \in DOMAIN i \ d /\ ~i[w.id].messageReceived
        /\ w.msgId = i[w.id].msgId
    BY <2>2 DEF Held
  <2>4. w.id \notin complete
    BY <1>3, <2>3
  <2>. QED  BY <1>12, <1>14, <1>17, <2>2, <2>3, <2>4
<1>21. Held(n.infos, n.wait, d2)
  BY <1>18, <1>19, <1>20 DEF Held
<1>22. Awaiting(n.infos, d2, p \ IdsOf(told))
  <2>1. SUFFICES ASSUME NEW id \in p \ IdsOf(told)
                 PROVE  id \in DOMAIN n.infos \ d2 /\ ~n.infos[id].commandAckReceived
    BY DEF Awaiting
  <2>2. id \in DOMAIN i \ d /\ ~i[id].commandAckReceived
    BY DEF Awaiting
  <2>3. id \notin complete /\ id \notin IdsOf(new)
    BY <1>3, <1>4, <1>12
  <2>. QED  BY <1>14, <1>17, <1>18, <2>1, <2>2, <2>3
<1>23. Single(i, w, d) => Single(n.infos, n.wait, d2)
  <2>1. SUFFICES ASSUME Single(i, w, d)
                 PROVE  Single(n.infos, n.wait, d2)
    OBVIOUS
  <2>2. DOMAIN n.infos \ d2 \subseteq DOMAIN i \ d
    BY <1>14, <1>17
  <2>3. n.wait.id # 0 /\ n.wait.timeoutActive => n.infos[n.wait.id].commandAckReceived
    <3>1. SUFFICES ASSUME n.wait.id # 0, n.wait.timeoutActive
                   PROVE  n.infos[w.id].commandAckReceived
      BY <1>19
    <3>2. CASE accepted = complete
      <4>1. w.timeoutActive /\ w.id # 0
        BY <1>5, <1>19, <3>1, <3>2
      <4>2. i[w.id].commandAckReceived
        BY <2>1, <4>1 DEF Single
      <4>. QED  BY <1>18, <1>20, <3>1, <4>2
    <3>3. CASE accepted # complete
      <4>1. PICK x \in accepted : TRUE
        BY <1>3, <3>3
      <4>2. x \in DOMAIN i \ d /\ x \in IdsOf(told)
        BY <1>4 DEF Awaiting
      <4>3. x = w.id
        BY <1>20, <2>1, <3>1, <4>2 DEF Single
      <4>. QED  BY <1>18, <1>20, <3>1, <4>2, <4>3
    <3>. QED  BY <3>2, <3>3
  <2>4. \A id \in DOMAIN n.infos \ d2 : n.infos[id].messageReceived =>
            n.infos[id].message = n.infos[id].msgId
    BY <1>18, <2>1, <2>2 DEF Single
  <2>5. \A j, k \in DOMAIN n.infos \ d2 : j = k
    BY <2>1, <2>2 DEF Single
  <2>. QED  BY <2>3, <2>4, <2>5 DEF Single
<1>24. Kept(s, n, d, d2, p, p \ IdsOf(told))
  BY <1>1, <1>17, <1>21, <1>22, <1>23 DEF Kept
<1>25. rs \subseteq n.replies /\ \A r \in n.replies \ rs :
            /\ r.code \in ReplyCodes /\ r.id \in p /\ r.id \in IdsOf(told)
            /\ r.code = "NoFailure" => i[r.id].messageReceived
  <2>1. \A r \in n.replies \ rs : r \in new
    BY <1>2
  <2>2. \A r \in n.replies \ rs : r.code = "NoFailure" => i[r.id].messageReceived
    BY <1>3, <1>10a, <2>1
  <2>. QED  BY <1>2, <1>10, <2>1, <2>2
<1>26. Taken(i, w, rs, d, p, told, n)
  BY <1>15, <1>24, <1>25 DEF Taken, d2
<1>. QED  BY <1>26 DEF n

-----------------------------------------------------------------------------
(* The steps.                                                              *)

\* What OneRightReplyEach says of a step.
Right ==
    /\ NoDanglingInfo'
    /\ \A r \in replies' : r.id \notin replied
    /\ \A r, s \in replies' : r.id = s.id => r = s
    /\ \A r \in replies' : alone /\ r.code = "NoFailure" =>
         r.id \in DOMAIN infos /\ infos[r.id].msgId = r.msgId

\* The step that ends in n tells those who have no answer, and the right thing.
TellsRight(n) ==
    /\ \A r \in n.replies : r.id \notin replied /\ r.code \in ReplyCodes /\ r.id \in 1 .. calls'
    /\ \A q, r \in n.replies : q.id = r.id => q = r
    /\ \A r \in n.replies : alone /\ r.code = "NoFailure" =>
         r.id \in DOMAIN infos /\ infos[r.id].msgId = r.msgId

\* It leaves the infos and the slot in order.
EndsWell(n) ==
    LET d2 == replied \cup IdsOf(n.replies)
    IN  /\ Held(n.infos, n.wait, d2) /\ Awaiting(n.infos, d2, Requests')
        /\ alone' => Single(n.infos, n.wait, d2)
        /\ DOMAIN n.infos \subseteq 1 .. calls'
        /\ DOMAIN n.infos \cap DOMAIN commandList' \subseteq Requests'

LEMMA Becoming ==
    ASSUME RInv, QueueNext, calls \in Nat => calls' >= calls,
           NEW n, Becomes(n), TellsRight(n), EndsWell(n)
    PROVE  RInv' /\ Right
<1>1. IInv'
  BY NextKeepsIInv DEF RInv
<1>2. infos' = n.infos /\ wait' = n.wait /\ replies' = n.replies
      /\ replied' = replied \cup IdsOf(n.replies)
  BY DEF Becomes, IdsOf
<1>3. /\ Held(infos', wait', replied') /\ Awaiting(infos', replied', Requests')
      /\ alone' => Single(infos', wait', replied')
      /\ DOMAIN infos' \subseteq 1 .. calls'
      /\ DOMAIN infos' \cap DOMAIN commandList' \subseteq Requests'
  BY <1>2 DEF EndsWell
<1>4. TypeOK'
  <2>1. QueueTypeOK'
    BY <1>1 DEF IInv
  <2>2. replied' \subseteq 1 .. calls'
    <3>1. replied \subseteq 1 .. calls /\ calls \in Nat /\ calls' \in Nat
      BY <2>1 DEF RInv, TypeOK, QueueTypeOK
    <3>2. 1 .. calls \subseteq 1 .. calls'
      BY <3>1
    <3>. QED  BY <1>2, <3>1, <3>2 DEF TellsRight, IdsOf
  <2>3. \A id \in DOMAIN infos' : infos'[id] \in InfoRecord
    BY <1>3 DEF Held
  <2>4. wait' \in WaitRecord
    BY <1>3 DEF Held
  <2>5. \A r \in replies' : r.code \in ReplyCodes
    BY <1>2 DEF TellsRight
  <2>. QED  BY <2>1, <2>2, <2>3, <2>4, <2>5 DEF TypeOK, InfoRecord, WaitRecord
<1>5. RInv'
  BY <1>1, <1>3, <1>4 DEF RInv
<1>6. NoDanglingInfo'
  BY <1>3 DEF NoDanglingInfo, Held, Awaiting, Requests
<1>7. Right
  BY <1>2, <1>6 DEF Right, TellsRight
<1>. QED  BY <1>5, <1>7

\* The queue hands results to commands that leave the list, and does nothing else to it.
QueueTells ==
    /\ calls' = calls
    /\ IdsOf(results') \subseteq DOMAIN commandList
    /\ DOMAIN commandList' = DOMAIN commandList \ IdsOf(results')
    /\ \A id \in DOMAIN commandList' : commandList'[id].command = commandList[id].command
    /\ \A q, r \in results' : q.id = r.id => q = r
    /\ \A r \in results' : r.code \in FailureCodes

LEMMA TellingIds ==
    ASSUME NEW ids, NEW result, NEW code \in FailureCodes, Tell(ids, result, code)
    PROVE  /\ IdsOf(results') = ids
           /\ \A q, r \in results' : q.id = r.id => q = r
           /\ \A r \in results' : r.code \in FailureCodes
<1>1. \A id : Result(id, result, code).id = id /\ Result(id, result, code).code = code
  BY DEF Result
<1>2. results' = {Result(id, result, code) : id \in ids}
  BY DEF Tell
<1>. QED  BY <1>1, <1>2 DEF IdsOf

LEMMA AckTells ==
    ASSUME NEW comp, NEW command, NEW result, HandleCommandAck(comp, command, result)
    PROVE  QueueTells
<1>. DEFINE acked == Oldest(Pending(comp, command))
<1>1. acked \subseteq DOMAIN commandList
  BY DEF Oldest, Pending
<1>2. /\ commandList' = Restrict(commandList, DOMAIN commandList \ acked)
      /\ Tell(acked, result, "CommandResultOnly") /\ calls' = calls
  BY DEF HandleCommandAck
<1>. HIDE DEF acked
<1>3. /\ DOMAIN commandList' = DOMAIN commandList \ acked
      /\ \A id \in DOMAIN commandList' : commandList'[id] = commandList[id]
  BY <1>2 DEF Restrict
<1>4. "CommandResultOnly" \in FailureCodes
  BY DEF FailureCodes
<1>. QED  BY <1>1, <1>2, <1>3, <1>4, TellingIds DEF QueueTells

LEMMA CheckTells ==
    ASSUME IInv, ResponseTimeoutCheck
    PROVE  QueueTells
<1>1. Spent \subseteq DOMAIN commandList
  BY DEF Spent, Late
<1>2. Tell(Spent, "FAILED", "NoResponseToCommand") /\ calls' = calls
  BY DEF ResponseTimeoutCheck, GiveUp, Check
<1>3. "NoResponseToCommand" \in FailureCodes
  BY DEF FailureCodes
<1>4. /\ IdsOf(results') = Spent
      /\ \A q, r \in results' : q.id = r.id => q = r
      /\ \A r \in results' : r.code \in FailureCodes
  BY <1>2, <1>3, TellingIds
<1>5. /\ DOMAIN commandList' = DOMAIN commandList \ Spent
      /\ \A id \in DOMAIN commandList' : commandList'[id].command = commandList[id].command
  BY CheckedEntries
<1>. QED  BY <1>1, <1>2, <1>4, <1>5 DEF QueueTells

\* Those told are requests that leave the list, if they are anybody's.
LEMMA RequestsTold ==
    ASSUME QueueTells, DOMAIN infos \cap DOMAIN commandList \subseteq Requests,
           NEW i, DOMAIN i \subseteq DOMAIN infos
    PROVE  /\ Told(results', i, Requests)
           /\ Requests' = Requests \ IdsOf(results')
           /\ DOMAIN i \cap DOMAIN commandList' \subseteq Requests'
<1>1. \A r \in results' : r.id \in IdsOf(results')
  BY DEF IdsOf
<1>2. Requests' = Requests \ IdsOf(results')
  BY DEF Requests, QueueTells
<1>3. Told(results', i, Requests)
  BY <1>1 DEF Told, QueueTells
<1>. QED  BY <1>2, <1>3 DEF QueueTells

LEMMA StateFacts ==
    ASSUME RInv
    PROVE  /\ calls \in Nat /\ replied \subseteq 1 .. calls
           /\ Held(infos, wait, replied) /\ Awaiting(infos, replied, Requests)
           /\ DOMAIN infos \subseteq 1 .. calls
           /\ DOMAIN infos \cap DOMAIN commandList \subseteq Requests
           /\ DOMAIN commandList \subseteq 1 .. calls
           /\ alone => Single(infos, wait, replied)
BY DEF RInv, TypeOK, QueueTypeOK, IInv, EachCallIsAccounted

\* A message, or an ack, which passes the slot like any other.
LEMMA MessageKeeps ==
    ASSUME RInv, NEW m \in MessageIds \cup {OtherMessage}, ReceiveMessage(m)
    PROVE  RInv' /\ Right
<1>. DEFINE n == WaitReceives(Now, m)
<1>1. /\ UNCHANGED <<commandList, calls, alone>> /\ Quiet /\ Becomes(n)
  BY DEF ReceiveMessage, Quiet
<1>2. Received(infos, wait, replied, Requests, n)
  BY StateFacts, MessageReceived DEF Now
<1>. HIDE DEF n
<1>3. Requests' = Requests
  BY <1>1 DEF Requests
<1>4. Now.infos = infos /\ Now.wait = wait /\ Now.replies = {} /\ Now = Requester(infos, wait, {})
  BY DEF Now, Requester
<1>5. TellsRight(n)
  <2>1. "NoFailure" \in ReplyCodes /\ "MessageNotReceived" \in ReplyCodes
    BY DEF ReplyCodes
  <2>2. Replied(Now, n, replied) /\ \A r \in n.replies : r.code \in ReplyCodes
    BY <1>2, <1>4, <2>1 DEF Received
  <2>. QED  BY <1>1, <1>4, <2>2, StateFacts DEF TellsRight, Replied
<1>6. EndsWell(n)
  <2>1. Kept(Now, n, replied, replied \cup IdsOf(n.replies), Requests, Requests)
    BY <1>2, <1>4 DEF Received
  <2>. QED  BY <1>1, <1>3, <1>4, <2>1, StateFacts DEF EndsWell, Kept
<1>7. QueueNext
  BY <1>1 DEF QueueNext
<1>8. calls \in Nat => calls' >= calls
  BY <1>1
<1>. QED  BY <1>1, <1>5, <1>6, <1>7, <1>8, Becoming

LEMMA AckKeeps ==
    ASSUME RInv, NEW comp \in Components, NEW command \in Commands, NEW result \in AckResults,
           ReceiveAck(comp, command, result)
    PROVE  RInv' /\ Right
<1>. DEFINE m == WaitReceives(Now, OtherMessage)
            n == CmdResults(m, results')
            d == replied \cup IdsOf(m.replies)
            d2 == d \cup IdsOf(n.replies)
<1>1. HandleCommandAck(comp, command, result) /\ Becomes(n) /\ alone' = alone
  BY DEF ReceiveAck
<1>2. QueueTells
  BY <1>1, AckTells
<1>3. Now.infos = infos /\ Now.wait = wait /\ Now.replies = {} /\ Now = Requester(infos, wait, {})
  BY DEF Now, Requester
<1>4. Received(infos, wait, replied, Requests, m)
  BY <1>3, StateFacts, MessageReceived
<1>. HIDE DEF m
<1>5. /\ Kept(Now, m, replied, d, Requests, Requests) /\ Replied(Now, m, replied)
      /\ \A r \in m.replies : r.code \in {"NoFailure", "MessageNotReceived"} /\ r.id \notin Requests
      /\ DOMAIN m.infos = DOMAIN infos
      /\ \A id \in DOMAIN infos : m.infos[id].msgId = infos[id].msgId
      /\ m = Requester(m.infos, m.wait, m.replies)
  BY <1>3, <1>4 DEF Received
<1>6. /\ Told(results', m.infos, Requests) /\ Requests' = Requests \ IdsOf(results')
      /\ DOMAIN m.infos \cap DOMAIN commandList' \subseteq Requests'
  BY <1>2, <1>5, StateFacts, RequestsTold
<1>7. Taken(m.infos, m.wait, m.replies, d, Requests, results', n)
  <2>1. Held(m.infos, m.wait, d) /\ Awaiting(m.infos, d, Requests) /\ IdsOf(m.replies) \subseteq d
    BY <1>5 DEF Kept
  <2>2. Taken(m.infos, m.wait, m.replies, d, Requests, results',
              CmdResults(Requester(m.infos, m.wait, m.replies), results'))
    <3>. HIDE DEF d
    <3>. QED  BY <1>6, <2>1, ResultsTaken
  <2>. QED  BY <1>5, <2>2
<1>. HIDE DEF n
<1>8. /\ Kept(m, n, d, d2, Requests, Requests') /\ Replied(m, n, d)
      /\ m.replies \subseteq n.replies
      /\ \A r \in n.replies \ m.replies : r.code \in ReplyCodes
  BY <1>5, <1>6, <1>7 DEF Taken
<1>9. d2 = replied \cup IdsOf(n.replies)
  BY <1>8 DEF IdsOf
<1>10. alone => Single(infos, wait, replied) /\ Single(m.infos, m.wait, d)
  BY <1>3, <1>5, StateFacts DEF Kept
<1>11. TellsRight(n)
  <2>1. ASSUME NEW r \in m.replies
        PROVE  /\ r.id \in DOMAIN infos \ replied /\ r.id \in d /\ r.code \in ReplyCodes
               /\ alone /\ r.code = "NoFailure" => r.msgId = infos[r.id].msgId
    <3>1. r \in m.replies \ Now.replies
      BY <1>3
    <3>2. "NoFailure" \in ReplyCodes /\ "MessageNotReceived" \in ReplyCodes
      BY DEF ReplyCodes
    <3>3. r.id \in DOMAIN infos \ replied
      BY <1>3, <1>5, <3>1 DEF Replied
    <3>4. alone /\ r.code = "NoFailure" => r.msgId = infos[r.id].msgId
      BY <1>3, <1>5, <1>10, <3>1 DEF Replied
    <3>5. r.id \in d /\ r.code \in ReplyCodes
      BY <1>5, <3>2 DEF IdsOf
    <3>. QED  BY <3>3, <3>4, <3>5
  <2>2. ASSUME NEW r \in n.replies \ m.replies
        PROVE  /\ r.id \in DOMAIN infos \ replied /\ r.id \notin d /\ r.code \in ReplyCodes
               /\ alone /\ r.code = "NoFailure" => r.msgId = infos[r.id].msgId
    <3>1. r.id \in DOMAIN m.infos \ d /\ r.code \in ReplyCodes
      BY <1>8 DEF Replied
    <3>2. alone /\ r.code = "NoFailure" => r.msgId = m.infos[r.id].msgId
      BY <1>8, <1>10 DEF Replied
    <3>. QED  BY <1>5, <3>1, <3>2
  <2>3. \A q, r \in m.replies : q.id = r.id => q = r
    BY <1>3, <1>5 DEF Replied
  <2>4. \A q, r \in n.replies \ m.replies : q.id = r.id => q = r
    BY <1>8 DEF Replied
  <2>5. \A q, r \in n.replies : q.id = r.id => q = r
    BY <2>1, <2>2, <2>3, <2>4
  <2>6. \A r \in n.replies : /\ r.id \in DOMAIN infos \ replied /\ r.code \in ReplyCodes
                             /\ alone /\ r.code = "NoFailure" => r.msgId = infos[r.id].msgId
    BY <2>1, <2>2
  <2>7. DOMAIN infos \subseteq 1 .. calls'
    BY <1>2, StateFacts DEF QueueTells
  <2>. QED  BY <2>5, <2>6, <2>7 DEF TellsRight
<1>. HIDE DEF d, d2
<1>12. EndsWell(n)
  <2>1. Held(n.infos, n.wait, d2) /\ Awaiting(n.infos, d2, Requests')
    BY <1>8 DEF Kept
  <2>2. alone' => Single(n.infos, n.wait, d2)
    BY <1>1, <1>8, <1>10 DEF Kept
  <2>3. DOMAIN n.infos \subseteq DOMAIN m.infos
    BY <1>8 DEF Kept
  <2>4. DOMAIN n.infos \subseteq 1 .. calls' /\ DOMAIN n.infos \cap DOMAIN commandList' \subseteq Requests'
    BY <1>2, <1>5, <1>6, <2>3, StateFacts DEF QueueTells
  <2>. QED  BY <1>9, <2>1, <2>2, <2>4 DEF EndsWell
<1>13. QueueNext
  BY <1>1 DEF QueueNext, Acked
<1>14. calls \in Nat => calls' >= calls
  BY <1>2 DEF QueueTells
<1>. QED  BY <1>1, <1>11, <1>12, <1>13, <1>14, Becoming

\* From the requesters i and w of those without an answer on, the step hands out results.
LEMMA ResultsKeep ==
    ASSUME RInv, NEW i, NEW w, NEW p, NEW n,
           Held(i, w, replied), Awaiting(i, replied, p), Told(results', i, p),
           n = CmdResults(Requester(i, w, {}), results'), Becomes(n), QueueNext,
           calls \in Nat => calls' >= calls,
           Requests' \subseteq p \ IdsOf(results'),
           DOMAIN i \subseteq 1 .. calls', DOMAIN i \cap DOMAIN commandList' \subseteq Requests',
           alone' => Single(i, w, replied),
           \A id \in DOMAIN i \cap IdsOf(results') : i[id].messageReceived =>
                /\ id \in DOMAIN infos /\ infos[id].msgId = i[id].msgId
                /\ alone => Single(i, w, replied)
    PROVE  RInv' /\ Right
<1>. DEFINE d2 == replied \cup IdsOf(n.replies)
            s == Requester(i, w, {})
<1>1. s.infos = i /\ s.wait = w /\ s.replies = {}
  BY DEF Requester
<1>2. IdsOf({}) \subseteq replied
  BY DEF IdsOf
<1>3. Taken(i, w, {}, replied, p, results', n)
  BY <1>2, ResultsTaken
<1>4. /\ Kept(s, n, replied, d2, p, p \ IdsOf(results')) /\ Replied(s, n, replied)
      /\ \A r \in n.replies : /\ r.code \in ReplyCodes /\ r.id \in IdsOf(results')
                              /\ r.code = "NoFailure" => i[r.id].messageReceived
  BY <1>3 DEF Taken
<1>5. TellsRight(n)
  <2>1. \A r \in n.replies :
            /\ r.id \in DOMAIN i \ replied
            /\ Single(i, w, replied) /\ r.code = "NoFailure" => r.msgId = i[r.id].msgId
    BY <1>1, <1>4 DEF Replied
  <2>2. \A q, r \in n.replies : q.id = r.id => q = r
    BY <1>1, <1>4 DEF Replied
  <2>3. \A r \in n.replies : alone /\ r.code = "NoFailure" =>
            r.id \in DOMAIN infos /\ infos[r.id].msgId = r.msgId
    BY <1>4, <2>1
  <2>. QED  BY <1>4, <2>1, <2>2, <2>3 DEF TellsRight
<1>6. EndsWell(n)
  <2>1. Held(n.infos, n.wait, d2) /\ Awaiting(n.infos, d2, p \ IdsOf(results'))
    BY <1>4 DEF Kept
  <2>2. Awaiting(n.infos, d2, Requests')
    BY <2>1 DEF Awaiting
  <2>3. /\ alone' => Single(n.infos, n.wait, d2)
        /\ DOMAIN n.infos \subseteq DOMAIN i
    BY <1>1, <1>4 DEF Kept
  <2>. QED  BY <2>1, <2>2, <2>3 DEF EndsWell
<1>. QED  BY <1>5, <1>6, Becoming

\* A check, with the time that passes for the slot.
LEMMA TickKeeps == ASSUME RInv, TimerTick PROVE RInv' /\ Right
<1>. DEFINE age == IF wait.timeoutActive /\ wait.age <= MessageTimeout THEN wait.age + 1
                   ELSE wait.age
            aged == [wait EXCEPT !.age = age]
            n == CmdResults(Requester(infos, aged, {}), results')
<1>1. ResponseTimeoutCheck /\ Becomes(n) /\ alone' = alone
  BY DEF TimerTick
<1>2. wait \in WaitRecord
  BY StateFacts DEF Held
<1>3. age \in 0 .. MessageTimeout + 1
  BY <1>2, RequestMessageAssumption DEF WaitRecord
<1>. HIDE DEF age
<1>4. /\ aged \in WaitRecord /\ aged.id = wait.id /\ aged.msgId = wait.msgId
      /\ aged.timeoutActive = wait.timeoutActive
  BY <1>2, <1>3 DEF WaitRecord
<1>. HIDE DEF aged
<1>5. Held(infos, aged, replied) /\ (alone => Single(infos, aged, replied))
  BY <1>4, StateFacts DEF Held, Single
<1>6. QueueTells
  BY <1>1, CheckTells DEF RInv
<1>7. /\ Told(results', infos, Requests) /\ Requests' = Requests \ IdsOf(results')
      /\ DOMAIN infos \cap DOMAIN commandList' \subseteq Requests'
  BY <1>6, StateFacts, RequestsTold
<1>8. QueueNext
  BY <1>1 DEF QueueNext
<1>9. calls' = calls
  BY <1>6 DEF QueueTells
<1>10. Awaiting(infos, replied, Requests) /\ DOMAIN infos \subseteq 1 .. calls'
  BY <1>9, StateFacts
<1>11. calls \in Nat => calls' >= calls
  BY <1>9
<1>12. \A id \in DOMAIN infos \cap IdsOf(results') : infos[id].messageReceived =>
            /\ id \in DOMAIN infos /\ infos[id].msgId = infos[id].msgId
            /\ alone => Single(infos, aged, replied)
  BY <1>5
<1>13. Requests' \subseteq Requests \ IdsOf(results') /\ (alone' => Single(infos, aged, replied))
  BY <1>1, <1>5, <1>7
<1>. DEFINE m == n
<1>14. m = CmdResults(Requester(infos, aged, {}), results') /\ Becomes(m)
  BY <1>1
<1>. HIDE DEF n
<1>. HIDE DEF m
<1>. QED  BY <1>5, <1>7, <1>8, <1>10, <1>11, <1>12, <1>13, <1>14, ResultsKeep

\* Nothing that concerns a requester happens.
LEMMA RestKeeps ==
    ASSUME RInv, QueueNext, Becomes(Now), alone' = alone, calls \in Nat => calls' >= calls,
           Requests' = Requests, DOMAIN infos \cap DOMAIN commandList' \subseteq Requests
    PROVE  RInv' /\ Right
<1>1. Now.infos = infos /\ Now.wait = wait /\ Now.replies = {}
  BY DEF Now, Requester
<1>2. replied \cup IdsOf(Now.replies) = replied
  BY <1>1 DEF IdsOf
<1>3. calls \in Nat /\ calls' \in Nat
  <2>1. IInv'
    BY NextKeepsIInv DEF RInv
  <2>. QED  BY <2>1, StateFacts DEF IInv, QueueTypeOK
<1>4. DOMAIN infos \subseteq 1 .. calls'
  BY <1>3, StateFacts
<1>5. TellsRight(Now)
  BY <1>1 DEF TellsRight
<1>6. EndsWell(Now)
  BY <1>1, <1>2, <1>4, StateFacts DEF EndsWell
<1>. DEFINE n == Now
<1>7. Becomes(n) /\ TellsRight(n) /\ EndsWell(n)
  BY <1>5, <1>6
<1>. HIDE DEF n
<1>. QED  BY <1>7, Becoming

LEMMA LinkKeeps == ASSUME RInv, LinkComesOrGoes PROVE RInv' /\ Right
<1>1. UNCHANGED <<commandList, calls, alone>> /\ LinkChange /\ Becomes(Now)
  BY DEF LinkComesOrGoes, LinkChange
<1>2. QueueNext /\ Requests' = Requests
  BY <1>1 DEF QueueNext, Requests
<1>. QED  BY <1>1, <1>2, StateFacts, RestKeeps

\* A new command is refused with a result, or forgotten, or in the list.
Submitted(comp, command) ==
    /\ calls' = calls + 1
    /\ \/ commandList' = commandList /\ results' = {}
       \/ /\ commandList' = commandList
          /\ \E code \in FailureCodes : Tell({calls + 1}, "FAILED", code)
       \/ /\ results' = {}
          /\ DOMAIN commandList' = DOMAIN commandList \cup {calls + 1}
          /\ commandList'[calls + 1].command = command
          /\ \A k \in DOMAIN commandList : commandList'[k] = commandList[k]

LEMMA Submits ==
    ASSUME RInv, NEW comp, NEW command, SendMavCommand(comp, command)
    PROVE  Submitted(comp, command)
<1>1. calls + 1 \notin DOMAIN commandList
  BY StateFacts
<1>2. "CommandResultOnly" \in FailureCodes /\ "DuplicateCommand" \in FailureCodes
  BY DEF FailureCodes
<1>3. CASE UNCHANGED <<commandList, dropped, transmitted>>
  BY <1>2, <1>3 DEF SendMavCommand, Submitted, TellNobody, Enlist
<1>4. CASE ~UNCHANGED <<commandList, dropped, transmitted>>
  <2>1. calls' = calls + 1 /\ TellNobody
    BY <1>4 DEF SendMavCommand
  <2>2. UNCHANGED commandList \/ Enlist(calls + 1, comp, command)
    BY <1>4 DEF SendMavCommand
  <2>. QED  BY <1>1, <2>1, <2>2 DEF Submitted, TellNobody, Enlist
<1>. QED  BY <1>3, <1>4

LEMMA OtherKeeps ==
    ASSUME RInv, calls < MaxCalls, NEW comp \in Components,
           NEW command \in Commands \ {"REQUEST_MESSAGE"}, OtherCommand(comp, command)
    PROVE  RInv' /\ Right
<1>1. SendMavCommand(comp, command) /\ Becomes(Now) /\ alone' = alone
  BY DEF OtherCommand
<1>2. Submitted(comp, command)
  BY <1>1, Submits
<1>3. QueueNext
  BY <1>1 DEF QueueNext, Submit
<1>4. calls \in Nat /\ calls' = calls + 1 /\ calls + 1 \notin DOMAIN infos
      /\ calls + 1 \notin DOMAIN commandList
  BY <1>2, StateFacts DEF Submitted
<1>5. Requests' = Requests
  BY <1>2, <1>4 DEF Submitted, Requests
<1>6. DOMAIN infos \cap DOMAIN commandList' \subseteq Requests
  BY <1>2, <1>4, StateFacts DEF Submitted
<1>7. calls \in Nat => calls' >= calls
  BY <1>4
<1>. QED  BY <1>1, <1>3, <1>5, <1>6, <1>7, RestKeeps

\* A new requester takes the slot, and waits for it alone if nobody else had to.
LEMMA Asks ==
    ASSUME RInv, NEW msgId \in MessageIds, NEW id, id = calls + 1,
           NEW i, i = [k \in DOMAIN infos \cup {id} |->
                         IF k = id THEN [msgId |-> msgId, commandAckReceived |-> FALSE,
                                         messageReceived |-> FALSE, message |-> NoMessage]
                         ELSE infos[k]],
           NEW w, w = [id |-> id, msgId |-> msgId, timeoutActive |-> FALSE, age |-> 0]
    PROVE  /\ Held(i, w, replied) /\ Awaiting(i, replied, Requests \cup {id})
           /\ Outstanding = {} => Single(i, w, replied)
           /\ DOMAIN i = DOMAIN infos \cup {id} /\ ~i[id].messageReceived
<1>. DEFINE info == [msgId |-> msgId, commandAckReceived |-> FALSE,
                     messageReceived |-> FALSE, message |-> NoMessage]
<1>1. /\ info \in InfoRecord /\ info.msgId = msgId
      /\ ~info.commandAckReceived /\ ~info.messageReceived
  BY DEF InfoRecord
<1>2. id \in Nat /\ id # 0 /\ id \notin DOMAIN infos /\ id \notin replied /\ id \notin Requests
  BY StateFacts DEF Requests
<1>3. i = [k \in DOMAIN infos \cup {id} |-> IF k = id THEN info ELSE infos[k]]
  OBVIOUS
<1>. HIDE DEF info
<1>4. /\ DOMAIN i = DOMAIN infos \cup {id} /\ i[id] = info
      /\ \A k \in DOMAIN infos : i[k] = infos[k]
  BY <1>2, <1>3
<1>5. w \in WaitRecord /\ w.id = id /\ w.msgId = msgId /\ w.timeoutActive = FALSE
  <2>1. 0 \in 0 .. MessageTimeout + 1
    BY RequestMessageAssumption
  <2>. QED  BY <1>2, <2>1 DEF WaitRecord
<1>6. Held(i, w, replied)
  <2>1. \A k \in DOMAIN i : i[k] \in InfoRecord
    BY <1>1, <1>4, StateFacts DEF Held
  <2>. QED  BY <1>1, <1>2, <1>4, <1>5, <2>1 DEF Held
<1>7. Awaiting(i, replied, Requests \cup {id})
  BY <1>1, <1>2, <1>4, StateFacts DEF Awaiting
<1>8. Outstanding = {} => Single(i, w, replied)
  <2>1. SUFFICES ASSUME Outstanding = {}
                 PROVE  Single(i, w, replied)
    OBVIOUS
  <2>2. \A k \in DOMAIN i \ replied : k = id
    BY <1>4, <2>1 DEF Outstanding
  <2>. QED  BY <1>1, <1>4, <1>5, <2>2 DEF Single
<1>. QED  BY <1>1, <1>4, <1>6, <1>7, <1>8

LEMMA RequestKeeps == ASSUME RInv, Request PROVE RInv' /\ Right
<1>1. PICK comp \in Components, msgId \in MessageIds : RequestMessageFrom(comp, msgId)
  BY DEF Request
<1>. DEFINE id == calls + 1
            i == [k \in DOMAIN infos \cup {id} |->
                    IF k = id THEN [msgId |-> msgId, commandAckReceived |-> FALSE,
                                    messageReceived |-> FALSE, message |-> NoMessage]
                    ELSE infos[k]]
            w == [id |-> id, msgId |-> msgId, timeoutActive |-> FALSE, age |-> 0]
            n == CmdResults(Requester(i, w, {}), results')
            p == Requests \cup {id}
<1>2. /\ SendMavCommand(comp, "REQUEST_MESSAGE") /\ Becomes(n)
      /\ calls < MaxCalls /\ alone' = (alone /\ Outstanding = {})
  BY <1>1 DEF Request, RequestMessageFrom
<1>3. Submitted(comp, "REQUEST_MESSAGE")
  BY <1>2, Submits
<1>4. QueueNext
  BY <1>2, RequestMessageAssumption DEF QueueNext, Submit
<1>5. /\ Held(i, w, replied) /\ Awaiting(i, replied, p)
      /\ Outstanding = {} => Single(i, w, replied)
      /\ DOMAIN i = DOMAIN infos \cup {id} /\ ~i[id].messageReceived
  BY Asks
<1>6. n = CmdResults(Requester(i, w, {}), results')
  OBVIOUS
<1>. HIDE DEF i, w, n
<1>7. /\ id \in Nat /\ calls' = id /\ id \notin DOMAIN infos /\ id \notin DOMAIN commandList
      /\ id \notin Requests
  BY <1>3, StateFacts DEF Submitted, Requests
<1>8. /\ IdsOf(results') \subseteq {id}
      /\ \A q, r \in results' : q.id = r.id => q = r
      /\ \A r \in results' : r.code \in FailureCodes
  <2>1. CASE results' = {}
    BY <2>1 DEF IdsOf
  <2>2. CASE results' # {}
    <3>1. PICK code \in FailureCodes : Tell({id}, "FAILED", code)
      BY <1>3, <2>2 DEF Submitted
    <3>. QED  BY <3>1, TellingIds
  <2>. QED  BY <2>1, <2>2
<1>9. Told(results', i, p)
  BY <1>8 DEF Told, IdsOf
<1>10. Requests' \subseteq p \ IdsOf(results')
  <2>1. CASE commandList' = commandList
    <3>1. Requests' = Requests
      BY <2>1 DEF Requests
    <3>. QED  BY <1>7, <1>8, <3>1
  <2>2. CASE commandList' # commandList
    <3>1. /\ results' = {} /\ DOMAIN commandList' = DOMAIN commandList \cup {id}
          /\ \A k \in DOMAIN commandList : commandList'[k] = commandList[k]
      BY <1>3, <2>2 DEF Submitted
    <3>2. IdsOf(results') = {}
      BY <3>1 DEF IdsOf
    <3>. QED  BY <3>1, <3>2 DEF Requests
  <2>. QED  BY <2>1, <2>2
<1>11. DOMAIN i \cap DOMAIN commandList' \subseteq Requests'
  <2>1. CASE commandList' = commandList
    <3>1. Requests' = Requests
      BY <2>1 DEF Requests
    <3>. QED  BY <1>5, <1>7, <2>1, <3>1, StateFacts
  <2>2. CASE commandList' # commandList
    <3>1. /\ DOMAIN commandList' = DOMAIN commandList \cup {id}
          /\ commandList'[id].command = "REQUEST_MESSAGE"
          /\ \A k \in DOMAIN commandList : commandList'[k] = commandList[k]
      BY <1>3, <2>2 DEF Submitted
    <3>. QED  BY <1>5, <3>1, StateFacts DEF Requests
  <2>. QED  BY <2>1, <2>2
<1>12. DOMAIN i \subseteq 1 .. calls'
  BY <1>5, <1>7, StateFacts
<1>13. calls \in Nat => calls' >= calls
  BY <1>7
<1>14. alone' => Single(i, w, replied)
  BY <1>2, <1>5
<1>15. \A k \in DOMAIN i \cap IdsOf(results') : i[k].messageReceived =>
            /\ k \in DOMAIN infos /\ infos[k].msgId = i[k].msgId
            /\ alone => Single(i, w, replied)
  BY <1>5, <1>8
<1>. HIDE DEF p, id
<1>. QED  BY <1>2, <1>4, <1>5, <1>6, <1>9, <1>10, <1>11, <1>12, <1>13, <1>14, <1>15, ResultsKeep

-----------------------------------------------------------------------------
(* The theorems.                                                           *)

LEMMA StartKeeps == Init => RInv
<1>. SUFFICES ASSUME Init PROVE RInv
  OBVIOUS
<1>1. QueueInit /\ infos = [id \in {} |-> {}] /\ wait = NoWait /\ replies = {} /\ replied = {}
      /\ alone = TRUE
  BY DEF Init
<1>2. IInv
  BY <1>1, InitIInv
<1>3. DOMAIN infos = {} /\ DOMAIN commandList = {} /\ calls = 0
  BY <1>1 DEF QueueInit
<1>4. Requests = {}
  BY <1>3 DEF Requests
<1>5. Held(infos, wait, replied)
  BY <1>1, <1>3, NobodyWaits
<1>6. Awaiting(infos, replied, Requests) /\ Single(infos, wait, replied)
  BY <1>1, <1>3, <1>4 DEF Awaiting, Single, NoWait
<1>7. TypeOK
  <2>1. QueueTypeOK /\ wait \in WaitRecord
    BY <1>2, <1>5 DEF IInv, Held
  <2>. QED  BY <1>1, <1>3, <2>1 DEF TypeOK, WaitRecord
<1>. QED  BY <1>2, <1>3, <1>5, <1>6, <1>7 DEF RInv

LEMMA StepKeeps == ASSUME RInv, Next PROVE RInv' /\ Right
<1>1. CASE \E msgId \in MessageIds \cup {OtherMessage} : ReceiveMessage(msgId)
  BY <1>1, MessageKeeps
<1>2. CASE \E comp \in Components, command \in Commands, result \in AckResults :
             ReceiveAck(comp, command, result)
  BY <1>2, AckKeeps
<1>3. CASE /\ calls < MaxCalls
           /\ \E comp \in Components, command \in Commands \ {"REQUEST_MESSAGE"} :
                OtherCommand(comp, command)
  BY <1>3, OtherKeeps
<1>. QED  BY <1>1, <1>2, <1>3, RequestKeeps, TickKeeps, LinkKeeps DEF Next

LEMMA RestsKeep == ASSUME RInv, UNCHANGED vars PROVE RInv'
<1>1. UNCHANGED <<queue, infos, wait, replies, replied, alone>>
  BY DEF vars
<1>2. UNCHANGED <<commandList, calls, linkUp, results, answered, dropped, transmitted>>
  BY <1>1 DEF queue
<1>3. IInv'
  BY <1>1, LinkKeepsIInv DEF RInv
<1>4. Requests' = Requests
  BY <1>2 DEF Requests
<1>5. TypeOK'
  BY <1>1, <1>2, <1>3 DEF RInv, TypeOK, IInv
<1>. QED  BY <1>1, <1>2, <1>3, <1>4, <1>5 DEF RInv

\* The queue, the infos and the slot fit together.
THEOREM RequestsInvariance == Spec => []RInv
<1>1. Init => RInv
  BY StartKeeps
<1>2. RInv /\ [Next]_vars => RInv'
  BY StepKeeps, RestsKeep
<1>. QED  BY <1>1, <1>2, PTL DEF Spec

\* No callback is left with a deleted info, no requester is told twice, and one told of no failure
\* is given its message as long as requesters wait for each other.
THEOREM RightReplies == Spec => OneRightReplyEach
<1>1. RInv /\ [Next]_vars => [Right]_vars
  BY StepKeeps
<1>. QED  BY <1>1, RequestsInvariance, PTL DEF Spec, OneRightReplyEach, Right

\* What the queue sees of requestMessage and of the other messages is what it is open to.
THEOREM QueueIsKept == Spec => QueueSpec
<1>1. Init => QueueInit
  BY DEF Init
<1>2. [Next]_vars => [QueueNext]_queue
  <2>1. UNCHANGED vars => UNCHANGED queue
    BY DEF vars
  <2>2. ASSUME Next
        PROVE  QueueNext
    <3>1. Request => calls < MaxCalls /\ Submit
      BY RequestMessageAssumption DEF Request, RequestMessageFrom, Submit
    <3>2. (\E comp \in Components, command \in Commands \ {"REQUEST_MESSAGE"} :
             OtherCommand(comp, command)) => Submit
      BY DEF OtherCommand, Submit
    <3>3. (\E msgId \in MessageIds \cup {OtherMessage} : ReceiveMessage(msgId)) => Quiet
      BY DEF ReceiveMessage
    <3>4. (\E comp \in Components, command \in Commands, result \in AckResults :
             ReceiveAck(comp, command, result)) => Acked
      BY DEF ReceiveAck, Acked
    <3>5. (TimerTick => ResponseTimeoutCheck) /\ (LinkComesOrGoes => LinkChange)
      BY DEF TimerTick, LinkComesOrGoes
    <3>. QED  BY <2>2, <3>1, <3>2, <3>3, <3>4, <3>5 DEF Next, QueueNext
  <2>. QED  BY <2>1, <2>2
<1>. QED  BY <1>1, <1>2, PTL DEF Spec, QueueSpec

\* So with requesters at work, too, every command is waiting, answered or dropped, ...
THEOREM RequestsAccounted == Spec => []EachCallIsAccounted
BY QueueIsKept, Accounted, PTL

\* ... and none outside the retry list is put on the link a second time.
THEOREM RequestsNeverDelayed == Spec => NoDelayedCommand
BY QueueIsKept, NeverDelayed, PTL
================================================================================
