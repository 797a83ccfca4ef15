----------------------------- MODULE RequestMessage -----------------------------
(***************************************************************************)
(* Vehicle::requestMessage: a REQUEST_MESSAGE command through the queue of *)
(* MavCommand, and a wait for the message it asks for.  The ack and the    *)
(* message may come in either order.  The vehicle has one slot for a wait, *)
(* whoever asked last; its timeout starts with an ack and is only looked   *)
(* at when some other message arrives.                                     *)
(***************************************************************************)
EXTENDS MavCommand

CONSTANTS
  MessageIds,      \* messages that can be asked for
  OtherMessage,    \* a message nobody asks for, a heartbeat say
  MessageTimeout   \* checks a wait lasts once acked

ASSUME RequestMessageAssumption ==
  /\ "REQUEST_MESSAGE" \in Commands
  /\ MessageTimeout \in Nat

VARIABLES
  infos,       \* RequestMessageInfo_t by id, those not deleted
  wait,        \* the wait slot: [id, msgId, timeoutActive, age]; id 0 is nobody
  replies,     \* results handed to requesters by the last step
  replied,     \* history: requesters that had an answer
  alone        \* history: nobody asked while another had no answer

vars == <<queue, infos, wait, replies, replied, alone>>

NoWait == [id |-> 0, msgId |-> OtherMessage, timeoutActive |-> FALSE, age |-> 0]

Reply(id, code, msgId) == [id |-> id, code |-> code, msgId |-> msgId]

NoMessage == "none"

Init ==
  /\ QueueInit
  /\ infos = [id \in {} |-> {}] /\ wait = NoWait
  /\ replies = {} /\ replied = {} /\ alone = TRUE

--------------------------------------------------------------------------------
(* Requesters and the slot, as the callbacks of one step pass them on.     *)
Requester(i, w, r) == [infos |-> i, wait |-> w, replies |-> r]

(* The requests among the results of a step.                               *)
Mine(s, told)     == {r \in told : r.id \in DOMAIN s.infos}
Failed(s, told)   == {r \in Mine(s, told) : r.result # "ACCEPTED"}
Accepted(s, told) == {r.id : r \in Mine(s, told) \ Failed(s, told)}
Complete(s, told) == {id \in Accepted(s, told) : s.infos[id].messageReceived}

FailureOf(code) ==
  CASE code = "CommandResultOnly"   -> "CommandError"
    [] code = "NoResponseToCommand" -> "CommandNotAcked"
    [] code = "DuplicateCommand"    -> "DuplicateCommand"

(* The requests have their ack: `freed' are deleted, `slot' is what the    *)
(* wait becomes.                                                           *)
Acknowledge(s, told, freed, slot) ==
  Requester(
    [id \in DOMAIN s.infos \ freed |->
       IF id \in {r.id : r \in told} THEN [s.infos[id] EXCEPT !.commandAckReceived = TRUE]
       ELSE s.infos[id]],
    slot,
    s.replies \cup {Reply(r.id, FailureOf(r.code), NoMessage) : r \in Failed(s, told)}
              \cup {Reply(id, "NoFailure", s.infos[id].message) : id \in Complete(s, told)})

(* Any failure empties the slot and any first ack starts its timeout,      *)
(* whoever the slot belongs to.                                            *)
SlotAfter(s, told) ==
  CASE Failed(s, told) # {} -> NoWait
    [] Failed(s, told) = {} /\ Accepted(s, told) # Complete(s, told) ->
         [s.wait EXCEPT !.timeoutActive = TRUE, !.age = 0]
    [] OTHER -> s.wait

(* Mutants of CmdResults: every info is freed; no timeout is started. *)
CmdResultsFreeingAll(s, told) ==
  Acknowledge(s, told, {r.id : r \in Mine(s, told)}, SlotAfter(s, told))

CmdResultsWithoutTimeout(s, told) ==
  Acknowledge(s, told, Complete(s, told), IF Failed(s, told) = {} THEN s.wait ELSE NoWait)

(* _requestMessageCmdResultHandler, entered in the state s: an info is     *)
(* only freed when the ack comes second.                                   *)
CmdResults(s, told) == Acknowledge(s, told, Complete(s, told), SlotAfter(s, told))

Expected(s, msgId) == s.wait.msgId = msgId

WaitIsOver(s, msgId) ==
  s.wait.id # 0 /\ (Expected(s, msgId) \/ (s.wait.timeoutActive /\ s.wait.age > MessageTimeout))

(* Mutant of EndWait: the requester is told before the ack as well. *)
EndWaitUnacked(s, msgId, received, slot, code) ==
  LET id == s.wait.id
  IN  Requester(
        [s.infos EXCEPT ![id].messageReceived = received, ![id].message = msgId],
        slot,
        s.replies \cup {Reply(id, code, msgId)})

(* The waiter is called with the message: at once if it has had the ack.   *)
EndWait(s, msgId, received, slot, code) ==
  LET id == s.wait.id
      acked == s.infos[id].commandAckReceived
  IN  Requester(
        [s.infos EXCEPT ![id].messageReceived = received,
                        ![id].message = IF acked THEN @ ELSE msgId],
        slot,
        s.replies \cup {r \in {Reply(id, code, msgId)} : acked})

(* Mutant of WaitReceives: a timeout is taken for the message. *)
WaitReceivesAnything(s, msgId) ==
  IF WaitIsOver(s, msgId) THEN EndWait(s, msgId, TRUE, NoWait, "NoFailure") ELSE s

(* _waitForMavlinkMessageMessageReceived: a wait that times out passes on  *)
(* the message that happened to arrive.                                    *)
WaitReceives(s, msgId) ==
  IF WaitIsOver(s, msgId)
    THEN EndWait(s, msgId, TRUE, NoWait, IF Expected(s, msgId) THEN "NoFailure" ELSE "MessageNotReceived")
    ELSE s

Now == Requester(infos, wait, {})

Becomes(s) ==
  /\ infos' = s.infos /\ wait' = s.wait /\ replies' = s.replies
  /\ replied' = replied \cup {r.id : r \in s.replies}

--------------------------------------------------------------------------------
Outstanding == DOMAIN infos \ replied

RequestMessageFrom(comp, msgId) ==
  /\ SendMavCommand(comp, "REQUEST_MESSAGE")
  /\ LET id    == calls + 1
         asked == [k \in DOMAIN infos \cup {id} |->
                     IF k = id THEN [msgId |-> msgId, commandAckReceived |-> FALSE,
                                     messageReceived |-> FALSE, message |-> NoMessage]
                     ELSE infos[k]]
         slot  == [id |-> id, msgId |-> msgId, timeoutActive |-> FALSE, age |-> 0]
     IN  Becomes(CmdResults(Requester(asked, slot, {}), results'))

OtherCommand(comp, command) ==
  SendMavCommand(comp, command) /\ Becomes(Now) /\ UNCHANGED alone

ReceiveMessage(msgId) ==
  /\ Quiet /\ UNCHANGED alone
  /\ Becomes(WaitReceives(Now, msgId))

(* Every message passes the slot first, a COMMAND_ACK like any other.      *)
ReceiveAck(comp, command, result) ==
  /\ HandleCommandAck(comp, command, result)
  /\ Becomes(CmdResults(WaitReceives(Now, OtherMessage), results'))
  /\ UNCHANGED alone

(* Time also passes for the slot. *)
TimerTick ==
  /\ ResponseTimeoutCheck
  /\ LET aged == [wait EXCEPT !.age = IF wait.timeoutActive /\ @ <= MessageTimeout THEN @ + 1 ELSE @]
     IN  Becomes(CmdResults(Requester(infos, aged, {}), results'))
  /\ UNCHANGED alone

LinkComesOrGoes == LinkChange /\ Becomes(Now) /\ UNCHANGED alone

Request ==
  /\ calls < MaxCalls
  /\ alone' = (alone /\ Outstanding = {})
  /\ \E comp \in Components, msgId \in MessageIds : RequestMessageFrom(comp, msgId)

Next ==
  \/ Request
  \/ /\ calls < MaxCalls
     /\ \E comp \in Components, command \in Commands \ {"REQUEST_MESSAGE"} : OtherCommand(comp, command)
  \/ \E msgId \in MessageIds \cup {OtherMessage} : ReceiveMessage(msgId)
  \/ \E comp \in Components, command \in Commands, result \in AckResults :
       ReceiveAck(comp, command, result)
  \/ TimerTick
  \/ LinkComesOrGoes

Spec == Init /\ [][Next]_vars

(* The vehicle keeps sending heartbeats. *)
FairSpec == Spec /\ WF_vars(TimerTick) /\ WF_vars(ReceiveMessage(OtherMessage))

--------------------------------------------------------------------------------
ReplyCodes == {"NoFailure", "CommandError", "CommandNotAcked", "MessageNotReceived", "DuplicateCommand"}

TypeOK ==
  /\ QueueTypeOK
  /\ \A id \in DOMAIN infos :
       infos[id] \in [msgId : MessageIds, commandAckReceived : BOOLEAN, messageReceived : BOOLEAN,
                      message : MessageIds \cup {OtherMessage, NoMessage}]
  /\ wait \in [id : Nat, msgId : MessageIds \cup {OtherMessage}, timeoutActive : BOOLEAN,
               age : 0 .. MessageTimeout + 1]
  /\ \A r \in replies : r.code \in ReplyCodes
  /\ replied \subseteq 1 .. calls

(* The callbacks hold raw pointers to infos that one of them deletes: what *)
(* the slot and the command list point to is never deleted, and the slot   *)
(* is never left to a requester that already has its answer.               *)
NoDanglingInfo ==
  /\ wait.id # 0 => wait.id \in DOMAIN infos \ replied
  /\ \A id \in DOMAIN commandList :
       commandList[id].command = "REQUEST_MESSAGE" => id \in DOMAIN infos \ replied

(* The ack, the message and both timeouts race to answer a requester: no   *)
(* callback is left with a deleted info, a requester has at most one       *)
(* answer, a step gives it no two, and if requesters wait for each other   *)
(* one told of no failure is given the message it asked for, whatever is   *)
(* late or lost (Vehicle.h:788, "Received message which was requested";    *)
(* _requestMessageCmdResultHandler, _waitForMavlinkMessageMessageReceived).*)
OneRightReplyEach ==
  [][ /\ NoDanglingInfo'
      /\ \A r \in replies' : r.id \notin replied
      /\ \A r, s \in replies' : r.id = s.id => r = s
      /\ \A r \in replies' : alone /\ r.code = "NoFailure" =>
           r.id \in DOMAIN infos /\ infos[r.id].msgId = r.msgId ]_vars

(* Every command ends, and every request that went out is answered in the  *)
(* end, if requesters wait for each other: the queue, the slot and its     *)
(* timeout hand it on without a gap (_requestMessageCmdResultHandler       *)
(* starts the timeout of the slot).                                        *)
EveryCallEnds ==
  /\ EveryCommandEnds
  /\ \A id \in 1 .. MaxCalls :
    (id \in DOMAIN commandList /\ commandList[id].command = "REQUEST_MESSAGE")
      ~> (id \in replied \/ ~alone)
================================================================================
