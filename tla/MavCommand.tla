------------------------------- MODULE MavCommand -------------------------------
(***************************************************************************)
(* The command queue of Vehicle: commands sent to a component of the       *)
(* vehicle wait for its COMMAND_ACK, a few are sent again when none comes, *)
(* and each caller is told a result.                                       *)
(*                                                                         *)
(* Commands get increasing ids, so that the list of entries, only ever     *)
(* appended to and searched from its front, is a function on the ids still *)
(* waiting.  Time is counted in firings of the 500 ms check timer.  The    *)
(* vehicle may ack any command at any moment.  Left out: parameters, error *)
(* boxes, what acks do outside the queue, and the resend exception for     *)
(* START_RX_PAIR, a command that is never resent.                          *)
(***************************************************************************)
EXTENDS Integers, Functions

CONSTANTS
  Components,      \* component ids, the broadcast id among them
  AllComponents,   \* MAV_COMP_ID_ALL
  Commands,
  Retried,         \* the commands of _sendMavCommandShouldRetry
  Duplicable,      \* the commands of _commandCanBeDuplicated
  MaxTries,        \* _mavCommandMaxRetryCount
  AckTimeout,      \* checks an entry waits before it is looked at again
  MaxCalls         \* bound on the commands submitted

ASSUME MavCommandAssumption ==
  /\ AllComponents \in Components
  /\ Retried \subseteq Commands /\ Duplicable \subseteq Commands
  /\ MaxTries \in Nat \ {0}
  /\ AckTimeout \in Nat
  /\ MaxCalls \in Nat

VARIABLES
  commandList,   \* _mavCommandList: function from ids to entries
  calls,         \* commands submitted so far: the last id given
  linkUp,        \* the primary link is there
  results,       \* results handed to callers by the last step
  answered,      \* history: ids whose caller was told a result
  dropped,       \* history: ids submitted while there was no primary link
  transmitted    \* history: how often each command was put on the link

queue == <<commandList, calls, linkUp, results, answered, dropped, transmitted>>

AckResults == {"ACCEPTED", "FAILED", "IN_PROGRESS"}
FailureCodes == {"CommandResultOnly", "NoResponseToCommand", "DuplicateCommand"}

Result(id, result, code) == [id |-> id, result |-> result, code |-> code]

(* The age is that of the first transmission: no resend starts it again.   *)
Entries == [comp : Components, command : Commands, tryCount : Nat, age : Nat]

QueueInit ==
  /\ commandList = [id \in {} |-> {}]
  /\ calls = 0 /\ linkUp = TRUE /\ results = {}
  /\ answered = {} /\ dropped = {} /\ transmitted = [id \in {} |-> 0]

MaxTriesOf(command) == IF command \in Retried THEN MaxTries ELSE 1

Pending(comp, command) ==
  {id \in DOMAIN commandList : commandList[id].comp = comp /\ commandList[id].command = command}

(* The callers of `ids' are told this result, and nobody else one. *)
Tell(ids, result, code) ==
  /\ results' = {Result(id, result, code) : id \in ids}
  /\ answered' = answered \cup ids

TellNobody == results' = {} /\ UNCHANGED answered

--------------------------------------------------------------------------------
(* Appended to the list and put on the link. *)
Enlist(id, comp, command) ==
  /\ commandList' = [k \in DOMAIN commandList \cup {id} |->
       IF k = id THEN [comp |-> comp, command |-> command, tryCount |-> 1, age |-> 0]
       ELSE commandList[k]]
  /\ transmitted' = [k \in DOMAIN transmitted \cup {id} |-> IF k = id THEN 1 ELSE transmitted[k]]

(* _sendMavCommandWorker *)
SendMavCommand(comp, command) ==
  LET id        == calls + 1
      broadcast == comp = AllComponents
      duplicate == Pending(comp, command) # {} /\ command \notin Duplicable
  IN  /\ calls' = id
      /\ UNCHANGED linkUp
      /\ \/ /\ broadcast \/ duplicate
            /\ Tell({id}, "FAILED", IF broadcast THEN "CommandResultOnly" ELSE "DuplicateCommand")
            /\ UNCHANGED <<commandList, dropped, transmitted>>
         \/ /\ ~(broadcast \/ duplicate) /\ ~linkUp
            /\ TellNobody
            /\ dropped' = dropped \cup {id}
            /\ UNCHANGED <<commandList, transmitted>>
         \/ /\ ~(broadcast \/ duplicate) /\ linkUp
            /\ TellNobody
            /\ Enlist(id, comp, command)
            /\ UNCHANGED dropped

Oldest(ids) == {id \in ids : \A k \in ids : id <= k}

(* _handleCommandAck: the oldest entry for the command, if there is one,   *)
(* whatever the result, IN_PROGRESS included.                              *)
HandleCommandAck(comp, command, result) ==
  LET acked == Oldest(Pending(comp, command))
  IN  /\ commandList' = Restrict(commandList, DOMAIN commandList \ acked)
      /\ Tell(acked, result, "CommandResultOnly")
      /\ UNCHANGED <<calls, linkUp, dropped, transmitted>>

Late == {id \in DOMAIN commandList : commandList[id].age >= AckTimeout}

Spent == {id \in Late : commandList[id].tryCount >= MaxTriesOf(commandList[id].command)}

(* A count that matters up to `limit' only. *)
CountTo(limit, n) == IF n < limit THEN n + 1 ELSE n

(* 500 ms have passed: `spent' leave the list, `tried' count a try and     *)
(* `resent' go out on the link.  The timer of a late entry stays late.     *)
Check(spent, tried, resent) ==
  /\ commandList' = [id \in DOMAIN commandList \ spent |->
       [commandList[id] EXCEPT !.age = CountTo(AckTimeout, @),
                               !.tryCount = IF id \in tried THEN @ + 1 ELSE @]]
  /\ transmitted' = [id \in DOMAIN transmitted |->
       IF id \in resent THEN transmitted[id] + 1 ELSE transmitted[id]]
  /\ UNCHANGED <<calls, linkUp, dropped>>

GiveUp(ids) == Tell(ids, "FAILED", "NoResponseToCommand")

WithLink(ids) == {id \in ids : linkUp}

(* Mutants of ResponseTimeoutCheck: every command tried again; nobody told *)
(* of the end.                                                             *)
CheckTryingAll ==
  LET spent == {id \in Late : commandList[id].tryCount >= MaxTries}
  IN  Check(spent, Late \ spent, WithLink(Late \ spent)) /\ GiveUp(spent)

CheckGivingUpSilently ==
  Check(Spent, Late \ Spent, WithLink(Late \ Spent)) /\ TellNobody

(* _sendMavCommandResponseTimeoutCheck.  A try counts even if there is no  *)
(* link to send it on.                                                     *)
ResponseTimeoutCheck ==
  Check(Spent, Late \ Spent, WithLink(Late \ Spent)) /\ GiveUp(Spent)

(* The primary link is lost or found. *)
LinkChange ==
  /\ linkUp' = ~linkUp
  /\ TellNobody
  /\ UNCHANGED <<commandList, calls, dropped, transmitted>>

(* Something else happens, and no caller hears of it. *)
Quiet == TellNobody /\ UNCHANGED <<commandList, calls, linkUp, dropped, transmitted>>

--------------------------------------------------------------------------------
Submit == \E comp \in Components, command \in Commands : SendMavCommand(comp, command)

Acked ==
  \E comp \in Components, command \in Commands, result \in AckResults :
    HandleCommandAck(comp, command, result)

QueueNext ==
  \/ calls < MaxCalls /\ Submit
  \/ Acked
  \/ ResponseTimeoutCheck
  \/ LinkChange
  \/ Quiet

QueueSpec == QueueInit /\ [][QueueNext]_queue

--------------------------------------------------------------------------------
(* An entry is tried at most MaxTries times, a command outside the retry   *)
(* list once.                                                              *)
QueueTypeOK ==
  /\ \A id \in DOMAIN commandList :
       /\ commandList[id] \in Entries
       /\ commandList[id].tryCount \in 1 .. MaxTriesOf(commandList[id].command)
  /\ calls \in Nat /\ linkUp \in BOOLEAN
  /\ \A r \in results : r.result \in AckResults /\ r.code \in FailureCodes
  /\ \A id \in DOMAIN transmitted : transmitted[id] \in 1 .. MaxTries

(* Every command submitted is, at any time, exactly one of: waiting,       *)
(* answered, or dropped for want of a link.  No caller is forgotten and    *)
(* none is told twice (_sendMavCommandWorker, _sendMavCommandFromList,     *)
(* _handleCommandAck).                                                     *)
EachCallIsAccounted ==
  /\ DOMAIN commandList \cup answered \cup dropped = 1 .. calls
  /\ DOMAIN commandList \cap answered = {}
  /\ dropped \cap (DOMAIN commandList \cup answered) = {}

(* No caller is told a second result, of an ack or of a timeout, and no    *)
(* step tells one caller two.                                              *)
OneResultEach ==
  [][ /\ \A r \in results' : r.id \notin answered
      /\ \A r, s \in results' : r.id = s.id => r = s ]_queue

(* Vehicle.cc:2956, "there is no way to discern which COMMAND_ACK we get   *)
(* back goes with which": an ack always has one entry it can be for.       *)
AcksAreUnambiguous ==
  \A i, j \in DOMAIN commandList :
    (commandList[i].comp = commandList[j].comp /\ commandList[i].command = commandList[j].command)
      => i = j \/ commandList[i].command \in Duplicable

(* Vehicle.cc:2917: a command that is not on the retry list is never put   *)
(* on the link a second time, and then not after its caller was told.      *)
NoDelayedCommand ==
  [][ \A id \in DOMAIN transmitted :
        transmitted'[id] # transmitted[id] =>
          /\ id \in DOMAIN commandList /\ commandList[id].command \in Retried
          /\ id \notin answered' ]_queue

(* Every command is answered or given up in the end, link or no link       *)
(* (_sendMavCommandResponseTimeoutCheck).                                  *)
EveryCommandEnds ==
  \A id \in 1 .. MaxCalls : id \in DOMAIN commandList ~> id \notin DOMAIN commandList
================================================================================
