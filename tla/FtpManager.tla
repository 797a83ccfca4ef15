------------------------------- MODULE FtpManager -------------------------------
(***************************************************************************)
(* FTPManager: downloads a file of the vehicle in bursts, then fetches the *)
(* blocks that were lost one by one.  _rgStateMachine holds the steps of   *)
(* what goes on, and _currentStateMachineIndex the one it is at: here      *)
(* machine and step.  Steps that end within the call that enters them have *)
(* no name.  A handler's early returns are IgnoreReply; every function is  *)
(* one of states, because they call each other.                            *)
(***************************************************************************)
EXTENDS FtpProtocol

CONSTANTS
  MaxRetry,       \* _maxRetry
  CountMod,       \* counts of bytes are uint32: 2^32
  Starts          \* sequence numbers earlier traffic may have led to

ASSUME FtpManagerAssumption ==
  /\ MaxRetry \in Nat
  /\ CountMod \in Nat \ {0}
  /\ Starts \subseteq Seqs

Machines == {"none", "download", "terminate"}
Steps == {"idle", "open", "burst", "fill", "reset", "terminate"}

VARIABLES
  ftp,            \* the members of the class, and what a step does: the
                  \* requests it sends and the completions it signals
  link            \* the vehicle has a primary link

Idle(s) == [s EXCEPT !.sent = <<>>, !.completed = <<>>]
now == Idle(ftp)

FtpInit ==
  /\ ftp \in [machine : {"none"}, step : {"idle"}, expectedSeq : Starts, timer : {FALSE},
              path : {NoFile}, session : {0}, fileSize : {0}, expectedOffset : {0},
              bytesWritten : {0}, missing : {<<>>}, retryCount : {0},
              isOpen : {FALSE}, content : {{}}, sent : {<<>>}, completed : {<<>>}]
  /\ link = TRUE

InProgress(s) == s.fileSize > 0     \* DownloadState_t::inProgress
Busy == ftp.step # "idle"

--------------------------------------------------------------------------------
(* Mutant of SendRequestExpectAck: without a link the timer is not started *)
(* either.                                                                 *)
SendOnlyWithLink(s, op, file, offset) ==
  IF ~link THEN s
  ELSE [s EXCEPT
         !.timer = TRUE,
         !.expectedSeq = (@ + 2) % SeqRange,
         !.sent = Append(@, Request(op, (s.expectedSeq + 1) % SeqRange, file,
                                    IF op \in {"open", "reset"} THEN 0 ELSE s.session, offset))]

(* Outgoing numbers are one past the last incoming one.  Without a link    *)
(* nothing is sent and no number is used up; the timer runs all the same.  *)
SendRequestExpectAck(s, op, file, offset) ==
  IF ~link THEN [s EXCEPT !.timer = TRUE]
  ELSE [s EXCEPT
         !.timer = TRUE,
         !.expectedSeq = (@ + 2) % SeqRange,
         !.sent = Append(@, Request(op, (s.expectedSeq + 1) % SeqRange, file,
                                    IF op \in {"open", "reset"} THEN 0 ELSE s.session, offset))]

(* A retry is to use the number of the request it repeats.                 *)
Numbered(s, first) ==
  IF first THEN [s EXCEPT !.retryCount = 0]
  ELSE [s EXCEPT !.expectedSeq = (@ - 2) % SeqRange]

DownloadComplete(s, ok) ==
  [s EXCEPT !.timer = FALSE, !.machine = "none", !.step = "idle", !.isOpen = FALSE,
            !.content = IF s.isOpen /\ ~ok THEN {} ELSE @,
            !.completed = Append(@, ok)]

ResetSessionsBegin(s) ==
  SendRequestExpectAck([s EXCEPT !.step = "reset"], "reset", NoFile, 0)

FillMissingBlocksWorker(s, first) ==
  IF s.missing # <<>>
    THEN LET t == Numbered(s, first)
             o == Head(s.missing).offset
         IN  SendRequestExpectAck([t EXCEPT !.expectedOffset = o], "read", NoFile, o)
    ELSE IF s.bytesWritten = s.fileSize
           THEN ResetSessionsBegin(s)
           ELSE DownloadComplete(s, FALSE)

BurstReadFileWorker(s, first) ==
  SendRequestExpectAck(Numbered(s, first), "burst", NoFile, s.expectedOffset)

TerminateSessionBegin(s) == SendRequestExpectAck(s, "terminate", NoFile, 0)

--------------------------------------------------------------------------------
(* What the users of the manager do.                                       *)

Reset(s) ==
  [s EXCEPT !.session = 0, !.expectedOffset = 0, !.bytesWritten = 0, !.retryCount = 0,
            !.fileSize = 0, !.path = NoFile, !.missing = <<>>, !.isOpen = FALSE]

(* Mutant of Download: another operation is not looked for. *)
DownloadInAnyCase(f) ==
  ftp' = SendRequestExpectAck(
           [Reset(now) EXCEPT !.machine = "download", !.step = "open", !.path = f],
           "open", f, 0)

Download(f) ==
  /\ ftp.machine = "none"
  /\ ftp' = SendRequestExpectAck(
              [Reset(now) EXCEPT !.machine = "download", !.step = "open", !.path = f],
              "open", f, 0)

(* The state machine is filled before the URI is found to be wrong.        *)
DownloadBadUri ==
  /\ ftp.machine = "none"
  /\ ftp' = [Reset(now) EXCEPT !.machine = "download"]

Cancel ==
  /\ InProgress(ftp)
  /\ ftp' = TerminateSessionBegin(
              [now EXCEPT !.machine = "terminate", !.step = "terminate", !.retryCount = 0])

--------------------------------------------------------------------------------
(* Replies of the vehicle.  A number just before the expected one, or up   *)
(* to half the range before it, is that of an old packet.                  *)
Old(r) == (ftp.expectedSeq - 1 - r.seq) % SeqRange < (SeqRange - 1) \div 2

Operation ==
  [open |-> "open", burst |-> "burst", fill |-> "read", reset |-> "reset", terminate |-> "terminate"]

InSession(r) == ftp.step \in {"burst", "fill"} => r.session = ftp.session

(* A reply for the step the manager is at.  In a burst the numbers of the  *)
(* replies are looked at later, when the timer has been stopped.           *)
Heeded(r) ==
  /\ Busy /\ ~Old(r)
  /\ r.op = Operation[ftp.step]
  /\ InSession(r)
  /\ ftp.step = "burst" \/ r.seq = ftp.expectedSeq

Stopped == [now EXCEPT !.timer = FALSE]

IgnoreReply(r) == ~Heeded(r) /\ ftp' = now

(* An ack of the wrong size, before anything is noted, ends it like a nak: *)
(* ack says that the reply is one of the right size.                       *)
OpenFileROAckOrNak(r, disk) ==
  /\ Heeded(r) /\ ftp.step = "open"
  /\ LET opened == [Stopped EXCEPT !.session = r.session, !.fileSize = r.size,
                                   !.expectedOffset = 0]
     IN  ftp' = CASE r.ack /\ disk ->
                       BurstReadFileWorker([opened EXCEPT !.step = "burst", !.isOpen = TRUE,
                                                          !.content = {}], TRUE)
                  [] r.ack /\ ~disk -> DownloadComplete(opened, FALSE)
                  [] ~r.ack -> DownloadComplete(Stopped, FALSE)

(* Writes the data of a reply.                                             *)
Write(s, r) ==
  [s EXCEPT !.content = @ \cup ({r.file} \X Positions(r.offset, r.size)),
            !.bytesWritten = @ + r.size]

(* Mutant of RecordHole: what is missing is as long as what came. *)
RecordHoleOfSize(s, r) ==
  IF r.offset > s.expectedOffset
    THEN [s EXCEPT !.missing = Append(@, [offset |-> s.expectedOffset, count |-> r.size])]
    ELSE s

RecordHole(s, r) ==
  IF r.offset > s.expectedOffset
    THEN [s EXCEPT !.missing = Append(@, [offset |-> s.expectedOffset,
                                          count  |-> r.offset - s.expectedOffset])]
    ELSE s

BurstData(r) ==
  LET written == [Write(RecordHole(Stopped, r), r) EXCEPT !.expectedOffset = r.offset + r.size]
  IN  IF r.burstComplete
        THEN BurstReadFileWorker([written EXCEPT !.expectedSeq = r.seq], TRUE)
        ELSE [written EXCEPT !.expectedSeq = (r.seq + 1) % SeqRange, !.timer = TRUE]

(* The timer is stopped before the number of the reply is looked at.       *)
BurstReadFileAckOrNak(r, disk) ==
  /\ Heeded(r) /\ ftp.step = "burst"
  /\ \/ /\ IF r.ack THEN r.seq < ftp.expectedSeq ELSE r.seq # ftp.expectedSeq
        /\ ftp' = Stopped
     \/ /\ r.ack /\ r.seq >= ftp.expectedSeq
        /\ ftp' = CASE r.offset < ftp.expectedOffset -> [Stopped EXCEPT !.timer = TRUE]
                    [] r.offset >= ftp.expectedOffset /\ disk -> BurstData(r)
                    [] r.offset >= ftp.expectedOffset /\ ~disk ->
                         DownloadComplete(RecordHole(Stopped, r), FALSE)
     \/ /\ ~r.ack /\ r.seq = ftp.expectedSeq
        /\ ftp' = IF r.eof THEN FillMissingBlocksWorker([Stopped EXCEPT !.step = "fill"], TRUE)
                    ELSE DownloadComplete(Stopped, FALSE)

(* The count wraps when a reply holds more than is missing.                *)
FillHole(s, r) ==
  LET hole == Head(s.missing)
  IN  [s EXCEPT !.missing =
         IF hole.count = r.size THEN Tail(@)
         ELSE <<[offset |-> hole.offset + r.size,
                 count  |-> (hole.count - r.size) % CountMod]>> \o Tail(@)]

(* An end of file counts as success once every byte is there.              *)
FillMissingBlocksAckOrNak(r, disk) ==
  /\ Heeded(r) /\ ftp.step = "fill"
  /\ \/ /\ r.ack /\ r.offset # ftp.expectedOffset
        /\ ftp' = LET t == [Stopped EXCEPT !.retryCount = @ + 1]
                  IN  IF t.retryCount > MaxRetry THEN DownloadComplete(t, FALSE)
                        ELSE FillMissingBlocksWorker(t, FALSE)
     \/ /\ r.ack /\ r.offset = ftp.expectedOffset
        /\ ftp' = IF disk THEN FillMissingBlocksWorker(FillHole(Write(Stopped, r), r), TRUE)
                    ELSE DownloadComplete(Stopped, FALSE)
     \/ /\ ~r.ack
        /\ ftp' = IF r.eof /\ ftp.bytesWritten = ftp.fileSize
                    THEN ResetSessionsBegin(Stopped)
                    ELSE DownloadComplete(Stopped, FALSE)

(* The file is there: neither outcome of the reset is an error.            *)
ResetSessionsAckOrNak(r) ==
  Heeded(r) /\ ftp.step = "reset" /\ ftp' = DownloadComplete(Stopped, TRUE)

TerminateSessionAckOrNak(r) ==
  Heeded(r) /\ ftp.step = "terminate" /\ ftp' = DownloadComplete(Stopped, FALSE)

(* disk says whether opening and writing the local file succeed.           *)
MessageReceived(r, disk) ==
  \/ IgnoreReply(r)
  \/ OpenFileROAckOrNak(r, disk)
  \/ BurstReadFileAckOrNak(r, disk)
  \/ FillMissingBlocksAckOrNak(r, disk)
  \/ ResetSessionsAckOrNak(r)
  \/ TerminateSessionAckOrNak(r)

--------------------------------------------------------------------------------
(* The single-shot timer.  Opening a file is not retried, and neither is   *)
(* the reset; the terminate is, with a new number.                         *)

(* Mutant of Spent: one try too few. *)
OneTryLess(s) == s.retryCount >= MaxRetry

Spent(s) == s.retryCount > MaxRetry

Repeat(s) ==
  CASE s.step = "burst"     -> BurstReadFileWorker(s, FALSE)
    [] s.step = "fill"      -> FillMissingBlocksWorker(s, FALSE)
    [] s.step = "terminate" -> TerminateSessionBegin(s)

AckOrNakTimeout ==
  /\ ftp.timer
  /\ LET fired == Stopped
         again == [fired EXCEPT !.retryCount = @ + 1]
     IN  ftp' = CASE ftp.step = "open"  -> DownloadComplete(fired, FALSE)
                  [] ftp.step = "reset" -> DownloadComplete(fired, TRUE)
                  [] ftp.step \in {"burst", "fill", "terminate"} ->
                       IF Spent(again) THEN DownloadComplete(again, FALSE)
                         ELSE Repeat(again)
================================================================================
