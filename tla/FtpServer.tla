-------------------------------- MODULE FtpServer --------------------------------
(***************************************************************************)
(* MockLinkFTP: the vehicle's half of the file transfer, with the failure  *)
(* modes of the unit tests.  Listing directories is left out: nothing in   *)
(* the station asks for it.                                                *)
(***************************************************************************)
EXTENDS FtpProtocol

CONSTANTS
  BurstMax,       \* packets of a burst: 9 (burstCount runs from 1 to burstMax = 10)
  ErrModes        \* the failure modes a test may select

VARIABLES
  currentFile,    \* the file open for reading
  lastReply,      \* _lastReply, repeated when its request comes again
  errMode,
  toStation       \* replies on their way to the ground station

server == <<currentFile, lastReply, errMode>>

SessionId == 1
NoReply == <<>>

ServerInit ==
  /\ currentFile = NoFile
  /\ lastReply = NoReply
  /\ errMode \in ErrModes
  /\ toStation = <<>>

Bump == IF errMode = "badSequence" THEN 2 ELSE 1
NextSeq(seq) == (seq + Bump) % SeqRange

(* A closed file has no bytes.                                             *)
CurrentSize == IF currentFile = NoFile THEN 0 ELSE Size[currentFile]

Reply(rs) ==
  /\ toStation' = toStation \o rs
  /\ lastReply' = <<rs[Len(rs)]>>

SendNak(m, eof) == Reply(<<Nak(m.op, NextSeq(m.seq), SessionId, eof)>>)
SendAck(m) == Reply(<<Ack(m.op, NextSeq(m.seq), SessionId, NoFile, 0, 0, FALSE)>>)

OpenCommand(m) ==
  /\ m.op = "open"
  /\ IF m.file \in Files
       THEN /\ currentFile' = m.file
            /\ Reply(<<Ack("open", NextSeq(m.seq), SessionId, NoFile, 0, Size[m.file], FALSE)>>)
       ELSE /\ currentFile' = NoFile
            /\ SendNak(m, FALSE)

(* The size asked for is not looked at: a reply is as long as it can be.   *)
Data(m, seq, offset, complete) ==
  Ack(m.op, seq, SessionId, currentFile, offset,
      LesserOf(DataSize, CurrentSize - offset), complete)

ReadCommand(m) ==
  /\ m.op = "read"
  /\ CASE m.session # SessionId -> SendNak(m, FALSE)
       [] m.session = SessionId /\ m.offset # 0 /\ errMode = "nakSecondResponse" ->
            SendNak(m, FALSE)
       [] m.session = SessionId /\ m.offset # 0 /\ errMode = "noSecondResponse" ->
            UNCHANGED <<lastReply, toStation>>
       [] OTHER ->
            IF m.offset >= CurrentSize THEN SendNak(m, TRUE)
              ELSE Reply(<<Data(m, NextSeq(m.seq), m.offset, FALSE)>>)
  /\ UNCHANGED currentFile

(* The packets of a burst, and the end of the file when it reaches it.     *)
Burst(m) ==
  LET left  == LesserOf(BurstMax, (CurrentSize - m.offset + DataSize - 1) \div DataSize)
      count == IF m.offset >= CurrentSize THEN 0 ELSE left
      seq(n) == (m.seq + Bump * (n + 1)) % SeqRange
      packets == [n \in 1 .. count |->
                    Data(m, seq(n - 1), m.offset + (n - 1) * DataSize, n = BurstMax)]
      atEnd == m.offset + count * DataSize >= CurrentSize
  IN  packets \o IF atEnd THEN <<Nak(m.op, seq(count), SessionId, TRUE)>> ELSE <<>>

BurstReadCommand(m) ==
  /\ m.op = "burst"
  /\ IF m.session # SessionId THEN SendNak(m, FALSE) ELSE Reply(Burst(m))
  /\ UNCHANGED currentFile

TerminateCommand(m) ==
  /\ m.op = "terminate"
  /\ IF m.session # SessionId THEN SendNak(m, FALSE) ELSE SendAck(m)
  /\ UNCHANGED currentFile

ResetCommand(m) ==
  /\ m.op = "reset"
  /\ currentFile' = NoFile
  /\ SendAck(m)

(* The request of the last reply again: the reply was lost.  The           *)
(* subtraction is one of integers and does not wrap.                       *)
Repeated(m) == lastReply # NoReply /\ m.seq = lastReply[1].seq - 1

ServerReceives(m) ==
  /\ IF Repeated(m)
       THEN toStation' = toStation \o lastReply /\ UNCHANGED <<currentFile, lastReply>>
       ELSE IF m.op \notin {"reset", "terminate"} /\ errMode = "noResponse"
              THEN UNCHANGED <<currentFile, lastReply, toStation>>
       ELSE IF m.op \notin {"reset", "terminate"} /\ errMode = "nakResponse"
              THEN SendNak(m, FALSE) /\ UNCHANGED currentFile
       ELSE \/ OpenCommand(m)
            \/ ReadCommand(m)
            \/ BurstReadCommand(m)
            \/ TerminateCommand(m)
            \/ ResetCommand(m)
  /\ UNCHANGED errMode
================================================================================
