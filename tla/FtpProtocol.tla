------------------------------- MODULE FtpProtocol -------------------------------
(***************************************************************************)
(* The MAVLink file transfer protocol, as far as a download uses it:       *)
(* requests of the ground station and replies of the vehicle.  Contents    *)
(* are ranges of positions in a file; a packet holds up to DataSize of     *)
(* them.                                                                   *)
(***************************************************************************)
EXTENDS Integers, Sequences, FiniteSets

CONSTANTS
  Files,          \* the files of the vehicle
  Size,           \* their sizes
  NoFile,         \* a request that names no file
  DataSize,       \* sizeof(Request::data)
  SeqRange          \* sequence numbers are uint16: 65536

ASSUME FtpProtocolAssumption ==
  /\ Size \in [Files -> Nat]
  /\ NoFile \notin Files
  /\ DataSize \in Nat \ {0}
  /\ SeqRange \in Nat \ {0}

Seqs == 0 .. SeqRange - 1
Operations == {"open", "burst", "read", "reset", "terminate"}

Request(op, seq, file, session, offset) ==
  [op |-> op, seq |-> seq, file |-> file, session |-> session, offset |-> offset]

(* file stands for the contents of the data; the size of an answer to an   *)
(* open request is the length of the file.                                 *)
Ack(op, seq, session, file, offset, size, complete) ==
  [ack |-> TRUE, op |-> op, seq |-> seq, session |-> session, file |-> file,
   offset |-> offset, size |-> size, burstComplete |-> complete, eof |-> FALSE]

Nak(op, seq, session, eof) ==
  [ack |-> FALSE, op |-> op, seq |-> seq, session |-> session, file |-> NoFile,
   offset |-> 0, size |-> 1, burstComplete |-> FALSE, eof |-> eof]

LesserOf(a, b) == IF a < b THEN a ELSE b
Positions(offset, size) == offset .. offset + size - 1
================================================================================
