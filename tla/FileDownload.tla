------------------------------ MODULE FileDownload ------------------------------
(***************************************************************************)
(* What a user of the file transfer is promised: one download at a time,   *)
(* started by a call that succeeds, and ended by one completion, which     *)
(* reports success only if the local file is the one asked for.            *)
(***************************************************************************)
EXTENDS FiniteSets

CONSTANTS
  Names, NoFile,  \* what may be asked for
  Files,          \* the names of files
  Contents        \* what is in them

VARIABLES
  asked,          \* the file being downloaded, or NoFile
  local,          \* what is in the local file
  signals         \* the completions of the last step

Init == asked = NoFile /\ local = {} /\ signals = <<>>

Start ==
  /\ asked = NoFile
  /\ asked' \in Names
  /\ signals' = <<>>
  /\ UNCHANGED local

(* Data arrives in any order while a download goes on.                     *)
Receive ==
  /\ asked \in Files
  /\ local' \subseteq Contents[asked]
  /\ signals' = <<>>
  /\ UNCHANGED asked

Complete ==
  /\ asked # NoFile
  /\ asked' = NoFile
  /\ \/ /\ signals' = <<TRUE>>
        /\ asked \in Files /\ local = Contents[asked] /\ UNCHANGED local
     \/ signals' = <<FALSE>> /\ local' \subseteq local

Quiet == signals' = <<>> /\ UNCHANGED <<asked, local>>

Next == Start \/ Receive \/ Complete \/ Quiet

Spec == Init /\ [][Next]_<<asked, local, signals>>
================================================================================
