------------------------------ MODULE LogDownload ------------------------------
(***************************************************************************)
(* LogDownloadController: lists the logs of the active vehicle and saves   *)
(* those the user selects.  The controller is a record that each handler   *)
(* maps to its next value:                                                 *)
(*   entries      _logEntriesModel, by index                               *)
(*   data         _downloadData: the log being saved.  Offsets and sizes   *)
(*                count bins, the payloads of LOG_DATA                     *)
(*   unwatched    vehicles whose link manager has communicationLostEnabled *)
(*                cleared                                                  *)
(*   out          what the step sends to the vehicle                       *)
(*   died         a null vehicle was dereferenced: the program is no more  *)
(*   saved, torn, refused, cut  history: the last file reported downloaded; *)
(*                a write to the file at hand failed; a file of the download *)
(*                could not be created, or a place in it not found; the     *)
(*                list was cancelled                                       *)
(* The rate and the progress shown in the status are left out.             *)
(***************************************************************************)
EXTENDS Integers, Sequences, FiniteSets

CONSTANTS
    Vehicles,
    NoVehicle,      \* the null _vehicle
    ApmVehicles,    \* those whose firmwareType is ArduPilot
    TableBins,      \* kTableBins, the bins of a chunk
    ListRetries     \* repeats of a list request before giving up

ASSUME LogVehicles == NoVehicle \notin Vehicles /\ ApmVehicles \subseteq Vehicles
ASSUME LogBounds == TableBins \in Nat \ {0} /\ ListRetries \in Nat

NoData == [ id |-> -1 ]
NothingSaved == [ id |-> -1 ]

NewEntry == [ size |-> 0, received |-> FALSE, selected |-> FALSE, status |-> "Pending" ]

NewController(v) ==
    [ vehicle |-> v, entries |-> << >>, data |-> NoData, freed |-> FALSE, timer |-> FALSE,
      listing |-> FALSE, downloading |-> FALSE, retries |-> 0, apmOneBased |-> 0,
      unwatched |-> {}, out |-> << >>, died |-> FALSE, saved |-> NothingSaved, torn |-> FALSE,
      refused |-> FALSE, cut |-> FALSE ]

\* A conversation with the vehicle is under way.
Busy(s) == s.listing \/ s.downloading

Send(s, message) == [s EXCEPT !.out = Append(@, message)]

(***************************************************************************)
(* Flags, and the loss detection that is off while one of them is set.     *)
(***************************************************************************)
SetWatched(s, watched) ==
    IF s.vehicle = NoVehicle THEN [s EXCEPT !.died = TRUE]
    ELSE [s EXCEPT !.unwatched = IF watched THEN @ \ {s.vehicle} ELSE @ \cup {s.vehicle}]

SetListing(s, active) ==
    IF s.listing = active THEN s ELSE SetWatched([s EXCEPT !.listing = active], ~active)

SetDownloading(s, active) ==
    IF s.downloading = active THEN s ELSE SetWatched([s EXCEPT !.downloading = active], ~active)

(***************************************************************************)
(* Listing.                                                                *)
(***************************************************************************)
RequestLogList(s, start, end) ==
    IF s.vehicle = NoVehicle THEN s
    ELSE Send([SetListing(s, TRUE) EXCEPT !.timer = TRUE],
              [kind |-> "list", start |-> start, end |-> end])

\* Mutant of ReceivedAllEntries: the flag is cleared without a word to the link manager.
ReceivedAllEntriesQuietly(s) == [s EXCEPT !.timer = FALSE, !.listing = FALSE]

ReceivedAllEntries(s) == SetListing([s EXCEPT !.timer = FALSE], FALSE)

\* Mutant of Missing: the last entry of the list is not looked at.
MissingButLast(s) == {i \in DOMAIN s.entries : ~s.entries[i].received /\ i + 1 \in DOMAIN s.entries}

Missing(s) == {i \in DOMAIN s.entries : ~s.entries[i].received}

\* ArduPilot counts its logs from one.
EntryIndex(s, m) == m.id - s.apmOneBased

\* A LOG_ENTRY: m.num logs in all, and the size of log m.id.
LogEntry(s, from, m) ==
    IF from # s.vehicle \/ ~s.listing THEN s
    ELSE LET apm    == s.vehicle \in ApmVehicles
             filled == IF s.entries # << >> \/ m.num = 0 THEN s
                       ELSE [s EXCEPT !.apmOneBased = IF apm THEN 1 ELSE @,
                                      !.entries = [i \in 0 .. m.num - 1 |-> NewEntry]]
             id     == EntryIndex(filled, m)
             listed == IF m.num = 0 THEN ReceivedAllEntries(filled)
                       ELSE IF (m.size = 0 /\ apm) \/ id \notin DOMAIN filled.entries THEN filled
                       ELSE [filled EXCEPT !.entries[id].size = m.size,
                                           !.entries[id].received = TRUE,
                                           !.entries[id].status = "Available"]
             reset  == [listed EXCEPT !.retries = 0]
         IN  IF Missing(reset) = {} THEN ReceivedAllEntries(reset)
             ELSE [reset EXCEPT !.timer = TRUE]

\* The first gap in the list is asked for again, a few times.
FindMissingEntries(s) ==
    IF Missing(s) = {} THEN ReceivedAllEntries(s)
    ELSE LET start   == CHOOSE i \in Missing(s) : \A j \in Missing(s) : i <= j
             end     == CHOOSE i \in Missing(s) :
                            start .. i \subseteq Missing(s) /\ i + 1 \notin Missing(s)
             counted == [s EXCEPT !.retries = IF @ > ListRetries THEN @ ELSE @ + 1]
         IN  IF s.retries > ListRetries
             THEN ReceivedAllEntries(
                    [counted EXCEPT !.entries = [i \in DOMAIN @ |->
                        IF @[i].received THEN @[i] ELSE [@[i] EXCEPT !.status = "Error"]]])
             ELSE RequestLogList(counted, start + s.apmOneBased, end + s.apmOneBased)

Refresh(s) ==
    RequestLogList([s EXCEPT !.entries = << >>, !.refused = FALSE, !.cut = FALSE], 0, 49)

EraseAll(s) == IF s.vehicle = NoVehicle THEN s ELSE Refresh(Send(s, [kind |-> "erase"]))

(***************************************************************************)
(* Downloading.  size is what the entry of the log says, read through a    *)
(* pointer that outlives it.                                               *)
(***************************************************************************)
Least(a, b) == IF a <= b THEN a ELSE b

\* Unsigned: past the end of the log the difference wraps to a large number.
ChunkBins(size, chunk) ==
    IF chunk * TableBins > size THEN TableBins ELSE Least(size - chunk * TableBins, TableBins)

NumChunks(size) == (size + TableBins - 1) \div TableBins

AdvanceChunk(s, size) ==
    [s EXCEPT !.data.chunk = @ + 1, !.data.got = {},
              !.data.table = ChunkBins(size, s.data.chunk + 1)]

ChunkComplete(s) == s.data.got = 0 .. s.data.table - 1

LogComplete(s, size) == ChunkComplete(s) /\ s.data.chunk + 1 = NumChunks(size)

RequestLogData(s, id, offset, count) ==
    IF s.vehicle = NoVehicle THEN s
    ELSE Send(s, [kind |-> "data", id |-> id + s.apmOneBased, ofs |-> offset, count |-> count])

RequestChunk(s) == RequestLogData(s, s.data.id, s.data.chunk * TableBins, s.data.table)

SetStatus(s, status) ==
    IF s.freed THEN s ELSE [s EXCEPT !.entries[s.data.id].status = status]

ResetSelection(s, canceled) ==
    [s EXCEPT !.entries = [i \in DOMAIN s.entries |->
        LET e == s.entries[i]
        IN  IF ~e.selected THEN e
            ELSE [e EXCEPT !.selected = FALSE,
                           !.status = IF canceled THEN "Canceled" ELSE e.status]]]

Selected(s) == {i \in DOMAIN s.entries : s.entries[i].selected}

NoDownload(s) == [s EXCEPT !.data = NoData, !.freed = FALSE, !.torn = FALSE]

\* The next selected log, if its file can be created; there is data afterwards if so.
PrepareLogDownload(s, created) ==
    IF Selected(s) = {} THEN NoDownload(s)
    ELSE LET id     == CHOOSE i \in Selected(s) : \A j \in Selected(s) : i <= j
             picked == [NoDownload(s) EXCEPT !.entries[id].selected = FALSE]
         IN  IF ~created THEN [picked EXCEPT !.entries[id].status = "Error", !.refused = TRUE]
             ELSE [picked EXCEPT !.data =
                    [ id |-> id, chunk |-> 0, got |-> {}, file |-> {},
                      table |-> ChunkBins(s.entries[id].size, 0) ]]

\* Mutant of ReceivedAllData: the timer is not started again for the next log.
ReceivedAllDataUntimed(s, created) ==
    LET next == PrepareLogDownload([s EXCEPT !.timer = FALSE], created)
    IN  IF next.data # NoData THEN RequestChunk(next)
        ELSE SetDownloading(ResetSelection(next, FALSE), FALSE)

ReceivedAllData(s, created) ==
    LET next == PrepareLogDownload([s EXCEPT !.timer = FALSE], created)
    IN  IF next.data # NoData THEN RequestChunk([next EXCEPT !.timer = TRUE])
        ELSE SetDownloading(ResetSelection(next, FALSE), FALSE)

\* The first gap of the chunk is asked for again, for ever.
FindMissingData(s, size, created) ==
    IF LogComplete(s, size) THEN ReceivedAllData(s, created)
    ELSE LET next  == IF ChunkComplete(s) THEN AdvanceChunk(s, size) ELSE s
             d     == [next EXCEPT !.retries = IF @ > ListRetries THEN @ ELSE @ + 1]
             holes == (0 .. d.data.table) \ d.data.got
             start == CHOOSE i \in holes : \A j \in holes : i <= j
             stops == {i \in start .. d.data.table : i \in d.data.got \/ i = d.data.table}
             end   == CHOOSE i \in stops : \A j \in stops : i <= j
         IN  RequestLogData(d, d.data.id, d.data.chunk * TableBins + start, end - start)

\* Mutant of InChunk: an answer to an earlier request is taken for one to the last.
InAnyChunk(s, m) == TRUE

InChunk(s, m) == m.ofs \div TableBins = s.data.chunk

\* What comes of a bin: the file takes it, or not, or its place is not found.  The position in
\* the file is not kept, so that any bin may need a seek.
Disk == {"writes", "fails", "cannot seek"}

\* A LOG_DATA with the bin at m.ofs.
LogData(s, from, m, size, disk, created) ==
    IF from # s.vehicle \/ s.data = NoData \/ EntryIndex(s, m) # s.data.id THEN s
    ELSE IF m.ofs > size THEN SetStatus(s, "Error")
    ELSE IF ~InChunk(s, m) THEN s
    ELSE LET bin  == m.ofs % TableBins
             seen == IF bin >= s.data.table THEN s ELSE [s EXCEPT !.data.got = @ \cup {bin}]
             took == [seen EXCEPT !.data.file = @ \cup {[from |-> from, ofs |-> m.ofs]},
                                  !.retries = 0, !.timer = TRUE]
         IN  IF disk = "cannot seek" THEN [seen EXCEPT !.torn = TRUE, !.refused = TRUE]
             ELSE IF disk = "fails" THEN SetStatus([seen EXCEPT !.torn = TRUE], "Error")
             ELSE IF LogComplete(took, size)
             THEN ReceivedAllData(SetStatus([took EXCEPT !.saved =
                    [ id |-> m.id, vehicle |-> from, file |-> took.data.file,
                      torn |-> s.torn \/ s.freed ]], "Downloaded"), created)
             ELSE IF ChunkComplete(took) THEN RequestChunk(AdvanceChunk(took, size))
             ELSE IF bin + 1 \in took.data.got THEN FindMissingData(took, size, created)
             ELSE took

DownloadToDirectory(s, created) ==
    LET stopped == NoDownload(ReceivedAllEntries(s))
        waiting == [stopped EXCEPT !.entries = [i \in DOMAIN @ |->
                        IF @[i].selected THEN [@[i] EXCEPT !.status = "Waiting"] ELSE @[i]]]
    IN  ReceivedAllData(SetDownloading(waiting, TRUE), created)

(***************************************************************************)
(* The rest.                                                               *)
(***************************************************************************)
Cancel(s) ==
    LET stopped == IF s.vehicle = NoVehicle THEN s ELSE ReceivedAllEntries(s)
        dropped == IF s.data = NoData THEN stopped ELSE NoDownload(SetStatus(stopped, "Canceled"))
    IN  SetDownloading(ResetSelection([dropped EXCEPT !.cut = @ \/ s.listing], TRUE), FALSE)

ProcessDownload(s, size, created) ==
    IF s.listing THEN FindMissingEntries(s)
    ELSE IF s.downloading THEN FindMissingData(s, size, created)
    ELSE s

\* The entries of the model are deleted, the one being downloaded among them.
SetActiveVehicle(s, v) ==
    [s EXCEPT !.vehicle = v,
              !.entries = IF s.vehicle = NoVehicle THEN @ ELSE << >>,
              !.freed = @ \/ s.data # NoData]
================================================================================
