------------------------------ MODULE LogTransfer ------------------------------
(***************************************************************************)
(* LogDownloadController with the vehicles it talks to, the user of the    *)
(* Analyze page, and links that lose and delay.  A vehicle answers a list  *)
(* request with one LOG_ENTRY for each log asked for, and a data request   *)
(* with a stream of LOG_DATA, one each time its worker runs.  The simulated *)
(* vehicle (MockLink) does so for its one log and refuses requests for     *)
(* part of the list; vehicles with several logs do the same for each.      *)
(* Requests reach the vehicle in the step that sends them or not at all    *)
(* (nothing is sent without a primary link, and any of them may be lost);  *)
(* what is slow is the way back.                                           *)
(***************************************************************************)
EXTENDS LogDownload

CONSTANTS
    InitialLogs,        \* [Vehicles -> Seq(Nat)], the sizes of the logs on board
    WholeListsOnly,     \* vehicles that refuse requests for part of the list
    MaxEvents,          \* actions of the user and changes of vehicle
    MaxLosses,
    MaxInFlight         \* data packets of a vehicle on the way at a time

ASSUME LogsAssumption ==
    /\ InitialLogs \in [Vehicles -> Seq(Nat)]
    /\ MaxEvents \in Nat /\ MaxLosses \in Nat /\ MaxInFlight \in Nat

VARIABLES
    ctl,        \* the controller
    dialog,     \* "none", or what it asks: "directory" to save to, whether to "erase" all
    logs,       \* on each vehicle
    stream,     \* what each vehicle has still to send: [id, ofs, count]
    air,        \* on the way to the ground, from each vehicle
    events, losses,
    left,       \* history: vehicles left by page or user during a transfer
    stale       \* history: logs were erased with answers to a list request on the way

vars == << ctl, dialog, logs, stream, air, events, losses, left, stale >>

NoStream == [ id |-> 0, ofs |-> 0, count |-> 0 ]

(***************************************************************************)
(* The vehicles.                                                           *)
(***************************************************************************)
FirstId(v) == IF v \in ApmVehicles THEN 1 ELSE 0

\* The size of log id of v, 0 if there is none.
SizeOf(sizes, v, id) ==
    LET n == id - FirstId(v) + 1 IN IF n \in DOMAIN sizes THEN sizes[n] ELSE 0

Entry(sizes, v, id) ==
    [ kind |-> "entry", id |-> id, num |-> Len(sizes), size |-> SizeOf(sizes, v, id) ]

\* ArduPilot sends an entry that tells only the count before the others; a vehicle
\* without logs sends nothing but that.
HandleLogRequestList(v, sizes, m) ==
    LET first == IF m.start < FirstId(v) THEN FirstId(v) ELSE m.start
        last  == Least(m.end, FirstId(v) + Len(sizes) - 1)
        count == [Entry(sizes, v, 0) EXCEPT !.size = 0]
        some  == [n \in 1 .. last - first + 1 |-> Entry(sizes, v, first + n - 1)]
    IN  IF v \in WholeListsOnly /\ m.start # 0 THEN << >>
        ELSE IF sizes = << >> \/ (v \in ApmVehicles /\ m.start = 0) THEN << count >> \o some
        ELSE some

\* A request past the end of the log is ignored, any other replaces the one before.
HandleLogRequestData(v, sizes, current, m) ==
    LET size == SizeOf(sizes, v, m.id)
    IN  IF m.ofs > size - 1 THEN current
        ELSE [ id |-> m.id, ofs |-> m.ofs, count |-> Least(m.count, size - m.ofs) ]

\* One vehicle hears a message: [sizes, stream, answers] before and after.
Hear(v, box, m) ==
    CASE m.kind = "erase" -> [box EXCEPT !.sizes = << >>]
      [] m.kind = "list"  -> [box EXCEPT !.answers = @ \o HandleLogRequestList(v, box.sizes, m)]
      [] m.kind = "data"  -> [box EXCEPT !.stream = HandleLogRequestData(v, box.sizes, @, m)]

\* A step sends two messages at most; those in kept arrive.
Deliver(v, sent, kept) ==
    LET box  == [ sizes |-> logs[v], stream |-> stream[v], answers |-> << >> ]
        one  == IF 1 \in kept THEN Hear(v, box, sent[1]) ELSE box
    IN  IF 2 \in kept THEN Hear(v, one, sent[2]) ELSE one

\* A step of the controller, which becomes next; rest is what is on the air without the
\* message it handles.  Part of what it sends may be lost.
Step(next, rest) ==
    /\ ~ctl.died
    /\ \E s \in {next} : \E kept \in SUBSET DOMAIN s.out :
         /\ losses' = losses + Len(s.out) - Cardinality(kept)
         /\ losses' <= MaxLosses
         /\ ctl' = [s EXCEPT !.out = << >>]
         /\ IF kept = {} THEN air' = rest /\ UNCHANGED << logs, stream >>
            ELSE LET v    == s.vehicle
                     done == Deliver(v, s.out, kept)
                 IN  /\ logs' = [logs EXCEPT ![v] = done.sizes]
                     /\ stream' = [stream EXCEPT ![v] = done.stream]
                     /\ air' = [rest EXCEPT ![v] = @ \o done.answers]

LogDownloadWorker(v) ==
    /\ stream[v].count > 0 /\ Len(air[v]) < MaxInFlight
    /\ air' = [air EXCEPT ![v] =
                Append(@, [kind |-> "bin", id |-> stream[v].id, ofs |-> stream[v].ofs])]
    /\ stream' = [stream EXCEPT ![v].ofs = @ + 1, ![v].count = @ - 1]
    /\ UNCHANGED << ctl, dialog, logs, events, losses, left, stale >>

Lose(v) ==
    /\ air[v] # << >> /\ losses < MaxLosses
    /\ losses' = losses + 1
    /\ air' = [air EXCEPT ![v] = Tail(@)]
    /\ UNCHANGED << ctl, dialog, logs, stream, events, left, stale >>

(***************************************************************************)
(* Handlers of the controller.  A read of a deleted entry gives any size,  *)
(* or ends the program.                                                    *)
(***************************************************************************)
MaxSize == 2 * TableBins

Sizes == IF ctl.freed THEN 0 .. MaxSize
         ELSE IF ctl.data = NoData THEN {0}
         ELSE {ctl.entries[ctl.data.id].size}

\* The disk fails a file once (a bound).
Disks == IF ctl.torn THEN {"writes"} ELSE Disk

\* The program ends where a handler touches the entry.
Dies == ctl.freed /\ Step([ctl EXCEPT !.died = TRUE], air)

Arrives(v) ==
    /\ air[v] # << >>
    /\ LET m    == Head(air[v])
           rest == [air EXCEPT ![v] = Tail(@)]
       IN  \/ m.kind = "entry" /\ Step(LogEntry(ctl, v, m), rest)
           \/ /\ m.kind = "bin"
              /\ \E size \in Sizes, disk \in Disks, created \in BOOLEAN :
                    Step(LogData(ctl, v, m, size, disk, created), rest)
           \/ m.kind = "bin" /\ Dies
    /\ UNCHANGED << dialog, events, left, stale >>

TimerFires ==
    /\ ctl.timer
    /\ \/ \E size \in Sizes, created \in BOOLEAN :
            Step(ProcessDownload(ctl, size, created), air)
       \/ Dies
    /\ UNCHANGED << dialog, events, left, stale >>

(***************************************************************************)
(* The user.  The buttons of the page are enabled while nothing is under   *)
(* way, and a dialog is modal; the vehicle may change all the same.        *)
(***************************************************************************)
Event == events < MaxEvents /\ events' = events + 1

Idle == dialog = "none" /\ ~Busy(ctl)

\* The vehicle a conversation is under way with.
Concerned(s) == IF Busy(s) THEN {s.vehicle} ELSE {}

EntriesInAir(v) == \E n \in DOMAIN air[v] : air[v][n].kind = "entry"

UserRefreshes ==
    /\ Idle /\ ctl.vehicle # NoVehicle /\ Event
    /\ Step(Refresh(ctl), air)
    /\ UNCHANGED << dialog, left, stale >>

UserSelects ==
    /\ Idle /\ ctl.entries # << >> /\ Event
    /\ \E chosen \in SUBSET DOMAIN ctl.entries \ {{}} :
         Step([ctl EXCEPT !.entries = [i \in DOMAIN @ |-> [@[i] EXCEPT !.selected = i \in chosen]]],
              air)
    /\ dialog' = "directory"
    /\ UNCHANGED << left, stale >>

UserAsksToErase ==
    /\ Idle /\ ctl.entries # << >> /\ Event
    /\ dialog' = "erase"
    /\ UNCHANGED << ctl, logs, stream, air, losses, left, stale >>

UserDownloads ==
    /\ dialog = "directory" /\ dialog' = "none"
    /\ \E created \in BOOLEAN : Step(DownloadToDirectory(ctl, created), air)
    /\ UNCHANGED << events, left, stale >>

UserErases ==
    /\ dialog = "erase" /\ dialog' = "none"
    /\ Step(EraseAll(ctl), air)
    /\ stale' = (stale \/ \E v \in Vehicles : EntriesInAir(v))
    /\ UNCHANGED << events, left >>

UserCancels ==
    /\ Busy(ctl) /\ Event
    /\ \/ Step(Cancel(ctl), air)
       \/ Dies
    /\ UNCHANGED << dialog, left, stale >>

\* Back from the page: the controller is deleted as it stands.  The next one is idle.
UserLeaves ==
    /\ dialog = "none" /\ Event
    /\ Step([NewController(ctl.vehicle) EXCEPT !.unwatched = ctl.unwatched], air)
    /\ left' = left \cup Concerned(ctl)
    /\ UNCHANGED << dialog, stale >>

ActiveVehicleChanges(v) ==
    /\ v # ctl.vehicle /\ Event
    /\ Step(SetActiveVehicle(ctl, v), air)
    /\ left' = left \cup Concerned(ctl)
    /\ UNCHANGED << dialog, stale >>

Init ==
    /\ ctl \in {NewController(v) : v \in Vehicles}
    /\ dialog = "none" /\ logs = InitialLogs
    /\ stream = [v \in Vehicles |-> NoStream] /\ air = [v \in Vehicles |-> << >>]
    /\ events = 0 /\ losses = 0
    /\ left = {} /\ stale = FALSE

User ==
    \/ UserRefreshes \/ UserSelects \/ UserAsksToErase \/ UserDownloads \/ UserErases
    \/ UserCancels \/ UserLeaves

Radio == \E v \in Vehicles : LogDownloadWorker(v) \/ Arrives(v)

Next ==
    \/ Radio
    \/ \E v \in Vehicles : Lose(v)
    \/ TimerFires
    \/ User
    \/ \E v \in Vehicles \cup {NoVehicle} : ActiveVehicleChanges(v)

Spec == Init /\ [][Next]_vars

\* Timers fire, vehicles send what they were asked for, and what is sent arrives.
FairTransferSpec ==
    /\ Spec
    /\ WF_vars(TimerFires) /\ WF_vars(Radio)

(***************************************************************************)
(* Properties.                                                             *)
(***************************************************************************)
\* The index base kept from the last list is that of the vehicle: _apmOneBased is never
\* reset, so it is not for a vehicle that follows an ArduPilot one.
BaseFits == ctl.apmOneBased = FirstId(ctl.vehicle)

\* A log reported downloaded has, bin by bin, what the vehicle has, unless the disk failed
\* (a bin is marked as received before it is written, LogDownloadController.cc:345) or the
\* vehicle changed meanwhile; and once the downloads are over no log chosen is left waiting,
\* unless a file could not be created, which ends them all (:415), or a seek failed in one,
\* which is not told (:351).
LogsAreWhole ==
    /\ ctl.saved # NothingSaved /\ ~ctl.saved.torn =>
         LET v == ctl.saved.vehicle
         IN  ctl.saved.file = {[from |-> v, ofs |-> ofs] :
                                ofs \in 0 .. SizeOf(InitialLogs[v], v, ctl.saved.id) - 1}
    /\ ~ctl.downloading /\ ~ctl.refused /\ ~ctl.died =>
         \A i \in DOMAIN ctl.entries : ctl.entries[i].status # "Waiting"

\* Loss of communication goes unnoticed exactly for the vehicle that is listing or sending
\* logs; when the page is left or the vehicle changed in the middle of that, for the vehicle
\* left and no other (_setListing and _setDownloading, LogDownloadController.cc:655).
LossIsWatched ==
    ~ctl.died => /\ ctl.unwatched \subseteq left \cup Concerned(ctl)
                 /\ left = {} => Concerned(ctl) \subseteq ctl.unwatched

\* What a list shows as available is on the vehicle, with its size.  As soon as anything was
\* heard there is an entry for every log, and once the list is over, unless the user ended it,
\* each of them is available or marked: none is passed over in silence
\* (_logEntry and _findMissingEntries, LogDownloadController.cc:152 and :253).
ListIsTrue ==
    ctl.vehicle # NoVehicle /\ ~stale =>
       /\ DOMAIN ctl.entries # {} => DOMAIN ctl.entries = 0 .. Len(logs[ctl.vehicle]) - 1
       /\ \A i \in DOMAIN ctl.entries :
            /\ ctl.entries[i].received /\ BaseFits =>
                 ctl.entries[i].size =
                    SizeOf(logs[ctl.vehicle], ctl.vehicle, i + FirstId(ctl.vehicle))
            /\ ~ctl.listing /\ ~ctl.cut =>
                 ctl.entries[i].received \/ ctl.entries[i].status # "Pending"

\* A log that is empty, whose entry never came, or that was erased is asked for for ever:
\* the chunk table of size 0 wraps (LogDownloadController.cc:58), and nobody answers.
NothingToSend ==
    /\ left = {} /\ ctl.data # NoData
    /\ \/ ctl.entries[ctl.data.id].size = 0
       \/ SizeOf(logs[ctl.vehicle], ctl.vehicle, ctl.data.id + ctl.apmOneBased) = 0

\* Listing and downloading end, though requests and answers are lost, with a vehicle
\* that stays and logs that are not empty.
TransfersEnd ==
    Busy(ctl) ~> (~Busy(ctl) \/ left # {} \/ NothingToSend)
================================================================================
