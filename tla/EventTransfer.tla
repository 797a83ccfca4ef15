----------------------------- MODULE EventTransfer -----------------------------
(***************************************************************************)
(* EventReceiver with a vehicle that sends events.  The vehicle numbers    *)
(* its events, keeps the last few of them, broadcasts the number of the    *)
(* latest, sends an event again on request, to whatever ground station     *)
(* asks, or answers that it is gone; after a reboot it starts over, and    *)
(* says so once, in the first broadcast.  Messages to the ground station   *)
(* come late or never; a request reaches the vehicle in the step that      *)
(* sends it, or is lost.                                                   *)
(***************************************************************************)
EXTENDS EventReceiver

CONSTANTS
    Script,         \* the kinds of the events of each boot, in their order
    FirstSeq,       \* the number of the first
    BufferSize,     \* events kept by the vehicle
    MaxClock,       \* of the vehicle, in units of time
    MaxUpsets,      \* losses, reboots, events sent again for another ground station
    MaxInFlight     \* messages on the way at a time, but for answers

ASSUME EventTransferAssumption ==
    /\ FirstSeq \in 0 .. SeqRange - 1 /\ BufferSize \in Nat \ {0}
    /\ {MaxUpsets, MaxInFlight} \subseteq Nat
    /\ MaxClock \in Nat \ {0}
    /\ MaxClock + TimeMargin < TimeMod \* no boot lasts until timestamps wrap
    /\ Script \in Seq(STRING) \ {<< >>}
    /\ 2 * Len(Script) < SeqRange     \* the receiver is never half the range behind
    /\ \A n \in DOMAIN Script :       \* a report starts with its summary of arming checks
          Script[n] = "health" => \E a \in 1 .. n : Script[a] = "arming"

VARIABLES
    rx,         \* the receiver
    boot,       \* number of the current boot
    stamps,     \* the vehicle: times of the events of this boot
    clock,      \* time since boot
    flagged,    \* the next broadcast says that the sequence was reset
    air,        \* on the way to the ground station
    upsets,
    last,       \* history: boot and number of the event accepted last
    reported,   \* history: events reported as lost since then
    rebased,    \* history: the sequence was taken up anew since then
    got,        \* history: tags of the events accepted and not thrown away since
    stale,      \* history: an event came again after the margin
    basis       \* history: the boot whose numbering the receiver took up

vehicle == << boot, stamps, clock, flagged >>
history == << last, reported, rebased, got, stale, basis >>
eventVars == << rx, vehicle, air, upsets, history >>

NothingAccepted == [ boot |-> 0, n |-> 0 ]

(***************************************************************************)
(* The vehicle.                                                            *)
(***************************************************************************)
NumberOf(n) == (FirstSeq + n - 1) % SeqRange

Latest == NumberOf(Len(stamps))

Kept == {n \in DOMAIN stamps : n > Len(stamps) - BufferSize}

\* Event n of this boot; the tag tells which report it belongs to.
EventOf(n, time) ==
    [ msg |-> "event", seq |-> NumberOf(n), time |-> time, toUs |-> Script[n] # "elsewhere",
      kind |-> Script[n], tag |-> << boot, n >>, boot |-> boot, n |-> n ]

\* The answer to a request for one sequence number: the event, or the oldest number after
\* it that is there, or will be next.
Answer(seq) ==
    LET found == {n \in Kept : NumberOf(n) = seq}
        ahead == {(NumberOf(n) - seq) % SeqRange : n \in Kept \cup {Len(stamps) + 1}}
        least == CHOOSE d \in ahead : \A o \in ahead : d <= o
    IN  IF found # {} THEN LET n == CHOOSE n \in found : TRUE IN EventOf(n, stamps[n])
        ELSE [ msg |-> "error", seq |-> seq, oldest |-> (seq + least) % SeqRange,
               boot |-> boot ]

VehicleEmits ==
    /\ Len(stamps) < Len(Script) /\ Len(air) < MaxInFlight
    /\ stamps' = Append(stamps, clock)
    /\ air' = Append(air, EventOf(Len(stamps) + 1, clock))
    /\ UNCHANGED << rx, boot, clock, flagged, upsets, history >>

\* Every few seconds, so with nothing else on the way.
VehicleBroadcasts ==
    /\ air = << >>
    /\ air' = Append(air, [msg |-> "current", seq |-> Latest, reset |-> flagged, boot |-> boot])
    /\ flagged' = FALSE
    /\ UNCHANGED << rx, boot, stamps, clock, upsets, history >>

VehicleReboots ==
    /\ upsets < MaxUpsets /\ upsets' = upsets + 1
    /\ boot' = boot + 1 /\ stamps' = << >> /\ clock' = 1 /\ flagged' = TRUE
    /\ UNCHANGED << rx, air, history >>

\* Only steps past the margin matter to anybody.
TimePasses ==
    /\ clock' = clock + TimeMargin + 1 /\ clock' <= MaxClock
    /\ UNCHANGED << rx, boot, stamps, flagged, air, upsets, history >>

\* Another ground station on the same link has an event sent again.
OtherStationAsks ==
    /\ upsets < MaxUpsets /\ upsets' = upsets + 1
    /\ \E n \in Kept : air' = Append(air, EventOf(n, stamps[n]))
    /\ UNCHANGED << rx, vehicle, history >>

Lose ==
    /\ air # << >> /\ upsets < MaxUpsets
    /\ upsets' = upsets + 1 /\ air' = Tail(air)
    /\ UNCHANGED << rx, vehicle, history >>

(***************************************************************************)
(* The receiver.                                                           *)
(***************************************************************************)
\* What the history says after the receiver has become next.
Recorded(next, restarted) ==
    LET e     == next.taken
        none  == e = NoEvent
        empty == IF next.cleared THEN {rx.pending[i].tag : i \in DOMAIN rx.pending} ELSE {}
    IN  /\ last' = IF none THEN last ELSE [boot |-> e.boot, n |-> e.n]
        /\ reported' = IF none THEN reported + next.lost ELSE 0
        /\ rebased' = (none /\ (rebased \/ restarted))
        /\ got' = (got \ empty) \cup (IF none THEN {} ELSE {e.tag})

\* One handler runs, and the request it makes is answered or lost.
Step(next, restarted, rest) ==
    /\ Recorded(next, restarted)
    /\ rx' = [next EXCEPT !.out = << >>, !.taken = NoEvent, !.lost = 0, !.cleared = FALSE]
    /\ \/ /\ air' = rest \o [i \in DOMAIN next.out |-> Answer(next.out[i])]
          /\ UNCHANGED upsets
       \/ /\ next.out # << >> /\ upsets < MaxUpsets
          /\ air' = rest /\ upsets' = upsets + 1

EventArrives ==
    /\ air # << >> /\ Head(air).msg = "event"
    /\ LET e       == Head(air)
           checked == CheckTimestampReset(rx, e.time)
       IN  /\ Step(HandleEvent(rx, e), ~checked.hasSequence, Tail(air))
           /\ stale' = (stale \/ (e.boot = last.boot /\ e.n <= last.n /\ ~checked.hasSequence))
           /\ basis' = IF checked.hasSequence THEN basis ELSE e.boot
    /\ UNCHANGED << vehicle >>

CurrentArrives ==
    /\ air # << >> /\ Head(air).msg = "current"
    /\ LET m == Head(air) restarted == m.reset \/ ~rx.hasSequence
       IN  /\ Step(HandleCurrentEventSequence(rx, m), restarted, Tail(air))
           /\ basis' = IF restarted THEN m.boot ELSE basis
    /\ UNCHANGED << vehicle, stale >>

ErrorArrives ==
    /\ air # << >> /\ Head(air).msg = "error"
    /\ Step(HandleEventError(rx, Head(air)), FALSE, Tail(air))
    /\ UNCHANGED << vehicle, stale, basis >>

TimerFires ==
    /\ rx.timer /\ Len(air) < MaxInFlight
    /\ Step(TimerEvent(rx), FALSE, air)
    /\ UNCHANGED << vehicle, stale, basis >>

\* The request for component information ends with a file, if it ever does.
MetadataArrives ==
    /\ ~rx.defined
    /\ Step(SetMetadata(rx), FALSE, air)
    /\ UNCHANGED << vehicle, stale, basis >>

EventInit ==
    /\ rx = NewReceiver /\ boot = 1 /\ stamps = << >> /\ clock = 1
    /\ flagged = FALSE /\ air = << >>
    /\ upsets = 0
    /\ last = NothingAccepted /\ reported = 0 /\ rebased = FALSE /\ got = {}
    /\ stale = FALSE /\ basis = 0

Ground ==
    EventArrives \/ CurrentArrives \/ ErrorArrives \/ TimerFires \/ MetadataArrives

Vehicle ==
    \/ VehicleEmits \/ VehicleBroadcasts \/ VehicleReboots \/ TimePasses
    \/ OtherStationAsks

EventNext == Ground \/ Vehicle \/ Lose

EventSpec == EventInit /\ [][EventNext]_eventVars

\* What is on the way arrives, and the vehicle goes on broadcasting.  The broadcasts are
\* enough, without the timer: it makes things faster.
FairTransferSpec ==
    /\ EventSpec
    /\ WF_eventVars(EventArrives \/ CurrentArrives \/ ErrorArrives)
    /\ WF_eventVars(VehicleBroadcasts)

(***************************************************************************)
(* Properties.                                                             *)
(***************************************************************************)
\* While the receiver knows of an event it has not got, its timer runs, so that a request or
\* an answer that is lost is not the end of it (ReceiveProtocol::requestEvent).
LagIsTimed ==
    rx.hasSequence /\ rx.hasCurrent /\ CompareSequence(rx.latest, rx.current) = "newer"
        => rx.timer

\* Events of a boot are accepted once each and in order, and the number of those left out
\* between two of them is the number reported as lost, unless the sequence was taken up
\* anew in between (ReceiveProtocol::handleEvent, libevents receive.cpp:43); as long as there
\* is a gap the timer runs.
GapsAreReported ==
    [][/\ LagIsTimed'
       /\ last' # last /\ last'.boot = last.boot /\ ~stale' =>
             /\ last'.n > last.n
             /\ ~rebased => last'.n = last.n + 1 + reported]_eventVars

\* Where the report that ends with event n starts.
StartOf(n) ==
    CHOOSE a \in 1 .. n : Script[a] = "arming" /\ \A i \in a + 1 .. n : Script[i] # "arming"

\* The report that ends with z, as the vehicle sent it.
ReportOf(z) ==
    [ arming |-> {<< z[1], StartOf(z[2]) >>}, health |-> {z},
      checks |-> {<< z[1], i >> : i \in {j \in StartOf(z[2]) .. z[2] : Script[j] = "check"}} ]

\* A report put on show is what the vehicle sent between its two summaries, no less and
\* nothing of another, if all of it was accepted.  If something was lost it is not: the
\* handler goes by the order of kinds alone (HealthAndArmingChecks.cc:29), and is not told.
ReportsAreFull ==
    [][rx'.shown # rx.shown /\ ~stale' =>
         \A z \in rx'.shown.health :
             {<< z[1], i >> : i \in StartOf(z[2]) .. z[2]} \subseteq got'
                => rx'.shown = ReportOf(z)]_eventVars

\* The receiver catches up with the vehicle, whatever is lost, unless it does not know that
\* the vehicle has started over.
InStep == rx.hasSequence /\ rx.latest = Latest

CatchesUp == []<>(InStep \/ (rx.hasSequence /\ basis # boot))
================================================================================
