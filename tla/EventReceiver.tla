----------------------------- MODULE EventReceiver -----------------------------
(***************************************************************************)
(* How events of a vehicle's component are received: ReceiveProtocol of    *)
(* libevents keeps them in sequence, EventHandler holds them back until    *)
(* the metadata is there, HealthAndArmingCheckHandler collects reports     *)
(* from them.  Each handler maps a record to its next value:               *)
(*   hasSequence, latest     _has_sequence and _latest_sequence             *)
(*   hasCurrent, current     the last sequence number broadcast            *)
(*   lastTime                _last_timestamp_ms                             *)
(*   timer                   the single-shot timer of EventHandler          *)
(*   defined                 the parser has definitions                     *)
(*   pending                 _pendingEvents                                 *)
(*   expected                _expectedEvent                                 *)
(*   building, shown         the two elements of _results: the set being   *)
(*                           updated, and the last full one                *)
(*   out                     the sequence numbers the step requests        *)
(*   taken, lost, cleared    history of the step: the event accepted, the  *)
(*                           number of events reported as lost, whether    *)
(*                           events held back were thrown away             *)
(* An event is [seq, time, toUs, kind, tag]; kind is its role in a report. *)
(***************************************************************************)
EXTENDS Integers, Sequences

CONSTANTS
    SeqRange,         \* sequence numbers are uint16_t
    TimeMod,        \* timestamps are uint32_t
    TimeMargin,     \* how far a timestamp may go back without a reboot
    TimeGuard,      \* no reboot is seen in timestamps this close to their wrap
    MaxPending      \* events held back before all of them are dropped

ASSUME EventReceiverAssumption ==
    /\ SeqRange \in Nat \ {0} /\ TimeMod \in Nat \ {0}
    /\ {TimeMargin, TimeGuard, MaxPending} \subseteq Nat

NoReport == [ arming |-> {}, checks |-> {}, health |-> {} ]

NoEvent == [ kind |-> "none" ]

\* _latest_sequence and _latest_current_sequence are read only once they were set.
NewReceiver ==
    [ hasSequence |-> FALSE, latest |-> 0, hasCurrent |-> FALSE, current |-> 0,
      lastTime |-> 0, timer |-> FALSE, defined |-> FALSE, pending |-> << >>,
      expected |-> "arming", building |-> NoReport, shown |-> NoReport,
      out |-> << >>, taken |-> NoEvent, lost |-> 0, cleared |-> FALSE ]

-----------------------------------------------------------------------------
(***************************************************************************)
(* HealthAndArmingCheckHandler: a summary of arming checks, the checks, a  *)
(* summary of health.  A summary that has the name but not the id known    *)
(* here, otherArming or otherHealth, cannot be decoded.                    *)
(***************************************************************************)
ReportKinds == {"arming", "check", "health", "otherArming", "otherHealth"}

ResetReport(h) == [h EXCEPT !.building = NoReport, !.expected = "arming"]

\* Mutant of CollectReport: a summary out of turn is accepted without a reset.
CollectReportWithoutReset(h, e) ==
    CASE e.kind = "arming" ->
            [h EXCEPT !.expected = "check", !.building.arming = {e.tag}]
      [] e.kind = "otherArming" \/ (e.kind = "otherHealth" /\ h.expected = "check") ->
            ResetReport(h)
      [] e.kind = "check" /\ h.expected = "check" ->
            [h EXCEPT !.building.checks = @ \cup {e.tag}]
      [] e.kind = "health" /\ h.expected = "check" ->
            ResetReport([h EXCEPT !.shown = [h.building EXCEPT !.health = {e.tag}]])
      [] OTHER -> [h EXCEPT !.expected = "arming"]

CollectReport(h, e) ==
    CASE e.kind = "arming" ->
            [ResetReport(h) EXCEPT !.expected = "check", !.building.arming = {e.tag}]
      [] e.kind = "otherArming" \/ (e.kind = "otherHealth" /\ h.expected = "check") ->
            ResetReport(h)
      [] e.kind = "check" /\ h.expected = "check" ->
            [h EXCEPT !.building.checks = @ \cup {e.tag}]
      [] e.kind = "health" /\ h.expected = "check" ->
            ResetReport([h EXCEPT !.shown = [h.building EXCEPT !.health = {e.tag}]])
      [] OTHER -> [h EXCEPT !.expected = "arming"]

-----------------------------------------------------------------------------
(***************************************************************************)
(* EventHandler and Vehicle::_handleEvent.                                 *)
(***************************************************************************)
\* Events of other groups are messages for the user, or unknown.
HandleEventCB(h, e) ==
    IF e.kind \in ReportKinds THEN CollectReport(h, e) ELSE h

GotEvent(h, e) ==
    IF h.defined THEN HandleEventCB(h, e)
    ELSE IF Len(h.pending) > MaxPending
         THEN [h EXCEPT !.pending = << e >>, !.cleared = TRUE]
         ELSE [h EXCEPT !.pending = Append(@, e)]

\* A file with definitions; one that cannot be read, or is not there, changes nothing.
SetMetadata(h) ==
    LET handled[i \in 0 .. Len(h.pending)] ==
            IF i = 0 THEN [h EXCEPT !.defined = TRUE]
            ELSE HandleEventCB(handled[i - 1], h.pending[i])
    IN  [handled[Len(h.pending)] EXCEPT !.pending = << >>]

-----------------------------------------------------------------------------
(***************************************************************************)
(* ReceiveProtocol.                                                        *)
(***************************************************************************)
\* Mutant of CompareSequence: numbers are compared as they stand.
CompareSequenceUnwrapped(expected, incoming) ==
    CASE incoming = expected -> "equal"
      [] incoming < expected -> "older"
      [] OTHER -> "newer"

\* What comes in against what is expected; a number counts as older if it is more than half
\* the range ahead.
CompareSequence(expected, incoming) ==
    IF incoming = expected THEN "equal"
    ELSE IF (incoming - expected) % SeqRange > (SeqRange - 1) \div 2 THEN "older"
    ELSE "newer"

Following(h) == (h.latest + 1) % SeqRange

RequestEvent(h) == [h EXCEPT !.out = Append(@, Following(h)), !.timer = TRUE]

\* A timestamp far behind the last one is taken for a reboot of the vehicle.
CheckTimestampReset(h, time) ==
    LET last  == IF h.lastTime = 0 THEN time ELSE h.lastTime
        timed == [h EXCEPT !.lastTime = last]
    IN  IF (time + TimeMargin) % TimeMod < last /\ last < TimeMod - 1 - TimeGuard
        THEN [timed EXCEPT !.hasSequence = FALSE, !.hasCurrent = FALSE]
        ELSE timed

\* Mutant of Accept: nothing more is requested when an event was accepted.
AcceptOnly(h, e) ==
    LET taken == [h EXCEPT !.latest = e.seq, !.lastTime = e.time, !.timer = FALSE, !.taken = e]
    IN  IF e.toUs THEN GotEvent(taken, e) ELSE taken

\* The event expected next.  Events for other stations count in the sequence only.
Accept(h, e) ==
    LET taken == [h EXCEPT !.latest = e.seq, !.lastTime = e.time, !.timer = FALSE, !.taken = e]
        more  == IF h.hasCurrent /\ CompareSequence(e.seq, h.current) = "newer"
                 THEN RequestEvent(taken) ELSE taken
    IN  IF e.toUs THEN GotEvent(more, e) ELSE more

HandleEvent(h, e) ==
    LET checked == CheckTimestampReset(h, e.time)
        based   == IF checked.hasSequence THEN checked
                   ELSE [checked EXCEPT !.hasSequence = TRUE, !.latest = (e.seq - 1) % SeqRange]
        order   == CompareSequence(Following(based), e.seq)
    IN  CASE order = "older" -> based
          [] order = "newer" -> RequestEvent(based)
          [] order = "equal" -> Accept(based, e)

HandleCurrentEventSequence(h, m) ==
    LET based == IF h.hasSequence /\ ~m.reset THEN h
                 ELSE [h EXCEPT !.hasSequence = TRUE, !.latest = m.seq]
        asked == IF CompareSequence(based.latest, m.seq) = "newer" THEN RequestEvent(based)
                 ELSE based
    IN  [asked EXCEPT !.hasCurrent = TRUE, !.current = m.seq]

\* Mutant of HandleEventError: the oldest event there is passes for received.
HandleEventErrorSkipping(h, m) ==
    IF m.seq # Following(h) THEN h
    ELSE RequestEvent([h EXCEPT !.lost = (m.oldest - h.latest - 1) % SeqRange,
                                !.latest = m.oldest])

\* The event requested is gone: go on with the oldest there is.
HandleEventError(h, m) ==
    IF m.seq # Following(h) THEN h
    ELSE RequestEvent([h EXCEPT !.lost = (m.oldest - h.latest - 1) % SeqRange,
                                !.latest = (m.oldest - 1) % SeqRange])

\* The timer is started again by the request.
TimerEvent(h) == RequestEvent(h)
================================================================================
