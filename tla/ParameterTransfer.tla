-------------------------- MODULE ParameterTransfer ---------------------------
(***************************************************************************)
(* ParameterManager and the parameters of the simulated vehicle (MockLink),*)
(* over a link that loses messages, delays them, or goes away.  The        *)
(* vehicle sends its list one by one and answers reads and writes in       *)
(* between; the station may close the vehicle and load it again.           *)
(***************************************************************************)
EXTENDS ParameterManager

CONSTANTS
  FailureModes,   \* of the vehicle
  LinkKinds,      \* what the primary link may be: "none", "normal", "highLatency"
  MaxInFlight,    \* bound on the messages of a timeout or list still under way
  MaxEvents       \* bound on what users and links do, losses among it

ASSUME TransferAssumption ==
  /\ "normal" \in LinkKinds
  /\ {MaxInFlight, MaxEvents} \subseteq Nat

VARIABLES
  pm,          \* the manager
  values,      \* the vehicle's parameters
  listing,     \* those the vehicle has still to send of its list
  failureMode, \* of the vehicle
  link,        \* the primary link
  toVehicle, toGcs,
  events,
  edited,      \* history: the last value the user gave a parameter
  overtaken    \* history: those whose write was ended by another value

vars == <<pm, values, listing, failureMode, link, toVehicle, toGcs, events, edited, overtaken>>

NoCache == [comp \in Components |-> Nothing]

Init ==
  /\ values = [p \in Params |-> 0]
  /\ LET first == RefreshAllParameters(NewManager(NoCache), "normal")
     IN  pm = [first EXCEPT !.outbox = <<>>] /\ toVehicle = first.outbox
  /\ listing = <<>> /\ failureMode \in FailureModes /\ link = "normal"
  /\ toGcs = <<>>
  /\ events = 0
  /\ edited = Nothing /\ overtaken = {}

--------------------------------------------------------------------------------
(* What a handler leaves to send goes on the primary link, if there is one.*)
Becomes(s) ==
  /\ pm' = [s EXCEPT !.outbox = <<>>]
  /\ toVehicle' = IF link = "none" THEN toVehicle ELSE toVehicle \o s.outbox

RequestTimesOut ==
  /\ pm.initialRequestTimer /\ Len(toVehicle) < MaxInFlight
  /\ Becomes(InitialRequestTimeout(pm, link))
  /\ UNCHANGED <<values, listing, failureMode, link, toGcs, events, edited, overtaken>>

WaitTimesOut ==
  /\ pm.waitingParamTimer /\ Len(toVehicle) < MaxInFlight
  /\ Becomes(WaitingParamTimeout(pm))
  /\ UNCHANGED <<values, listing, failureMode, link, toGcs, events, edited, overtaken>>

(* A value other than the one written ends the wait for the write. *)
Overtakes(s) ==
  {p \in DOMAIN pm.waitingWriteParamNameMap \ DOMAIN s.waitingWriteParamNameMap :
     s.factMap[p] # pm.factMap[p]}

MessageReceived ==
  /\ toGcs # <<>> /\ toGcs' = Tail(toGcs)
  /\ LET msg == Head(toGcs)
         s   == IF msg.kind = "HASH" THEN HandleHashCheck(pm, msg.comp, msg.values)
                ELSE HandleParamValue(pm, msg)
     IN  Becomes(s) /\ overtaken' = overtaken \cup Overtakes(s)
  /\ UNCHANGED <<values, listing, failureMode, link, events, edited>>

--------------------------------------------------------------------------------
Silent(p) == failureMode = "missingAlways" /\ p = <<DefaultComponent, 0>>
Skipped(p) == failureMode \in {"missingOnInitial", "missingAlways"} /\ p = <<DefaultComponent, 0>>

(* PX4 has the checksum of its values precede the list, and stops sending  *)
(* when it is returned.                                                    *)
HandleParamRequestList ==
  IF failureMode = "noListResponse" THEN UNCHANGED <<listing, toGcs>>
  ELSE /\ listing' = InOrder({p \in Params : ~Skipped(p)})
       /\ toGcs' = toGcs \o (IF ~Px4Firmware THEN <<>>
            ELSE <<HashMsg(DefaultComponent, Restrict(values, ParamsOf(DefaultComponent)))>>)

HandleParamRequestRead(p) ==
  /\ toGcs' = IF Silent(p) THEN toGcs ELSE Append(toGcs, ValueMsg(p, values[p], TRUE))
  /\ UNCHANGED listing

HandleParamSet(p, v) ==
  /\ values' = [values EXCEPT ![p] = v]
  /\ toGcs' = Append(toGcs, ValueMsg(p, v, TRUE))
  /\ UNCHANGED listing

VehicleReceives ==
  /\ toVehicle # <<>> /\ toVehicle' = Tail(toVehicle)
  /\ LET msg == Head(toVehicle)
     IN  \/ msg.kind = "LIST" /\ HandleParamRequestList /\ UNCHANGED values
         \/ msg.kind = "READ" /\ HandleParamRequestRead(msg.param) /\ UNCHANGED values
         \/ msg.kind = "SET" /\ HandleParamSet(msg.param, msg.value)
         \/ msg.kind = "HASH" /\ listing' = <<>> /\ UNCHANGED <<values, toGcs>>
  /\ UNCHANGED <<pm, failureMode, link, events, edited, overtaken>>

ParamRequestListWorker ==
  /\ listing # <<>> /\ Len(toGcs) < MaxInFlight
  /\ listing' = Tail(listing)
  /\ toGcs' = Append(toGcs, ValueMsg(Head(listing), values[Head(listing)], TRUE))
  /\ UNCHANGED <<pm, values, failureMode, link, toVehicle, events, edited, overtaken>>

(* The link loses a message. *)
Lose ==
  /\ \/ toVehicle # <<>> /\ toVehicle' = Tail(toVehicle) /\ UNCHANGED toGcs
     \/ toGcs # <<>> /\ toGcs' = Tail(toGcs) /\ UNCHANGED toVehicle
  /\ UNCHANGED <<pm, values, listing, failureMode, link, edited, overtaken>>

--------------------------------------------------------------------------------
(* The user gives a parameter a value it never had: here, the number of    *)
(* the event.                                                              *)
UserWrites(p, v) ==
  /\ p \in DOMAIN pm.factMap
  /\ Becomes(WriteParameter([pm EXCEPT !.writesFailed = @ \ {p}], p, v))
  /\ edited' = With(edited, p, v) /\ overtaken' = overtaken \ {p}
  /\ UNCHANGED <<values, listing, failureMode, link, toGcs>>

UserReads(p) ==
  /\ p \in DOMAIN pm.factMap
  /\ Becomes(RefreshParameter(pm, p))
  /\ UNCHANGED <<values, listing, failureMode, link, toGcs, edited, overtaken>>

UserRefreshes ==
  /\ Becomes(RefreshAllParameters(pm, link))
  /\ UNCHANGED <<values, listing, failureMode, link, toGcs, edited, overtaken>>

(* The vehicle streams a parameter unasked, as ArduPilot does. *)
Streams(p) ==
  /\ toGcs' = Append(toGcs, ValueMsg(p, values[p], FALSE))
  /\ UNCHANGED <<pm, values, listing, failureMode, link, toVehicle, edited, overtaken>>

LinkChanges(kind) ==
  /\ kind # link /\ link' = kind
  /\ UNCHANGED <<pm, values, listing, failureMode, toVehicle, toGcs, edited, overtaken>>

(* The vehicle is closed and heard of again: only the disk remembers. *)
Reconnects ==
  /\ link # "none"
  /\ Becomes(RefreshAllParameters(NewManager(pm.cache), link))
  /\ edited' = Nothing /\ overtaken' = {}
  /\ UNCHANGED <<values, listing, failureMode, link, toGcs>>

Event ==
  /\ events < MaxEvents /\ events' = events + 1
  /\ \/ \E p \in Params : UserWrites(p, events') \/ UserReads(p) \/ Streams(p)
     \/ UserRefreshes
     \/ \E kind \in LinkKinds : LinkChanges(kind)
     \/ Reconnects
     \/ Lose

Next ==
  \/ RequestTimesOut
  \/ WaitTimesOut
  \/ MessageReceived
  \/ VehicleReceives
  \/ ParamRequestListWorker
  \/ Event

Spec == Init /\ [][Next]_vars

--------------------------------------------------------------------------------
TypeOK ==
  /\ DOMAIN pm.factMap \subseteq Params /\ pm.paramCountMap \subseteq Components
  /\ \A p \in DOMAIN pm.waitingReadParamIndexMap : pm.waitingReadParamIndexMap[p] \in 0 .. MaxIndexRetry
  /\ \A p \in DOMAIN pm.waitingWriteParamNameMap : pm.waitingWriteParamNameMap[p] \in 0 .. MaxReadWriteRetry
  /\ values \in [Params -> 0 .. MaxEvents] /\ pm.outbox = <<>>

Named(s) == DOMAIN s.waitingReadParamNameMap \cup DOMAIN s.waitingWriteParamNameMap

(* Three lists share one timer, and each handler decides anew whether it   *)
(* runs: a read or write by name always has it, and so has the load from   *)
(* the first parameter of the autopilot until it is complete               *)
(* (_handleParamValue, _waitingParamTimeout).                              *)
WaitsAreTimed ==
  /\ Named(pm) # {} => pm.waitingParamTimer
  /\ HasDefault(pm) /\ ~pm.parametersReady => pm.waitingParamTimer \/ pm.initialRequestTimer

(* ParameterManager.h:43, "false: all parameters received from firmware":  *)
(* when the parameters are ready and none is said to be missing, every one *)
(* of every component heard of is known, through losses, timeouts, values  *)
(* in any order and a load from disk (_checkInitialLoadComplete).          *)
ReadyIsComplete ==
  [][ ~pm.parametersReady /\ pm'.parametersReady /\ ~pm'.missingParameters
        => \A comp \in pm'.paramCountMap : ParamsOf(comp) \subseteq DOMAIN pm'.factMap ]_vars

(* A write that is no longer waited for has reached the vehicle, or the    *)
(* user was told that it failed, unless another value overtook it; what    *)
(* the station shows is then what the vehicle has (_handleParamValue,      *)
(* _waitingParamTimeout).                                                  *)
EditsArriveOrFail ==
  \A p \in DOMAIN edited \ (DOMAIN pm.waitingWriteParamNameMap \cup pm.writesFailed \cup overtaken) :
    values[p] = edited[p] /\ pm.factMap[p] = edited[p]

TriesOf(f, max) == Cardinality({t \in (DOMAIN f) \X (0 .. max) : f[t[1]] <= t[2]})

TriesLeft(s) ==
  TriesOf(s.waitingReadParamIndexMap, MaxIndexRetry)
    + TriesOf(s.waitingReadParamNameMap, MaxReadWriteRetry)
    + TriesOf(s.waitingWriteParamNameMap, MaxReadWriteRetry)

(* Every other timeout may go to waiting for the autopilot. *)
TimeoutsLeft(s) ==
  2 * TriesLeft(s) + (IF s.waitingParamTimer THEN 2 ELSE 0)
    - (IF s.waitingForDefaultComponent THEN 1 ELSE 0)

(* No wait goes on for ever, with or without a link: it has its timer, a   *)
(* timeout costs one of the waits a try, and only the user, a new          *)
(* component or the next of the counted first requests gives tries back    *)
(* (_fillIndexBatchQueue, _waitingParamTimeout, where reads by name are    *)
(* put off by all others).                                                 *)
WaitsEnd ==
  [][ /\ WaitsAreTimed'
      /\ WaitTimesOut => TimeoutsLeft(pm') < TimeoutsLeft(pm)
      /\ /\ events' = events
         /\ pm'.paramCountMap = pm.paramCountMap
         /\ pm'.initialRequestRetryCount = pm.initialRequestRetryCount
         => TriesLeft(pm') <= TriesLeft(pm) ]_vars
================================================================================
