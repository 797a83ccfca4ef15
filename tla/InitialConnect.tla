--------------------------- MODULE InitialConnect ---------------------------
(***************************************************************************)
(* The sequence of steps a Vehicle runs when it is first heard of          *)
(* (InitialConnectStateMachine.cc on StateMachine.cc), and the part of the *)
(* vehicle it reads and writes.  The operators work on one record `u` per  *)
(* vehicle:                                                                *)
(*   at          the step the machine is at: a position in Steps, 0 before *)
(*               start, EndOfSteps once it is no longer active             *)
(*   asked       the steps whose answer comes through a handler of their   *)
(*               own and has not come                                      *)
(*   slots       the signals Vehicle's constructor connects to the machine *)
(*               and that have not been disconnected since                 *)
(*   planComplete  _initialPlanRequestComplete                             *)
(*   link        the primary link: "none", "normal" or "highLatency" (a    *)
(*               PX4 Flow or a log replay link skips the same steps)       *)
(*   supported   the plan elements the vehicle supports                    *)
(*   job         what the manager of each plan element is busy with: the   *)
(*               transaction of PlanManager, one step from its start to    *)
(*               the signal that it has ended                              *)
(*   listed      the elements whose manager has items in its list          *)
(* A step that has nothing to wait for calls the next one before it        *)
(* returns, so the steps are defined from the last to the first.           *)
(***************************************************************************)
EXTENDS Naturals, Sequences

Elements == {"mission", "fence", "rally"}

\* "resume" and "guided" are writes of the mission manager: both keep it busy, the second
\* ends without the signal sendComplete.
Jobs == {"none", "load", "send", "remove", "resume", "guided"}

Steps == << "AutopilotVersion", "ProtocolVersion", "CompInfo", "parameters",
            "mission", "fence", "rally", "SignalComplete" >>

EndOfSteps == Len(Steps) + 1

StepNames == {Steps[i] : i \in DOMAIN Steps}

\* The steps whose answer reaches the machine through a handler passed with the request.
WithHandler == {"AutopilotVersion", "ProtocolVersion", "CompInfo"}

VehicleRecord ==
    [ at           : 0 .. EndOfSteps,
      asked        : SUBSET (WithHandler \cup {"parameters"}),
      slots        : SUBSET (Elements \cup {"parameters"}),
      planComplete : BOOLEAN,
      link         : {"none", "normal", "highLatency"},
      supported    : SUBSET Elements,
      job          : [Elements -> Jobs],
      listed       : SUBSET Elements ]

Idle(u, e) == u.job[e] = "none"

\* loadFromVehicle, writeMissionItems and removeAll of PlanManager: refused without a word while
\* a transaction is in progress.  A removal empties the list before it starts.
StartJob(u, e, what) ==
    IF Idle(u, e)
    THEN [u EXCEPT !.job[e] = what,
                   !.listed = IF what = "remove" THEN @ \ {e} ELSE @]
    ELSE u

\* A transaction ends, and leaves the list with items in it or without.
EndJob(u, e, filled) ==
    [u EXCEPT !.job[e] = "none", !.listed = IF filled THEN @ \cup {e} ELSE @ \ {e}]

\* What _firstMissionLoadComplete and the like do before they advance the machine.
Disconnected(u, e) ==
    [u EXCEPT !.slots = @ \ {e}, !.planComplete = @ \/ e = "rally"]

StepOf(step) == CHOOSE i \in DOMAIN Steps : Steps[i] = step

At(u, step) == [u EXCEPT !.at = StepOf(step)]

-----------------------------------------------------------------------------

StatesCompleted(u) == [u EXCEPT !.at = EndOfSteps]

StateSignalInitialConnectComplete(u) == StatesCompleted(At(u, "SignalComplete"))

\* The last two elements are asked for only of a vehicle that supports them.
StateRequestRallyPoints(u0) ==
    LET u == At(u0, "rally")
    IN  CASE u.link = "none" -> StateSignalInitialConnectComplete(u)
          [] u.link = "normal" /\ "rally" \in u.supported -> StartJob(u, "rally", "load")
          [] OTHER -> StateSignalInitialConnectComplete(Disconnected(u, "rally"))

\* Mutant of StateRequestGeoFence: the step that skips the fence forgets to go on.
StateRequestGeoFenceStaying(u0) ==
    LET u == At(u0, "fence")
    IN  CASE u.link = "none" -> StateRequestRallyPoints(u)
          [] u.link = "normal" /\ "fence" \in u.supported -> StartJob(u, "fence", "load")
          [] OTHER -> Disconnected(u, "fence")

StateRequestGeoFence(u0) ==
    LET u == At(u0, "fence")
    IN  CASE u.link = "none" -> StateRequestRallyPoints(u)
          [] u.link = "normal" /\ "fence" \in u.supported -> StartJob(u, "fence", "load")
          [] OTHER -> StateRequestRallyPoints(Disconnected(u, "fence"))

\* Mutant of StateRequestMission: the step starts the load and goes on to the next one.
StateRequestMissionGoingOn(u0) ==
    LET u == At(u0, "mission")
    IN  CASE u.link = "none" -> StateRequestGeoFence(u)
          [] u.link = "normal" -> StateRequestGeoFence(StartJob(u, "mission", "load"))
          [] OTHER -> StateRequestGeoFence(Disconnected(u, "mission"))

StateRequestMission(u0) ==
    LET u == At(u0, "mission")
    IN  CASE u.link = "none" -> StateRequestGeoFence(u)
          [] u.link = "normal" -> StartJob(u, "mission", "load")
          [] OTHER -> StateRequestGeoFence(Disconnected(u, "mission"))

\* Vehicle::_parametersReady: the signal is taken once, and advances the machine wherever it
\* is; here as it is emitted from within the step of the parameters.
StateRequestParameters(u0) ==
    LET u == At(u0, "parameters")
    IN  CASE u.link = "none" -> u
          [] u.link = "normal" -> [u EXCEPT !.asked = @ \cup {"parameters"}]
          [] OTHER -> StateRequestMission(Disconnected(u, "parameters"))

StateRequestCompInfo(u) ==
    [At(u, "CompInfo") EXCEPT !.asked = @ \cup {"CompInfo"}]

StateRequestProtocolVersion(u0) ==
    LET u == At(u0, "ProtocolVersion")
    IN  IF u.link = "normal" THEN [u EXCEPT !.asked = @ \cup {"ProtocolVersion"}]
        ELSE StateRequestCompInfo(u)

StateRequestAutopilotVersion(u0) ==
    LET u == At(u0, "AutopilotVersion")
    IN  IF u.link = "normal" THEN [u EXCEPT !.asked = @ \cup {"AutopilotVersion"}]
        ELSE StateRequestProtocolVersion(u)

\* StateMachine::advance: one step on from wherever the machine is, while it is active.
Advance(u) ==
    CASE u.at = 0 -> StateRequestAutopilotVersion(u)
      [] u.at = 1 -> StateRequestProtocolVersion(u)
      [] u.at = 2 -> StateRequestCompInfo(u)
      [] u.at = 3 -> StateRequestParameters(u)
      [] u.at = 4 -> StateRequestMission(u)
      [] u.at = 5 -> StateRequestGeoFence(u)
      [] u.at = 6 -> StateRequestRallyPoints(u)
      [] u.at = 7 -> StateSignalInitialConnectComplete(u)
      [] u.at = 8 -> StatesCompleted(u)
      [] OTHER -> u

-----------------------------------------------------------------------------

\* A vehicle as its constructor leaves it, its machine started.
NewVehicle(link, supported) ==
    Advance([ at |-> 0, asked |-> {}, slots |-> Elements \cup {"parameters"},
              planComplete |-> FALSE, link |-> link, supported |-> supported,
              job |-> [e \in Elements |-> "none"], listed |-> {} ])

\* The handler of a request of the machine: every outcome of the request advances it.
HandlerCalled(u, step) == Advance([u EXCEPT !.asked = @ \ {step}])

\* parametersReadyChanged, from a ParameterManager that has been asked.
ParametersReady(u) ==
    LET answered == [u EXCEPT !.asked = @ \ {"parameters"}]
    IN  IF "parameters" \in u.slots THEN Advance(Disconnected(answered, "parameters"))
        ELSE answered

\* _firstMissionLoadComplete, _firstGeoFenceLoadComplete, _firstRallyPointLoadComplete: the
\* first load of an element to end advances the machine, whoever had asked for the load.
FirstLoadComplete(u, e) ==
    IF e \in u.slots THEN Advance(Disconnected(u, e)) ELSE u
=============================================================================
