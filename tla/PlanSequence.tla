---------------------------- MODULE PlanSequence ----------------------------
(***************************************************************************)
(* The Plan view and the first connect of every vehicle at work on the     *)
(* same managers.  InitialConnect and PlanMaster translate the code; an    *)
(* action here is one event of the event loop: an answer from a vehicle,   *)
(* the end of a transaction of a manager, a press of a button, a change of *)
(* the active vehicle (MultiVehicleManager) or of a vehicle's primary link *)
(* (VehicleLinkManager).                                                   *)
(***************************************************************************)
EXTENDS PlanMaster

CONSTANTS
    Supported,      \* [Vehicles -> SUBSET Elements]
    Connected,      \* the vehicles whose connect sequence is over at the start
    LinkKinds,      \* what a primary link may turn into
    MaxEvents       \* bound on the events that are not answers

ASSUME ConnectedAreVehicles == Connected \subseteq Vehicles
ASSUME SupportedElements == Supported \in [Vehicles -> SUBSET Elements]
ASSUME LinkKindsAreKinds == LinkKinds \subseteq {"none", "normal", "highLatency"}
ASSUME MaxEventsIsNat == MaxEvents \in Nat

VARIABLES
    car,            \* the record of each vehicle
    plan,           \* the record of the Plan view
    (* history *)
    events,         \* how many events there have been
    heard,          \* per vehicle, the steps that have been answered
    disturbed,      \* vehicles whose connect the user's loads or a change of link overlapped
    hindered,       \* vehicles a step of whose connect could not be carried out
    uploadTo,       \* the vehicle the user last asked to upload the plan to
    givenUpFor,     \* the vehicle for whose plan the user gave up the one on view, until the
                    \* first edit with nothing of it pending
    noted,          \* the controllers that hold a request nobody made
    switched,       \* the active vehicle has changed with flags or requests pending
    refused         \* an element could not be loaded or sent because its manager was busy

vars == << car, plan, events, heard, disturbed, hindered, uploadTo, givenUpFor, noted,
           switched, refused >>

world == [car |-> car, plan |-> plan]

Idlers == {v \in Vehicles : \A e \in Elements : Idle(car[v], e)}

Connecting(v) == car[v].at # EndOfSteps

Writes == {"send", "remove", "resume", "guided"}

\* The step a vehicle is at cannot do what it is there for.
Hindered(u) ==
    \/ /\ u.at = StepOf("parameters")
       /\ u.link = "none" /\ "parameters" \notin u.asked
    \/ \E e \in Elements : u.at = StepOf(e) /\ u.job[e] \in Writes

\* The element that comes after the one whose transaction ends is wanted and cannot be had.
Refused(w, ended) ==
    \/ /\ ended = "mission"
       /\ w.plan.flags \cap {"loadGeoFence", "sendGeoFence"} # {}
       /\ Supports(w, "fence") /\ Busy(w, "fence")
    \/ /\ Supports(w, "rally") /\ Busy(w, "rally")
       /\ \/ ended = "fence" /\ w.plan.flags \cap {"loadRallyPoints", "sendRallyPoints"} # {}
          \/ /\ ended = "mission" /\ ~Supports(w, "fence")
             /\ w.plan.flags \cap {"loadGeoFence", "sendGeoFence"} # {}

Move(w) ==
    /\ car' = w.car
    /\ plan' = w.plan
    /\ hindered' = hindered \cup {v \in Vehicles : Hindered(w.car[v])}

Become(w) == Move(w) /\ noted' = noted \cap w.plan.requested

\* What is requested now and was not before has not been asked for by the user.
BecomeNoting(w) ==
    Move(w) /\ noted' = (noted \cup (Elements \ plan.requested)) \cap w.plan.requested

Wanted == plan.requested \ noted

Count == events < MaxEvents /\ events' = events + 1

-----------------------------------------------------------------------------
(* Answers.                                                                *)

Heard(v, step) ==
    /\ heard' = [heard EXCEPT ![v] = @ \cup {step}]
    /\ UNCHANGED << events, disturbed, uploadTo, givenUpFor, switched >>

Answered(v, step) ==
    /\ step \in car[v].asked
    /\ Become([world EXCEPT !.car[v] = IF step \in WithHandler THEN HandlerCalled(@, step)
                                       ELSE ParametersReady(@)])
    /\ Heard(v, step)
    /\ UNCHANGED refused

\* A load ends with items or with an empty list, which is also what an error leaves.
LoadEnds(v, e) ==
    /\ car[v].job[e] = "load"
    /\ \E filled \in BOOLEAN : Become(LoadEnded(world, v, e, filled))
    /\ Heard(v, e)
    /\ refused' = (refused \/ (v = plan.vehicle /\ Refused(world, e)))

\* sendComplete carries an error that no slot of the Plan view looks at.
SendEnds(v, e) ==
    /\ car[v].job[e] \in {"send", "resume"}
    /\ \E filled \in BOOLEAN : Become(SendEnded(world, v, e, filled))
    /\ refused' = (refused \/ (v = plan.vehicle /\ Refused(world, e)))
    /\ UNCHANGED << events, heard, disturbed, uploadTo, givenUpFor, switched >>

RemoveEnds(v, e) ==
    /\ car[v].job[e] = "remove"
    /\ \E ok \in BOOLEAN : BecomeNoting(RemoveEnded(world, v, e, ok))
    /\ UNCHANGED << events, heard, disturbed, uploadTo, givenUpFor, switched, refused >>

GuidedEnds(v) ==
    /\ car[v].job["mission"] = "guided"
    /\ Become(Ended(world, v, "mission", "mission" \in car[v].listed))
    /\ UNCHANGED << events, heard, disturbed, uploadTo, givenUpFor, switched, refused >>

-----------------------------------------------------------------------------
(* The Plan view.  Its buttons are enabled with a vehicle and no           *)
(* transaction of that vehicle under way.                                  *)

Online == ~IsOffline(world)

ButtonsEnabled == Online /\ ~SyncInProgress(world)

Download ==
    /\ Count
    /\ ButtonsEnabled
    /\ car[plan.vehicle].link = "normal"
    /\ Become(LoadFromVehicle(world))
    /\ disturbed' = IF Connecting(plan.vehicle) THEN disturbed \cup {plan.vehicle}
                    ELSE disturbed
    /\ givenUpFor' = plan.vehicle
    /\ UNCHANGED << heard, uploadTo, switched, refused >>

Upload ==
    /\ Count
    /\ ButtonsEnabled /\ ContainsItems(plan)
    /\ car[plan.vehicle].link = "normal"
    /\ Become(SendToVehicle(world))
    /\ uploadTo' = plan.vehicle
    /\ UNCHANGED << heard, disturbed, givenUpFor, switched, refused >>

Clear ==
    /\ Count
    /\ ButtonsEnabled
    /\ Become(RemoveAllFromVehicle(world))
    /\ givenUpFor' = plan.vehicle
    /\ UNCHANGED << heard, disturbed, uploadTo, switched, refused >>

Edit(e) ==
    /\ Count
    /\ Become([world EXCEPT !.plan.view[e] = "user"])
    /\ givenUpFor' = IF Wanted = {} /\ plan.flags = {} THEN Offline ELSE givenUpFor
    /\ UNCHANGED << heard, disturbed, uploadTo, switched, refused >>

\* promptForPlanUsageOnVehicleChangePopupComponent of PlanView.qml: show the vehicle's plan,
\* or keep the one there is, which makes it dirty unless there is no vehicle.
AnswerPrompt ==
    /\ plan.prompt
    /\ LET w == [world EXCEPT !.plan.prompt = FALSE]
           kept == [w EXCEPT !.plan.view =
                        [e \in Elements |-> IF @[e] = "empty" THEN "empty" ELSE "user"]]
       IN  \/ /\ Become(IF Online THEN ShowPlanFromManagerVehicle(w) ELSE RemoveAll(w))
              /\ givenUpFor' = plan.vehicle
           \/ /\ Become(IF Online THEN kept ELSE w)
              /\ UNCHANGED givenUpFor
    /\ UNCHANGED << events, heard, disturbed, uploadTo, switched, refused >>

-----------------------------------------------------------------------------
(* What else happens around it.                                            *)

Switch(to) ==
    /\ Count
    /\ to # plan.vehicle
    /\ BecomeNoting(ActiveVehicleChanged(world, to))
    /\ switched' = (switched \/ plan.flags # {} \/ plan.requested # {})
    /\ UNCHANGED << heard, disturbed, uploadTo, givenUpFor, refused >>

\* The Fly view writes to the active vehicle: the mission to resume with, the item of a
\* guided go-to (ArduPilot), the removal of the plan once the flight is over.
FlyViewStarts(e, what) ==
    /\ Count
    /\ Online
    /\ Idle(car[plan.vehicle], e)
    /\ Become([world EXCEPT !.car[plan.vehicle] = StartJob(@, e, what)])
    /\ UNCHANGED << heard, disturbed, uploadTo, givenUpFor, switched, refused >>

ResumeMission == FlyViewStarts("mission", "resume")
GuidedGoto    == FlyViewStarts("mission", "guided")

FlyViewRemovesAll ==
    /\ Count
    /\ Online
    /\ LET u == car[plan.vehicle]
           removable == {"mission"} \cup u.supported
           free == {e \in removable : Idle(u, e)}
       IN  Become([world EXCEPT !.car[plan.vehicle].job =
                       [e \in Elements |-> IF e \in free THEN "remove" ELSE @[e]],
                                !.car[plan.vehicle].listed = @ \ free])
    /\ UNCHANGED << heard, disturbed, uploadTo, givenUpFor, switched, refused >>

LinkChanges(v, kind) ==
    /\ Count
    /\ car[v].link # kind
    /\ Become([world EXCEPT !.car[v].link = kind])
    /\ disturbed' = disturbed \cup {v}
    /\ UNCHANGED << heard, uploadTo, givenUpFor, switched, refused >>

-----------------------------------------------------------------------------

\* The vehicles before any of them is the active one.
StartWorld ==
    [ car |-> [v \in Vehicles |->
                LET u == NewVehicle("normal", Supported[v])
                IN  IF v \in Connected
                    THEN [u EXCEPT !.at = EndOfSteps, !.asked = {}, !.slots = {},
                                   !.planComplete = TRUE, !.listed = Supported[v]]
                    ELSE u],
      plan |-> [ vehicle |-> Offline, flags |-> {}, requested |-> {},
                 view |-> [e \in Elements |-> "empty"], prompt |-> FALSE ] ]

\* The session is looked at from a change of the active vehicle on.
Init ==
    /\ \E v \in Vehicles :
        LET w == ActiveVehicleChanged(StartWorld, v)
        IN  car = w.car /\ plan = w.plan /\ noted = w.plan.requested
    /\ events = 0
    /\ heard = [v \in Vehicles |-> {}]
    /\ disturbed = Connected
    /\ hindered = {}
    /\ uploadTo = Offline
    /\ givenUpFor = Offline
    /\ switched = FALSE
    /\ refused = FALSE

VehicleAnswers(v) ==
    \/ \E step \in StepNames : Answered(v, step)
    \/ \E e \in Elements : LoadEnds(v, e) \/ SendEnds(v, e) \/ RemoveEnds(v, e)
    \/ GuidedEnds(v)

VehicleNext == \E v \in Vehicles : VehicleAnswers(v)

UserNext ==
    \/ Download \/ Upload \/ Clear \/ AnswerPrompt
    \/ \E e \in Elements : Edit(e)
    \/ \E to \in Vehicles \cup {Offline} : Switch(to)
    \/ ResumeMission \/ GuidedGoto \/ FlyViewRemovesAll

LinkNext == \E v \in Vehicles, kind \in LinkKinds : LinkChanges(v, kind)

Next == VehicleNext \/ UserNext \/ LinkNext

Spec == Init /\ [][Next]_vars

-----------------------------------------------------------------------------

TypeOK ==
    /\ car \in [Vehicles -> VehicleRecord]
    /\ plan \in PlanRecord
    /\ events \in 0 .. MaxEvents
    /\ heard \in [Vehicles -> SUBSET StepNames]
    /\ disturbed \subseteq Vehicles /\ hindered \subseteq Vehicles
    /\ uploadTo \in Vehicles \cup {Offline} /\ givenUpFor \in Vehicles \cup {Offline}
    /\ noted \subseteq Elements
    /\ switched \in BOOLEAN /\ refused \in BOOLEAN

\* The connect sequence of a vehicle reaches a step only when every step before it has been
\* answered, the elements the vehicle does not support aside, unless a load of the user's or a
\* change of link has got in between: the slots advance the machine without looking at the step
\* it is at (Vehicle.cc:2329).
ConnectInOrder ==
    \A v \in Vehicles \ disturbed :
        \A i \in 1 .. (car[v].at - 1) :
            \/ Steps[i] \in heard[v]
            \/ Steps[i] \in (Elements \ car[v].supported) \cup {"SignalComplete"}

\* Whatever the user does meanwhile, a vehicle whose connect sequence is not over has an answer
\* or the end of a transaction to come, which takes the sequence further, unless one of its
\* steps found the manager it needs busy writing, or the vehicle had no link when its turn
\* came to ask for the parameters: the
\* slots supply as many advances as there are steps (InitialConnectStateMachine.cc:302).
ConnectNeverStalls ==
    \A v \in Vehicles :
        Connecting(v) => \/ car[v].asked # {}
                         \/ \E e \in Elements : car[v].job[e] = "load"
                         \/ v \in hindered

\* A fence or rally points are sent to no vehicle but the one the user asked to upload to, and
\* only when the transaction that sent the element before them has ended there, unless the
\* active vehicle changed with an upload under way (PlanMasterController.cc:281).
UploadsInTurn ==
    [][ \A v \in Vehicles, e \in {"fence", "rally"} :
            car[v].job[e] # "send" /\ car'[v].job[e] = "send" =>
                \/ switched
                \/ /\ v = uploadTo
                   /\ \E before \in Elements \ {e} :
                        /\ car[v].job[before] = "send" /\ car'[v].job[before] = "none"
                        /\ \/ e = "fence" /\ before = "mission"
                           \/ e = "rally" /\ before = "fence"
                           \/ e = "rally" /\ before = "mission" /\ ~Supports(world, "fence") ]_vars

\* A flag of the Plan view that is set is about a transaction that is under way and will clear
\* it, unless the active vehicle changed meanwhile or the manager of an element was busy when
\* its turn came (PlanMasterController.cc:243, :260, :281, :297).
FlagsFollowJobs ==
    LET doing(e) == IF Online THEN car[plan.vehicle].job[e] ELSE "none"
    IN  \/ switched \/ refused
        \/ /\ "loadGeoFence"    \in plan.flags => doing("mission") = "load"
           /\ "loadRallyPoints" \in plan.flags => doing("fence") = "load"
           /\ "sendGeoFence"    \in plan.flags => doing("mission") = "send"
           /\ "sendRallyPoints" \in plan.flags => doing("fence") = "send"

\* The end of a load replaces items the user has edited only if the user gave them up for those of
\* that vehicle and that has not been carried out before the edit, unless the active vehicle
\* changed with flags or requests pending (MissionController.cc:157).  The fence is also replaced
\* on a request its controller noted by itself, while it waited for a transfer to end
\* (GeoFenceController.cc:390).
EditsKept ==
    [][ \A v \in Vehicles, e \in Elements :
            /\ car[v].job[e] = "load" /\ car'[v].job[e] # "load"
            /\ plan.view[e] = "user" /\ plan'.view[e] \notin {"user", "saved"}
            => \/ switched \/ givenUpFor = v
               \/ e = "fence" /\ e \in noted ]_vars
=============================================================================
