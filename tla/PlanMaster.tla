----------------------------- MODULE PlanMaster -----------------------------
(***************************************************************************)
(* The Plan view's PlanMasterController with its three element controllers *)
(* (MissionController, GeoFenceController, RallyPointController).  The     *)
(* operators work on a record `w` that holds the vehicles and the          *)
(* controller:                                                             *)
(*   car   the record of InitialConnect of each vehicle                    *)
(*   plan  [ vehicle         _managerVehicle, Offline for the vehicle of   *)
(*                           offline editing                               *)
(*           flags           the members of _loadGeoFence,                 *)
(*                           _loadRallyPoints, _sendGeoFence and           *)
(*                           _sendRallyPoints that are set                 *)
(*           requested       the controllers whose _itemsRequested is set  *)
(*           view            where the items each controller shows come    *)
(*                           from: a vehicle, the user ("user" while the   *)
(*                           controller is dirty, "saved" once it is told  *)
(*                           that it is not), or "empty"                   *)
(*           prompt          the user is being asked what to do with a     *)
(*                           plan of another vehicle ]                     *)
(***************************************************************************)
EXTENDS InitialConnect

CONSTANTS
    Vehicles,       \* the vehicles of the session
    Offline         \* _controllerVehicle, the vehicle of offline editing

ASSUME OfflineIsNoVehicle == Offline \notin Vehicles

Flags == {"loadGeoFence", "loadRallyPoints", "sendGeoFence", "sendRallyPoints"}

Origins == Vehicles \cup {"user", "saved", "empty"}

PlanRecord ==
    [ vehicle : Vehicles \cup {Offline}, flags : SUBSET Flags,
      requested : SUBSET Elements, view : [Elements -> Origins], prompt : BOOLEAN ]

IsOffline(w) == w.plan.vehicle = Offline

Busy(w, e) == ~IsOffline(w) /\ ~Idle(w.car[w.plan.vehicle], e)

SyncInProgress(w) == \E e \in Elements : Busy(w, e)

Listed(w) == w.car[w.plan.vehicle].listed

Supports(w, e) == ~IsOffline(w) /\ e \in w.car[w.plan.vehicle].supported

ContainsItems(p) == \E e \in Elements : p.view[e] # "empty"

Dirty(p) == \E e \in Elements : p.view[e] = "user"

\* PlanMasterController::setDirty(false), which tells each controller.
SetClean(w) ==
    [w EXCEPT !.plan.view =
        [e \in Elements |-> IF @[e] = "user" THEN "saved" ELSE @[e]]]

SetFlag(w, flag)   == [w EXCEPT !.plan.flags = @ \cup {flag}]
ClearFlag(w, flag) == [w EXCEPT !.plan.flags = @ \ {flag}]

Emptied(w, elements) ==
    [w EXCEPT !.plan.view =
        [e \in Elements |-> IF e \in elements THEN "empty" ELSE @[e]]]

-----------------------------------------------------------------------------
(* The element controllers.  Each refuses, with a line in the log, while   *)
(* its manager is busy or there is no vehicle.                             *)

CanSync(w, e) == ~IsOffline(w) /\ ~Busy(w, e)

ControllerLoad(w, e) ==
    IF CanSync(w, e)
    THEN [w EXCEPT !.plan.requested = @ \cup {e},
                   !.car[w.plan.vehicle] = StartJob(@, e, "load")]
    ELSE w

ControllerSend(w, e) ==
    IF CanSync(w, e)
    THEN [w EXCEPT !.plan.view[e] = IF @ = "user" THEN "saved" ELSE @,
                   !.car[w.plan.vehicle] = StartJob(@, e, "send")]
    ELSE w

\* Only the mission's controller asks for the items that are left.
ControllerRemoveAllFromVehicle(w, e) ==
    IF CanSync(w, e)
    THEN [w EXCEPT !.plan.requested = IF e = "mission" THEN @ \cup {e} ELSE @,
                   !.car[w.plan.vehicle] = StartJob(@, e, "remove")]
    ELSE w

\* Mutant of TakeItems: the controllers keep to what was asked for once it has been taken.
TakeItemsAgain(w, e) ==
    IF e \in w.plan.requested \/ w.plan.view[e] = "empty"
    THEN [w EXCEPT !.plan.view[e] = IF e \in Listed(w) THEN w.plan.vehicle ELSE "empty"]
    ELSE w

\* _newMissionItemsAvailableFromVehicle and the two _managerLoadComplete, in the Plan view.
TakeItems(w, e) ==
    LET shown == IF e \in w.plan.requested \/ w.plan.view[e] = "empty"
                 THEN [w EXCEPT !.plan.view[e] = IF e \in Listed(w) THEN w.plan.vehicle
                                                 ELSE "empty"]
                 ELSE w
    IN  [shown EXCEPT !.plan.requested = @ \ {e}]

\* What makes showPlanFromManagerVehicle of a controller wait for a signal instead.
Waits(w, e) == Busy(w, e) \/ ~w.car[w.plan.vehicle].planComplete

\* The fence's controller notes the request before it finds that it has to wait.
Noted(w, e) ==
    IF e = "fence" THEN [w EXCEPT !.plan.requested = @ \cup {e}] ELSE w

ShowElement(w, e) ==
    IF Waits(w, e) THEN Noted(w, e)
    ELSE TakeItems([w EXCEPT !.plan.requested = @ \cup {e}], e)

-----------------------------------------------------------------------------
(* PlanMasterController.                                                   *)

\* removeAll, called offline: the view is emptied and is clean.
RemoveAll(w) == Emptied(w, Elements)

\* _showPlanFromManagerVehicle: one controller that waits stops the ones after it.
ShowPlanFromManagerVehicle(w0) ==
    LET w == IF SyncInProgress(w0) THEN w0
             ELSE [w0 EXCEPT !.car[w0.plan.vehicle].planComplete = TRUE]
        mission == ShowElement(w, "mission")
        fence   == ShowElement(mission, "fence")
    IN  IF Waits(w, "mission") THEN mission
        ELSE IF Waits(mission, "fence") THEN fence
        ELSE ShowElement(fence, "rally")

LoadGeoFenceComplete(w) ==
    IF "loadRallyPoints" \notin w.plan.flags THEN w
    ELSE LET next == ClearFlag(w, "loadRallyPoints")
         IN  SetClean(IF Supports(w, "rally") THEN ControllerLoad(next, "rally")
                      ELSE Emptied(next, {"rally"}))

LoadMissionComplete(w) ==
    IF "loadGeoFence" \notin w.plan.flags THEN w
    ELSE LET next == SetFlag(ClearFlag(w, "loadGeoFence"), "loadRallyPoints")
         IN  SetClean(IF Supports(w, "fence") THEN ControllerLoad(next, "fence")
                      ELSE LoadGeoFenceComplete(Emptied(next, {"fence"})))

\* Mutant of SendGeoFenceComplete: the rally points stay to be sent.
SendGeoFenceCompleteKeeping(w) ==
    IF "sendRallyPoints" \in w.plan.flags /\ Supports(w, "rally")
    THEN ControllerSend(w, "rally") ELSE w

SendGeoFenceComplete(w) ==
    IF "sendRallyPoints" \notin w.plan.flags THEN w
    ELSE LET next == ClearFlag(w, "sendRallyPoints")
         IN  IF Supports(w, "rally") THEN ControllerSend(next, "rally") ELSE next

\* Mutant of SendMissionComplete: the fence is sent after every write of the mission.
SendMissionCompleteAlways(w) ==
    LET next == SetFlag(ClearFlag(w, "sendGeoFence"), "sendRallyPoints")
    IN  SetClean(IF Supports(w, "fence") THEN ControllerSend(next, "fence")
                 ELSE SendGeoFenceComplete(next))

SendMissionComplete(w) ==
    IF "sendGeoFence" \notin w.plan.flags THEN w
    ELSE LET next == SetFlag(ClearFlag(w, "sendGeoFence"), "sendRallyPoints")
         IN  SetClean(IF Supports(w, "fence") THEN ControllerSend(next, "fence")
                      ELSE SendGeoFenceComplete(next))

LoadFromVehicle(w) == SetClean(ControllerLoad(SetFlag(w, "loadGeoFence"), "mission"))

SendToVehicle(w) == SetClean(ControllerSend(SetFlag(w, "sendGeoFence"), "mission"))

RemoveAllFromVehicle(w) ==
    LET mission == ControllerRemoveAllFromVehicle(w, "mission")
        fence   == IF Supports(w, "fence")
                   THEN ControllerRemoveAllFromVehicle(mission, "fence") ELSE mission
        rally   == IF Supports(w, "rally")
                   THEN ControllerRemoveAllFromVehicle(fence, "rally") ELSE fence
    IN  SetClean(rally)

\* The flags and the requests of the controllers outlive the vehicle they were meant for.
ActiveVehicleChanged(w0, to) ==
    LET w == [w0 EXCEPT !.plan.vehicle = to]
    IN  IF ContainsItems(w.plan) /\ Dirty(w.plan) THEN [w EXCEPT !.plan.prompt = TRUE]
        ELSE IF to = Offline THEN RemoveAll(w)
        ELSE ShowPlanFromManagerVehicle(w)

-----------------------------------------------------------------------------
(* The signals that a transaction of a manager has ended, with the slots   *)
(* in the order they were connected: the vehicle's, the master             *)
(* controller's, the element controller's.                                 *)

Ended(w, v, e, filled) == [w EXCEPT !.car[v] = EndJob(@, e, filled)]

LoadEnded(w0, v, e, filled) ==
    LET w == [w0 EXCEPT !.car[v] = FirstLoadComplete(EndJob(@, e, filled), e)]
        master == CASE e = "mission" -> LoadMissionComplete(w)
                    [] e = "fence"   -> LoadGeoFenceComplete(w)
                    [] OTHER         -> w
    IN  IF v = w.plan.vehicle THEN TakeItems(master, e) ELSE w

SendEnded(w0, v, e, filled) ==
    LET w == Ended(w0, v, e, filled)
    IN  CASE v = w.plan.vehicle /\ e = "mission" -> SendMissionComplete(w)
          [] v = w.plan.vehicle /\ e = "fence"   -> SendGeoFenceComplete(w)
          [] OTHER -> w

RemoveEnded(w0, v, e, ok) ==
    LET w == Ended(w0, v, e, FALSE)
    IN  IF v = w.plan.vehicle /\ ok THEN ShowElement(w, e) ELSE w
=============================================================================
