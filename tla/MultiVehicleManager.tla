-------------------------- MODULE MultiVehicleManager --------------------------
(***************************************************************************)
(* The vehicles the ground station knows, the one that is active, and the  *)
(* links they share.  A vehicle is made by a heartbeat, closed by the user *)
(* or when its last link goes, and deleted 20 ms later; another becomes    *)
(* active 20 ms after it is chosen.  Vehicle objects are numbered in the   *)
(* order they are made.  One VehicleLinkManager is modelled in detail in   *)
(* VehicleLinkManager; here only which links it holds matters.             *)
(***************************************************************************)
EXTENDS Naturals, FiniteSets, Sequences, SequencesExt

CONSTANTS
  Ids,            \* MAVLink system ids of autopilots
  Links,
  MaxVehicles,    \* bound: Vehicle objects ever made
  MaxTimers,      \* bound: 20 ms timers pending at a time
  MultiVehicleEnabled

NoVehicle == 0

AnyVehicle == 0     \* the system id that addresses everybody

ASSUME MultiVehicleAssumption ==
  /\ AnyVehicle \notin Ids
  /\ MaxVehicles \in Nat /\ MaxTimers \in Nat
  /\ MultiVehicleEnabled \in BOOLEAN

VARIABLES
  connected,        \* LinkManager::_rgLinks
  references,       \* _vehicleReferenceCount of each link, 0 while there is none
  idOf,             \* the id of each Vehicle ever made
  linksOf,          \* _rgLinkInfo of each
  deleted,          \* the Vehicles that are deleted
  vehicles,         \* _vehicles, always in the order they were made
  beingDeleted,     \* _vehiclesBeingDeleted
  beingSetActive,   \* _vehicleBeingSetActive
  timers,           \* the pending 20 ms timers, which fire in this order
  activeVehicle,
  activeVehicleAvailable,
  parametersReady,  \* the Vehicles that have their parameters
  parameterReadyVehicleAvailable,
  heardDying        \* history: a closed Vehicle was heard or closed again before its deletion

linkVars   == <<connected, references, linksOf>>
activeVars == <<activeVehicle, beingSetActive, activeVehicleAvailable, parameterReadyVehicleAvailable>>
vars == <<linkVars, idOf, deleted, vehicles, beingDeleted, timers, activeVars, parametersReady,
          heardDying>>

Vehicles == DOMAIN idOf
Alive    == Vehicles \ deleted
Dying    == {beingDeleted[i] : i \in DOMAIN beingDeleted}

Holders(link) == {v \in Alive : link \in linksOf[v]}

Init ==
  /\ connected = {} /\ references = [link \in Links |-> 0]
  /\ idOf = <<>> /\ linksOf = <<>> /\ deleted = {}
  /\ vehicles = {} /\ beingDeleted = <<>> /\ timers = <<>>
  /\ activeVehicle = NoVehicle /\ beingSetActive = NoVehicle
  /\ activeVehicleAvailable = FALSE
  /\ parametersReady = {} /\ parameterReadyVehicleAvailable = FALSE
  /\ heardDying = FALSE

--------------------------------------------------------------------------------
(* createConnectedLink *)
LinkConnects(link) ==
  /\ link \notin connected
  /\ connected' = connected \cup {link}
  /\ UNCHANGED <<references, linksOf, idOf, deleted, vehicles, beingDeleted, timers, activeVars, parametersReady>>

(* setActiveVehicle *)
SetActive(v) ==
  IF v = activeVehicle
  THEN UNCHANGED <<timers, activeVars>>
  ELSE /\ activeVehicleAvailable' = (activeVehicleAvailable /\ activeVehicle = NoVehicle)
       /\ parameterReadyVehicleAvailable' =
            (parameterReadyVehicleAvailable /\ activeVehicle = NoVehicle)
       /\ beingSetActive' = v
       /\ timers' = Append(timers, "setActive")
       /\ UNCHANGED activeVehicle

IsKnown(id) == \E v \in vehicles : idOf[v] = id

(* _vehicleHeartbeatInfo makes a Vehicle, and no second one of an id. *)
MakesVehicle(id) == id # AnyVehicle /\ ~IsKnown(id) /\ (vehicles = {} \/ MultiVehicleEnabled)

(* Those who take a message of this id and have not got the link yet. *)
NewHolders(link, id) ==
  {v \in Alive : id \in {idOf[v], AnyVehicle} /\ link \notin linksOf[v]}

(* A heartbeat that makes a Vehicle, which every other object of that id   *)
(* hears as well: MAVLinkProtocol emits vehicleHeartbeatInfo, then         *)
(* messageReceived.                                                        *)
FirstHeartbeat(link, id) ==
  LET v == Len(idOf) + 1
  IN  /\ link \in connected /\ MakesVehicle(id) /\ v <= MaxVehicles
      /\ idOf' = Append(idOf, id)
      /\ linksOf' = Append([w \in Vehicles |->
                      IF w \in NewHolders(link, id) THEN linksOf[w] \cup {link} ELSE linksOf[w]], {link})
      /\ references' = [references EXCEPT ![link] = @ + 1 + Cardinality(NewHolders(link, id))]
      /\ vehicles' = vehicles \cup {v}
      /\ IF vehicles = {} THEN SetActive(v) ELSE UNCHANGED <<timers, activeVars>>
      /\ UNCHANGED <<connected, deleted, beingDeleted, parametersReady>>

(* Any other message: whoever of this id lacks the link adds it. *)
MessageReceived(link, id) ==
  /\ link \in connected
  /\ linksOf' = [w \in Vehicles |->
                   IF w \in NewHolders(link, id) THEN linksOf[w] \cup {link} ELSE linksOf[w]]
  /\ references' = [references EXCEPT ![link] = @ + Cardinality(NewHolders(link, id))]
  /\ UNCHANGED <<connected, idOf, deleted, vehicles, beingDeleted, timers, activeVars, parametersReady>>

(* Mutant of DeleteVehiclePhase1: one timer serves for all. *)
DeleteVehiclePhase1OneTimer(gone) ==
  /\ beingDeleted' = beingDeleted \o gone
  /\ vehicles' = vehicles \ ToSet(gone)
  /\ timers' = IF gone = <<>> \/ "delete" \in ToSet(timers) THEN timers ELSE Append(timers, "delete")
  /\ activeVehicleAvailable' = (activeVehicleAvailable /\ gone = <<>>)
  /\ parameterReadyVehicleAvailable' = (parameterReadyVehicleAvailable /\ gone = <<>>)
  /\ UNCHANGED <<idOf, deleted, activeVehicle, beingSetActive, parametersReady>>

(* _deleteVehiclePhase1, for each of these Vehicles in turn. *)
DeleteVehiclePhase1(gone) ==
  /\ beingDeleted' = beingDeleted \o gone
  /\ vehicles' = vehicles \ ToSet(gone)
  /\ timers' = timers \o [i \in DOMAIN gone |-> "delete"]
  /\ activeVehicleAvailable' = (activeVehicleAvailable /\ gone = <<>>)
  /\ parameterReadyVehicleAvailable' = (parameterReadyVehicleAvailable /\ gone = <<>>)
  /\ UNCHANGED <<idOf, deleted, activeVehicle, beingSetActive, parametersReady>>

(* Mutant of LinkDisconnected: whoever has no link left says so again.     *)
LinkDisconnectedForAll(link) ==
  LET stranded == {v \in Alive : linksOf[v] \subseteq {link}}
  IN  /\ link \in connected
      /\ connected' = connected \ {link}
      /\ references' = [references EXCEPT ![link] = 0]
      /\ linksOf' = [v \in Vehicles |-> linksOf[v] \ {link}]
      /\ \E gone \in SetToSeqs(stranded) : DeleteVehiclePhase1(gone)

(* The link's disconnected signal reaches the LinkManager and then every   *)
(* Vehicle that holds it, in the order they added it: any order here.      *)
LinkDisconnected(link) ==
  LET stranded == {v \in Holders(link) : linksOf[v] = {link}}
  IN  /\ link \in connected
      /\ connected' = connected \ {link}
      /\ references' = [references EXCEPT ![link] = 0]
      /\ linksOf' = [v \in Vehicles |-> linksOf[v] \ {link}]
      /\ \E gone \in SetToSeqs(stranded) : DeleteVehiclePhase1(gone)

(* Mutant of CloseVehicle: every link of the vehicle is disconnected. *)
CloseVehicleAndLinks(v) ==
  /\ connected' = connected \ linksOf[v]
  /\ references' = [link \in Links |-> IF link \in linksOf[v] THEN references[link] - 1 ELSE references[link]]
  /\ linksOf' = [linksOf EXCEPT ![v] = {}]
  /\ DeleteVehiclePhase1(<<v>>)

(* Mutant of CloseVehicle: the references are not given back. *)
CloseVehicleKeepingReferences(v) ==
  /\ linksOf' = [linksOf EXCEPT ![v] = {}]
  /\ DeleteVehiclePhase1(<<v>>)
  /\ UNCHANGED <<connected, references>>

(* closeVehicle: a link that loses its last reference is disconnected. *)
CloseVehicle(v) ==
  /\ connected' = connected \ {link \in linksOf[v] : references[link] = 1}
  /\ references' = [link \in Links |-> IF link \in linksOf[v] THEN references[link] - 1 ELSE references[link]]
  /\ linksOf' = [linksOf EXCEPT ![v] = {}]
  /\ DeleteVehiclePhase1(<<v>>)

(* The user closes the active vehicle; an acked reboot closes whoever      *)
(* hears the ack.  A Vehicle may be closed again before it is deleted: by  *)
(* a second click, or by an ack over a link it has just got back.          *)
VehicleCloses(v) ==
  /\ v \in Alive
  /\ CloseVehicle(v)
  /\ heardDying' = (heardDying \/ v \in Dying)

UserChooses(v) ==
  /\ v \in vehicles \ {activeVehicle}
  /\ SetActive(v)
  /\ UNCHANGED <<linkVars, idOf, deleted, vehicles, beingDeleted, parametersReady>>

(* _vehicleParametersReadyChanged *)
ParametersReady(v) ==
  /\ v \in Alive \ parametersReady
  /\ parametersReady' = parametersReady \cup {v}
  /\ parameterReadyVehicleAvailable' = (parameterReadyVehicleAvailable \/ v = activeVehicle)
  /\ UNCHANGED <<linkVars, idOf, deleted, vehicles, beingDeleted, timers,
                 activeVehicle, beingSetActive, activeVehicleAvailable>>

FirstListed == IF vehicles = {} THEN NoVehicle ELSE Min(vehicles)

(* A deleted Vehicle gives no reference back. *)
Free(v) ==
  /\ deleted' = deleted \cup {v}
  /\ linksOf' = [linksOf EXCEPT ![v] = {}]
  /\ parametersReady' = parametersReady \ {v}

(* Mutant of DeleteVehiclePhase2: no other vehicle becomes active. *)
DeleteVehiclePhase2Only ==
  /\ activeVehicle' = NoVehicle
  /\ Free(Head(beingDeleted))
  /\ beingDeleted' = Tail(beingDeleted)
  /\ UNCHANGED <<beingSetActive, activeVehicleAvailable, parameterReadyVehicleAvailable>>

(* _deleteVehiclePhase2 announces an active vehicle as available, but sets *)
(* neither flag.                                                           *)
DeleteVehiclePhase2 ==
  /\ activeVehicle' = FirstListed
  /\ Free(Head(beingDeleted))
  /\ beingDeleted' = Tail(beingDeleted)
  /\ UNCHANGED <<beingSetActive, activeVehicleAvailable, parameterReadyVehicleAvailable>>

(* _setActiveVehiclePhase2 *)
SetActiveVehiclePhase2 ==
  /\ activeVehicle' = beingSetActive
  /\ activeVehicleAvailable' = TRUE
  /\ parameterReadyVehicleAvailable' =
       (parameterReadyVehicleAvailable \/ beingSetActive \in parametersReady)
  /\ UNCHANGED <<linksOf, beingSetActive, deleted, beingDeleted, parametersReady>>

TimerFires ==
  /\ timers # <<>>
  /\ timers' = Tail(timers)
  /\ \/ Head(timers) = "delete" /\ DeleteVehiclePhase2
     \/ Head(timers) = "setActive" /\ SetActiveVehiclePhase2
  /\ UNCHANGED <<connected, references, idOf, vehicles, heardDying>>

--------------------------------------------------------------------------------
Heard(link, id) ==
  /\ FirstHeartbeat(link, id) \/ MessageReceived(link, id)
  /\ heardDying' = (heardDying \/ NewHolders(link, id) \cap Dying # {})

Unheard ==
  \/ /\ \/ \E link \in Links : LinkConnects(link) \/ LinkDisconnected(link)
        \/ \E v \in Vehicles : UserChooses(v) \/ ParametersReady(v)
     /\ UNCHANGED heardDying
  \/ \E v \in Vehicles : VehicleCloses(v)

Event ==
  \/ Unheard
  \/ \E link \in Links, id \in Ids \cup {AnyVehicle} : Heard(link, id)

Next ==
  \/ TimerFires
  \/ Event /\ Len(timers') <= MaxTimers

Spec == Init /\ [][Next]_vars

(* Timers fire. *)
FairSpec == Spec /\ WF_vars(TimerFires)

--------------------------------------------------------------------------------
TypeOK ==
  /\ connected \subseteq Links /\ references \in [Links -> Nat]
  /\ idOf \in Seq(Ids) /\ linksOf \in [Vehicles -> SUBSET Links]
  /\ deleted \subseteq Vehicles /\ parametersReady \subseteq Vehicles
  /\ vehicles \subseteq Vehicles /\ beingDeleted \in Seq(Vehicles)
  /\ timers \in Seq({"delete", "setActive"})
  /\ activeVehicle \in Vehicles \cup {NoVehicle} /\ beingSetActive \in Vehicles \cup {NoVehicle}
  /\ activeVehicleAvailable \in BOOLEAN /\ parameterReadyVehicleAvailable \in BOOLEAN
  /\ heardDying \in BOOLEAN

(* Every vehicle of the list can be reached: it is not on its way out, and *)
(* the links it holds are connected, whatever other vehicle that shared    *)
(* them was closed (closeVehicle, removeVehicleReference).  No system id   *)
(* is listed twice (_vehicleHeartbeatInfo, while an older Vehicle of the   *)
(* id may still be waiting for its deletion).                              *)
ListedAreReachable ==
  /\ \A v \in vehicles :
       v \notin Dying \cup deleted /\ linksOf[v] # {} /\ linksOf[v] \subseteq connected
  /\ \A v, w \in vehicles : idOf[v] = idOf[w] => v = w

(* Neither the active vehicle nor the one about to be is ever a deleted    *)
(* one, whichever of the two 20 ms timers was started first; and once the  *)
(* timers have fired a listed vehicle is active if there is one, and       *)
(* nobody otherwise.                                                       *)
ActiveIsListed ==
  /\ activeVehicle \notin deleted
  /\ "setActive" \in ToSet(timers) => beingSetActive \notin deleted
  /\ timers = <<>> => IF vehicles = {} THEN activeVehicle = NoVehicle ELSE activeVehicle \in vehicles

(* The list and the active vehicle together: what the rest of the program  *)
(* takes for a vehicle is one (activeVehicle, vehicles).                   *)
OnlyLiveVehicles == ListedAreReachable /\ ActiveIsListed

(* LinkInterface.cc:111, "don't automatically disconect until all the      *)
(* vehicles go away": unless a closed Vehicle was heard or closed again    *)
(* before it was deleted, a link counts the Vehicles that hold it, no more *)
(* and no fewer, and so goes with the last of them.                        *)
ReferencesAreHeld ==
  heardDying \/ \A link \in connected : references[link] = Cardinality(Holders(link))

(* MultiVehicleManager.h:106, "List of Vehicles being deleted in queued    *)
(* phases": each of them once, and not one that is deleted already.        *)
DeletedOnce == IsInjective(beingDeleted) /\ Dying \cap deleted = {}

(* Every vehicle that is closed is deleted in the end, also when several   *)
(* are closed at once, and once, unless a closed one was heard or closed   *)
(* again before it was deleted (_deleteVehiclePhase1, one timer for each). *)
ClosedAreDeletedOnce ==
  /\ [](heardDying \/ DeletedOnce)
  /\ \A v \in 1..MaxVehicles : v \in Dying ~> v \in deleted
================================================================================
