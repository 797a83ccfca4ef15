------------------------------ MODULE VehicleProofs ------------------------------
(***************************************************************************)
(* Theorems about a vehicle's links and about its events.  Links: for any  *)
(* links of any kind, whenever they connect, fall silent and go.  Events:  *)
(* for any script of events and any number of reboots and losses.          *)
(***************************************************************************)
EXTENDS VehicleLinkManager, EventTransfer, SequenceTheorems, FiniteSetTheorems,
        WellFoundedInduction, TLAPS

(***************************************************************************)
(* Links.                                                                  *)
(***************************************************************************)
IInv == TypeOK /\ PrimaryIsBest /\ commLost \cap HighLatency = {}

(* What PrimaryIsBest asks of a primary link among given links. *)
IsBest(primary, infos, lost) ==
  infos \ lost # {} =>
    /\ primary \in infos \ lost
    /\ primary \in HighLatency \ UsbDirect => infos \ lost \subseteq HighLatency \ UsbDirect

(* An update leaves a link of the vehicle, the best one if any is alive,   *)
(* and a live link of normal latency as it is.                             *)
LEMMA UpdateIsBest ==
  ASSUME NEW infos \in SUBSET Links, NEW lost \in SUBSET infos, lost \cap HighLatency = {},
         NEW from \in infos \cup {NoLink}, NEW to \in UpdatedPrimaryLinks(from, infos, lost)
  PROVE  /\ to \in infos \cup {NoLink}
         /\ IsBest(to, infos, lost)
         /\ from \in (infos \ lost) \ HighLatency => to = from
<1>. DEFINE best == BestActivePrimaryLink(from, infos, lost)
            active == infos \ lost
<1>1. NoLink \notin HighLatency /\ NoLink \notin infos
  BY VehicleLinkAssumption
<1>2. CASE StillValid(from, infos, lost)
  BY <1>2 DEF UpdatedPrimaryLinks, StillValid, IsBest
<1>3. CASE ~StillValid(from, infos, lost) /\ best = {}
  <2>1. active = {}
    BY <1>3 DEF BestActivePrimaryLink
  <2>. QED  BY <1>3, <2>1 DEF UpdatedPrimaryLinks, IsBest
<1>4. CASE ~StillValid(from, infos, lost) /\ best # {}
  <2>1. to \in best /\ ~(from \in active \ HighLatency)
    BY <1>4 DEF UpdatedPrimaryLinks, StillValid
  <2>2. CASE active \cap UsbDirect # {}
    BY <2>1, <2>2 DEF BestActivePrimaryLink, IsBest
  <2>3. CASE active \cap UsbDirect = {} /\ active \ HighLatency # {}
    BY <2>1, <2>3 DEF BestActivePrimaryLink, IsBest
  <2>4. CASE active \cap UsbDirect = {} /\ active \ HighLatency = {} /\ from \in HighLatency
    <3>1. to = from /\ from \in active
      BY <1>1, <2>1, <2>4 DEF BestActivePrimaryLink
    <3>. QED  BY <2>1, <2>4, <3>1 DEF IsBest
  <2>5. CASE active \cap UsbDirect = {} /\ active \ HighLatency = {} /\ from \notin HighLatency
    <3>1. to \in active
      BY <2>1, <2>5 DEF BestActivePrimaryLink
    <3>. QED  BY <2>1, <2>5, <3>1 DEF IsBest
  <2>. QED  BY <2>2, <2>3, <2>4, <2>5
<1>. QED  BY <1>2, <1>3, <1>4

(* A switch sends controls to high latency links only. *)
LEMMA SwitchKeepsType ==
  ASSUME NEW from, NEW to, NEW known \in [HighLatency -> Controls], controlPending \in BOOLEAN,
         SwitchControls(from, to, known)
  PROVE  /\ control' \in [HighLatency -> Controls] /\ controlPending' \in BOOLEAN
         /\ untold \subseteq HighLatency => untold' \subseteq rgLinkInfo' \cap HighLatency
BY DEF SwitchControls, Controls

(* The update keeps the invariant, whatever links it is told of. *)
LEMMA UpdateKeepsIInv ==
  ASSUME NEW known \in [HighLatency -> Controls], NEW primary \in rgLinkInfo' \cup {NoLink},
         TypeOK, UpdatePrimaryLink(primary, known),
         rgLinkInfo' # {}, rgLinkInfo' \subseteq connected', commLost' \subseteq rgLinkInfo',
         commLost' \cap HighLatency = {}, connected' \subseteq Links, silent' \subseteq connected',
         open' = TRUE, checking' = TRUE, communicationLost' \in BOOLEAN,
         communicationLostEnabled' \in BOOLEAN, autoDisconnect' \in BOOLEAN
  PROVE  IInv'
<1>1. primaryLink' \in UpdatedPrimaryLinks(primary, rgLinkInfo', commLost') /\ chosen' = NoLink
  BY DEF UpdatePrimaryLink
<1>2. /\ primaryLink' \in rgLinkInfo' \cup {NoLink}
      /\ IsBest(primaryLink', rgLinkInfo', commLost')
  BY <1>1, UpdateIsBest
<1>3. /\ control' \in [HighLatency -> Controls] /\ controlPending' \in BOOLEAN
      /\ untold' \subseteq rgLinkInfo' \cap HighLatency
  BY SwitchKeepsType DEF UpdatePrimaryLink, TypeOK
<1>4. TypeOK'
  BY <1>1, <1>2, <1>3 DEF TypeOK
<1>5. PrimaryIsBest'
  BY <1>2 DEF PrimaryIsBest, Active, IsBest
<1>. QED  BY <1>4, <1>5 DEF IInv

(* Nothing is left of a vehicle that is gone. *)
LEMMA GoneKeepsIInv ==
  ASSUME VehicleGone, connected' \subseteq Links, silent' \subseteq connected'
  PROVE  IInv'
<1>1. TypeOK'
  BY DEF VehicleGone, TypeOK, Controls
<1>2. PrimaryIsBest' /\ (commLost \cap HighLatency)' = {}
  BY DEF VehicleGone, PrimaryIsBest, Active
<1>. QED  BY <1>1, <1>2 DEF IInv

(* What does not touch the links of the vehicle keeps the invariant. *)
LEMMA OtherwiseKeepsIInv ==
  ASSUME IInv,
         UNCHANGED <<open, rgLinkInfo, commLost, primaryLink, checking, control, chosen, untold>>,
         communicationLost' \in BOOLEAN, communicationLostEnabled' \in BOOLEAN,
         autoDisconnect' \in BOOLEAN, controlPending' \in BOOLEAN,
         rgLinkInfo \subseteq connected', connected' \subseteq Links, silent' \subseteq connected'
  PROVE  IInv'
<1>1. TypeOK'
  BY DEF IInv, TypeOK
<1>2. PrimaryIsBest' /\ (commLost \cap HighLatency)' = {}
  BY DEF IInv, PrimaryIsBest, Active
<1>. QED  BY <1>1, <1>2 DEF IInv

(* A link that was never heard from before becomes one of the vehicle's. *)
LEMMA AddKeepsIInv ==
  ASSUME IInv, NEW link \in connected, link \notin rgLinkInfo, AddLink(link),
         open' = TRUE, connected' = connected, silent' = silent \ {link}
  PROVE  IInv'
<1>. DEFINE known == [l \in HighLatency |-> IF l = link THEN "none" ELSE control[l]]
<1>1. known \in [HighLatency -> Controls]
  BY DEF IInv, TypeOK, Controls
<1>2. checking' = TRUE
  BY DEF IInv, TypeOK, AddLink
<1>3. /\ rgLinkInfo' = rgLinkInfo \cup {link}
      /\ UNCHANGED <<commLost, communicationLost, communicationLostEnabled, autoDisconnect>>
      /\ UpdatePrimaryLink(primaryLink, known)
  BY DEF AddLink, settings
<1>4. primaryLink \in rgLinkInfo' \cup {NoLink}
  BY <1>3 DEF IInv, TypeOK
<1>. QED  BY <1>1, <1>2, <1>3, <1>4, UpdateKeepsIInv DEF IInv, TypeOK

(* A message, of a new link, a lost one or any other. *)
LEMMA MessageKeepsIInv ==
  ASSUME IInv, NEW link \in Links, MessageReceived(link)
  PROVE  IInv'
<1>1. /\ open = TRUE /\ open' = TRUE /\ link \in connected
      /\ silent' = silent \ {link} /\ connected' = connected
  BY DEF MessageReceived, IInv, TypeOK
<1>2. CASE link \notin rgLinkInfo /\ AddLink(link)
  BY <1>1, <1>2, AddKeepsIInv
<1>3. CASE link \in commLost /\ CommRegainedOnLink(link)
  <2>1. /\ UpdatePrimaryLink(primaryLink, control)
        /\ rgLinkInfo' = rgLinkInfo /\ commLost' = commLost \ {link} /\ checking' = checking
        /\ communicationLost' \in BOOLEAN
        /\ communicationLostEnabled' \in BOOLEAN /\ autoDisconnect' \in BOOLEAN
    BY <1>3 DEF CommRegainedOnLink, settings, IInv, TypeOK
  <2>. QED  BY <1>1, <2>1, UpdateKeepsIInv DEF IInv, TypeOK
<1>4. CASE UNCHANGED <<rgLinkInfo, commLost, primaryLink, checking, communicationLost, settings,
                       controlPending, control, chosen, untold>>
  BY <1>1, <1>4, OtherwiseKeepsIInv DEF settings, IInv, TypeOK
<1>. QED  BY <1>2, <1>3, <1>4 DEF MessageReceived

(* A check that flags silent links, or closes the vehicle. *)
LEMMA CheckKeepsIInv == ASSUME IInv, CommLostCheck PROVE IInv'
<1>1. CASE CloseVehicle
  BY <1>1, GoneKeepsIInv DEF CloseVehicle, IInv, TypeOK
<1>2. CASE ~CloseVehicle
  <2>1. /\ commLost' = commLost \cup NewlyLost
        /\ communicationLost' \in BOOLEAN
        /\ UNCHANGED <<connected, silent, open, rgLinkInfo, checking, settings>>
        /\ UpdatePrimaryLink(primaryLink, control)
        /\ open /\ checking
    BY <1>2 DEF CommLostCheck, IInv, TypeOK
  <2>2. commLost' \subseteq rgLinkInfo /\ commLost' \cap HighLatency = {}
    BY <2>1 DEF NewlyLost, IInv, TypeOK
  <2>. QED  BY <2>1, <2>2, UpdateKeepsIInv DEF settings, IInv, TypeOK
<1>. QED  BY <1>1, <1>2

(* A link goes: another is chosen, or the vehicle closes. *)
LEMMA DisconnectKeepsIInv ==
  ASSUME IInv, NEW link \in Links, LinkDisconnected(link)
  PROVE  IInv'
<1>1. /\ link \in connected /\ connected' = connected \ {link} /\ silent' = silent \ {link}
      /\ connected' \subseteq Links /\ silent' \subseteq connected'
  BY DEF LinkDisconnected, IInv, TypeOK
<1>2. CASE /\ link \notin rgLinkInfo
           /\ UNCHANGED <<open, rgLinkInfo, commLost, primaryLink, checking, communicationLost, settings,
                          controlPending, control, chosen, untold>>
  BY <1>1, <1>2, OtherwiseKeepsIInv DEF settings, IInv, TypeOK
<1>3. CASE VehicleGone
  BY <1>1, <1>3, GoneKeepsIInv
<1>4. CASE /\ link \in rgLinkInfo /\ rgLinkInfo # {link}
           /\ rgLinkInfo' = rgLinkInfo \ {link}
           /\ commLost' = commLost \ {link}
           /\ UNCHANGED <<open, checking, communicationLost, settings>>
           /\ UpdatePrimaryLink(IF primaryLink = link THEN NoLink ELSE primaryLink, control)
  <2>. DEFINE primary == IF primaryLink = link THEN NoLink ELSE primaryLink
  <2>1. primary \in rgLinkInfo' \cup {NoLink} /\ rgLinkInfo' # {} /\ open /\ checking
    BY <1>4 DEF IInv, TypeOK
  <2>. HIDE DEF primary
  <2>2. UpdatePrimaryLink(primary, control)
    BY <1>4 DEF primary
  <2>. QED  BY <1>1, <1>4, <2>1, <2>2, UpdateKeepsIInv DEF settings, IInv, TypeOK
<1>. QED  BY <1>2, <1>3, <1>4 DEF LinkDisconnected

(* The user names a link. *)
LEMMA ChoiceKeepsIInv ==
  ASSUME IInv, NEW link \in Links, SetPrimaryLinkByName(link)
  PROVE  IInv'
<1>1. TypeOK'
  BY DEF SetPrimaryLinkByName, settings, IInv, TypeOK
<1>2. PrimaryIsBest'
  BY VehicleLinkAssumption DEF SetPrimaryLinkByName, PrimaryIsBest
<1>. QED  BY <1>1, <1>2 DEF SetPrimaryLinkByName, IInv

(* Settings, acks, and links that connect or fall silent. *)
LEMMA SettingsKeepIInv ==
  ASSUME IInv,
         \/ \E enabled \in BOOLEAN : SetCommunicationLostEnabled(enabled)
         \/ SetAutoDisconnect \/ ControlAnswered
         \/ \E link \in Links : LinkConnects(link) \/ LinkFallsSilent(link)
         \/ UNCHANGED vars
  PROVE  IInv'
<1>1. /\ UNCHANGED <<open, rgLinkInfo, commLost, primaryLink, checking, control, chosen, untold>>
      /\ communicationLost' \in BOOLEAN /\ communicationLostEnabled' \in BOOLEAN
      /\ autoDisconnect' \in BOOLEAN /\ controlPending' \in BOOLEAN
      /\ rgLinkInfo \subseteq connected' /\ connected' \subseteq Links /\ silent' \subseteq connected'
  BY DEF SetCommunicationLostEnabled, SetAutoDisconnect, ControlAnswered, LinkConnects,
         LinkFallsSilent, LinkVars, settings, vars, IInv, TypeOK
<1>. QED  BY <1>1, OtherwiseKeepsIInv

(* A first heartbeat opens a vehicle with one link. *)
LEMMA NewVehicleKeepsIInv ==
  ASSUME IInv, NEW link \in Links, NewVehicle(link)
  PROVE  IInv'
BY AddKeepsIInv DEF NewVehicle, IInv, TypeOK

(* The invariant is inductive. *)
LEMMA NextKeepsIInv == IInv /\ [Next]_vars => IInv'
<1>. SUFFICES ASSUME IInv, [Next]_vars PROVE IInv'
  OBVIOUS
<1>1. CASE \E link \in Links : LinkEvent(link)
  BY <1>1, MessageKeepsIInv, NewVehicleKeepsIInv, DisconnectKeepsIInv, ChoiceKeepsIInv,
     SettingsKeepIInv DEF LinkEvent
<1>2. CASE CloseVehicle
  BY <1>2, GoneKeepsIInv DEF CloseVehicle, IInv, TypeOK
<1>. QED  BY <1>1, <1>2, CheckKeepsIInv, SettingsKeepIInv DEF Next, Event

(* The inductive invariant: types, the best primary link, and that a link  *)
(* of high latency is never flagged as lost.                               *)
THEOREM Invariance == Spec => []IInv
<1>1. Init => IInv
  <2>. SUFFICES ASSUME Init PROVE IInv
    OBVIOUS
  <2>1. TypeOK
    BY DEF Init, NoVehicle, TypeOK, Controls
  <2>. QED  BY <2>1 DEF Init, NoVehicle, IInv, PrimaryIsBest, Active
<1>. QED  BY <1>1, NextKeepsIInv, PTL DEF Spec

(* The check timer runs exactly while the vehicle has links, and the       *)
(* primary link is one of them.                                            *)
THEOREM TypeCorrect == Spec => []TypeOK
<1>1. IInv => TypeOK
  BY DEF IInv
<1>. QED  BY <1>1, Invariance, PTL

(* While a link is alive the primary link is a live one, and the best.     *)
THEOREM Best == Spec => []PrimaryIsBest
<1>1. IInv => PrimaryIsBest
  BY DEF IInv
<1>. QED  BY <1>1, Invariance, PTL

--------------------------------------------------------------------------------
(* What NoNeedlessSwitch says of a step. *)
Needed ==
  (primaryLink \in Active \ HighLatency /\ primaryLink' # primaryLink) =>
    (chosen' # NoLink \/ primaryLink \notin Active')

(* An update keeps a primary link that is live and of normal latency.      *)
LEMMA UpdateIsNeeded ==
  ASSUME NEW primary, NEW known, UpdatePrimaryLink(primary, known), IInv, IInv',
         primary = primaryLink \/ primaryLink \notin rgLinkInfo',
         primary \in rgLinkInfo' \cup {NoLink}
  PROVE  Needed
<1>1. primaryLink' \in UpdatedPrimaryLinks(primary, rgLinkInfo', commLost')
  BY DEF UpdatePrimaryLink
<1>2. /\ rgLinkInfo' \in SUBSET Links /\ commLost' \in SUBSET rgLinkInfo'
      /\ commLost' \cap HighLatency = {}
  BY DEF IInv, TypeOK
<1>3. primary \in (rgLinkInfo' \ commLost') \ HighLatency => primaryLink' = primary
  BY <1>1, <1>2, UpdateIsBest
<1>. QED  BY <1>3 DEF Needed, Active

(* A vehicle that is gone has no live links.                               *)
LEMMA GoneIsNeeded == VehicleGone => Needed
BY DEF VehicleGone, Needed, Active

(* Every step that changes the primary link is an update, the end of the   *)
(* vehicle, or a choice of the user.                                       *)
LEMMA NextIsNeeded == ASSUME IInv, IInv', Next PROVE Needed
<1>1. ASSUME NEW link \in Links, MessageReceived(link) \/ NewVehicle(link) PROVE Needed
  <2>1. UNCHANGED primaryLink \/ \E known : UpdatePrimaryLink(primaryLink, known)
    BY <1>1 DEF MessageReceived, NewVehicle, AddLink, CommRegainedOnLink
  <2>2. rgLinkInfo \subseteq rgLinkInfo'
    BY <1>1 DEF MessageReceived, NewVehicle, AddLink, CommRegainedOnLink
  <2>3. primaryLink \in rgLinkInfo' \cup {NoLink}
    BY <2>2 DEF IInv, TypeOK
  <2>. QED  BY <2>1, <2>3, UpdateIsNeeded DEF Needed
<1>2. ASSUME NEW link \in Links, LinkDisconnected(link) PROVE Needed
  <2>. DEFINE primary == IF primaryLink = link THEN NoLink ELSE primaryLink
  <2>1. CASE UNCHANGED primaryLink
    BY <2>1 DEF Needed
  <2>2. CASE VehicleGone
    BY <2>2, GoneIsNeeded
  <2>3. CASE rgLinkInfo' = rgLinkInfo \ {link} /\ UpdatePrimaryLink(primary, control)
    <3>1. primary = primaryLink \/ primaryLink \notin rgLinkInfo'
      BY <2>3
    <3>2. primary \in rgLinkInfo' \cup {NoLink}
      BY <2>3 DEF IInv, TypeOK
    <3>. HIDE DEF primary
    <3>. QED  BY <2>3, <3>1, <3>2, UpdateIsNeeded
  <2>. QED  BY <1>2, <2>1, <2>2, <2>3 DEF LinkDisconnected
<1>3. ASSUME NEW link \in Links, SetPrimaryLinkByName(link) PROVE Needed
  BY <1>3, VehicleLinkAssumption DEF SetPrimaryLinkByName, Needed
<1>4. CASE CloseVehicle
  BY <1>4, GoneIsNeeded DEF CloseVehicle
<1>5. CASE CommLostCheck /\ ~CloseVehicle
  <2>1. UpdatePrimaryLink(primaryLink, control) /\ rgLinkInfo' = rgLinkInfo
    BY <1>5 DEF CommLostCheck
  <2>2. primaryLink \in rgLinkInfo' \cup {NoLink}
    BY <2>1 DEF IInv, TypeOK
  <2>. QED  BY <2>1, <2>2, UpdateIsNeeded
<1>6. ASSUME \/ \E enabled \in BOOLEAN : SetCommunicationLostEnabled(enabled)
             \/ SetAutoDisconnect \/ ControlAnswered
             \/ \E link \in Links : LinkConnects(link) \/ LinkFallsSilent(link)
      PROVE  Needed
  BY <1>6 DEF SetCommunicationLostEnabled, SetAutoDisconnect, ControlAnswered, LinkConnects,
       LinkFallsSilent, LinkVars, Needed
<1>. QED  BY <1>1, <1>2, <1>3, <1>4, <1>5, <1>6 DEF Next, Event, LinkEvent

(* A live link of normal latency is given up for the user only, whatever   *)
(* links come, are lost and go.                                            *)
THEOREM Steady == Spec => NoNeedlessSwitch
<1>1. IInv /\ IInv' /\ [Next]_vars => [Needed]_vars
  BY NextIsNeeded
<1>2. Spec => [][Needed]_vars
  BY <1>1, Invariance, PTL DEF Spec
<1>3. Spec => NoNeedlessSwitch
  BY <1>2 DEF Needed, NoNeedlessSwitch
<1>. QED  BY <1>3

--------------------------------------------------------------------------------
(* An update keeps in step with the primary link each high latency link    *)
(* that it leaves told: the links of a switch get their controls, or are    *)
(* told nothing; any other is neither the old nor the new primary link.    *)
LEMMA UpdateFollows ==
  ASSUME NEW primary, NEW known, TypeOK, UpdatePrimaryLink(primary, known),
         NEW link \in (rgLinkInfo' \cap HighLatency) \ untold',
         link \notin untold => (known[link] = "start" <=> link = primary)
  PROVE  control'[link] = "start" <=> link = primaryLink'
<1>. DEFINE to   == primaryLink'
            due  == IF primary = to THEN {} ELSE {primary, to} \cap HighLatency
            sent == IF controlPending THEN {} ELSE IF primary \in due THEN {primary} ELSE due
<1>1. /\ control'[link] = IF link \notin sent THEN known[link]
                          ELSE IF link = to THEN "start" ELSE "stop"
      /\ untold' = ((untold \ sent) \cup (due \ sent)) \cap rgLinkInfo'
  BY DEF UpdatePrimaryLink, SwitchControls
<1>2. link \in due => link \in sent
  BY <1>1
<1>3. link \notin sent => link \notin untold
  BY <1>1
<1>4. CASE link \in sent
  BY <1>1, <1>4
<1>5. CASE link \notin sent
  <2>1. link \notin due /\ control'[link] = known[link] /\ (known[link] = "start" <=> link = primary)
    BY <1>1, <1>2, <1>3, <1>5
  <2>. QED  BY <2>1
<1>. QED  BY <1>4, <1>5

(* HighLatencyFollows is inductive, given the invariant above.              *)
LEMMA NextKeepsFollows ==
  ASSUME IInv, IInv', Next, HighLatencyFollows
  PROVE  HighLatencyFollows'
<1>. USE DEF IInv, TypeOK
<1>0. NoLink \notin Links
  BY VehicleLinkAssumption
<1>1. ASSUME UNCHANGED <<control, primaryLink, rgLinkInfo, untold>>
      PROVE  HighLatencyFollows'
  BY <1>1 DEF HighLatencyFollows
<1>2. ASSUME rgLinkInfo' = {}
      PROVE  HighLatencyFollows'
  BY <1>2 DEF HighLatencyFollows
<1>3. ASSUME NEW link \in Links, link \notin rgLinkInfo, AddLink(link)
      PROVE  HighLatencyFollows'
  <2>. DEFINE known == [l \in HighLatency |-> IF l = link THEN "none" ELSE control[l]]
  <2>. SUFFICES ASSUME NEW other \in (rgLinkInfo' \cap HighLatency) \ untold'
                PROVE  control'[other] = "start" <=> other = primaryLink'
    BY DEF HighLatencyFollows
  <2>1. rgLinkInfo' = rgLinkInfo \cup {link} /\ UpdatePrimaryLink(primaryLink, known)
    BY <1>3 DEF AddLink
  <2>2. primaryLink # link
    BY <1>0, <1>3
  <2>3. other \notin untold => (known[other] = "start" <=> other = primaryLink)
    BY <2>1, <2>2 DEF HighLatencyFollows
  <2>. HIDE DEF known
  <2>. QED  BY <2>1, <2>3, UpdateFollows
<1>4. ASSUME rgLinkInfo' = rgLinkInfo, UpdatePrimaryLink(primaryLink, control)
      PROVE  HighLatencyFollows'
  <2>. SUFFICES ASSUME NEW other \in (rgLinkInfo' \cap HighLatency) \ untold'
                PROVE  control'[other] = "start" <=> other = primaryLink'
    BY DEF HighLatencyFollows
  <2>1. other \notin untold => (control[other] = "start" <=> other = primaryLink)
    BY <1>4 DEF HighLatencyFollows
  <2>. QED  BY <1>4, <2>1, UpdateFollows
<1>5. ASSUME NEW link \in Links, MessageReceived(link)
      PROVE  HighLatencyFollows'
  BY <1>1, <1>3, <1>4, <1>5 DEF MessageReceived, CommRegainedOnLink
<1>6. ASSUME NEW link \in Links, NewVehicle(link)
      PROVE  HighLatencyFollows'
  BY <1>3, <1>6 DEF NewVehicle
<1>7. ASSUME NEW link \in Links, LinkDisconnected(link)
      PROVE  HighLatencyFollows'
  <2>. DEFINE primary == IF primaryLink = link THEN NoLink ELSE primaryLink
  <2>1. CASE rgLinkInfo' = rgLinkInfo \ {link} /\ UpdatePrimaryLink(primary, control)
    <3>. SUFFICES ASSUME NEW other \in (rgLinkInfo' \cap HighLatency) \ untold'
                  PROVE  control'[other] = "start" <=> other = primaryLink'
      BY DEF HighLatencyFollows
    <3>1. other = primary <=> other = primaryLink
      BY <1>0, <2>1
    <3>2. other \notin untold => (control[other] = "start" <=> other = primary)
      BY <2>1, <3>1 DEF HighLatencyFollows
    <3>. HIDE DEF primary
    <3>. QED  BY <2>1, <3>2, UpdateFollows
  <2>. QED  BY <1>1, <1>2, <1>7, <2>1 DEF LinkDisconnected, VehicleGone
<1>8. ASSUME NEW link \in Links, SetPrimaryLinkByName(link)
      PROVE  HighLatencyFollows'
  <2>1. CASE link = primaryLink
    BY <1>1, <1>8, <2>1 DEF SetPrimaryLinkByName
  <2>2. CASE link # primaryLink
    BY <1>8, <2>2 DEF SetPrimaryLinkByName, HighLatencyFollows
  <2>. QED  BY <2>1, <2>2
<1>9. ASSUME CommLostCheck
      PROVE  HighLatencyFollows'
  BY <1>2, <1>4, <1>9 DEF CommLostCheck, CloseVehicle, VehicleGone
<1>10. ASSUME CloseVehicle
       PROVE  HighLatencyFollows'
  BY <1>2, <1>10 DEF CloseVehicle, VehicleGone
<1>11. ASSUME \/ \E enabled \in BOOLEAN : SetCommunicationLostEnabled(enabled)
              \/ SetAutoDisconnect \/ ControlAnswered
              \/ \E link \in Links : LinkConnects(link) \/ LinkFallsSilent(link)
       PROVE  HighLatencyFollows'
  BY <1>1, <1>11 DEF SetCommunicationLostEnabled, SetAutoDisconnect, ControlAnswered, LinkConnects,
       LinkFallsSilent, LinkVars
<1>. QED  BY <1>5, <1>6, <1>7, <1>8, <1>9, <1>10, <1>11 DEF Next, Event, LinkEvent

(* Every high latency link transmits while it is the primary link and then *)
(* only, but for those in untold: the links of a refused control, and the  *)
(* one or two of a choice of the user, until their next control.           *)
THEOREM LatencyFollows == Spec => []HighLatencyFollows
<1>1. Init => HighLatencyFollows
  BY DEF Init, NoVehicle, HighLatencyFollows
<1>2. ASSUME IInv, IInv', HighLatencyFollows, [Next]_vars
      PROVE  HighLatencyFollows'
  <2>1. CASE Next
    BY <1>2, <2>1, NextKeepsFollows
  <2>2. CASE UNCHANGED vars
    BY <1>2, <2>2 DEF HighLatencyFollows, vars
  <2>. QED  BY <1>2, <2>1, <2>2
<1>3. IInv /\ IInv' /\ HighLatencyFollows /\ [Next]_vars => HighLatencyFollows'
  BY <1>2
<1>. QED  BY <1>1, <1>3, Invariance, PTL DEF Spec

--------------------------------------------------------------------------------
(***************************************************************************)
(* Numbers.  A number is that of one place in the script at most, so that  *)
(* the receiver's place can be told from it.                               *)
(***************************************************************************)
Count == Len(Script)

(* What the assumptions say of lengths and numbers. *)
LEMMA Sizes ==
  /\ Count \in Nat /\ Count >= 1 /\ DOMAIN Script = 1 .. Count
  /\ SeqRange \in Nat /\ 2 * Count < SeqRange
  /\ FirstSeq \in 0 .. SeqRange - 1
  /\ BufferSize \in Nat /\ BufferSize >= 1
BY EventReceiverAssumption, EventTransferAssumption DEF Count

(* A remainder, one range above, within or below. *)
LEMMA Remainder ==
  ASSUME NEW r \in Nat, r > 0, NEW a \in Int
  PROVE  /\ a \in 0 .. r - 1 => a % r = a
         /\ a \in r .. 2 * r - 1 => a % r = a - r
         /\ a \in -r .. -1 => a % r = a + r
<1>1. /\ a % r \in 0 .. r - 1
      /\ a \div r \in Int
      /\ a = r * (a \div r) + (a % r)
  OBVIOUS
<1>2. CASE a \in 0 .. r - 1
  <2>1. a \div r = 0
    BY <1>1, <1>2
  <2>. QED  BY <1>1, <1>2, <2>1
<1>3. CASE a \in r .. 2 * r - 1
  <2>1. a \div r = 1
    BY <1>1, <1>3
  <2>. QED  BY <1>1, <1>3, <2>1
<1>4. CASE a \in -r .. -1
  <2>1. a \div r = -1
    BY <1>1, <1>4
  <2>. QED  BY <1>1, <1>4, <2>1
<1>. QED  BY <1>1, <1>2, <1>3, <1>4

(* The number of a place. *)
LEMMA NumberIs ==
  ASSUME NEW n \in 0 .. Count + 1
  PROVE  /\ NumberOf(n) \in 0 .. SeqRange - 1
         /\ NumberOf(n) \in {FirstSeq + n - 1, FirstSeq + n - 1 + SeqRange, FirstSeq + n - 1 - SeqRange}
<1>1. PICK a \in Int : a = FirstSeq + n - 1
  BY Sizes
<1>2. a >= -1 /\ a < 2 * SeqRange /\ SeqRange > 0 /\ SeqRange \in Nat
  BY <1>1, Sizes
<1>3. NumberOf(n) = a % SeqRange
  BY <1>1 DEF NumberOf
<1>4. CASE a >= 0 /\ a < SeqRange
  <2>1. a % SeqRange = a
    BY <1>2, <1>4, Remainder
  <2>. QED  BY <1>1, <1>2, <1>3, <1>4, <2>1
<1>5. CASE a >= SeqRange
  <2>1. a % SeqRange = a - SeqRange
    BY <1>2, <1>5, Remainder
  <2>2. a - SeqRange \in 0 .. SeqRange - 1
    BY <1>2, <1>5
  <2>3. NumberOf(n) = FirstSeq + n - 1 - SeqRange
    BY <1>1, <1>3, <2>1, Sizes
  <2>. QED  BY <1>3, <2>1, <2>2, <2>3
<1>6. CASE a < 0
  <2>1. a % SeqRange = a + SeqRange
    BY <1>2, <1>6, Remainder
  <2>. QED  BY <1>1, <1>2, <1>3, <1>6, <2>1
<1>. QED  BY <1>2, <1>4, <1>5, <1>6

(* How far one number is ahead of another. *)
LEMMA Distance ==
  ASSUME NEW m \in 0 .. Count + 1, NEW n \in 0 .. Count + 1
  PROVE  (NumberOf(n) - NumberOf(m)) % SeqRange = IF n >= m THEN n - m ELSE n - m + SeqRange
<1>. DEFINE a == NumberOf(n) - NumberOf(m)
<1>1. a \in Int /\ SeqRange \in Nat /\ SeqRange > 0 /\ Count + 1 < SeqRange
  BY Sizes, NumberIs
<1>2. /\ a \in 0 .. SeqRange - 1 => a % SeqRange = a
      /\ a \in SeqRange .. 2 * SeqRange - 1 => a % SeqRange = a - SeqRange
      /\ a \in -SeqRange .. -1 => a % SeqRange = a + SeqRange
  BY <1>1, Remainder
<1>5. /\ NumberOf(m) \in 0 .. SeqRange - 1 /\ NumberOf(n) \in 0 .. SeqRange - 1
      /\ FirstSeq \in 0 .. SeqRange - 1 /\ m \in Int /\ n \in Int /\ Count \in Nat
  BY NumberIs, Sizes
<1>6. /\ NumberOf(m) \in {FirstSeq + m - 1, FirstSeq + m - 1 + SeqRange, FirstSeq + m - 1 - SeqRange}
      /\ NumberOf(n) \in {FirstSeq + n - 1, FirstSeq + n - 1 + SeqRange, FirstSeq + n - 1 - SeqRange}
  BY NumberIs
<1>4. n - m \in Int /\ n - m < SeqRange /\ n - m > -SeqRange
  BY <1>1, <1>5
<1>3. a \in {n - m, n - m + SeqRange, n - m - SeqRange} /\ a > -SeqRange /\ a < SeqRange
  BY <1>1, <1>4, <1>5, <1>6
<1>. QED  BY <1>1, <1>2, <1>3, <1>4

(* Two places have two numbers. *)
LEMMA NumbersDiffer ==
  ASSUME NEW m \in 0 .. Count + 1, NEW n \in 0 .. Count + 1, NumberOf(m) = NumberOf(n)
  PROVE  m = n
<1>1. (NumberOf(n) - NumberOf(m)) % SeqRange = 0
  <2>1. NumberOf(n) - NumberOf(m) = 0
    BY NumberIs, Sizes
  <2>. QED  BY <2>1, Sizes, Remainder
<1>. QED  BY <1>1, Distance, Sizes

(* The number after that of a place, and the one before. *)
LEMMA NextNumber ==
  ASSUME NEW n \in 0 .. Count
  PROVE  (NumberOf(n) + 1) % SeqRange = NumberOf(n + 1) /\ (NumberOf(n + 1) - 1) % SeqRange = NumberOf(n)
<1>. DEFINE a == NumberOf(n) + 1  b == NumberOf(n + 1) - 1
<1>1. /\ SeqRange \in Nat /\ SeqRange > 0 /\ n + 1 \in 0 .. Count + 1 /\ n \in 0 .. Count + 1
      /\ NumberOf(n) \in 0 .. SeqRange - 1 /\ NumberOf(n + 1) \in 0 .. SeqRange - 1
  BY Sizes, NumberIs
<1>2. /\ a \in 0 .. SeqRange - 1 => a % SeqRange = a
      /\ a \in SeqRange .. 2 * SeqRange - 1 => a % SeqRange = a - SeqRange
  BY <1>1, Remainder
<1>3. /\ b \in 0 .. SeqRange - 1 => b % SeqRange = b
      /\ b \in -SeqRange .. -1 => b % SeqRange = b + SeqRange
  BY <1>1, Remainder
<1>5. FirstSeq \in 0 .. SeqRange - 1 /\ n \in Nat /\ Count \in Nat /\ 2 * Count < SeqRange
  BY Sizes
<1>6. (NumberOf(n + 1) - NumberOf(n)) % SeqRange = 1
  BY <1>1, <1>5, Distance
<1>7. /\ NumberOf(n + 1) - NumberOf(n) \in 0 .. SeqRange - 1 =>
            (NumberOf(n + 1) - NumberOf(n)) % SeqRange = NumberOf(n + 1) - NumberOf(n)
      /\ NumberOf(n + 1) - NumberOf(n) \in -SeqRange .. -1 =>
            (NumberOf(n + 1) - NumberOf(n)) % SeqRange = NumberOf(n + 1) - NumberOf(n) + SeqRange
  BY <1>1, Remainder
<1>4. NumberOf(n + 1) = NumberOf(n) + 1 \/ (NumberOf(n + 1) = 0 /\ NumberOf(n) = SeqRange - 1)
  BY <1>1, <1>6, <1>7
<1>. QED  BY <1>1, <1>2, <1>3, <1>4

(* A distance leads from one number to the other. *)
LEMMA DistanceLeads ==
  ASSUME NEW a \in 0 .. SeqRange - 1, NEW b \in 0 .. SeqRange - 1
  PROVE  /\ (b - a) % SeqRange \in 0 .. SeqRange - 1
         /\ (a + ((b - a) % SeqRange)) % SeqRange = b
<1>1. SeqRange \in Nat /\ SeqRange > 0 /\ a \in Int /\ b \in Int
  BY Sizes
<1>2. /\ b - a \in 0 .. SeqRange - 1 => (b - a) % SeqRange = b - a
      /\ b - a \in -SeqRange .. -1 => (b - a) % SeqRange = b - a + SeqRange
  BY <1>1, Remainder
<1>3. CASE b >= a
  <2>1. (b - a) % SeqRange = b - a /\ a + (b - a) = b
    BY <1>1, <1>2, <1>3
  <2>2. b % SeqRange = b
    BY <1>1, Remainder
  <2>. QED  BY <1>1, <1>3, <2>1, <2>2
<1>4. CASE b < a
  <2>1. (b - a) % SeqRange = b - a + SeqRange /\ a + (b - a + SeqRange) = b + SeqRange
    BY <1>1, <1>2, <1>4
  <2>2. (b + SeqRange) % SeqRange = b
    <3>1. b + SeqRange \in SeqRange .. 2 * SeqRange - 1 /\ b + SeqRange \in Int
      BY <1>1
    <3>. QED  BY <1>1, <3>1, Remainder
  <2>. QED  BY <1>1, <1>4, <2>1, <2>2
<1>. QED  BY <1>1, <1>3, <1>4

(* The place of a number. *)
Position(seq) == CHOOSE p \in 0 .. Count + 1 : NumberOf(p) = seq

LEMMA PositionIs ==
  ASSUME NEW p \in 0 .. Count + 1
  PROVE  Position(NumberOf(p)) = p
BY NumbersDiffer DEF Position

(***************************************************************************)
(* A set of naturals has a least element, and so induction on them.        *)
(***************************************************************************)
Under(n) == {i \in Nat : i < n}

LEMMA LeastNatural ==
  ASSUME NEW S, S \subseteq Nat, S # {}
  PROVE  \E k \in S : \A j \in S : k <= j
<1>. DEFINE T == {Under(n) : n \in S}
<1>1. \A n \in Nat : IsFiniteSet(Under(n))
  <2>. TAKE n \in Nat
  <2>1. Under(n) \in SUBSET Nat /\ \A i \in Under(n) : i <= n
    BY DEF Under
  <2>. QED  BY <2>1, FS_BoundedSetOfNaturals
<1>2. T \subseteq FiniteSubsetsOf(Nat) /\ T # {}
  <2>1. \A n \in S : Under(n) \in SUBSET Nat /\ IsFiniteSet(Under(n))
    BY <1>1 DEF Under
  <2>. QED  BY <2>1 DEF FiniteSubsetsOf
<1>3. PICK B \in T : \A C \in T : << C, B >> \notin StrictSubsetOrdering(Nat)
  <2>. HIDE DEF T
  <2>. QED  BY <1>2, FS_StrictSubsetOrderingWellFounded, WFMin
<1>4. PICK k \in S : B = Under(k)
  OBVIOUS
<1>5. \A j \in S : k <= j
  <2>. SUFFICES ASSUME NEW j \in S, j < k PROVE FALSE
    OBVIOUS
  <2>1. Under(j) \subseteq Under(k) /\ Under(j) # Under(k)
    <3>1. j \in Under(k) /\ j \notin Under(j)
      BY DEF Under
    <3>. QED  BY <3>1 DEF Under
  <2>2. << Under(j), Under(k) >> \in StrictSubsetOrdering(Nat)
    BY <1>2, <2>1 DEF StrictSubsetOrdering, FiniteSubsetsOf
  <2>. QED  BY <1>3, <1>4, <2>2
<1>. QED  BY <1>5

(* A set with 0 that with a number has the next has all numbers.           *)
LEMMA EventInduction ==
  ASSUME NEW S, 0 \in S, \A n \in Nat : n \in S => n + 1 \in S
  PROVE  \A n \in Nat : n \in S
<1>. SUFFICES ASSUME NEW n \in Nat, n \notin S PROVE FALSE
  OBVIOUS
<1>1. PICK m \in Nat \ S : \A j \in Nat \ S : m <= j
  BY LeastNatural
<1>2. m - 1 \in Nat /\ m - 1 \in S
  BY <1>1
<1>. QED  BY <1>2, <1>1

--------------------------------------------------------------------------------
(***************************************************************************)
(* What is under way.  An answer can lie: if the receiver asks for an      *)
(* event of the boot before, the oldest one there is comes before it.      *)
(***************************************************************************)
IsEvent(x) ==
  /\ "msg" \in DOMAIN x /\ x.msg = "event" /\ x.boot \in Nat \ {0} /\ x.n \in 1 .. Count
  /\ x.seq = NumberOf(x.n) /\ x.time \in 1 .. MaxClock
  /\ x.kind = Script[x.n] /\ x.tag = << x.boot, x.n >>
  /\ x.toUs \in BOOLEAN /\ (x.toUs <=> Script[x.n] # "elsewhere")

IsCurrent(x) ==
  /\ x.msg = "current" /\ x.boot \in Nat \ {0} /\ x.reset \in BOOLEAN
  /\ \E k \in 0 .. Count : x.seq = NumberOf(k)

IsError(x) ==
  /\ x.msg = "error" /\ x.boot \in Nat \ {0}
  /\ \E k \in 1 .. Count + 1 : x.seq = NumberOf(k)
  /\ \E k \in 1 .. Count + 1 : x.oldest = NumberOf(k)

(* The place a message brings the receiver to.                             *)
Place(x) == IF x.msg = "event" THEN x.n
            ELSE IF x.msg = "current" THEN Position(x.seq) ELSE Position(x.oldest) - 1

(* The place asked for by the request a message answers.                   *)
Asked(x) == Position(x.seq)

Lying(x) == x.msg = "error" /\ Place(x) + 1 < Asked(x)

(* The times b, s of the events of boot b. *)
StampsOK(b, s) ==
  /\ b \in Nat \ {0} /\ s \in Seq(1 .. MaxClock) /\ Len(s) <= Count
  /\ \A i, j \in DOMAIN s : i <= j => s[i] <= s[j]

(* What the vehicle can send in that state. *)
Fresh(x, b, s) ==
  /\ x.boot = b /\ Place(x) <= Len(s)
  /\ IsEvent(x) => x.time = s[x.n]
  /\ Lying(x) => Len(s) + 1 < Asked(x)

(* Places are places of the script. *)
LEMMA PlaceIs ==
  ASSUME NEW x
  PROVE  /\ IsEvent(x) => Place(x) = x.n /\ Place(x) \in 1 .. Count
         /\ IsCurrent(x) => Place(x) \in 0 .. Count /\ x.seq = NumberOf(Place(x))
         /\ IsError(x) => /\ Place(x) \in 0 .. Count /\ x.oldest = NumberOf(Place(x) + 1)
                          /\ Asked(x) \in 1 .. Count + 1 /\ x.seq = NumberOf(Asked(x))
<1>1. Count \in Nat
  BY Sizes
<1>2. IsEvent(x) => Place(x) = x.n /\ Place(x) \in 1 .. Count
  BY DEF IsEvent, Place
<1>3. ASSUME IsCurrent(x) PROVE Place(x) \in 0 .. Count /\ x.seq = NumberOf(Place(x))
  <2>1. PICK k \in 0 .. Count : x.seq = NumberOf(k)
    BY <1>3 DEF IsCurrent
  <2>2. Place(x) = k
    BY <1>1, <1>3, <2>1, PositionIs DEF IsCurrent, Place
  <2>. QED  BY <2>1, <2>2
<1>4. ASSUME IsError(x)
      PROVE  /\ Place(x) \in 0 .. Count /\ x.oldest = NumberOf(Place(x) + 1)
             /\ Asked(x) \in 1 .. Count + 1 /\ x.seq = NumberOf(Asked(x))
  <2>1. PICK k \in 1 .. Count + 1 : x.oldest = NumberOf(k)
    BY <1>4 DEF IsError
  <2>2. PICK s \in 1 .. Count + 1 : x.seq = NumberOf(s)
    BY <1>4 DEF IsError
  <2>3. Position(x.oldest) = k /\ Position(x.seq) = s
    BY <1>1, <2>1, <2>2, PositionIs
  <2>4. Place(x) = k - 1 /\ Asked(x) = s
    BY <1>4, <2>3 DEF IsError, Place, Asked
  <2>. QED  BY <1>1, <2>1, <2>2, <2>4
<1>. QED  BY <1>2, <1>3, <1>4

(* The messages. *)
EventMessages ==
  [msg : {"event"}, seq : Nat, time : Nat, toUs : BOOLEAN, kind : STRING,
   tag : (Nat \ {0}) \X Nat, boot : Nat, n : Nat]
    \cup [msg : {"current"}, seq : Nat, reset : BOOLEAN, boot : Nat]
    \cup [msg : {"error"}, seq : Nat, oldest : Nat, boot : Nat]

(* An event the vehicle sends. *)
LEMMA EventOfIs ==
  ASSUME StampsOK(boot, stamps), NEW n \in 1 .. Count, NEW time \in 1 .. MaxClock
  PROVE  /\ IsEvent(EventOf(n, time)) /\ EventOf(n, time).n = n
         /\ EventOf(n, time).time = time /\ EventOf(n, time).boot = boot
         /\ EventOf(n, time) \in EventMessages
<1>1. /\ boot \in Nat \ {0} /\ n \in Nat /\ Script[n] \in STRING /\ time \in Nat
      /\ NumberOf(n) \in Nat /\ << boot, n >> \in (Nat \ {0}) \X Nat
  <2>1. n \in 0 .. Count + 1 /\ n \in DOMAIN Script /\ SeqRange \in Nat
    BY Sizes
  <2>2. Script[n] \in STRING
    BY <2>1, EventTransferAssumption
  <2>. QED  BY <2>1, <2>2, NumberIs, EventTransferAssumption DEF StampsOK
<1>. QED  BY <1>1 DEF EventOf, IsEvent, EventMessages

(* The answer to a request for what follows a place.                       *)
LEMMA AnswerIs ==
  ASSUME StampsOK(boot, stamps), NEW s \in 1 .. Count + 1, NEW x, x = Answer(NumberOf(s))
  PROVE  /\ Fresh(x, boot, stamps) /\ x \in EventMessages /\ (IsEvent(x) \/ IsError(x))
         /\ IsError(x) => Asked(x) = s
<1>. DEFINE seq == NumberOf(s)
            found == {n \in Kept : NumberOf(n) = seq}
            ahead == {(NumberOf(n) - seq) % SeqRange : n \in Kept \cup {Len(stamps) + 1}}
            least == CHOOSE d \in ahead : \A o \in ahead : d <= o
<1>1. Kept \subseteq 1 .. Len(stamps) /\ Len(stamps) \in Nat /\ Len(stamps) <= Count /\ Count \in Nat
  BY Sizes DEF Kept, StampsOK
<1>2. CASE found # {}
  <2>. DEFINE n == CHOOSE n \in found : TRUE
  <2>1. n \in Kept /\ n \in 1 .. Len(stamps)
    BY <1>1, <1>2
  <2>2. x = EventOf(n, stamps[n])
    BY <1>2 DEF Answer
  <2>. HIDE DEF n
  <2>6. stamps \in Seq(1 .. MaxClock) /\ DOMAIN stamps = 1 .. Len(stamps)
    BY DEF StampsOK
  <2>7. n \in 1 .. Count
    BY <1>1, <2>1
  <2>8. stamps[n] \in 1 .. MaxClock
    BY <2>1, <2>6, ElementOfSeq
  <2>3. stamps[n] \in 1 .. MaxClock /\ n \in 1 .. Count
    BY <2>7, <2>8
  <2>4. IsEvent(x) /\ x.n = n /\ x.time = stamps[n] /\ x.boot = boot /\ x \in EventMessages
    BY <2>2, <2>3, EventOfIs
  <2>5. Place(x) = n /\ ~Lying(x) /\ ~IsError(x)
    BY <2>4, PlaceIs DEF IsEvent, IsError, Lying
  <2>. QED  BY <1>1, <2>1, <2>4, <2>5 DEF Fresh
<1>3. CASE found = {}
  <2>1. ahead \subseteq Nat /\ ahead # {}
    <3>1. \A k \in Kept \cup {Len(stamps) + 1} : k \in 0 .. Count + 1
      BY <1>1
    <3>2. ASSUME NEW k \in 0 .. Count + 1 PROVE (NumberOf(k) - seq) % SeqRange \in Nat
      <4>1. NumberOf(k) \in 0 .. SeqRange - 1 /\ seq \in 0 .. SeqRange - 1
        BY <1>1, NumberIs
      <4>2. (NumberOf(k) - seq) % SeqRange \in 0 .. SeqRange - 1
        BY <4>1, DistanceLeads
      <4>. QED  BY <4>2
    <3>. QED  BY <3>1, <3>2
  <2>2. least \in ahead /\ \A o \in ahead : least <= o
    <3>. HIDE DEF ahead
    <3>. QED  BY <2>1, LeastNatural
  <2>3. x = [msg |-> "error", seq |-> seq, oldest |-> (seq + least) % SeqRange, boot |-> boot]
    BY <1>3 DEF Answer
  <2>4. PICK k \in Kept \cup {Len(stamps) + 1} : least = (NumberOf(k) - seq) % SeqRange
    BY <2>2
  <2>5. k \in 1 .. Len(stamps) + 1 /\ k \in 1 .. Count + 1 /\ k \in 0 .. Count + 1
    BY <1>1, <2>4
  <2>6. (NumberOf(Len(stamps) + 1) - seq) % SeqRange \in ahead
    OBVIOUS
  <2>. HIDE DEF least, ahead, found
  <2>7. (seq + least) % SeqRange = NumberOf(k)
    BY <1>1, <2>4, <2>5, NumberIs, DistanceLeads
  <2>8. IsError(x) /\ x.msg = "error" /\ x.boot = boot /\ x.seq = NumberOf(s) /\ x.oldest = NumberOf(k)
    BY <2>3, <2>5, <2>7 DEF IsError, StampsOK
  <2>9. Place(x) = k - 1 /\ Asked(x) = s
    <3>1. Position(x.oldest) = k /\ Position(x.seq) = s
      BY <1>1, <2>5, <2>8, PositionIs
    <3>. QED  BY <2>8, <3>1 DEF Place, Asked
  <2>10. k < s => Len(stamps) + 1 < s
    <3>. SUFFICES ASSUME k < s, s <= Len(stamps) + 1 PROVE FALSE
      BY <1>1
    <3>1. least = k - s + SeqRange
      BY <1>1, <2>4, <2>5, Distance
    <3>2. (NumberOf(Len(stamps) + 1) - seq) % SeqRange = Len(stamps) + 1 - s
      BY <1>1, Distance
    <3>3. least <= Len(stamps) + 1 - s
      BY <2>2, <2>6, <3>2
    <3>. QED  BY <1>1, <2>5, <3>1, <3>3, Sizes
  <2>11. x \in EventMessages
    <3>1. seq \in Nat /\ NumberOf(k) \in Nat /\ boot \in Nat
      <4>1. s \in 0 .. Count + 1
        BY <1>1
      <4>. QED  BY <2>5, <4>1, NumberIs DEF StampsOK
    <3>. QED  BY <2>3, <2>7, <3>1 DEF EventMessages
  <2>. QED  BY <1>1, <2>5, <2>8, <2>9, <2>10, <2>11 DEF Fresh, Lying, IsEvent
<1>. QED  BY <1>2, <1>3

--------------------------------------------------------------------------------
(* Sequences without their first element, and with one more.               *)
LEMMA TailOf ==
  ASSUME NEW S, NEW q \in Seq(S), q # << >>
  PROVE  /\ Tail(q) \in Seq(S) /\ Head(q) = q[1] /\ q[1] \in S /\ Len(q) \in Nat /\ Len(q) >= 1
         /\ DOMAIN q = 1 .. Len(q) /\ DOMAIN Tail(q) = 1 .. Len(q) - 1
         /\ \A i \in DOMAIN Tail(q) : i + 1 \in DOMAIN q /\ i + 1 > 1 /\ Tail(q)[i] = q[i + 1]
<1>1. Len(q) \in Nat /\ Len(q) >= 1 /\ DOMAIN q = 1 .. Len(q)
  BY EmptySeq
<1>2. Tail(q) \in Seq(S) /\ Len(Tail(q)) = Len(q) - 1 /\ \A i \in 1 .. Len(Tail(q)) : Tail(q)[i] = q[i + 1]
  BY HeadTailProperties
<1>3. DOMAIN Tail(q) = 1 .. Len(q) - 1
  BY <1>1, <1>2
<1>4. Head(q) = q[1] /\ q[1] \in S
  BY <1>1
<1>5. \A i \in 1 .. Len(q) - 1 : i + 1 \in 1 .. Len(q) /\ i + 1 > 1
  BY <1>1
<1>. QED  BY <1>1, <1>2, <1>3, <1>4, <1>5

LEMMA AppendOf ==
  ASSUME NEW S, NEW q \in Seq(S), NEW x \in S
  PROVE  /\ Append(q, x) \in Seq(S) /\ Len(q) \in Nat /\ DOMAIN q = 1 .. Len(q)
         /\ DOMAIN Append(q, x) = 1 .. Len(q) + 1 /\ Append(q, x)[Len(q) + 1] = x
         /\ \A i \in DOMAIN q : Append(q, x)[i] = q[i]
<1>1. Len(q) \in Nat /\ DOMAIN q = 1 .. Len(q)
  OBVIOUS
<1>2. /\ Append(q, x) \in Seq(S) /\ Len(Append(q, x)) = Len(q) + 1
      /\ \A i \in 1 .. Len(q) : Append(q, x)[i] = q[i] /\ Append(q, x)[Len(q) + 1] = x
  BY AppendProperties
<1>3. Append(q, x)[Len(q) + 1] = x
  OBVIOUS
<1>. QED  BY <1>1, <1>2, <1>3

(***************************************************************************)
(* What is under way keeps the order in which it was sent.                 *)
(***************************************************************************)
(* A message of this boot tells of events there are.                       *)
Sound(x, b, s) ==
  /\ IsEvent(x) \/ IsCurrent(x) \/ IsError(x)
  /\ x.boot <= b
  /\ x.boot = b => Place(x) <= Len(s) /\ (IsEvent(x) => x.time = s[x.n])

(* One message sent before another.                                        *)
InTurn(x, y) ==
  /\ x.boot <= y.boot
  /\ x.boot = y.boot /\ Lying(y) => Place(x) + 1 < Asked(y)

Timed(x, y) == IsEvent(x) /\ IsEvent(y) /\ x.boot = y.boot /\ x.n <= y.n => x.time <= y.time

AirOK(q, b, s) ==
  /\ \A i \in DOMAIN q : Sound(q[i], b, s) /\ (IsCurrent(q[i]) => i = 1)
  /\ \A i, j \in DOMAIN q : i < j => InTurn(q[i], q[j])
  /\ \A i, j \in DOMAIN q : Timed(q[i], q[j])

(* Without the first message.                                              *)
LEMMA TailAir ==
  ASSUME NEW b, NEW s, NEW q \in Seq(EventMessages), q # << >>, AirOK(q, b, s)
  PROVE  AirOK(Tail(q), b, s) /\ \A i \in DOMAIN Tail(q) : ~IsCurrent(Tail(q)[i])
<1>1. /\ DOMAIN q = 1 .. Len(q) /\ DOMAIN Tail(q) = 1 .. Len(q) - 1 /\ Len(q) \in Nat
      /\ \A i \in DOMAIN Tail(q) : i + 1 \in DOMAIN q /\ i + 1 > 1 /\ Tail(q)[i] = q[i + 1]
  BY TailOf
<1>2. ASSUME NEW i \in DOMAIN Tail(q) PROVE Sound(Tail(q)[i], b, s) /\ ~IsCurrent(Tail(q)[i])
  BY <1>1 DEF AirOK
<1>3. ASSUME NEW i \in DOMAIN Tail(q), NEW j \in DOMAIN Tail(q) PROVE Timed(Tail(q)[i], Tail(q)[j])
  BY <1>1 DEF AirOK
<1>4. ASSUME NEW i \in DOMAIN Tail(q), NEW j \in DOMAIN Tail(q), i < j
      PROVE  InTurn(Tail(q)[i], Tail(q)[j])
  <2>1. i + 1 < j + 1
    BY <1>1, <1>4
  <2>. QED  BY <1>1, <2>1 DEF AirOK
<1>. QED  BY <1>2, <1>3, <1>4 DEF AirOK

(* A message sent now. *)
LEMMA AppendAir ==
  ASSUME NEW b, NEW s, StampsOK(b, s),
         NEW q \in Seq(EventMessages), AirOK(q, b, s), NEW x \in EventMessages,
         Fresh(x, b, s),
         IsEvent(x) \/ IsError(x) \/ (IsCurrent(x) /\ q = << >>)
  PROVE  AirOK(Append(q, x), b, s)
<1>. DEFINE r == Append(q, x)
<1>1. /\ Len(q) \in Nat /\ DOMAIN q = 1 .. Len(q) /\ DOMAIN r = 1 .. Len(q) + 1
      /\ r[Len(q) + 1] = x /\ \A i \in DOMAIN q : r[i] = q[i]
  BY AppendOf
<1>. HIDE DEF r
<1>2. Sound(x, b, s)
  BY DEF Fresh, Sound, StampsOK
<1>3. IsCurrent(x) => Len(q) = 0
  <2>1. IsCurrent(x) => ~IsEvent(x) /\ ~IsError(x)
    BY DEF IsCurrent, IsEvent, IsError
  <2>. QED  BY <2>1
<1>4. ASSUME NEW i \in DOMAIN r PROVE Sound(r[i], b, s) /\ (IsCurrent(r[i]) => i = 1)
  <2>1. CASE i \in DOMAIN q
    BY <1>1, <2>1 DEF AirOK
  <2>2. CASE i = Len(q) + 1
    BY <1>1, <1>2, <1>3, <2>2
  <2>. QED  BY <1>1, <2>1, <2>2
<1>5. ASSUME NEW i \in DOMAIN q PROVE InTurn(q[i], x) /\ Timed(q[i], x) /\ Timed(x, q[i])
  <2>1. Sound(q[i], b, s)
    BY DEF AirOK
  <2>2. Place(q[i]) \in 0 .. Count /\ Count \in Nat
    BY <2>1, PlaceIs, Sizes DEF Sound
  <2>3. Lying(x) => Asked(x) \in 1 .. Count + 1
    BY PlaceIs DEF Lying, IsEvent, IsCurrent
  <2>4. Len(s) \in Nat /\ DOMAIN s = 1 .. Len(s)
    BY DEF StampsOK
  <2>5. InTurn(q[i], x)
    <3>1. q[i].boot <= x.boot
      BY <2>1 DEF Sound, Fresh
    <3>2. ASSUME q[i].boot = x.boot, Lying(x) PROVE Place(q[i]) + 1 < Asked(x)
      <4>1. Place(q[i]) <= Len(s) /\ Len(s) + 1 < Asked(x)
        BY <2>1, <3>2 DEF Sound, Fresh
      <4>. QED  BY <2>2, <2>3, <2>4, <3>2, <4>1
    <3>. QED  BY <3>1, <3>2 DEF InTurn
  <2>6. ASSUME IsEvent(q[i]), IsEvent(x), q[i].boot = x.boot
        PROVE  /\ q[i].n \in DOMAIN s /\ x.n \in DOMAIN s
               /\ q[i].time = s[q[i].n] /\ x.time = s[x.n]
    <3>1. Place(q[i]) = q[i].n /\ Place(x) = x.n /\ q[i].n \in 1 .. Count /\ x.n \in 1 .. Count
      BY <2>6, PlaceIs DEF IsEvent
    <3>2. Place(q[i]) <= Len(s) /\ Place(x) <= Len(s)
      BY <2>1, <2>6 DEF Sound, Fresh
    <3>3. q[i].time = s[q[i].n] /\ x.time = s[x.n]
      BY <2>1, <2>6 DEF Sound, Fresh
    <3>. QED  BY <2>2, <2>4, <3>1, <3>2, <3>3
  <2>7. Timed(q[i], x) /\ Timed(x, q[i])
    BY <2>6 DEF Timed, StampsOK
  <2>. QED  BY <2>5, <2>7
<1>6. Timed(x, x)
  <2>1. IsEvent(x) => x.time <= x.time
    BY DEF IsEvent
  <2>. QED  BY <2>1 DEF Timed
<1>7. ASSUME NEW i \in DOMAIN r, NEW j \in DOMAIN r PROVE Timed(r[i], r[j])
  <2>1. (i \in DOMAIN q \/ i = Len(q) + 1) /\ (j \in DOMAIN q \/ j = Len(q) + 1)
    BY <1>1
  <2>2. CASE i \in DOMAIN q /\ j \in DOMAIN q
    BY <1>1, <2>2 DEF AirOK
  <2>. QED  BY <1>1, <1>5, <1>6, <2>1, <2>2
<1>8. ASSUME NEW i \in DOMAIN r, NEW j \in DOMAIN r, i < j PROVE InTurn(r[i], r[j])
  <2>1. i \in DOMAIN q /\ (j \in DOMAIN q \/ j = Len(q) + 1)
    BY <1>1, <1>8
  <2>2. CASE j \in DOMAIN q
    BY <1>1, <1>8, <2>1, <2>2 DEF AirOK
  <2>. QED  BY <1>1, <1>5, <2>1, <2>2
<1>. QED  BY <1>4, <1>7, <1>8 DEF AirOK, r

--------------------------------------------------------------------------------
(***************************************************************************)
(* What is under way follows what was accepted last, l, by a receiver that *)
(* is at place p and has noted time t, has reported rep events as lost     *)
(* since, and taken up the sequence anew if reb.                           *)
(***************************************************************************)
Behind(x, l, p, t) ==
  /\ l.boot <= x.boot
  /\ x.boot = l.boot =>
       /\ IsEvent(x) /\ x.n >= l.n => x.time >= t
       /\ IsCurrent(x) => l.n <= Place(x)
       /\ Lying(x) => p + 1 < Asked(x)

(* An event of that boot may still come.                                *)
Reachable(q, l, b) == l.boot = b \/ \E i \in DOMAIN q : q[i].boot = l.boot

Follows(q, l, p, t, rep, reb, st, b, s) ==
  /\ l.boot \in Nat /\ l.n \in 0 .. Count /\ p \in 0 .. Count /\ rep \in Nat
  /\ l.boot = 0 \/ (l.boot <= b /\ l.n >= 1 /\ t \in 1 .. MaxClock)
  /\ l.boot = b => l.n <= Len(s) /\ s[l.n] = t /\ p <= Len(s)
  /\ \A i \in DOMAIN q : Behind(q[i], l, p, t)
  /\ ~st /\ Reachable(q, l, b) => p >= l.n /\ (~reb => p = l.n + rep)

(* A message that changes nothing. *)
LEMMA DropHead ==
  ASSUME NEW b, NEW s, NEW q \in Seq(EventMessages), q # << >>,
         NEW l, NEW p, NEW t, NEW rep, NEW reb, NEW st, Follows(q, l, p, t, rep, reb, st, b, s)
  PROVE  Follows(Tail(q), l, p, t, rep, reb, st, b, s)
<1>1. \A i \in DOMAIN Tail(q) : i + 1 \in DOMAIN q /\ Tail(q)[i] = q[i + 1]
  BY TailOf
<1>2. Reachable(Tail(q), l, b) => Reachable(q, l, b)
  BY <1>1 DEF Reachable
<1>. QED  BY <1>1, <1>2 DEF Follows

(* An event that is accepted. *)
LEMMA TakeEvent ==
  ASSUME NEW b, NEW s, StampsOK(b, s),
         NEW q \in Seq(EventMessages), q # << >>, AirOK(q, b, s),
         NEW e, e = q[1], IsEvent(e),
         NEW l, l.boot = e.boot, l.n = e.n, NEW st
  PROVE  Follows(Tail(q), l, e.n, e.time, 0, FALSE, st, b, s)
<1>1. /\ \A i \in DOMAIN Tail(q) : i + 1 \in DOMAIN q /\ i + 1 > 1 /\ Tail(q)[i] = q[i + 1]
      /\ 1 \in DOMAIN q
  BY TailOf
<1>2. Sound(e, b, s) /\ e.boot \in Nat /\ e.boot # 0 /\ e.n \in 1 .. Count /\ e.time \in 1 .. MaxClock
  BY <1>1 DEF AirOK, IsEvent
<1>3. Place(e) = e.n /\ Count \in Nat /\ ~Lying(e)
  BY PlaceIs, Sizes DEF Lying, IsEvent
<1>4. ASSUME NEW i \in DOMAIN Tail(q) PROVE Behind(Tail(q)[i], l, e.n, e.time)
  <2>1. PICK x : x = Tail(q)[i] /\ x = q[i + 1]
    BY <1>1
  <2>2. InTurn(e, x) /\ Timed(e, x) /\ ~IsCurrent(x)
    BY <1>1, <2>1, TailAir DEF AirOK
  <2>. QED  BY <1>3, <2>1, <2>2 DEF InTurn, Timed, Behind
<1>5. l.boot = b => l.n <= Len(s) /\ s[l.n] = e.time /\ e.n <= Len(s)
  BY <1>2, <1>3 DEF Sound
<1>6. e.n >= l.n /\ e.n = l.n + 0 /\ l.boot <= b /\ l.n >= 1
  BY <1>2 DEF Sound
<1>7. e.n \in 0 .. Count /\ 0 \in Nat
  BY <1>2, <1>3
<1>. QED  BY <1>2, <1>4, <1>5, <1>6, <1>7 DEF Follows

(* The place a message of the receiver's boot brings it to.             *)
LEMMA TakeHead ==
  ASSUME NEW b, NEW s, StampsOK(b, s),
         NEW q \in Seq(EventMessages), q # << >>, AirOK(q, b, s),
         NEW e, e = q[1],
         IsCurrent(e) \/ IsError(e),
         NEW l, NEW p, NEW t, NEW rep, NEW reb, NEW st, Follows(q, l, p, t, rep, reb, st, b, s),
         NEW more \in Nat, NEW again,
         e.boot = l.boot /\ ~st => Place(e) >= l.n /\ (~again => Place(e) = l.n + more)
  PROVE  Follows(Tail(q), l, Place(e), t, more, again, st, b, s)
<1>1. /\ \A i \in DOMAIN Tail(q) : i + 1 \in DOMAIN q /\ i + 1 > 1 /\ Tail(q)[i] = q[i + 1]
      /\ 1 \in DOMAIN q
  BY TailOf
<1>2. Sound(e, b, s) /\ e.boot \in Nat /\ e.boot # 0 /\ Place(e) \in 0 .. Count /\ b \in Nat
  BY <1>1, PlaceIs DEF AirOK, IsCurrent, IsError, StampsOK
<1>3. l.boot \in Nat /\ l.boot <= e.boot /\ e.boot <= b
  BY <1>1, <1>2 DEF Follows, Behind, Sound
<1>4. ASSUME NEW i \in DOMAIN Tail(q)
      PROVE  Behind(Tail(q)[i], l, Place(e), t) /\ (Tail(q)[i].boot = l.boot => e.boot = l.boot)
  <2>1. PICK x : x = Tail(q)[i] /\ x = q[i + 1]
    BY <1>1
  <2>2. InTurn(e, x) /\ Sound(x, b, s) /\ Behind(x, l, p, t)
    BY <1>1, <2>1 DEF AirOK, Follows
  <2>3. x.boot \in Nat
    BY <2>2 DEF Sound, IsEvent, IsCurrent, IsError
  <2>4. x.boot = l.boot => e.boot = l.boot
    BY <1>2, <1>3, <2>2, <2>3 DEF InTurn
  <2>. QED  BY <2>1, <2>2, <2>4 DEF InTurn, Behind
<1>5. l.boot = b => e.boot = l.boot
  BY <1>2, <1>3
<1>6. Reachable(Tail(q), l, b) => e.boot = l.boot
  BY <1>4, <1>5 DEF Reachable
<1>7. l.boot = b => l.n <= Len(s) /\ s[l.n] = t /\ Place(e) <= Len(s)
  BY <1>2, <1>5 DEF Follows, Sound
<1>. QED  BY <1>2, <1>4, <1>6, <1>7 DEF Follows

(* A message sent now: a broadcast, an event, or the answer to the request *)
(* the receiver makes at its place.                                        *)
LEMMA AddFresh ==
  ASSUME NEW b, NEW s, StampsOK(b, s),
         NEW q \in Seq(EventMessages), NEW x \in EventMessages, Fresh(x, b, s),
         IsEvent(x) \/ IsError(x) \/ IsCurrent(x), IsCurrent(x) => Place(x) = Len(s),
         NEW l, NEW p, NEW t, NEW rep, NEW reb, NEW st, Follows(q, l, p, t, rep, reb, st, b, s),
         IsError(x) => Asked(x) = p + 1
  PROVE  Follows(Append(q, x), l, p, t, rep, reb, st, b, s)
<1>. DEFINE r == Append(q, x)
<1>1. /\ Len(q) \in Nat /\ DOMAIN q = 1 .. Len(q) /\ DOMAIN r = 1 .. Len(q) + 1
      /\ r[Len(q) + 1] = x /\ \A i \in DOMAIN q : r[i] = q[i]
  BY AppendOf
<1>. HIDE DEF r
<1>2. x.boot = b /\ b \in Nat /\ b # 0 /\ Len(s) \in Nat /\ DOMAIN s = 1 .. Len(s)
  BY DEF Fresh, StampsOK
<1>3. l.boot \in Nat /\ l.boot <= x.boot
  BY <1>2 DEF Follows
<1>4. ASSUME l.boot = x.boot
      PROVE  /\ IsEvent(x) /\ x.n >= l.n => x.time >= t
             /\ IsCurrent(x) => l.n <= Place(x)
             /\ Lying(x) => p + 1 < Asked(x)
  <2>1. /\ l.n <= Len(s) /\ s[l.n] = t /\ p <= Len(s) /\ l.n >= 1
        /\ l.n \in 0 .. Count /\ p \in 0 .. Count /\ Count \in Nat
    BY <1>2, <1>4, Sizes DEF Follows
  <2>2. l.n \in DOMAIN s
    BY <1>2, <2>1
  <2>3. ASSUME IsEvent(x), x.n >= l.n PROVE x.time >= t
    <3>1. Place(x) = x.n /\ x.n \in 1 .. Count /\ x.time = s[x.n] /\ x.n <= Len(s)
      BY <2>3, PlaceIs DEF Fresh
    <3>2. x.n \in DOMAIN s
      BY <1>2, <3>1
    <3>. QED  BY <2>1, <2>2, <2>3, <3>1, <3>2 DEF StampsOK
  <2>4. Lying(x) => FALSE
    <3>. SUFFICES ASSUME Lying(x) PROVE FALSE
      OBVIOUS
    <3>1. IsError(x) /\ Asked(x) = p + 1
      BY DEF Lying, IsEvent, IsCurrent
    <3>2. Len(s) + 1 < p + 1
      BY <3>1 DEF Fresh
    <3>. QED  BY <1>2, <2>1, <3>2
  <2>. QED  BY <2>1, <2>3, <2>4
<1>5. Behind(x, l, p, t)
  BY <1>3, <1>4 DEF Behind
<1>6. \A i \in DOMAIN r : Behind(r[i], l, p, t)
  <2>1. \A i \in DOMAIN r : i \in DOMAIN q \/ i = Len(q) + 1
    BY <1>1
  <2>. QED  BY <1>1, <1>5, <2>1 DEF Follows
<1>7. Reachable(r, l, b) => Reachable(q, l, b)
  <2>1. \A i \in DOMAIN r : i \in DOMAIN q \/ i = Len(q) + 1
    BY <1>1
  <2>. QED  BY <1>1, <1>2, <2>1 DEF Reachable
<1>8. Follows(r, l, p, t, rep, reb, st, b, s)
  BY <1>6, <1>7 DEF Follows
<1>. QED  BY <1>8 DEF r

--------------------------------------------------------------------------------
(***************************************************************************)
(* The handlers.  A receiver is a record with a part about the sequence    *)
(* and one about reports; each handler leaves one alone or says how the    *)
(* next is made from it.                                                   *)
(***************************************************************************)
ReceiverFields ==
  {"hasSequence", "latest", "hasCurrent", "current", "lastTime", "timer", "defined", "pending",
   "expected", "building", "shown", "out", "taken", "lost", "cleared"}

HasFields(h) == ReceiverFields \subseteq DOMAIN h

SameSequence(g, h) ==
  /\ g.hasSequence = h.hasSequence /\ g.latest = h.latest /\ g.hasCurrent = h.hasCurrent
  /\ g.current = h.current /\ g.lastTime = h.lastTime /\ g.timer = h.timer
  /\ g.out = h.out /\ g.taken = h.taken /\ g.lost = h.lost

SameReport(g, h) ==
  /\ g.expected = h.expected /\ g.building = h.building /\ g.shown = h.shown

SameEvents(g, h) ==
  g.defined = h.defined /\ g.pending = h.pending /\ g.cleared = h.cleared

(* The report handler, kind by kind. *)
Collected(h, e, g) ==
  /\ e.kind = "arming" =>
       /\ g.expected = "check" /\ g.shown = h.shown
       /\ g.building = [arming |-> {e.tag}, checks |-> {}, health |-> {}]
  /\ e.kind = "check" /\ h.expected = "check" =>
       /\ g.expected = "check" /\ g.shown = h.shown
       /\ g.building = [h.building EXCEPT !.checks = @ \cup {e.tag}]
  /\ e.kind = "health" /\ h.expected = "check" =>
       /\ g.expected = "arming" /\ g.building = NoReport
       /\ g.shown = [h.building EXCEPT !.health = {e.tag}]
  /\ e.kind \in {"check", "health", "otherHealth"} /\ h.expected # "check" =>
       g.expected = "arming" /\ g.building = h.building /\ g.shown = h.shown
  /\ e.kind = "otherArming" \/ (e.kind = "otherHealth" /\ h.expected = "check") =>
       g.expected = "arming" /\ g.building = NoReport /\ g.shown = h.shown
  /\ e.kind \notin ReportKinds => SameReport(g, h)

(* An event for this station: collected, or held back.                     *)
Received(h, e, g) ==
  /\ h.defined => SameEvents(g, h) /\ Collected(h, e, g)
  /\ ~h.defined =>
       /\ g.defined = h.defined /\ SameReport(g, h)
       /\ \/ g.pending = << e >> /\ g.cleared
          \/ g.pending = Append(h.pending, e) /\ g.cleared = h.cleared

(* The report handler. *)
LEMMA CollectIs ==
  ASSUME NEW h, HasFields(h), "checks" \in DOMAIN h.building, "health" \in DOMAIN h.building,
         NEW e, NEW g, g = HandleEventCB(h, e)
  PROVE  HasFields(g) /\ SameSequence(g, h) /\ SameEvents(g, h) /\ Collected(h, e, g)
<1>1. CASE e.kind = "arming"
  <2>1. g = [ResetReport(h) EXCEPT !.expected = "check", !.building.arming = {e.tag}]
    BY <1>1 DEF HandleEventCB, CollectReport, ReportKinds
  <2>. QED  BY <1>1, <2>1
       DEF ResetReport, NoReport, HasFields, ReceiverFields, SameSequence, SameEvents, Collected, ReportKinds
<1>2. CASE e.kind = "check" /\ h.expected = "check"
  <2>1. g = [h EXCEPT !.building.checks = @ \cup {e.tag}]
    BY <1>2 DEF HandleEventCB, CollectReport, ReportKinds
  <2>. QED  BY <1>2, <2>1 DEF HasFields, ReceiverFields, SameSequence, SameEvents, Collected, ReportKinds
<1>3. CASE e.kind = "health" /\ h.expected = "check"
  <2>1. g = ResetReport([h EXCEPT !.shown = [h.building EXCEPT !.health = {e.tag}]])
    BY <1>3 DEF HandleEventCB, CollectReport, ReportKinds
  <2>. QED  BY <1>3, <2>1
       DEF ResetReport, HasFields, ReceiverFields, SameSequence, SameEvents, Collected, ReportKinds
<1>4. CASE e.kind \in {"check", "health", "otherHealth"} /\ h.expected # "check"
  <2>1. g = [h EXCEPT !.expected = "arming"]
    BY <1>4 DEF HandleEventCB, CollectReport, ReportKinds
  <2>. QED  BY <1>4, <2>1 DEF HasFields, ReceiverFields, SameSequence, SameEvents, Collected, ReportKinds
<1>5. CASE e.kind = "otherArming" \/ (e.kind = "otherHealth" /\ h.expected = "check")
  <2>1. g = ResetReport(h)
    BY <1>5 DEF HandleEventCB, CollectReport, ReportKinds
  <2>. QED  BY <1>5, <2>1
       DEF ResetReport, HasFields, ReceiverFields, SameSequence, SameEvents, Collected, ReportKinds
<1>6. CASE e.kind \notin ReportKinds
  <2>1. g = h
    BY <1>6 DEF HandleEventCB
  <2>. QED  BY <1>6, <2>1 DEF SameSequence, SameEvents, SameReport, Collected, ReportKinds
<1>. QED  BY <1>1, <1>2, <1>3, <1>4, <1>5, <1>6 DEF ReportKinds

(* EventHandler. *)
LEMMA GotEventIs ==
  ASSUME NEW h, HasFields(h), "checks" \in DOMAIN h.building, "health" \in DOMAIN h.building,
         h.defined \in BOOLEAN, NEW e, NEW g, g = GotEvent(h, e)
  PROVE  HasFields(g) /\ SameSequence(g, h) /\ Received(h, e, g)
<1>1. CASE h.defined
  <2>1. g = HandleEventCB(h, e)
    BY <1>1 DEF GotEvent
  <2>. QED  BY <1>1, <2>1, CollectIs DEF Received
<1>2. CASE ~h.defined /\ Len(h.pending) > MaxPending
  <2>1. g = [h EXCEPT !.pending = << e >>, !.cleared = TRUE]
    BY <1>2 DEF GotEvent
  <2>. QED  BY <1>2, <2>1 DEF HasFields, ReceiverFields, SameSequence, SameReport, Received
<1>3. CASE ~h.defined /\ ~(Len(h.pending) > MaxPending)
  <2>1. g = [h EXCEPT !.pending = Append(@, e)]
    BY <1>3 DEF GotEvent
  <2>. QED  BY <1>3, <2>1 DEF HasFields, ReceiverFields, SameSequence, SameReport, Received
<1>. QED  BY <1>1, <1>2, <1>3

(* A request. *)
LEMMA RequestEventIs ==
  ASSUME NEW h, HasFields(h), NEW g, g = RequestEvent(h)
  PROVE  /\ HasFields(g) /\ SameEvents(g, h) /\ SameReport(g, h)
         /\ g.hasSequence = h.hasSequence /\ g.latest = h.latest /\ g.hasCurrent = h.hasCurrent
         /\ g.current = h.current /\ g.lastTime = h.lastTime
         /\ g.out = Append(h.out, Following(h)) /\ g.timer = TRUE
         /\ g.taken = h.taken /\ g.lost = h.lost
BY DEF RequestEvent, HasFields, ReceiverFields, SameEvents, SameReport

(* A receiver between two steps.  LagIsTimed says Lag of it.               *)
Lag(h) ==
  h.hasSequence /\ h.hasCurrent /\ CompareSequence(h.latest, h.current) = "newer" => h.timer

Flags(h) ==
  /\ {h.hasSequence, h.hasCurrent, h.timer, h.defined} \subseteq BOOLEAN
  /\ h.timer \/ h.hasCurrent => h.hasSequence

Ready(h) ==
  /\ HasFields(h) /\ Flags(h) /\ Lag(h) /\ h.lastTime \in Nat
  /\ h.out = << >> /\ h.taken = NoEvent /\ h.lost = 0 /\ h.cleared = FALSE
  /\ {"arming", "checks", "health"} \subseteq DOMAIN h.building

(* What any handler leaves: one request at most, for what follows.         *)
Handled(g) ==
  /\ HasFields(g) /\ Flags(g) /\ Lag(g) /\ g.hasSequence
  /\ g.out = << >> \/ g.out = << Following(g) >>

(* The event is older, or one is missing before it. *)
Passed(h, e, g) ==
  /\ h.hasSequence /\ g.latest = h.latest /\ g.taken = NoEvent /\ g.lost = 0
  /\ g.lastTime = (IF h.lastTime = 0 THEN e.time ELSE h.lastTime)
  /\ SameEvents(g, h) /\ SameReport(g, h)

(* The event is the next, or the first of a sequence taken up anew.        *)
Accepted(h, e, g) ==
  /\ g.latest = e.seq /\ g.taken = e /\ g.lost = 0 /\ g.lastTime = e.time
  /\ e.toUs => Received(h, e, g)
  /\ ~e.toUs => SameEvents(g, h) /\ SameReport(g, h)

(* Accept. *)
LEMMA AcceptIs ==
  ASSUME NEW h, HasFields(h), Flags(h), h.hasSequence, h.out = << >>, h.lost = 0,
         "checks" \in DOMAIN h.building, "health" \in DOMAIN h.building,
         NEW e, IsEvent(e), NEW g, g = Accept(h, e)
  PROVE  Handled(g) /\ Accepted(h, e, g)
<1>. DEFINE taken == [h EXCEPT !.latest = e.seq, !.lastTime = e.time, !.timer = FALSE, !.taken = e]
            newer == h.hasCurrent /\ CompareSequence(e.seq, h.current) = "newer"
            more == IF newer THEN RequestEvent(taken) ELSE taken
<1>1. /\ HasFields(taken) /\ SameEvents(taken, h) /\ SameReport(taken, h)
      /\ taken.hasSequence = h.hasSequence /\ taken.latest = e.seq /\ taken.hasCurrent = h.hasCurrent
      /\ taken.current = h.current /\ taken.lastTime = e.time /\ taken.timer = FALSE
      /\ taken.out = << >> /\ taken.taken = e /\ taken.lost = 0
  BY DEF HasFields, ReceiverFields, SameEvents, SameReport
<1>2. g = IF e.toUs THEN GotEvent(more, e) ELSE more
  BY DEF Accept
<1>. HIDE DEF taken
<1>3. /\ HasFields(more) /\ SameEvents(more, h) /\ SameReport(more, h)
      /\ more.hasSequence = h.hasSequence /\ more.latest = e.seq /\ more.hasCurrent = h.hasCurrent
      /\ more.current = h.current /\ more.lastTime = e.time
      /\ more.taken = e /\ more.lost = 0
      /\ newer => more.timer = TRUE /\ more.out = << Following(more) >>
      /\ ~newer => more.timer = FALSE /\ more.out = << >>
  <2>1. CASE newer
    <3>1. more = RequestEvent(taken)
      BY <2>1
    <3>2. Following(more) = Following(taken)
      BY <1>1, <3>1, RequestEventIs DEF Following
    <3>4. more.out = Append(<< >>, Following(taken))
      BY <1>1, <3>1, RequestEventIs
    <3>5. \A v : Append(<< >>, v) = << v >>
      OBVIOUS
    <3>3. more.out = << Following(more) >>
      BY <3>2, <3>4, <3>5
    <3>. QED  BY <1>1, <2>1, <3>1, <3>3, RequestEventIs DEF SameEvents, SameReport
  <2>2. CASE ~newer
    <3>1. more = taken
      BY <2>2
    <3>. QED  BY <1>1, <2>2, <3>1
  <2>. QED  BY <2>1, <2>2
<1>. HIDE DEF more
<1>4. /\ HasFields(g) /\ SameSequence(g, more)
      /\ e.toUs => Received(h, e, g)
      /\ ~e.toUs => SameEvents(g, h) /\ SameReport(g, h)
  <2>1. CASE e.toUs
    <3>1. more.defined \in BOOLEAN /\ "checks" \in DOMAIN more.building /\ "health" \in DOMAIN more.building
      BY <1>3 DEF SameEvents, SameReport, Flags
    <3>2. HasFields(g) /\ SameSequence(g, more) /\ Received(more, e, g)
      BY <1>2, <1>3, <2>1, <3>1, GotEventIs
    <3>3. Received(h, e, g)
      BY <1>3, <3>2 DEF Received, SameEvents, SameReport, Collected
    <3>. QED  BY <2>1, <3>2, <3>3
  <2>2. CASE ~e.toUs
    BY <1>2, <1>3, <2>2 DEF SameSequence
  <2>. QED  BY <2>1, <2>2
<1>5. Accepted(h, e, g)
  BY <1>3, <1>4 DEF Accepted, SameSequence
<1>6. Following(g) = Following(more)
  BY <1>4 DEF Following, SameSequence
<1>7. g.hasSequence /\ Lag(g) /\ (g.out = << >> \/ g.out = << Following(g) >>)
  BY <1>3, <1>4, <1>6 DEF Lag, SameSequence
<1>8. g.defined = h.defined /\ g.hasCurrent = h.hasCurrent /\ g.timer \in BOOLEAN
  <2>1. g.defined = h.defined
    BY <1>4 DEF Received, SameEvents, Flags, IsEvent
  <2>. QED  BY <1>3, <1>4, <2>1 DEF SameSequence
<1>9. Flags(g)
  BY <1>7, <1>8 DEF Flags
<1>. QED  BY <1>4, <1>5, <1>7, <1>9 DEF Handled

(* A timestamp that is not behind the last one is not taken for a reboot.  *)
LEMMA CheckIs ==
  ASSUME NEW h, HasFields(h), Flags(h), h.lastTime \in Nat, NEW time \in 1 .. MaxClock,
         NEW c, c = CheckTimestampReset(h, time)
  PROVE  /\ HasFields(c) /\ SameEvents(c, h) /\ SameReport(c, h)
         /\ c.latest = h.latest /\ c.current = h.current /\ c.timer = h.timer
         /\ c.out = h.out /\ c.taken = h.taken /\ c.lost = h.lost
         /\ c.lastTime = (IF h.lastTime = 0 THEN time ELSE h.lastTime)
         /\ {c.hasSequence, c.hasCurrent} \subseteq BOOLEAN /\ (c.hasCurrent => c.hasSequence)
         /\ c.hasSequence => h.hasSequence /\ c.hasCurrent = h.hasCurrent
         /\ h.hasSequence /\ h.lastTime # 0 /\ h.lastTime <= time => c.hasSequence
<1>. DEFINE last_ == IF h.lastTime = 0 THEN time ELSE h.lastTime
            timed == [h EXCEPT !.lastTime = last_]
            reset == (time + TimeMargin) % TimeMod < last_ /\ last_ < TimeMod - 1 - TimeGuard
<1>1. c = IF reset THEN [timed EXCEPT !.hasSequence = FALSE, !.hasCurrent = FALSE] ELSE timed
  BY DEF CheckTimestampReset
<1>2. reset => ~(h.lastTime # 0 /\ h.lastTime <= time)
  <2>1. /\ TimeMod \in Nat /\ TimeMod > 0 /\ TimeMargin \in Nat /\ MaxClock \in Nat
        /\ MaxClock + TimeMargin < TimeMod /\ time \in Nat
    BY EventReceiverAssumption, EventTransferAssumption
  <2>2. time + TimeMargin \in 0 .. TimeMod - 1 /\ time + TimeMargin \in Int
    BY <2>1
  <2>3. (time + TimeMargin) % TimeMod = time + TimeMargin
    BY <2>1, <2>2, Remainder
  <2>4. ASSUME h.lastTime # 0, h.lastTime <= time PROVE ~(time + TimeMargin < last_)
    BY <2>1, <2>4
  <2>. QED  BY <2>3, <2>4
<1>. HIDE DEF reset, last_
<1>3. CASE reset
  <2>1. c = [timed EXCEPT !.hasSequence = FALSE, !.hasCurrent = FALSE]
    BY <1>1, <1>3
  <2>. QED  BY <1>2, <1>3, <2>1 DEF HasFields, ReceiverFields, SameEvents, SameReport, last_
<1>4. CASE ~reset
  <2>1. c = timed
    BY <1>1, <1>4
  <2>. QED  BY <2>1 DEF HasFields, ReceiverFields, SameEvents, SameReport, Flags, last_
<1>. QED  BY <1>3, <1>4

(* handleEvent. *)
LEMMA HandleEventIs ==
  ASSUME NEW h, Ready(h), NEW e, IsEvent(e), NEW g, g = HandleEvent(h, e),
         NEW c, c = CheckTimestampReset(h, e.time)
  PROVE  /\ Handled(g)
         /\ Passed(h, e, g) \/ Accepted(h, e, g)
         /\ g.taken = NoEvent => Passed(h, e, g) /\ c.hasSequence
         /\ g.taken # NoEvent =>
              Accepted(h, e, g) /\ g.taken = e /\ (c.hasSequence => e.seq = Following(h))
         /\ c.hasSequence \in BOOLEAN /\ (c.hasSequence => h.hasSequence)
<1>. DEFINE based == IF c.hasSequence THEN c
                     ELSE [c EXCEPT !.hasSequence = TRUE, !.latest = (e.seq - 1) % SeqRange]
<1>1. e.time \in 1 .. MaxClock /\ HasFields(h) /\ Flags(h) /\ h.lastTime \in Nat
  BY DEF IsEvent, Ready
<1>2. /\ HasFields(c) /\ SameEvents(c, h) /\ SameReport(c, h)
      /\ c.latest = h.latest /\ c.current = h.current /\ c.timer = h.timer
      /\ c.out = h.out /\ c.taken = h.taken /\ c.lost = h.lost
      /\ c.lastTime = (IF h.lastTime = 0 THEN e.time ELSE h.lastTime)
      /\ {c.hasSequence, c.hasCurrent} \subseteq BOOLEAN /\ (c.hasCurrent => c.hasSequence)
      /\ c.hasSequence => h.hasSequence /\ c.hasCurrent = h.hasCurrent
  BY <1>1, CheckIs
<1>3. /\ HasFields(based) /\ SameEvents(based, h) /\ SameReport(based, h)
      /\ based.hasSequence = TRUE /\ based.hasCurrent = c.hasCurrent /\ based.current = h.current
      /\ based.timer = h.timer /\ based.out = << >> /\ based.taken = NoEvent /\ based.lost = 0
      /\ based.lastTime = c.lastTime
      /\ c.hasSequence => based.latest = h.latest
      /\ ~c.hasSequence => based.latest = (e.seq - 1) % SeqRange
  <2>1. CASE c.hasSequence
    <3>1. based = c
      BY <2>1
    <3>. QED  BY <1>2, <2>1, <3>1 DEF Ready
  <2>2. CASE ~c.hasSequence
    <3>1. based = [c EXCEPT !.hasSequence = TRUE, !.latest = (e.seq - 1) % SeqRange]
      BY <2>2
    <3>. QED  BY <1>2, <2>2, <3>1 DEF Ready, HasFields, ReceiverFields, SameEvents, SameReport
  <2>. QED  BY <1>2, <2>1, <2>2
<1>4. g = CASE CompareSequence(Following(based), e.seq) = "older" -> based
            [] CompareSequence(Following(based), e.seq) = "newer" -> RequestEvent(based)
            [] CompareSequence(Following(based), e.seq) = "equal" -> Accept(based, e)
  BY DEF HandleEvent
<1>. HIDE DEF based
<1>5. ~c.hasSequence => e.seq = Following(based)
  <2>. SUFFICES ASSUME ~c.hasSequence PROVE e.seq = Following(based)
    OBVIOUS
  <2>1. PICK n \in 0 .. Count : e.n = n + 1
    <3>1. e.n \in 1 .. Count /\ Count \in Nat
      BY Sizes DEF IsEvent
    <3>. QED  BY <3>1
  <2>2. e.seq = NumberOf(n + 1)
    BY <2>1 DEF IsEvent
  <2>3. based.latest = NumberOf(n)
    BY <1>3, <2>2, NextNumber
  <2>. QED  BY <2>2, <2>3, NextNumber DEF Following
<1>6. c.hasSequence => Following(based) = Following(h)
  BY <1>3 DEF Following
<1>7. Flags(based) /\ h.defined \in BOOLEAN /\ h.timer \in BOOLEAN
  BY <1>1, <1>2, <1>3 DEF Flags, SameEvents
<1>8. c.hasSequence => Lag(based)
  BY <1>2, <1>3 DEF Ready, Lag
<1>9. CASE e.seq = Following(based)
  <2>1. g = Accept(based, e)
    BY <1>4, <1>9 DEF CompareSequence
  <2>2. "checks" \in DOMAIN based.building /\ "health" \in DOMAIN based.building
    BY <1>3 DEF Ready, SameReport
  <2>3. Handled(g) /\ Accepted(based, e, g)
    BY <1>3, <1>7, <2>1, <2>2, AcceptIs
  <2>4. Accepted(h, e, g)
    BY <1>3, <2>3 DEF Accepted, Received, SameEvents, SameReport, Collected
  <2>5. g.taken = e /\ e # NoEvent
    <3>1. "msg" \in DOMAIN e /\ DOMAIN NoEvent = {"kind"}
      BY DEF IsEvent, NoEvent
    <3>2. "msg" \notin DOMAIN NoEvent
      BY <3>1
    <3>. QED  BY <2>4, <3>1, <3>2 DEF Accepted
  <2>. QED  BY <1>2, <1>6, <1>9, <2>3, <2>4, <2>5
<1>10. CASE e.seq # Following(based)
  <2>1. c.hasSequence
    BY <1>2, <1>5, <1>10
  <2>2. g = based \/ g = RequestEvent(based)
    BY <1>4, <1>10 DEF CompareSequence
  <2>3. CASE g = based
    BY <1>2, <1>3, <1>7, <1>8, <2>1, <2>3 DEF Handled, Passed
  <2>4. CASE g = RequestEvent(based)
    <3>1. /\ HasFields(g) /\ SameEvents(g, based) /\ SameReport(g, based)
          /\ g.hasSequence = based.hasSequence /\ g.latest = based.latest
          /\ g.hasCurrent = based.hasCurrent /\ g.lastTime = based.lastTime
          /\ g.out = Append(based.out, Following(based)) /\ g.timer = TRUE
          /\ g.taken = based.taken /\ g.lost = based.lost
      BY <1>3, <2>4, RequestEventIs
    <3>2. \A v : Append(<< >>, v) = << v >>
      OBVIOUS
    <3>3. g.out = << Following(g) >>
      BY <1>3, <3>1, <3>2 DEF Following
    <3>4. Passed(h, e, g)
      BY <1>2, <1>3, <2>1, <3>1 DEF Passed, SameEvents, SameReport
    <3>5. Flags(g) /\ Lag(g)
      BY <1>3, <1>7, <3>1 DEF Flags, Lag, SameEvents
    <3>. QED  BY <1>2, <1>3, <2>1, <3>1, <3>3, <3>4, <3>5 DEF Handled
  <2>. QED  BY <2>2, <2>3, <2>4
<1>. QED  BY <1>9, <1>10

(* handleCurrentEventSequence. *)
LEMMA HandleCurrentIs ==
  ASSUME NEW h, Ready(h), NEW m, IsCurrent(m), NEW g, g = HandleCurrentEventSequence(h, m)
  PROVE  /\ Handled(g) /\ g.taken = NoEvent /\ g.lost = 0 /\ g.lastTime = h.lastTime
         /\ SameEvents(g, h) /\ SameReport(g, h)
         /\ h.hasSequence /\ ~m.reset => g.latest = h.latest
         /\ ~(h.hasSequence /\ ~m.reset) => g.latest = m.seq
<1>. DEFINE kept == h.hasSequence /\ ~m.reset
            based == IF kept THEN h ELSE [h EXCEPT !.hasSequence = TRUE, !.latest = m.seq]
            newer == CompareSequence(based.latest, m.seq) = "newer"
            asked == IF newer THEN RequestEvent(based) ELSE based
<1>1. /\ HasFields(based) /\ SameEvents(based, h) /\ SameReport(based, h)
      /\ based.hasSequence = TRUE /\ based.timer = h.timer /\ based.out = << >>
      /\ based.taken = NoEvent /\ based.lost = 0 /\ based.lastTime = h.lastTime
      /\ kept => based.latest = h.latest
      /\ ~kept => based.latest = m.seq
  <2>1. CASE kept
    <3>1. based = h /\ h.hasSequence \in BOOLEAN
      BY <2>1 DEF Ready, Flags
    <3>. QED  BY <2>1, <3>1 DEF Ready, SameEvents, SameReport
  <2>2. CASE ~kept
    <3>1. based = [h EXCEPT !.hasSequence = TRUE, !.latest = m.seq]
      BY <2>2
    <3>. QED  BY <2>2, <3>1 DEF Ready, HasFields, ReceiverFields, SameEvents, SameReport
  <2>. QED  BY <2>1, <2>2
<1>2. g = [asked EXCEPT !.hasCurrent = TRUE, !.current = m.seq]
  BY DEF HandleCurrentEventSequence
<1>. HIDE DEF based
<1>3. /\ HasFields(asked) /\ SameEvents(asked, h) /\ SameReport(asked, h)
      /\ asked.hasSequence = TRUE /\ asked.latest = based.latest
      /\ asked.taken = NoEvent /\ asked.lost = 0 /\ asked.lastTime = h.lastTime
      /\ newer => asked.timer = TRUE /\ asked.out = << Following(asked) >>
      /\ ~newer => asked.timer = h.timer /\ asked.out = << >>
  <2>1. CASE newer
    <3>1. asked = RequestEvent(based)
      BY <2>1
    <3>2. \A v : Append(<< >>, v) = << v >>
      OBVIOUS
    <3>4. asked.out = Append(<< >>, Following(based)) /\ asked.latest = based.latest
      BY <1>1, <3>1, RequestEventIs
    <3>3. asked.out = << Following(asked) >>
      BY <3>2, <3>4 DEF Following
    <3>. QED  BY <1>1, <2>1, <3>1, <3>3, RequestEventIs DEF SameEvents, SameReport
  <2>2. CASE ~newer
    <3>1. asked = based
      BY <2>2
    <3>. QED  BY <1>1, <2>2, <3>1
  <2>. QED  BY <2>1, <2>2
<1>. HIDE DEF asked
<1>4. /\ HasFields(g) /\ SameEvents(g, asked) /\ SameReport(g, asked)
      /\ g.hasSequence = TRUE /\ g.hasCurrent = TRUE /\ g.current = m.seq
      /\ g.latest = asked.latest /\ g.timer = asked.timer /\ g.out = asked.out
      /\ g.taken = NoEvent /\ g.lost = 0 /\ g.lastTime = h.lastTime
  BY <1>2, <1>3 DEF HasFields, ReceiverFields, SameEvents, SameReport
<1>5. h.timer \in BOOLEAN /\ h.defined \in BOOLEAN
  BY DEF Ready, Flags
<1>6. Flags(g)
  BY <1>3, <1>4, <1>5 DEF Flags, SameEvents
<1>7. Lag(g)
  BY <1>3, <1>4 DEF Lag
<1>8. g.out = << >> \/ g.out = << Following(g) >>
  BY <1>3, <1>4 DEF Following
<1>9. Handled(g)
  BY <1>4, <1>6, <1>7, <1>8 DEF Handled
<1>. QED  BY <1>1, <1>3, <1>4, <1>9 DEF SameEvents, SameReport

(* handleEventError. *)
LEMMA HandleErrorIs ==
  ASSUME NEW h, Ready(h), h.hasSequence, NEW m, IsError(m), NEW g, g = HandleEventError(h, m)
  PROVE  /\ Handled(g) /\ g.taken = NoEvent /\ g.lastTime = h.lastTime
         /\ SameEvents(g, h) /\ SameReport(g, h)
         /\ m.seq # Following(h) => g = h /\ g.lost = 0
         /\ m.seq = Following(h) =>
              g.latest = NumberOf(Place(m)) /\ g.lost = (m.oldest - h.latest - 1) % SeqRange
<1>1. CASE m.seq # Following(h)
  <2>1. g = h
    BY <1>1 DEF HandleEventError
  <2>. QED  BY <1>1, <2>1 DEF Ready, Handled, SameEvents, SameReport
<1>2. CASE m.seq = Following(h)
  <2>. DEFINE based == [h EXCEPT !.lost = (m.oldest - h.latest - 1) % SeqRange,
                                 !.latest = (m.oldest - 1) % SeqRange]
  <2>1. g = RequestEvent(based)
    BY <1>2 DEF HandleEventError
  <2>2. /\ HasFields(based) /\ SameEvents(based, h) /\ SameReport(based, h)
        /\ based.hasSequence = h.hasSequence /\ based.hasCurrent = h.hasCurrent
        /\ based.timer = h.timer /\ based.out = << >>
        /\ based.taken = NoEvent /\ based.lastTime = h.lastTime
        /\ based.latest = (m.oldest - 1) % SeqRange
        /\ based.lost = (m.oldest - h.latest - 1) % SeqRange
    BY DEF Ready, HasFields, ReceiverFields, SameEvents, SameReport
  <2>3. (m.oldest - 1) % SeqRange = NumberOf(Place(m))
    <3>1. Place(m) \in 0 .. Count /\ m.oldest = NumberOf(Place(m) + 1)
      BY PlaceIs
    <3>. QED  BY <3>1, NextNumber
  <2>. HIDE DEF based
  <2>4. /\ HasFields(g) /\ SameEvents(g, based) /\ SameReport(g, based)
        /\ g.hasSequence = based.hasSequence /\ g.latest = based.latest
        /\ g.hasCurrent = based.hasCurrent /\ g.lastTime = based.lastTime
        /\ g.out = Append(based.out, Following(based)) /\ g.timer = TRUE
        /\ g.taken = based.taken /\ g.lost = based.lost
    BY <2>1, <2>2, RequestEventIs
  <2>5. \A v : Append(<< >>, v) = << v >>
    OBVIOUS
  <2>6. g.out = << Following(g) >>
    BY <2>2, <2>4, <2>5 DEF Following
  <2>7. Flags(g) /\ Lag(g)
    BY <2>2, <2>4 DEF Ready, Flags, Lag, SameEvents
  <2>8. Handled(g)
    BY <2>2, <2>4, <2>6, <2>7 DEF Handled
  <2>. QED  BY <1>2, <2>2, <2>3, <2>4, <2>8 DEF SameEvents, SameReport
<1>. QED  BY <1>1, <1>2

(* The timer. *)
LEMMA TimerIs ==
  ASSUME NEW h, Ready(h), h.timer, NEW g, g = TimerEvent(h)
  PROVE  /\ Handled(g) /\ g.taken = NoEvent /\ g.lost = 0 /\ g.lastTime = h.lastTime
         /\ SameEvents(g, h) /\ SameReport(g, h) /\ g.latest = h.latest /\ h.hasSequence
<1>1. /\ HasFields(g) /\ SameEvents(g, h) /\ SameReport(g, h)
      /\ g.hasSequence = h.hasSequence /\ g.latest = h.latest
      /\ g.hasCurrent = h.hasCurrent /\ g.lastTime = h.lastTime
      /\ g.out = Append(h.out, Following(h)) /\ g.timer = TRUE
      /\ g.taken = h.taken /\ g.lost = h.lost
  BY RequestEventIs DEF TimerEvent, Ready
<1>2. \A v : Append(<< >>, v) = << v >>
  OBVIOUS
<1>3. g.out = << Following(g) >> /\ h.hasSequence
  BY <1>1, <1>2 DEF Ready, Following, Flags
<1>4. Flags(g) /\ Lag(g)
  BY <1>1 DEF Ready, Flags, Lag, SameEvents
<1>. QED  BY <1>1, <1>3, <1>4 DEF Handled, Ready

(* Metadata that arrives: the events held back are handled in their order, *)
(* f[i] being the receiver after i of them.                                *)
Replayed(h, f, g) ==
  /\ f[0] = [h EXCEPT !.defined = TRUE]
  /\ \A i \in 1 .. Len(h.pending) : f[i] = HandleEventCB(f[i - 1], h.pending[i])
  /\ g = [f[Len(h.pending)] EXCEPT !.pending = << >>]

LEMMA SetMetadataTurns ==
  ASSUME NEW h, Len(h.pending) \in Nat, NEW g, g = SetMetadata(h)
  PROVE  \E f : Replayed(h, f, g)
<1>. DEFINE start == [h EXCEPT !.defined = TRUE]
            Turn(f, i) == IF i = 0 THEN start ELSE HandleEventCB(f[i - 1], h.pending[i])
            IsTurn(f, m) == f = [i \in 0 .. m |-> Turn(f, i)]
            S == {m \in Nat : \E f : IsTurn(f, m)}
<1>1. 0 \in S
  <2>. DEFINE f == [i \in 0 .. 0 |-> start]
  <2>1. \A i \in 0 .. 0 : Turn(f, i) = f[i]
    OBVIOUS
  <2>2. f = [i \in 0 .. 0 |-> Turn(f, i)]
    BY <2>1
  <2>3. IsTurn(f, 0)
    BY <2>2
  <2>4. \E k : IsTurn(k, 0)
    <3>. HIDE DEF IsTurn, f
    <3>. QED  BY <2>3
  <2>. QED  BY <2>4
<1>2. ASSUME NEW m \in Nat, m \in S
      PROVE  m + 1 \in S
  <2>1. PICK f : IsTurn(f, m)
    BY <1>2
  <2>. DEFINE k == [i \in 0 .. m + 1 |-> IF i <= m THEN f[i]
                                         ELSE HandleEventCB(f[m], h.pending[m + 1])]
  <2>2. ASSUME NEW i \in 0 .. m + 1
        PROVE  k[i] = Turn(k, i)
    <3>1. CASE i = 0
      BY <3>1, <2>1
    <3>2. CASE i # 0 /\ i <= m
      <4>1. i - 1 \in 0 .. m /\ i \in 0 .. m
        BY <3>2
      <4>2. k[i] = f[i] /\ k[i - 1] = f[i - 1]
        BY <4>1
      <4>3. f[i] = HandleEventCB(f[i - 1], h.pending[i])
        BY <4>1, <3>2, <2>1
      <4>. QED  BY <4>2, <4>3, <3>2
    <3>3. CASE i = m + 1
      <4>1. k[i] = HandleEventCB(f[m], h.pending[i]) /\ k[i - 1] = f[m]
        BY <3>3
      <4>. QED  BY <4>1, <3>3
    <3>. QED  BY <3>1, <3>2, <3>3
  <2>3. IsTurn(k, m + 1)
    <3>1. k = [i \in 0 .. m + 1 |-> k[i]]
      OBVIOUS
    <3>. HIDE DEF k, Turn
    <3>. QED  BY <3>1, <2>2
  <2>4. \E j : IsTurn(j, m + 1)
    <3>. HIDE DEF IsTurn, k
    <3>. QED  BY <2>3
  <2>. HIDE DEF IsTurn, k
  <2>. QED  BY <2>4
<1>. DEFINE handled[i \in 0 .. Len(h.pending)] == Turn(handled, i)
<1>3. IsTurn(handled, Len(h.pending))
  <2>. HIDE DEF IsTurn
  <2>1. \A m \in Nat : m \in S
    <3>. HIDE DEF S
    <3>. QED  BY <1>1, <1>2, EventInduction
  <2>2. \E f : IsTurn(f, Len(h.pending))
    BY <2>1
  <2>3. handled = CHOOSE f : IsTurn(f, Len(h.pending))
    BY DEF IsTurn
  <2>. HIDE DEF handled
  <2>. QED  BY <2>2, <2>3
<1>4. g = [handled[Len(h.pending)] EXCEPT !.pending = << >>]
  BY DEF SetMetadata
<1>. HIDE DEF handled
<1>5. handled[0] = start
  BY <1>3
<1>6. ASSUME NEW i \in 1 .. Len(h.pending)
      PROVE  handled[i] = HandleEventCB(handled[i - 1], h.pending[i])
  <2>1. i \in 0 .. Len(h.pending) /\ i # 0
    OBVIOUS
  <2>2. handled[i] = Turn(handled, i)
    <3>. HIDE DEF Turn
    <3>. QED  BY <1>3, <2>1
  <2>. QED  BY <2>1, <2>2
<1>7. Replayed(h, handled, g)
  BY <1>4, <1>5, <1>6 DEF Replayed
<1>. QED  BY <1>7

--------------------------------------------------------------------------------
(***************************************************************************)
(* The inductive invariant, of the sequence.                               *)
(***************************************************************************)
At(h) == IF h.hasSequence THEN Position(h.latest) ELSE 0

Receiving(h, q, l, rep, reb, st, b, s) ==
  /\ Ready(h)
  /\ q \in Seq(EventMessages) /\ AirOK(q, b, s)
  /\ \A i \in DOMAIN q : IsError(q[i]) => h.hasSequence
  /\ h.hasSequence => \E k \in 0 .. Count : h.latest = NumberOf(k)
  /\ l.boot # 0 => h.hasSequence
  /\ Follows(q, l, At(h), h.lastTime, rep, reb, st, b, s)
  /\ reb \in BOOLEAN /\ st \in BOOLEAN

Clocked ==
  clock \in 1 .. MaxClock /\ flagged \in BOOLEAN /\ \A i \in DOMAIN stamps : stamps[i] <= clock

InSequence ==
  /\ StampsOK(boot, stamps) /\ Clocked
  /\ Receiving(rx, air, last, reported, rebased, stale, boot, stamps)

(* The request a handler makes is answered or lost. *)
LEMMA DeliverIs ==
  ASSUME StampsOK(boot, stamps), NEW rest \in Seq(EventMessages), AirOK(rest, boot, stamps),
         NEW g, Handled(g), NEW p \in 0 .. Count, g.latest = NumberOf(p),
         NEW l, NEW t, NEW rep, NEW reb, NEW st,
         Follows(rest, l, p, t, rep, reb, st, boot, stamps),
         NEW q, q = rest \/ q = rest \o [i \in DOMAIN g.out |-> Answer(g.out[i])]
  PROVE  /\ q \in Seq(EventMessages) /\ AirOK(q, boot, stamps)
         /\ Follows(q, l, p, t, rep, reb, st, boot, stamps)
<1>1. \/ q = rest
      \/ q = rest \o << Answer(Following(g)) >>
  <2>1. g.out = << >> \/ g.out = << Following(g) >>
    BY DEF Handled
  <2>2. CASE g.out = << >>
    <3>1. [i \in DOMAIN g.out |-> Answer(g.out[i])] = << >>
      BY <2>2
    <3>. QED  BY <3>1
  <2>3. CASE g.out = << Following(g) >>
    <3>1. PICK f : f = Following(g)
      OBVIOUS
    <3>2. [i \in DOMAIN << f >> |-> Answer(<< f >>[i])] = << Answer(f) >>
      OBVIOUS
    <3>. QED  BY <2>3, <3>1, <3>2
  <2>. QED  BY <2>1, <2>2, <2>3
<1>2. CASE q = rest
  BY <1>2
<1>3. CASE q = rest \o << Answer(Following(g)) >>
  <2>1. Following(g) = NumberOf(p + 1) /\ p + 1 \in 1 .. Count + 1
    BY NextNumber, Sizes DEF Following
  <2>2. PICK x : x = Answer(NumberOf(p + 1))
    OBVIOUS
  <2>3. /\ Fresh(x, boot, stamps) /\ x \in EventMessages /\ (IsEvent(x) \/ IsError(x))
        /\ IsError(x) => Asked(x) = p + 1
    BY <2>1, <2>2, AnswerIs
  <2>4. q = Append(rest, x)
    BY <1>3, <2>1, <2>2
  <2>5. Append(rest, x) \in Seq(EventMessages) /\ AirOK(Append(rest, x), boot, stamps)
    BY <2>3, AppendOf, AppendAir
  <2>6. IsEvent(x) \/ IsError(x) => ~IsCurrent(x)
    BY DEF IsEvent, IsError, IsCurrent
  <2>7. Follows(Append(rest, x), l, p, t, rep, reb, st, boot, stamps)
    BY <2>3, <2>6, AddFresh
  <2>. QED  BY <2>4, <2>5, <2>7
<1>. QED  BY <1>1, <1>2, <1>3

(* A receiver after a step. *)
LEMMA SettledIs ==
  ASSUME NEW g, HasFields(g), Flags(g), Lag(g), g.lastTime \in Nat,
         {"arming", "checks", "health"} \subseteq DOMAIN g.building,
         NEW h, h = [g EXCEPT !.out = << >>, !.taken = NoEvent, !.lost = 0, !.cleared = FALSE]
  PROVE  /\ Ready(h) /\ h.hasSequence = g.hasSequence /\ h.latest = g.latest
         /\ h.lastTime = g.lastTime /\ SameReport(h, g)
         /\ h.defined = g.defined /\ h.pending = g.pending
<1>1. /\ HasFields(h) /\ h.hasSequence = g.hasSequence /\ h.latest = g.latest
      /\ h.lastTime = g.lastTime /\ h.timer = g.timer /\ h.defined = g.defined
      /\ h.pending = g.pending /\ h.hasCurrent = g.hasCurrent /\ h.current = g.current
      /\ SameReport(h, g)
      /\ h.out = << >> /\ h.taken = NoEvent /\ h.lost = 0 /\ h.cleared = FALSE
  BY DEF HasFields, ReceiverFields, SameReport
<1>2. Flags(h) /\ Lag(h)
  BY <1>1 DEF Flags, Lag
<1>. QED  BY <1>1, <1>2 DEF Ready, SameReport

(* A handler, and what comes of its request. *)
LEMMA StepKeeps ==
  ASSUME StampsOK(boot, stamps), NEW g, NEW restarted, NEW rest \in Seq(EventMessages),
         AirOK(rest, boot, stamps), Step(g, restarted, rest), Handled(g), g.lastTime \in Nat,
         {"arming", "checks", "health"} \subseteq DOMAIN g.building,
         NEW p \in 0 .. Count, g.latest = NumberOf(p),
         NEW st \in BOOLEAN, rebased' \in BOOLEAN,
         Follows(rest, last', p, g.lastTime, reported', rebased', st, boot, stamps)
  PROVE  Receiving(rx', air', last', reported', rebased', st, boot, stamps)
<1>1. PICK h : h = rx'
  OBVIOUS
<1>2. PICK q : q = air'
  OBVIOUS
<1>3. PICK l : l = last'
  OBVIOUS
<1>4. PICK rep : rep = reported'
  OBVIOUS
<1>5. PICK reb : reb = rebased'
  OBVIOUS
<1>6. h = [g EXCEPT !.out = << >>, !.taken = NoEvent, !.lost = 0, !.cleared = FALSE]
  BY <1>1 DEF Step
<1>7. q = rest \/ q = rest \o [i \in DOMAIN g.out |-> Answer(g.out[i])]
  BY <1>2 DEF Step
<1>8. HasFields(g) /\ Flags(g) /\ Lag(g) /\ g.hasSequence
  BY DEF Handled
<1>9. Ready(h) /\ h.hasSequence /\ h.latest = g.latest /\ h.lastTime = g.lastTime
  BY <1>6, <1>8, SettledIs
<1>10. Follows(rest, l, p, g.lastTime, rep, reb, st, boot, stamps) /\ reb \in BOOLEAN
  BY <1>3, <1>4, <1>5
<1>11. /\ q \in Seq(EventMessages) /\ AirOK(q, boot, stamps)
       /\ Follows(q, l, p, g.lastTime, rep, reb, st, boot, stamps)
  BY <1>7, <1>10, DeliverIs
<1>12. At(h) = p
  <2>1. p \in 0 .. Count + 1
    BY Sizes
  <2>. QED  BY <1>9, <2>1, PositionIs DEF At
<1>13. Receiving(h, q, l, rep, reb, st, boot, stamps)
  BY <1>9, <1>10, <1>11, <1>12 DEF Receiving
<1>. QED  BY <1>1, <1>2, <1>3, <1>4, <1>5, <1>13

(* The message that arrives, and those after it. *)
LEMMA ArrivalIs ==
  ASSUME InSequence, air # << >>, NEW e, e = Head(air)
  PROVE  /\ e = air[1] /\ 1 \in DOMAIN air /\ Sound(e, boot, stamps)
         /\ Behind(e, last, At(rx), rx.lastTime)
         /\ Tail(air) \in Seq(EventMessages) /\ AirOK(Tail(air), boot, stamps)
         /\ e.msg = "event" => IsEvent(e)
         /\ e.msg = "current" => IsCurrent(e)
         /\ e.msg = "error" => IsError(e) /\ rx.hasSequence
         /\ IsEvent(e) \/ IsCurrent(e) \/ IsError(e)
<1>1. air \in Seq(EventMessages) /\ AirOK(air, boot, stamps)
  BY DEF InSequence, Receiving
<1>2. e = air[1] /\ 1 \in DOMAIN air /\ Tail(air) \in Seq(EventMessages)
  BY <1>1, TailOf
<1>3. AirOK(Tail(air), boot, stamps)
  BY <1>1, TailAir
<1>4. Sound(e, boot, stamps)
  BY <1>1, <1>2 DEF AirOK
<1>5. Behind(e, last, At(rx), rx.lastTime)
  BY <1>2 DEF InSequence, Receiving, Follows
<1>6. IsEvent(e) \/ IsCurrent(e) \/ IsError(e)
  BY <1>4 DEF Sound
<1>7. /\ e.msg = "event" => IsEvent(e)
      /\ e.msg = "current" => IsCurrent(e)
      /\ e.msg = "error" => IsError(e)
  BY <1>6 DEF IsEvent, IsCurrent, IsError
<1>8. e.msg = "error" => rx.hasSequence
  BY <1>2, <1>7 DEF InSequence, Receiving
<1>. QED  BY <1>2, <1>3, <1>4, <1>5, <1>6, <1>7, <1>8

(* The receiver's place. *)
LEMMA AtIs ==
  ASSUME InSequence, rx.hasSequence
  PROVE  At(rx) \in 0 .. Count /\ rx.latest = NumberOf(At(rx)) /\ Following(rx) = NumberOf(At(rx) + 1)
<1>1. PICK k \in 0 .. Count : rx.latest = NumberOf(k)
  BY DEF InSequence, Receiving
<1>2. At(rx) = k
  <2>1. k \in 0 .. Count + 1
    BY Sizes
  <2>. QED  BY <1>1, <2>1, PositionIs DEF At
<1>. QED  BY <1>1, <1>2, NextNumber DEF Following

(* An event that is accepted follows the last one of its boot, as many     *)
(* events on as were reported as lost, unless the sequence was taken up    *)
(* anew.  An event later than the last one is not taken for a reboot.      *)
LEMMA AcceptedInOrder ==
  ASSUME InSequence, air # << >>, NEW e, e = Head(air), IsEvent(e),
         NEW g, g = HandleEvent(rx, e), NEW c, c = CheckTimestampReset(rx, e.time),
         g.taken # NoEvent, ~stale, e.boot = last.boot, ~(e.n <= last.n /\ ~c.hasSequence)
  PROVE  e.n > last.n /\ (~rebased => e.n = last.n + 1 + reported)
<1>1. Ready(rx) /\ (last.boot # 0 => rx.hasSequence) /\ last.n \in 0 .. Count /\ Count \in Nat
  BY Sizes DEF InSequence, Receiving, Follows
<1>2. e.boot # 0 /\ e.n \in 1 .. Count /\ e.time \in 1 .. MaxClock /\ e.seq = NumberOf(e.n)
  BY DEF IsEvent
<1>3. rx.hasSequence
  BY <1>1, <1>2
<1>4. At(rx) \in 0 .. Count /\ Following(rx) = NumberOf(At(rx) + 1)
  BY <1>3, AtIs
<1>5. CASE c.hasSequence
  <2>1. e.seq = Following(rx)
    BY <1>1, <1>5, HandleEventIs
  <2>2. e.n = At(rx) + 1
    <3>1. At(rx) + 1 \in 0 .. Count + 1 /\ e.n \in 0 .. Count + 1
      BY <1>1, <1>2, <1>4
    <3>. QED  BY <1>2, <1>4, <2>1, <3>1, NumbersDiffer
  <2>3. Reachable(air, last, boot)
    BY ArrivalIs DEF Reachable
  <2>4. /\ At(rx) >= last.n /\ (~rebased => At(rx) = last.n + reported)
        /\ reported \in Nat
    BY <2>3 DEF InSequence, Receiving, Follows
  <2>. QED  BY <1>1, <1>4, <2>2, <2>4
<1>6. CASE ~c.hasSequence
  <2>1. e.n > last.n
    BY <1>1, <1>2, <1>6
  <2>2. e.time >= rx.lastTime
    <3>1. Behind(e, last, At(rx), rx.lastTime)
      BY ArrivalIs
    <3>. QED  BY <1>1, <1>2, <2>1, <3>1 DEF Behind
  <2>3. rx.lastTime \in 1 .. MaxClock
    BY <1>2 DEF InSequence, Receiving, Follows
  <2>4. HasFields(rx) /\ Flags(rx) /\ rx.lastTime \in Nat
    BY <1>1 DEF Ready
  <2>5. rx.hasSequence /\ rx.lastTime # 0 /\ rx.lastTime <= e.time
    BY <1>2, <1>3, <2>2, <2>3
  <2>6. c.hasSequence
    BY <1>2, <2>4, <2>5, CheckIs
  <2>. QED  BY <1>6, <2>6
<1>7. c.hasSequence \in BOOLEAN
  BY <1>1, HandleEventIs
<1>. QED  BY <1>5, <1>6, <1>7

(* Before the first event is accepted the time noted says nothing. *)
LEMMA TimeUnset ==
  ASSUME NEW q, NEW l, NEW p, NEW t, NEW u, NEW rep, NEW reb, NEW st, NEW b, NEW s,
         AirOK(q, b, s), b # 0, l.boot = 0, Follows(q, l, p, t, rep, reb, st, b, s)
  PROVE  Follows(q, l, p, u, rep, reb, st, b, s)
<1>1. \A i \in DOMAIN q : q[i].boot # 0
  BY DEF AirOK, Sound, IsEvent, IsCurrent, IsError
<1>2. \A i \in DOMAIN q : Behind(q[i], l, p, u)
  BY <1>1 DEF Follows, Behind
<1>. QED  BY <1>2 DEF Follows

--------------------------------------------------------------------------------
(***************************************************************************)
(* Every step keeps the invariant.                                         *)
(***************************************************************************)
InOrder ==
  last' # last /\ last'.boot = last.boot /\ ~stale' =>
    last'.n > last.n /\ (~rebased => last'.n = last.n + 1 + reported)

(* The building blocks of a report stay. *)
LEMMA BuildingStays ==
  ASSUME NEW h, NEW e, NEW g, {"arming", "checks", "health"} \subseteq DOMAIN h.building,
         SameReport(g, h) \/ Collected(h, e, g)
  PROVE  {"arming", "checks", "health"} \subseteq DOMAIN g.building
<1>1. CASE SameReport(g, h)
  BY <1>1 DEF SameReport
<1>2. CASE Collected(h, e, g)
  <2>1. g.building \in {h.building, NoReport, [arming |-> {e.tag}, checks |-> {}, health |-> {}],
                        [h.building EXCEPT !.checks = @ \cup {e.tag}]}
    BY <1>2 DEF Collected, SameReport, ReportKinds
  <2>. QED  BY <2>1 DEF NoReport
<1>. QED  BY <1>1, <1>2

LEMMA EventKeeps ==
  ASSUME InSequence, EventArrives
  PROVE  InSequence' /\ InOrder
<1>1. PICK e : e = Head(air)
  OBVIOUS
<1>2. PICK g : g = HandleEvent(rx, e)
  OBVIOUS
<1>3. PICK c : c = CheckTimestampReset(rx, e.time)
  OBVIOUS
<1>4. /\ air # << >> /\ e.msg = "event" /\ Step(g, ~c.hasSequence, Tail(air))
      /\ stale' = (stale \/ (e.boot = last.boot /\ e.n <= last.n /\ ~c.hasSequence))
      /\ UNCHANGED vehicle
  BY <1>1, <1>2, <1>3 DEF EventArrives
<1>5. /\ IsEvent(e) /\ Sound(e, boot, stamps) /\ Behind(e, last, At(rx), rx.lastTime)
      /\ Tail(air) \in Seq(EventMessages) /\ AirOK(Tail(air), boot, stamps) /\ e = air[1]
  BY <1>1, <1>4, ArrivalIs
<1>6. /\ Ready(rx) /\ StampsOK(boot, stamps) /\ air \in Seq(EventMessages)
      /\ AirOK(air, boot, stamps) /\ stale \in BOOLEAN /\ rebased \in BOOLEAN
      /\ Follows(air, last, At(rx), rx.lastTime, reported, rebased, stale, boot, stamps)
  BY DEF InSequence, Receiving
<1>7. /\ Handled(g)
      /\ g.taken = NoEvent => Passed(rx, e, g) /\ c.hasSequence
      /\ g.taken # NoEvent => Accepted(rx, e, g) /\ g.taken = e
      /\ c.hasSequence \in BOOLEAN
  BY <1>2, <1>3, <1>5, <1>6, HandleEventIs
<1>8. {"arming", "checks", "health"} \subseteq DOMAIN g.building
  <2>1. {"arming", "checks", "health"} \subseteq DOMAIN rx.building /\ rx.defined \in BOOLEAN
    BY <1>6 DEF Ready, Flags
  <2>2. SameReport(g, rx) \/ Collected(rx, e, g)
    BY <1>5, <1>7, <2>1 DEF Passed, Accepted, Received, IsEvent
  <2>. QED  BY <2>1, <2>2, BuildingStays
<1>9. StampsOK(boot, stamps)' /\ Clocked'
  BY <1>4 DEF vehicle, InSequence, StampsOK, Clocked
<1>10. CASE g.taken = NoEvent
  <2>1. /\ last' = last /\ reported' = reported + 0 /\ rebased' = rebased /\ stale' = stale
    BY <1>4, <1>6, <1>7, <1>10 DEF Step, Recorded, Passed
  <2>2. rx.hasSequence /\ g.latest = rx.latest /\ g.lastTime = (IF rx.lastTime = 0 THEN e.time ELSE rx.lastTime)
    BY <1>7, <1>10 DEF Passed
  <2>3. At(rx) \in 0 .. Count /\ g.latest = NumberOf(At(rx))
    BY <2>2, AtIs
  <2>4. Follows(Tail(air), last, At(rx), rx.lastTime, reported, rebased, stale, boot, stamps)
    BY <1>4, <1>6, DropHead
  <2>5. reported \in Nat /\ last.boot \in Nat /\ (last.boot # 0 => rx.lastTime \in 1 .. MaxClock)
    BY <1>6 DEF Follows
  <2>6. Follows(Tail(air), last, At(rx), g.lastTime, reported, rebased, stale, boot, stamps)
    <3>1. CASE last.boot = 0
      BY <1>5, <1>6, <2>4, <3>1, TimeUnset DEF StampsOK
    <3>2. CASE last.boot # 0
      <4>1. g.lastTime = rx.lastTime
        BY <2>2, <2>5, <3>2
      <4>. QED  BY <2>4, <4>1
    <3>. QED  BY <3>1, <3>2
  <2>7. g.lastTime \in Nat
    BY <1>5, <1>6, <2>2 DEF Ready, IsEvent
  <2>8. reported' = reported
    BY <2>1, <2>5
  <2>9. Receiving(rx', air', last', reported', rebased', stale, boot, stamps)
    BY <1>4, <1>5, <1>6, <1>7, <1>8, <2>1, <2>3, <2>6, <2>7, <2>8, StepKeeps
  <2>. QED  BY <1>4, <1>9, <2>1, <2>9 DEF vehicle, InSequence, InOrder
<1>11. CASE g.taken # NoEvent
  <2>1. Accepted(rx, e, g) /\ g.taken = e /\ e # NoEvent
    BY <1>7, <1>11
  <2>2. last' = [boot |-> e.boot, n |-> e.n] /\ reported' = 0 /\ rebased' = FALSE
    BY <1>4, <2>1 DEF Step, Recorded
  <2>3. e.n \in 0 .. Count /\ g.latest = NumberOf(e.n) /\ g.lastTime = e.time /\ e.time \in Nat
    BY <1>5, <2>1, Sizes DEF IsEvent, Accepted
  <2>4. last'.boot = e.boot /\ last'.n = e.n /\ stale' \in BOOLEAN
    BY <1>4, <1>6, <2>2
  <2>5. PICK st \in BOOLEAN : st = stale'
    BY <2>4
  <2>6. PICK l : l = last'
    OBVIOUS
  <2>7. Follows(Tail(air), l, e.n, e.time, 0, FALSE, st, boot, stamps)
    BY <1>4, <1>5, <1>6, <2>4, <2>6, TakeEvent
  <2>8. Receiving(rx', air', last', reported', rebased', st, boot, stamps)
    <3>1. Follows(Tail(air), last', e.n, g.lastTime, reported', rebased', st, boot, stamps)
      BY <2>2, <2>3, <2>6, <2>7
    <3>2. rebased' \in BOOLEAN
      BY <2>2
    <3>. QED  BY <1>4, <1>5, <1>6, <1>7, <1>8, <2>3, <3>1, <3>2, StepKeeps
  <2>9. InOrder
    <3>. SUFFICES ASSUME last'.boot = last.boot, ~stale'
         PROVE  last'.n > last.n /\ (~rebased => last'.n = last.n + 1 + reported)
      BY DEF InOrder
    <3>1. ~stale /\ ~(e.n <= last.n /\ ~c.hasSequence) /\ e.boot = last.boot
      BY <1>4, <2>4
    <3>. QED  BY <1>1, <1>2, <1>3, <1>4, <1>5, <1>11, <2>4, <3>1, AcceptedInOrder
  <2>. QED  BY <1>4, <1>9, <2>5, <2>8, <2>9 DEF vehicle, InSequence
<1>. QED  BY <1>10, <1>11

LEMMA CurrentKeeps ==
  ASSUME InSequence, CurrentArrives
  PROVE  InSequence' /\ InOrder
<1>1. PICK m : m = Head(air)
  OBVIOUS
<1>2. PICK g : g = HandleCurrentEventSequence(rx, m)
  OBVIOUS
<1>. DEFINE kept == rx.hasSequence /\ ~m.reset
<1>4. /\ air # << >> /\ m.msg = "current" /\ Step(g, m.reset \/ ~rx.hasSequence, Tail(air))
      /\ UNCHANGED << vehicle, stale >>
  BY <1>1, <1>2 DEF CurrentArrives
<1>5. /\ IsCurrent(m) /\ Sound(m, boot, stamps) /\ Behind(m, last, At(rx), rx.lastTime)
      /\ Tail(air) \in Seq(EventMessages) /\ AirOK(Tail(air), boot, stamps) /\ m = air[1]
  BY <1>1, <1>4, ArrivalIs
<1>6. /\ Ready(rx) /\ StampsOK(boot, stamps) /\ air \in Seq(EventMessages)
      /\ AirOK(air, boot, stamps) /\ stale \in BOOLEAN /\ rebased \in BOOLEAN
      /\ Follows(air, last, At(rx), rx.lastTime, reported, rebased, stale, boot, stamps)
      /\ rx.hasSequence \in BOOLEAN /\ m.reset \in BOOLEAN
  BY <1>5 DEF InSequence, Receiving, Ready, Flags, IsCurrent
<1>7. /\ Handled(g) /\ g.taken = NoEvent /\ g.lost = 0 /\ g.lastTime = rx.lastTime
      /\ SameReport(g, rx)
      /\ kept => g.latest = rx.latest
      /\ ~kept => g.latest = m.seq
  BY <1>2, <1>5, <1>6, HandleCurrentIs
<1>8. /\ {"arming", "checks", "health"} \subseteq DOMAIN g.building /\ g.lastTime \in Nat
  BY <1>6, <1>7 DEF SameReport, Ready
<1>9. StampsOK(boot, stamps)' /\ Clocked'
  BY <1>4 DEF vehicle, InSequence, StampsOK, Clocked
<1>10. reported \in Nat
  BY <1>6 DEF Follows
<1>11. last' = last /\ reported' = reported /\ stale' = stale
  BY <1>4, <1>7, <1>10 DEF Step, Recorded
<1>12. CASE kept
  <2>1. rebased' = rebased
    BY <1>4, <1>6, <1>7, <1>12 DEF Step, Recorded
  <2>2. At(rx) \in 0 .. Count /\ g.latest = NumberOf(At(rx))
    BY <1>7, <1>12, AtIs
  <2>3. Follows(Tail(air), last, At(rx), rx.lastTime, reported, rebased, stale, boot, stamps)
    BY <1>4, <1>6, DropHead
  <2>4. Follows(Tail(air), last', At(rx), g.lastTime, reported', rebased', stale, boot, stamps)
    BY <1>7, <1>11, <2>1, <2>3
  <2>5. rebased' \in BOOLEAN
    BY <1>6, <2>1
  <2>6. Receiving(rx', air', last', reported', rebased', stale, boot, stamps)
    BY <1>4, <1>5, <1>6, <1>7, <1>8, <2>2, <2>4, <2>5, StepKeeps
  <2>. QED  BY <1>4, <1>9, <1>11, <2>6 DEF vehicle, InSequence, InOrder
<1>13. CASE ~kept
  <2>1. rebased' = TRUE
    BY <1>4, <1>6, <1>7, <1>13 DEF Step, Recorded
  <2>2. Place(m) \in 0 .. Count /\ g.latest = NumberOf(Place(m))
    BY <1>5, <1>7, <1>13, PlaceIs
  <2>3. m.boot = last.boot /\ ~stale => Place(m) >= last.n /\ (~TRUE => Place(m) = last.n + reported)
    <3>1. last.n \in 0 .. Count /\ Count \in Nat
      BY <1>6, Sizes DEF Follows
    <3>. QED  BY <1>5, <2>2, <3>1 DEF Behind
  <2>4. Follows(Tail(air), last, Place(m), rx.lastTime, reported, TRUE, stale, boot, stamps)
    BY <1>4, <1>5, <1>6, <1>10, <2>3, TakeHead
  <2>5. Follows(Tail(air), last', Place(m), g.lastTime, reported', rebased', stale, boot, stamps)
    BY <1>7, <1>11, <2>1, <2>4
  <2>6. rebased' \in BOOLEAN
    BY <2>1
  <2>7. Receiving(rx', air', last', reported', rebased', stale, boot, stamps)
    BY <1>4, <1>5, <1>6, <1>7, <1>8, <2>2, <2>5, <2>6, StepKeeps
  <2>. QED  BY <1>4, <1>9, <1>11, <2>7 DEF vehicle, InSequence, InOrder
<1>. QED  BY <1>12, <1>13

(* What is lost between two places. *)
LEMMA LostIs ==
  ASSUME NEW p \in 0 .. Count, NEW k \in 0 .. Count,
         NEW d, d = (NumberOf(k + 1) - NumberOf(p) - 1) % SeqRange
  PROVE  d \in Nat /\ (k >= p => d = k - p)
<1>1. PICK a \in Int : a = NumberOf(k + 1) - NumberOf(p)
  BY NumberIs, Sizes
<1>2. /\ SeqRange \in Nat /\ SeqRange > 0 /\ k + 1 \in 0 .. Count + 1 /\ p \in 0 .. Count + 1
      /\ Count \in Nat
  BY Sizes
<1>3. NumberOf(p) \in 0 .. SeqRange - 1 /\ NumberOf(k + 1) \in 0 .. SeqRange - 1
  BY <1>2, NumberIs
<1>4. a > -SeqRange /\ a < SeqRange /\ d = (a - 1) % SeqRange /\ a - 1 \in Int
  BY <1>1, <1>2, <1>3
<1>5. d \in Nat
  BY <1>2, <1>4
<1>6. ASSUME k >= p PROVE d = k - p
  <2>1. a % SeqRange = k + 1 - p
    BY <1>1, <1>2, <1>6, Distance
  <2>2. /\ a \in 0 .. SeqRange - 1 => a % SeqRange = a
        /\ a \in -SeqRange .. -1 => a % SeqRange = a + SeqRange
    BY <1>2, Remainder
  <2>3. a = k + 1 - p \/ a = k + 1 - p - SeqRange
    BY <1>2, <1>4, <2>1, <2>2
  <2>4. k - p \in 0 .. SeqRange - 1
    BY <1>2, <1>6, Sizes
  <2>5. /\ a - 1 \in 0 .. SeqRange - 1 => (a - 1) % SeqRange = a - 1
        /\ a - 1 \in -SeqRange .. -1 => (a - 1) % SeqRange = a - 1 + SeqRange
    BY <1>2, <1>4, Remainder
  <2>. QED  BY <1>2, <1>4, <2>3, <2>4, <2>5
<1>. QED  BY <1>5, <1>6

LEMMA ErrorKeeps ==
  ASSUME InSequence, ErrorArrives
  PROVE  InSequence' /\ InOrder
<1>1. PICK m : m = Head(air)
  OBVIOUS
<1>2. PICK g : g = HandleEventError(rx, m)
  OBVIOUS
<1>4. /\ air # << >> /\ m.msg = "error" /\ Step(g, FALSE, Tail(air))
      /\ UNCHANGED << vehicle, stale, basis >>
  BY <1>1, <1>2 DEF ErrorArrives
<1>5. /\ IsError(m) /\ Sound(m, boot, stamps) /\ Behind(m, last, At(rx), rx.lastTime)
      /\ Tail(air) \in Seq(EventMessages) /\ AirOK(Tail(air), boot, stamps) /\ m = air[1]
      /\ 1 \in DOMAIN air /\ rx.hasSequence
  BY <1>1, <1>4, ArrivalIs
<1>6. /\ Ready(rx) /\ StampsOK(boot, stamps) /\ air \in Seq(EventMessages)
      /\ AirOK(air, boot, stamps) /\ stale \in BOOLEAN /\ rebased \in BOOLEAN
      /\ Follows(air, last, At(rx), rx.lastTime, reported, rebased, stale, boot, stamps)
  BY DEF InSequence, Receiving
<1>7. /\ Handled(g) /\ g.taken = NoEvent /\ g.lastTime = rx.lastTime
      /\ SameReport(g, rx)
      /\ m.seq # Following(rx) => g = rx /\ g.lost = 0
      /\ m.seq = Following(rx) =>
           g.latest = NumberOf(Place(m)) /\ g.lost = (m.oldest - rx.latest - 1) % SeqRange
  BY <1>2, <1>5, <1>6, HandleErrorIs
<1>8. /\ {"arming", "checks", "health"} \subseteq DOMAIN g.building /\ g.lastTime \in Nat
  BY <1>6, <1>7 DEF SameReport, Ready
<1>9. StampsOK(boot, stamps)' /\ Clocked'
  BY <1>4 DEF vehicle, InSequence, StampsOK, Clocked
<1>10. reported \in Nat
  BY <1>6 DEF Follows
<1>11. last' = last /\ reported' = reported + g.lost /\ rebased' = rebased /\ stale' = stale
  BY <1>4, <1>6, <1>7 DEF Step, Recorded
<1>12. At(rx) \in 0 .. Count /\ rx.latest = NumberOf(At(rx)) /\ Following(rx) = NumberOf(At(rx) + 1)
  BY <1>5, AtIs
<1>13. CASE m.seq # Following(rx)
  <2>1. reported' = reported /\ g.latest = NumberOf(At(rx))
    BY <1>7, <1>10, <1>11, <1>12, <1>13
  <2>2. Follows(Tail(air), last, At(rx), rx.lastTime, reported, rebased, stale, boot, stamps)
    BY <1>4, <1>6, DropHead
  <2>3. Follows(Tail(air), last', At(rx), g.lastTime, reported', rebased', stale, boot, stamps)
    BY <1>7, <1>11, <2>1, <2>2
  <2>4. rebased' \in BOOLEAN
    BY <1>6, <1>11
  <2>5. Receiving(rx', air', last', reported', rebased', stale, boot, stamps)
    BY <1>4, <1>5, <1>6, <1>7, <1>8, <1>12, <2>1, <2>3, <2>4, StepKeeps
  <2>. QED  BY <1>4, <1>9, <1>11, <2>5 DEF vehicle, InSequence, InOrder
<1>14. CASE m.seq = Following(rx)
  <2>1. Place(m) \in 0 .. Count /\ m.oldest = NumberOf(Place(m) + 1) /\ Asked(m) \in 1 .. Count + 1
        /\ m.seq = NumberOf(Asked(m)) /\ Count \in Nat
    BY <1>5, PlaceIs, Sizes
  <2>2. Asked(m) = At(rx) + 1
    <3>1. At(rx) + 1 \in 0 .. Count + 1 /\ Asked(m) \in 0 .. Count + 1
      BY <1>12, <2>1
    <3>. QED  BY <1>12, <1>14, <2>1, <3>1, NumbersDiffer
  <2>3. g.lost \in Nat /\ (Place(m) >= At(rx) => g.lost = Place(m) - At(rx))
    BY <1>7, <1>12, <1>14, <2>1, LostIs
  <2>4. PICK more \in Nat : more = reported + g.lost
    BY <1>10, <2>3
  <2>5. ASSUME m.boot = last.boot, ~stale
        PROVE  Place(m) >= last.n /\ (~rebased => Place(m) = last.n + more)
    <3>1. Reachable(air, last, boot)
      BY <1>5, <2>5 DEF Reachable
    <3>2. At(rx) >= last.n /\ (~rebased => At(rx) = last.n + reported) /\ last.n \in 0 .. Count
      BY <1>6, <2>5, <3>1 DEF Follows
    <3>3. ~Lying(m)
      BY <1>5, <1>12, <2>1, <2>2, <2>5 DEF Behind
    <3>4. Place(m) >= At(rx)
      BY <1>4, <1>12, <2>1, <2>2, <3>3 DEF Lying
    <3>. QED  BY <1>10, <1>12, <2>1, <2>3, <2>4, <3>2, <3>4
  <2>6. Follows(Tail(air), last, Place(m), rx.lastTime, more, rebased, stale, boot, stamps)
    BY <1>4, <1>5, <1>6, <2>5, TakeHead
  <2>7. Follows(Tail(air), last', Place(m), g.lastTime, reported', rebased', stale, boot, stamps)
    BY <1>7, <1>11, <2>4, <2>6
  <2>8. rebased' \in BOOLEAN
    BY <1>6, <1>11
  <2>9. Receiving(rx', air', last', reported', rebased', stale, boot, stamps)
    BY <1>4, <1>5, <1>6, <1>7, <1>8, <1>14, <2>1, <2>7, <2>8, StepKeeps
  <2>. QED  BY <1>4, <1>9, <1>11, <2>9 DEF vehicle, InSequence, InOrder
<1>. QED  BY <1>13, <1>14

LEMMA TimerKeeps ==
  ASSUME InSequence, TimerFires
  PROVE  InSequence' /\ InOrder
<1>1. PICK g : g = TimerEvent(rx)
  OBVIOUS
<1>2. Step(g, FALSE, air) /\ rx.timer /\ UNCHANGED << vehicle, stale, basis >>
  BY <1>1 DEF TimerFires
<1>3. /\ Ready(rx) /\ StampsOK(boot, stamps) /\ air \in Seq(EventMessages)
      /\ AirOK(air, boot, stamps) /\ stale \in BOOLEAN /\ rebased \in BOOLEAN
      /\ Follows(air, last, At(rx), rx.lastTime, reported, rebased, stale, boot, stamps)
  BY DEF InSequence, Receiving
<1>4. /\ Handled(g) /\ g.taken = NoEvent /\ g.lost = 0 /\ g.lastTime = rx.lastTime
      /\ SameReport(g, rx) /\ g.latest = rx.latest /\ rx.hasSequence
  BY <1>1, <1>2, <1>3, TimerIs
<1>5. {"arming", "checks", "health"} \subseteq DOMAIN g.building /\ g.lastTime \in Nat
  BY <1>3, <1>4 DEF SameReport, Ready
<1>6. StampsOK(boot, stamps)' /\ Clocked'
  BY <1>2 DEF vehicle, InSequence, StampsOK, Clocked
<1>7. reported \in Nat
  BY <1>3 DEF Follows
<1>8. last' = last /\ reported' = reported /\ rebased' = rebased /\ stale' = stale
  BY <1>2, <1>3, <1>4, <1>7 DEF Step, Recorded
<1>9. At(rx) \in 0 .. Count /\ g.latest = NumberOf(At(rx))
  BY <1>4, AtIs
<1>10. Follows(air, last', At(rx), g.lastTime, reported', rebased', stale, boot, stamps)
  BY <1>3, <1>4, <1>8
<1>11. rebased' \in BOOLEAN
  BY <1>3, <1>8
<1>12. Receiving(rx', air', last', reported', rebased', stale, boot, stamps)
  BY <1>2, <1>3, <1>4, <1>5, <1>9, <1>10, <1>11, StepKeeps
<1>. QED  BY <1>2, <1>6, <1>8, <1>12 DEF vehicle, InSequence, InOrder

(* The events held back change the report only. *)
Replays(h, f, g) ==
  /\ f[0].expected = h.expected /\ f[0].building = h.building /\ f[0].shown = h.shown
  /\ \A i \in 1 .. Len(h.pending) : Collected(f[i - 1], h.pending[i], f[i])
  /\ \A i \in 0 .. Len(h.pending) : "health" \in DOMAIN f[i].building
  /\ HasFields(g) /\ {"arming", "checks", "health"} \subseteq DOMAIN g.building
  /\ SameSequence(g, h) /\ SameReport(g, f[Len(h.pending)])
  /\ g.defined = TRUE /\ g.pending = << >> /\ g.cleared = h.cleared

LEMMA ReplayIs ==
  ASSUME NEW h, HasFields(h), {"arming", "checks", "health"} \subseteq DOMAIN h.building,
         Len(h.pending) \in Nat, NEW f, NEW g, Replayed(h, f, g)
  PROVE  Replays(h, f, g)
<1>. DEFINE n == Len(h.pending)
            Well(k) == /\ HasFields(k) /\ {"arming", "checks", "health"} \subseteq DOMAIN k.building
                       /\ SameSequence(k, h) /\ k.defined = TRUE /\ k.cleared = h.cleared
            S == {m \in Nat : m <= n => Well(f[m])}
<1>1. /\ f[0] = [h EXCEPT !.defined = TRUE]
      /\ \A i \in 1 .. n : f[i] = HandleEventCB(f[i - 1], h.pending[i])
      /\ g = [f[n] EXCEPT !.pending = << >>]
  BY DEF Replayed
<1>2. f[0].expected = h.expected /\ f[0].building = h.building /\ f[0].shown = h.shown
  BY <1>1 DEF HasFields, ReceiverFields
<1>3. Well(f[0])
  BY <1>1 DEF HasFields, ReceiverFields, SameSequence
<1>4. ASSUME NEW i \in 1 .. n, Well(f[i - 1])
      PROVE  Well(f[i]) /\ Collected(f[i - 1], h.pending[i], f[i])
  <2>1. PICK k : k = f[i - 1]
    OBVIOUS
  <2>2. PICK j : j = f[i]
    OBVIOUS
  <2>3. j = HandleEventCB(k, h.pending[i]) /\ Well(k)
    BY <1>1, <1>4, <2>1, <2>2
  <2>4. HasFields(j) /\ SameSequence(j, k) /\ SameEvents(j, k) /\ Collected(k, h.pending[i], j)
    BY <2>3, CollectIs
  <2>5. {"arming", "checks", "health"} \subseteq DOMAIN j.building
    BY <2>3, <2>4, BuildingStays
  <2>. QED  BY <2>1, <2>2, <2>3, <2>4, <2>5 DEF SameSequence, SameEvents
<1>5. 0 \in S
  BY <1>3
<1>6. ASSUME NEW m \in Nat, m \in S PROVE m + 1 \in S
  <2>1. CASE m + 1 <= n
    <3>1. m + 1 \in 1 .. n /\ (m + 1) - 1 = m /\ m <= n
      BY <2>1
    <3>2. Well(f[m])
      BY <1>6, <3>1
    <3>3. Well(f[m + 1])
      <4>. HIDE DEF Well, n
      <4>. QED  BY <1>4, <3>1, <3>2
    <3>. QED  BY <3>3
  <2>2. CASE ~(m + 1 <= n)
    BY <2>2
  <2>. QED  BY <2>1, <2>2
<1>. HIDE DEF Well
<1>7. \A m \in Nat : m \in S
  <2>. HIDE DEF S
  <2>. QED  BY <1>5, <1>6, EventInduction
<1>8. \A m \in 0 .. n : Well(f[m])
  BY <1>7
<1>9. ASSUME NEW i \in 1 .. n PROVE Collected(f[i - 1], h.pending[i], f[i])
  <2>1. i - 1 \in 0 .. n
    OBVIOUS
  <2>. QED  BY <1>4, <1>8, <2>1
<1>10. Well(f[n])
  BY <1>8
<1>11. PICK k : k = f[n]
  OBVIOUS
<1>12. Well(k) /\ g = [k EXCEPT !.pending = << >>]
  BY <1>1, <1>10, <1>11
<1>13. /\ HasFields(g) /\ {"arming", "checks", "health"} \subseteq DOMAIN g.building
       /\ SameSequence(g, h) /\ SameReport(g, k)
       /\ g.defined = TRUE /\ g.pending = << >> /\ g.cleared = h.cleared
  BY <1>12 DEF Well, HasFields, ReceiverFields, SameSequence, SameReport
<1>14. \A i \in 0 .. n : "health" \in DOMAIN f[i].building
  BY <1>8 DEF Well
<1>. QED  BY <1>2, <1>9, <1>11, <1>13, <1>14 DEF Replays

LEMMA MetadataKeeps ==
  ASSUME InSequence, Len(rx.pending) \in Nat, MetadataArrives
  PROVE  InSequence' /\ InOrder
<1>1. PICK g : g = SetMetadata(rx)
  OBVIOUS
<1>2. Step(g, FALSE, air) /\ UNCHANGED << vehicle, stale, basis >>
  BY <1>1 DEF MetadataArrives
<1>3. /\ Ready(rx) /\ air \in Seq(EventMessages) /\ stale \in BOOLEAN /\ rebased \in BOOLEAN
      /\ Receiving(rx, air, last, reported, rebased, stale, boot, stamps)
      /\ reported \in Nat
  BY DEF InSequence, Receiving, Follows
<1>4. PICK f : Replayed(rx, f, g)
  BY <1>1, SetMetadataTurns
<1>5. /\ HasFields(g) /\ {"arming", "checks", "health"} \subseteq DOMAIN g.building
      /\ SameSequence(g, rx) /\ g.defined = TRUE /\ g.pending = << >>
  <2>1. HasFields(rx) /\ {"arming", "checks", "health"} \subseteq DOMAIN rx.building
    BY <1>3 DEF Ready
  <2>2. Replays(rx, f, g)
    BY <1>4, <2>1, ReplayIs
  <2>. QED  BY <2>2 DEF Replays
<1>6. g.out = << >> /\ g.taken = NoEvent /\ g.lost = 0 /\ g.lastTime \in Nat
  BY <1>3, <1>5 DEF Ready, SameSequence
<1>7. Flags(g) /\ Lag(g)
  BY <1>3, <1>5 DEF Ready, SameSequence, Flags, Lag
<1>8. PICK h : h = rx'
  OBVIOUS
<1>9. h = [g EXCEPT !.out = << >>, !.taken = NoEvent, !.lost = 0, !.cleared = FALSE]
  BY <1>2, <1>8 DEF Step
<1>10. Ready(h) /\ h.hasSequence = g.hasSequence /\ h.latest = g.latest /\ h.lastTime = g.lastTime
  BY <1>5, <1>6, <1>7, <1>9, SettledIs
<1>11. air' = air
  <2>1. [i \in DOMAIN g.out |-> Answer(g.out[i])] = << >>
    BY <1>6
  <2>. QED  BY <1>2, <1>3, <1>6, <2>1 DEF Step
<1>12. last' = last /\ reported' = reported /\ rebased' = rebased /\ stale' = stale
  BY <1>2, <1>3, <1>6 DEF Step, Recorded
<1>13. Receiving(h, air, last, reported, rebased, stale, boot, stamps)
  <2>1. h.hasSequence = rx.hasSequence /\ h.latest = rx.latest /\ h.lastTime = rx.lastTime
    BY <1>5, <1>10 DEF SameSequence
  <2>2. At(h) = At(rx)
    BY <2>1 DEF At
  <2>. QED  BY <1>3, <1>10, <2>1, <2>2 DEF Receiving
<1>14. Receiving(rx', air', last', reported', rebased', stale', boot, stamps)
  BY <1>8, <1>11, <1>12, <1>13
<1>15. StampsOK(boot, stamps)' /\ Clocked'
  BY <1>2 DEF vehicle, InSequence, StampsOK, Clocked
<1>. QED  BY <1>2, <1>12, <1>14, <1>15 DEF vehicle, InSequence, InOrder

(* One more event of the vehicle. *)
Grown(b, s, time, z) ==
  /\ StampsOK(b, z) /\ Len(s) \in Nat /\ Len(z) = Len(s) + 1 /\ z[Len(s) + 1] = time
  /\ DOMAIN s = 1 .. Len(s) /\ DOMAIN z = 1 .. Len(s) + 1
  /\ \A i \in DOMAIN s : z[i] = s[i]

LEMMA StampsGrow ==
  ASSUME NEW b, NEW s, StampsOK(b, s), Len(s) < Count, NEW time \in 1 .. MaxClock,
         \A i \in DOMAIN s : s[i] <= time, NEW z, z = Append(s, time)
  PROVE  Grown(b, s, time, z)
<1>1. s \in Seq(1 .. MaxClock) /\ Count \in Nat
  BY Sizes DEF StampsOK
<1>2. /\ z \in Seq(1 .. MaxClock) /\ Len(s) \in Nat /\ DOMAIN s = 1 .. Len(s)
      /\ DOMAIN z = 1 .. Len(s) + 1 /\ z[Len(s) + 1] = time
      /\ \A i \in DOMAIN s : z[i] = s[i]
  BY <1>1, AppendOf
<1>3. Len(z) = Len(s) + 1
  BY <1>1
<1>4. \A i, j \in DOMAIN s : i <= j => s[i] <= s[j]
  BY DEF StampsOK
<1>5. ASSUME NEW i \in DOMAIN z, NEW j \in DOMAIN z, i <= j PROVE z[i] <= z[j]
  <2>1. CASE j \in DOMAIN s
    <3>1. i \in DOMAIN s
      BY <1>2, <1>5, <2>1
    <3>. QED  BY <1>2, <1>4, <1>5, <2>1, <3>1
  <2>2. CASE j \notin DOMAIN s
    <3>1. j = Len(s) + 1 /\ z[j] = time
      BY <1>2, <2>2
    <3>2. i \in DOMAIN s \/ i = j
      BY <1>2, <3>1
    <3>. QED  BY <1>2, <3>1, <3>2
  <2>. QED  BY <2>1, <2>2
<1>. QED  BY <1>1, <1>2, <1>3, <1>5 DEF StampsOK, Grown

LEMMA ReceivingGrows ==
  ASSUME NEW b, NEW s, StampsOK(b, s), NEW z, Len(z) = Len(s) + 1,
         \A i \in DOMAIN s : z[i] = s[i],
         NEW h, NEW q, NEW l, NEW rep, NEW reb, NEW st, Receiving(h, q, l, rep, reb, st, b, s)
  PROVE  Receiving(h, q, l, rep, reb, st, b, z)
<1>1. Len(s) \in Nat /\ DOMAIN s = 1 .. Len(s) /\ Count \in Nat
  BY Sizes DEF StampsOK
<1>2. ASSUME NEW x, Sound(x, b, s) PROVE Sound(x, b, z)
  <2>1. Place(x) \in 0 .. Count /\ (IsEvent(x) => Place(x) = x.n /\ x.n \in 1 .. Count)
    BY <1>1, <1>2, PlaceIs DEF Sound
  <2>2. ASSUME x.boot = b PROVE Place(x) <= Len(z) /\ (IsEvent(x) => x.time = z[x.n])
    <3>1. Place(x) <= Len(s) /\ (IsEvent(x) => x.time = s[x.n])
      BY <1>2, <2>2 DEF Sound
    <3>2. IsEvent(x) => x.n \in DOMAIN s
      BY <1>1, <2>1, <3>1
    <3>. QED  BY <1>1, <2>1, <3>1, <3>2
  <2>. QED  BY <1>2, <2>2 DEF Sound
<1>3. AirOK(q, b, z)
  BY <1>2 DEF Receiving, AirOK
<1>4. Follows(q, l, At(h), h.lastTime, rep, reb, st, b, z)
  <2>1. Follows(q, l, At(h), h.lastTime, rep, reb, st, b, s)
    BY DEF Receiving
  <2>2. ASSUME l.boot = b
        PROVE  l.n <= Len(z) /\ z[l.n] = h.lastTime /\ At(h) <= Len(z)
    <3>1. /\ l.n <= Len(s) /\ s[l.n] = h.lastTime /\ At(h) <= Len(s)
          /\ l.n \in 0 .. Count /\ At(h) \in 0 .. Count
      BY <2>1, <2>2 DEF Follows
    <3>2. l.n >= 1
      BY <2>1, <2>2 DEF Follows, StampsOK
    <3>3. l.n \in DOMAIN s
      BY <1>1, <3>1, <3>2
    <3>. QED  BY <1>1, <3>1, <3>3
  <2>. QED  BY <2>1, <2>2 DEF Follows
<1>. QED  BY <1>3, <1>4 DEF Receiving

(* An event, or a broadcast with nothing else on the way. *)
LEMMA ReceivingSends ==
  ASSUME NEW b, NEW s, StampsOK(b, s),
         NEW h, NEW q, NEW l, NEW rep, NEW reb, NEW st, Receiving(h, q, l, rep, reb, st, b, s),
         NEW x \in EventMessages, Fresh(x, b, s),
         IsEvent(x) \/ (IsCurrent(x) /\ q = << >> /\ Place(x) = Len(s))
  PROVE  Receiving(h, Append(q, x), l, rep, reb, st, b, s)
<1>1. /\ q \in Seq(EventMessages) /\ AirOK(q, b, s)
      /\ Follows(q, l, At(h), h.lastTime, rep, reb, st, b, s)
      /\ \A i \in DOMAIN q : IsError(q[i]) => h.hasSequence
  BY DEF Receiving
<1>2. ~IsError(x) /\ (IsEvent(x) => ~IsCurrent(x))
  BY DEF IsError, IsEvent, IsCurrent
<1>3. Append(q, x) \in Seq(EventMessages) /\ AirOK(Append(q, x), b, s)
  BY <1>1, AppendOf, AppendAir
<1>4. Follows(Append(q, x), l, At(h), h.lastTime, rep, reb, st, b, s)
  BY <1>1, <1>2, AddFresh
<1>5. \A i \in DOMAIN Append(q, x) : IsError(Append(q, x)[i]) => h.hasSequence
  <2>1. /\ DOMAIN Append(q, x) = 1 .. Len(q) + 1 /\ Append(q, x)[Len(q) + 1] = x
        /\ DOMAIN q = 1 .. Len(q) /\ Len(q) \in Nat
        /\ \A i \in DOMAIN q : Append(q, x)[i] = q[i]
    BY <1>1, AppendOf
  <2>2. \A i \in DOMAIN Append(q, x) : i \in DOMAIN q \/ i = Len(q) + 1
    BY <2>1
  <2>. QED  BY <1>1, <1>2, <2>1, <2>2
<1>. QED  BY <1>3, <1>4, <1>5 DEF Receiving

(* A reboot: nothing under way is of the boot that begins. *)
LEMMA ReceivingReboots ==
  ASSUME NEW b, NEW s, StampsOK(b, s),
         NEW h, NEW q, NEW l, NEW rep, NEW reb, NEW st, Receiving(h, q, l, rep, reb, st, b, s),
         NEW z
  PROVE  Receiving(h, q, l, rep, reb, st, b + 1, z)
<1>1. b \in Nat
  BY DEF StampsOK
<1>2. ASSUME NEW x, Sound(x, b, s) PROVE Sound(x, b + 1, z) /\ x.boot # b + 1
  <2>1. x.boot \in Nat /\ x.boot <= b
    BY <1>2 DEF Sound, IsEvent, IsCurrent, IsError
  <2>. QED  BY <1>1, <1>2, <2>1 DEF Sound
<1>3. AirOK(q, b + 1, z)
  BY <1>2 DEF Receiving, AirOK
<1>4. Follows(q, l, At(h), h.lastTime, rep, reb, st, b + 1, z)
  <2>1. Follows(q, l, At(h), h.lastTime, rep, reb, st, b, s)
    BY DEF Receiving
  <2>2. l.boot \in Nat /\ (l.boot = 0 \/ l.boot <= b) /\ l.boot # b + 1
    BY <1>1, <2>1 DEF Follows
  <2>3. Reachable(q, l, b + 1) => Reachable(q, l, b)
    BY <2>2 DEF Reachable
  <2>. QED  BY <1>1, <2>1, <2>2, <2>3 DEF Follows
<1>. QED  BY <1>3, <1>4 DEF Receiving

LEMMA EmitsKeeps ==
  ASSUME InSequence, VehicleEmits
  PROVE  InSequence' /\ InOrder
<1>1. PICK e : e = EventOf(Len(stamps) + 1, clock)
  OBVIOUS
<1>2. PICK z : z = Append(stamps, clock)
  OBVIOUS
<1>3. /\ Len(stamps) < Count /\ stamps' = z /\ air' = Append(air, e)
      /\ UNCHANGED << rx, boot, clock, flagged, upsets, history >>
  BY <1>1, <1>2 DEF VehicleEmits, Count
<1>4. /\ StampsOK(boot, stamps) /\ clock \in 1 .. MaxClock /\ flagged \in BOOLEAN
      /\ \A i \in DOMAIN stamps : stamps[i] <= clock
      /\ Receiving(rx, air, last, reported, rebased, stale, boot, stamps)
  BY DEF InSequence, Clocked
<1>5. /\ StampsOK(boot, z) /\ Len(stamps) \in Nat /\ Len(z) = Len(stamps) + 1
      /\ z[Len(stamps) + 1] = clock
      /\ DOMAIN stamps = 1 .. Len(stamps) /\ DOMAIN z = 1 .. Len(stamps) + 1
      /\ \A i \in DOMAIN stamps : z[i] = stamps[i]
  <2>1. Grown(boot, stamps, clock, z)
    BY <1>2, <1>3, <1>4, StampsGrow
  <2>. QED  BY <2>1 DEF Grown
<1>6. Len(stamps) + 1 \in 1 .. Count
  BY <1>3, <1>5, Sizes
<1>7. IsEvent(e) /\ e.n = Len(stamps) + 1 /\ e.time = clock /\ e.boot = boot /\ e \in EventMessages
  BY <1>1, <1>4, <1>6, EventOfIs
<1>8. Fresh(e, boot, z)
  BY <1>5, <1>7, PlaceIs DEF Fresh, Lying, IsEvent
<1>9. Receiving(rx, air, last, reported, rebased, stale, boot, z)
  BY <1>4, <1>5, ReceivingGrows
<1>10. Receiving(rx, Append(air, e), last, reported, rebased, stale, boot, z)
  BY <1>5, <1>7, <1>8, <1>9, ReceivingSends
<1>11. Clocked'
  <2>1. \A i \in DOMAIN z : z[i] <= clock
    <3>1. \A i \in DOMAIN z : i \in DOMAIN stamps \/ i = Len(stamps) + 1
      BY <1>5
    <3>. QED  BY <1>4, <1>5, <3>1
  <2>. QED  BY <1>3, <1>4, <2>1 DEF Clocked
<1>. QED  BY <1>3, <1>5, <1>10, <1>11 DEF InSequence, InOrder, history

LEMMA BroadcastsKeeps ==
  ASSUME InSequence, VehicleBroadcasts
  PROVE  InSequence' /\ InOrder
<1>1. PICK m : m = [msg |-> "current", seq |-> Latest, reset |-> flagged, boot |-> boot]
  OBVIOUS
<1>2. /\ air = << >> /\ air' = Append(air, m) /\ flagged' = FALSE
      /\ UNCHANGED << rx, boot, stamps, clock, upsets, history >>
  BY <1>1 DEF VehicleBroadcasts
<1>3. /\ StampsOK(boot, stamps) /\ Clocked
      /\ Receiving(rx, air, last, reported, rebased, stale, boot, stamps)
  BY DEF InSequence
<1>4. /\ Len(stamps) \in 0 .. Count /\ boot \in Nat \ {0} /\ flagged \in BOOLEAN
      /\ Len(stamps) \in 0 .. Count + 1 /\ SeqRange \in Nat
  BY <1>3, Sizes DEF StampsOK, Clocked
<1>5. /\ m.msg = "current" /\ m.seq = NumberOf(Len(stamps)) /\ m.boot = boot
      /\ m.reset \in BOOLEAN /\ m \in EventMessages
  <2>1. NumberOf(Len(stamps)) \in Nat
    BY <1>4, NumberIs
  <2>. QED  BY <1>1, <1>4, <2>1 DEF Latest, EventMessages
<1>6. IsCurrent(m)
  BY <1>4, <1>5 DEF IsCurrent
<1>7. Place(m) = Len(stamps)
  <2>1. Position(m.seq) = Len(stamps)
    BY <1>4, <1>5, PositionIs
  <2>. QED  BY <1>5, <2>1 DEF Place
<1>8. Fresh(m, boot, stamps)
  BY <1>4, <1>5, <1>7 DEF Fresh, IsEvent, Lying
<1>9. Receiving(rx, Append(air, m), last, reported, rebased, stale, boot, stamps)
  BY <1>2, <1>3, <1>5, <1>6, <1>7, <1>8, ReceivingSends
<1>10. Clocked'
  BY <1>2, <1>3 DEF Clocked
<1>. QED  BY <1>2, <1>3, <1>9, <1>10 DEF InSequence, InOrder, history

LEMMA RebootsKeeps ==
  ASSUME InSequence, VehicleReboots
  PROVE  InSequence' /\ InOrder
<1>1. /\ boot' = boot + 1 /\ stamps' = << >> /\ clock' = 1 /\ flagged' = TRUE
      /\ UNCHANGED << rx, air, history >>
  BY DEF VehicleReboots
<1>2. /\ StampsOK(boot, stamps) /\ Receiving(rx, air, last, reported, rebased, stale, boot, stamps)
  BY DEF InSequence
<1>3. \A z : Receiving(rx, air, last, reported, rebased, stale, boot + 1, z)
  BY <1>2, ReceivingReboots
<1>4. StampsOK(boot', stamps')
  <2>1. boot + 1 \in Nat \ {0} /\ Count \in Nat
    BY <1>2, Sizes DEF StampsOK
  <2>2. << >> \in Seq(1 .. MaxClock) /\ Len(<< >>) = 0 /\ DOMAIN << >> = {}
    OBVIOUS
  <2>. QED  BY <1>1, <2>1, <2>2 DEF StampsOK
<1>5. Clocked'
  <2>1. 1 \in 1 .. MaxClock
    BY EventTransferAssumption
  <2>2. DOMAIN << >> = {}
    OBVIOUS
  <2>. QED  BY <1>1, <2>1, <2>2 DEF Clocked
<1>. QED  BY <1>1, <1>3, <1>4, <1>5 DEF InSequence, InOrder, history

LEMMA TimeKeeps ==
  ASSUME InSequence, TimePasses
  PROVE  InSequence' /\ InOrder
<1>1. /\ clock' = clock + TimeMargin + 1 /\ clock' <= MaxClock
      /\ UNCHANGED << rx, boot, stamps, flagged, air, upsets, history >>
  BY DEF TimePasses
<1>2. TimeMargin \in Nat /\ MaxClock \in Nat
  BY EventReceiverAssumption, EventTransferAssumption
<1>3. /\ StampsOK(boot, stamps) /\ clock \in 1 .. MaxClock /\ flagged \in BOOLEAN
      /\ \A i \in DOMAIN stamps : stamps[i] <= clock
      /\ Receiving(rx, air, last, reported, rebased, stale, boot, stamps)
  BY DEF InSequence, Clocked
<1>4. PICK c \in 1 .. MaxClock : c = clock' /\ c >= clock
  BY <1>1, <1>2, <1>3
<1>5. \A i \in DOMAIN stamps : stamps[i] <= c
  <2>1. ASSUME NEW i \in DOMAIN stamps PROVE stamps[i] \in 1 .. MaxClock
    <3>1. stamps \in Seq(1 .. MaxClock) /\ i \in 1 .. Len(stamps)
      BY <1>3 DEF StampsOK
    <3>. QED  BY <3>1, ElementOfSeq
  <2>. QED  BY <1>2, <1>3, <1>4, <2>1
<1>6. Clocked'
  BY <1>1, <1>3, <1>4, <1>5 DEF Clocked
<1>. QED  BY <1>1, <1>3, <1>6 DEF InSequence, InOrder, history

LEMMA OtherKeeps ==
  ASSUME InSequence, OtherStationAsks
  PROVE  InSequence' /\ InOrder
<1>1. PICK n \in Kept : air' = Append(air, EventOf(n, stamps[n]))
  BY DEF OtherStationAsks
<1>2. UNCHANGED << rx, vehicle, history >>
  BY DEF OtherStationAsks
<1>3. PICK e : e = EventOf(n, stamps[n])
  OBVIOUS
<1>4. /\ StampsOK(boot, stamps) /\ Clocked
      /\ Receiving(rx, air, last, reported, rebased, stale, boot, stamps)
  BY DEF InSequence
<1>5. n \in DOMAIN stamps /\ n \in 1 .. Count /\ n <= Len(stamps) /\ stamps[n] \in 1 .. MaxClock
  <2>1. /\ n \in DOMAIN stamps /\ stamps \in Seq(1 .. MaxClock) /\ Len(stamps) <= Count
        /\ Len(stamps) \in Nat /\ DOMAIN stamps = 1 .. Len(stamps) /\ Count \in Nat
    BY <1>4, Sizes DEF Kept, StampsOK
  <2>2. stamps[n] \in 1 .. MaxClock
    BY <2>1, ElementOfSeq
  <2>. QED  BY <2>1, <2>2
<1>6. IsEvent(e) /\ e.n = n /\ e.time = stamps[n] /\ e.boot = boot /\ e \in EventMessages
  BY <1>3, <1>4, <1>5, EventOfIs
<1>7. Fresh(e, boot, stamps)
  BY <1>5, <1>6, PlaceIs DEF Fresh, Lying, IsEvent
<1>8. Receiving(rx, Append(air, e), last, reported, rebased, stale, boot, stamps)
  BY <1>4, <1>6, <1>7, ReceivingSends
<1>9. StampsOK(boot, stamps)' /\ Clocked'
  BY <1>2, <1>4 DEF vehicle, StampsOK, Clocked
<1>. QED  BY <1>1, <1>2, <1>3, <1>8, <1>9 DEF InSequence, InOrder, history, vehicle

LEMMA LoseKeeps ==
  ASSUME InSequence, Lose
  PROVE  InSequence' /\ InOrder
<1>1. air # << >> /\ air' = Tail(air) /\ UNCHANGED << rx, vehicle, history >>
  BY DEF Lose
<1>2. /\ StampsOK(boot, stamps) /\ Clocked /\ Ready(rx)
      /\ Receiving(rx, air, last, reported, rebased, stale, boot, stamps)
      /\ air \in Seq(EventMessages) /\ AirOK(air, boot, stamps)
      /\ Follows(air, last, At(rx), rx.lastTime, reported, rebased, stale, boot, stamps)
  BY DEF InSequence, Receiving
<1>3. /\ Tail(air) \in Seq(EventMessages)
      /\ \A i \in DOMAIN Tail(air) : i + 1 \in DOMAIN air /\ Tail(air)[i] = air[i + 1]
  BY <1>1, <1>2, TailOf
<1>4. AirOK(Tail(air), boot, stamps)
  BY <1>1, <1>2, TailAir
<1>5. Follows(Tail(air), last, At(rx), rx.lastTime, reported, rebased, stale, boot, stamps)
  BY <1>1, <1>2, DropHead
<1>6. Receiving(rx, Tail(air), last, reported, rebased, stale, boot, stamps)
  BY <1>2, <1>3, <1>4, <1>5 DEF Receiving
<1>7. StampsOK(boot, stamps)' /\ Clocked'
  BY <1>1, <1>2 DEF vehicle, StampsOK, Clocked
<1>. QED  BY <1>1, <1>6, <1>7 DEF InSequence, InOrder, history, vehicle

(* The beginning. *)
LEMMA InitInSequence == EventInit => InSequence
<1>. SUFFICES ASSUME EventInit PROVE InSequence
  OBVIOUS
<1>1. /\ rx = NewReceiver /\ boot = 1 /\ stamps = << >> /\ clock = 1 /\ flagged = FALSE
      /\ air = << >> /\ last = NothingAccepted /\ reported = 0 /\ rebased = FALSE /\ stale = FALSE
  BY DEF EventInit
<1>2. StampsOK(boot, stamps) /\ Clocked
  <2>1. 1 \in 1 .. MaxClock /\ Count \in Nat
    BY EventTransferAssumption, Sizes
  <2>2. << >> \in Seq(1 .. MaxClock) /\ Len(<< >>) = 0 /\ DOMAIN << >> = {}
    OBVIOUS
  <2>3. StampsOK(1, << >>)
    BY <2>1, <2>2 DEF StampsOK
  <2>4. Clocked
    BY <1>1, <2>1, <2>2 DEF Clocked
  <2>. QED  BY <1>1, <2>3, <2>4
<1>3. Ready(NewReceiver) /\ NewReceiver.hasSequence = FALSE
  BY DEF Ready, NewReceiver, HasFields, ReceiverFields, Flags, Lag, NoReport
<1>4. last.boot = 0 /\ last.n = 0
  BY <1>1 DEF NothingAccepted
<1>5. << >> \in Seq(EventMessages) /\ DOMAIN << >> = {}
  OBVIOUS
<1>6. AirOK(air, boot, stamps)
  BY <1>1, <1>5 DEF AirOK
<1>7. At(rx) = 0
  BY <1>1, <1>3 DEF At
<1>8. Follows(air, last, At(rx), rx.lastTime, reported, rebased, stale, boot, stamps)
  <2>1. 0 \in 0 .. Count /\ 0 \in Nat
    BY Sizes
  <2>2. ~Reachable(air, last, boot)
    BY <1>1, <1>4, <1>5 DEF Reachable
  <2>3. last.boot # boot
    BY <1>1, <1>4
  <2>. QED  BY <1>1, <1>4, <1>5, <1>7, <2>1, <2>2, <2>3 DEF Follows
<1>9. Receiving(rx, air, last, reported, rebased, stale, boot, stamps)
  BY <1>1, <1>3, <1>4, <1>5, <1>6, <1>8 DEF Receiving
<1>. QED  BY <1>2, <1>9 DEF InSequence

--------------------------------------------------------------------------------
(***************************************************************************)
(* Reports.  What the report handler has gathered is the report from its   *)
(* start to the event handled last, if all events between were accepted.   *)
(***************************************************************************)
StartsAt(a, n) ==
  a \in 1 .. n /\ Script[a] = "arming" /\ \A i \in a + 1 .. n : Script[i] # "arming"

Whole(b, a, n, G) == \A i \in a .. n : << b, i >> \in G

ChecksOf(b, a, n) == {<< b, i >> : i \in {j \in a .. n : Script[j] = "check"}}

Gathered(b, a, n) == [arming |-> {<< b, a >>}, checks |-> ChecksOf(b, a, n), health |-> {}]

Building(h, b, n, G) ==
  \A a : StartsAt(a, n) /\ Whole(b, a, n, G) /\ h.expected = "check" =>
           h.building = Gathered(b, a, n)

FullOf(z, G) == {<< z[1], i >> : i \in StartOf(z[2]) .. z[2]} \subseteq G

ShownOK(h, G) == \A z \in h.shown.health : FullOf(z, G) => h.shown = ReportOf(z)

(* The start of a report. *)
LEMMA StartIs ==
  ASSUME NEW n \in 1 .. Count, Script[n] = "health"
  PROVE  StartsAt(StartOf(n), n)
<1>. DEFINE S == {n - a : a \in {i \in 1 .. n : Script[i] = "arming"}}
<1>1. n \in DOMAIN Script /\ n \in Nat
  BY Sizes
<1>2. \E a \in 1 .. n : Script[a] = "arming"
  BY <1>1, EventTransferAssumption
<1>3. S \subseteq Nat /\ S # {}
  BY <1>1, <1>2
<1>4. PICK k \in S : \A j \in S : k <= j
  <2>. HIDE DEF S
  <2>. QED  BY <1>3, LeastNatural
<1>5. PICK a \in 1 .. n : Script[a] = "arming" /\ k = n - a
  BY <1>4
<1>6. \A i \in a + 1 .. n : Script[i] # "arming"
  <2>. SUFFICES ASSUME NEW i \in a + 1 .. n, Script[i] = "arming" PROVE FALSE
    OBVIOUS
  <2>1. n - i \in S /\ n - i < k
    BY <1>1, <1>5
  <2>2. k <= n - i
    BY <1>4, <2>1
  <2>. QED  BY <1>1, <1>5, <2>1, <2>2
<1>. QED  BY <1>5, <1>6 DEF StartOf, StartsAt

(* One more event of a report that has started. *)
LEMMA ReportGrows ==
  ASSUME NEW n \in 1 .. Count, NEW a, StartsAt(a, n), Script[n] # "arming", NEW b, NEW G
  PROVE  /\ StartsAt(a, n - 1) /\ (Whole(b, a, n, G) => Whole(b, a, n - 1, G))
         /\ Script[n] = "check" => ChecksOf(b, a, n) = ChecksOf(b, a, n - 1) \cup {<< b, n >>}
         /\ Script[n] # "check" => ChecksOf(b, a, n) = ChecksOf(b, a, n - 1)
<1>1. a \in 1 .. n /\ a # n /\ n \in Nat /\ a \in Nat
  BY DEF StartsAt
<1>2. a \in 1 .. n - 1 /\ a .. n = (a .. n - 1) \cup {n}
  BY <1>1
<1>3. \A i \in a + 1 .. n - 1 : i \in a + 1 .. n
  BY <1>1
<1>4. StartsAt(a, n - 1)
  BY <1>2, <1>3 DEF StartsAt
<1>5. Whole(b, a, n, G) => Whole(b, a, n - 1, G)
  BY <1>2 DEF Whole
<1>6. /\ Script[n] = "check" => ChecksOf(b, a, n) = ChecksOf(b, a, n - 1) \cup {<< b, n >>}
      /\ Script[n] # "check" => ChecksOf(b, a, n) = ChecksOf(b, a, n - 1)
  BY <1>2 DEF ChecksOf
<1>. QED  BY <1>4, <1>5, <1>6

(* Nothing is gathered before the first event of a boot. *)
LEMMA NothingBuilt ==
  ASSUME NEW h, NEW b, NEW G
  PROVE  Building(h, b, 0, G)
<1>1. \A a : ~StartsAt(a, 0)
  BY DEF StartsAt
<1>. QED  BY <1>1 DEF Building

(* Events that were not accepted, or are no part of a report. *)
LEMMA BuildingCarries ==
  ASSUME NEW h, NEW b, NEW G, NEW n \in Nat, NEW m \in Nat, n <= m, Building(h, b, n, G),
         \A i \in n + 1 .. m : << b, i >> \in G => Script[i] \notin ReportKinds
  PROVE  Building(h, b, m, G)
<1>. SUFFICES ASSUME NEW a, StartsAt(a, m), Whole(b, a, m, G), h.expected = "check"
     PROVE  h.building = Gathered(b, a, m)
  BY DEF Building
<1>1. a \in 1 .. m /\ Script[a] = "arming" /\ a \in Nat
  BY DEF StartsAt
<1>2. << b, a >> \in G
  BY <1>1 DEF Whole
<1>3. a <= n
  BY <1>1, <1>2 DEF ReportKinds
<1>4. StartsAt(a, n) /\ Whole(b, a, n, G)
  <2>1. \A i \in a + 1 .. n : i \in a + 1 .. m
    BY <1>1, <1>3
  <2>2. \A i \in a .. n : i \in a .. m
    BY <1>1, <1>3
  <2>. QED  BY <1>1, <1>3, <2>1, <2>2 DEF StartsAt, Whole
<1>5. h.building = Gathered(b, a, n)
  BY <1>4 DEF Building
<1>6. ChecksOf(b, a, m) = ChecksOf(b, a, n)
  <2>1. \A i \in a .. m : i \in a .. n \/ (i \in n + 1 .. m /\ << b, i >> \in G)
    BY <1>1, <1>3 DEF Whole
  <2>2. \A i \in a .. m : Script[i] = "check" => i \in a .. n
    BY <2>1 DEF ReportKinds
  <2>3. \A i \in a .. n : i \in a .. m
    BY <1>1, <1>3
  <2>. QED  BY <2>2, <2>3 DEF ChecksOf
<1>. QED  BY <1>5, <1>6 DEF Gathered

(* An event that is handled when all before it were. *)
LEMMA CollectBuilds ==
  ASSUME NEW h, "health" \in DOMAIN h.building, NEW e, IsEvent(e), NEW g, Collected(h, e, g),
         NEW G, Building(h, e.boot, e.n - 1, G)
  PROVE  Building(g, e.boot, e.n, G) /\ (g.shown = h.shown \/ ShownOK(g, G))
<1>1. /\ e.n \in 1 .. Count /\ e.kind = Script[e.n] /\ e.tag = << e.boot, e.n >> /\ e.n \in Nat
  BY Sizes DEF IsEvent
<1>2. Building(g, e.boot, e.n, G)
  <2>. SUFFICES ASSUME NEW a, StartsAt(a, e.n), Whole(e.boot, a, e.n, G), g.expected = "check"
       PROVE  g.building = Gathered(e.boot, a, e.n)
    BY DEF Building
  <2>1. CASE e.kind = "arming"
    <3>1. a = e.n
      <4>1. a \in 1 .. e.n /\ \A i \in a + 1 .. e.n : Script[i] # "arming"
        BY DEF StartsAt
      <4>2. a < e.n => e.n \in a + 1 .. e.n
        BY <1>1, <4>1
      <4>3. Script[e.n] = "arming"
        BY <1>1, <2>1
      <4>4. ~(a < e.n)
        BY <4>1, <4>2, <4>3
      <4>. QED  BY <1>1, <4>1, <4>4
    <3>2. ChecksOf(e.boot, e.n, e.n) = {}
      <4>1. \A i \in e.n .. e.n : i = e.n
        BY <1>1
      <4>. QED  BY <1>1, <2>1, <4>1 DEF ChecksOf
    <3>. QED  BY <1>1, <2>1, <3>1, <3>2 DEF Collected, Gathered
  <2>2. CASE e.kind # "arming"
    <3>1. /\ StartsAt(a, e.n - 1) /\ Whole(e.boot, a, e.n - 1, G)
          /\ Script[e.n] = "check" => ChecksOf(e.boot, a, e.n) = ChecksOf(e.boot, a, e.n - 1) \cup {e.tag}
          /\ Script[e.n] # "check" => ChecksOf(e.boot, a, e.n) = ChecksOf(e.boot, a, e.n - 1)
      BY <1>1, <2>2, ReportGrows
    <3>2. h.expected = "check" => h.building = Gathered(e.boot, a, e.n - 1)
      BY <3>1 DEF Building
    <3>3. CASE e.kind = "check" /\ h.expected = "check"
      <4>1. g.building = [h.building EXCEPT !.checks = @ \cup {e.tag}]
        BY <3>3 DEF Collected
      <4>2. h.building = Gathered(e.boot, a, e.n - 1)
        BY <3>2, <3>3
      <4>3. ChecksOf(e.boot, a, e.n) = ChecksOf(e.boot, a, e.n - 1) \cup {e.tag}
        BY <1>1, <3>1, <3>3
      <4>4. \A A, C, t : [[arming |-> A, checks |-> C, health |-> {}] EXCEPT !.checks = @ \cup {t}]
                           = [arming |-> A, checks |-> C \cup {t}, health |-> {}]
        OBVIOUS
      <4>5. PICK C : C = ChecksOf(e.boot, a, e.n - 1)
        OBVIOUS
      <4>6. PICK A : A = {<< e.boot, a >>}
        OBVIOUS
      <4>7. PICK t : t = e.tag
        OBVIOUS
      <4>8. h.building = [arming |-> A, checks |-> C, health |-> {}]
        BY <4>2, <4>5, <4>6 DEF Gathered
      <4>9. g.building = [arming |-> A, checks |-> C \cup {t}, health |-> {}]
        BY <4>1, <4>4, <4>7, <4>8
      <4>. QED  BY <4>3, <4>5, <4>6, <4>7, <4>9 DEF Gathered
    <3>4. CASE e.kind \notin ReportKinds
      <4>1. g.building = h.building /\ h.expected = "check"
        BY <3>4 DEF Collected, SameReport
      <4>. QED  BY <1>1, <3>1, <3>2, <3>4, <4>1 DEF Gathered, ReportKinds
    <3>5. CASE \/ e.kind \in {"health", "otherHealth", "otherArming"}
               \/ e.kind = "check" /\ h.expected # "check"
      <4>1. g.expected = "arming"
        BY <3>5 DEF Collected
      <4>. QED  BY <4>1
    <3>. QED  BY <2>2, <3>3, <3>4, <3>5 DEF ReportKinds
  <2>. QED  BY <2>1, <2>2
<1>3. CASE ~(e.kind = "health" /\ h.expected = "check")
  <2>1. g.shown = h.shown
    BY <1>3 DEF Collected, SameReport, ReportKinds
  <2>. QED  BY <1>2, <2>1
<1>4. CASE e.kind = "health" /\ h.expected = "check"
  <2>1. g.shown = [h.building EXCEPT !.health = {e.tag}]
    BY <1>4 DEF Collected
  <2>2. ASSUME FullOf(e.tag, G) PROVE g.shown = ReportOf(e.tag)
    <3>1. PICK a : a = StartOf(e.n)
      OBVIOUS
    <3>2. StartsAt(a, e.n)
      BY <1>1, <1>4, <3>1, StartIs
    <3>3. Whole(e.boot, a, e.n, G)
      BY <1>1, <2>2, <3>1 DEF FullOf, Whole
    <3>4. /\ StartsAt(a, e.n - 1) /\ Whole(e.boot, a, e.n - 1, G)
          /\ ChecksOf(e.boot, a, e.n) = ChecksOf(e.boot, a, e.n - 1)
      BY <1>1, <1>4, <3>2, <3>3, ReportGrows
    <3>5. h.building = Gathered(e.boot, a, e.n - 1)
      BY <1>4, <3>4 DEF Building
    <3>6. g.shown = [arming |-> {<< e.boot, a >>}, checks |-> ChecksOf(e.boot, a, e.n),
                     health |-> {e.tag}]
      BY <2>1, <3>4, <3>5 DEF Gathered
    <3>. QED  BY <1>1, <3>1, <3>6 DEF ReportOf, ChecksOf
  <2>3. \A z \in g.shown.health : z = e.tag
    BY <2>1
  <2>. QED  BY <1>2, <2>2, <2>3 DEF ShownOK
<1>. QED  BY <1>3, <1>4

(***************************************************************************)
(* The inductive invariant, of the reports.  l is the event accepted last, *)
(* G holds the tags of the events accepted and not thrown away.            *)
(***************************************************************************)
Until(t, l) == t[1] < l.boot \/ (t[1] = l.boot /\ t[2] <= l.n)

Earlier(t, u) == t[1] < u[1] \/ (t[1] = u[1] /\ t[2] < u[2])

(* While there is no metadata, the events of reports are held back.        *)
OnHold(h, l, G) ==
  /\ \A i \in DOMAIN h.pending : Until(h.pending[i].tag, l)
  /\ \A i, j \in DOMAIN h.pending : i < j => Earlier(h.pending[i].tag, h.pending[j].tag)
  /\ \A t \in G : Script[t[2]] \in ReportKinds =>
                    \E i \in DOMAIN h.pending : h.pending[i].tag = t

Reporting(h, l, G, st) ==
  /\ h.pending \in Seq(EventMessages) /\ \A i \in DOMAIN h.pending : IsEvent(h.pending[i])
  /\ G \subseteq Nat \X Nat
  /\ ~h.defined => h.expected = "arming" /\ h.shown = NoReport
  /\ ~st => /\ \A t \in G : Until(t, l)
            /\ h.defined => Building(h, l.boot, l.n, G)
            /\ ~h.defined => OnHold(h, l, G)

Informed == InSequence /\ Reporting(rx, last, got, stale)

LEMMA ReportingStays ==
  ASSUME NEW h, NEW l, NEW G, NEW st, Reporting(h, l, G, st),
         NEW g, SameReport(g, h), g.defined = h.defined, g.pending = h.pending
  PROVE  Reporting(g, l, G, st)
<1>1. Building(h, l.boot, l.n, G) => Building(g, l.boot, l.n, G)
  BY DEF SameReport, Building
<1>2. OnHold(h, l, G) => OnHold(g, l, G)
  BY DEF OnHold
<1>. QED  BY <1>1, <1>2 DEF Reporting, SameReport

(* A later event, when there is metadata. *)
LEMMA ReportingCollects ==
  ASSUME NEW h, NEW l, NEW G, Reporting(h, l, G, FALSE), h.defined, l.boot \in Nat, l.n \in 0 .. Count,
         NEW e, IsEvent(e), l.boot < e.boot \/ (l.boot = e.boot /\ l.n < e.n),
         NEW H, H = G \cup {e.tag}
  PROVE  Building(h, e.boot, e.n - 1, H)
<1>1. /\ e.boot \in Nat /\ e.n \in 1 .. Count /\ e.tag = << e.boot, e.n >> /\ Count \in Nat
  BY Sizes DEF IsEvent
<1>2. /\ G \subseteq Nat \X Nat /\ \A t \in G : Until(t, l)
      /\ Building(h, l.boot, l.n, G)
  BY DEF Reporting
<1>3. \A b, i \in Nat : << b, i >> \in H => << b, i >> = e.tag \/ b < l.boot \/ (b = l.boot /\ i <= l.n)
  BY <1>2 DEF Until
<1>4. CASE l.boot = e.boot
  <2>1. l.n < e.n
    BY <1>1, <1>4
  <2>2. Building(h, e.boot, l.n, H)
    <3>1. ASSUME NEW a, StartsAt(a, l.n), Whole(e.boot, a, l.n, H) PROVE Whole(e.boot, a, l.n, G)
      <4>1. \A i \in a .. l.n : << e.boot, i >> # e.tag
        <5>1. \A i \in a .. l.n : i # e.n
          BY <1>1, <2>1, <3>1 DEF StartsAt
        <5>. QED  BY <1>1, <5>1
      <4>. QED  BY <3>1, <4>1 DEF Whole
    <3>. QED  BY <1>2, <1>4, <3>1 DEF Building
  <2>3. \A i \in l.n + 1 .. e.n - 1 : << e.boot, i >> \notin H
    <3>. TAKE i \in l.n + 1 .. e.n - 1
    <3>1. i \in Nat /\ i # e.n /\ ~(i <= l.n) /\ e.boot = l.boot
      BY <1>1, <1>4
    <3>. QED  BY <1>1, <1>3, <3>1
  <2>4. l.n \in Nat /\ e.n - 1 \in Nat /\ l.n <= e.n - 1
    BY <1>1, <2>1
  <2>. QED  BY <2>2, <2>3, <2>4, BuildingCarries
<1>5. CASE l.boot < e.boot
  <2>1. Building(h, e.boot, 0, H)
    BY NothingBuilt
  <2>2. \A i \in 0 + 1 .. e.n - 1 : << e.boot, i >> \notin H
    <3>. TAKE i \in 0 + 1 .. e.n - 1
    <3>1. i \in Nat /\ i # e.n /\ ~(e.boot < l.boot) /\ e.boot # l.boot
      BY <1>1, <1>5
    <3>. QED  BY <1>1, <1>3, <3>1
  <2>3. 0 \in Nat /\ e.n - 1 \in Nat /\ 0 <= e.n - 1
    BY <1>1
  <2>. QED  BY <2>1, <2>2, <2>3, BuildingCarries
<1>. QED  BY <1>4, <1>5

(* A later event, held back. *)
LEMMA ReportingHolds ==
  ASSUME NEW h, NEW l, NEW G, Reporting(h, l, G, FALSE), ~h.defined, l.boot \in Nat, l.n \in 0 .. Count,
         NEW e \in EventMessages, IsEvent(e), l.boot < e.boot \/ (l.boot = e.boot /\ l.n < e.n),
         NEW m, m.boot = e.boot, m.n = e.n, NEW g
  PROVE  /\ g.pending = << e >> =>
              OnHold(g, m, (G \ {h.pending[i].tag : i \in DOMAIN h.pending}) \cup {e.tag})
         /\ g.pending = Append(h.pending, e) => OnHold(g, m, G \cup {e.tag})
         /\ g.pending = h.pending /\ ~e.toUs => OnHold(g, m, G \cup {e.tag})
<1>1. /\ e.boot \in Nat /\ e.n \in 1 .. Count /\ e.tag = << e.boot, e.n >> /\ Count \in Nat
      /\ (~e.toUs => Script[e.n] = "elsewhere")
  BY Sizes DEF IsEvent
<1>2. /\ h.pending \in Seq(EventMessages) /\ OnHold(h, l, G)
      /\ \A i \in DOMAIN h.pending : IsEvent(h.pending[i])
  BY DEF Reporting
<1>3. ASSUME NEW i \in DOMAIN h.pending
      PROVE  Until(h.pending[i].tag, m) /\ Earlier(h.pending[i].tag, e.tag)
  <2>1. PICK x : x = h.pending[i]
    OBVIOUS
  <2>2. IsEvent(x) /\ Until(x.tag, l)
    BY <1>2, <2>1 DEF OnHold
  <2>3. x.tag = << x.boot, x.n >> /\ x.boot \in Nat /\ x.n \in Nat
    BY <1>1, <2>2 DEF IsEvent
  <2>4. x.boot < l.boot \/ (x.boot = l.boot /\ x.n <= l.n)
    BY <2>2, <2>3 DEF Until
  <2>5. x.boot < e.boot \/ (x.boot = e.boot /\ x.n < e.n)
    BY <1>1, <2>3, <2>4
  <2>6. e.tag[1] = e.boot /\ e.tag[2] = e.n /\ x.tag[1] = x.boot /\ x.tag[2] = x.n
    BY <1>1, <2>3
  <2>. QED  BY <1>1, <2>1, <2>3, <2>5, <2>6 DEF Until, Earlier
<1>4. Until(e.tag, m)
  BY <1>1 DEF Until
<1>5. ASSUME g.pending = << e >>
      PROVE  OnHold(g, m, (G \ {h.pending[i].tag : i \in DOMAIN h.pending}) \cup {e.tag})
  <2>1. DOMAIN g.pending = {1} /\ g.pending[1] = e
    BY <1>5
  <2>2. \A t \in G \ {h.pending[i].tag : i \in DOMAIN h.pending} :
          Script[t[2]] \notin ReportKinds
    BY <1>2 DEF OnHold
  <2>. QED  BY <1>4, <2>1, <2>2 DEF OnHold
<1>6. ASSUME g.pending = Append(h.pending, e) PROVE OnHold(g, m, G \cup {e.tag})
  <2>1. PICK q : q = g.pending
    OBVIOUS
  <2>2. PICK r \in Seq(EventMessages) : r = h.pending
    BY <1>2
  <2>3. /\ Len(r) \in Nat /\ DOMAIN r = 1 .. Len(r) /\ DOMAIN q = 1 .. Len(r) + 1
        /\ q[Len(r) + 1] = e /\ \A i \in DOMAIN r : q[i] = r[i]
    BY <1>6, <2>1, <2>2, AppendOf
  <2>4. \A i \in DOMAIN q : i \in DOMAIN r \/ (i = Len(r) + 1 /\ i \notin DOMAIN r)
    BY <2>3
  <2>5. \A i \in DOMAIN q : Until(q[i].tag, m)
    BY <1>3, <1>4, <2>2, <2>3, <2>4
  <2>6. ASSUME NEW i \in DOMAIN q, NEW j \in DOMAIN q, i < j PROVE Earlier(q[i].tag, q[j].tag)
    <3>1. i \in DOMAIN r
      BY <2>3, <2>6
    <3>2. CASE j \in DOMAIN r
      BY <1>2, <2>2, <2>3, <2>6, <3>1, <3>2 DEF OnHold
    <3>3. CASE j \notin DOMAIN r
      BY <1>3, <2>2, <2>3, <2>4, <3>1, <3>3
    <3>. QED  BY <3>2, <3>3
  <2>7. ASSUME NEW t \in G \cup {e.tag}, Script[t[2]] \in ReportKinds
        PROVE  \E i \in DOMAIN q : q[i].tag = t
    <3>1. CASE t = e.tag
      <4>1. Len(r) + 1 \in DOMAIN q
        BY <2>3
      <4>. QED  BY <2>3, <3>1, <4>1
    <3>2. CASE t \in G
      <4>1. PICK i \in DOMAIN r : r[i].tag = t
        BY <1>2, <2>2, <2>7, <3>2 DEF OnHold
      <4>2. i \in DOMAIN q /\ q[i].tag = t
        BY <2>3, <4>1
      <4>. QED  BY <4>2
    <3>. QED  BY <3>1, <3>2
  <2>. QED  BY <2>1, <2>5, <2>6, <2>7 DEF OnHold
<1>7. ASSUME g.pending = h.pending, ~e.toUs PROVE OnHold(g, m, G \cup {e.tag})
  <2>1. e.tag[2] = e.n
    BY <1>1
  <2>2. Script[e.tag[2]] \notin ReportKinds
    BY <1>1, <1>7, <2>1 DEF ReportKinds
  <2>. QED  BY <1>2, <1>3, <1>7, <2>2 DEF OnHold
<1>. QED  BY <1>5, <1>6, <1>7

(* The tags of the events thrown away, and the report put on show.         *)
Thrown(h, g) == IF g.cleared THEN {h.pending[i].tag : i \in DOMAIN h.pending} ELSE {}

NewlyShown(h, g, H, su) == g.shown = h.shown \/ su \/ ShownOK(g, H)

(* The event accepted next, handled or held back. *)
LEMMA ReportingAccepts ==
  ASSUME NEW h, NEW l, NEW G, NEW st \in BOOLEAN, Reporting(h, l, G, st), Ready(h),
         l.boot \in Nat, l.n \in 0 .. Count,
         NEW e \in EventMessages, IsEvent(e), NEW g, Accepted(h, e, g),
         NEW m, m.boot = e.boot, m.n = e.n,
         NEW su \in BOOLEAN,
         ~su => ~st /\ (l.boot < e.boot \/ (l.boot = e.boot /\ l.n < e.n)),
         NEW H, H = (G \ Thrown(h, g)) \cup {e.tag}
  PROVE  Reporting(g, m, H, su) /\ NewlyShown(h, g, H, su)
<1>1. /\ e.boot \in Nat /\ e.n \in 1 .. Count /\ e.tag = << e.boot, e.n >> /\ Count \in Nat
      /\ e.toUs \in BOOLEAN /\ (e.toUs <=> Script[e.n] # "elsewhere") /\ e.kind = Script[e.n]
  BY Sizes DEF IsEvent
<1>2. /\ h.defined \in BOOLEAN /\ h.cleared = FALSE
      /\ "health" \in DOMAIN h.building
  BY DEF Ready, Flags
<1>3. /\ h.pending \in Seq(EventMessages) /\ \A i \in DOMAIN h.pending : IsEvent(h.pending[i])
      /\ G \subseteq Nat \X Nat
      /\ ~h.defined => h.expected = "arming" /\ h.shown = NoReport
  BY DEF Reporting
<1>4. H \subseteq Nat \X Nat /\ H \subseteq G \cup {e.tag}
  BY <1>1, <1>3
<1>5. ASSUME ~su
      PROVE  /\ Reporting(h, l, G, FALSE) /\ \A t \in G : Until(t, l)
             /\ l.boot < e.boot \/ (l.boot = e.boot /\ l.n < e.n)
  BY <1>5 DEF Reporting
<1>6. ASSUME ~su, NEW t \in H PROVE Until(t, m)
  <2>1. CASE t = e.tag
    BY <1>1, <2>1 DEF Until
  <2>2. CASE t \in G
    <3>1. t[1] \in Nat /\ t[2] \in Nat /\ (t[1] < l.boot \/ (t[1] = l.boot /\ t[2] <= l.n))
      BY <1>3, <1>5, <1>6, <2>2 DEF Until
    <3>. QED  BY <1>1, <1>5, <1>6, <3>1 DEF Until
  <2>. QED  BY <1>4, <1>6, <2>1, <2>2
<1>7. CASE h.defined
  <2>1. Collected(h, e, g) /\ SameEvents(g, h)
    <3>1. CASE e.toUs
      BY <1>7, <3>1 DEF Accepted, Received
    <3>2. CASE ~e.toUs
      <4>1. e.kind = "elsewhere" /\ SameEvents(g, h) /\ SameReport(g, h)
        BY <1>1, <3>2 DEF Accepted
      <4>. QED  BY <4>1 DEF Collected
    <3>. QED  BY <1>1, <3>1, <3>2
  <2>2. g.defined /\ g.pending = h.pending /\ H = G \cup {e.tag}
    BY <1>2, <1>7, <2>1 DEF SameEvents, Thrown
  <2>3. ASSUME ~su PROVE Building(g, e.boot, e.n, H) /\ (g.shown = h.shown \/ ShownOK(g, H))
    <3>1. Building(h, e.boot, e.n - 1, H)
      BY <1>5, <1>7, <2>2, <2>3, ReportingCollects
    <3>. QED  BY <1>2, <2>1, <3>1, CollectBuilds
  <2>. QED  BY <1>3, <1>4, <1>6, <2>2, <2>3 DEF Reporting, NewlyShown
<1>8. CASE ~h.defined
  <2>1. /\ g.defined = FALSE /\ SameReport(g, h)
        /\ \/ g.pending = << e >> /\ g.cleared
           \/ g.pending = Append(h.pending, e) /\ g.cleared = FALSE
           \/ g.pending = h.pending /\ ~e.toUs /\ g.cleared = FALSE
    <3>1. CASE e.toUs
      BY <1>2, <1>8, <3>1 DEF Accepted, Received
    <3>2. CASE ~e.toUs
      BY <1>2, <1>8, <3>2 DEF Accepted, SameEvents
    <3>. QED  BY <1>1, <3>1, <3>2
  <2>2. g.expected = "arming" /\ g.shown = NoReport /\ g.shown = h.shown
    BY <1>3, <1>8, <2>1 DEF SameReport
  <2>3. g.pending \in Seq(EventMessages) /\ \A i \in DOMAIN g.pending : IsEvent(g.pending[i])
    <3>1. CASE g.pending = << e >>
      <4>1. << e >> \in Seq(EventMessages) /\ DOMAIN << e >> = {1} /\ << e >>[1] = e
        OBVIOUS
      <4>. QED  BY <3>1, <4>1
    <3>2. CASE g.pending = Append(h.pending, e)
      <4>1. PICK r \in Seq(EventMessages) : r = h.pending
        BY <1>3
      <4>2. /\ Append(r, e) \in Seq(EventMessages) /\ DOMAIN Append(r, e) = 1 .. Len(r) + 1
            /\ Len(r) \in Nat /\ DOMAIN r = 1 .. Len(r)
            /\ Append(r, e)[Len(r) + 1] = e /\ \A i \in DOMAIN r : Append(r, e)[i] = r[i]
        BY AppendOf
      <4>3. \A i \in DOMAIN Append(r, e) : i \in DOMAIN r \/ i = Len(r) + 1
        BY <4>2
      <4>. QED  BY <1>3, <3>2, <4>1, <4>2, <4>3
    <3>. QED  BY <1>3, <2>1, <3>1, <3>2
  <2>4. ASSUME ~su PROVE OnHold(g, m, H)
    <3>1. /\ g.pending = << e >> =>
               OnHold(g, m, (G \ {h.pending[i].tag : i \in DOMAIN h.pending}) \cup {e.tag})
          /\ g.pending = Append(h.pending, e) => OnHold(g, m, G \cup {e.tag})
          /\ g.pending = h.pending /\ ~e.toUs => OnHold(g, m, G \cup {e.tag})
      BY <1>5, <1>8, <2>4, ReportingHolds
    <3>2. g.cleared => H = (G \ {h.pending[i].tag : i \in DOMAIN h.pending}) \cup {e.tag}
      BY DEF Thrown
    <3>3. g.cleared = FALSE => H = G \cup {e.tag}
      BY DEF Thrown
    <3>. QED  BY <2>1, <3>1, <3>2, <3>3
  <2>. QED  BY <1>4, <1>6, <2>1, <2>2, <2>3, <2>4 DEF Reporting, NewlyShown
<1>. QED  BY <1>2, <1>7, <1>8

(* Up to the next event held back, or the last of all accepted, the events *)
(* between are no part of a report.                                        *)
LEMMA BetweenHeld ==
  ASSUME NEW h, NEW l, NEW G, OnHold(h, l, G), h.pending \in Seq(EventMessages),
         \A i \in DOMAIN h.pending : IsEvent(h.pending[i]),
         NEW i \in DOMAIN h.pending, NEW d, d = h.pending[i],
         NEW b \in Nat, NEW m \in Nat, d.boot < b \/ (d.boot = b /\ d.n <= m),
         \A j \in DOMAIN h.pending : j > i =>
            b < h.pending[j].tag[1] \/ (b = h.pending[j].tag[1] /\ m < h.pending[j].tag[2]),
         NEW k, Building(k, d.boot, d.n, G)
  PROVE  Building(k, b, m, G)
<1>1. d.boot \in Nat /\ d.n \in Nat /\ d.tag = << d.boot, d.n >> /\ d.tag[1] = d.boot /\ d.tag[2] = d.n
  BY Sizes DEF IsEvent
<1>2. DOMAIN h.pending \subseteq Nat
  OBVIOUS
<1>3. ASSUME NEW n \in Nat, d.boot < b \/ n > d.n, n <= m, << b, n >> \in G,
             Script[n] \in ReportKinds
      PROVE  FALSE
  <2>9. PICK t : t = << b, n >>
    OBVIOUS
  <2>1. t = << b, n >> /\ t[1] = b /\ t[2] = n
    BY <2>9
  <2>2. PICK j \in DOMAIN h.pending : h.pending[j].tag = t
    BY <1>3, <2>1 DEF OnHold
  <2>3. CASE j > i
    BY <1>3, <2>1, <2>2, <2>3
  <2>4. CASE j = i
    BY <1>1, <1>3, <2>1, <2>2, <2>4
  <2>5. CASE j < i
    <3>1. Earlier(t, d.tag)
      BY <2>2, <2>5 DEF OnHold
    <3>. QED  BY <1>1, <1>3, <2>1, <3>1 DEF Earlier
  <2>. QED  BY <1>2, <2>3, <2>4, <2>5
<1>4. CASE d.boot = b
  <2>1. \A n \in d.n + 1 .. m : << b, n >> \in G => Script[n] \notin ReportKinds
    BY <1>1, <1>3
  <2>2. d.n <= m
    BY <1>1, <1>4
  <2>. QED  BY <1>1, <1>4, <2>1, <2>2, BuildingCarries
<1>5. CASE d.boot < b
  <2>1. \A n \in 0 + 1 .. m : << b, n >> \in G => Script[n] \notin ReportKinds
    BY <1>3, <1>5
  <2>2. Building(k, b, 0, G) /\ 0 \in Nat /\ 0 <= m
    BY NothingBuilt
  <2>. QED  BY <2>1, <2>2, BuildingCarries
<1>. QED  BY <1>4, <1>5

(* The metadata arrives, and what was held back is handled. *)
LEMMA ReportingReplays ==
  ASSUME NEW h, NEW l, NEW G, NEW st \in BOOLEAN, Reporting(h, l, G, st), Ready(h), ~h.defined,
         l.boot \in Nat, l.n \in 0 .. Count, NEW f, NEW g, Replayed(h, f, g)
  PROVE  Reporting(g, l, G, st) /\ (st \/ ShownOK(g, G))
<1>. DEFINE q == h.pending
            Good(i) == ShownOK(f[i], G) /\ (i >= 1 => Building(f[i], q[i].boot, q[i].n, G))
            S == {i \in Nat : i <= Len(q) => Good(i)}
<1>1. /\ q \in Seq(EventMessages) /\ \A i \in DOMAIN q : IsEvent(q[i])
      /\ G \subseteq Nat \X Nat /\ h.expected = "arming" /\ h.shown = NoReport
      /\ Len(q) \in Nat /\ DOMAIN q = 1 .. Len(q)
  BY DEF Reporting
<1>2. HasFields(h) /\ {"arming", "checks", "health"} \subseteq DOMAIN h.building
  BY DEF Ready
<1>3. /\ f[0].expected = h.expected /\ f[0].shown = h.shown
      /\ \A i \in 1 .. Len(q) : Collected(f[i - 1], q[i], f[i])
      /\ \A i \in 0 .. Len(q) : "health" \in DOMAIN f[i].building
      /\ SameReport(g, f[Len(q)]) /\ g.defined = TRUE /\ g.pending = << >>
  <2>1. Len(h.pending) \in Nat
    BY <1>1
  <2>2. Replays(h, f, g)
    BY <1>2, <2>1, ReplayIs
  <2>. QED  BY <2>2 DEF Replays
<1>4. CASE st
  BY <1>1, <1>3, <1>4 DEF Reporting
<1>5. CASE ~st
  <2>1. OnHold(h, l, G) /\ \A t \in G : Until(t, l)
    BY <1>5 DEF Reporting
  <2>2. \A b, n : Building(f[0], b, n, G)
    BY <1>1, <1>3 DEF Building
  <2>3. Good(0)
    <3>1. f[0].shown.health = {}
      BY <1>1, <1>3 DEF NoReport
    <3>. QED  BY <3>1 DEF ShownOK
  <2>4. ASSUME NEW i \in 0 .. Len(q) - 1, Good(i)
        PROVE  Good(i + 1)
    <3>1. i + 1 \in 1 .. Len(q) /\ i + 1 \in DOMAIN q /\ (i + 1) - 1 = i /\ i \in 0 .. Len(q)
      BY <1>1
    <3>2. PICK e : e = q[i + 1]
      OBVIOUS
    <3>3. /\ IsEvent(e) /\ e.boot \in Nat /\ e.n \in 1 .. Count /\ e.n - 1 \in Nat
          /\ e.tag = << e.boot, e.n >> /\ e.tag[1] = e.boot /\ e.tag[2] = e.n
      <4>1. IsEvent(e) /\ Count \in Nat
        BY <1>1, <3>1, <3>2, Sizes
      <4>. QED  BY <4>1 DEF IsEvent
    <3>4. Building(f[i], e.boot, e.n - 1, G)
      <4>1. CASE i = 0
        BY <2>2, <4>1
      <4>2. CASE i >= 1
        <5>1. i \in DOMAIN q
          BY <1>1, <3>1, <4>2
        <5>2. PICK d : d = q[i]
          OBVIOUS
        <5>3. IsEvent(d) /\ Earlier(d.tag, e.tag) /\ Building(f[i], d.boot, d.n, G)
          <6>1. i < i + 1
            BY <3>1
          <6>. QED  BY <1>1, <2>1, <2>4, <3>1, <3>2, <4>2, <5>1, <5>2, <6>1 DEF OnHold
        <5>4. d.boot < e.boot \/ (d.boot = e.boot /\ d.n <= e.n - 1)
          <6>1. d.boot \in Nat /\ d.n \in Nat /\ d.tag[1] = d.boot /\ d.tag[2] = d.n
            BY <5>3, Sizes DEF IsEvent
          <6>. QED  BY <3>3, <5>3, <6>1 DEF Earlier
        <5>5. ASSUME NEW j \in DOMAIN q, j > i
              PROVE  e.boot < q[j].tag[1] \/ (e.boot = q[j].tag[1] /\ e.n - 1 < q[j].tag[2])
          <6>1. CASE j = i + 1
            BY <3>2, <3>3, <6>1
          <6>2. CASE j # i + 1
            <7>1. i + 1 < j
              BY <1>1, <3>1, <5>5, <6>2
            <7>2. Earlier(e.tag, q[j].tag)
              BY <2>1, <3>1, <3>2, <7>1 DEF OnHold
            <7>3. q[j].tag[1] \in Nat /\ q[j].tag[2] \in Nat
              <8>1. PICK x : x = q[j]
                OBVIOUS
              <8>2. IsEvent(x)
                BY <1>1, <8>1
              <8>. QED  BY <8>1, <8>2, Sizes DEF IsEvent
            <7>. QED  BY <3>3, <7>2, <7>3 DEF Earlier
          <6>. QED  BY <6>1, <6>2
        <5>. QED  BY <1>1, <2>1, <3>3, <5>1, <5>2, <5>3, <5>4, <5>5, BetweenHeld
      <4>. QED  BY <3>1, <4>1, <4>2
    <3>5. Collected(f[i], e, f[i + 1]) /\ "health" \in DOMAIN f[i].building
      BY <1>3, <3>1, <3>2
    <3>6. Building(f[i + 1], e.boot, e.n, G) /\ (f[i + 1].shown = f[i].shown \/ ShownOK(f[i + 1], G))
      BY <3>3, <3>4, <3>5, CollectBuilds
    <3>7. ShownOK(f[i + 1], G)
      BY <2>4, <3>6 DEF ShownOK
    <3>. QED  BY <3>2, <3>6, <3>7
  <2>5. 0 \in S
    BY <2>3
  <2>6. ASSUME NEW i \in Nat, i \in S PROVE i + 1 \in S
    <3>1. CASE i + 1 <= Len(q)
      <4>1. i \in 0 .. Len(q) - 1 /\ i <= Len(q)
        BY <1>1, <3>1
      <4>2. Good(i)
        BY <2>6, <4>1
      <4>3. Good(i + 1)
        <5>. HIDE DEF Good, q
        <5>. QED  BY <2>4, <4>1, <4>2
      <4>. QED  BY <4>3
    <3>2. CASE ~(i + 1 <= Len(q))
      BY <3>2
    <3>. QED  BY <3>1, <3>2
  <2>7. \A i \in Nat : i \in S
    <3>. HIDE DEF S
    <3>. QED  BY <2>5, <2>6, EventInduction
  <2>8. Good(Len(q))
    BY <1>1, <2>7
  <2>9. Building(f[Len(q)], l.boot, l.n, G)
    <3>1. CASE Len(q) = 0
      BY <2>2, <3>1
    <3>2. CASE Len(q) >= 1
      <4>1. Len(q) \in DOMAIN q
        BY <1>1, <3>2
      <4>2. PICK d : d = q[Len(q)]
        OBVIOUS
      <4>3. IsEvent(d) /\ Until(d.tag, l) /\ Building(f[Len(q)], d.boot, d.n, G)
        BY <1>1, <2>1, <2>8, <3>2, <4>1, <4>2 DEF OnHold
      <4>4. d.boot < l.boot \/ (d.boot = l.boot /\ d.n <= l.n)
        <5>1. d.tag[1] = d.boot /\ d.tag[2] = d.n
          BY <4>3 DEF IsEvent
        <5>. QED  BY <4>3, <5>1 DEF Until
      <4>5. \A j \in DOMAIN q : ~(j > Len(q))
        BY <1>1
      <4>6. l.n \in Nat
        BY Sizes
      <4>. QED  BY <1>1, <2>1, <4>1, <4>2, <4>3, <4>4, <4>5, <4>6, BetweenHeld
    <3>. QED  BY <1>1, <3>1, <3>2
  <2>10. Building(g, l.boot, l.n, G) /\ ShownOK(g, G)
    BY <1>3, <2>8, <2>9 DEF SameReport, Building, ShownOK
  <2>11. << >> \in Seq(EventMessages) /\ DOMAIN << >> = {}
    OBVIOUS
  <2>. QED  BY <1>1, <1>3, <2>1, <2>10, <2>11 DEF Reporting
<1>. QED  BY <1>4, <1>5

--------------------------------------------------------------------------------
(***************************************************************************)
(* Every step keeps both, and puts only full reports on show.              *)
(***************************************************************************)
FullShown == rx'.shown # rx.shown /\ ~stale' => ShownOK(rx', got')

(* A step in which no event is accepted. *)
LEMMA QuietStep ==
  ASSUME Reporting(rx, last, got, stale), Ready(rx), NEW g, NEW restarted, NEW rest,
         Step(g, restarted, rest), g.taken = NoEvent, HasFields(g), SameEvents(g, rx),
         SameReport(g, rx), stale' = stale
  PROVE  Reporting(rx', last', got', stale') /\ FullShown
<1>1. rx.cleared = FALSE /\ g.cleared = FALSE
  BY DEF Ready, SameEvents
<1>2. last' = last /\ got' = got
  BY <1>1 DEF Step, Recorded
<1>3. PICK h : h = rx'
  OBVIOUS
<1>4. h = [g EXCEPT !.out = << >>, !.taken = NoEvent, !.lost = 0, !.cleared = FALSE]
  BY <1>3 DEF Step
<1>5. SameReport(h, rx) /\ h.defined = rx.defined /\ h.pending = rx.pending
  BY <1>4 DEF HasFields, ReceiverFields, SameReport, SameEvents
<1>6. Reporting(h, last, got, stale)
  BY <1>5, ReportingStays
<1>. QED  BY <1>2, <1>3, <1>5, <1>6 DEF FullShown, SameReport

LEMMA EventInforms ==
  ASSUME Informed, EventArrives
  PROVE  Reporting(rx', last', got', stale') /\ FullShown
<1>. InSequence /\ Reporting(rx, last, got, stale)
  BY DEF Informed
<1>1. PICK e : e = Head(air)
  OBVIOUS
<1>2. PICK g : g = HandleEvent(rx, e)
  OBVIOUS
<1>3. PICK c : c = CheckTimestampReset(rx, e.time)
  OBVIOUS
<1>4. /\ air # << >> /\ e.msg = "event" /\ Step(g, ~c.hasSequence, Tail(air))
      /\ stale' = (stale \/ (e.boot = last.boot /\ e.n <= last.n /\ ~c.hasSequence))
  BY <1>1, <1>2, <1>3 DEF EventArrives
<1>5. /\ IsEvent(e) /\ Behind(e, last, At(rx), rx.lastTime) /\ e = air[1] /\ 1 \in DOMAIN air
  BY <1>1, <1>4, ArrivalIs
<1>6. /\ Ready(rx) /\ air \in Seq(EventMessages) /\ stale \in BOOLEAN
      /\ last.boot \in Nat /\ last.n \in 0 .. Count
  BY DEF InSequence, Receiving, Follows
<1>7. /\ Handled(g)
      /\ g.taken = NoEvent => Passed(rx, e, g) /\ c.hasSequence
      /\ g.taken # NoEvent => Accepted(rx, e, g) /\ g.taken = e
      /\ c.hasSequence \in BOOLEAN
  BY <1>2, <1>3, <1>5, <1>6, HandleEventIs
<1>8. HasFields(g)
  BY <1>7 DEF Handled
<1>9. CASE g.taken = NoEvent
  BY <1>4, <1>6, <1>7, <1>8, <1>9, QuietStep DEF Passed
<1>10. CASE g.taken # NoEvent
  <2>1. Accepted(rx, e, g) /\ g.taken = e /\ e # NoEvent
    BY <1>7, <1>10
  <2>3. last' = [boot |-> e.boot, n |-> e.n] /\ got' = (got \ Thrown(rx, g)) \cup {e.tag}
    BY <1>4, <2>1 DEF Step, Recorded, Thrown
  <2>4. PICK m : m = last'
    OBVIOUS
  <2>5. m.boot = e.boot /\ m.n = e.n
    BY <2>3, <2>4
  <2>6. PICK su \in BOOLEAN : su = stale'
    BY <1>4, <1>6
  <2>7. e \in EventMessages
    BY <1>5, <1>6, ElementOfSeq
  <2>8. ~su => ~stale /\ (last.boot < e.boot \/ (last.boot = e.boot /\ last.n < e.n))
    <3>. SUFFICES ASSUME ~su PROVE ~stale /\ (last.boot < e.boot \/ (last.boot = e.boot /\ last.n < e.n))
      OBVIOUS
    <3>1. ~stale /\ ~(e.boot = last.boot /\ e.n <= last.n /\ ~c.hasSequence)
      BY <1>4, <2>6
    <3>2. last.boot <= e.boot /\ e.boot \in Nat /\ e.n \in 1 .. Count
      BY <1>5 DEF Behind, IsEvent
    <3>3. e.boot = last.boot => e.n > last.n
      BY <1>1, <1>2, <1>3, <1>4, <1>5, <1>10, <3>1, AcceptedInOrder
    <3>. QED  BY <1>6, <3>1, <3>2, <3>3
  <2>9. PICK H : H = (got \ Thrown(rx, g)) \cup {e.tag}
    OBVIOUS
  <2>10. Reporting(g, m, H, su) /\ NewlyShown(rx, g, H, su)
    <3>1. PICK h : h = rx
      OBVIOUS
    <3>2. PICK l : l = last
      OBVIOUS
    <3>3. PICK G : G = got
      OBVIOUS
    <3>4. PICK st \in BOOLEAN : st = stale
      BY <1>6
    <3>5. /\ Reporting(h, l, G, st) /\ Ready(h) /\ l.boot \in Nat /\ l.n \in 0 .. Count
          /\ Accepted(h, e, g) /\ H = (G \ Thrown(h, g)) \cup {e.tag}
          /\ ~su => ~st /\ (l.boot < e.boot \/ (l.boot = e.boot /\ l.n < e.n))
      BY <1>6, <2>1, <2>8, <2>9, <3>1, <3>2, <3>3, <3>4
    <3>6. Reporting(g, m, H, su) /\ NewlyShown(h, g, H, su)
      BY <1>5, <2>5, <2>7, <3>5, ReportingAccepts
    <3>. QED  BY <3>1, <3>6
  <2>11. PICK h : h = rx'
    OBVIOUS
  <2>12. h = [g EXCEPT !.out = << >>, !.taken = NoEvent, !.lost = 0, !.cleared = FALSE]
    BY <1>4, <2>11 DEF Step
  <2>13. SameReport(h, g) /\ h.defined = g.defined /\ h.pending = g.pending
    BY <1>8, <2>12 DEF HasFields, ReceiverFields, SameReport
  <2>14. Reporting(h, m, H, su)
    BY <2>10, <2>13, ReportingStays
  <2>15. h.shown = rx.shown \/ su \/ ShownOK(h, H)
    BY <2>10, <2>13 DEF SameReport, ShownOK, NewlyShown
  <2>16. H = got'
    BY <2>3, <2>9
  <2>. QED  BY <2>4, <2>6, <2>11, <2>14, <2>15, <2>16 DEF FullShown
<1>. QED  BY <1>9, <1>10

LEMMA MessageInforms ==
  ASSUME Informed, CurrentArrives \/ ErrorArrives \/ TimerFires
  PROVE  Reporting(rx', last', got', stale') /\ FullShown
<1>. InSequence /\ Reporting(rx, last, got, stale) /\ Ready(rx)
  BY DEF Informed, InSequence, Receiving
<1>1. CASE CurrentArrives
  <2>1. PICK m : m = Head(air)
    OBVIOUS
  <2>2. PICK g : g = HandleCurrentEventSequence(rx, m)
    OBVIOUS
  <2>3. /\ air # << >> /\ m.msg = "current" /\ Step(g, m.reset \/ ~rx.hasSequence, Tail(air))
        /\ stale' = stale
    BY <1>1, <2>1, <2>2 DEF CurrentArrives
  <2>4. IsCurrent(m)
    BY <2>1, <2>3, ArrivalIs
  <2>5. Handled(g) /\ g.taken = NoEvent /\ SameEvents(g, rx) /\ SameReport(g, rx)
    BY <2>2, <2>4, HandleCurrentIs
  <2>. QED  BY <2>3, <2>5, QuietStep DEF Handled
<1>2. CASE ErrorArrives
  <2>1. PICK m : m = Head(air)
    OBVIOUS
  <2>2. PICK g : g = HandleEventError(rx, m)
    OBVIOUS
  <2>3. air # << >> /\ m.msg = "error" /\ Step(g, FALSE, Tail(air)) /\ stale' = stale
    BY <1>2, <2>1, <2>2 DEF ErrorArrives
  <2>4. IsError(m) /\ rx.hasSequence
    BY <2>1, <2>3, ArrivalIs
  <2>5. Handled(g) /\ g.taken = NoEvent /\ SameEvents(g, rx) /\ SameReport(g, rx)
    BY <2>2, <2>4, HandleErrorIs
  <2>. QED  BY <2>3, <2>5, QuietStep DEF Handled
<1>3. CASE TimerFires
  <2>1. PICK g : g = TimerEvent(rx)
    OBVIOUS
  <2>2. Step(g, FALSE, air) /\ rx.timer /\ stale' = stale
    BY <1>3, <2>1 DEF TimerFires
  <2>3. Handled(g) /\ g.taken = NoEvent /\ SameEvents(g, rx) /\ SameReport(g, rx)
    BY <2>1, <2>2, TimerIs
  <2>. QED  BY <2>2, <2>3, QuietStep DEF Handled
<1>. QED  BY <1>1, <1>2, <1>3

LEMMA MetadataInforms ==
  ASSUME Informed, MetadataArrives
  PROVE  Reporting(rx', last', got', stale') /\ FullShown
<1>. InSequence /\ Reporting(rx, last, got, stale) /\ Ready(rx)
  BY DEF Informed, InSequence, Receiving
<1>1. PICK g : g = SetMetadata(rx)
  OBVIOUS
<1>2. Step(g, FALSE, air) /\ stale' = stale /\ ~rx.defined
  BY <1>1 DEF MetadataArrives
<1>3. /\ stale \in BOOLEAN /\ last.boot \in Nat /\ last.n \in 0 .. Count
      /\ rx.pending \in Seq(EventMessages)
  BY DEF InSequence, Receiving, Follows, Reporting
<1>4. Len(rx.pending) \in Nat
  BY <1>3
<1>5. PICK f : Replayed(rx, f, g)
  BY <1>1, <1>4, SetMetadataTurns
<1>6. Reporting(g, last, got, stale) /\ (stale \/ ShownOK(g, got))
  BY <1>2, <1>3, <1>5, ReportingReplays
<1>7. HasFields(g) /\ SameSequence(g, rx) /\ g.cleared = rx.cleared
  <2>1. HasFields(rx) /\ {"arming", "checks", "health"} \subseteq DOMAIN rx.building
    BY DEF Ready
  <2>2. Replays(rx, f, g)
    BY <1>4, <1>5, <2>1, ReplayIs
  <2>. QED  BY <2>2 DEF Replays
<1>8. g.taken = NoEvent /\ g.cleared = FALSE
  BY <1>7 DEF Ready, SameSequence
<1>9. last' = last /\ got' = got
  BY <1>2, <1>8 DEF Step, Recorded
<1>10. PICK h : h = rx'
  OBVIOUS
<1>11. h = [g EXCEPT !.out = << >>, !.taken = NoEvent, !.lost = 0, !.cleared = FALSE]
  BY <1>2, <1>10 DEF Step
<1>12. SameReport(h, g) /\ h.defined = g.defined /\ h.pending = g.pending
  BY <1>7, <1>11 DEF HasFields, ReceiverFields, SameReport
<1>13. Reporting(h, last, got, stale)
  BY <1>6, <1>12, ReportingStays
<1>14. stale \/ ShownOK(h, got)
  BY <1>6, <1>12 DEF SameReport, ShownOK
<1>. QED  BY <1>2, <1>9, <1>10, <1>13, <1>14 DEF FullShown

LEMMA InformedStep ==
  ASSUME Informed, EventNext
  PROVE  Informed' /\ InOrder /\ FullShown
<1>. InSequence /\ Reporting(rx, last, got, stale)
  BY DEF Informed
<1>1. Len(rx.pending) \in Nat
  BY DEF Reporting
<1>2. CASE EventArrives
  BY <1>2, EventKeeps, EventInforms DEF Informed
<1>3. CASE CurrentArrives
  BY <1>3, CurrentKeeps, MessageInforms DEF Informed
<1>4. CASE ErrorArrives
  BY <1>4, ErrorKeeps, MessageInforms DEF Informed
<1>5. CASE TimerFires
  BY <1>5, TimerKeeps, MessageInforms DEF Informed
<1>6. CASE MetadataArrives
  BY <1>1, <1>6, MetadataKeeps, MetadataInforms DEF Informed
<1>7. CASE Vehicle \/ Lose
  <2>1. UNCHANGED << rx, history >>
    BY <1>7 DEF Vehicle, VehicleEmits, VehicleBroadcasts, VehicleReboots, TimePasses,
                OtherStationAsks, Lose
  <2>2. InSequence' /\ InOrder
    BY <1>7, EmitsKeeps, BroadcastsKeeps, RebootsKeeps, TimeKeeps, OtherKeeps, LoseKeeps DEF Vehicle
  <2>. QED  BY <2>1, <2>2 DEF Informed, FullShown, history
<1>. QED  BY <1>2, <1>3, <1>4, <1>5, <1>6, <1>7 DEF EventNext, Ground

LEMMA InitInformed == EventInit => Informed
<1>. SUFFICES ASSUME EventInit PROVE Informed
  OBVIOUS
<1>1. InSequence
  BY InitInSequence
<1>2. rx = NewReceiver /\ got = {} /\ stale = FALSE
  BY DEF EventInit
<1>3. /\ NewReceiver.pending = << >> /\ NewReceiver.defined = FALSE
      /\ NewReceiver.expected = "arming" /\ NewReceiver.shown = NoReport
  BY DEF NewReceiver
<1>4. << >> \in Seq(EventMessages) /\ DOMAIN << >> = {}
  OBVIOUS
<1>5. OnHold(NewReceiver, last, {})
  BY <1>3, <1>4 DEF OnHold
<1>6. Reporting(NewReceiver, last, {}, FALSE)
  BY <1>3, <1>4, <1>5 DEF Reporting
<1>. QED  BY <1>1, <1>2, <1>6 DEF Informed

LEMMA InformedStutters ==
  ASSUME Informed, UNCHANGED eventVars
  PROVE  Informed'
BY DEF eventVars, vehicle, history, Informed, InSequence, StampsOK, Clocked

(***************************************************************************)
(* What is accepted and what was reported since belong to the receiver's   *)
(* place (InSequence), what is gathered or held back to what was accepted  *)
(* (Reporting).                                                            *)
(***************************************************************************)
THEOREM EventsInSequence == EventSpec => []Informed
<1>1. EventInit => Informed
  BY InitInformed
<1>2. Informed /\ [EventNext]_eventVars => Informed'
  BY InformedStep, InformedStutters
<1>. QED  BY <1>1, <1>2, PTL DEF EventSpec

(***************************************************************************)
(* ReceiveProtocol: events of a boot are accepted once each and in order,  *)
(* those left out between two of them are those reported as lost, unless   *)
(* the sequence was taken up anew; as long as an event is known to be      *)
(* missing the timer runs.                                                 *)
(***************************************************************************)
THEOREM GapsReported == EventSpec => GapsAreReported
<1>1. Informed /\ [EventNext]_eventVars =>
        [/\ LagIsTimed'
         /\ last' # last /\ last'.boot = last.boot /\ ~stale' =>
               /\ last'.n > last.n
               /\ ~rebased => last'.n = last.n + 1 + reported]_eventVars
  <2>. SUFFICES ASSUME Informed, EventNext
       PROVE  LagIsTimed' /\ InOrder
    BY DEF InOrder
  <2>1. Informed' /\ InOrder
    BY InformedStep
  <2>2. Lag(rx')
    BY <2>1 DEF Informed, InSequence, Receiving, Ready
  <2>. QED  BY <2>1, <2>2 DEF LagIsTimed, Lag
<1>. QED  BY <1>1, EventsInSequence, PTL DEF EventSpec, GapsAreReported

(***************************************************************************)
(* HealthAndArmingCheckHandler: a report put on show is what the vehicle   *)
(* sent between its two summaries, if all of it was accepted, also when it *)
(* was held back until the metadata was there.                             *)
(***************************************************************************)
THEOREM FullReports == EventSpec => ReportsAreFull
<1>1. Informed /\ [EventNext]_eventVars =>
        [rx'.shown # rx.shown /\ ~stale' =>
           \A z \in rx'.shown.health :
               {<< z[1], i >> : i \in StartOf(z[2]) .. z[2]} \subseteq got'
                  => rx'.shown = ReportOf(z)]_eventVars
  <2>. SUFFICES ASSUME Informed, EventNext
       PROVE  FullShown
    BY DEF FullShown, ShownOK, FullOf
  <2>. QED  BY InformedStep
<1>. QED  BY <1>1, EventsInSequence, PTL DEF EventSpec, ReportsAreFull

================================================================================
