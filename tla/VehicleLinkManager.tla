--------------------------- MODULE VehicleLinkManager ---------------------------
(***************************************************************************)
(* The links of one vehicle: which of them are heard from, which one is    *)
(* the primary link that everything is sent on, and whether communication  *)
(* with the vehicle is lost.                                               *)
(*                                                                         *)
(* Time is abstracted to the set of links not heard from for longer than   *)
(* _heartbeatMaxElpasedMSecs.  _rgLinkInfo is a set, so which of several   *)
(* equally good links comes first in it is left open.  Left out: speech,   *)
(* messages, names, RADIO_STATUS (it changes nothing), other vehicles.     *)
(***************************************************************************)

CONSTANTS
  Links,
  NoLink,
  UsbDirect,     \* serial links straight to the board
  HighLatency    \* links configured as high latency

ASSUME VehicleLinkAssumption ==
  /\ NoLink \notin Links
  /\ UsbDirect \subseteq Links /\ HighLatency \subseteq Links

VARIABLES
  connected,      \* the links the LinkManager has
  silent,         \* those not heard from for too long
  open,           \* there is a Vehicle
  rgLinkInfo,     \* its links
  commLost,       \* those of them flagged as lost
  primaryLink,
  checking,       \* _commLostCheckTimer is active
  communicationLost,
  communicationLostEnabled,
  autoDisconnect,
  controlPending, \* CONTROL_HIGH_LATENCY waits in the command list
  control,        \* history: last control sent on a link since it was added
  chosen,         \* history: the link named by the user since the last update
  untold          \* history: high latency links whose last control was refused,
                  \* or that the user made or unmade the primary link since it

settings == <<communicationLostEnabled, autoDisconnect>>
vars == <<connected, silent, open, rgLinkInfo, commLost, primaryLink, checking,
          communicationLost, settings, controlPending, control, chosen, untold>>

Controls == {"none", "start", "stop"}

NoVehicle ==
  /\ open = FALSE
  /\ rgLinkInfo = {} /\ commLost = {} /\ primaryLink = NoLink /\ checking = FALSE
  /\ communicationLost = FALSE /\ communicationLostEnabled = TRUE /\ autoDisconnect = FALSE
  /\ controlPending = FALSE /\ control = [link \in HighLatency |-> "none"] /\ chosen = NoLink
  /\ untold = {}

Init == connected \in SUBSET Links /\ silent = {} /\ NoVehicle

--------------------------------------------------------------------------------
(* _bestActivePrimaryLink: a USB link, else one of normal latency, else    *)
(* the high latency link in use, else another one.                         *)
BestActivePrimaryLink(primary, infos, lost) ==
  LET active == infos \ lost
      usb    == active \cap UsbDirect
      normal == active \ HighLatency
  IN  IF usb # {} THEN usb
      ELSE IF normal # {} THEN normal
      ELSE IF primary \in HighLatency THEN {primary}
      ELSE active

(* Mutant of StillValid: the best link is looked for every time. *)
NeverValid(primary, infos, lost) == FALSE

StillValid(primary, infos, lost) == primary \in infos \ (lost \cup HighLatency)

UpdatedPrimaryLinks(primary, infos, lost) ==
  LET best == BestActivePrimaryLink(primary, infos, lost)
  IN  IF StillValid(primary, infos, lost) \/ (best = {} /\ primary \in infos) THEN {primary}
      ELSE IF best = {} THEN {NoLink}
      ELSE best

(* Mutant of SwitchControls: the link that is left is not stopped. *)
SwitchControlsWithoutStop(from, to, known) ==
  LET due  == IF from = to THEN {} ELSE {to} \cap HighLatency
      sent == IF controlPending THEN {} ELSE due
  IN  /\ control' = [link \in HighLatency |-> IF link \in sent THEN "start" ELSE known[link]]
      /\ controlPending' = (controlPending \/ due # {})
      /\ untold' = ((untold \ sent) \cup (due \ sent)) \cap rgLinkInfo'

(* CONTROL_HIGH_LATENCY goes out on the link that is primary at the time,  *)
(* unless one is pending: then sendMavCommand refuses it as a duplicate,   *)
(* as it does the second of a switch that makes two.                       *)
SwitchControls(from, to, known) ==
  LET due  == IF from = to THEN {} ELSE {from, to} \cap HighLatency
      sent == IF controlPending THEN {} ELSE IF from \in due THEN {from} ELSE due
  IN  /\ control' = [link \in HighLatency |->
            IF link \notin sent THEN known[link] ELSE IF link = to THEN "start" ELSE "stop"]
      /\ controlPending' = (controlPending \/ due # {})
      /\ untold' = ((untold \ sent) \cup (due \ sent)) \cap rgLinkInfo'

(* _updatePrimaryLink, for the links of the next state. *)
UpdatePrimaryLink(primary, known) ==
  /\ primaryLink' \in UpdatedPrimaryLinks(primary, rgLinkInfo', commLost')
  /\ SwitchControls(primary, primaryLink', known)
  /\ chosen' = NoLink

(* Mutant of AddLink: the check timer is not started. *)
AddLinkWithoutTimer(link) ==
  /\ rgLinkInfo' = rgLinkInfo \cup {link}
  /\ UNCHANGED <<commLost, communicationLost, settings, checking>>
  /\ UpdatePrimaryLink(primaryLink, [l \in HighLatency |-> IF l = link THEN "none" ELSE control[l]])

(* _addLink *)
AddLink(link) ==
  /\ rgLinkInfo' = rgLinkInfo \cup {link}
  /\ checking' = (checking \/ rgLinkInfo = {})
  /\ UNCHANGED <<commLost, communicationLost, settings>>
  /\ UpdatePrimaryLink(primaryLink, [l \in HighLatency |-> IF l = link THEN "none" ELSE control[l]])

(* Mutant of CommRegainedOnLink: the primary link is left as it is. *)
CommRegainedOnly(link) ==
  /\ commLost' = commLost \ {link}
  /\ communicationLost' = (communicationLost /\ commLost' # {})
  /\ UNCHANGED <<rgLinkInfo, checking, settings, primaryLink, control, controlPending, chosen, untold>>

(* _commRegainedOnLink *)
CommRegainedOnLink(link) ==
  /\ commLost' = commLost \ {link}
  /\ communicationLost' = (communicationLost /\ commLost' # {})
  /\ UNCHANGED <<rgLinkInfo, checking, settings>>
  /\ UpdatePrimaryLink(primaryLink, control)

(* mavlinkMessageReceived *)
MessageReceived(link) ==
  /\ open /\ link \in connected
  /\ silent' = silent \ {link}
  /\ UNCHANGED <<connected, open>>
  /\ \/ link \notin rgLinkInfo /\ AddLink(link)
     \/ link \in commLost /\ CommRegainedOnLink(link)
     \/ /\ link \in rgLinkInfo \ commLost
        /\ UNCHANGED <<rgLinkInfo, commLost, primaryLink, checking, communicationLost, settings,
                       controlPending, control, chosen, untold>>

(* A heartbeat of a vehicle there is no Vehicle for. *)
NewVehicle(link) ==
  /\ ~open /\ link \in connected
  /\ open' = TRUE
  /\ silent' = silent \ {link}
  /\ UNCHANGED connected
  /\ AddLink(link)

(* allLinksRemoved: the Vehicle is deleted with all its state. *)
VehicleGone ==
  /\ open' = FALSE
  /\ rgLinkInfo' = {} /\ commLost' = {} /\ primaryLink' = NoLink /\ checking' = FALSE
  /\ communicationLost' = FALSE /\ communicationLostEnabled' = TRUE /\ autoDisconnect' = FALSE
  /\ controlPending' = FALSE /\ control' = [link \in HighLatency |-> "none"] /\ chosen' = NoLink
  /\ untold' = {}

(* closeVehicle: links no other vehicle refers to are disconnected. *)
CloseVehicle ==
  /\ open
  /\ connected' = connected \ rgLinkInfo
  /\ silent' = silent \ rgLinkInfo
  /\ VehicleGone

NewlyLost == (rgLinkInfo \cap silent) \ HighLatency

(* _commLostCheck.  Nothing is sent that matters once the vehicle closes. *)
CommLostCheck ==
  LET lost  == commLost \cup NewlyLost
      total == rgLinkInfo \subseteq lost
  IN  /\ open /\ checking /\ communicationLostEnabled
      /\ \/ total /\ ~communicationLost /\ autoDisconnect /\ CloseVehicle
         \/ /\ ~(total /\ ~communicationLost /\ autoDisconnect)
            /\ commLost' = lost
            /\ communicationLost' = (communicationLost \/ total)
            /\ UNCHANGED <<connected, silent, open, rgLinkInfo, checking, settings>>
            /\ UpdatePrimaryLink(primaryLink, control)

(* _linkDisconnected, and _removeLink. *)
LinkDisconnected(link) ==
  /\ link \in connected
  /\ connected' = connected \ {link}
  /\ silent' = silent \ {link}
  /\ \/ /\ link \notin rgLinkInfo
        /\ UNCHANGED <<open, rgLinkInfo, commLost, primaryLink, checking, communicationLost, settings,
                       controlPending, control, chosen, untold>>
     \/ rgLinkInfo = {link} /\ VehicleGone
     \/ /\ link \in rgLinkInfo /\ rgLinkInfo # {link}
        /\ rgLinkInfo' = rgLinkInfo \ {link}
        /\ commLost' = commLost \ {link}
        /\ UNCHANGED <<open, checking, communicationLost, settings>>
        /\ UpdatePrimaryLink(IF primaryLink = link THEN NoLink ELSE primaryLink, control)

SetPrimaryLinkByName(link) ==
  /\ open /\ link \in rgLinkInfo
  /\ primaryLink' = link /\ chosen' = link
  /\ untold' = IF link = primaryLink THEN untold ELSE untold \cup ({primaryLink, link} \cap HighLatency)
  /\ UNCHANGED <<connected, silent, open, rgLinkInfo, commLost, checking, communicationLost, settings,
                 controlPending, control>>

SetCommunicationLostEnabled(enabled) ==
  /\ open /\ communicationLostEnabled' = enabled
  /\ UNCHANGED <<connected, silent, open, rgLinkInfo, commLost, primaryLink, checking,
                 communicationLost, autoDisconnect, controlPending, control, chosen, untold>>

(* The firmware upgrade page sets autoDisconnect. *)
SetAutoDisconnect ==
  /\ open /\ autoDisconnect' = TRUE
  /\ UNCHANGED <<connected, silent, open, rgLinkInfo, commLost, primaryLink, checking,
                 communicationLost, communicationLostEnabled, controlPending, control, chosen,
                 untold>>

(* The control is acked, or nobody waits for its ack any longer. *)
ControlAnswered ==
  /\ controlPending /\ controlPending' = FALSE
  /\ UNCHANGED <<connected, silent, open, rgLinkInfo, commLost, primaryLink, checking,
                 communicationLost, settings, control, chosen, untold>>

LinkVars == <<open, rgLinkInfo, commLost, primaryLink, checking, communicationLost, settings,
              controlPending, control, chosen, untold>>

LinkConnects(link) ==
  /\ link \notin connected
  /\ connected' = connected \cup {link}
  /\ UNCHANGED <<silent, LinkVars>>

LinkFallsSilent(link) ==
  /\ link \in connected
  /\ silent' = silent \cup {link}
  /\ UNCHANGED <<connected, LinkVars>>

--------------------------------------------------------------------------------
LinkEvent(link) ==
  \/ MessageReceived(link) \/ NewVehicle(link) \/ LinkDisconnected(link)
  \/ LinkConnects(link) \/ LinkFallsSilent(link) \/ SetPrimaryLinkByName(link)

Event ==
  \/ \E link \in Links : LinkEvent(link)
  \/ CommLostCheck
  \/ CloseVehicle
  \/ \E enabled \in BOOLEAN : SetCommunicationLostEnabled(enabled)
  \/ SetAutoDisconnect

Next == ControlAnswered \/ Event

Spec == Init /\ [][Next]_vars

(* The check timer fires every second. *)
FairSpec == Spec /\ WF_vars(CommLostCheck)

--------------------------------------------------------------------------------
TypeOK ==
  /\ connected \subseteq Links /\ silent \subseteq connected
  /\ rgLinkInfo \subseteq connected /\ commLost \subseteq rgLinkInfo
  /\ primaryLink \in rgLinkInfo \cup {NoLink} /\ chosen \in rgLinkInfo \cup {NoLink}
  /\ open = (rgLinkInfo # {}) /\ checking = open
  /\ communicationLost \in BOOLEAN /\ communicationLostEnabled \in BOOLEAN
  /\ autoDisconnect \in BOOLEAN /\ controlPending \in BOOLEAN
  /\ control \in [HighLatency -> Controls] /\ untold \subseteq rgLinkInfo \cap HighLatency

Active == rgLinkInfo \ commLost

(* As long as some link is alive a live one is the primary link, and one   *)
(* of high latency only as long as there is none better, except between a  *)
(* choice of the user and the next update (_updatePrimaryLink,             *)
(* _bestActivePrimaryLink).                                                *)
PrimaryIsBest ==
  Active # {} =>
    \/ chosen # NoLink /\ primaryLink = chosen
    \/ /\ primaryLink \in Active
       /\ primaryLink \in HighLatency \ UsbDirect => Active \subseteq HighLatency \ UsbDirect

(* VehicleLinkManagerTest.cc:226, "Comm regained on 1 should leave 2 as    *)
(* primary": a live link of normal latency is only given up for a choice   *)
(* of the user, never for a better one.                                    *)
NoNeedlessSwitch ==
  [][ (primaryLink \in Active \ HighLatency /\ primaryLink' # primaryLink) =>
        (chosen' # NoLink \/ primaryLink \notin Active') ]_vars

SilentOnAllLinks ==
  /\ open /\ communicationLostEnabled
  /\ rgLinkInfo \subseteq (silent \cup commLost) \ HighLatency

(* When all links are silent that is noticed, whichever of them were lost  *)
(* or removed before (_commLostCheck, _addLink).                           *)
LossIsNoticed == SilentOnAllLinks ~> (communicationLost \/ ~SilentOnAllLinks)

(* VehicleLinkManagerTest.cc:291 and :307: a high latency link transmits   *)
(* while it is the primary link and then only.  A control refused, because *)
(* another is pending, or a choice of the user, which sends none, misleads *)
(* the one or two links it was for, until their next control, and no other *)
(* (_updatePrimaryLink, setPrimaryLinkByName).                             *)
HighLatencyFollows ==
  \A link \in (rgLinkInfo \cap HighLatency) \ untold :
    control[link] = "start" <=> link = primaryLink
================================================================================
