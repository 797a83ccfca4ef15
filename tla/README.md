# Formal models of QGroundControl

QGroundControl is a ground control station for MAVLink vehicles.  This directory
holds TLA+ models of the parts of it that talk to vehicles over links that lose,
delay and repeat messages: what they do is decided by timers, retries and the
order in which callbacks happen to run, which the unit tests hardly vary.

The application's own code is `src/src`; paths below are relative to it.
Components in bold in the table below are modelled.  `PROJECT.json` maps every definition to the lines it translates, and lists the
runs, their properties, the hazards behind them and the theorems.

## 1. The system

Everything modelled here runs in the main thread's event loop: a handler (of a
message, a timer or a click) runs to its end before the next.  So an action is a
whole handler with all the calls it makes.  What interleaves is the *order* of
handlers, and between two of them anything may happen: that is where the state
kept from one to the next goes stale.

| component | state it keeps | operations | hard because | correct if |
|---|---|---|---|---|
| **Plan transfer**: `PlanManager`, `MissionManager`, fence and rally managers (`MissionManager/`) | transaction, awaited ack, retry count, indices to read and to write, items read, items to write | load, write, remove, guided item, resume; four message handlers; ack timeout | one timer guards every wait, several early returns after it was stopped; repeated requests are answered twice | no transaction is left without its timer; reads are whole and in order; a write reported sent is on the vehicle; each transaction signals its own end once |
| **Simulated vehicle**: `MockLinkMissionItemHandler` (`comm/`) | items, write progress, failure mode | six message handlers | failure modes of the unit tests | (environment of the above) |
| **Command queue**: `Vehicle::sendMavCommand` | list of commands with tries and ages | submit, ack, 500 ms check | retries, give-up, duplicates and late acks race | each caller is told once; commands outside the retry list are sent once; an ack has one command it can be for |
| **`Vehicle::requestMessage`** | raw pointers to request infos; one wait slot | request, ack result, message, timeout of the slot | ack and message in either order; one slot for all requesters | one answer each, with the message asked for; none forgotten; no freed info used |
| **`VehicleLinkManager`** | links of a vehicle, which are lost, the primary link, flags, check timer | message on a link, link gone, 1 s check, choice of the user, close | the primary link is kept from before the links changed | the primary link is the best live one; loss is noticed, and ends; high latency links transmit only while primary |
| **`MultiVehicleManager`**, link reference counts | vehicles, those being deleted, active vehicle, availability flags, 20 ms timers, references of links | first heartbeat, close, disconnect, choose, two timers | a closed vehicle lives on for 20 ms and hears messages | listed vehicles are reachable, active one is listed, closed ones are deleted once, links go with their last vehicle |
| **`FTPManager`**, **`MockLinkFTP`** | state machine, session, expected sequence number and offset, holes | download, cancel, five ack handlers, timeouts | lost packets in a burst, 16-bit sequence numbers, stopped timers | file is whole or an error is reported; always ends; one `downloadComplete` |
| **`InitialConnectStateMachine`**, `StateMachine` | current step | nine steps, each waiting for a callback | built on `requestMessage`, `ParameterManager`, plan loads | every step is done once, in order; the last is reached |
| **`ParameterManager`** | waiting lists of reads and writes per component, retry counts, one timer | load, refresh, write, `PARAM_VALUE` handler, timeouts, cache | values in any order, repeated, during a write | all parameters or an error; a write is confirmed by its own answer |
| **`PlanMasterController`** and the plan element controllers | which of the three transfers is next, dirty flags | load, send, remove all from vehicle | completion signals of three managers chain; failures in between | fence follows mission, rally follows fence, none is skipped, overlapped or left half done |
| mission index caching (`MissionManager::_updateMissionIndex`, heartbeat handler) | current, cached and last index | `MISSION_CURRENT`, heartbeat | two message streams, mode switches | resume index is the last flown |
| `LinkManager`, link classes | links, configurations, channels | create, connect, disconnect, auto-connect | OS threads, failures to open | channels given back |
| **`LogDownloadController`** | list of logs, table of bins of a chunk, flags, one timer | list, save, erase, cancel; two message handlers; timer | late and repeated answers, the vehicle may change, the page may be left, the disk may fail | files and lists are the vehicle's; transfers end; loss detection, off meanwhile, comes back |
| **`ComponentInformationManager`**, **`ComponentInformationCache`** | the type and the file at hand, their URIs; files on disk with their access counters | request all; the answer, a download, an error; hit, insert, evict, start | one cache and one temporary directory for all vehicles, a fallback for each file, crashes between two steps of an insertion | each type is given its vehicle's metadata; the cache agrees with its disk, within its limit, and evicts the least recently used |
| **`EventHandler`**, `events::ReceiveProtocol` (`libs/libevents`), **`HealthAndArmingCheckHandler`** | sequence numbers received and broadcast, one timer, events held back, two reports | three messages, timer, arrival of the metadata | loss, repetition and reboots behind 16-bit numbers; events before their metadata | once each and in order, gaps reported; reports whole; catches up |
| `TerrainProtocolHandler`, `ImageProtocolManager`, `MAVLinkLogManager` | bit maps of blocks and chunks | one protocol each | as for FTP | data complete or reported missing |
| Facts, plan items, firmware plugins, telemetry, camera, video, joystick, setup pages, maps, UI | values, geometry, views | editing, decoding, display | mostly data | – |

Interactions.  Link threads queue bytes to `MAVLinkProtocol`, which emits
`vehicleHeartbeatInfo` (to `MultiVehicleManager`, which makes a `Vehicle`) and
then `messageReceived` (to every `Vehicle` object, closed ones included).
`Vehicle::_mavlinkMessageReceived` filters by system id and hands the message in
this order to `VehicleLinkManager`, `FTPManager`, `ParameterManager`, the wait
slot of `requestMessage`, the command queue (`COMMAND_ACK`), and by signal to
`PlanManager`.  Everything sent goes out on `primaryLink`, a weak pointer that
`VehicleLinkManager` moves; a send without a link is silently dropped.
`VehicleLinkManager::allLinksRemoved` starts the two-phase deletion in
`MultiVehicleManager`, which gives link references back, which may disconnect a
link, which other vehicles notice.  The connect sequence of a new vehicle and the
Plan view share the three plan managers of a vehicle; a log download switches the loss
detection of `VehicleLinkManager` off.  Component information is one step of the connect
sequence: it uses `requestMessage` and `FTPManager`, the parameters wait for its end, and
the events held back by `EventHandler` for its file.

## 2. Modules

| module | models | extends / instantiates |
|---|---|---|
| `MissionProtocol` | items and messages of the mission protocol, renumbering of jumps and items | |
| `PlanManager` | `PlanManager.cc`, and the guided item and the resume mission of `MissionManager.cc`: one action per call, handler and timeout | `MissionProtocol` |
| `PlanTransaction` | the promise to callers: one transaction at a time, each ending with exactly one completion, its own | |
| `PlanManagerOpen` | `PlanManager` against a vehicle that may send any mission message at any moment | `PlanManager`, instance of `PlanTransaction` |
| `PlanManagerProofs` | theorems about it | `PlanManagerOpen` |
| `MissionItemHandler` | the simulated vehicle, with its failure modes | `MissionProtocol` |
| `PlanTransfer` | both ends and a FIFO link that loses and delays | `PlanManager`, `MissionItemHandler` |
| `MavCommand` | the command queue of `Vehicle.cc` | |
| `RequestMessage` | `requestMessage` on top of the queue: infos, the slot, both callbacks | `MavCommand` |
| `RequestMessageProofs` | theorems about the queue and the requests | `RequestMessage` |
| `VehicleLinkManager` | `VehicleLinkManager.cc` for one vehicle, and the making and closing of that vehicle | |
| `MultiVehicleManager` | `MultiVehicleManager.cc`, link references, and which vehicle holds which link | |
| `MultiVehicleProofs` | theorems about it | `MultiVehicleManager` |
| `FtpProtocol` | requests, acks and naks, sequence numbers | |
| `FtpManager` | `FTPManager.cc`: one operator per call, handler and timeout on a record of the manager | `FtpProtocol` |
| `FtpServer` | `MockLinkFTP.cc` with its error modes | `FtpProtocol` |
| `FileDownload` | the promise to callers: a download that starts ends with one completion, the whole file or an error | |
| `FtpTransfer` | both ends over a FIFO link that loses and delays and a station that loses its link | `FtpManager`, `FtpServer`, instance of `FileDownload` |
| `InitialConnect` | `InitialConnectStateMachine.cc`, `StateMachine.cc` and the slots of `Vehicle.cc` that advance it, with what the plan managers are doing | |
| `PlanMaster` | `PlanMasterController.cc` and what the mission, fence and rally controllers do for it | `InitialConnect` |
| `PlanSequence` | several vehicles, some of them connecting, the Plan view and the Fly view on the same managers | `PlanMaster` |
| `PlanSequenceProofs` | theorems about it | `PlanSequence` |
| `ParameterManager` | `ParameterManager.cc`: the three waiting lists, both timers, the cache | |
| `ParameterTransfer` | it and the simulated vehicle's parameters over a link that loses, delays and goes | `ParameterManager` |
| `ParameterProofs` | theorems about it | `ParameterTransfer` |
| `LogDownload` | `LogDownloadController.cc` on a record of the controller | |
| `LogTransfer` | it, vehicles with logs, the Analyze page and its user, links that lose and delay | `LogDownload` |
| `LogProofs` | theorems about it | `LogTransfer` |
| `EventReceiver` | `ReceiveProtocol`, `EventHandler` and `HealthAndArmingCheckHandler` on one record | |
| `EventTransfer` | it and a vehicle that numbers, keeps and repeats its events, and reboots | `EventReceiver` |
| `VehicleProofs` | theorems about a vehicle's links and about its events | `VehicleLinkManager`, `EventTransfer` |
| `ComponentInformationCache` | `ComponentInformationCache.cc` on a record of the disk and the map | |
| `ComponentInformation` | `ComponentInformationManager.cc` with `CompInfoGeneral.cc`: one operator per state and callback | `ComponentInformationCache` |
| `MetadataTransfer` | several vehicles that share the cache, downloads, crashes | `ComponentInformation` |
| `MetadataProofs` | theorems about it | `MetadataTransfer` |
| `MCPlanManagerOpen`, `MCPlanTransfer`, `MCMultiVehicleManager`, `MCFtpTransfer`, `MCPlanSequence`, `MCParameterTransfer`, `MCLogTransfer`, `MCEventTransfer`, `MCMetadataTransfer` | finite plans, files, vehicles, messages, events, firmwares | the module each is named for |

How state corresponds.

* Names are those of the code without the leading underscore
  (`expectedAck` is `_expectedAck`).  Lists that are searched by content are sets,
  or functions on ids given in the order of submission (`commandList`); Vehicle
  objects are numbers in the order they are made, because two objects may have
  the same system id; the list of vehicles, which only ever grows at its end, is
  the set of their numbers, its first element the smallest.
* Timers are a flag (`timerActive`, `checking`) or a queue of equal delays
  (`timers`); a running timer may fire at any moment.  Elapsed times are counts of
  the firings that look at them (`age`), or the set of links past their limit
  (`silent`).
* What a step sends or signals is a variable of that step alone (`outbox`,
  `emitted`, `results`, `replies`), or a field of the record (`sent`, `completed`,
  `out`).
* In the modules where one handler calls through several others (`FtpManager`,
  `InitialConnect`, `PlanMaster`, `ParameterManager`, `LogDownload`, `EventReceiver`,
  `ComponentInformation` and its cache) an object is a
  record, a function of the code is an operator from record to record, and the
  composing module takes one such step per event.
* History variables, marked as such in the modules, are read by properties only:
  `served`, `stable`, `prompt`, `answered`, `dropped`, `transmitted`, `replied`,
  `alone`, `control`, `chosen`, `untold`, `heardDying`; `asked`, `repairable`,
  `numbersSlip`, `lateCancel`, `unnumbered`, `malformed` (files); `heard`,
  `disturbed`, `hindered`, `uploadTo`, `givenUpFor`, `noted`, `switched` (plans; `refused`
  too); `edited`, `overtaken`, `writesFailed` (parameters); `left`, `stale`, and
  `saved`, `torn`, `refused`, `cut` of the record (logs); `last`, `reported`, `rebased`, `got`,
  `stale`, `basis`, and `taken`, `lost`, `cleared` of the record (events); `used`,
  `discarded`, and `given`, `failed`, `used`, `discarded` of the record (metadata).  Most say that something the code is
  known not to cope with has happened, so that a property can be stated without it and
  one run can hold both the calm and the rough case.  (`dropped` is also in the
  code's favour: a command without a link is in no list.)
* Definitions named as *mutants* in a comment are plausible mistakes in the
  definition they follow.  No specification uses them; each shows that a property
  can fail, see `mutants` in `PROJECT.json`.

## 3. Runs

Passing runs.

| run | configuration | shows |
|---|---|---|
| `any_vehicle` | `PlanManagerOpen.cfg` | Whatever mission messages come, in any order: a transaction, its timer and its connection come and go together; items read and indices still wanted are a partition of the plan; sent and unsent items cover it; `sendComplete` means every item was sent; an error-free read has items 0..n-1 once each; and every step is a step of `PlanTransaction`. |
| `plan_link` | `PlanTransfer.cfg` | With the vehicle's handler in any failure mode, losses and delay: a successful read of a plan that stayed as it was gives all its items once, each as the vehicle has it, and every transaction ends. As long as no timer fired with a message still under way, the read is in order, a plan reported written is the plan on the vehicle, and one reported removed is gone. |
| `requests` | `RequestMessage.cfg` | Two calls, at once or in turn, requests of messages and a command that is never to be repeated, to two components, any acks (early, late, repeated), a link that comes and goes: every command is exactly one of waiting, answered, dropped for want of a link; none outside the retry list is sent again; no callback touches a deleted info, nobody is answered twice; every command ends; and if requesters wait for each other each is answered, with the message it asked for. |
| `vehicle_links` | `VehicleLinks.cfg` | A USB link, a radio and a satellite link that connect, fall silent, are heard again and go, with all settings and choices of the user: the primary link is the best live one, is not given up for a better one while it is good, total silence is noticed, and the satellite link transmits exactly while it is primary, unless its last control was refused because another was pending or the user made or unmade it the primary link since. |
| `vehicles` | `MultiVehicle.cfg` | Two system ids and two shared links: listed vehicles are reachable and distinct, neither the active vehicle nor the next is a deleted object, the active one is listed once the timers have fired, every closed vehicle is deleted; references are exact and no object is queued twice unless a closed one is heard or closed again. |
| `ftp` | `FtpTransfer.cfg` | Downloads, cancellations, bad URIs, a lost packet and a lost link in any order: bytes written plus holes are the file so far; a completion without error means the whole file asked for, and there is one for each start, unless one of the four things happened that the code does not survive (below); what repeated requests can mend is mended; every download ends, the same four apart. Sequence numbers wrap within the run. |
| `plan_sequence` | `PlanSequence.cfg` | Three events of users, vehicles and links in any order against the answers and ends of transactions of two vehicles, one of them connecting: the connect sequence keeps its order and always has something to come that takes it further; fence and rally points are sent each after the element before, to the vehicle meant; the flags of the Plan view are about transactions under way; edits are replaced only if the user gave them up, the fence also on a request its controller noted by itself. The connected vehicle has no fence, the connecting one every element. |
| `parameters` | `ParameterTransfer.cfg` | Two components, lossy and missing answers, a link that goes or becomes one of high latency, reads, writes, streams, refreshes and a reload from disk: what is reported complete is, waits have their timer, every timeout uses up a try that only users or new components give back, and a write reaches the vehicle or is reported as failed unless another value of the same name overtook it. |
| `logs` | `LogTransfer.cfg` | An ArduPilot vehicle with two logs, one longer than a chunk, and another vehicle with two, one of them empty, that refuses requests for part of its list: a file reported downloaded has every bin of its log and no log chosen is left waiting; a list has an entry for every log, shows what is on board and passes over nothing in silence; loss detection is off for the vehicle that is busy and those left in mid-transfer, no others; transfers end. |
| `events` | `EventTransfer.cfg` | A vehicle sends an arming report with an event for another station in the middle, reboots, repeats events for others; messages and requests are lost and come late, the metadata comes at any moment: events are accepted once and in order and what is left out is reported as lost; while one is known to be missing the timer runs; a report on show is exactly what the vehicle sent if its events were accepted; the receiver catches up. Numbers wrap within the run. |
| `component_info` | `MetadataTransfer.cfg` | Two vehicles with either of two firmwares connect three times in all, and share a cache too small for both; downloads are refused, fail, strand, do not inflate or overwrite each other, vehicles go, the program ends or dies within an insertion: map, count and disk of the cache agree; what is evicted was used before all that stays, over restarts too; each type is given its vehicle's metadata, its fallback or nothing; and there is something to wait for until all are done. |

One run shows the code contradicting what it says of itself (the finding in
`PROJECT.json` quotes the line).

| run | what happens |
|---|---|
| `ftp_hangs` | The last data packet before the end of the file is lost: the nak that follows has an unexpected number, is ignored after the timer was stopped, and the download neither ends nor times out. |

Seen while modelling and kept in the models without a run of their own:

* a write to a vehicle that is not sent the home position keeps the items as
  renumbered for the vehicle (`PlanManager.cc:91`), so a read of the same plan gives
  other jump targets: `AsRead` says what a read makes of an item;
* answers do not name the transaction they belong to: a count or an item that comes
  after its read has failed is taken for an answer to the next read, also when the plan on
  the vehicle has been replaced in between (`PlanManager.cc:327`, `:430`): `stable` asks
  that no such answer is under way;
* a repeated `CLEAR_ALL` is acked twice, and the second ack fails the next write
  with `VehicleAckError` (`PlanManager.cc:546`): hence the `prompt` in the
  properties of writes and removals;
* an entry's elapsed timer is started once (`Vehicle.cc:3090`), so the third try
  follows the second after 500 ms, not after an ack timeout; `age` never restarts;
* a command submitted without a link has no result at all (`Vehicle.cc:2974`): the
  set `dropped`;
* a request whose ack comes first is never freed (`Vehicle.h:1293` says it is):
  `freed` in `CmdResults`;
* `communicationLost` ends only when no link is lost, not when one is regained
  (`VehicleLinkManager.cc:85`);
* a late item of a first answer is taken for the one requested last: the list is out of
  order, and `ItemMismatchError`, documented for it, is raised nowhere
  (`PlanManager.cc:430`): the `prompt` in `ReadHasVehicleItems`;
* a second `requestMessage` that fails as a duplicate clears the only wait slot, and the
  first handler is never called (`Vehicle.cc:3180`); and the ack of one request starts
  the timeout of another's slot: when that expires, the message that happened to
  arrive is kept, and later reported without a failure (`:3272`): `alone`;
* after two switches in close succession the stop command is refused as a duplicate of
  the unacked start, and the satellite link goes on transmitting
  (`VehicleLinkManager.cc:309`): `untold` has such a link until its next control;
* a link is lost, another added, the lost one removed: every link is alive and
  `communicationLost` stays true (`VehicleLinkManager.cc:216`);
* a closed vehicle that is heard again within 20 ms and loses that link, or is closed again,
  is queued for deletion, and deleted, twice (`MultiVehicleManager.cc:193`):
  `ClosedAreDeletedOnce` states what is left;
* a closed vehicle heard again takes a link reference that nobody gives back
  (`VehicleLinkManager.cc:177`): `heardDying` in `ReferencesAreHeld`.  A message with system
  id 0 is enough: every Vehicle takes it (`Vehicle.cc:678`);
* removing a vehicle leaves `activeVehicleAvailable` and
  `parameterReadyVehicleAvailable` wrong (`MultiVehicleManager.cc:251`, `:327`); a
  vehicle chosen and closed within 20 ms is deleted while it is shown (`:297`);
* files: a bad URI leaves the state machine filled, and every later download is refused
  (`FTPManager.cc:54`, `malformed`); a cancellation after the end completes the download a
  second time (`:86`, `lateCancel`); a request made without a link uses up no number, so
  that the reply to the one before passes for its own (`:597`, `unnumbered`); the burst
  handler stops the timer before it ignores replies (`:339`, `numbersSlip`);
* the connect sequence: it stalls if a step asks a manager that is busy writing, which
  refuses silently (`InitialConnectStateMachine.cc:302`, `PlanManager.cc:132`), or has no
  link when it asks for the parameters (`hindered`); the first load of an element, whoever
  asked, advances the machine at whatever step it is (`Vehicle.cc:2329`, `disturbed`); the
  protocol version step asks for `AUTOPILOT_VERSION` (`InitialConnectStateMachine.cc:224`);
* the Plan view: flags and `_itemsRequested` survive a change of vehicle in the middle of a
  transfer (`switched`); `sendComplete(error)` is ignored, so fence and rally points follow
  a mission that failed; a manager that is busy leaves the upload stalled with its flags
  set (`refused`); `_showPlanFromManagerVehicle` ends the initial plan request of a vehicle
  at an early step of its connect (`PlanMasterController.cc:610`); a removal that fails
  leaves the mission's `_itemsRequested` set (`MissionController.cc:2251`); a switch to a
  vehicle whose first load is under way leaves the plan of the vehicle before on view, clean,
  as if it were the new one's (`:2324`); the fence controller, told to
  show the plan of the new vehicle, notes a request before it looks whether the first load is
  still to come (`GeoFenceController.cc:390`, against "Load was specifically requested" in
  `:346`), so that load replaces a fence the user has edited since (`noted`);
* parameters: a refresh after the load starts no timer (`ParameterManager.cc:467`);
  `_HASH_CHECK` stops the timer of the first request (`:239`, `:262`), and if everything
  after it is lost nobody asks again; any value of a name ends the wait for its write and
  replaces the edit (`:318`, `overtaken`); an index queued for one component is taken for
  queued for all (`:606`); an index given up after the load is not reported;
* logs: a change of vehicle during a transfer leaves flags, timer and a pointer to a
  deleted entry behind (`LogDownloadController.cc:127`): requests go on to the new vehicle,
  and without one the setters dereference null (`:659`, `:670`); leaving the page, or
  changing the vehicle, in the middle switches loss detection of that vehicle off for good
  (`left`); a bin is marked received before its place is looked for and it is written, so a failure
  of either leaves a hole in a file reported downloaded (`:345`, `torn`), and of the first not
  even a status, so that a log may be left waiting (`:351`, `refused`); an empty log, one whose entry never came
  and one that was erased are asked for for ever (`:58`, `NothingToSend`); one file that
  cannot be created ends the download of all (`:415`, `refused`); a list of which the first
  entry is lost is given up at once, without repeating the request (`:292`); `_apmOneBased`
  is never reset, so the list of a vehicle after an ArduPilot one is shifted (`:162`,
  `BaseFits`); answers to a cancelled list request fill the list asked for after an erase
  (`stale`); a dialog that asks whether to erase, or where to save, outlives a change of
  vehicle, and the answer goes to the new one (`:690`);
* events: a reboot that neither the flag of a broadcast nor a timestamp gave away leaves the
  receiver with the numbers of the former boot, in step with nothing (`receive.cpp:34`,
  `basis # boot`); an event repeated for another station after the margin is taken for a
  reboot, and what follows is accepted again (`stale`); the report handler goes by kinds alone
  and shows a report of which events were lost (`HealthAndArmingChecks.cc:35`, `got`); above
  50 events without metadata all are thrown away, in the middle of a report
  (`EventHandler.cc:61`);
* component information: files are deleted at the end by the CRC of the metadata alone, so a
  cached translation goes with metadata that has none (`ComponentInformationManager.cc:456`),
  and until the program is started again each insertion of it returns the name of a file that
  is not there (`ComponentInformationCache.cc:83`, `discarded`); a crash before the `.meta`
  file leaves a file that is no entry: downloaded each time, never replaced, never evicted
  (`:90`); temporary files are named by what they are on the server, so downloads of two
  vehicles write to one, and no CRC is verified before it is cached under it (`Mixed`); a
  redirection that cannot be followed ends without a signal, and the connect sequence waits
  for ever (`QGCFileDownload.cc:79`, `stranded`).

### Bounds

| bound | value | why it is enough |
|---|---|---|
| `MaxRetryCount` (of `any_vehicle`), `MaxRetry`, `MaxIndexRetry`, `MaxReadWriteRetry`, `MaxRequestRetry`, `ListRetries` | 1 (2 to 5 in the code) | each counter is compared in one place; first, last and no retry all happen. The theorems hold for any value. |
| `Plans`, `InitialPlan` | up to 3 items, a jump among them | first, middle and last index differ; a jump target moves |
| `VehicleMessages` | every message kind, indices in and out of range, wrong plan types | all branches of the handlers |
| `MaxCalls` (transfers) | 3 | leftovers of one transaction reach the next, and the one after it: a read that fails, a write, a read that could take the first one's late answers |
| `MaxRetryCount`, `SendsHome`, failure modes (transfers) | 0, false, 9 | 0 means one retry, since the code compares before it counts; jump targets move only without the home position; the modes that keep silent are left to losses. The theorems are about any of them. |
| `MaxLosses` | 1 | with one retry a second loss exhausts the retries as silence does |
| `MaxCalls` (requests) | 2 | two for the same component and command, or one beside the other; two contenders for one slot |
| `MaxTries`, `AckTimeout`, `MessageTimeout` | 2, 1, 1 | first and last try; late and not yet late |
| `Links` | 3 | one of each kind. A change from one high latency link to another happens only by choice of the user, or after the first was removed; the theorems hold for any number of them. |
| `MaxVehicles` | 3 objects | two ids and a second object of one of them |
| `MaxTimers` | 2 | one timer of each kind in either order, or two deletions at once. It bounds what may be *started*; timers always fire. |
| `SeqRange`, `Starts`, `CountMod` | 64, 56, 1024 (2^16, any, 2^32) | numbers wrap in the middle of the second burst; half the range still exceeds what can be on the way |
| `DataSize`, `BurstMax`, `Size` | 2 bytes, 3 packets (239, 9); 0 and two bursts | first, middle, last and short packets; a hole at each place |
| `MaxEvents` (files, plans, logs) | 3 | an upset, a call that meets what it left, and one more |
| `MaxEvents` (parameters) | 2, beside failure modes of the vehicle | an upset during the load, and one that meets it |
| `Count` | 2 and 1 parameters | a gap of an index, and a component that is not the autopilot's |
| failures of the disk (`Disks`) | one a file | a bin not written, or a file left open, in first, middle and last place |
| `TableBins` | 2 (512) | a log of 3 bins has a second chunk that is short; one of 2 ends with the chunk |
| `SeqRange`, `FirstSeq` (events) | 16, 14 (2^16, any) | numbers wrap within a report; the receiver is never half the range behind, which is assumed by name |
| `Script`, `BufferSize` | a report of 3 and an event for another, 2 kept | summary, check and summary; some events are gone when asked for. No summary of another id (`otherArming`, `otherHealth`): the theorems allow them anywhere. |
| `MaxClock`, `TimeMargin` | 3, 1 | before, within and past the margin; a boot ends before timestamps wrap (49 days), which is assumed by name |
| `MaxPending` | 1 (50) | two are held back, a third throws them away |
| `MaxUpsets` (events, metadata) | 2 | an upset and one more in what it left: a loss and a reboot, a crash and a stranded download |
| `MaxNumFiles`, firmwares | 5 (50), 2 with 6 files | the cache overflows, by one. An entry is then never evicted between its use and the end of the request, which 50 files exclude too. |
| `MaxConnects` | 3 | two at once and one that meets what they left |
| `MaxInFlight` | 1; 2 for events | data packets, or repeated requests, do not pile up; answers already on the way are not limited by it |

`MaxTimers`, `MaxVehicles` and `MaxInFlight` are guards, as are the counters of calls,
events and losses, so no behaviour is cut off in the middle.

### Deadlock

Checked in `any_vehicle`, `requests`, `vehicle_links` and `vehicles`.  The other systems stop
when users have made all their calls and the last message is delivered; that they do not
stop too early is what `TransactionEnds`, `DownloadEnds`, `ConnectNeverStalls`,
`WaitsEnd`, `TransfersEnd`, `CatchesUp` and `MetadataIsGiven` are for.

### Fairness

* `FairTransferSpec` of plans, files and logs: the timer fires if it runs (`QTimer`), a
  message that is not lost arrives, and a vehicle sends what it was asked for.  Users and
  losses owe nothing.
* `FairTransferSpec` of events: what is on the way arrives, and the vehicle goes on
  broadcasting its latest number.  The timer is not needed and not assumed.
* `RequestMessage!FairSpec`: the 500 ms check fires; the constructor starts the timer and
  nothing stops it.  No ack is assumed.  Also, some unrelated message keeps coming.  The code
  looks at the timeout of the slot only when a message arrives; a vehicle sends
  heartbeats.
* `VehicleLinkManager!FairSpec`: the one-second check fires while its timer runs.
* `MultiVehicleManager!FairSpec`: the 20 ms single-shot timers fire.

All are weak fairness of steps the event loop takes on its own.  The plan sequence, the
parameters and component information state progress without fairness: that something is
always to come which takes the sequence further, and a measure that every timeout decreases.

## 4. Theorems

Proved by TLAPS for every value of the constants, from the named assumptions only.

**`PlanManagerProofs`** (from `PlanManagerAssumption`, `MessagesAssumption`: the
constants have their types, messages are well formed).  The inductive invariant is
`TypeOK /\ TransactionIsGuarded /\ ReadPartition /\ WritePartition /\
ReadStartsEmpty`.  `ReadStartsEmpty` (a read that has no count yet has no items) is
the strengthening: without it a count would start a partition over leftovers of an
earlier read.  Each handler's early returns are cases: it leaves the transaction
guarded or ends it through `_finishTransaction`, about which there is one lemma.
Consequences: `Invariance`, `TypeCorrect`, `Guarded`, `Partitioned`, the action
properties `WritesAreSent` and `ReadsAreWhole` (together `ItemsAreCarried`, theorem
`Carried`), and `Refinement`: `PlanManager`
implements `PlanTransaction`.

The second half joins the manager to the vehicle of `PlanTransfer` (from `TransferAssumption`:
types, and one plan type), for any plans, retries, failure modes and losses and any
number of calls.  `TInv` adds to the invariant above:

* `AnswersFit`: while the plan on the vehicle is `stable`, each count and item under way is what
  the vehicle holds; `ReadSoFar` says so of what has been read.  With the partition of the
  indices, a read that is complete has every item of the vehicle once: `ReadsMatch`
  (`ReadHasVehicleItems`), however late the answers.
* `OneUnderWay`: on a prompt link at most one message of the transaction is under way, it
  is the last, and it is the request for what the manager waits for, or its answer.  So items
  come in order (`ReadInOrder`), the vehicle asks for item 0 first (`ServedFromZero`), and what
  it holds while it asks is what it has been given so far (`Holds`): `WritesMatch`
  (`PromptPlanIsOnVehicle`).
* `Possible`: a vehicle that misnumbers its answer to a request never gives the item of that
  number.  In these modes nothing is in order, but the transaction cannot succeed
  (`Misread`, `Misasked`).

The proof found that the property stated before was too strong: with three transactions, which
no run had, a read is given another plan's late answers.  That is in `stable` now, and in the
run.

**`RequestMessageProofs`** (from `MavCommandAssumption`, `RequestMessageAssumption`), in two
parts.  Of the queue by itself, any submissions and acks: the invariant joins the type
invariant, `EachCallIsAccounted`, `AcksAreUnambiguous` and `TransmissionsAreTries`,
which says that a waiting command has been transmitted, at most as often as it was
tried, and that only submitted commands have; `NoDelayedCommand` needs it to
bound transmissions by tries.  Theorems: `TypeCorrect`, `Accounted`,
`Unambiguous`, `ToldOnce`, `NeverDelayed`.

For any number of requesters, messages and limits besides: `QueueIsKept` shows that
`RequestMessage` implements the
queue's specification, each step a step of the queue or a stutter, so the theorems above
hold with requesters at work: `RequestsAccounted`, `RequestsNeverDelayed`.  The invariant
`RInv` joins the queue's, `TypeOK`, and of the requesters: the slot is empty or of one who has
no answer, whose message has not come, and it asks for that message (`Held`); a request in the
command list has neither ack nor answer (`Awaiting`); and as long as requesters waited for
each other, one at most has no answer, the message it holds, if any, is the right one, and the
timeout of the slot runs since its own ack (`Single`).  The last is why a wait that ends with
another message is then answered at once as a failure, and never kept as the message asked
for.  Two lemmas, `MessageReceived` and `ResultsTaken`, say what the two callbacks
keep of it; an ack calls one after the other.  Theorems: `RequestsInvariance` and `RightReplies`
(`OneRightReplyEach`), which hold under `FairSpec` too, since it implies `Spec`.

**`VehicleProofs`**, the links (from `VehicleLinkAssumption`).  The invariant is `TypeOK`,
`PrimaryIsBest` and that no high latency link is ever flagged as lost, without
which `_bestActivePrimaryLink` could keep a lost one.  `TypeOK` relates state: the
check timer runs exactly while the vehicle has links, and the primary link is one
of them.  Theorems: `TypeCorrect`, `Best` and the action property `Steady`
(`NoNeedlessSwitch`), for any set of links of any kinds.  `Steady` follows from what
one lemma says of an update: it keeps a live link of normal latency.
`LatencyFollows` states `HighLatencyFollows`, with no assumption on when controls are
answered or what the user chooses: a high latency link transmits exactly while it is the primary
link, but for those in `untold`.  A link comes to be in that set when a control that was due for it was
refused because another was pending, or when the user makes or unmakes it the primary link, which
sends nothing; it leaves the set with the next control that is sent on it.  So one refused
control misleads the vehicle about that link only, whatever is refused or answered before
and after.  The property is inductive, given the invariant: `UpdateFollows` says of an update that
each link due is either told or in the set.

**`VehicleProofs`**, the events (from `EventReceiverAssumption`, `EventTransferAssumption`), for
any script of events, any first number and any size of the vehicle's buffer, and any number of
reboots, losses and repeats.  A sequence number is that of one place of the script at most
(`Position`), so that `Distance` turns a comparison of numbers that wrap into one of places; this
is where "never half the range behind" is used.  The invariant of the sequence (`InSequence`):
the receiver's place is that of the event accepted last plus the number reported as lost since,
unless it took the sequence up anew (`Follows`); what is on the way comes in the order of boots,
later events of a boot have no earlier timestamps, and no broadcast is behind what was accepted
when it arrives (`AirOK`, `Behind`).  An error answer is the delicate message: asked, after a reboot
the receiver has not noticed, for a number this boot has not reached, the vehicle names an oldest
event before the one asked for (`Lying`).  Once the receiver has accepted an event of that
boot it expects a number before the one such an answer is about, and discards the answer, which
would otherwise set it back.  `GapsReported` (`GapsAreReported`) follows from a step of the
invariant.  The invariant of the reports (`Reporting`): what is gathered is the report that
started with the last summary of arming checks, as far as accepted (`Building`), or all of it is held back, in
order and with nothing missing, while there is no metadata (`OnHold`); setting the metadata hands
it over in that order (`Replays`, by induction on the places already handed over).
`FullReports` is `ReportsAreFull`.  Both exclude, as the properties do, a repeat that came after
the timestamp margin and was taken for a reboot (`stale`).  Three assumptions tell what the proofs
need of the vehicle: the script is less than half the range of numbers long; no boot lasts until
the timestamps wrap (2^32 ms, 49 days); and a summary of health has one of arming before it
in its boot, the order in which a vehicle sends a report.

**`MultiVehicleProofs`** (from `MultiVehicleAssumption`).  For any links, system ids
and bounds.  The invariant joins `TypeOK`, `OwnersInv` and `TimersInv`.
`TimersInv` says that some increasing function takes the n-th Vehicle that waits for
its deletion to the n-th deletion timer, that a Vehicle which is to become active does
so before its own deletion, and that the last timer to fire, if it makes a vehicle
active, makes a listed one so; each action extends or shortens that function.
`OwnersInv` says that a link has at least as many references as holders, without
which closing one vehicle could take a link from another, and that while no closed
Vehicle is heard or closed again the two are equal, closed Vehicles hold nothing and are queued
once.  `TypeOK` needs it: the count never goes below zero.  Theorems: `Invariance`,
`TypeCorrect`, `OnlyLive` (`OnlyLiveVehicles`), `Held` (`ReferencesAreHeld`) and `Once`,
the safety part of `ClosedAreDeletedOnce`.

**`LogProofs`** (from `LogVehicles`, `LogBounds`, `LogsAssumption`: types only).  For any
vehicles, logs and chunk length, any losses and actions of the user.  The
invariant `IInv` joins `FlagsInv` (the two flags exclude each other; the dialog is never
open over a running transfer; loss detection is off for a busy controller's vehicle and those
left in the middle of a transfer, no others) and `TransferInv`: the list has an entry for each log the
vehicle told of, those received are as told, the others marked once the list is over
unless the user cut it short (`Noted`); what is written of a file came from that place of that
log; the bins marked of the current chunk are written and all chunks before it complete;
what waits in a queue or on the air is an answer some vehicle with these logs can give.
Since handlers map records to records there is one lemma for each, which says what it
keeps; the proofs of the actions only compose them.  Theorems: `Invariance`,
`Watching` (`LossIsWatched`), `Downloads` (`LogsAreWhole`) and `Listing` (`ListIsTrue`).

**`PlanSequenceProofs`** (from `OfflineIsNoVehicle`, `ConnectedAreVehicles`,
`SupportedElements`, `LinkKindsAreKinds`, `MaxEventsIsNat`: types only).  For any vehicles, in
any number, whatever elements they support, any links and any number of events.  The
invariant `IInv` is `TypeOK /\ Cars /\ FlagsInv /\ Wants`.

* `Cars`: of the record of every vehicle, `VehicleInv`: nothing has been asked of a later step,
  and the handlers awaited and slots not yet used up are as many as the steps to come
  (`Advances(u) + Resting(u.at) >= 8`).  With it a slot that the user's load uses up early does
  not leave the machine short of advances.  While no step was `hindered`, `ServedTo`: for each
  slot not used up, of this step or before, the answer or the load that will use it up is on
  its way.  While nothing has `disturbed` the connect, `Ordered`: the steps before have been
  answered, what is asked or loaded is of this step, the slots from here on are not used up.
* `FlagsInv`: while no change of the active vehicle met anything pending, `Uploading` (a send
  flag is of the vehicle the user asked to upload to, whose mission is being sent as long as
  the fence is to follow) and, if no manager was busy, `Followed`: each flag has its transaction.
* `Wants`: what the Plan view waits for is of the vehicle the user gave the plan up for, and the
  fence alone is ever asked for by its controller.

Since the code's functions are operators on records, there is one lemma for each (what it
changes, which jobs it starts, which views it keeps: `Answers`, `Works`, `Starts`, `Keeps`) and
one for each action, which composes them.  Two summaries of a step carry the action properties:
all actions but the ends of loads and sends are `Quiet`, `LoadTaken` and `SendTaken` say what the
Plan view makes of those.  Theorems: `Invariance`, `TypeCorrect`, `ConnectsInOrder`
(`ConnectInOrder`), `ConnectsGoOn` (`ConnectNeverStalls`), `FlagsFollow` (`FlagsFollowJobs`),
`UploadsComeInTurn` (`UploadsInTurn`) and `EditsAreKept` (`EditsKept`).

What the proof found out about the model: some CASE expressions had arms that overlap, whose
value is any of the true arms; they are alternatives in order now, as in the code.
And `EditsKept` without `noted` was false of a connecting vehicle with a fence, an instance the
run did not have: the fence controller notes a request that nobody made.

**`ParameterProofs`** (from `ParameterAssumption`, `TransferAssumption`: types only).  For any
components and parameters, any sizes of batches and numbers of retries, and any number of
events.  The invariant `IInv` has two halves.

* Of the manager: every parameter of a component heard of is known, waited for by index or
  given up (`Accounted`), so that a load that waits for nothing and gave nothing up is
  complete; and whoever waits by name, or has heard of the autopilot and is not ready, has the
  timer (`Timed`).
* Of the two ends: the values of a parameter under way to the vehicle are in the order in which
  the user gave them, none older than what the vehicle has, none later than the last
  (`WritesInOrder`); those under way to the station are in order too and none later than what
  the vehicle has (`ValuesInOrder`).  `EditsInStep` is `EditsArriveOrFail` with what makes it
  inductive: a write waited for is of the value on show, and of an edit that has arrived every
  value still to come is the one written.  So a value that ends the wait for a write without
  overtaking it is the one written: the vehicle has at least that, and nothing later was sent.

The code's loops take a turn for each parameter of a waiting list.  The model has a recursive
function from the number of turns to the record after them, and a property of a loop is
proved by induction on the turns (`Induction`: a set of naturals with 0 that with a number has
the next has all of them, from well-foundedness of finite sets).  For each loop there is a
lemma about one turn and one about all: the first turn of a batch
always repeats or gives up (`RetryWritesRewrote`), a queue that is empty after a timeout means
nothing is waited for by index (`FillAsks`).  Four relations between the record before and after
say what handlers do: `Got` (values received: `_handleParamValue`, the load from disk), `Plain`
(requests), `Wrote` (an edit) and `TimedOut`.  `FewerTries` turns them into the measure
`TriesLeft`, the cardinality of a finite set.  Theorems: `TypeCorrect`, `EditsNotLost`
(`EditsArriveOrFail`), `ReadyMeansComplete` (`ReadyIsComplete`) and `WaitsAreBounded`
(`WaitsEnd`).

Some invariants are proved and not run, since the runs would repeat it: `QueueTypeOK`,
`AcksAreUnambiguous`, `OneResultEach`, and the type invariants of `PlanManager` and
`VehicleLinkManager`.

**Component information** (`MetadataProofs`), any number of vehicles, any files, any size of
the cache but none (`CacheAssumption`; the code has 50 entries).  `MInv` restates `CacheInStep` operator by operator: `Kept(c, out, more)` says of a
cache that the map, the count and the `.meta` files agree, that the counters are below the next
one, that the file of each entry is there unless it is in `out`, the files the end of a request
removed, and that there are at most `more` entries too many.  A hit keeps it; a new entry makes
one too many, and `removeOldEntries` takes that one out, since a finite set of counters has a
least element.  Each function of the request's state machine, from the last to the first, and
of the manager's then keeps it with what it removes added to `out`.  A crash leaves a disk that
is `Recoverable`: the counters of its whole entries differ, are bounded, and are at most one
too many, which holds at each of the five moments within an insertion; the next program reads
it into a cache that is `Kept` with nothing removed.  Beside it, the
counters are in the order of use (`InOrder`), over restarts.  Within a step `Recent` adds what the
step has changed: entries that are gone were used before all that are there, and the one used
last is there.  Each use puts an entry behind all others (`OneGoesLast`) and leaves those in their
order (`OthersStay`); `removeOldEntries` takes out the one with the least counter and never the
newest (`RemoveOldThins`), which would be wrong for a cache of no entries; on the disk of a crash
at most one entry is new, with the next counter, and what is missing had no file or a counter
below all others (`Remains`).  Theorems: `CacheInvariance`, `CacheKeeps` (`CacheInStep`),
`OldestGoesFirst` (`LeastRecentlyUsedGoes`).  The history of use is an order relation rather than
a sequence, so that a use is a set the provers can expand.  For the proof the manager's states became operators of their own, from the
last to the first as in the code, in place of a fold over the types.

Only model-checked: all liveness (fairness is beyond the prover's method here);
the composition `FtpTransfer`; of
`MetadataTransfer`, `MetadataIsGiven`.  `BytesAccounted` of `FtpTransfer` is no theorem for every
range of numbers: a late reply to an open request of an earlier download passes for the one
awaited once the numbers used since have come round, and how many are used between the two is
bounded by the files and the retries of the instance, not by the code.  `MetadataIsGiven` is no theorem for every size of the cache: an entry may
be evicted between its use and the end of the request, for another file of the request or
another vehicle's, when the cache holds fewer files than the vehicles have in hand, and the file
read is then missing.
Type invariants of the modules without theorems are defined for a reader, and were
checked; they are not part of the runs.

## 5. Not modelled, and why

Wording, logging, progress, speech and settings; message encoding; the contents of
mission items beyond index, command and jump target; parameters of commands.
Threads of links: their signals are queued to the main thread, so only the order of
arrival matters.  `prepareDelete` runs the event loop inside
`_deleteVehiclePhase1`; the handlers it may run are those the model allows right
after the step.  Result handlers that submit commands from within the check's walk
do so after the step; the walk goes backwards and handlers only append.  Opening a
link is taken to succeed.

Abstractions of single modules.  Files: names and contents are left out but for where a
byte came from; listing directories, which only the server has, too.  Connect sequence:
a request for the protocol version while that for the autopilot version is pending
counts as pending; component information always answers later; links to a PX4Flow and log
replays count as of high latency.  Plan view: what is on view of an element is whose it
is (a vehicle's, the user's, a file's, nothing); sending a plan from the Fly view's own
button is left out.  Parameters: an edit is a fresh value; types, volatile values, progress
and log replay are left out; refreshing one component alone too.  Logs: sizes count
whole packets; requests arrive in the step that sends them or never, answers take their
time.  Events: one component of a vehicle; requests as for logs.  Metadata: the component of
the autopilot alone; a CRC stands for the content it was computed from, so equal CRCs of
different files are excluded; cancelling a slow download is a download that fails; of the
files only the list of types is read; disk errors other than crashes are left out.

The remaining components are in the table of section 1 and, one by one with the reason,
in `PROJECT.json`: data with little control (facts, plan items, camera and setup pages),
operating-system I/O (links, video, joysticks, positions), and smaller protocols that are
left in the plan.

## 6. Plan

Done, in this order: plan transfer with its abstract specification and proofs; the
command queue with proofs, and `requestMessage` on top of it; the links of a vehicle
with proofs; the vehicles and the links they share; files, with the promise they are to
keep; the connect sequence and the Plan view on shared managers; parameters; logs; events; component
information and its cache.

Next theorems, in order.

1. `BytesAccounted` of `FtpTransfer`, from a bound on the numbers used while a reply is under way.
2. The promise kept by `FtpTransfer` (`KeepsPromise`), by the requests and answers under way.

Next modules: the mission index of `MissionManager` (`MISSION_CURRENT` against heartbeats);
terrain blocks and image reassembly; camera discovery.
