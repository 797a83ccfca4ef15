--------------------------- MODULE ParameterManager ---------------------------
(***************************************************************************)
(* ParameterManager: the parameters of one vehicle are loaded in one go,   *)
(* those that did not come are asked for by index, and single ones are     *)
(* read and written by name.  Three waiting lists share one timer; another *)
(* timer repeats the first request.  What was loaded is kept on disk.      *)
(*                                                                         *)
(* The manager is a record, a handler an operator from the record before   *)
(* to the record after; the messages to send are in its field `outbox'.    *)
(* A name and its index are one parameter <<component, index>>: the        *)
(* vehicle numbers its parameters by their names.  A checksum stands for   *)
(* the values it is taken of.  Left out: value types, progress, volatile   *)
(* parameters and the files the user loads and saves.                      *)
(***************************************************************************)
EXTENDS Integers, Sequences, SequencesExt

CONSTANTS
  Components,         \* component ids
  DefaultComponent,   \* the autopilot
  Count,              \* how many parameters a component has
  MaxRequestRetry,    \* _maxInitialRequestListRetry
  MaxIndexRetry,      \* _maxInitialLoadRetrySingleParam
  MaxReadWriteRetry,  \* _maxReadWriteRetry
  BatchSize,          \* maxBatchSize
  Px4Firmware         \* PX4 has the cache and its _HASH_CHECK

ASSUME ParameterAssumption ==
  /\ Components \subseteq 1 .. 255 /\ DefaultComponent \in Components
  /\ Count \in [Components -> Nat \ {0}]
  /\ {MaxRequestRetry, MaxIndexRetry, MaxReadWriteRetry, BatchSize} \subseteq Nat
  /\ Px4Firmware \in BOOLEAN

ParamsOf(comp) == {<<comp, i>> : i \in 0 .. Count[comp] - 1}
Params == UNION {ParamsOf(comp) : comp \in Components}

Before(p, q) == p[1] < q[1] \/ (p[1] = q[1] /\ p[2] < q[2])
InOrder(params) ==
  [i \in 1 .. Cardinality(params) |->
     CHOOSE p \in params : Cardinality({q \in params : Before(q, p)}) = i - 1]

ReadMsg(p)   == [kind |-> "READ", param |-> p]
SetMsg(p, v) == [kind |-> "SET", param |-> p, value |-> v]
ListMsg      == [kind |-> "LIST"]
HashMsg(comp, values) == [kind |-> "HASH", comp |-> comp, values |-> values]
ValueMsg(p, v, indexed) == [kind |-> "VALUE", param |-> p, value |-> v, indexed |-> indexed]

Nothing == [p \in {} |-> 0]
With(f, p, v)    == [q \in DOMAIN f \cup {p} |-> IF q = p THEN v ELSE f[q]]
Without(f, gone) == Restrict(f, DOMAIN f \ gone)

(* The state of a new Vehicle, whose parameters `cache' has from before. *)
NewManager(cache) ==
  [waitingReadParamIndexMap |-> Nothing,  \* retry counts of those waited for
   waitingReadParamNameMap  |-> Nothing,
   waitingWriteParamNameMap |-> Nothing,
   paramCountMap            |-> {},       \* components heard of
   factMap                  |-> Nothing,  \* the values known
   failedReadParamIndexMap  |-> {},
   indexBatchQueueActive    |-> FALSE,
   indexBatchQueue          |-> {},       \* indices, of whatever component
   waitingForDefaultComponent |-> FALSE,
   prevReads                |-> FALSE,    \* reads were waited for after the last value
   parametersReady          |-> FALSE,    \* and _initialLoadComplete
   missingParameters        |-> FALSE,
   initialRequestRetryCount |-> 0,
   initialRequestTimer      |-> FALSE,
   waitingParamTimer        |-> FALSE,
   cache                    |-> cache,    \* on disk: values by component
   outbox                   |-> <<>>,
   writesFailed             |-> {}]       \* history: failures shown to the user

WaitingReads(s) == DOMAIN s.waitingReadParamIndexMap \cup DOMAIN s.waitingReadParamNameMap
Waiting(s)      == WaitingReads(s) \cup DOMAIN s.waitingWriteParamNameMap

Known(s, comp) == {p \in DOMAIN s.factMap : p[1] = comp}
HasDefault(s)  == Known(s, DefaultComponent) # {}

Send(s, msg) == [s EXCEPT !.outbox = Append(@, msg)]

--------------------------------------------------------------------------------
(* Mutant of ReadIndex: a parameter given up is not recorded. *)
ReadIndexForgetting(s, p) ==
  LET tries == s.waitingReadParamIndexMap[p] + 1
  IN  CASE p[2] \in s.indexBatchQueue \/ Cardinality(s.indexBatchQueue) > BatchSize -> s
        [] OTHER ->
             IF tries > MaxIndexRetry
               THEN [s EXCEPT !.waitingReadParamIndexMap = Without(@, {p})]
               ELSE Send([s EXCEPT !.waitingReadParamIndexMap[p] = tries,
                                   !.indexBatchQueue = @ \cup {p[2]}], ReadMsg(p))

(* One turn of the loop of _fillIndexBatchQueue.  An index that is queued  *)
(* for one component is taken for queued for every other.                  *)
ReadIndex(s, p) ==
  LET tries == s.waitingReadParamIndexMap[p] + 1
  IN  CASE p[2] \in s.indexBatchQueue \/ Cardinality(s.indexBatchQueue) > BatchSize -> s
        [] OTHER ->
             IF tries > MaxIndexRetry
               THEN [s EXCEPT !.waitingReadParamIndexMap = Without(@, {p}),
                              !.failedReadParamIndexMap = @ \cup {p}]
               ELSE Send([s EXCEPT !.waitingReadParamIndexMap[p] = tries,
                                   !.indexBatchQueue = @ \cup {p[2]}], ReadMsg(p))

ReadIndices(s, order) ==
  LET turn[i \in 0 .. Len(order)] == IF i = 0 THEN s ELSE ReadIndex(turn[i - 1], order[i])
  IN  turn[Len(order)]

FillIndexBatchQueue(s, waitingParamTimeout) ==
  IF ~s.indexBatchQueueActive THEN s
  ELSE ReadIndices([s EXCEPT !.indexBatchQueue = IF waitingParamTimeout THEN {} ELSE @],
                   InOrder(DOMAIN s.waitingReadParamIndexMap))

CheckInitialLoadComplete(s) ==
  IF s.parametersReady \/ DOMAIN s.waitingReadParamIndexMap # {} \/ ~HasDefault(s) THEN s
  ELSE [s EXCEPT !.parametersReady = TRUE,
                 !.missingParameters = s.failedReadParamIndexMap # {}]

(* The lists of a component heard of for the first time. *)
ComponentSeen(s, comp) ==
  IF comp \in s.paramCountMap THEN s
  ELSE [s EXCEPT !.paramCountMap = @ \cup {comp},
                 !.waitingReadParamIndexMap =
                   [p \in DOMAIN @ \cup ParamsOf(comp) |-> IF p \in DOMAIN @ THEN @[p] ELSE 0]]

(* A value ends all waits for its parameter, whatever it is an answer to.  *)
(* The ones streamed unasked have no index.                                *)
EndWaits(s, msg) ==
  LET p      == msg.param
      filled == IF msg.indexed /\ p \in DOMAIN s.waitingReadParamIndexMap
                  THEN FillIndexBatchQueue(
                         [s EXCEPT !.waitingReadParamIndexMap = Without(@, {p}),
                                   !.indexBatchQueue = @ \ {p[2]}], FALSE)
                  ELSE s
  IN  [filled EXCEPT !.waitingReadParamNameMap = Without(@, {p}),
                     !.waitingWriteParamNameMap = Without(@, {p})]

(* When all reads have just finished what is known goes to the disk. *)
UpdateCache(s, t, comp) ==
  IF Px4Firmware /\ s.prevReads /\ WaitingReads(t) = {}
    THEN [t EXCEPT !.cache[comp] = Restrict(t.factMap, Known(t, comp))]
    ELSE t

(* Mutant of Receive: the timer goes on for the initial load only. *)
ReceiveForLoad(s, msg) ==
  LET waited == EndWaits(ComponentSeen([s EXCEPT !.initialRequestTimer = FALSE], msg.param[1]), msg)
      stored == [waited EXCEPT
                   !.waitingParamTimer = DOMAIN waited.waitingReadParamIndexMap # {} \/ ~HasDefault(waited),
                   !.factMap = With(@, msg.param, msg.value),
                   !.prevReads = WaitingReads(waited) # {}]
  IN  CheckInitialLoadComplete(UpdateCache(s, stored, msg.param[1]))

(* _handleParamValue after its early returns.  The timer is decided on     *)
(* before the value is stored.                                             *)
Receive(s, msg) ==
  LET waited == EndWaits(ComponentSeen([s EXCEPT !.initialRequestTimer = FALSE], msg.param[1]), msg)
      stored == [waited EXCEPT
                   !.waitingParamTimer = Waiting(waited) # {} \/ ~HasDefault(waited),
                   !.factMap = With(@, msg.param, msg.value),
                   !.prevReads = WaitingReads(waited) # {}]
  IN  CheckInitialLoadComplete(UpdateCache(s, stored, msg.param[1]))

(* _handleParamValue: what is streamed before the first request is         *)
(* answered is disregarded.                                                *)
HandleParamValue(s, msg) ==
  IF ~msg.indexed /\ s.initialRequestTimer THEN s ELSE Receive(s, msg)

(* _tryCacheHashLoad: the values on disk are taken for received ones if    *)
(* their checksum is the vehicle's, which is asked to send no more.        *)
CachedMsg(cached, p) == ValueMsg(p, cached[p], TRUE)

LoadCached(s, cached, order) ==
  LET turn[i \in 0 .. Len(order)] ==
        IF i = 0 THEN s
        ELSE HandleParamValue(turn[i - 1], CachedMsg(cached, order[i]))
  IN  turn[Len(order)]

HandleHashCheck(s, comp, hash) ==
  LET cached  == s.cache[comp]
      stopped == [s EXCEPT !.initialRequestTimer = FALSE]
  IN  IF s.parametersReady \/ cached # hash THEN stopped
      ELSE Send(LoadCached(stopped, cached, InOrder(DOMAIN cached)), HashMsg(comp, hash))

--------------------------------------------------------------------------------
(* The user sets a fact: _factRawValueUpdated. *)
WriteParameter(s, p, v) ==
  Send([s EXCEPT !.factMap[p] = v,
                 !.waitingWriteParamNameMap = With(@, p, 0),
                 !.waitingParamTimer = TRUE], SetMsg(p, v))

RefreshParameter(s, p) ==
  Send(IF p[1] \in s.paramCountMap
         THEN [s EXCEPT !.waitingReadParamNameMap = With(@, p, 0),
                        !.waitingParamTimer = TRUE]
         ELSE s, ReadMsg(p))

(* A high latency link is taken to load nothing, but is asked all the same.*)
RefreshAllParameters(s, link) ==
  LET skipped == IF link # "highLatency" THEN s
                 ELSE [s EXCEPT !.parametersReady = TRUE, !.missingParameters = TRUE,
                                !.waitingForDefaultComponent = FALSE]
      again   == UNION {ParamsOf(comp) : comp \in s.paramCountMap}
  IN  IF link = "none" THEN s
      ELSE Send([skipped EXCEPT
                   !.initialRequestTimer = @ \/ ~skipped.parametersReady,
                   !.waitingReadParamIndexMap =
                     [p \in DOMAIN @ \cup again |-> IF p \in again THEN 0 ELSE @[p]]], ListMsg)

InitialRequestTimeout(s, link) ==
  LET tries   == IF s.initialRequestRetryCount > MaxRequestRetry THEN s.initialRequestRetryCount
                 ELSE s.initialRequestRetryCount + 1
      counted == [s EXCEPT !.initialRequestRetryCount = tries, !.initialRequestTimer = FALSE]
  IN  IF tries > MaxRequestRetry THEN counted
      ELSE [RefreshAllParameters(counted, link) EXCEPT !.initialRequestTimer = TRUE]

Sent(s, kind) == Cardinality({i \in DOMAIN s.outbox : s.outbox[i].kind = kind})

(* Mutant of RetryWrite: the user is not told of the failure. *)
RetryWriteSilently(s, p) ==
  LET tries == s.waitingWriteParamNameMap[p] + 1
  IN  CASE Sent(s, "SET") > BatchSize -> s
        [] Sent(s, "SET") <= BatchSize /\ tries <= MaxReadWriteRetry ->
             Send([s EXCEPT !.waitingWriteParamNameMap[p] = tries], SetMsg(p, s.factMap[p]))
        [] OTHER -> [s EXCEPT !.waitingWriteParamNameMap = Without(@, {p})]

(* One turn of the loops of _waitingParamTimeout, left when a batch is     *)
(* full: the write is repeated, or given up and the user told.             *)
RetryWrite(s, p) ==
  LET tries == s.waitingWriteParamNameMap[p] + 1
  IN  CASE Sent(s, "SET") > BatchSize -> s
        [] Sent(s, "SET") <= BatchSize /\ tries <= MaxReadWriteRetry ->
             Send([s EXCEPT !.waitingWriteParamNameMap[p] = tries], SetMsg(p, s.factMap[p]))
        [] OTHER -> [s EXCEPT !.waitingWriteParamNameMap = Without(@, {p}),
                              !.writesFailed = @ \cup {p}]

(* Mutant of RetryRead: a read is repeated until it is answered. *)
RetryReadForEver(s, p) ==
  IF Sent(s, "READ") > BatchSize THEN s ELSE Send(s, ReadMsg(p))

RetryRead(s, p) ==
  LET tries == s.waitingReadParamNameMap[p] + 1
  IN  CASE Sent(s, "READ") > BatchSize -> s
        [] Sent(s, "READ") <= BatchSize /\ tries <= MaxReadWriteRetry ->
             Send([s EXCEPT !.waitingReadParamNameMap[p] = tries], ReadMsg(p))
        [] OTHER -> [s EXCEPT !.waitingReadParamNameMap = Without(@, {p})]

RetryWrites(s, order) ==
  LET turn[i \in 0 .. Len(order)] == IF i = 0 THEN s ELSE RetryWrite(turn[i - 1], order[i])
  IN  turn[Len(order)]

RetryReads(s, order) ==
  LET turn[i \in 0 .. Len(order)] == IF i = 0 THEN s ELSE RetryRead(turn[i - 1], order[i])
  IN  turn[Len(order)]

(* Those by name are looked at when nothing is asked for by index, reads   *)
(* when there are no writes.                                               *)
RetryByName(s) ==
  CASE DOMAIN s.waitingWriteParamNameMap # {} ->
         [RetryWrites(s, InOrder(DOMAIN s.waitingWriteParamNameMap))
            EXCEPT !.waitingParamTimer = TRUE]
    [] DOMAIN s.waitingWriteParamNameMap = {} /\ DOMAIN s.waitingReadParamNameMap # {} ->
         [RetryReads(s, InOrder(DOMAIN s.waitingReadParamNameMap))
            EXCEPT !.waitingParamTimer = TRUE]
    [] OTHER -> s

WaitingParamTimeout(s) ==
  LET filled    == FillIndexBatchQueue(
                     [s EXCEPT !.waitingParamTimer = FALSE, !.indexBatchQueueActive = TRUE], TRUE)
      requested == filled.indexBatchQueue # {}
      checked   == CheckInitialLoadComplete([filled EXCEPT !.waitingForDefaultComponent = FALSE])
  IN  CASE ~requested /\ ~s.waitingForDefaultComponent /\ ~HasDefault(s) ->
             [filled EXCEPT !.waitingParamTimer = TRUE, !.waitingForDefaultComponent = TRUE]
        [] requested -> [checked EXCEPT !.waitingParamTimer = TRUE]
        [] OTHER -> RetryByName(checked)
================================================================================
