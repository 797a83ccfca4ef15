----------------------------- MODULE ParameterProofs ----------------------------
(***************************************************************************)
(* Proofs about ParameterTransfer, for any components and parameters, any  *)
(* sizes of batches and numbers of retries, and any number of events.      *)
(***************************************************************************)
EXTENDS ParameterTransfer, FiniteSetTheorems, WellFoundedInduction, TLAPS

(***************************************************************************)
(* The manager.  Tried bounds the tries of a waiting list.                 *)
(***************************************************************************)
Valuations == UNION {[S -> Nat] : S \in SUBSET Params}

Requests ==
    [kind : {"READ"}, param : Params] \cup [kind : {"SET"}, param : Params, value : Nat]
      \cup [kind : {"LIST"}] \cup [kind : {"HASH"}, comp : Components, values : Valuations]

Answers ==
    [kind : {"VALUE"}, param : Params, value : Nat, indexed : BOOLEAN]
      \cup [kind : {"HASH"}, comp : {DefaultComponent},
            values : UNION {[S -> Nat] : S \in SUBSET ParamsOf(DefaultComponent)}]

Fields(s) ==
    {"waitingReadParamIndexMap", "waitingReadParamNameMap", "waitingWriteParamNameMap",
     "paramCountMap", "factMap", "failedReadParamIndexMap", "indexBatchQueueActive",
     "indexBatchQueue", "waitingForDefaultComponent", "prevReads", "parametersReady",
     "missingParameters", "initialRequestRetryCount", "initialRequestTimer",
     "waitingParamTimer", "cache", "outbox", "writesFailed"} \subseteq DOMAIN s

Tried(f, max) == DOMAIN f \subseteq Params /\ \A p \in DOMAIN f : f[p] \in 0 .. max

ManagerOK(s) ==
    /\ Fields(s)
    /\ Tried(s.waitingReadParamIndexMap, MaxIndexRetry)
    /\ Tried(s.waitingReadParamNameMap, MaxReadWriteRetry)
    /\ Tried(s.waitingWriteParamNameMap, MaxReadWriteRetry)
    /\ DOMAIN s.factMap \subseteq Params /\ s.paramCountMap \subseteq Components
    /\ s.indexBatchQueueActive \in BOOLEAN /\ s.waitingForDefaultComponent \in BOOLEAN
    /\ s.parametersReady \in BOOLEAN /\ s.missingParameters \in BOOLEAN
    /\ s.initialRequestTimer \in BOOLEAN /\ s.waitingParamTimer \in BOOLEAN
    /\ s.initialRequestRetryCount \in Nat
    /\ s.outbox \in Seq(Requests)

(* Of a component heard of every parameter is known, waited for, or given  *)
(* up; those in gone are just being received.                              *)
Accounted(s, gone) ==
    \A comp \in s.paramCountMap :
       ParamsOf(comp) \subseteq DOMAIN s.factMap \cup DOMAIN s.waitingReadParamIndexMap
                                  \cup s.failedReadParamIndexMap \cup gone

Timed(s) ==
    /\ Named(s) # {} => s.waitingParamTimer
    /\ HasDefault(s) /\ ~s.parametersReady => s.waitingParamTimer

--------------------------------------------------------------------------------
(***************************************************************************)
(* The invariant.  The values of a parameter under way, in either          *)
(* direction, come in the order in which the user gave them.               *)
(***************************************************************************)
Carried(msg) == IF msg.kind = "HASH" THEN msg.values ELSE [p \in {msg.param} |-> msg.value]

Settled ==
    DOMAIN edited \ (DOMAIN pm.waitingWriteParamNameMap \cup pm.writesFailed \cup overtaken)

Written(q, vals, last, n) ==
    \A i \in DOMAIN q : q[i].kind = "SET" =>
       /\ vals[q[i].param] <= q[i].value /\ q[i].value <= n
       /\ q[i].param \in DOMAIN last => q[i].value <= last[q[i].param]

Ordered(q) ==
    \A i, j \in DOMAIN q :
       i < j /\ q[i].kind = "SET" /\ q[j].kind = "SET" /\ q[i].param = q[j].param
          => q[i].value <= q[j].value

WritesInOrder == Written(toVehicle, values, edited, events) /\ Ordered(toVehicle)

Past(q, vals) == \A i \in DOMAIN q : \A p \in DOMAIN Carried(q[i]) : Carried(q[i])[p] <= vals[p]

Rising(q) ==
    \A i, j \in DOMAIN q : i < j =>
       \A p \in DOMAIN Carried(q[i]) \cap DOMAIN Carried(q[j]) : Carried(q[i])[p] <= Carried(q[j])[p]

ValuesInOrder == Past(toGcs, values) /\ Rising(toGcs)

EditsInStep ==
    /\ DOMAIN edited \subseteq DOMAIN pm.factMap
    /\ \A p \in DOMAIN edited : edited[p] \in 0 .. events /\ values[p] <= edited[p]
    /\ \A p \in DOMAIN pm.waitingWriteParamNameMap :
          p \in DOMAIN edited /\ pm.factMap[p] = edited[p]
    /\ \A p \in Settled :
          /\ values[p] = edited[p] /\ pm.factMap[p] = edited[p]
          /\ \A i \in DOMAIN toGcs :
                p \in DOMAIN Carried(toGcs[i]) => Carried(toGcs[i])[p] = edited[p]

Types ==
    /\ toVehicle \in Seq(Requests) /\ toGcs \in Seq(Answers) /\ listing \in Seq(Params)
    /\ events \in 0 .. MaxEvents
    /\ values \in [Params -> 0 .. MaxEvents] /\ \A p \in Params : values[p] <= events
    /\ DOMAIN edited \subseteq Params

IInv ==
    /\ Types /\ WritesInOrder /\ ValuesInOrder /\ EditsInStep
    /\ ManagerOK(pm) /\ pm.outbox = <<>> /\ Accounted(pm, {}) /\ Timed(pm)

--------------------------------------------------------------------------------
(***************************************************************************)
(* Induction: a set of naturals with 0 that with a number has the next     *)
(* has all of them, for otherwise the least left out would have none       *)
(* before it.                                                              *)
(***************************************************************************)
Below(n) == {i \in Nat : i < n}

(* A set of naturals has a least element. *)
LEMMA LeastElement ==
    ASSUME NEW S, S \subseteq Nat, S # {}
    PROVE  \E k \in S : \A j \in S : k <= j
<1>. DEFINE T == {Below(n) : n \in S}
<1>1. \A n \in Nat : IsFiniteSet(Below(n))
  <2>. TAKE n \in Nat
  <2>1. Below(n) \in SUBSET Nat /\ \A s \in Below(n) : s <= n
    BY DEF Below
  <2>. QED  BY <2>1, FS_BoundedSetOfNaturals
<1>2. T \subseteq FiniteSubsetsOf(Nat) /\ T # {}
  <2>1. \A n \in S : Below(n) \in SUBSET Nat /\ IsFiniteSet(Below(n))
    BY <1>1 DEF Below
  <2>. QED  BY <2>1 DEF FiniteSubsetsOf
<1>3. PICK B \in T : \A C \in T : << C, B >> \notin StrictSubsetOrdering(Nat)
  <2>. HIDE DEF T
  <2>. QED  BY <1>2, FS_StrictSubsetOrderingWellFounded, WFMin
<1>4. PICK k \in S : B = Below(k)
  OBVIOUS
<1>5. \A j \in S : k <= j
  <2>. SUFFICES ASSUME NEW j \in S, j < k PROVE FALSE
    OBVIOUS
  <2>1. Below(j) \subseteq Below(k) /\ j \in Below(k) /\ j \notin Below(j)
    BY DEF Below
  <2>2. << Below(j), Below(k) >> \in StrictSubsetOrdering(Nat)
    BY <2>1 DEF StrictSubsetOrdering, Below
  <2>. QED  BY <2>2, <1>3, <1>4
<1>. QED  BY <1>5

LEMMA Induction ==
    ASSUME NEW S, 0 \in S, \A n \in Nat : n \in S => n + 1 \in S
    PROVE  \A n \in Nat : n \in S
<1>. SUFFICES ASSUME NEW n \in Nat, n \notin S PROVE FALSE
  OBVIOUS
<1>1. PICK m \in Nat \ S : \A j \in Nat \ S : m <= j
  BY LeastElement
<1>2. m - 1 \in Nat /\ m - 1 \in S
  BY <1>1
<1>. QED  BY <1>2, <1>1

--------------------------------------------------------------------------------
(***************************************************************************)
(* A loop takes one turn for each parameter of its order.                  *)
(***************************************************************************)
LEMMA ReadIndicesTurns ==
    ASSUME NEW s, NEW order, Len(order) \in Nat
    PROVE  \E turn :
              /\ turn[0] = s /\ ReadIndices(s, order) = turn[Len(order)]
              /\ \A i \in 1 .. Len(order) : turn[i] = ReadIndex(turn[i - 1], order[i])
<1>. DEFINE IsTurn(f, m) ==
              f = [i \in 0 .. m |-> IF i = 0 THEN s ELSE ReadIndex(f[i - 1], order[i])]
            S == {m \in Nat : \E f : IsTurn(f, m)}
<1>1. 0 \in S
  <2>. DEFINE f == [i \in 0 .. 0 |-> s]
  <2>1. f = [i \in 0 .. 0 |-> IF i = 0 THEN s ELSE ReadIndex(f[i - 1], order[i])]
    OBVIOUS
  <2>. QED  BY <2>1
<1>2. ASSUME NEW m \in Nat, m \in S
      PROVE  m + 1 \in S
  <2>1. PICK f : IsTurn(f, m)
    BY <1>2
  <2>. DEFINE g == [i \in 0 .. m + 1 |-> IF i <= m THEN f[i] ELSE ReadIndex(f[m], order[m + 1])]
  <2>2. ASSUME NEW i \in 0 .. m + 1
        PROVE  g[i] = IF i = 0 THEN s ELSE ReadIndex(g[i - 1], order[i])
    <3>1. CASE i = 0
      BY <3>1, <2>1
    <3>2. CASE i # 0 /\ i <= m
      <4>1. i - 1 \in 0 .. m /\ i \in 0 .. m
        BY <3>2
      <4>2. g[i] = f[i] /\ g[i - 1] = f[i - 1]
        BY <4>1
      <4>3. f[i] = ReadIndex(f[i - 1], order[i])
        BY <4>1, <3>2, <2>1
      <4>. QED  BY <4>2, <4>3, <3>2
    <3>3. CASE i = m + 1
      <4>1. g[i] = ReadIndex(f[m], order[i]) /\ g[i - 1] = f[m]
        BY <3>3
      <4>. QED  BY <4>1, <3>3
    <3>. QED  BY <3>1, <3>2, <3>3
  <2>3. IsTurn(g, m + 1)
    <3>1. g = [i \in 0 .. m + 1 |-> g[i]]
      OBVIOUS
    <3>. HIDE DEF g
    <3>. QED  BY <3>1, <2>2
  <2>4. \E h : IsTurn(h, m + 1)
    <3>. HIDE DEF IsTurn, g
    <3>. QED  BY <2>3
  <2>. HIDE DEF IsTurn, g
  <2>. QED  BY <2>4
<1>3. PICK turn : IsTurn(turn, Len(order))
  <2>. HIDE DEF IsTurn
  <2>1. \A m \in Nat : m \in S
    <3>. HIDE DEF S
    <3>. QED  BY <1>1, <1>2, Induction
  <2>. QED  BY <2>1
<1>. DEFINE first == CHOOSE f : IsTurn(f, Len(order))
<1>4. IsTurn(first, Len(order))
  BY <1>3
<1>5. ReadIndices(s, order) = first[Len(order)]
  BY DEF ReadIndices
<1>. HIDE DEF first
<1>6. /\ first[0] = s
      /\ \A i \in 1 .. Len(order) : first[i] = ReadIndex(first[i - 1], order[i])
  BY <1>4
<1>. QED  BY <1>5, <1>6

LEMMA RetryWritesTurns ==
    ASSUME NEW s, NEW order, Len(order) \in Nat
    PROVE  \E turn :
              /\ turn[0] = s /\ RetryWrites(s, order) = turn[Len(order)]
              /\ \A i \in 1 .. Len(order) : turn[i] = RetryWrite(turn[i - 1], order[i])
<1>. DEFINE IsTurn(f, m) ==
              f = [i \in 0 .. m |-> IF i = 0 THEN s ELSE RetryWrite(f[i - 1], order[i])]
            S == {m \in Nat : \E f : IsTurn(f, m)}
<1>1. 0 \in S
  <2>. DEFINE f == [i \in 0 .. 0 |-> s]
  <2>1. f = [i \in 0 .. 0 |-> IF i = 0 THEN s ELSE RetryWrite(f[i - 1], order[i])]
    OBVIOUS
  <2>. QED  BY <2>1
<1>2. ASSUME NEW m \in Nat, m \in S
      PROVE  m + 1 \in S
  <2>1. PICK f : IsTurn(f, m)
    BY <1>2
  <2>. DEFINE g == [i \in 0 .. m + 1 |-> IF i <= m THEN f[i] ELSE RetryWrite(f[m], order[m + 1])]
  <2>2. ASSUME NEW i \in 0 .. m + 1
        PROVE  g[i] = IF i = 0 THEN s ELSE RetryWrite(g[i - 1], order[i])
    <3>1. CASE i = 0
      BY <3>1, <2>1
    <3>2. CASE i # 0 /\ i <= m
      <4>1. i - 1 \in 0 .. m /\ i \in 0 .. m
        BY <3>2
      <4>2. g[i] = f[i] /\ g[i - 1] = f[i - 1]
        BY <4>1
      <4>3. f[i] = RetryWrite(f[i - 1], order[i])
        BY <4>1, <3>2, <2>1
      <4>. QED  BY <4>2, <4>3, <3>2
    <3>3. CASE i = m + 1
      <4>1. g[i] = RetryWrite(f[m], order[i]) /\ g[i - 1] = f[m]
        BY <3>3
      <4>. QED  BY <4>1, <3>3
    <3>. QED  BY <3>1, <3>2, <3>3
  <2>3. IsTurn(g, m + 1)
    <3>1. g = [i \in 0 .. m + 1 |-> g[i]]
      OBVIOUS
    <3>. HIDE DEF g
    <3>. QED  BY <3>1, <2>2
  <2>4. \E h : IsTurn(h, m + 1)
    <3>. HIDE DEF IsTurn, g
    <3>. QED  BY <2>3
  <2>. HIDE DEF IsTurn, g
  <2>. QED  BY <2>4
<1>3. PICK turn : IsTurn(turn, Len(order))
  <2>. HIDE DEF IsTurn
  <2>1. \A m \in Nat : m \in S
    <3>. HIDE DEF S
    <3>. QED  BY <1>1, <1>2, Induction
  <2>. QED  BY <2>1
<1>. DEFINE first == CHOOSE f : IsTurn(f, Len(order))
<1>4. IsTurn(first, Len(order))
  BY <1>3
<1>5. RetryWrites(s, order) = first[Len(order)]
  BY DEF RetryWrites
<1>. HIDE DEF first
<1>6. /\ first[0] = s
      /\ \A i \in 1 .. Len(order) : first[i] = RetryWrite(first[i - 1], order[i])
  BY <1>4
<1>. QED  BY <1>5, <1>6

LEMMA RetryReadsTurns ==
    ASSUME NEW s, NEW order, Len(order) \in Nat
    PROVE  \E turn :
              /\ turn[0] = s /\ RetryReads(s, order) = turn[Len(order)]
              /\ \A i \in 1 .. Len(order) : turn[i] = RetryRead(turn[i - 1], order[i])
<1>. DEFINE IsTurn(f, m) ==
              f = [i \in 0 .. m |-> IF i = 0 THEN s ELSE RetryRead(f[i - 1], order[i])]
            S == {m \in Nat : \E f : IsTurn(f, m)}
<1>1. 0 \in S
  <2>. DEFINE f == [i \in 0 .. 0 |-> s]
  <2>1. f = [i \in 0 .. 0 |-> IF i = 0 THEN s ELSE RetryRead(f[i - 1], order[i])]
    OBVIOUS
  <2>. QED  BY <2>1
<1>2. ASSUME NEW m \in Nat, m \in S
      PROVE  m + 1 \in S
  <2>1. PICK f : IsTurn(f, m)
    BY <1>2
  <2>. DEFINE g == [i \in 0 .. m + 1 |-> IF i <= m THEN f[i] ELSE RetryRead(f[m], order[m + 1])]
  <2>2. ASSUME NEW i \in 0 .. m + 1
        PROVE  g[i] = IF i = 0 THEN s ELSE RetryRead(g[i - 1], order[i])
    <3>1. CASE i = 0
      BY <3>1, <2>1
    <3>2. CASE i # 0 /\ i <= m
      <4>1. i - 1 \in 0 .. m /\ i \in 0 .. m
        BY <3>2
      <4>2. g[i] = f[i] /\ g[i - 1] = f[i - 1]
        BY <4>1
      <4>3. f[i] = RetryRead(f[i - 1], order[i])
        BY <4>1, <3>2, <2>1
      <4>. QED  BY <4>2, <4>3, <3>2
    <3>3. CASE i = m + 1
      <4>1. g[i] = RetryRead(f[m], order[i]) /\ g[i - 1] = f[m]
        BY <3>3
      <4>. QED  BY <4>1, <3>3
    <3>. QED  BY <3>1, <3>2, <3>3
  <2>3. IsTurn(g, m + 1)
    <3>1. g = [i \in 0 .. m + 1 |-> g[i]]
      OBVIOUS
    <3>. HIDE DEF g
    <3>. QED  BY <3>1, <2>2
  <2>4. \E h : IsTurn(h, m + 1)
    <3>. HIDE DEF IsTurn, g
    <3>. QED  BY <2>3
  <2>. HIDE DEF IsTurn, g
  <2>. QED  BY <2>4
<1>3. PICK turn : IsTurn(turn, Len(order))
  <2>. HIDE DEF IsTurn
  <2>1. \A m \in Nat : m \in S
    <3>. HIDE DEF S
    <3>. QED  BY <1>1, <1>2, Induction
  <2>. QED  BY <2>1
<1>. DEFINE first == CHOOSE f : IsTurn(f, Len(order))
<1>4. IsTurn(first, Len(order))
  BY <1>3
<1>5. RetryReads(s, order) = first[Len(order)]
  BY DEF RetryReads
<1>. HIDE DEF first
<1>6. /\ first[0] = s
      /\ \A i \in 1 .. Len(order) : first[i] = RetryRead(first[i - 1], order[i])
  BY <1>4
<1>. QED  BY <1>5, <1>6

LEMMA LoadCachedTurns ==
    ASSUME NEW s, NEW cached, NEW order, Len(order) \in Nat
    PROVE  \E turn :
              /\ turn[0] = s /\ LoadCached(s, cached, order) = turn[Len(order)]
              /\ \A i \in 1 .. Len(order) : turn[i] = HandleParamValue(turn[i - 1], CachedMsg(cached, order[i]))
<1>. DEFINE IsTurn(f, m) ==
              f = [i \in 0 .. m |-> IF i = 0 THEN s ELSE HandleParamValue(f[i - 1], CachedMsg(cached, order[i]))]
            S == {m \in Nat : \E f : IsTurn(f, m)}
<1>1. 0 \in S
  <2>. DEFINE f == [i \in 0 .. 0 |-> s]
  <2>1. f = [i \in 0 .. 0 |-> IF i = 0 THEN s ELSE HandleParamValue(f[i - 1], CachedMsg(cached, order[i]))]
    OBVIOUS
  <2>. QED  BY <2>1
<1>2. ASSUME NEW m \in Nat, m \in S
      PROVE  m + 1 \in S
  <2>1. PICK f : IsTurn(f, m)
    BY <1>2
  <2>. DEFINE g == [i \in 0 .. m + 1 |-> IF i <= m THEN f[i] ELSE HandleParamValue(f[m], CachedMsg(cached, order[m + 1]))]
  <2>2. ASSUME NEW i \in 0 .. m + 1
        PROVE  g[i] = IF i = 0 THEN s ELSE HandleParamValue(g[i - 1], CachedMsg(cached, order[i]))
    <3>1. CASE i = 0
      BY <3>1, <2>1
    <3>2. CASE i # 0 /\ i <= m
      <4>1. i - 1 \in 0 .. m /\ i \in 0 .. m
        BY <3>2
      <4>2. g[i] = f[i] /\ g[i - 1] = f[i - 1]
        BY <4>1
      <4>3. f[i] = HandleParamValue(f[i - 1], CachedMsg(cached, order[i]))
        BY <4>1, <3>2, <2>1
      <4>. QED  BY <4>2, <4>3, <3>2
    <3>3. CASE i = m + 1
      <4>1. g[i] = HandleParamValue(f[m], CachedMsg(cached, order[i])) /\ g[i - 1] = f[m]
        BY <3>3
      <4>. QED  BY <4>1, <3>3
    <3>. QED  BY <3>1, <3>2, <3>3
  <2>3. IsTurn(g, m + 1)
    <3>1. g = [i \in 0 .. m + 1 |-> g[i]]
      OBVIOUS
    <3>. HIDE DEF g
    <3>. QED  BY <3>1, <2>2
  <2>4. \E h : IsTurn(h, m + 1)
    <3>. HIDE DEF IsTurn, g
    <3>. QED  BY <2>3
  <2>. HIDE DEF IsTurn, g
  <2>. QED  BY <2>4
<1>3. PICK turn : IsTurn(turn, Len(order))
  <2>. HIDE DEF IsTurn
  <2>1. \A m \in Nat : m \in S
    <3>. HIDE DEF S
    <3>. QED  BY <1>1, <1>2, Induction
  <2>. QED  BY <2>1
<1>. DEFINE first == CHOOSE f : IsTurn(f, Len(order))
<1>4. IsTurn(first, Len(order))
  BY <1>3
<1>5. LoadCached(s, cached, order) = first[Len(order)]
  BY DEF LoadCached
<1>. HIDE DEF first
<1>6. /\ first[0] = s
      /\ \A i \in 1 .. Len(order) : first[i] = HandleParamValue(first[i - 1], CachedMsg(cached, order[i]))
  BY <1>4
<1>. QED  BY <1>5, <1>6

--------------------------------------------------------------------------------
(***************************************************************************)
(* There are finitely many parameters, and InOrder lists each of a set of  *)
(* them once: Before is a total order, so that a place in it is the number *)
(* of those before.                                                        *)
(***************************************************************************)
LEMMA ParamsFinite == IsFiniteSet(Params)
<1>. DEFINE P(c) == ParamsOf(c)
            f == [c \in Components |-> P(c)]
            T == {P(c) : c \in Components}
<1>1. IsFiniteSet(Components)
  <2>1. IsFiniteSet(1 .. 255)
    <3>1. 1 \in Int /\ 255 \in Int
      OBVIOUS
    <3>. QED  BY <3>1, FS_Interval
  <2>. QED  BY <2>1, FS_Subset, ParameterAssumption
<1>2. \A c \in Components : IsFiniteSet(P(c))
  <2>. TAKE c \in Components
  <2>1. Count[c] - 1 \in Int
    BY ParameterAssumption
  <2>2. IsFiniteSet(0 .. Count[c] - 1) /\ IsFiniteSet({c})
    <3>. DEFINE m == Count[c] - 1
    <3>1. 0 \in Int /\ m \in Int
      BY <2>1
    <3>2. IsFiniteSet(0 .. m)
      <4>. HIDE DEF m
      <4>. QED  BY <3>1, FS_Interval
    <3>. QED  BY <3>2, FS_Singleton
  <2>3. IsFiniteSet({c} \X (0 .. Count[c] - 1))
    BY <2>2, FS_Product
  <2>4. P(c) \in SUBSET ({c} \X (0 .. Count[c] - 1))
    BY DEF ParamsOf
  <2>. QED  BY <2>3, <2>4, FS_Subset
<1>3. f \in Surjection(Components, T)
  <2>. HIDE DEF P
  <2>. QED  BY DEF Surjection
<1>4. IsFiniteSet(T) /\ \A U \in T : IsFiniteSet(U)
  <2>1. IsFiniteSet(T)
    <3>. HIDE DEF f, T
    <3>. QED  BY <1>1, <1>3, FS_Surjection
  <2>2. \A U \in T : IsFiniteSet(U)
    BY <1>2
  <2>. QED  BY <2>1, <2>2
<1>5. Params = UNION T
  BY DEF Params
<1>. QED  BY <1>4, <1>5, FS_UNION

LEMMA ParamIsPair ==
    ASSUME NEW p \in Params
    PROVE  p[1] \in Int /\ p[2] \in Int /\ p = << p[1], p[2] >>
<1>1. PICK c \in Components : p \in ParamsOf(c)
  BY DEF Params
<1>2. PICK i \in 0 .. Count[c] - 1 : p = << c, i >>
  BY <1>1 DEF ParamsOf
<1>. QED  BY <1>2, ParameterAssumption

(* The order in which a loop takes the parameters is a total order. *)
LEMMA BeforeIsTotal ==
    /\ \A p \in Params : ~Before(p, p)
    /\ \A p, q \in Params : p # q => Before(p, q) \/ Before(q, p)
    /\ \A p, q, r \in Params : Before(p, q) /\ Before(q, r) => Before(p, r)
<1>1. \A p \in Params : p[1] \in Int /\ p[2] \in Int /\ p = << p[1], p[2] >>
  BY ParamIsPair
<1>2. ASSUME NEW p \in Params, NEW q \in Params, p # q
      PROVE  Before(p, q) \/ Before(q, p)
  <2>1. p[1] # q[1] \/ p[2] # q[2]
    BY <1>1, <1>2
  <2>. QED  BY <1>1, <2>1 DEF Before
<1>. QED  BY <1>1, <1>2 DEF Before

(* InOrder lists a set of parameters, each once. *)
LEMMA InOrderLists ==
    ASSUME NEW S \in SUBSET Params
    PROVE  /\ InOrder(S) \in Seq(S) /\ Len(InOrder(S)) \in Nat
           /\ \A i, j \in 1 .. Len(InOrder(S)) : i # j => InOrder(S)[i] # InOrder(S)[j]
           /\ \A p \in S : \E i \in 1 .. Len(InOrder(S)) : InOrder(S)[i] = p
<1>. DEFINE Earlier(p) == {q \in S : Before(q, p)}
            n == Cardinality(S)
            rank == [p \in S |-> Cardinality(Earlier(p))]
<1>1. IsFiniteSet(S) /\ n \in Nat
  BY ParamsFinite, FS_Subset, FS_CardinalityType
<1>2. ASSUME NEW p \in S
      PROVE  IsFiniteSet(Earlier(p)) /\ Cardinality(Earlier(p)) \in 0 .. n - 1
  <2>1. Earlier(p) \in SUBSET S /\ p \notin Earlier(p)
    BY BeforeIsTotal
  <2>2. /\ IsFiniteSet(Earlier(p)) /\ Cardinality(Earlier(p)) <= n
        /\ Cardinality(S) = Cardinality(Earlier(p)) => S = Earlier(p)
    <3>. HIDE DEF Earlier
    <3>. QED  BY <2>1, <1>1, FS_Subset
  <2>3. Cardinality(Earlier(p)) \in Nat
    <3>. HIDE DEF Earlier
    <3>. QED  BY <2>2, FS_CardinalityType
  <2>. HIDE DEF Earlier
  <2>. QED  BY <2>1, <2>2, <2>3, <1>1
<1>3. ASSUME NEW p \in S, NEW q \in S, Before(p, q)
      PROVE  Cardinality(Earlier(p)) < Cardinality(Earlier(q))
  <2>1. Earlier(p) \in SUBSET Earlier(q) /\ p \in Earlier(q) /\ p \notin Earlier(p)
    BY <1>3, BeforeIsTotal
  <2>2. /\ Cardinality(Earlier(p)) <= Cardinality(Earlier(q))
        /\ Cardinality(Earlier(q)) = Cardinality(Earlier(p)) => Earlier(q) = Earlier(p)
    <3>1. IsFiniteSet(Earlier(q))
      BY <1>2
    <3>. HIDE DEF Earlier
    <3>. QED  BY <2>1, <3>1, FS_Subset
  <2>3. Cardinality(Earlier(p)) \in 0 .. n - 1 /\ Cardinality(Earlier(q)) \in 0 .. n - 1
    BY <1>2
  <2>. HIDE DEF Earlier, n
  <2>. QED  BY <2>1, <2>2, <2>3
<1>4. rank \in Injection(S, 0 .. n - 1)
  <2>1. rank \in [S -> 0 .. n - 1]
    BY <1>2
  <2>2. ASSUME NEW p \in S, NEW q \in S, p # q
        PROVE  rank[p] # rank[q]
    <3>1. CASE Before(p, q)
      <4>1. rank[p] < rank[q] /\ rank[p] \in 0 .. n - 1
        BY <1>2, <1>3, <3>1
      <4>. QED  BY <4>1
    <3>2. CASE Before(q, p)
      <4>1. rank[q] < rank[p] /\ rank[p] \in 0 .. n - 1
        BY <1>2, <1>3, <3>2
      <4>. QED  BY <4>1
    <3>. QED  BY <3>1, <3>2, <2>2, BeforeIsTotal
  <2>. HIDE DEF rank
  <2>. QED  BY <2>1, <2>2 DEF Injection, IsInjective
<1>5. rank \in Surjection(S, 0 .. n - 1)
  <2>1. IsFiniteSet(0 .. n - 1) /\ Cardinality(0 .. n - 1) = n
    <3>1. n - 1 \in Int
      BY <1>1
    <3>. HIDE DEF n
    <3>. QED  BY <3>1, <1>1, FS_Interval
  <2>. HIDE DEF rank
  <2>. QED  BY <2>1, <1>4, FS_Injection
<1>6. ASSUME NEW i \in 1 .. n
      PROVE  InOrder(S)[i] \in S /\ rank[InOrder(S)[i]] = i - 1
  <2>1. i - 1 \in 0 .. n - 1
    BY <1>1
  <2>2. PICK p \in S : rank[p] = i - 1
    <3>. HIDE DEF rank, n
    <3>. QED  BY <2>1, <1>5 DEF Surjection
  <2>3. Cardinality(Earlier(p)) = i - 1
    BY <2>2
  <2>4. InOrder(S)[i] = CHOOSE q \in S : Cardinality(Earlier(q)) = i - 1
    BY DEF InOrder
  <2>5. InOrder(S)[i] \in S /\ Cardinality(Earlier(InOrder(S)[i])) = i - 1
    <3>. HIDE DEF Earlier
    <3>. QED  BY <2>3, <2>4
  <2>. QED  BY <2>5
<1>7. InOrder(S) \in Seq(S) /\ Len(InOrder(S)) = n
  <2>1. InOrder(S) = [i \in 1 .. n |-> InOrder(S)[i]]
    BY DEF InOrder
  <2>2. \A i \in 1 .. n : InOrder(S)[i] \in S
    BY <1>6
  <2>. HIDE DEF n
  <2>. QED  BY <2>1, <2>2, <1>1
<1>8. ASSUME NEW p \in S
      PROVE  \E i \in 1 .. n : InOrder(S)[i] = p
  <2>1. rank[p] \in 0 .. n - 1
    BY <1>2
  <2>2. rank[p] + 1 \in 1 .. n
    BY <2>1, <1>1
  <2>3. rank[InOrder(S)[rank[p] + 1]] = rank[p] /\ InOrder(S)[rank[p] + 1] \in S
    <3>. DEFINE k == rank[p] + 1
    <3>1. rank[InOrder(S)[k]] = k - 1 /\ InOrder(S)[k] \in S
      <4>1. k \in 1 .. n
        BY <2>2
      <4>. HIDE DEF rank, n, k
      <4>. QED  BY <1>6, <4>1
    <3>2. k - 1 = rank[p]
      <4>. HIDE DEF rank
      <4>. QED  BY <2>1
    <3>. QED  BY <3>1, <3>2
  <2>4. InOrder(S)[rank[p] + 1] = p
    <3>. HIDE DEF rank, n
    <3>. QED  BY <2>3, <1>4 DEF Injection, IsInjective
  <2>. QED  BY <2>2, <2>4
<1>9. ASSUME NEW i \in 1 .. n, NEW j \in 1 .. n, i # j
      PROVE  InOrder(S)[i] # InOrder(S)[j]
  <2>1. rank[InOrder(S)[i]] = i - 1 /\ rank[InOrder(S)[j]] = j - 1
    BY <1>6
  <2>. HIDE DEF rank, n
  <2>. QED  BY <2>1, <1>9
<1>. HIDE DEF n
<1>. QED  BY <1>1, <1>7, <1>8, <1>9

--------------------------------------------------------------------------------
(***************************************************************************)
(* Asking by index.  Asked states what it changes: tries are spent, and    *)
(* what is no longer waited for was given up.  Spent states that a list    *)
(* lost at least one try.                                                  *)
(***************************************************************************)
LEMMA WithIs ==
    ASSUME NEW f, NEW p, NEW v
    PROVE  /\ DOMAIN With(f, p, v) = DOMAIN f \cup {p} /\ With(f, p, v)[p] = v
           /\ \A q \in DOMAIN f \ {p} : With(f, p, v)[q] = f[q]
BY DEF With

LEMMA WithoutIs ==
    ASSUME NEW f, NEW gone
    PROVE  /\ DOMAIN Without(f, gone) = DOMAIN f \ gone
           /\ \A q \in DOMAIN f \ gone : Without(f, gone)[q] = f[q]
BY DEF Without, Restrict

LEMMA Appended ==
    ASSUME NEW S, NEW q \in Seq(S), NEW x \in S
    PROVE  /\ Append(q, x) \in Seq(S) /\ DOMAIN Append(q, x) = 1 .. Len(q) + 1
           /\ DOMAIN q = 1 .. Len(q) /\ Len(q) \in Nat
           /\ \A i \in DOMAIN q : Append(q, x)[i] = q[i]
           /\ Append(q, x)[Len(q) + 1] = x
OBVIOUS

NoSets(s) == \A i \in DOMAIN s.outbox : s.outbox[i].kind # "SET"

Fewer(f, g) == DOMAIN g \subseteq DOMAIN f /\ \A p \in DOMAIN g : f[p] <= g[p]
Spent(f, g) == \E p \in DOMAIN f : p \notin DOMAIN g \/ f[p] < g[p]

Others(s) ==
    << s.waitingReadParamNameMap, s.waitingWriteParamNameMap, s.paramCountMap, s.factMap,
       s.indexBatchQueueActive, s.waitingForDefaultComponent, s.prevReads, s.parametersReady,
       s.missingParameters, s.initialRequestRetryCount, s.initialRequestTimer,
       s.waitingParamTimer, s.cache, s.writesFailed >>

Asked(s, t) ==
    /\ ManagerOK(t) /\ Others(t) = Others(s)
    /\ Fewer(s.waitingReadParamIndexMap, t.waitingReadParamIndexMap)
    /\ DOMAIN s.waitingReadParamIndexMap \cup s.failedReadParamIndexMap
         \subseteq DOMAIN t.waitingReadParamIndexMap \cup t.failedReadParamIndexMap
    /\ NoSets(s) => NoSets(t)

Drew(s, t) ==
    /\ t.indexBatchQueue = {} => s.indexBatchQueue = {} /\ t.outbox = s.outbox
    /\ s.indexBatchQueue = {} /\ t.indexBatchQueue # {}
         => Spent(s.waitingReadParamIndexMap, t.waitingReadParamIndexMap)

(* A message is put behind the others; if it is no write, there are as few writes. *)
LEMMA SendIs ==
    ASSUME NEW s, ManagerOK(s), NEW msg \in Requests
    PROVE  /\ ManagerOK(Send(s, msg)) /\ Send(s, msg) = [s EXCEPT !.outbox = Append(s.outbox, msg)]
           /\ msg.kind # "SET" /\ NoSets(s) => NoSets(Send(s, msg))
<1>1. Send(s, msg) = [s EXCEPT !.outbox = Append(s.outbox, msg)]
  BY DEF Send
<1>2. "outbox" \in DOMAIN s /\ s.outbox \in Seq(Requests)
  BY DEF ManagerOK, Fields
<1>3. Send(s, msg).outbox = Append(s.outbox, msg)
  BY <1>1, <1>2
<1>4. Append(s.outbox, msg) \in Seq(Requests)
  BY <1>2, Appended
<1>5. ManagerOK(Send(s, msg))
  BY <1>1, <1>4 DEF ManagerOK, Fields
<1>6. ASSUME msg.kind # "SET", NoSets(s)
      PROVE  NoSets(Send(s, msg))
  <2>1. \A i \in DOMAIN Append(s.outbox, msg) : Append(s.outbox, msg)[i].kind # "SET"
    BY <1>2, <1>6, Appended DEF NoSets
  <2>. QED  BY <2>1, <1>3 DEF NoSets
<1>. QED  BY <1>1, <1>5, <1>6

(* A turn for p asks for p or gives it up, or the batch is full or has its index. *)
LEMMA ReadIndexAsks ==
    ASSUME NEW s, ManagerOK(s), NEW p \in DOMAIN s.waitingReadParamIndexMap
    PROVE  /\ Asked(s, ReadIndex(s, p)) /\ Drew(s, ReadIndex(s, p))
           /\ DOMAIN s.waitingReadParamIndexMap \ {p}
                \subseteq DOMAIN ReadIndex(s, p).waitingReadParamIndexMap
           /\ ReadIndex(s, p).indexBatchQueue = {}
                => p \notin DOMAIN ReadIndex(s, p).waitingReadParamIndexMap
<1>. DEFINE f == s.waitingReadParamIndexMap
            tries == f[p] + 1
            t == ReadIndex(s, p)
<1>1. f[p] \in 0 .. MaxIndexRetry /\ DOMAIN f \subseteq Params /\ p \in Params
  BY DEF ManagerOK, Tried
<1>2. Fields(s)
  BY DEF ManagerOK
<1>3. CASE p[2] \in s.indexBatchQueue \/ Cardinality(s.indexBatchQueue) > BatchSize
  <2>1. t = s
    BY <1>3 DEF ReadIndex
  <2>2. s.indexBatchQueue # {}
    <3>1. ASSUME s.indexBatchQueue = {} PROVE FALSE
      <4>1. Cardinality(s.indexBatchQueue) = 0
        BY <3>1, FS_EmptySet
      <4>. QED  BY <4>1, <1>3, <3>1, ParameterAssumption
    <3>. QED  BY <3>1
  <2>3. Fewer(f, f)
    BY DEF Fewer, ManagerOK, Tried
  <2>. QED  BY <2>1, <2>2, <2>3 DEF Asked, Drew
<1>4. CASE /\ ~(p[2] \in s.indexBatchQueue \/ Cardinality(s.indexBatchQueue) > BatchSize)
           /\ tries > MaxIndexRetry
  <2>. DEFINE g == Without(f, {p})
  <2>1. t = [s EXCEPT !.waitingReadParamIndexMap = g,
                      !.failedReadParamIndexMap = s.failedReadParamIndexMap \cup {p}]
    BY <1>4 DEF ReadIndex
  <2>2. DOMAIN g = DOMAIN f \ {p} /\ \A q \in DOMAIN g : g[q] = f[q]
    <3>. HIDE DEF f
    <3>. QED  BY DEF Without, Restrict
  <2>. HIDE DEF g
  <2>3. /\ t.waitingReadParamIndexMap = g /\ t.failedReadParamIndexMap = s.failedReadParamIndexMap \cup {p}
        /\ t.indexBatchQueue = s.indexBatchQueue /\ t.outbox = s.outbox /\ Others(t) = Others(s)
    BY <2>1, <1>2 DEF Fields, Others
  <2>4. ManagerOK(t)
    <3>1. Tried(g, MaxIndexRetry)
      BY <2>2 DEF ManagerOK, Tried
    <3>. QED  BY <2>1, <2>3, <3>1 DEF ManagerOK, Fields
  <2>5. Fewer(f, g)
    BY <2>2 DEF Fewer, ManagerOK, Tried
  <2>. HIDE DEF t
  <2>6. Asked(s, t)
    BY <2>2, <2>3, <2>4, <2>5 DEF Asked, NoSets
  <2>7. Drew(s, t)
    BY <2>3 DEF Drew
  <2>8. DOMAIN f \ {p} \subseteq DOMAIN t.waitingReadParamIndexMap /\ p \notin DOMAIN t.waitingReadParamIndexMap
    BY <2>2, <2>3
  <2>. QED  BY <2>6, <2>7, <2>8 DEF t
<1>5. CASE /\ ~(p[2] \in s.indexBatchQueue \/ Cardinality(s.indexBatchQueue) > BatchSize)
           /\ ~(tries > MaxIndexRetry)
  <2>. DEFINE g == [f EXCEPT ![p] = tries]
              u == [s EXCEPT !.waitingReadParamIndexMap = g,
                             !.indexBatchQueue = s.indexBatchQueue \cup {p[2]}]
  <2>1. t = Send(u, ReadMsg(p))
    BY <1>5 DEF ReadIndex
  <2>2. DOMAIN g = DOMAIN f /\ g[p] = tries /\ \A q \in DOMAIN f \ {p} : g[q] = f[q]
    OBVIOUS
  <2>. HIDE DEF g
  <2>3. /\ u.waitingReadParamIndexMap = g /\ u.failedReadParamIndexMap = s.failedReadParamIndexMap
        /\ u.indexBatchQueue = s.indexBatchQueue \cup {p[2]} /\ u.outbox = s.outbox /\ Others(u) = Others(s)
    BY <1>2 DEF Fields, Others
  <2>4. ManagerOK(u)
    <3>1. Tried(g, MaxIndexRetry)
      <4>1. tries \in 0 .. MaxIndexRetry
        BY <1>1, <1>5, ParameterAssumption
      <4>2. \A q \in DOMAIN f : f[q] \in 0 .. MaxIndexRetry
        BY DEF ManagerOK, Tried
      <4>. HIDE DEF f, tries
      <4>. QED  BY <2>2, <1>1, <4>1, <4>2 DEF Tried
    <3>. QED  BY <2>3, <3>1 DEF ManagerOK, Fields
  <2>. HIDE DEF u
  <2>5. ReadMsg(p) \in Requests /\ ReadMsg(p).kind # "SET"
    BY <1>1 DEF ReadMsg, Requests
  <2>6. /\ ManagerOK(t) /\ t = [u EXCEPT !.outbox = Append(u.outbox, ReadMsg(p))]
        /\ NoSets(u) => NoSets(t)
    BY <2>1, <2>4, <2>5, SendIs
  <2>7. /\ t.waitingReadParamIndexMap = g /\ t.failedReadParamIndexMap = s.failedReadParamIndexMap
        /\ t.indexBatchQueue = s.indexBatchQueue \cup {p[2]} /\ Others(t) = Others(s)
    BY <2>3, <2>6 DEF Others
  <2>8. Fewer(f, g) /\ Spent(f, g)
    BY <2>2, <1>1 DEF Fewer, Spent, ManagerOK, Tried
  <2>9. NoSets(s) => NoSets(u)
    BY <2>3 DEF NoSets
  <2>. HIDE DEF t
  <2>10. Asked(s, t)
    BY <2>2, <2>6, <2>7, <2>8, <2>9 DEF Asked
  <2>11. t.indexBatchQueue # {}
    BY <2>7
  <2>12. Drew(s, t)
    BY <2>7, <2>8, <2>11 DEF Drew
  <2>13. DOMAIN f \ {p} \subseteq DOMAIN t.waitingReadParamIndexMap
    BY <2>2, <2>7
  <2>. QED  BY <2>10, <2>11, <2>12, <2>13 DEF t
<1>. QED  BY <1>3, <1>4, <1>5

(* Tries used up stay used up. *)
LEMMA FewerSpent ==
    ASSUME NEW f, NEW g, NEW h, NEW max \in Nat, Tried(f, max), Tried(g, max), Tried(h, max),
           Fewer(f, g), Fewer(g, h)
    PROVE  Fewer(f, h) /\ (Spent(f, g) \/ Spent(g, h) => Spent(f, h))
<1>1. /\ \A p \in DOMAIN f : f[p] \in Int
      /\ \A p \in DOMAIN g : g[p] \in Int
      /\ \A p \in DOMAIN h : h[p] \in Int
  BY DEF Tried
<1>2. Fewer(f, h)
  BY <1>1 DEF Fewer
<1>3. ASSUME Spent(f, g) PROVE Spent(f, h)
  BY <1>1, <1>3 DEF Fewer, Spent
<1>4. ASSUME Spent(g, h) PROVE Spent(f, h)
  <2>1. PICK p \in DOMAIN g : p \notin DOMAIN h \/ g[p] < h[p]
    BY <1>4 DEF Spent
  <2>2. p \in DOMAIN f /\ f[p] <= g[p]
    BY DEF Fewer
  <2>3. p \notin DOMAIN h \/ f[p] < h[p]
    BY <1>1, <2>1, <2>2
  <2>. QED  BY <2>2, <2>3 DEF Spent
<1>. QED  BY <1>2, <1>3, <1>4

LEMMA AskedTwice ==
    ASSUME NEW s, NEW t, NEW u, ManagerOK(s), Asked(s, t), Asked(t, u)
    PROVE  Asked(s, u) /\ (Drew(s, t) /\ Drew(t, u) => Drew(s, u))
<1>. DEFINE f == s.waitingReadParamIndexMap
            g == t.waitingReadParamIndexMap
            h == u.waitingReadParamIndexMap
<1>1. Tried(f, MaxIndexRetry) /\ Tried(g, MaxIndexRetry) /\ Tried(h, MaxIndexRetry)
  BY DEF Asked, ManagerOK
<1>2. Fewer(f, g) /\ Fewer(g, h) /\ MaxIndexRetry \in Nat
  BY ParameterAssumption DEF Asked
<1>3. Fewer(f, h) /\ (Spent(f, g) \/ Spent(g, h) => Spent(f, h))
  <2>. HIDE DEF f, g, h
  <2>. QED  BY <1>1, <1>2, FewerSpent
<1>4. Asked(s, u)
  BY <1>3 DEF Asked
<1>. QED  BY <1>3, <1>4 DEF Drew

LEMMA ReadIndicesAsk ==
    ASSUME NEW s, ManagerOK(s)
    PROVE  LET t == ReadIndices(s, InOrder(DOMAIN s.waitingReadParamIndexMap))
           IN  /\ Asked(s, t) /\ Drew(s, t)
               /\ t.indexBatchQueue = {} => DOMAIN t.waitingReadParamIndexMap = {}
<1>. DEFINE D == DOMAIN s.waitingReadParamIndexMap
            order == InOrder(D)
            n == Len(order)
<1>1. D \in SUBSET Params
  BY DEF ManagerOK, Tried
<1>2. /\ order \in Seq(D) /\ n \in Nat
      /\ \A i, j \in 1 .. n : i # j => order[i] # order[j]
      /\ \A p \in D : \E i \in 1 .. n : order[i] = p
  <2>. HIDE DEF D
  <2>. QED  BY <1>1, InOrderLists
<1>3. \A i \in 1 .. n : order[i] \in D
  <2>. HIDE DEF order, D
  <2>. QED  BY <1>2
<1>. HIDE DEF order
<1>4. PICK turn :
        /\ turn[0] = s /\ ReadIndices(s, order) = turn[n]
        /\ \A i \in 1 .. n : turn[i] = ReadIndex(turn[i - 1], order[i])
  BY <1>2, ReadIndicesTurns
<1>. DEFINE I(i) ==
              /\ Asked(s, turn[i]) /\ Drew(s, turn[i])
              /\ \A j \in i + 1 .. n : order[j] \in DOMAIN turn[i].waitingReadParamIndexMap
              /\ turn[i].indexBatchQueue = {} =>
                    \A j \in 1 .. i : order[j] \notin DOMAIN turn[i].waitingReadParamIndexMap
            S == {i \in Nat : i <= n => I(i)}
<1>5. 0 \in S
  <2>1. Fewer(s.waitingReadParamIndexMap, s.waitingReadParamIndexMap)
    BY DEF Fewer, ManagerOK, Tried
  <2>2. Asked(s, s) /\ Drew(s, s)
    BY <2>1 DEF Asked, Drew
  <2>3. \A j \in 1 .. n : order[j] \in DOMAIN turn[0].waitingReadParamIndexMap
    BY <1>3, <1>4
  <2>. QED  BY <1>4, <2>2, <2>3
<1>6. ASSUME NEW i \in Nat, i \in S
      PROVE  i + 1 \in S
  <2>. SUFFICES ASSUME i + 1 <= n
                PROVE  I(i + 1)
    OBVIOUS
  <2>. DEFINE t == turn[i]
              u == turn[i + 1]
              p == order[i + 1]
  <2>1. I(i) /\ i + 1 \in 1 .. n /\ i + 1 \in i + 1 .. n
    BY <1>2, <1>6
  <2>2. u = ReadIndex(t, p) /\ p \in DOMAIN t.waitingReadParamIndexMap
    <3>1. u = ReadIndex(turn[i + 1 - 1], p) /\ i + 1 - 1 = i
      BY <1>4, <2>1
    <3>. QED  BY <3>1, <2>1
  <2>3. Asked(s, t) /\ Drew(s, t) /\ ManagerOK(t)
    BY <2>1 DEF Asked
  <2>4. /\ Asked(t, u) /\ Drew(t, u)
        /\ DOMAIN t.waitingReadParamIndexMap \ {p} \subseteq DOMAIN u.waitingReadParamIndexMap
        /\ u.indexBatchQueue = {} => p \notin DOMAIN u.waitingReadParamIndexMap
    <3>. HIDE DEF t, u, p
    <3>. QED  BY <2>2, <2>3, ReadIndexAsks
  <2>5. Asked(s, u) /\ Drew(s, u)
    <3>. HIDE DEF t, u
    <3>. QED  BY <2>3, <2>4, AskedTwice
  <2>6. ASSUME NEW j \in i + 1 + 1 .. n
        PROVE  order[j] \in DOMAIN u.waitingReadParamIndexMap
    <3>1. j \in i + 1 .. n /\ j \in 1 .. n /\ j # i + 1
      BY <1>2
    <3>2. order[j] \in DOMAIN t.waitingReadParamIndexMap /\ order[j] # p
      BY <2>1, <1>2, <3>1
    <3>. QED  BY <3>2, <2>4
  <2>7. ASSUME u.indexBatchQueue = {}, NEW j \in 1 .. i + 1
        PROVE  order[j] \notin DOMAIN u.waitingReadParamIndexMap
    <3>1. t.indexBatchQueue = {} /\ DOMAIN u.waitingReadParamIndexMap \subseteq DOMAIN t.waitingReadParamIndexMap
      BY <2>4, <2>7 DEF Drew, Asked, Fewer
    <3>2. CASE j \in 1 .. i
      BY <2>1, <3>1, <3>2
    <3>3. CASE j = i + 1
      BY <2>4, <2>7, <3>3
    <3>. QED  BY <3>2, <3>3
  <2>. QED  BY <2>5, <2>6, <2>7
<1>7. I(n)
  <2>1. n \in S
    <3>. HIDE DEF S
    <3>. QED  BY <1>2, <1>5, <1>6, Induction
  <2>. QED  BY <2>1, <1>2
<1>8. ASSUME turn[n].indexBatchQueue = {}
      PROVE  DOMAIN turn[n].waitingReadParamIndexMap = {}
  <2>1. \A j \in 1 .. n : order[j] \notin DOMAIN turn[n].waitingReadParamIndexMap
    BY <1>7, <1>8
  <2>2. DOMAIN turn[n].waitingReadParamIndexMap \subseteq D
    BY <1>7 DEF Asked, Fewer
  <2>. QED  BY <2>1, <2>2, <1>2
<1>. QED  BY <1>4, <1>7, <1>8 DEF order

(* After a timeout the queue is empty only when nothing is waited for by index. *)
LEMMA FillAsks ==
    ASSUME NEW s, ManagerOK(s), NEW timeout \in BOOLEAN
    PROVE  LET t == FillIndexBatchQueue(s, timeout)
           IN  /\ Asked(s, t)
               /\ s.indexBatchQueueActive /\ timeout =>
                     IF t.indexBatchQueue = {}
                       THEN DOMAIN t.waitingReadParamIndexMap = {} /\ t.outbox = s.outbox
                       ELSE Spent(s.waitingReadParamIndexMap, t.waitingReadParamIndexMap)
<1>. DEFINE queue == IF timeout THEN {} ELSE s.indexBatchQueue
            u == [s EXCEPT !.indexBatchQueue = queue]
            t == ReadIndices(u, InOrder(DOMAIN u.waitingReadParamIndexMap))
<1>1. Fields(s)
  BY DEF ManagerOK
<1>. HIDE DEF queue
<1>2. /\ u.indexBatchQueue = queue /\ u.waitingReadParamIndexMap = s.waitingReadParamIndexMap
      /\ u.failedReadParamIndexMap = s.failedReadParamIndexMap
      /\ u.outbox = s.outbox /\ Others(u) = Others(s)
  BY <1>1 DEF Fields, Others
<1>3. ManagerOK(u)
  BY <1>1 DEF ManagerOK, Fields
<1>4. CASE ~s.indexBatchQueueActive
  <2>1. FillIndexBatchQueue(s, timeout) = s
    BY <1>4 DEF FillIndexBatchQueue
  <2>2. Fewer(s.waitingReadParamIndexMap, s.waitingReadParamIndexMap)
    BY DEF Fewer, ManagerOK, Tried
  <2>. QED  BY <1>4, <2>1, <2>2 DEF Asked
<1>5. CASE s.indexBatchQueueActive
  <2>1. FillIndexBatchQueue(s, timeout) = t
    BY <1>5, <1>2 DEF FillIndexBatchQueue, queue
  <2>2. /\ Asked(u, t) /\ Drew(u, t)
        /\ t.indexBatchQueue = {} => DOMAIN t.waitingReadParamIndexMap = {}
    <3>. HIDE DEF u
    <3>. QED  BY <1>3, ReadIndicesAsk
  <2>. HIDE DEF u, t
  <2>3. Asked(s, t)
    BY <1>2, <2>2 DEF Asked, NoSets
  <2>4. timeout => u.indexBatchQueue = {}
    BY <1>2 DEF queue
  <2>5. timeout /\ t.indexBatchQueue = {} => DOMAIN t.waitingReadParamIndexMap = {} /\ t.outbox = s.outbox
    BY <1>2, <2>2 DEF Drew
  <2>6. timeout /\ t.indexBatchQueue # {} => Spent(s.waitingReadParamIndexMap, t.waitingReadParamIndexMap)
    BY <1>2, <2>2, <2>4 DEF Drew
  <2>. QED  BY <2>1, <2>3, <2>5, <2>6
<1>. QED  BY <1>4, <1>5 DEF ManagerOK

--------------------------------------------------------------------------------
(***************************************************************************)
(* The retries by name.  A write is repeated with the value known, or its  *)
(* failure is recorded.                                                    *)
(***************************************************************************)
SetsFor(s, writes) ==
    \A i \in DOMAIN s.outbox : s.outbox[i].kind = "SET" =>
       s.outbox[i].param \in writes /\ s.outbox[i].value = s.factMap[s.outbox[i].param]

Writable(s) == \A p \in DOMAIN s.waitingWriteParamNameMap : s.factMap[p] \in Nat

NotWrites(s) ==
    << s.waitingReadParamIndexMap, s.waitingReadParamNameMap, s.paramCountMap, s.factMap,
       s.failedReadParamIndexMap, s.waitingForDefaultComponent, s.parametersReady,
       s.missingParameters, s.initialRequestRetryCount, s.initialRequestTimer,
       s.waitingParamTimer, s.cache >>

Rewrote(s, t) ==
    /\ ManagerOK(t) /\ NotWrites(t) = NotWrites(s)
    /\ Fewer(s.waitingWriteParamNameMap, t.waitingWriteParamNameMap)
    /\ s.writesFailed \subseteq t.writesFailed
    /\ DOMAIN s.waitingWriteParamNameMap \ DOMAIN t.waitingWriteParamNameMap \subseteq t.writesFailed

LEMMA NoneSent ==
    ASSUME NEW s, NEW kind, \A i \in DOMAIN s.outbox : s.outbox[i].kind # kind
    PROVE  Sent(s, kind) <= BatchSize
<1>1. {i \in DOMAIN s.outbox : s.outbox[i].kind = kind} = {}
  OBVIOUS
<1>2. Sent(s, kind) = 0
  BY <1>1, FS_EmptySet DEF Sent
<1>. QED  BY <1>2, ParameterAssumption

LEMMA SentIsNat ==
    ASSUME NEW s, ManagerOK(s), NEW kind
    PROVE  Sent(s, kind) \in Nat
<1>. DEFINE D == DOMAIN s.outbox
            T == {i \in D : s.outbox[i].kind = kind}
            n == Len(s.outbox)
<1>1. D = 1 .. n /\ n \in Nat
  BY DEF ManagerOK
<1>2. IsFiniteSet(1 .. n)
  <2>1. 1 \in Int /\ n \in Int
    BY <1>1
  <2>. HIDE DEF n
  <2>. QED  BY <2>1, FS_Interval
<1>3. T \in SUBSET (1 .. n)
  BY <1>1
<1>4. Cardinality(T) \in Nat
  <2>. HIDE DEF T, n
  <2>. QED  BY <1>2, <1>3, FS_Subset, FS_CardinalityType
<1>. QED  BY <1>4 DEF Sent

(* One more try, or the end of the wait. *)
LEMMA TriedOnce ==
    ASSUME NEW f, NEW max \in Nat, Tried(f, max), NEW p \in DOMAIN f
    PROVE  /\ Tried(Without(f, {p}), max)
           /\ Fewer(f, Without(f, {p})) /\ Spent(f, Without(f, {p}))
           /\ DOMAIN Without(f, {p}) = DOMAIN f \ {p}
           /\ f[p] + 1 <= max => /\ Tried([f EXCEPT ![p] = f[p] + 1], max)
                                 /\ Fewer(f, [f EXCEPT ![p] = f[p] + 1])
                                 /\ Spent(f, [f EXCEPT ![p] = f[p] + 1])
                                 /\ DOMAIN [f EXCEPT ![p] = f[p] + 1] = DOMAIN f
<1>. DEFINE g == Without(f, {p})
            h == [f EXCEPT ![p] = f[p] + 1]
<1>1. DOMAIN g = DOMAIN f \ {p} /\ \A q \in DOMAIN g : g[q] = f[q]
  BY DEF Without, Restrict
<1>2. \A q \in DOMAIN f : f[q] \in 0 .. max /\ f[q] <= f[q]
  BY DEF Tried
<1>. HIDE DEF g
<1>3. Tried(g, max) /\ Fewer(f, g) /\ Spent(f, g)
  BY <1>1, <1>2 DEF Tried, Fewer, Spent
<1>4. DOMAIN h = DOMAIN f /\ h[p] = f[p] + 1 /\ \A q \in DOMAIN f \ {p} : h[q] = f[q]
  OBVIOUS
<1>. HIDE DEF h
<1>5. ASSUME f[p] + 1 <= max
      PROVE  Tried(h, max) /\ Fewer(f, h) /\ Spent(f, h) /\ DOMAIN h = DOMAIN f
  <2>1. f[p] + 1 \in 0 .. max /\ f[p] < f[p] + 1 /\ f[p] <= f[p] + 1
    BY <1>2, <1>5
  <2>2. \A q \in DOMAIN h : h[q] \in 0 .. max /\ f[q] <= h[q]
    BY <1>2, <1>4, <2>1
  <2>3. Tried(h, max)
    BY <1>4, <2>2 DEF Tried
  <2>4. Fewer(f, h) /\ Spent(f, h)
    BY <1>4, <2>1, <2>2 DEF Fewer, Spent
  <2>. QED  BY <2>3, <2>4, <1>4
<1>. QED  BY <1>1, <1>3, <1>5 DEF g, h

(* A turn for p repeats its last write, or gives it up and says so. *)
LEMMA RetryWriteRewrites ==
    ASSUME NEW s, ManagerOK(s), Writable(s), NEW p \in DOMAIN s.waitingWriteParamNameMap
    PROVE  /\ Rewrote(s, RetryWrite(s, p))
           /\ \A writes : SetsFor(s, writes) /\ p \in writes => SetsFor(RetryWrite(s, p), writes)
           /\ NoSets(s) => Spent(s.waitingWriteParamNameMap,
                                 RetryWrite(s, p).waitingWriteParamNameMap)
           /\ DOMAIN s.waitingWriteParamNameMap \ {p}
                \subseteq DOMAIN RetryWrite(s, p).waitingWriteParamNameMap
<1>. DEFINE f == s.waitingWriteParamNameMap
            tries == f[p] + 1
            t == RetryWrite(s, p)
<1>1. /\ Tried(f, MaxReadWriteRetry) /\ MaxReadWriteRetry \in Nat
      /\ f[p] \in 0 .. MaxReadWriteRetry /\ p \in Params /\ s.factMap[p] \in Nat
      /\ p \in DOMAIN f
  BY ParameterAssumption DEF ManagerOK, Tried, Writable
<1>2. Fields(s)
  BY DEF ManagerOK
<1>. DEFINE many == Sent(s, "SET")
<1>3. many \in Nat /\ BatchSize \in Nat /\ (many > BatchSize => ~NoSets(s))
  <2>1. many \in Nat
    BY SentIsNat
  <2>2. NoSets(s) => many <= BatchSize
    BY NoneSent DEF NoSets
  <2>. HIDE DEF many
  <2>. QED  BY <2>1, <2>2, ParameterAssumption
<1>. HIDE DEF many
<1>4. CASE many > BatchSize
  <2>1. t = s
    BY <1>4, <1>3 DEF RetryWrite, many
  <2>2. Fewer(f, f)
    BY <1>1 DEF Fewer, Tried
  <2>. QED  BY <1>3, <1>4, <2>1, <2>2 DEF Rewrote
<1>5. CASE many <= BatchSize /\ tries <= MaxReadWriteRetry
  <2>. DEFINE g == [f EXCEPT ![p] = f[p] + 1]
              u == [s EXCEPT !.waitingWriteParamNameMap = g]
              msg == SetMsg(p, s.factMap[p])
  <2>1. t = Send(u, msg)
    BY <1>3, <1>5 DEF RetryWrite, many
  <2>2. Tried(g, MaxReadWriteRetry) /\ Fewer(f, g) /\ Spent(f, g) /\ DOMAIN g = DOMAIN f
    <3>. HIDE DEF f
    <3>. QED  BY <1>1, <1>5, TriedOnce
  <2>. HIDE DEF g
  <2>3. /\ u.waitingWriteParamNameMap = g /\ u.outbox = s.outbox /\ NotWrites(u) = NotWrites(s)
        /\ u.writesFailed = s.writesFailed
    BY <1>2 DEF Fields, NotWrites
  <2>4. ManagerOK(u)
    BY <2>2, <2>3 DEF ManagerOK, Fields
  <2>5. msg \in Requests /\ msg.param = p /\ msg.value = s.factMap[p]
    BY <1>1 DEF SetMsg, Requests
  <2>. HIDE DEF u, msg
  <2>6. ManagerOK(t) /\ t = [u EXCEPT !.outbox = Append(u.outbox, msg)]
    BY <2>1, <2>4, <2>5, SendIs
  <2>7. u.outbox \in Seq(Requests) /\ "outbox" \in DOMAIN u
    BY <2>4 DEF ManagerOK, Fields
  <2>8. /\ t.waitingWriteParamNameMap = g /\ t.outbox = Append(s.outbox, msg)
        /\ NotWrites(t) = NotWrites(s) /\ t.writesFailed = s.writesFailed
    BY <2>3, <2>6, <2>7 DEF NotWrites
  <2>9. t.factMap = s.factMap
    BY <2>8 DEF NotWrites
  <2>. HIDE DEF t
  <2>10. Rewrote(s, t)
    BY <2>2, <2>6, <2>8 DEF Rewrote
  <2>11. ASSUME NEW writes, SetsFor(s, writes), p \in writes
         PROVE  SetsFor(t, writes)
    <3>1. \A i \in DOMAIN t.outbox : (i \in DOMAIN s.outbox /\ t.outbox[i] = s.outbox[i]) \/ t.outbox[i] = msg
      BY <2>3, <2>5, <2>7, <2>8, Appended
    <3>. QED  BY <3>1, <2>5, <2>9, <2>11 DEF SetsFor
  <2>. QED  BY <2>2, <2>8, <2>10, <2>11 DEF t
<1>6. CASE many <= BatchSize /\ ~(tries <= MaxReadWriteRetry)
  <2>. DEFINE g == Without(f, {p})
  <2>1. t = [s EXCEPT !.waitingWriteParamNameMap = g, !.writesFailed = s.writesFailed \cup {p}]
    BY <1>3, <1>6 DEF RetryWrite, many
  <2>2. Tried(g, MaxReadWriteRetry) /\ Fewer(f, g) /\ Spent(f, g) /\ DOMAIN g = DOMAIN f \ {p}
    <3>. HIDE DEF f
    <3>. QED  BY <1>1, TriedOnce
  <2>. HIDE DEF g
  <2>3. /\ t.waitingWriteParamNameMap = g /\ t.outbox = s.outbox /\ NotWrites(t) = NotWrites(s)
        /\ t.writesFailed = s.writesFailed \cup {p} /\ t.factMap = s.factMap
    BY <1>2, <2>1 DEF Fields, NotWrites
  <2>4. ManagerOK(t)
    BY <2>1, <2>2, <2>3 DEF ManagerOK, Fields
  <2>. HIDE DEF t
  <2>5. Rewrote(s, t)
    BY <2>2, <2>3, <2>4 DEF Rewrote
  <2>6. \A writes : SetsFor(s, writes) => SetsFor(t, writes)
    BY <2>3 DEF SetsFor
  <2>. QED  BY <2>2, <2>3, <2>5, <2>6 DEF t
<1>. QED  BY <1>3, <1>4, <1>5, <1>6

NotReads(s) ==
    << s.waitingReadParamIndexMap, s.waitingWriteParamNameMap, s.paramCountMap, s.factMap,
       s.failedReadParamIndexMap, s.waitingForDefaultComponent, s.parametersReady,
       s.missingParameters, s.initialRequestRetryCount, s.initialRequestTimer,
       s.waitingParamTimer, s.cache, s.writesFailed >>

Reread(s, t) ==
    /\ ManagerOK(t) /\ NotReads(t) = NotReads(s)
    /\ Fewer(s.waitingReadParamNameMap, t.waitingReadParamNameMap)
    /\ NoSets(s) => NoSets(t)

NoReads(s) == \A i \in DOMAIN s.outbox : s.outbox[i].kind # "READ"

(* A turn for p repeats its read, or gives it up. *)
LEMMA RetryReadRereads ==
    ASSUME NEW s, ManagerOK(s), NEW p \in DOMAIN s.waitingReadParamNameMap
    PROVE  /\ Reread(s, RetryRead(s, p))
           /\ NoReads(s) => Spent(s.waitingReadParamNameMap,
                                  RetryRead(s, p).waitingReadParamNameMap)
           /\ DOMAIN s.waitingReadParamNameMap \ {p}
                \subseteq DOMAIN RetryRead(s, p).waitingReadParamNameMap
<1>. DEFINE f == s.waitingReadParamNameMap
            tries == f[p] + 1
            t == RetryRead(s, p)
            many == Sent(s, "READ")
<1>1. /\ Tried(f, MaxReadWriteRetry) /\ MaxReadWriteRetry \in Nat
      /\ f[p] \in 0 .. MaxReadWriteRetry /\ p \in Params /\ p \in DOMAIN f
  BY ParameterAssumption DEF ManagerOK, Tried
<1>2. Fields(s)
  BY DEF ManagerOK
<1>3. many \in Nat /\ BatchSize \in Nat /\ (many > BatchSize => ~NoReads(s))
  <2>1. many \in Nat
    BY SentIsNat
  <2>2. NoReads(s) => many <= BatchSize
    BY NoneSent DEF NoReads
  <2>. HIDE DEF many
  <2>. QED  BY <2>1, <2>2, ParameterAssumption
<1>. HIDE DEF many
<1>4. CASE many > BatchSize
  <2>1. t = s
    BY <1>4, <1>3 DEF RetryRead, many
  <2>2. Fewer(f, f)
    BY <1>1 DEF Fewer, Tried
  <2>. QED  BY <1>3, <1>4, <2>1, <2>2 DEF Reread
<1>5. CASE many <= BatchSize /\ tries <= MaxReadWriteRetry
  <2>. DEFINE g == [f EXCEPT ![p] = f[p] + 1]
              u == [s EXCEPT !.waitingReadParamNameMap = g]
              msg == ReadMsg(p)
  <2>1. t = Send(u, msg)
    BY <1>3, <1>5 DEF RetryRead, many
  <2>2. Tried(g, MaxReadWriteRetry) /\ Fewer(f, g) /\ Spent(f, g) /\ DOMAIN g = DOMAIN f
    <3>. HIDE DEF f
    <3>. QED  BY <1>1, <1>5, TriedOnce
  <2>. HIDE DEF g
  <2>3. /\ u.waitingReadParamNameMap = g /\ u.outbox = s.outbox /\ NotReads(u) = NotReads(s)
    BY <1>2 DEF Fields, NotReads
  <2>4. ManagerOK(u)
    BY <2>2, <2>3 DEF ManagerOK, Fields
  <2>5. msg \in Requests /\ msg.kind # "SET"
    BY <1>1 DEF ReadMsg, Requests
  <2>. HIDE DEF u, msg
  <2>6. /\ ManagerOK(t) /\ t = [u EXCEPT !.outbox = Append(u.outbox, msg)]
        /\ NoSets(u) => NoSets(t)
    BY <2>1, <2>4, <2>5, SendIs
  <2>7. t.waitingReadParamNameMap = g /\ NotReads(t) = NotReads(s)
    BY <2>3, <2>6 DEF NotReads
  <2>8. NoSets(s) => NoSets(t)
    BY <2>3, <2>6 DEF NoSets
  <2>. HIDE DEF t
  <2>9. Reread(s, t)
    BY <2>2, <2>6, <2>7, <2>8 DEF Reread
  <2>. QED  BY <2>2, <2>7, <2>9 DEF t
<1>6. CASE many <= BatchSize /\ ~(tries <= MaxReadWriteRetry)
  <2>. DEFINE g == Without(f, {p})
  <2>1. t = [s EXCEPT !.waitingReadParamNameMap = g]
    BY <1>3, <1>6 DEF RetryRead, many
  <2>2. Tried(g, MaxReadWriteRetry) /\ Fewer(f, g) /\ Spent(f, g) /\ DOMAIN g = DOMAIN f \ {p}
    <3>. HIDE DEF f
    <3>. QED  BY <1>1, TriedOnce
  <2>. HIDE DEF g
  <2>3. t.waitingReadParamNameMap = g /\ t.outbox = s.outbox /\ NotReads(t) = NotReads(s)
    BY <1>2, <2>1 DEF Fields, NotReads
  <2>4. ManagerOK(t)
    BY <2>1, <2>2, <2>3 DEF ManagerOK, Fields
  <2>. HIDE DEF t
  <2>5. Reread(s, t)
    BY <2>2, <2>3, <2>4 DEF Reread, NoSets
  <2>. QED  BY <2>2, <2>3, <2>5 DEF t
<1>. QED  BY <1>3, <1>4, <1>5, <1>6

(* The first of a batch is always repeated or given up. *)
LEMMA RetryWritesRewrote ==
    ASSUME NEW s, ManagerOK(s), Writable(s), NoSets(s), DOMAIN s.waitingWriteParamNameMap # {}
    PROVE  LET t == RetryWrites(s, InOrder(DOMAIN s.waitingWriteParamNameMap))
           IN  /\ Rewrote(s, t) /\ Spent(s.waitingWriteParamNameMap, t.waitingWriteParamNameMap)
               /\ SetsFor(t, DOMAIN s.waitingWriteParamNameMap)
<1>. DEFINE f == s.waitingWriteParamNameMap
            D == DOMAIN f
            order == InOrder(D)
            n == Len(order)
<1>1. D \in SUBSET Params /\ D # {}
  BY DEF ManagerOK, Tried
<1>2. /\ order \in Seq(D) /\ n \in Nat
      /\ \A i, j \in 1 .. n : i # j => order[i] # order[j]
      /\ \A p \in D : \E i \in 1 .. n : order[i] = p
  <2>. HIDE DEF D
  <2>. QED  BY <1>1, InOrderLists
<1>3. n > 0 /\ \A i \in 1 .. n : order[i] \in D
  <2>. HIDE DEF order, D
  <2>. QED  BY <1>1, <1>2
<1>. HIDE DEF order
<1>4. PICK turn :
        /\ turn[0] = s /\ RetryWrites(s, order) = turn[n]
        /\ \A i \in 1 .. n : turn[i] = RetryWrite(turn[i - 1], order[i])
  BY <1>2, RetryWritesTurns
<1>. DEFINE I(i) ==
              /\ Rewrote(s, turn[i])
              /\ i > 0 => Spent(f, turn[i].waitingWriteParamNameMap)
              /\ SetsFor(turn[i], D)
              /\ \A j \in i + 1 .. n : order[j] \in DOMAIN turn[i].waitingWriteParamNameMap
            S == {i \in Nat : i <= n => I(i)}
<1>5. 0 \in S
  <2>1. Fewer(f, f)
    BY DEF Fewer, ManagerOK, Tried
  <2>2. Rewrote(s, s)
    BY <2>1 DEF Rewrote
  <2>3. SetsFor(s, D)
    BY DEF SetsFor, NoSets
  <2>4. \A j \in 1 .. n : order[j] \in DOMAIN turn[0].waitingWriteParamNameMap
    BY <1>3, <1>4
  <2>. QED  BY <1>4, <2>2, <2>3, <2>4
<1>6. ASSUME NEW i \in Nat, i \in S
      PROVE  i + 1 \in S
  <2>. SUFFICES ASSUME i + 1 <= n
                PROVE  I(i + 1)
    OBVIOUS
  <2>. DEFINE t == turn[i]
              u == turn[i + 1]
              p == order[i + 1]
              g == t.waitingWriteParamNameMap
              h == u.waitingWriteParamNameMap
  <2>1. I(i) /\ i + 1 \in 1 .. n /\ i + 1 \in i + 1 .. n
    BY <1>2, <1>6
  <2>2. u = RetryWrite(t, p) /\ p \in DOMAIN g /\ p \in D
    <3>1. u = RetryWrite(turn[i + 1 - 1], p) /\ i + 1 - 1 = i
      BY <1>4, <2>1
    <3>. QED  BY <3>1, <2>1, <1>3
  <2>3. Rewrote(s, t) /\ ManagerOK(t) /\ Writable(t) /\ t.factMap = s.factMap
    BY <2>1 DEF Rewrote, NotWrites, Writable, Fewer
  <2>4. /\ Rewrote(t, u)
        /\ NoSets(t) => Spent(g, h)
        /\ DOMAIN g \ {p} \subseteq DOMAIN h
        /\ SetsFor(t, D) => SetsFor(u, D)
    <3>. HIDE DEF t, u, p
    <3>. QED  BY <2>2, <2>3, RetryWriteRewrites
  <2>5. Tried(f, MaxReadWriteRetry) /\ Tried(g, MaxReadWriteRetry) /\ Tried(h, MaxReadWriteRetry)
    BY <2>3, <2>4 DEF Rewrote, ManagerOK
  <2>6. Fewer(f, h) /\ (Spent(f, g) \/ Spent(g, h) => Spent(f, h))
    <3>1. Fewer(f, g) /\ Fewer(g, h) /\ MaxReadWriteRetry \in Nat
      BY <2>3, <2>4, ParameterAssumption DEF Rewrote
    <3>. HIDE DEF f, g, h
    <3>. QED  BY <2>5, <3>1, FewerSpent
  <2>7. Rewrote(s, u)
    BY <2>3, <2>4, <2>6 DEF Rewrote, Fewer
  <2>8. Spent(f, h)
    <3>1. CASE i = 0
      BY <3>1, <1>4, <2>4, <2>6
    <3>2. CASE i > 0
      BY <3>2, <2>1, <2>6
    <3>. QED  BY <3>1, <3>2
  <2>9. SetsFor(u, D)
    BY <2>1, <2>4
  <2>10. ASSUME NEW j \in i + 1 + 1 .. n
         PROVE  order[j] \in DOMAIN h
    <3>1. j \in i + 1 .. n /\ j \in 1 .. n /\ j # i + 1
      BY <1>2
    <3>2. order[j] \in DOMAIN g /\ order[j] # p
      BY <2>1, <1>2, <3>1
    <3>. QED  BY <3>2, <2>4
  <2>. QED  BY <2>7, <2>8, <2>9, <2>10
<1>7. I(n)
  <2>1. n \in S
    <3>. HIDE DEF S
    <3>. QED  BY <1>2, <1>5, <1>6, Induction
  <2>. QED  BY <2>1, <1>2
<1>. QED  BY <1>3, <1>4, <1>7 DEF order

LEMMA RetryReadsReread ==
    ASSUME NEW s, ManagerOK(s), NoReads(s), DOMAIN s.waitingReadParamNameMap # {}
    PROVE  LET t == RetryReads(s, InOrder(DOMAIN s.waitingReadParamNameMap))
           IN  /\ Reread(s, t) /\ Spent(s.waitingReadParamNameMap, t.waitingReadParamNameMap)
<1>. DEFINE f == s.waitingReadParamNameMap
            D == DOMAIN f
            order == InOrder(D)
            n == Len(order)
<1>1. D \in SUBSET Params /\ D # {}
  BY DEF ManagerOK, Tried
<1>2. /\ order \in Seq(D) /\ n \in Nat
      /\ \A i, j \in 1 .. n : i # j => order[i] # order[j]
      /\ \A p \in D : \E i \in 1 .. n : order[i] = p
  <2>. HIDE DEF D
  <2>. QED  BY <1>1, InOrderLists
<1>3. n > 0 /\ \A i \in 1 .. n : order[i] \in D
  <2>. HIDE DEF order, D
  <2>. QED  BY <1>1, <1>2
<1>. HIDE DEF order
<1>4. PICK turn :
        /\ turn[0] = s /\ RetryReads(s, order) = turn[n]
        /\ \A i \in 1 .. n : turn[i] = RetryRead(turn[i - 1], order[i])
  BY <1>2, RetryReadsTurns
<1>. DEFINE I(i) ==
              /\ Reread(s, turn[i])
              /\ i > 0 => Spent(f, turn[i].waitingReadParamNameMap)
              /\ \A j \in i + 1 .. n : order[j] \in DOMAIN turn[i].waitingReadParamNameMap
            S == {i \in Nat : i <= n => I(i)}
<1>5. 0 \in S
  <2>1. Fewer(f, f)
    BY DEF Fewer, ManagerOK, Tried
  <2>2. Reread(s, s)
    BY <2>1 DEF Reread
  <2>4. \A j \in 1 .. n : order[j] \in DOMAIN turn[0].waitingReadParamNameMap
    BY <1>3, <1>4
  <2>. QED  BY <1>4, <2>2, <2>4
<1>6. ASSUME NEW i \in Nat, i \in S
      PROVE  i + 1 \in S
  <2>. SUFFICES ASSUME i + 1 <= n
                PROVE  I(i + 1)
    OBVIOUS
  <2>. DEFINE t == turn[i]
              u == turn[i + 1]
              p == order[i + 1]
              g == t.waitingReadParamNameMap
              h == u.waitingReadParamNameMap
  <2>1. I(i) /\ i + 1 \in 1 .. n /\ i + 1 \in i + 1 .. n
    BY <1>2, <1>6
  <2>2. u = RetryRead(t, p) /\ p \in DOMAIN g /\ p \in D
    <3>1. u = RetryRead(turn[i + 1 - 1], p) /\ i + 1 - 1 = i
      BY <1>4, <2>1
    <3>. QED  BY <3>1, <2>1, <1>3
  <2>3. Reread(s, t) /\ ManagerOK(t)
    BY <2>1 DEF Reread, NotReads
  <2>4. /\ Reread(t, u)
        /\ NoReads(t) => Spent(g, h)
        /\ DOMAIN g \ {p} \subseteq DOMAIN h
    <3>. HIDE DEF t, u, p
    <3>. QED  BY <2>2, <2>3, RetryReadRereads
  <2>5. Tried(f, MaxReadWriteRetry) /\ Tried(g, MaxReadWriteRetry) /\ Tried(h, MaxReadWriteRetry)
    BY <2>3, <2>4 DEF Reread, ManagerOK
  <2>6. Fewer(f, h) /\ (Spent(f, g) \/ Spent(g, h) => Spent(f, h))
    <3>1. Fewer(f, g) /\ Fewer(g, h) /\ MaxReadWriteRetry \in Nat
      BY <2>3, <2>4, ParameterAssumption DEF Reread
    <3>. HIDE DEF f, g, h
    <3>. QED  BY <2>5, <3>1, FewerSpent
  <2>7. Reread(s, u)
    BY <2>3, <2>4, <2>6 DEF Reread
  <2>8. Spent(f, h)
    <3>1. CASE i = 0
      BY <3>1, <1>4, <2>4, <2>6
    <3>2. CASE i > 0
      BY <3>2, <2>1, <2>6
    <3>. QED  BY <3>1, <3>2
  <2>10. ASSUME NEW j \in i + 1 + 1 .. n
         PROVE  order[j] \in DOMAIN h
    <3>1. j \in i + 1 .. n /\ j \in 1 .. n /\ j # i + 1
      BY <1>2
    <3>2. order[j] \in DOMAIN g /\ order[j] # p
      BY <2>1, <1>2, <3>1
    <3>. QED  BY <3>2, <2>4
  <2>. QED  BY <2>7, <2>8, <2>10
<1>7. I(n)
  <2>1. n \in S
    <3>. HIDE DEF S
    <3>. QED  BY <1>2, <1>5, <1>6, Induction
  <2>. QED  BY <2>1, <1>2
<1>. QED  BY <1>3, <1>4, <1>7 DEF order

--------------------------------------------------------------------------------
(***************************************************************************)
(* A value comes.  Complete states what ready parameters promise.          *)
(***************************************************************************)
Complete(s) == \A comp \in s.paramCountMap : ParamsOf(comp) \subseteq DOMAIN s.factMap

NotMore(s, t) ==
    /\ Fewer(s.waitingReadParamIndexMap, t.waitingReadParamIndexMap)
    /\ Fewer(s.waitingReadParamNameMap, t.waitingReadParamNameMap)
    /\ Fewer(s.waitingWriteParamNameMap, t.waitingWriteParamNameMap)

NotReady(s) ==
    << s.waitingReadParamIndexMap, s.waitingReadParamNameMap, s.waitingWriteParamNameMap,
       s.paramCountMap, s.factMap, s.failedReadParamIndexMap, s.indexBatchQueueActive,
       s.indexBatchQueue, s.waitingForDefaultComponent, s.prevReads,
       s.initialRequestRetryCount, s.initialRequestTimer, s.waitingParamTimer,
       s.cache, s.outbox, s.writesFailed >>

(* Only a load that waits for nothing becomes ready. *)
LEMMA CheckIs ==
    ASSUME NEW s, ManagerOK(s)
    PROVE  LET t == CheckInitialLoadComplete(s)
           IN  /\ ManagerOK(t) /\ NotReady(t) = NotReady(s)
               /\ s.parametersReady => t = s
               /\ t.parametersReady /\ ~s.parametersReady =>
                     /\ DOMAIN t.waitingReadParamIndexMap = {}
                     /\ ~t.missingParameters => t.failedReadParamIndexMap = {}
               /\ ~t.parametersReady => DOMAIN t.waitingReadParamIndexMap # {} \/ ~HasDefault(t)
<1>. DEFINE t == CheckInitialLoadComplete(s)
            missing == s.failedReadParamIndexMap # {}
<1>1. Fields(s) /\ s.parametersReady \in BOOLEAN
  BY DEF ManagerOK
<1>2. CASE s.parametersReady \/ DOMAIN s.waitingReadParamIndexMap # {} \/ ~HasDefault(s)
  <2>1. t = s
    BY <1>2 DEF CheckInitialLoadComplete
  <2>. QED  BY <1>2, <2>1
<1>3. CASE ~(s.parametersReady \/ DOMAIN s.waitingReadParamIndexMap # {} \/ ~HasDefault(s))
  <2>1. t = [s EXCEPT !.parametersReady = TRUE, !.missingParameters = missing]
    BY <1>3 DEF CheckInitialLoadComplete
  <2>2. missing \in BOOLEAN
    OBVIOUS
  <2>3. t.parametersReady = TRUE /\ t.missingParameters = missing
    BY <1>1, <2>1 DEF Fields
  <2>4. NotReady(t) = NotReady(s)
    BY <1>1, <2>1 DEF Fields, NotReady
  <2>5. ManagerOK(t)
    <3>. HIDE DEF missing
    <3>. QED  BY <2>1, <2>2, <2>3, <1>1 DEF ManagerOK, Fields
  <2>6. /\ t.failedReadParamIndexMap = s.failedReadParamIndexMap
        /\ t.waitingReadParamIndexMap = s.waitingReadParamIndexMap
    BY <2>4 DEF NotReady
  <2>. HIDE DEF t
  <2>7. t.parametersReady
    BY <2>3
  <2>8. ~t.missingParameters => t.failedReadParamIndexMap = {}
    BY <2>3, <2>6
  <2>. QED  BY <1>3, <2>4, <2>5, <2>6, <2>7, <2>8 DEF t
<1>. QED  BY <1>2, <1>3

NotSeen(s) ==
    << s.waitingReadParamNameMap, s.waitingWriteParamNameMap,
       s.factMap, s.failedReadParamIndexMap, s.indexBatchQueueActive,
       s.indexBatchQueue, s.waitingForDefaultComponent, s.prevReads, s.parametersReady,
       s.missingParameters, s.initialRequestRetryCount, s.initialRequestTimer,
       s.waitingParamTimer, s.cache, s.outbox, s.writesFailed >>

(* All parameters of a new component are waited for. *)
LEMMA SeenIs ==
    ASSUME NEW s, ManagerOK(s), NEW comp \in Components
    PROVE  LET t == ComponentSeen(s, comp)
           IN  /\ ManagerOK(t) /\ NotSeen(t) = NotSeen(s)
               /\ t.paramCountMap = s.paramCountMap \cup {comp}
               /\ Accounted(s, {}) => Accounted(t, {})
               /\ comp \in s.paramCountMap => t = s
<1>. DEFINE t == ComponentSeen(s, comp)
            f == s.waitingReadParamIndexMap
            g == [p \in DOMAIN f \cup ParamsOf(comp) |-> IF p \in DOMAIN f THEN f[p] ELSE 0]
<1>1. Fields(s) /\ Tried(f, MaxIndexRetry) /\ s.paramCountMap \subseteq Components
  BY DEF ManagerOK
<1>2. CASE comp \in s.paramCountMap
  <2>1. t = s
    BY <1>2 DEF ComponentSeen
  <2>. QED  BY <1>2, <2>1
<1>3. CASE comp \notin s.paramCountMap
  <2>1. t = [s EXCEPT !.paramCountMap = s.paramCountMap \cup {comp}, !.waitingReadParamIndexMap = g]
    BY <1>3 DEF ComponentSeen
  <2>2. DOMAIN g = DOMAIN f \cup ParamsOf(comp)
    OBVIOUS
  <2>3. Tried(g, MaxIndexRetry)
    <3>1. ParamsOf(comp) \subseteq Params
      BY DEF Params
    <3>2. \A p \in DOMAIN g : g[p] \in 0 .. MaxIndexRetry
      BY <1>1, ParameterAssumption DEF Tried
    <3>. QED  BY <1>1, <2>2, <3>1, <3>2 DEF Tried
  <2>. HIDE DEF g
  <2>4. /\ t.waitingReadParamIndexMap = g /\ t.paramCountMap = s.paramCountMap \cup {comp}
        /\ NotSeen(t) = NotSeen(s)
    BY <1>1, <2>1 DEF Fields, NotSeen
  <2>5. ManagerOK(t)
    BY <1>1, <2>1, <2>3, <2>4 DEF ManagerOK, Fields
  <2>6. t.factMap = s.factMap /\ t.failedReadParamIndexMap = s.failedReadParamIndexMap
    BY <2>4 DEF NotSeen
  <2>. HIDE DEF t
  <2>7. Accounted(s, {}) => Accounted(t, {})
    BY <2>2, <2>4, <2>6 DEF Accounted
  <2>. QED  BY <1>3, <2>4, <2>5, <2>7 DEF t
<1>. QED  BY <1>2, <1>3

LEMMA LessOne ==
    ASSUME NEW f, NEW max \in Nat, Tried(f, max), NEW p
    PROVE  /\ Tried(Without(f, {p}), max) /\ Fewer(f, Without(f, {p}))
           /\ DOMAIN Without(f, {p}) = DOMAIN f \ {p}
<1>. DEFINE g == Without(f, {p})
<1>1. DOMAIN g = DOMAIN f \ {p} /\ \A q \in DOMAIN g : g[q] = f[q]
  BY DEF Without, Restrict
<1>2. \A q \in DOMAIN f : f[q] \in 0 .. max /\ f[q] <= f[q]
  BY DEF Tried
<1>. HIDE DEF g
<1>3. Tried(g, max) /\ Fewer(f, g)
  BY <1>1, <1>2 DEF Tried, Fewer
<1>. QED  BY <1>1, <1>3 DEF g

NotWaits(s) ==
    << s.paramCountMap, s.factMap, s.indexBatchQueueActive,
       s.waitingForDefaultComponent, s.prevReads, s.parametersReady,
       s.missingParameters, s.initialRequestRetryCount, s.initialRequestTimer,
       s.waitingParamTimer, s.cache, s.writesFailed >>

(* A value ends the waits for its parameter and no others but those given up. *)
LEMMA WaitsEnded ==
    ASSUME NEW s, ManagerOK(s), NEW msg, msg.indexed \in BOOLEAN
    PROVE  LET t == EndWaits(s, msg)
           IN  /\ ManagerOK(t) /\ NotWaits(t) = NotWaits(s) /\ NotMore(s, t)
               /\ DOMAIN t.waitingWriteParamNameMap = DOMAIN s.waitingWriteParamNameMap \ {msg.param}
               /\ DOMAIN s.waitingReadParamIndexMap \cup s.failedReadParamIndexMap
                    \subseteq DOMAIN t.waitingReadParamIndexMap \cup t.failedReadParamIndexMap
                                \cup {msg.param}
               /\ NoSets(s) => NoSets(t)
<1>. DEFINE p == msg.param
            f == s.waitingReadParamIndexMap
            less == Without(f, {p})
            u == [s EXCEPT !.waitingReadParamIndexMap = less,
                           !.indexBatchQueue = s.indexBatchQueue \ {p[2]}]
            filled == IF msg.indexed /\ p \in DOMAIN f THEN FillIndexBatchQueue(u, FALSE) ELSE s
            reads == Without(filled.waitingReadParamNameMap, {p})
            writes == Without(filled.waitingWriteParamNameMap, {p})
            t == [filled EXCEPT !.waitingReadParamNameMap = reads,
                                !.waitingWriteParamNameMap = writes]
<1>1. /\ Fields(s) /\ Tried(f, MaxIndexRetry) /\ Tried(s.waitingReadParamNameMap, MaxReadWriteRetry)
      /\ Tried(s.waitingWriteParamNameMap, MaxReadWriteRetry)
      /\ MaxReadWriteRetry \in Nat /\ MaxIndexRetry \in Nat
  BY ParameterAssumption DEF ManagerOK
<1>2. EndWaits(s, msg) = t
  BY DEF EndWaits
<1>3. Tried(less, MaxIndexRetry) /\ Fewer(f, less) /\ DOMAIN less = DOMAIN f \ {p}
  <2>. HIDE DEF p, f
  <2>. QED  BY <1>1, LessOne
<1>. HIDE DEF less
<1>4. /\ ManagerOK(filled) /\ NotWaits(filled) = NotWaits(s)
      /\ filled.waitingReadParamNameMap = s.waitingReadParamNameMap
      /\ filled.waitingWriteParamNameMap = s.waitingWriteParamNameMap
      /\ Fewer(f, filled.waitingReadParamIndexMap)
      /\ DOMAIN f \cup s.failedReadParamIndexMap
           \subseteq DOMAIN filled.waitingReadParamIndexMap \cup filled.failedReadParamIndexMap \cup {p}
      /\ NoSets(s) => NoSets(filled)
  <2>1. CASE msg.indexed /\ p \in DOMAIN f
    <3>1. filled = FillIndexBatchQueue(u, FALSE)
      BY <2>1
    <3>2. /\ u.waitingReadParamNameMap = s.waitingReadParamNameMap
          /\ u.waitingWriteParamNameMap = s.waitingWriteParamNameMap
          /\ u.waitingReadParamIndexMap = less /\ u.outbox = s.outbox
          /\ u.failedReadParamIndexMap = s.failedReadParamIndexMap
          /\ NotWaits(u) = NotWaits(s)
      BY <1>1 DEF Fields, NotWaits
    <3>3. ManagerOK(u)
      BY <1>3, <3>2 DEF ManagerOK, Fields
    <3>. HIDE DEF u, filled
    <3>4. Asked(u, filled)
      BY <3>1, <3>3, FillAsks
    <3>5. /\ ManagerOK(filled) /\ Others(filled) = Others(u)
          /\ Fewer(less, filled.waitingReadParamIndexMap)
          /\ DOMAIN less \cup s.failedReadParamIndexMap
               \subseteq DOMAIN filled.waitingReadParamIndexMap \cup filled.failedReadParamIndexMap
          /\ NoSets(u) => NoSets(filled)
      BY <3>2, <3>4 DEF Asked
    <3>6. /\ NotWaits(filled) = NotWaits(s)
          /\ filled.waitingReadParamNameMap = s.waitingReadParamNameMap
          /\ filled.waitingWriteParamNameMap = s.waitingWriteParamNameMap
      BY <3>2, <3>5 DEF NotWaits, Others
    <3>7. Fewer(f, filled.waitingReadParamIndexMap)
      <4>1. Tried(filled.waitingReadParamIndexMap, MaxIndexRetry)
        BY <3>5 DEF ManagerOK
      <4>. HIDE DEF f
      <4>. QED  BY <1>1, <1>3, <3>5, <4>1, FewerSpent
    <3>8. NoSets(s) => NoSets(filled)
      BY <3>2, <3>5 DEF NoSets
    <3>. QED  BY <1>3, <3>5, <3>6, <3>7, <3>8
  <2>2. CASE ~(msg.indexed /\ p \in DOMAIN f)
    <3>1. filled = s
      BY <2>2
    <3>. HIDE DEF filled
    <3>2. Fewer(f, f)
      BY <1>1 DEF Fewer, Tried
    <3>. QED  BY <3>1, <3>2
  <2>. QED  BY <2>1, <2>2
<1>. HIDE DEF filled
<1>5. /\ Tried(reads, MaxReadWriteRetry) /\ Fewer(s.waitingReadParamNameMap, reads)
      /\ Tried(writes, MaxReadWriteRetry) /\ Fewer(s.waitingWriteParamNameMap, writes)
      /\ DOMAIN writes = DOMAIN s.waitingWriteParamNameMap \ {p}
  <2>. HIDE DEF p
  <2>. QED  BY <1>1, <1>4, LessOne
<1>. HIDE DEF reads, writes
<1>6. /\ t.waitingReadParamNameMap = reads /\ t.waitingWriteParamNameMap = writes
      /\ t.waitingReadParamIndexMap = filled.waitingReadParamIndexMap /\ t.outbox = filled.outbox
      /\ t.failedReadParamIndexMap = filled.failedReadParamIndexMap
      /\ NotWaits(t) = NotWaits(filled)
  BY <1>4 DEF ManagerOK, Fields, NotWaits
<1>7. ManagerOK(t)
  BY <1>4, <1>5, <1>6 DEF ManagerOK, Fields
<1>. HIDE DEF t
<1>8. NotMore(s, t)
  BY <1>4, <1>5, <1>6 DEF NotMore
<1>9. NoSets(s) => NoSets(t)
  BY <1>4, <1>6 DEF NoSets
<1>. QED  BY <1>2, <1>4, <1>5, <1>6, <1>7, <1>8, <1>9

(* What a value changes, and what got with all its values.                 *)
Got(s, t, got) ==
    /\ ManagerOK(t) /\ (NoSets(s) => NoSets(t))
    /\ DOMAIN s.factMap \subseteq DOMAIN t.factMap
    /\ \A q \in DOMAIN t.factMap :
          \/ q \in DOMAIN s.factMap /\ t.factMap[q] = s.factMap[q]
          \/ /\ q \in DOMAIN got /\ t.factMap[q] = got[q]
             /\ q \notin DOMAIN t.waitingWriteParamNameMap
    /\ DOMAIN t.waitingWriteParamNameMap \subseteq DOMAIN s.waitingWriteParamNameMap
    /\ \A q \in DOMAIN s.waitingWriteParamNameMap \ DOMAIN t.waitingWriteParamNameMap :
          q \in DOMAIN got /\ q \in DOMAIN t.factMap /\ t.factMap[q] = got[q]
    /\ t.writesFailed = s.writesFailed
    /\ s.paramCountMap \subseteq t.paramCountMap
    /\ t.paramCountMap = s.paramCountMap => NotMore(s, t)
    /\ t.initialRequestRetryCount = s.initialRequestRetryCount
    /\ Accounted(s, {}) => Accounted(t, {})
    /\ s.parametersReady => t.parametersReady /\ t.missingParameters = s.missingParameters
    /\ Accounted(s, {}) /\ ~s.parametersReady /\ t.parametersReady /\ ~t.missingParameters
          => Complete(t)

Single(p, v) == [q \in {p} |-> v]

LEMMA CacheIs ==
    ASSUME NEW s, NEW t, NEW comp, Fields(t)
    PROVE  \/ UpdateCache(s, t, comp) = t
           \/ UpdateCache(s, t, comp) = [t EXCEPT !.cache = UpdateCache(s, t, comp).cache]
<1>. DEFINE u == UpdateCache(s, t, comp)
            known == Restrict(t.factMap, Known(t, comp))
            cache == [t.cache EXCEPT ![comp] = known]
<1>1. CASE Px4Firmware /\ s.prevReads /\ WaitingReads(t) = {}
  <2>1. u = [t EXCEPT !.cache = cache]
    BY <1>1 DEF UpdateCache
  <2>. HIDE DEF cache
  <2>. HIDE DEF u
  <2>2. u.cache = cache
    BY <2>1 DEF Fields
  <2>. QED  BY <2>1, <2>2 DEF u
<1>2. CASE ~(Px4Firmware /\ s.prevReads /\ WaitingReads(t) = {})
  <2>1. u = t
    BY <1>2 DEF UpdateCache
  <2>. QED  BY <2>1
<1>. QED  BY <1>1, <1>2

LEMMA ParamHasComponent ==
    ASSUME NEW p \in Params
    PROVE  p[1] \in Components /\ p \in ParamsOf(p[1])
<1>1. PICK c \in Components : p \in ParamsOf(c)
  BY DEF Params
<1>2. p[1] = c
  BY <1>1 DEF ParamsOf
<1>. QED  BY <1>1, <1>2

(* What a value changes, whatever it is an answer to. *)
LEMMA ReceiveIs ==
    ASSUME NEW s, ManagerOK(s), NEW msg, msg.indexed \in BOOLEAN, msg.param \in Params
    PROVE  LET t == Receive(s, msg)
           IN  /\ Got(s, t, Single(msg.param, msg.value)) /\ Timed(t)
               /\ t.paramCountMap = s.paramCountMap \cup {msg.param[1]}
<1>. DEFINE p == msg.param
            v == msg.value
            a == [s EXCEPT !.initialRequestTimer = FALSE]
            b == ComponentSeen(a, p[1])
            w == EndWaits(b, msg)
            timer == Waiting(w) # {} \/ ~HasDefault(w)
            facts == With(w.factMap, p, v)
            prev == WaitingReads(w) # {}
            stored == [w EXCEPT !.waitingParamTimer = timer, !.factMap = facts, !.prevReads = prev]
            kept == UpdateCache(s, stored, p[1])
            t == CheckInitialLoadComplete(kept)
<1>1. Receive(s, msg) = t
  BY DEF Receive
<1>2. Fields(s) /\ p[1] \in Components
  BY ParamHasComponent DEF ManagerOK
<1>3. /\ a.paramCountMap = s.paramCountMap /\ a.factMap = s.factMap /\ a.outbox = s.outbox
      /\ a.waitingReadParamIndexMap = s.waitingReadParamIndexMap
      /\ a.waitingReadParamNameMap = s.waitingReadParamNameMap
      /\ a.waitingWriteParamNameMap = s.waitingWriteParamNameMap
      /\ a.failedReadParamIndexMap = s.failedReadParamIndexMap
      /\ a.parametersReady = s.parametersReady /\ a.missingParameters = s.missingParameters
      /\ a.initialRequestRetryCount = s.initialRequestRetryCount /\ a.writesFailed = s.writesFailed
  BY <1>2 DEF Fields
<1>4. ManagerOK(a)
  BY <1>2 DEF ManagerOK, Fields
<1>. HIDE DEF a
<1>5. /\ ManagerOK(b) /\ NotSeen(b) = NotSeen(a) /\ b.paramCountMap = a.paramCountMap \cup {p[1]}
      /\ Accounted(a, {}) => Accounted(b, {})
      /\ p[1] \in a.paramCountMap => b = a
  <2>. HIDE DEF p
  <2>. QED  BY <1>2, <1>4, SeenIs
<1>. HIDE DEF b
<1>6. /\ ManagerOK(w) /\ NotWaits(w) = NotWaits(b) /\ NotMore(b, w)
      /\ DOMAIN w.waitingWriteParamNameMap = DOMAIN b.waitingWriteParamNameMap \ {p}
      /\ DOMAIN b.waitingReadParamIndexMap \cup b.failedReadParamIndexMap
           \subseteq DOMAIN w.waitingReadParamIndexMap \cup w.failedReadParamIndexMap \cup {p}
      /\ NoSets(b) => NoSets(w)
  BY <1>5, WaitsEnded
<1>. HIDE DEF w
<1>. HIDE DEF timer, facts, prev
<1>7. /\ stored.waitingParamTimer = timer /\ stored.factMap = facts
      /\ stored.paramCountMap = w.paramCountMap /\ stored.outbox = w.outbox
      /\ stored.waitingReadParamIndexMap = w.waitingReadParamIndexMap
      /\ stored.waitingReadParamNameMap = w.waitingReadParamNameMap
      /\ stored.waitingWriteParamNameMap = w.waitingWriteParamNameMap
      /\ stored.failedReadParamIndexMap = w.failedReadParamIndexMap
      /\ stored.parametersReady = w.parametersReady /\ stored.missingParameters = w.missingParameters
      /\ stored.initialRequestRetryCount = w.initialRequestRetryCount
      /\ stored.writesFailed = w.writesFailed
  BY <1>6 DEF ManagerOK, Fields
<1>8. /\ DOMAIN facts = DOMAIN w.factMap \cup {p} /\ facts[p] = v
      /\ \A q \in DOMAIN w.factMap \ {p} : facts[q] = w.factMap[q]
  <2>. HIDE DEF p, v
  <2>. QED  BY DEF facts, With
<1>9. ManagerOK(stored)
  <2>1. DOMAIN facts \subseteq Params
    BY <1>6, <1>8 DEF ManagerOK
  <2>2. timer \in BOOLEAN
    BY DEF timer
  <2>. QED  BY <1>6, <2>1, <2>2 DEF ManagerOK, Fields
<1>. HIDE DEF stored
<1>10. kept = stored \/ kept = [stored EXCEPT !.cache = kept.cache]
  BY <1>9, CacheIs DEF ManagerOK
<1>. HIDE DEF kept
<1>11. /\ kept.waitingParamTimer = timer /\ kept.factMap = facts
       /\ kept.paramCountMap = w.paramCountMap /\ kept.outbox = w.outbox
       /\ kept.waitingReadParamIndexMap = w.waitingReadParamIndexMap
       /\ kept.waitingReadParamNameMap = w.waitingReadParamNameMap
       /\ kept.waitingWriteParamNameMap = w.waitingWriteParamNameMap
       /\ kept.failedReadParamIndexMap = w.failedReadParamIndexMap
       /\ kept.parametersReady = w.parametersReady /\ kept.missingParameters = w.missingParameters
       /\ kept.initialRequestRetryCount = w.initialRequestRetryCount
       /\ kept.writesFailed = w.writesFailed
  BY <1>7, <1>9, <1>10 DEF ManagerOK, Fields
<1>12. ManagerOK(kept)
  <2>1. Fields(kept) /\ kept.indexBatchQueueActive = stored.indexBatchQueueActive
        /\ kept.waitingForDefaultComponent = stored.waitingForDefaultComponent
        /\ kept.initialRequestTimer = stored.initialRequestTimer
    BY <1>9, <1>10 DEF ManagerOK, Fields
  <2>. QED  BY <1>7, <1>9, <1>11, <2>1 DEF ManagerOK
<1>13. /\ ManagerOK(t) /\ NotReady(t) = NotReady(kept)
       /\ kept.parametersReady => t = kept
       /\ t.parametersReady /\ ~kept.parametersReady =>
             /\ DOMAIN t.waitingReadParamIndexMap = {}
             /\ ~t.missingParameters => t.failedReadParamIndexMap = {}
       /\ ~t.parametersReady => DOMAIN t.waitingReadParamIndexMap # {} \/ ~HasDefault(t)
  BY <1>12, CheckIs
<1>. HIDE DEF t
<1>14. /\ t.waitingParamTimer = timer /\ t.factMap = facts
       /\ t.paramCountMap = w.paramCountMap /\ t.outbox = w.outbox
       /\ t.waitingReadParamIndexMap = w.waitingReadParamIndexMap
       /\ t.waitingReadParamNameMap = w.waitingReadParamNameMap
       /\ t.waitingWriteParamNameMap = w.waitingWriteParamNameMap
       /\ t.failedReadParamIndexMap = w.failedReadParamIndexMap
       /\ t.initialRequestRetryCount = w.initialRequestRetryCount
       /\ t.writesFailed = w.writesFailed
  BY <1>11, <1>13 DEF NotReady
<1>15. /\ w.paramCountMap = s.paramCountMap \cup {p[1]} /\ w.factMap = s.factMap
       /\ w.writesFailed = s.writesFailed
       /\ w.initialRequestRetryCount = s.initialRequestRetryCount
       /\ w.parametersReady = s.parametersReady /\ w.missingParameters = s.missingParameters
       /\ b.waitingWriteParamNameMap = s.waitingWriteParamNameMap /\ b.outbox = s.outbox
       /\ b.failedReadParamIndexMap = s.failedReadParamIndexMap
       /\ b.factMap = s.factMap
  BY <1>3, <1>5, <1>6 DEF NotWaits, NotSeen
<1>16. NoSets(s) => NoSets(t)
  BY <1>6, <1>14, <1>15 DEF NoSets
<1>17. Accounted(s, {}) => Accounted(t, {})
  <2>1. Accounted(s, {}) => Accounted(a, {})
    BY <1>3 DEF Accounted
  <2>2. Accounted(b, {}) => Accounted(t, {})
    BY <1>6, <1>8, <1>14, <1>15, <1>3, <1>5 DEF Accounted
  <2>. QED  BY <2>1, <2>2, <1>5
<1>18. ASSUME t.paramCountMap = s.paramCountMap
       PROVE  NotMore(s, t)
  <2>1. b = a
    BY <1>3, <1>5, <1>14, <1>15, <1>18
  <2>. QED  BY <2>1, <1>3, <1>6, <1>14 DEF NotMore
<1>19. ASSUME Accounted(s, {}), ~s.parametersReady, t.parametersReady, ~t.missingParameters
       PROVE  Complete(t)
  <2>1. DOMAIN t.waitingReadParamIndexMap = {} /\ t.failedReadParamIndexMap = {}
    BY <1>11, <1>13, <1>15, <1>19
  <2>. QED  BY <2>1, <1>17, <1>19 DEF Accounted, Complete
<1>20. s.parametersReady => t.parametersReady /\ t.missingParameters = s.missingParameters
  BY <1>11, <1>13, <1>15
<1>21. Timed(t)
  <2>1. Named(t) # {} => timer
    BY <1>14 DEF Named, timer, Waiting, WaitingReads
  <2>2. ~t.parametersReady /\ HasDefault(t) => timer
    BY <1>13, <1>14 DEF timer, Waiting, WaitingReads
  <2>. QED  BY <2>1, <2>2, <1>14 DEF Timed
<1>22. \A q \in DOMAIN t.factMap :
          \/ q \in DOMAIN s.factMap /\ t.factMap[q] = s.factMap[q]
          \/ /\ q \in DOMAIN Single(p, v) /\ t.factMap[q] = Single(p, v)[q]
             /\ q \notin DOMAIN t.waitingWriteParamNameMap
  BY <1>6, <1>8, <1>14, <1>15 DEF Single
<1>23. \A q \in DOMAIN s.waitingWriteParamNameMap \ DOMAIN t.waitingWriteParamNameMap :
          q \in DOMAIN Single(p, v) /\ q \in DOMAIN t.factMap /\ t.factMap[q] = Single(p, v)[q]
  BY <1>6, <1>8, <1>14, <1>15 DEF Single
<1>24. Got(s, t, Single(p, v))
  <2>1. /\ ManagerOK(t) /\ DOMAIN s.factMap \subseteq DOMAIN t.factMap
        /\ DOMAIN t.waitingWriteParamNameMap \subseteq DOMAIN s.waitingWriteParamNameMap
        /\ t.writesFailed = s.writesFailed /\ s.paramCountMap \subseteq t.paramCountMap
        /\ t.initialRequestRetryCount = s.initialRequestRetryCount
    BY <1>6, <1>8, <1>13, <1>14, <1>15
  <2>. HIDE DEF p, v
  <2>. QED  BY <2>1, <1>16, <1>17, <1>18, <1>19, <1>20, <1>22, <1>23 DEF Got
<1>. QED  BY <1>1, <1>14, <1>15, <1>21, <1>24

LEMMA FewerItself ==
    ASSUME NEW s, ManagerOK(s)
    PROVE  NotMore(s, s)
BY DEF NotMore, Fewer, ManagerOK, Tried

LEMMA NothingGot ==
    ASSUME NEW s, ManagerOK(s), NEW got
    PROVE  Got(s, s, got)
BY FewerItself DEF Got

LEMMA NotMoreTwice ==
    ASSUME NEW s, NEW t, NEW u, ManagerOK(s), ManagerOK(t), ManagerOK(u), NotMore(s, t), NotMore(t, u)
    PROVE  NotMore(s, u)
<1>1. MaxReadWriteRetry \in Nat /\ MaxIndexRetry \in Nat
  BY ParameterAssumption
<1>2. Fewer(s.waitingReadParamIndexMap, u.waitingReadParamIndexMap)
  BY <1>1, FewerSpent DEF NotMore, ManagerOK
<1>3. Fewer(s.waitingReadParamNameMap, u.waitingReadParamNameMap)
  BY <1>1, FewerSpent DEF NotMore, ManagerOK
<1>4. Fewer(s.waitingWriteParamNameMap, u.waitingWriteParamNameMap)
  BY <1>1, FewerSpent DEF NotMore, ManagerOK
<1>. QED  BY <1>2, <1>3, <1>4 DEF NotMore

(* One more value of those on disk. *)
LEMMA GotMore ==
    ASSUME NEW s, NEW t, NEW u, NEW got, NEW q \in DOMAIN got,
           ManagerOK(s), Got(s, t, got), Got(t, u, Single(q, got[q])),
           u.paramCountMap = t.paramCountMap \cup {q[1]},
           t.parametersReady /\ ~s.parametersReady => q[1] \in t.paramCountMap
    PROVE  Got(s, u, got)
<1>. DEFINE one == Single(q, got[q])
<1>1. DOMAIN one = {q} /\ one[q] = got[q]
  BY DEF Single
<1>. HIDE DEF one
<1>2. ManagerOK(t) /\ ManagerOK(u) /\ (NoSets(s) => NoSets(u))
  BY DEF Got
<1>3. \A p \in DOMAIN u.factMap :
         \/ p \in DOMAIN t.factMap /\ u.factMap[p] = t.factMap[p]
         \/ p = q /\ u.factMap[p] = got[q] /\ p \notin DOMAIN u.waitingWriteParamNameMap
  BY <1>1 DEF Got, one
<1>4. \A p \in DOMAIN u.factMap :
         \/ p \in DOMAIN s.factMap /\ u.factMap[p] = s.factMap[p]
         \/ /\ p \in DOMAIN got /\ u.factMap[p] = got[p]
            /\ p \notin DOMAIN u.waitingWriteParamNameMap
  BY <1>3 DEF Got
<1>5. ASSUME NEW p \in DOMAIN s.waitingWriteParamNameMap \ DOMAIN u.waitingWriteParamNameMap
      PROVE  p \in DOMAIN got /\ p \in DOMAIN u.factMap /\ u.factMap[p] = got[p]
  <2>1. CASE p \in DOMAIN t.waitingWriteParamNameMap
    <3>1. p \in DOMAIN one /\ p \in DOMAIN u.factMap /\ u.factMap[p] = one[p]
      BY <2>1, <1>5 DEF Got, one
    <3>. QED  BY <3>1, <1>1
  <2>2. CASE p \notin DOMAIN t.waitingWriteParamNameMap
    <3>1. p \in DOMAIN got /\ p \in DOMAIN t.factMap /\ t.factMap[p] = got[p]
      BY <2>2, <1>5 DEF Got
    <3>2. p \in DOMAIN u.factMap
      BY <3>1 DEF Got
    <3>. QED  BY <3>1, <3>2, <1>3
  <2>. QED  BY <2>1, <2>2
<1>6. ASSUME u.paramCountMap = s.paramCountMap
      PROVE  NotMore(s, u)
  <2>1. t.paramCountMap = s.paramCountMap
    BY <1>6 DEF Got
  <2>2. NotMore(s, t) /\ NotMore(t, u)
    BY <1>6, <2>1 DEF Got
  <2>. QED  BY <2>2, <1>2, NotMoreTwice
<1>7. ASSUME Accounted(s, {}), ~s.parametersReady, u.parametersReady, ~u.missingParameters
      PROVE  Complete(u)
  <2>1. CASE t.parametersReady
    <3>1. t.missingParameters = u.missingParameters
      BY <2>1 DEF Got
    <3>2. Complete(t)
      BY <2>1, <3>1, <1>7 DEF Got
    <3>3. u.paramCountMap = t.paramCountMap /\ DOMAIN t.factMap \subseteq DOMAIN u.factMap
      BY <2>1, <1>7 DEF Got
    <3>. QED  BY <3>2, <3>3 DEF Complete
  <2>2. CASE ~t.parametersReady
    <3>1. Accounted(t, {})
      BY <1>7 DEF Got
    <3>. QED  BY <2>2, <3>1, <1>7 DEF Got
  <2>. QED  BY <2>1, <2>2
<1>8. /\ DOMAIN s.factMap \subseteq DOMAIN u.factMap
      /\ DOMAIN u.waitingWriteParamNameMap \subseteq DOMAIN s.waitingWriteParamNameMap
      /\ u.writesFailed = s.writesFailed
      /\ s.paramCountMap \subseteq u.paramCountMap
      /\ u.initialRequestRetryCount = s.initialRequestRetryCount
      /\ Accounted(s, {}) => Accounted(u, {})
      /\ s.parametersReady => u.parametersReady /\ u.missingParameters = s.missingParameters
  BY DEF Got
<1>. QED  BY <1>2, <1>4, <1>5, <1>6, <1>7, <1>8 DEF Got

LEMMA ValueIsGot ==
    ASSUME NEW s, ManagerOK(s), Timed(s), NEW msg, msg.indexed \in BOOLEAN, msg.param \in Params
    PROVE  /\ Got(s, HandleParamValue(s, msg), Single(msg.param, msg.value))
           /\ Timed(HandleParamValue(s, msg))
<1>1. CASE ~msg.indexed /\ s.initialRequestTimer
  <2>1. HandleParamValue(s, msg) = s
    BY <1>1 DEF HandleParamValue
  <2>. QED  BY <2>1, NothingGot
<1>2. CASE ~(~msg.indexed /\ s.initialRequestTimer)
  <2>1. HandleParamValue(s, msg) = Receive(s, msg)
    BY <1>2 DEF HandleParamValue
  <2>. QED  BY <2>1, ReceiveIs
<1>. QED  BY <1>1, <1>2

LEMMA TimerStopped ==
    ASSUME NEW s, ManagerOK(s), Timed(s), NEW got
    PROVE  LET t == [s EXCEPT !.initialRequestTimer = FALSE]
           IN  /\ Got(s, t, got) /\ Timed(t)
               /\ t.parametersReady = s.parametersReady /\ t.paramCountMap = s.paramCountMap
<1>. DEFINE t == [s EXCEPT !.initialRequestTimer = FALSE]
<1>1. Fields(s)
  BY DEF ManagerOK
<1>2. /\ t.paramCountMap = s.paramCountMap /\ t.factMap = s.factMap /\ t.outbox = s.outbox
      /\ t.waitingReadParamIndexMap = s.waitingReadParamIndexMap
      /\ t.waitingReadParamNameMap = s.waitingReadParamNameMap
      /\ t.waitingWriteParamNameMap = s.waitingWriteParamNameMap
      /\ t.failedReadParamIndexMap = s.failedReadParamIndexMap
      /\ t.parametersReady = s.parametersReady /\ t.missingParameters = s.missingParameters
      /\ t.initialRequestRetryCount = s.initialRequestRetryCount /\ t.writesFailed = s.writesFailed
      /\ t.waitingParamTimer = s.waitingParamTimer
  BY <1>1 DEF Fields
<1>3. ManagerOK(t)
  BY <1>1 DEF ManagerOK, Fields
<1>. HIDE DEF t
<1>4. Timed(t)
  BY <1>2 DEF Timed, Named, HasDefault, Known
<1>5. NotMore(s, t)
  BY <1>2, FewerItself DEF NotMore
<1>6. Accounted(s, {}) => Accounted(t, {})
  BY <1>2 DEF Accounted
<1>7. Got(s, t, got)
  BY <1>2, <1>3, <1>5, <1>6 DEF Got, NoSets
<1>. QED  BY <1>2, <1>4, <1>7 DEF t

(* The values on disk, one after the other. *)
LEMMA CachedIsGot ==
    ASSUME NEW s, ManagerOK(s), Timed(s), ~s.parametersReady, NEW comp \in Components,
           NEW cached, DOMAIN cached \subseteq ParamsOf(comp)
    PROVE  LET t == LoadCached([s EXCEPT !.initialRequestTimer = FALSE], cached, InOrder(DOMAIN cached))
           IN  Got(s, t, cached) /\ Timed(t)
<1>. DEFINE D == DOMAIN cached
            order == InOrder(D)
            n == Len(order)
            stopped == [s EXCEPT !.initialRequestTimer = FALSE]
<1>1. D \in SUBSET Params
  BY DEF Params
<1>2. order \in Seq(D) /\ n \in Nat
  <2>. HIDE DEF D
  <2>. QED  BY <1>1, InOrderLists
<1>3. \A i \in 1 .. n : order[i] \in D
  <2>. HIDE DEF order, D
  <2>. QED  BY <1>2
<1>. HIDE DEF order
<1>4. /\ Got(s, stopped, cached) /\ Timed(stopped)
      /\ stopped.parametersReady = s.parametersReady /\ stopped.paramCountMap = s.paramCountMap
  BY TimerStopped
<1>. HIDE DEF stopped
<1>5. PICK turn :
        /\ turn[0] = stopped /\ LoadCached(stopped, cached, order) = turn[n]
        /\ \A i \in 1 .. n :
              turn[i] = HandleParamValue(turn[i - 1], CachedMsg(cached, order[i]))
  BY <1>2, LoadCachedTurns
<1>. DEFINE I(i) == /\ Got(s, turn[i], cached) /\ Timed(turn[i])
                    /\ turn[i].parametersReady => comp \in turn[i].paramCountMap
            S == {i \in Nat : i <= n => I(i)}
<1>6. 0 \in S
  BY <1>4, <1>5
<1>7. ASSUME NEW i \in Nat, i \in S
      PROVE  i + 1 \in S
  <2>. SUFFICES ASSUME i + 1 <= n
                PROVE  I(i + 1)
    OBVIOUS
  <2>. DEFINE t == turn[i]
              u == turn[i + 1]
              q == order[i + 1]
              msg == CachedMsg(cached, q)
  <2>1. I(i) /\ i + 1 \in 1 .. n
    BY <1>2, <1>7
  <2>2. u = HandleParamValue(t, msg) /\ q \in D
    <3>1. u = HandleParamValue(turn[i + 1 - 1], msg) /\ i + 1 - 1 = i
      BY <1>5, <2>1
    <3>. QED  BY <3>1, <2>1, <1>3
  <2>3. msg.param = q /\ msg.value = cached[q] /\ msg.indexed = TRUE
    BY DEF CachedMsg, ValueMsg
  <2>4. q \in Params /\ q[1] = comp
    BY <1>1, <2>2 DEF ParamsOf
  <2>. HIDE DEF q, msg, t, u
  <2>5. u = Receive(t, msg)
    BY <2>2, <2>3 DEF HandleParamValue
  <2>6. ManagerOK(t)
    BY <2>1 DEF Got, t
  <2>7. Got(t, u, Single(q, cached[q])) /\ Timed(u) /\ u.paramCountMap = t.paramCountMap \cup {q[1]}
    <3>1. msg.indexed \in BOOLEAN /\ msg.param \in Params
      BY <2>3, <2>4
    <3>2. /\ Got(t, u, Single(msg.param, msg.value)) /\ Timed(u)
          /\ u.paramCountMap = t.paramCountMap \cup {msg.param[1]}
      BY <2>5, <2>6, <3>1, ReceiveIs
    <3>. QED  BY <3>2, <2>3
  <2>8. Got(s, u, cached)
    BY <2>1, <2>2, <2>4, <2>7, GotMore DEF t
  <2>9. comp \in u.paramCountMap
    BY <2>4, <2>7
  <2>. QED  BY <2>7, <2>8, <2>9 DEF u
<1>8. I(n)
  <2>1. n \in S
    <3>. HIDE DEF S
    <3>. QED  BY <1>2, <1>6, <1>7, Induction
  <2>. QED  BY <2>1, <1>2
<1>. QED  BY <1>5, <1>8 DEF order, stopped

LEMMA HashIsGot ==
    ASSUME NEW s, ManagerOK(s), Timed(s), NEW comp \in Components, NEW hash \in Valuations,
           DOMAIN hash \subseteq ParamsOf(comp)
    PROVE  /\ Got(s, HandleHashCheck(s, comp, hash), hash)
           /\ Timed(HandleHashCheck(s, comp, hash))
<1>. DEFINE cached == s.cache[comp]
            stopped == [s EXCEPT !.initialRequestTimer = FALSE]
<1>1. CASE s.parametersReady \/ cached # hash
  <2>1. HandleHashCheck(s, comp, hash) = stopped
    BY <1>1 DEF HandleHashCheck
  <2>. QED  BY <2>1, TimerStopped
<1>2. CASE ~(s.parametersReady \/ cached # hash)
  <2>. DEFINE t == LoadCached(stopped, hash, InOrder(DOMAIN hash))
              msg == HashMsg(comp, hash)
              u == Send(t, msg)
  <2>1. HandleHashCheck(s, comp, hash) = u
    BY <1>2 DEF HandleHashCheck
  <2>2. Got(s, t, hash) /\ Timed(t)
    BY <1>2, CachedIsGot
  <2>. HIDE DEF t
  <2>3. msg \in Requests /\ msg.kind # "SET"
    BY DEF HashMsg, Requests
  <2>4. ManagerOK(t)
    BY <2>2 DEF Got
  <2>. HIDE DEF msg
  <2>5. /\ ManagerOK(u) /\ u = [t EXCEPT !.outbox = Append(t.outbox, msg)]
        /\ NoSets(t) => NoSets(u)
    BY <2>3, <2>4, SendIs
  <2>. HIDE DEF u
  <2>6. /\ u.paramCountMap = t.paramCountMap /\ u.factMap = t.factMap
        /\ u.waitingReadParamIndexMap = t.waitingReadParamIndexMap
        /\ u.waitingReadParamNameMap = t.waitingReadParamNameMap
        /\ u.waitingWriteParamNameMap = t.waitingWriteParamNameMap
        /\ u.failedReadParamIndexMap = t.failedReadParamIndexMap
        /\ u.parametersReady = t.parametersReady /\ u.missingParameters = t.missingParameters
        /\ u.initialRequestRetryCount = t.initialRequestRetryCount /\ u.writesFailed = t.writesFailed
        /\ u.waitingParamTimer = t.waitingParamTimer
    BY <2>4, <2>5 DEF ManagerOK, Fields
  <2>7. Timed(u)
    BY <2>2, <2>6 DEF Timed, Named, HasDefault, Known
  <2>8. /\ NotMore(s, t) => NotMore(s, u)
        /\ Accounted(t, {}) => Accounted(u, {})
        /\ Complete(t) => Complete(u)
    BY <2>6 DEF NotMore, Accounted, Complete
  <2>9. Got(s, u, hash)
    BY <2>2, <2>5, <2>6, <2>8 DEF Got
  <2>. QED  BY <2>1, <2>7, <2>9
<1>. QED  BY <1>1, <1>2 DEF ManagerOK

--------------------------------------------------------------------------------
(***************************************************************************)
(* What users and the first request do.  Plain states that values and      *)
(* writes are left alone.                                                  *)
(***************************************************************************)
Plain(s, t) ==
    /\ ManagerOK(t) /\ (NoSets(s) => NoSets(t))
    /\ t.factMap = s.factMap /\ t.paramCountMap = s.paramCountMap
    /\ t.waitingWriteParamNameMap = s.waitingWriteParamNameMap
    /\ t.writesFailed = s.writesFailed
    /\ Accounted(s, {}) => Accounted(t, {})
    /\ Timed(s) => Timed(t)
    /\ Accounted(s, {}) /\ ~s.parametersReady /\ t.parametersReady /\ ~t.missingParameters
          => Complete(t)

LEMMA SentPlain ==
    ASSUME NEW s, NEW t, Plain(s, t), NEW msg \in Requests, msg.kind # "SET"
    PROVE  /\ Plain(s, Send(t, msg))
           /\ Send(t, msg).initialRequestRetryCount = t.initialRequestRetryCount
<1>. DEFINE u == Send(t, msg)
<1>1. ManagerOK(t)
  BY DEF Plain
<1>2. /\ ManagerOK(u) /\ u = [t EXCEPT !.outbox = Append(t.outbox, msg)]
      /\ NoSets(t) => NoSets(u)
  BY <1>1, SendIs
<1>. HIDE DEF u
<1>3. /\ u.paramCountMap = t.paramCountMap /\ u.factMap = t.factMap
      /\ u.waitingReadParamIndexMap = t.waitingReadParamIndexMap
      /\ u.waitingReadParamNameMap = t.waitingReadParamNameMap
      /\ u.waitingWriteParamNameMap = t.waitingWriteParamNameMap
      /\ u.failedReadParamIndexMap = t.failedReadParamIndexMap
      /\ u.parametersReady = t.parametersReady /\ u.missingParameters = t.missingParameters
      /\ u.writesFailed = t.writesFailed
      /\ u.waitingParamTimer = t.waitingParamTimer
      /\ u.initialRequestRetryCount = t.initialRequestRetryCount
  BY <1>1, <1>2 DEF ManagerOK, Fields
<1>4. Timed(t) => Timed(u)
  BY <1>3 DEF Timed, Named, HasDefault, Known
<1>5. (Accounted(t, {}) => Accounted(u, {})) /\ (Complete(t) => Complete(u))
  BY <1>3 DEF Accounted, Complete
<1>6. Plain(s, u)
  BY <1>2, <1>3, <1>4, <1>5 DEF Plain
<1>. QED  BY <1>3, <1>6 DEF u

LEMMA RefreshIsPlain ==
    ASSUME NEW s, ManagerOK(s), NEW p \in Params
    PROVE  Plain(s, RefreshParameter(s, p))
<1>. DEFINE names == With(s.waitingReadParamNameMap, p, 0)
            a == [s EXCEPT !.waitingReadParamNameMap = names, !.waitingParamTimer = TRUE]
            msg == ReadMsg(p)
<1>1. msg \in Requests /\ msg.kind # "SET"
  BY DEF ReadMsg, Requests
<1>. HIDE DEF msg
<1>2. Plain(s, s)
  BY DEF Plain
<1>3. Plain(s, a)
  <2>1. Tried(names, MaxReadWriteRetry)
    <3>1. /\ DOMAIN names = DOMAIN s.waitingReadParamNameMap \cup {p} /\ names[p] = 0
          /\ \A q \in DOMAIN s.waitingReadParamNameMap \ {p} : names[q] = s.waitingReadParamNameMap[q]
      BY DEF With
    <3>. HIDE DEF names
    <3>2. Tried(s.waitingReadParamNameMap, MaxReadWriteRetry) /\ 0 \in 0 .. MaxReadWriteRetry
      BY ParameterAssumption DEF ManagerOK
    <3>. QED  BY <3>1, <3>2 DEF Tried
  <2>. HIDE DEF names
  <2>2. /\ a.paramCountMap = s.paramCountMap /\ a.factMap = s.factMap
        /\ a.waitingReadParamIndexMap = s.waitingReadParamIndexMap
        /\ a.waitingReadParamNameMap = names
        /\ a.waitingWriteParamNameMap = s.waitingWriteParamNameMap
        /\ a.failedReadParamIndexMap = s.failedReadParamIndexMap
        /\ a.parametersReady = s.parametersReady /\ a.missingParameters = s.missingParameters
        /\ a.writesFailed = s.writesFailed /\ a.waitingParamTimer = TRUE /\ a.outbox = s.outbox
    BY DEF ManagerOK, Fields
  <2>3. ManagerOK(a)
    BY <2>1, <2>2 DEF ManagerOK, Fields
  <2>. HIDE DEF a
  <2>4. Timed(a) /\ (Accounted(s, {}) => Accounted(a, {}))
    BY <2>2 DEF Timed, Accounted
  <2>. QED  BY <2>2, <2>3, <2>4 DEF Plain, NoSets
<1>. HIDE DEF a
<1>4. CASE p[1] \in s.paramCountMap
  <2>1. RefreshParameter(s, p) = Send(a, msg)
    BY <1>4 DEF RefreshParameter, a, names, msg
  <2>. QED  BY <2>1, <1>1, <1>3, SentPlain
<1>5. CASE p[1] \notin s.paramCountMap
  <2>1. RefreshParameter(s, p) = Send(s, msg)
    BY <1>5 DEF RefreshParameter, msg
  <2>. QED  BY <2>1, <1>1, <1>2, SentPlain
<1>. QED  BY <1>4, <1>5

(* A new request for everything gives tries back and loses nothing. *)
LEMMA RefreshAllIsPlain ==
    ASSUME NEW s, ManagerOK(s), NEW kind
    PROVE  /\ Plain(s, RefreshAllParameters(s, kind))
           /\ RefreshAllParameters(s, kind).initialRequestRetryCount = s.initialRequestRetryCount
<1>. DEFINE skipped == IF kind # "highLatency" THEN s
                       ELSE [s EXCEPT !.parametersReady = TRUE, !.missingParameters = TRUE,
                                      !.waitingForDefaultComponent = FALSE]
            again == UNION {ParamsOf(comp) : comp \in s.paramCountMap}
            f == s.waitingReadParamIndexMap
            g == [p \in DOMAIN f \cup again |-> IF p \in again THEN 0 ELSE f[p]]
            timer == s.initialRequestTimer \/ ~skipped.parametersReady
            a == [skipped EXCEPT !.initialRequestTimer = timer, !.waitingReadParamIndexMap = g]
<1>1. Fields(s)
  BY DEF ManagerOK
<1>2. CASE kind = "none"
  <2>1. RefreshAllParameters(s, kind) = s
    BY <1>2 DEF RefreshAllParameters
  <2>. QED  BY <2>1 DEF Plain
<1>3. CASE kind # "none"
  <2>1. /\ skipped.waitingReadParamIndexMap = f /\ skipped.initialRequestTimer = s.initialRequestTimer
        /\ skipped.paramCountMap = s.paramCountMap /\ skipped.factMap = s.factMap
        /\ skipped.waitingReadParamNameMap = s.waitingReadParamNameMap
        /\ skipped.waitingWriteParamNameMap = s.waitingWriteParamNameMap
        /\ skipped.failedReadParamIndexMap = s.failedReadParamIndexMap
        /\ skipped.writesFailed = s.writesFailed
        /\ skipped.waitingParamTimer = s.waitingParamTimer /\ skipped.outbox = s.outbox
        /\ skipped.initialRequestRetryCount = s.initialRequestRetryCount
        /\ \/ skipped.parametersReady = s.parametersReady
           \/ skipped.parametersReady = TRUE /\ skipped.missingParameters = TRUE
    BY <1>1 DEF Fields
  <2>2. ManagerOK(skipped)
    BY <1>1 DEF ManagerOK, Fields
  <2>3. RefreshAllParameters(s, kind) = Send(a, ListMsg)
    BY <1>3, <2>1 DEF RefreshAllParameters
  <2>4. Tried(g, MaxIndexRetry) /\ DOMAIN f \subseteq DOMAIN g
    <3>1. again \subseteq Params
      BY DEF ManagerOK, Params
    <3>2. Tried(f, MaxIndexRetry) /\ 0 \in 0 .. MaxIndexRetry
      BY ParameterAssumption DEF ManagerOK
    <3>. HIDE DEF again, f
    <3>3. DOMAIN g = DOMAIN f \cup again /\ \A p \in DOMAIN g : g[p] = IF p \in again THEN 0 ELSE f[p]
      OBVIOUS
    <3>. QED  BY <3>1, <3>2, <3>3 DEF Tried
  <2>. HIDE DEF skipped, g, timer
  <2>5. timer \in BOOLEAN
    BY DEF timer
  <2>6. /\ a.paramCountMap = s.paramCountMap /\ a.factMap = s.factMap
        /\ a.waitingReadParamIndexMap = g
        /\ a.waitingReadParamNameMap = s.waitingReadParamNameMap
        /\ a.waitingWriteParamNameMap = s.waitingWriteParamNameMap
        /\ a.failedReadParamIndexMap = s.failedReadParamIndexMap
        /\ a.parametersReady = skipped.parametersReady
        /\ a.missingParameters = skipped.missingParameters
        /\ a.writesFailed = s.writesFailed /\ a.waitingParamTimer = s.waitingParamTimer
        /\ a.outbox = s.outbox /\ a.initialRequestRetryCount = s.initialRequestRetryCount
    BY <2>1, <2>2 DEF ManagerOK, Fields
  <2>7. ManagerOK(a)
    BY <2>2, <2>4, <2>5, <2>6 DEF ManagerOK, Fields
  <2>. HIDE DEF a
  <2>8. Timed(s) => Timed(a)
    BY <2>1, <2>6 DEF Timed, Named, HasDefault, Known
  <2>9. Accounted(s, {}) => Accounted(a, {})
    BY <2>4, <2>6 DEF Accounted
  <2>10. Plain(s, a)
    BY <2>1, <2>6, <2>7, <2>8, <2>9 DEF Plain, NoSets
  <2>11. ListMsg \in Requests /\ ListMsg.kind # "SET"
    BY DEF ListMsg, Requests
  <2>. QED  BY <2>3, <2>6, <2>10, <2>11, SentPlain
<1>. QED  BY <1>2, <1>3

(* So does its repetition, which is counted. *)
LEMMA RequestIsPlain ==
    ASSUME NEW s, ManagerOK(s), NEW kind
    PROVE  LET t == InitialRequestTimeout(s, kind)
           IN  /\ Plain(s, t)
               /\ t.initialRequestRetryCount = s.initialRequestRetryCount => NotMore(s, t)
<1>. DEFINE tries == IF s.initialRequestRetryCount > MaxRequestRetry THEN s.initialRequestRetryCount
                     ELSE s.initialRequestRetryCount + 1
            counted == [s EXCEPT !.initialRequestRetryCount = tries, !.initialRequestTimer = FALSE]
            b == RefreshAllParameters(counted, kind)
            c == [b EXCEPT !.initialRequestTimer = TRUE]
<1>1. Fields(s) /\ s.initialRequestRetryCount \in Nat
  BY DEF ManagerOK
<1>2. tries \in Nat
  BY <1>1
<1>3. tries = s.initialRequestRetryCount => tries > MaxRequestRetry
  BY <1>1
<1>. HIDE DEF tries
<1>4. /\ counted.paramCountMap = s.paramCountMap /\ counted.factMap = s.factMap
      /\ counted.waitingReadParamIndexMap = s.waitingReadParamIndexMap
      /\ counted.waitingReadParamNameMap = s.waitingReadParamNameMap
      /\ counted.waitingWriteParamNameMap = s.waitingWriteParamNameMap
      /\ counted.failedReadParamIndexMap = s.failedReadParamIndexMap
      /\ counted.parametersReady = s.parametersReady
      /\ counted.missingParameters = s.missingParameters
      /\ counted.writesFailed = s.writesFailed /\ counted.waitingParamTimer = s.waitingParamTimer
      /\ counted.outbox = s.outbox /\ counted.initialRequestRetryCount = tries
  BY <1>1 DEF Fields
<1>5. ManagerOK(counted)
  BY <1>1, <1>2 DEF ManagerOK, Fields
<1>. HIDE DEF counted
<1>6. (Timed(s) => Timed(counted)) /\ (Accounted(s, {}) => Accounted(counted, {})) /\ NotMore(s, counted)
  BY <1>4, FewerItself DEF Timed, Named, HasDefault, Known, Accounted, NotMore
<1>7. Plain(s, counted)
  BY <1>4, <1>5, <1>6 DEF Plain, NoSets
<1>8. CASE tries > MaxRequestRetry
  <2>1. InitialRequestTimeout(s, kind) = counted
    BY <1>8 DEF InitialRequestTimeout, counted, tries
  <2>. QED  BY <2>1, <1>6, <1>7
<1>9. CASE ~(tries > MaxRequestRetry)
  <2>1. InitialRequestTimeout(s, kind) = c
    BY <1>9 DEF InitialRequestTimeout, counted, tries
  <2>2. Plain(counted, b) /\ b.initialRequestRetryCount = tries
    BY <1>4, <1>5, RefreshAllIsPlain
  <2>. HIDE DEF b
  <2>3. Fields(b) /\ ManagerOK(b)
    BY <2>2 DEF Plain, ManagerOK
  <2>4. /\ c.paramCountMap = b.paramCountMap /\ c.factMap = b.factMap
        /\ c.waitingReadParamIndexMap = b.waitingReadParamIndexMap
        /\ c.waitingReadParamNameMap = b.waitingReadParamNameMap
        /\ c.waitingWriteParamNameMap = b.waitingWriteParamNameMap
        /\ c.failedReadParamIndexMap = b.failedReadParamIndexMap
        /\ c.parametersReady = b.parametersReady
        /\ c.missingParameters = b.missingParameters
        /\ c.writesFailed = b.writesFailed /\ c.waitingParamTimer = b.waitingParamTimer
        /\ c.outbox = b.outbox /\ c.initialRequestRetryCount = tries
    BY <2>2, <2>3 DEF Fields
  <2>5. ManagerOK(c)
    BY <2>3 DEF ManagerOK, Fields
  <2>. HIDE DEF c
  <2>6. /\ Timed(b) => Timed(c)
        /\ Accounted(b, {}) => Accounted(c, {})
        /\ Complete(b) => Complete(c)
    BY <2>4 DEF Timed, Named, HasDefault, Known, Accounted, Complete
  <2>7. Plain(s, c)
    BY <1>4, <1>7, <2>2, <2>4, <2>5, <2>6 DEF Plain, NoSets
  <2>. QED  BY <2>1, <2>4, <2>7, <1>3, <1>9
<1>. QED  BY <1>8, <1>9

Wrote(s, t, p, v) ==
    /\ ManagerOK(t) /\ Timed(t) /\ Accounted(t, {})
    /\ t.outbox = << SetMsg(p, v) >>
    /\ DOMAIN t.factMap = DOMAIN s.factMap /\ t.factMap[p] = v
    /\ \A q \in DOMAIN s.factMap \ {p} : t.factMap[q] = s.factMap[q]
    /\ DOMAIN t.waitingWriteParamNameMap = DOMAIN s.waitingWriteParamNameMap \cup {p}
    /\ t.writesFailed = s.writesFailed \ {p}
    /\ t.parametersReady = s.parametersReady

(* A write is waited for, shown and sent. *)
LEMMA WriteIs ==
    ASSUME NEW s, ManagerOK(s), Timed(s), Accounted(s, {}), s.outbox = << >>,
           NEW p \in DOMAIN s.factMap, NEW v \in Nat
    PROVE  Wrote(s, WriteParameter([s EXCEPT !.writesFailed = s.writesFailed \ {p}], p, v), p, v)
<1>. DEFINE facts == [s.factMap EXCEPT ![p] = v]
            writes == With(s.waitingWriteParamNameMap, p, 0)
            less == s.writesFailed \ {p}
            a == [s EXCEPT !.writesFailed = less]
            b == [a EXCEPT !.factMap = facts, !.waitingWriteParamNameMap = writes,
                           !.waitingParamTimer = TRUE]
            msg == SetMsg(p, v)
            t == Send(b, msg)
<1>1. Fields(s) /\ p \in Params
  BY DEF ManagerOK
<1>. HIDE DEF less
<1>2. /\ a.factMap = s.factMap /\ a.waitingWriteParamNameMap = s.waitingWriteParamNameMap
      /\ a.writesFailed = less /\ Fields(a)
  BY <1>1 DEF Fields
<1>3. WriteParameter(a, p, v) = t
  BY <1>2 DEF WriteParameter
<1>4. Tried(writes, MaxReadWriteRetry) /\ DOMAIN writes = DOMAIN s.waitingWriteParamNameMap \cup {p}
  <2>1. /\ DOMAIN writes = DOMAIN s.waitingWriteParamNameMap \cup {p} /\ writes[p] = 0
        /\ \A q \in DOMAIN s.waitingWriteParamNameMap \ {p} :
              writes[q] = s.waitingWriteParamNameMap[q]
    BY DEF With
  <2>2. Tried(s.waitingWriteParamNameMap, MaxReadWriteRetry) /\ 0 \in 0 .. MaxReadWriteRetry
    BY ParameterAssumption DEF ManagerOK
  <2>. HIDE DEF writes
  <2>. QED  BY <1>1, <2>1, <2>2 DEF Tried
<1>5. /\ DOMAIN facts = DOMAIN s.factMap /\ facts[p] = v
      /\ \A q \in DOMAIN s.factMap \ {p} : facts[q] = s.factMap[q]
  OBVIOUS
<1>. HIDE DEF writes, facts
<1>6. /\ b.paramCountMap = s.paramCountMap /\ b.factMap = facts
      /\ b.waitingReadParamIndexMap = s.waitingReadParamIndexMap
      /\ b.waitingReadParamNameMap = s.waitingReadParamNameMap
      /\ b.waitingWriteParamNameMap = writes
      /\ b.failedReadParamIndexMap = s.failedReadParamIndexMap
      /\ b.parametersReady = s.parametersReady
      /\ b.writesFailed = less /\ b.waitingParamTimer = TRUE /\ b.outbox = << >>
  BY <1>1, <1>2 DEF Fields
<1>7. ManagerOK(a)
  BY <1>1 DEF ManagerOK, Fields
<1>8. ManagerOK(b)
  <2>1. DOMAIN facts \subseteq Params
    BY <1>5 DEF ManagerOK
  <2>. QED  BY <1>4, <1>6, <1>7, <2>1 DEF ManagerOK, Fields
<1>. HIDE DEF a, b
<1>9. msg \in Requests
  BY <1>1 DEF SetMsg, Requests
<1>. HIDE DEF msg
<1>10. ManagerOK(t) /\ t = [b EXCEPT !.outbox = Append(b.outbox, msg)]
  BY <1>8, <1>9, SendIs
<1>. HIDE DEF t
<1>11. /\ t.paramCountMap = s.paramCountMap /\ t.factMap = facts
       /\ t.waitingReadParamIndexMap = s.waitingReadParamIndexMap
       /\ t.waitingReadParamNameMap = s.waitingReadParamNameMap
       /\ t.waitingWriteParamNameMap = writes
       /\ t.failedReadParamIndexMap = s.failedReadParamIndexMap
       /\ t.parametersReady = s.parametersReady
       /\ t.writesFailed = less /\ t.waitingParamTimer = TRUE /\ t.outbox = Append(<< >>, msg)
  BY <1>6, <1>8, <1>10 DEF ManagerOK, Fields
<1>12. Timed(t) /\ Accounted(t, {})
  BY <1>5, <1>11 DEF Timed, Accounted
<1>13. Append(<< >>, msg) = << msg >>
  OBVIOUS
<1>14. t = WriteParameter([s EXCEPT !.writesFailed = s.writesFailed \ {p}], p, v)
  BY <1>3 DEF t, a, less
<1>15. t.outbox = << SetMsg(p, v) >> /\ t.writesFailed = s.writesFailed \ {p}
  BY <1>11, <1>13 DEF msg, less
<1>16. Wrote(s, t, p, v)
  BY <1>4, <1>5, <1>10, <1>11, <1>12, <1>15 DEF Wrote
<1>. QED  BY <1>14, <1>16

(* A new manager knows nothing and waits for nothing. *)
LEMMA NewIs ==
    ASSUME NEW cache
    PROVE  LET s == NewManager(cache)
           IN  /\ ManagerOK(s) /\ Timed(s) /\ Accounted(s, {}) /\ NoSets(s)
               /\ DOMAIN s.waitingWriteParamNameMap = {} /\ ~s.parametersReady
<1>. DEFINE s == NewManager(cache)
<1>1. /\ Fields(s) /\ s.waitingReadParamIndexMap = Nothing /\ s.waitingReadParamNameMap = Nothing
      /\ s.waitingWriteParamNameMap = Nothing /\ s.paramCountMap = {} /\ s.factMap = Nothing
      /\ s.indexBatchQueueActive = FALSE /\ s.waitingForDefaultComponent = FALSE
      /\ s.parametersReady = FALSE /\ s.missingParameters = FALSE
      /\ s.initialRequestTimer = FALSE /\ s.waitingParamTimer = FALSE
      /\ s.initialRequestRetryCount = 0 /\ s.outbox = << >>
  BY DEF NewManager, Fields
<1>2. DOMAIN Nothing = {}
  BY DEF Nothing
<1>. HIDE DEF s
<1>3. << >> \in Seq(Requests) /\ DOMAIN << >> = {}
  OBVIOUS
<1>4. ManagerOK(s)
  <2>1. Tried(Nothing, MaxIndexRetry) /\ Tried(Nothing, MaxReadWriteRetry)
    BY <1>2 DEF Tried
  <2>2. FALSE \in BOOLEAN /\ 0 \in Nat /\ {} \subseteq Params /\ {} \subseteq Components
    OBVIOUS
  <2>3. /\ Fields(s) /\ s.outbox \in Seq(Requests)
        /\ DOMAIN s.factMap \subseteq Params /\ s.paramCountMap \subseteq Components
    BY <1>1, <1>2, <1>3, <2>2
  <2>. QED  BY <1>1, <2>1, <2>2, <2>3 DEF ManagerOK
<1>5. Timed(s) /\ Accounted(s, {}) /\ NoSets(s)
  BY <1>1, <1>2, <1>3 DEF Timed, Named, HasDefault, Known, Accounted, NoSets
<1>. QED  BY <1>1, <1>2, <1>4, <1>5 DEF s

--------------------------------------------------------------------------------
(***************************************************************************)
(* The timeout.                                                            *)
(***************************************************************************)
SpentAny(s, t) ==
    \/ Spent(s.waitingReadParamIndexMap, t.waitingReadParamIndexMap)
    \/ Spent(s.waitingReadParamNameMap, t.waitingReadParamNameMap)
    \/ Spent(s.waitingWriteParamNameMap, t.waitingWriteParamNameMap)

TimedOut(s, t) ==
    /\ ManagerOK(t) /\ SetsFor(t, DOMAIN s.waitingWriteParamNameMap)
    /\ t.factMap = s.factMap /\ t.paramCountMap = s.paramCountMap
    /\ s.writesFailed \subseteq t.writesFailed
    /\ DOMAIN s.waitingWriteParamNameMap \ DOMAIN t.waitingWriteParamNameMap \subseteq t.writesFailed
    /\ NotMore(s, t)
    /\ t.initialRequestRetryCount = s.initialRequestRetryCount
    /\ Accounted(s, {}) => Accounted(t, {})
    /\ Accounted(s, {}) /\ ~s.parametersReady /\ t.parametersReady /\ ~t.missingParameters
          => Complete(t)

Counted(s, t) ==
    \/ ~s.waitingForDefaultComponent /\ t.waitingForDefaultComponent /\ t.waitingParamTimer
    \/ ~t.waitingForDefaultComponent /\ (SpentAny(s, t) \/ ~t.waitingParamTimer)

(* Those by name: some try is used up if there are any. *)
LEMMA ByNameIs ==
    ASSUME NEW s, ManagerOK(s), Writable(s), s.outbox = << >>
    PROVE  LET t == RetryByName(s)
           IN  /\ TimedOut(s, t) /\ t.parametersReady = s.parametersReady
               /\ t.missingParameters = s.missingParameters
               /\ t.waitingReadParamIndexMap = s.waitingReadParamIndexMap
               /\ t.failedReadParamIndexMap = s.failedReadParamIndexMap
               /\ t.waitingForDefaultComponent = s.waitingForDefaultComponent
               /\ IF Named(s) = {} THEN t = s
                  ELSE t.waitingParamTimer = TRUE /\ SpentAny(s, t)
<1>1. NoSets(s) /\ NoReads(s)
  BY DEF NoSets, NoReads
<1>2. Fewer(s.waitingReadParamIndexMap, s.waitingReadParamIndexMap) /\ NotMore(s, s)
  BY FewerItself DEF NotMore
<1>3. CASE DOMAIN s.waitingWriteParamNameMap # {}
  <2>. DEFINE u == RetryWrites(s, InOrder(DOMAIN s.waitingWriteParamNameMap))
              t == [u EXCEPT !.waitingParamTimer = TRUE]
  <2>1. RetryByName(s) = t
    BY <1>3 DEF RetryByName
  <2>2. /\ Rewrote(s, u) /\ Spent(s.waitingWriteParamNameMap, u.waitingWriteParamNameMap)
        /\ SetsFor(u, DOMAIN s.waitingWriteParamNameMap)
    BY <1>1, <1>3, RetryWritesRewrote
  <2>. HIDE DEF u
  <2>3. /\ ManagerOK(u) /\ Fields(u) /\ NotWrites(u) = NotWrites(s)
        /\ Fewer(s.waitingWriteParamNameMap, u.waitingWriteParamNameMap)
        /\ s.writesFailed \subseteq u.writesFailed
        /\ DOMAIN s.waitingWriteParamNameMap \ DOMAIN u.waitingWriteParamNameMap \subseteq u.writesFailed
    BY <2>2 DEF Rewrote, ManagerOK
  <2>4. /\ NotWrites(t) = << s.waitingReadParamIndexMap, s.waitingReadParamNameMap,
               s.paramCountMap, s.factMap, s.failedReadParamIndexMap,
               s.waitingForDefaultComponent, s.parametersReady, s.missingParameters,
               s.initialRequestRetryCount, s.initialRequestTimer, TRUE, s.cache >>
        /\ t.waitingWriteParamNameMap = u.waitingWriteParamNameMap /\ t.outbox = u.outbox
        /\ t.writesFailed = u.writesFailed
    BY <2>3 DEF Fields, NotWrites
  <2>5. ManagerOK(t)
    BY <2>3 DEF ManagerOK, Fields
  <2>. HIDE DEF t
  <2>6. /\ t.factMap = s.factMap /\ t.paramCountMap = s.paramCountMap /\ u.factMap = s.factMap
        /\ t.waitingReadParamIndexMap = s.waitingReadParamIndexMap
        /\ t.waitingReadParamNameMap = s.waitingReadParamNameMap
        /\ t.failedReadParamIndexMap = s.failedReadParamIndexMap
        /\ t.waitingForDefaultComponent = s.waitingForDefaultComponent
        /\ t.parametersReady = s.parametersReady /\ t.missingParameters = s.missingParameters
        /\ t.initialRequestRetryCount = s.initialRequestRetryCount
        /\ t.waitingParamTimer = TRUE
    BY <2>3, <2>4 DEF NotWrites
  <2>7. NotMore(s, t)
    BY <1>2, <2>3, <2>4, <2>6 DEF NotMore
  <2>8. SetsFor(t, DOMAIN s.waitingWriteParamNameMap)
    BY <2>2, <2>4, <2>6 DEF SetsFor
  <2>9. Accounted(s, {}) => Accounted(t, {})
    BY <2>6 DEF Accounted
  <2>10. TimedOut(s, t)
    BY <2>3, <2>4, <2>5, <2>6, <2>7, <2>8, <2>9 DEF TimedOut
  <2>11. SpentAny(s, t)
    BY <2>2, <2>4 DEF SpentAny
  <2>12. Named(s) # {}
    BY <1>3 DEF Named
  <2>. QED  BY <2>1, <2>6, <2>10, <2>11, <2>12
<1>4. CASE DOMAIN s.waitingWriteParamNameMap = {} /\ DOMAIN s.waitingReadParamNameMap # {}
  <2>. DEFINE u == RetryReads(s, InOrder(DOMAIN s.waitingReadParamNameMap))
              t == [u EXCEPT !.waitingParamTimer = TRUE]
  <2>1. RetryByName(s) = t
    BY <1>4 DEF RetryByName
  <2>2. Reread(s, u) /\ Spent(s.waitingReadParamNameMap, u.waitingReadParamNameMap)
    BY <1>1, <1>4, RetryReadsReread
  <2>. HIDE DEF u
  <2>3. /\ ManagerOK(u) /\ Fields(u) /\ NotReads(u) = NotReads(s)
        /\ Fewer(s.waitingReadParamNameMap, u.waitingReadParamNameMap) /\ NoSets(u)
    BY <1>1, <2>2 DEF Reread, ManagerOK
  <2>4. /\ NotReads(t) = << s.waitingReadParamIndexMap, s.waitingWriteParamNameMap,
               s.paramCountMap, s.factMap, s.failedReadParamIndexMap,
               s.waitingForDefaultComponent, s.parametersReady, s.missingParameters,
               s.initialRequestRetryCount, s.initialRequestTimer, TRUE, s.cache, s.writesFailed >>
        /\ t.waitingReadParamNameMap = u.waitingReadParamNameMap /\ t.outbox = u.outbox
    BY <2>3 DEF Fields, NotReads
  <2>5. ManagerOK(t)
    BY <2>3 DEF ManagerOK, Fields
  <2>. HIDE DEF t
  <2>6. /\ t.factMap = s.factMap /\ t.paramCountMap = s.paramCountMap
        /\ t.waitingReadParamIndexMap = s.waitingReadParamIndexMap
        /\ t.waitingWriteParamNameMap = s.waitingWriteParamNameMap
        /\ t.failedReadParamIndexMap = s.failedReadParamIndexMap
        /\ t.waitingForDefaultComponent = s.waitingForDefaultComponent
        /\ t.parametersReady = s.parametersReady /\ t.missingParameters = s.missingParameters
        /\ t.initialRequestRetryCount = s.initialRequestRetryCount
        /\ t.waitingParamTimer = TRUE /\ t.writesFailed = s.writesFailed
    BY <2>4 DEF NotReads
  <2>7. NotMore(s, t)
    BY <1>2, <2>3, <2>4, <2>6 DEF NotMore
  <2>8. SetsFor(t, DOMAIN s.waitingWriteParamNameMap)
    BY <2>3, <2>4 DEF SetsFor, NoSets
  <2>9. Accounted(s, {}) => Accounted(t, {})
    BY <2>6 DEF Accounted
  <2>10. TimedOut(s, t)
    BY <2>5, <2>6, <2>7, <2>8, <2>9 DEF TimedOut
  <2>11. SpentAny(s, t)
    BY <2>2, <2>4 DEF SpentAny
  <2>12. Named(s) # {}
    BY <1>4 DEF Named
  <2>. QED  BY <2>1, <2>6, <2>10, <2>11, <2>12
<1>5. CASE DOMAIN s.waitingWriteParamNameMap = {} /\ DOMAIN s.waitingReadParamNameMap = {}
  <2>1. RetryByName(s) = s
    BY <1>5 DEF RetryByName
  <2>2. Named(s) = {}
    BY <1>5 DEF Named
  <2>3. TimedOut(s, s)
    BY <1>1, <1>2 DEF TimedOut, SetsFor, NoSets
  <2>. QED  BY <2>1, <2>2, <2>3
<1>. QED  BY <1>3, <1>4, <1>5

(* A timeout uses up a try, or goes to waiting for the autopilot, or ends the waits. *)
LEMMA TimeoutIs ==
    ASSUME NEW s, ManagerOK(s), Writable(s), s.outbox = << >>
    PROVE  LET t == WaitingParamTimeout(s)
           IN  TimedOut(s, t) /\ Timed(t) /\ Counted(s, t)
<1>. DEFINE a == [s EXCEPT !.waitingParamTimer = FALSE, !.indexBatchQueueActive = TRUE]
            b == FillIndexBatchQueue(a, TRUE)
            c == [b EXCEPT !.waitingForDefaultComponent = FALSE]
            d == CheckInitialLoadComplete(c)
            waits == [b EXCEPT !.waitingParamTimer = TRUE, !.waitingForDefaultComponent = TRUE]
            asks == [d EXCEPT !.waitingParamTimer = TRUE]
<1>1. Fields(s) /\ TRUE \in BOOLEAN /\ FALSE \in BOOLEAN
  BY DEF ManagerOK
<1>2. /\ Others(a) = << s.waitingReadParamNameMap, s.waitingWriteParamNameMap, s.paramCountMap,
             s.factMap, TRUE, s.waitingForDefaultComponent, s.prevReads, s.parametersReady,
             s.missingParameters, s.initialRequestRetryCount, s.initialRequestTimer,
             FALSE, s.cache, s.writesFailed >>
      /\ a.indexBatchQueueActive
      /\ a.waitingReadParamIndexMap = s.waitingReadParamIndexMap
      /\ a.failedReadParamIndexMap = s.failedReadParamIndexMap /\ a.outbox = << >>
  BY <1>1 DEF Others, Fields
<1>3. ManagerOK(a)
  BY <1>1 DEF ManagerOK, Fields
<1>. DEFINE v == WaitingParamTimeout(s)
<1>4. v = CASE ~(b.indexBatchQueue # {}) /\ ~s.waitingForDefaultComponent /\ ~HasDefault(s) -> waits
            [] b.indexBatchQueue # {} -> asks
            [] OTHER -> RetryByName(d)
  BY DEF WaitingParamTimeout
<1>. HIDE DEF v
<1>5. /\ Asked(a, b)
      /\ IF b.indexBatchQueue = {}
           THEN DOMAIN b.waitingReadParamIndexMap = {} /\ b.outbox = a.outbox
           ELSE Spent(a.waitingReadParamIndexMap, b.waitingReadParamIndexMap)
  <2>. HIDE DEF a
  <2>. QED  BY <1>1, <1>2, <1>3, FillAsks
<1>. HIDE DEF a, b
<1>6. /\ ManagerOK(b) /\ Fields(b) /\ Others(b) = Others(a) /\ NoSets(b)
      /\ Fewer(s.waitingReadParamIndexMap, b.waitingReadParamIndexMap)
      /\ DOMAIN s.waitingReadParamIndexMap \cup s.failedReadParamIndexMap
           \subseteq DOMAIN b.waitingReadParamIndexMap \cup b.failedReadParamIndexMap
  BY <1>2, <1>5 DEF Asked, ManagerOK, NoSets
<1>7. /\ b.waitingReadParamNameMap = s.waitingReadParamNameMap
      /\ b.waitingWriteParamNameMap = s.waitingWriteParamNameMap
      /\ b.paramCountMap = s.paramCountMap /\ b.factMap = s.factMap
      /\ b.waitingForDefaultComponent = s.waitingForDefaultComponent
      /\ b.parametersReady = s.parametersReady /\ b.missingParameters = s.missingParameters
      /\ b.initialRequestRetryCount = s.initialRequestRetryCount
      /\ b.waitingParamTimer = FALSE /\ b.writesFailed = s.writesFailed
  BY <1>2, <1>6 DEF Others
<1>8. NotMore(s, b) /\ (Accounted(s, {}) => Accounted(b, {}))
  <2>1. NotMore(s, s)
    BY FewerItself
  <2>. QED  BY <2>1, <1>6, <1>7 DEF NotMore, Accounted
<1>9. TimedOut(s, b)
  BY <1>6, <1>7, <1>8 DEF TimedOut, SetsFor, NoSets
<1>10. /\ NotReady(c) = << b.waitingReadParamIndexMap, b.waitingReadParamNameMap,
              b.waitingWriteParamNameMap, b.paramCountMap, b.factMap, b.failedReadParamIndexMap,
              b.indexBatchQueueActive, b.indexBatchQueue, FALSE, b.prevReads,
              b.initialRequestRetryCount, b.initialRequestTimer, b.waitingParamTimer,
              b.cache, b.outbox, b.writesFailed >>
       /\ c.parametersReady = b.parametersReady /\ c.missingParameters = b.missingParameters
  BY <1>6 DEF Fields, NotReady
<1>11. ManagerOK(c)
  BY <1>1, <1>6 DEF ManagerOK, Fields
<1>. HIDE DEF c
<1>12. /\ ManagerOK(d) /\ NotReady(d) = NotReady(c)
       /\ c.parametersReady => d = c
       /\ d.parametersReady /\ ~c.parametersReady =>
             /\ DOMAIN d.waitingReadParamIndexMap = {}
             /\ ~d.missingParameters => d.failedReadParamIndexMap = {}
       /\ ~d.parametersReady => DOMAIN d.waitingReadParamIndexMap # {} \/ ~HasDefault(d)
  BY <1>11, CheckIs
<1>. HIDE DEF d
<1>13. /\ d.waitingReadParamIndexMap = b.waitingReadParamIndexMap
       /\ d.waitingReadParamNameMap = b.waitingReadParamNameMap
       /\ d.waitingWriteParamNameMap = b.waitingWriteParamNameMap
       /\ d.paramCountMap = b.paramCountMap /\ d.factMap = b.factMap
       /\ d.failedReadParamIndexMap = b.failedReadParamIndexMap
       /\ d.waitingForDefaultComponent = FALSE
       /\ d.initialRequestRetryCount = b.initialRequestRetryCount
       /\ d.waitingParamTimer = FALSE /\ d.outbox = b.outbox /\ d.writesFailed = b.writesFailed
  BY <1>7, <1>10, <1>12 DEF NotReady
<1>14. Accounted(s, {}) /\ ~s.parametersReady /\ d.parametersReady /\ ~d.missingParameters => Complete(d)
  BY <1>7, <1>8, <1>10, <1>12, <1>13 DEF Accounted, Complete
<1>15. TimedOut(s, d)
  <2>1. NotMore(s, d) /\ (Accounted(s, {}) => Accounted(d, {}))
    BY <1>8, <1>13 DEF NotMore, Accounted
  <2>2. SetsFor(d, DOMAIN s.waitingWriteParamNameMap)
    BY <1>6, <1>13 DEF SetsFor, NoSets
  <2>. QED  BY <2>1, <2>2, <1>7, <1>12, <1>13, <1>14 DEF TimedOut
<1>16. CASE b.indexBatchQueue = {} /\ ~s.waitingForDefaultComponent /\ ~HasDefault(s)
  <2>1. v = waits
    BY <1>4, <1>16
  <2>2. /\ waits.waitingReadParamIndexMap = b.waitingReadParamIndexMap
        /\ waits.waitingReadParamNameMap = b.waitingReadParamNameMap
        /\ waits.waitingWriteParamNameMap = b.waitingWriteParamNameMap
        /\ waits.paramCountMap = b.paramCountMap /\ waits.factMap = b.factMap
        /\ waits.failedReadParamIndexMap = b.failedReadParamIndexMap
        /\ waits.waitingForDefaultComponent = TRUE /\ waits.waitingParamTimer = TRUE
        /\ waits.initialRequestRetryCount = b.initialRequestRetryCount
        /\ waits.outbox = b.outbox /\ waits.writesFailed = b.writesFailed
        /\ waits.parametersReady = b.parametersReady
        /\ waits.missingParameters = b.missingParameters
    BY <1>6 DEF Fields
  <2>3. ManagerOK(waits)
    BY <1>1, <1>6 DEF ManagerOK, Fields
  <2>. HIDE DEF waits
  <2>4. /\ NotMore(s, waits) /\ (Accounted(s, {}) => Accounted(waits, {}))
        /\ SetsFor(waits, DOMAIN s.waitingWriteParamNameMap)
    BY <1>6, <1>8, <2>2 DEF NotMore, Accounted, SetsFor, NoSets
  <2>5. TimedOut(s, waits)
    BY <1>7, <2>2, <2>3, <2>4 DEF TimedOut
  <2>6. Timed(waits) /\ Counted(s, waits)
    BY <1>16, <2>2 DEF Timed, Counted
  <2>. QED  BY <2>1, <2>5, <2>6 DEF v
<1>17. CASE b.indexBatchQueue # {}
  <2>1. v = asks
    BY <1>4, <1>17
  <2>2. /\ asks.waitingReadParamIndexMap = d.waitingReadParamIndexMap
        /\ asks.waitingReadParamNameMap = d.waitingReadParamNameMap
        /\ asks.waitingWriteParamNameMap = d.waitingWriteParamNameMap
        /\ asks.paramCountMap = d.paramCountMap /\ asks.factMap = d.factMap
        /\ asks.failedReadParamIndexMap = d.failedReadParamIndexMap
        /\ asks.waitingForDefaultComponent = FALSE /\ asks.waitingParamTimer = TRUE
        /\ asks.initialRequestRetryCount = d.initialRequestRetryCount
        /\ asks.outbox = d.outbox /\ asks.writesFailed = d.writesFailed
        /\ asks.parametersReady = d.parametersReady
        /\ asks.missingParameters = d.missingParameters
    BY <1>12, <1>13 DEF ManagerOK, Fields
  <2>3. ManagerOK(asks)
    BY <1>1, <1>12 DEF ManagerOK, Fields
  <2>. HIDE DEF asks
  <2>4. TimedOut(s, asks)
    BY <1>15, <2>2, <2>3 DEF TimedOut, NotMore, Accounted, SetsFor, Complete
  <2>5. Timed(asks)
    BY <2>2 DEF Timed
  <2>6. Spent(s.waitingReadParamIndexMap, asks.waitingReadParamIndexMap)
    BY <1>2, <1>5, <1>13, <1>17, <2>2
  <2>7. Counted(s, asks)
    BY <2>2, <2>6 DEF Counted, SpentAny
  <2>. QED  BY <2>1, <2>4, <2>5, <2>7 DEF v
<1>18. CASE b.indexBatchQueue = {} /\ ~(~s.waitingForDefaultComponent /\ ~HasDefault(s))
  <2>. DEFINE t == RetryByName(d)
  <2>1. v = t
    BY <1>4, <1>18
  <2>2. DOMAIN d.waitingReadParamIndexMap = {} /\ d.outbox = << >> /\ Writable(d)
    BY <1>2, <1>5, <1>7, <1>13, <1>18 DEF Writable
  <2>3. /\ TimedOut(d, t) /\ t.parametersReady = d.parametersReady
        /\ t.missingParameters = d.missingParameters
        /\ t.waitingReadParamIndexMap = d.waitingReadParamIndexMap
        /\ t.failedReadParamIndexMap = d.failedReadParamIndexMap
        /\ t.waitingForDefaultComponent = d.waitingForDefaultComponent
        /\ IF Named(d) = {} THEN t = d
           ELSE t.waitingParamTimer = TRUE /\ SpentAny(d, t)
    BY <1>12, <2>2, ByNameIs
  <2>. HIDE DEF t
  <2>4. NotMore(s, t)
    BY <1>12, <1>15, <2>3, NotMoreTwice DEF TimedOut
  <2>5. SetsFor(t, DOMAIN s.waitingWriteParamNameMap)
    BY <1>7, <1>13, <2>3 DEF TimedOut
  <2>6. TimedOut(s, t)
    <3>1. /\ ManagerOK(t) /\ t.factMap = s.factMap /\ t.paramCountMap = s.paramCountMap
          /\ s.writesFailed \subseteq t.writesFailed
          /\ DOMAIN s.waitingWriteParamNameMap \ DOMAIN t.waitingWriteParamNameMap
               \subseteq t.writesFailed
          /\ t.initialRequestRetryCount = s.initialRequestRetryCount
      BY <1>7, <1>13, <2>3 DEF TimedOut
    <3>2. Accounted(s, {}) => Accounted(t, {})
      BY <1>15, <2>3 DEF TimedOut
    <3>3. Accounted(s, {}) /\ ~s.parametersReady /\ t.parametersReady /\ ~t.missingParameters
             => Complete(t)
      BY <1>14, <2>3, <3>1, <1>7, <1>13 DEF Complete
    <3>. QED  BY <2>4, <2>5, <3>1, <3>2, <3>3 DEF TimedOut
  <2>7. Timed(t)
    <3>1. CASE Named(d) = {}
      BY <1>12, <2>2, <2>3, <3>1 DEF Timed
    <3>2. CASE Named(d) # {}
      BY <2>3, <3>2 DEF Timed
    <3>. QED  BY <3>1, <3>2
  <2>8. Counted(s, t)
    <3>1. CASE Named(d) = {}
      BY <1>13, <2>3, <3>1 DEF Counted
    <3>2. CASE Named(d) # {}
      <4>1. \/ Spent(s.waitingReadParamNameMap, t.waitingReadParamNameMap)
            \/ Spent(s.waitingWriteParamNameMap, t.waitingWriteParamNameMap)
        <5>1. ~Spent(d.waitingReadParamIndexMap, t.waitingReadParamIndexMap)
          BY <2>2 DEF Spent
        <5>. QED  BY <5>1, <2>3, <3>2, <1>7, <1>13 DEF SpentAny
      <4>. QED  BY <4>1, <1>13, <2>3 DEF Counted, SpentAny
    <3>. QED  BY <3>1, <3>2
  <2>. QED  BY <2>1, <2>6, <2>7, <2>8 DEF v
<1>. QED  BY <1>16, <1>17, <1>18

--------------------------------------------------------------------------------
(***************************************************************************)
(* The queues: a message is taken from the front, the messages of a        *)
(* handler are put behind.                                                 *)
(***************************************************************************)
LEMMA Taken ==
    ASSUME NEW S, NEW q \in Seq(S), q # << >>
    PROVE  /\ Tail(q) \in Seq(S) /\ Head(q) = q[1] /\ Head(q) \in S /\ 1 \in DOMAIN q
           /\ \A i \in DOMAIN Tail(q) : i + 1 \in DOMAIN q /\ i \in Nat /\ Tail(q)[i] = q[i + 1]
                                        /\ 1 < i + 1
<1>1. Len(q) \in Nat /\ Len(q) # 0 /\ DOMAIN q = 1 .. Len(q)
  OBVIOUS
<1>2. Tail(q) \in Seq(S) /\ Len(Tail(q)) = Len(q) - 1 /\ Head(q) = q[1] /\ Head(q) \in S
  BY <1>1
<1>3. DOMAIN Tail(q) = 1 .. Len(q) - 1
  BY <1>2
<1>4. \A i \in 1 .. Len(q) - 1 : Tail(q)[i] = q[i + 1]
  BY <1>1
<1>. QED  BY <1>1, <1>2, <1>3, <1>4

LEMMA TakenInOrder ==
    ASSUME NEW q \in Seq(Requests), q # << >>, NEW vals, NEW last, NEW n
    PROVE  /\ Written(q, vals, last, n) => Written(Tail(q), vals, last, n)
           /\ Ordered(q) => Ordered(Tail(q))
<1>1. \A i \in DOMAIN Tail(q) : i + 1 \in DOMAIN q /\ i \in Nat /\ Tail(q)[i] = q[i + 1]
  BY Taken
<1>2. Written(q, vals, last, n) => Written(Tail(q), vals, last, n)
  BY <1>1 DEF Written
<1>3. Ordered(q) => Ordered(Tail(q))
  BY <1>1 DEF Ordered
<1>. QED  BY <1>2, <1>3

LEMMA TakenPast ==
    ASSUME NEW q \in Seq(Answers), q # << >>, NEW vals
    PROVE  /\ Past(q, vals) => Past(Tail(q), vals)
           /\ Rising(q) => Rising(Tail(q))
<1>1. \A i \in DOMAIN Tail(q) : i + 1 \in DOMAIN q /\ i \in Nat /\ Tail(q)[i] = q[i + 1]
  BY Taken
<1>2. Past(q, vals) => Past(Tail(q), vals)
  BY <1>1 DEF Past
<1>3. Rising(q) => Rising(Tail(q))
  BY <1>1 DEF Rising
<1>. QED  BY <1>2, <1>3

LEMMA Concatenated ==
    ASSUME NEW S, NEW q \in Seq(S), NEW r \in Seq(S)
    PROVE  /\ q \o r \in Seq(S) /\ Len(q) \in Nat /\ Len(r) \in Nat
           /\ DOMAIN q = 1 .. Len(q) /\ DOMAIN r = 1 .. Len(r)
           /\ DOMAIN (q \o r) = 1 .. Len(q) + Len(r)
           /\ \A i \in DOMAIN q : (q \o r)[i] = q[i]
           /\ \A i \in DOMAIN (q \o r) : i > Len(q) =>
                 i - Len(q) \in DOMAIN r /\ (q \o r)[i] = r[i - Len(q)]
<1>1. /\ q \o r \in Seq(S) /\ Len(q) \in Nat /\ Len(r) \in Nat
      /\ DOMAIN q = 1 .. Len(q) /\ DOMAIN r = 1 .. Len(r)
      /\ DOMAIN (q \o r) = 1 .. Len(q) + Len(r)
  OBVIOUS
<1>2. \A i \in 1 .. Len(q) : (q \o r)[i] = q[i]
  OBVIOUS
<1>3. \A i \in 1 .. Len(q) + Len(r) : i > Len(q) =>
         i - Len(q) \in 1 .. Len(r) /\ (q \o r)[i] = r[i - Len(q)]
  BY <1>1
<1>. QED  BY <1>1, <1>2, <1>3

LEMMA ValuesOfRequests ==
    ASSUME NEW msg \in Requests, msg.kind = "SET"
    PROVE  msg.param \in Params /\ msg.value \in Nat
BY DEF Requests

(* What a handler sends comes behind what is under way, and is no older. *)
LEMMA SentInOrder ==
    ASSUME NEW q \in Seq(Requests), NEW s, ManagerOK(s), NEW writes, SetsFor(s, writes),
           NEW vals, NEW last, NEW n, Written(q, vals, last, n), Ordered(q),
           \A p \in writes : /\ p \in DOMAIN last /\ s.factMap[p] = last[p] /\ last[p] \in Nat
                             /\ vals[p] <= last[p] /\ last[p] <= n
    PROVE  /\ q \o s.outbox \in Seq(Requests)
           /\ Written(q \o s.outbox, vals, last, n) /\ Ordered(q \o s.outbox)
<1>. DEFINE r == s.outbox
            qr == q \o r
<1>1. r \in Seq(Requests)
  BY DEF ManagerOK
<1>2. \A i \in DOMAIN r : r[i].kind = "SET" =>
         r[i].param \in writes /\ r[i].value = s.factMap[r[i].param]
  BY DEF SetsFor
<1>. HIDE DEF r
<1>3. /\ qr \in Seq(Requests) /\ Len(q) \in Nat /\ Len(r) \in Nat
      /\ DOMAIN q = 1 .. Len(q) /\ DOMAIN r = 1 .. Len(r)
      /\ DOMAIN qr = 1 .. Len(q) + Len(r)
      /\ \A i \in DOMAIN q : qr[i] = q[i]
      /\ \A i \in DOMAIN qr : i > Len(q) => i - Len(q) \in DOMAIN r /\ qr[i] = r[i - Len(q)]
  BY <1>1, Concatenated
<1>. HIDE DEF qr
<1>4. \A i \in DOMAIN qr : i > Len(q) /\ qr[i].kind = "SET" =>
         /\ qr[i].param \in writes /\ qr[i].value = last[qr[i].param]
  BY <1>2, <1>3
<1>5. \A i \in DOMAIN qr : ~(i > Len(q)) => i \in DOMAIN q /\ qr[i] = q[i]
  BY <1>3
<1>6. Written(qr, vals, last, n)
  <2>. SUFFICES ASSUME NEW i \in DOMAIN qr, qr[i].kind = "SET"
                PROVE  /\ vals[qr[i].param] <= qr[i].value /\ qr[i].value <= n
                       /\ qr[i].param \in DOMAIN last => qr[i].value <= last[qr[i].param]
    BY DEF Written
  <2>1. CASE i > Len(q)
    BY <1>4, <2>1
  <2>2. CASE ~(i > Len(q))
    BY <1>5, <2>2 DEF Written
  <2>. QED  BY <2>1, <2>2
<1>7. Ordered(qr)
  <2>. SUFFICES ASSUME NEW i \in DOMAIN qr, NEW j \in DOMAIN qr, i < j, qr[i].kind = "SET",
                       qr[j].kind = "SET", qr[i].param = qr[j].param
                PROVE  qr[i].value <= qr[j].value
    BY DEF Ordered
  <2>1. i \in Nat /\ j \in Nat
    BY <1>3
  <2>2. CASE i > Len(q)
    BY <1>3, <1>4, <2>1, <2>2
  <2>3. CASE ~(i > Len(q)) /\ ~(j > Len(q))
    BY <1>5, <2>3 DEF Ordered
  <2>4. CASE ~(i > Len(q)) /\ j > Len(q)
    <3>1. qr[j].param \in writes /\ qr[j].value = last[qr[j].param]
      BY <1>4, <2>4
    <3>2. qr[i].param \in DOMAIN last => qr[i].value <= last[qr[i].param]
      BY <1>5, <2>4 DEF Written
    <3>. QED  BY <3>1, <3>2
  <2>. QED  BY <2>2, <2>3, <2>4
<1>. QED  BY <1>3, <1>6, <1>7 DEF qr, r

(* What the vehicle sends comes behind what is under way, and is no older. *)
LEMMA AnsweredInOrder ==
    ASSUME NEW q \in Seq(Answers), NEW msg \in Answers, NEW vals, Past(q, vals), Rising(q),
           \A p \in DOMAIN Carried(msg) : Carried(msg)[p] = vals[p] /\ vals[p] \in Nat
    PROVE  /\ Append(q, msg) \in Seq(Answers) /\ Past(Append(q, msg), vals)
           /\ Rising(Append(q, msg))
<1>. DEFINE r == Append(q, msg)
<1>1. /\ r \in Seq(Answers) /\ DOMAIN r = 1 .. Len(q) + 1
      /\ DOMAIN q = 1 .. Len(q) /\ Len(q) \in Nat
      /\ \A i \in DOMAIN q : r[i] = q[i]
      /\ r[Len(q) + 1] = msg
  BY Appended
<1>. HIDE DEF r
<1>2. Past(r, vals)
  <2>. SUFFICES ASSUME NEW i \in DOMAIN r, NEW p \in DOMAIN Carried(r[i])
                PROVE  Carried(r[i])[p] <= vals[p]
    BY DEF Past
  <2>1. CASE i \in DOMAIN q
    BY <1>1, <2>1 DEF Past
  <2>2. CASE i = Len(q) + 1
    BY <1>1, <2>2
  <2>. QED  BY <1>1, <2>1, <2>2
<1>3. Rising(r)
  <2>. SUFFICES ASSUME NEW i \in DOMAIN r, NEW j \in DOMAIN r, i < j,
                       NEW p \in DOMAIN Carried(r[i]) \cap DOMAIN Carried(r[j])
                PROVE  Carried(r[i])[p] <= Carried(r[j])[p]
    BY DEF Rising
  <2>1. i \in DOMAIN q
    BY <1>1
  <2>2. CASE j \in DOMAIN q
    BY <1>1, <2>1, <2>2 DEF Rising
  <2>3. CASE j = Len(q) + 1
    BY <1>1, <2>1, <2>3 DEF Past
  <2>. QED  BY <1>1, <2>2, <2>3
<1>. QED  BY <1>1, <1>2, <1>3 DEF r

--------------------------------------------------------------------------------
(***************************************************************************)
(* After a handler the messages it left are on the way.                    *)
(***************************************************************************)
Kept(s) ==
    << s.waitingReadParamIndexMap, s.waitingReadParamNameMap, s.waitingWriteParamNameMap,
       s.paramCountMap, s.factMap, s.failedReadParamIndexMap, s.waitingForDefaultComponent,
       s.parametersReady, s.missingParameters, s.initialRequestRetryCount,
       s.waitingParamTimer, s.writesFailed >>

LEMMA Emptied ==
    ASSUME NEW s, ManagerOK(s)
    PROVE  LET t == [s EXCEPT !.outbox = << >>]
           IN  /\ ManagerOK(t) /\ t.outbox = << >> /\ Kept(t) = Kept(s)
               /\ Accounted(s, {}) => Accounted(t, {})
               /\ Timed(s) => Timed(t)
               /\ Complete(s) => Complete(t)
<1>. DEFINE t == [s EXCEPT !.outbox = << >>]
<1>1. Fields(s)
  BY DEF ManagerOK
<1>2. ManagerOK(t)
  <2>1. << >> \in Seq(Requests)
    OBVIOUS
  <2>. QED  BY <1>1, <2>1 DEF ManagerOK, Fields
<1>3. t.outbox = << >> /\ Kept(t) = Kept(s)
  BY <1>1 DEF Fields, Kept
<1>. HIDE DEF t
<1>4. /\ t.waitingReadParamIndexMap = s.waitingReadParamIndexMap
      /\ t.waitingReadParamNameMap = s.waitingReadParamNameMap
      /\ t.waitingWriteParamNameMap = s.waitingWriteParamNameMap
      /\ t.paramCountMap = s.paramCountMap /\ t.factMap = s.factMap
      /\ t.failedReadParamIndexMap = s.failedReadParamIndexMap
      /\ t.parametersReady = s.parametersReady /\ t.waitingParamTimer = s.waitingParamTimer
  BY <1>3 DEF Kept
<1>5. (Accounted(s, {}) => Accounted(t, {})) /\ (Timed(s) => Timed(t)) /\ (Complete(s) => Complete(t))
  BY <1>4 DEF Accounted, Timed, Named, HasDefault, Known, Complete
<1>. QED  BY <1>2, <1>3, <1>5 DEF t

(* The invariant of what is under way to the vehicle, after any handler. *)
LEMMA Became ==
    ASSUME Types, WritesInOrder, NEW s, ManagerOK(s), Accounted(s, {}), Timed(s), Becomes(s),
           NEW writes, SetsFor(s, writes), values' = values,
           Written(toVehicle, values, edited', events'),
           \A p \in writes : /\ p \in DOMAIN edited' /\ s.factMap[p] = edited'[p]
                             /\ edited'[p] \in Nat /\ values[p] <= edited'[p]
                             /\ edited'[p] <= events'
    PROVE  /\ ManagerOK(pm') /\ pm'.outbox = << >> /\ Accounted(pm', {}) /\ Timed(pm')
           /\ Kept(pm') = Kept(s) /\ (Complete(s) => Complete(pm'))
           /\ toVehicle' \in Seq(Requests) /\ WritesInOrder'
<1>1. pm' = [s EXCEPT !.outbox = << >>]
  BY DEF Becomes
<1>2. /\ ManagerOK(pm') /\ pm'.outbox = << >> /\ Accounted(pm', {}) /\ Timed(pm')
      /\ Kept(pm') = Kept(s) /\ (Complete(s) => Complete(pm'))
  BY <1>1, Emptied
<1>3. toVehicle \in Seq(Requests) /\ Ordered(toVehicle)
  BY DEF Types, WritesInOrder
<1>4. toVehicle' \in Seq(Requests) /\ Written(toVehicle', values, edited', events') /\ Ordered(toVehicle')
  <2>1. CASE link = "none"
    BY <1>3, <2>1 DEF Becomes
  <2>2. CASE link # "none"
    <3>1. toVehicle' = toVehicle \o s.outbox
      BY <2>2 DEF Becomes
    <3>2. /\ toVehicle \o s.outbox \in Seq(Requests)
          /\ Written(toVehicle \o s.outbox, values, edited', events')
          /\ Ordered(toVehicle \o s.outbox)
      BY <1>3, SentInOrder
    <3>. QED  BY <3>1, <3>2
  <2>. QED  BY <2>1, <2>2
<1>5. WritesInOrder'
  BY <1>4 DEF WritesInOrder
<1>. QED  BY <1>2, <1>4, <1>5

(***************************************************************************)
(* Nothing else changes but that events may have been counted.             *)
(***************************************************************************)
Counting == events' \in 0 .. MaxEvents /\ events <= events'

LEMMA LaterWritten ==
    ASSUME Types, WritesInOrder, Counting, edited' = edited
    PROVE  Written(toVehicle, values, edited', events')
<1>1. /\ toVehicle \in Seq(Requests) /\ events \in Nat /\ events' \in Nat /\ events <= events'
      /\ MaxEvents \in Nat
  BY TransferAssumption DEF Types, Counting
<1>2. \A i \in DOMAIN toVehicle : toVehicle[i] \in Requests
  BY <1>1
<1>3. \A i \in DOMAIN toVehicle : toVehicle[i].kind = "SET" => toVehicle[i].value \in Nat
  BY <1>2, ValuesOfRequests
<1>4. Written(toVehicle, values, edited, events)
  BY DEF WritesInOrder
<1>. QED  BY <1>1, <1>3, <1>4 DEF Written

LEMMA LaterTypes ==
    ASSUME Types, Counting, toVehicle' \in Seq(Requests), toGcs' \in Seq(Answers),
           listing' \in Seq(Params), UNCHANGED <<values, edited>>
    PROVE  Types'
<1>1. events \in Nat /\ events' \in Nat /\ events <= events' /\ MaxEvents \in Nat
  BY TransferAssumption DEF Types, Counting
<1>2. \A p \in Params : values[p] \in Nat /\ values[p] <= events
  BY <1>1 DEF Types
<1>3. \A p \in Params : values[p] <= events'
  BY <1>1, <1>2
<1>. QED  BY <1>3 DEF Types, Counting

(* Given up, waited for and overtaken are at least those of before. *)
LEMMA PlainStep ==
    ASSUME IInv, NEW s, Plain(pm, s), Becomes(s), Counting,
           UNCHANGED <<values, listing, toGcs, edited, overtaken>>
    PROVE  IInv' /\ Kept(pm') = Kept(s) /\ (Complete(s) => Complete(pm'))
<1>1. NoSets(pm) /\ Types /\ WritesInOrder /\ ValuesInOrder /\ EditsInStep
  BY DEF IInv, NoSets
<1>2. ManagerOK(s) /\ NoSets(s) /\ Accounted(s, {}) /\ Timed(s)
  BY <1>1 DEF Plain, IInv
<1>3. SetsFor(s, {})
  BY <1>2 DEF NoSets, SetsFor
<1>4. /\ ManagerOK(pm') /\ pm'.outbox = << >> /\ Accounted(pm', {}) /\ Timed(pm')
      /\ Kept(pm') = Kept(s) /\ (Complete(s) => Complete(pm'))
      /\ toVehicle' \in Seq(Requests) /\ WritesInOrder'
  BY <1>1, <1>2, <1>3, Became, LaterWritten
<1>5. Types'
  BY <1>1, <1>4, LaterTypes DEF Types
<1>6. ValuesInOrder'
  BY <1>1 DEF ValuesInOrder
<1>7. EditsInStep'
  <2>1. /\ pm'.factMap = pm.factMap /\ pm'.writesFailed = pm.writesFailed
        /\ pm'.waitingWriteParamNameMap = pm.waitingWriteParamNameMap
    BY <1>4 DEF Plain, Kept
  <2>2. Settled' = Settled
    BY <2>1 DEF Settled
  <2>3. \A p \in DOMAIN edited : edited[p] \in 0 .. events'
    BY <1>1, TransferAssumption DEF EditsInStep, Counting, Types
  <2>. QED  BY <1>1, <2>1, <2>2, <2>3 DEF EditsInStep
<1>. QED  BY <1>4, <1>5, <1>6, <1>7 DEF IInv

(* A timeout sends again what the user gave last. *)
LEMMA TimeoutStep ==
    ASSUME IInv, WaitTimesOut, UNCHANGED events
    PROVE  LET s == WaitingParamTimeout(pm)
           IN  IInv' /\ Kept(pm') = Kept(s) /\ TimedOut(pm, s) /\ Counted(pm, s)
               /\ (Complete(s) => Complete(pm'))
<1>. DEFINE s == WaitingParamTimeout(pm)
<1>1. /\ ManagerOK(pm) /\ pm.outbox = << >> /\ Types /\ WritesInOrder /\ ValuesInOrder
      /\ EditsInStep /\ Accounted(pm, {})
  BY DEF IInv
<1>2. /\ Becomes(s) /\ values' = values /\ listing' = listing /\ toGcs' = toGcs
      /\ edited' = edited /\ overtaken' = overtaken
  BY DEF WaitTimesOut
<1>3. Counting /\ events \in Nat
  BY <1>1, TransferAssumption DEF Types, Counting
<1>4. \A p \in DOMAIN pm.waitingWriteParamNameMap :
         /\ p \in DOMAIN edited' /\ pm.factMap[p] = edited'[p] /\ edited'[p] \in Nat
         /\ values[p] <= edited'[p] /\ edited'[p] <= events'
  BY <1>1, <1>2, <1>3 DEF EditsInStep
<1>5. Writable(pm)
  BY <1>4 DEF Writable
<1>6. TimedOut(pm, s) /\ Timed(s) /\ Counted(pm, s)
  BY <1>1, <1>5, TimeoutIs
<1>. HIDE DEF s
<1>7. /\ ManagerOK(s) /\ Accounted(s, {}) /\ s.factMap = pm.factMap
      /\ SetsFor(s, DOMAIN pm.waitingWriteParamNameMap)
  BY <1>1, <1>6 DEF TimedOut
<1>8. /\ ManagerOK(pm') /\ pm'.outbox = << >> /\ Accounted(pm', {}) /\ Timed(pm')
      /\ Kept(pm') = Kept(s) /\ (Complete(s) => Complete(pm'))
      /\ toVehicle' \in Seq(Requests) /\ WritesInOrder'
  <2>1. Written(toVehicle, values, edited', events')
    BY <1>1, <1>2, <1>3, LaterWritten
  <2>. QED  BY <1>1, <1>2, <1>4, <1>6, <1>7, <2>1, Became
<1>9. Types'
  BY <1>1, <1>2, <1>3, <1>8, LaterTypes DEF Types
<1>10. ValuesInOrder'
  BY <1>1, <1>2 DEF ValuesInOrder
<1>11. EditsInStep'
  <2>1. /\ pm'.factMap = pm.factMap /\ pm.writesFailed \subseteq pm'.writesFailed
        /\ DOMAIN pm'.waitingWriteParamNameMap \subseteq DOMAIN pm.waitingWriteParamNameMap
        /\ DOMAIN pm.waitingWriteParamNameMap \ DOMAIN pm'.waitingWriteParamNameMap
             \subseteq pm'.writesFailed
    BY <1>6, <1>8 DEF TimedOut, Kept, NotMore, Fewer
  <2>2. Settled' \subseteq Settled
    BY <1>2, <2>1 DEF Settled
  <2>. QED  BY <1>1, <1>2, <2>1, <2>2 DEF EditsInStep
<1>. QED  BY <1>6, <1>8, <1>9, <1>10, <1>11 DEF IInv, s

(* A write has the latest value. *)
LEMMA WriteStep ==
    ASSUME IInv, NEW p, UserWrites(p, events'), events' = events + 1, events < MaxEvents
    PROVE  IInv' /\ pm'.parametersReady = pm.parametersReady
<1>. DEFINE v == events'
            s == WriteParameter([pm EXCEPT !.writesFailed = pm.writesFailed \ {p}], p, v)
<1>1. /\ ManagerOK(pm) /\ pm.outbox = << >> /\ Types /\ WritesInOrder /\ ValuesInOrder
      /\ EditsInStep /\ Accounted(pm, {}) /\ Timed(pm)
  BY DEF IInv
<1>2. /\ Becomes(s) /\ values' = values /\ listing' = listing /\ toGcs' = toGcs
      /\ edited' = With(edited, p, v) /\ overtaken' = overtaken \ {p} /\ p \in DOMAIN pm.factMap
  BY DEF UserWrites
<1>3. /\ Counting /\ events \in Nat /\ v \in Nat /\ v = events + 1 /\ v \in 0 .. MaxEvents
      /\ MaxEvents \in Nat
  BY <1>1, TransferAssumption DEF Types, Counting
<1>4. /\ ManagerOK(s) /\ Timed(s) /\ Accounted(s, {})
      /\ s.outbox = << SetMsg(p, v) >>
      /\ DOMAIN s.factMap = DOMAIN pm.factMap /\ s.factMap[p] = v
      /\ \A q \in DOMAIN pm.factMap \ {p} : s.factMap[q] = pm.factMap[q]
      /\ DOMAIN s.waitingWriteParamNameMap = DOMAIN pm.waitingWriteParamNameMap \cup {p}
      /\ s.writesFailed = pm.writesFailed \ {p}
      /\ s.parametersReady = pm.parametersReady
  <2>1. v \in Nat /\ p \in DOMAIN pm.factMap
    BY <1>2, <1>3
  <2>. HIDE DEF v
  <2>2. Wrote(pm, s, p, v)
    BY <1>1, <2>1, WriteIs
  <2>. HIDE DEF s
  <2>. QED  BY <2>2 DEF Wrote
<1>. HIDE DEF s, v
<1>5. /\ DOMAIN edited' = DOMAIN edited \cup {p} /\ edited'[p] = v
      /\ \A q \in DOMAIN edited \ {p} : edited'[q] = edited[q]
  BY <1>2 DEF With
<1>6. SetsFor(s, {p})
  <2>1. \A i \in DOMAIN s.outbox : s.outbox[i] = SetMsg(p, v)
    BY <1>4
  <2>2. SetMsg(p, v).param = p /\ SetMsg(p, v).value = v
    BY DEF SetMsg
  <2>. QED  BY <1>4, <2>1, <2>2 DEF SetsFor
<1>7. \A q \in Params : values[q] \in Nat /\ values[q] <= events
  BY <1>1, <1>3 DEF Types
<1>8. p \in Params
  BY <1>1, <1>2 DEF ManagerOK
<1>9. Written(toVehicle, values, edited', events')
  <2>1. \A i \in DOMAIN toVehicle : toVehicle[i] \in Requests
    BY <1>1 DEF Types
  <2>2. \A i \in DOMAIN toVehicle : toVehicle[i].kind = "SET" => toVehicle[i].value \in Nat
    BY <2>1, ValuesOfRequests
  <2>3. Written(toVehicle, values, edited, events)
    BY <1>1 DEF WritesInOrder
  <2>4. v = events'
    BY DEF v
  <2>. QED  BY <1>3, <1>5, <2>2, <2>3, <2>4 DEF Written
<1>10. v = events'
  BY DEF v
<1>11. /\ ManagerOK(pm') /\ pm'.outbox = << >> /\ Accounted(pm', {}) /\ Timed(pm')
       /\ Kept(pm') = Kept(s)
       /\ toVehicle' \in Seq(Requests) /\ WritesInOrder'
  <2>1. \A q \in {p} : /\ q \in DOMAIN edited' /\ s.factMap[q] = edited'[q]
                       /\ edited'[q] \in Nat /\ values[q] <= edited'[q]
                       /\ edited'[q] <= events'
    BY <1>3, <1>4, <1>5, <1>7, <1>8, <1>10
  <2>. QED  BY <1>1, <1>2, <1>4, <1>6, <1>9, <2>1, Became
<1>12. Types'
  <2>1. DOMAIN edited' \subseteq Params
    BY <1>1, <1>5, <1>8 DEF Types
  <2>2. \A q \in Params : values'[q] <= events'
    BY <1>2, <1>3, <1>7
  <2>3. events' \in 0 .. MaxEvents
    BY <1>3 DEF Counting
  <2>. QED  BY <1>1, <1>2, <1>11, <2>1, <2>2, <2>3 DEF Types
<1>13. ValuesInOrder'
  BY <1>1, <1>2 DEF ValuesInOrder
<1>14. /\ pm'.factMap = s.factMap /\ pm'.writesFailed = s.writesFailed
       /\ pm'.waitingWriteParamNameMap = s.waitingWriteParamNameMap
       /\ pm'.parametersReady = s.parametersReady
  BY <1>11 DEF Kept
<1>15. EditsInStep'
  <2>1. DOMAIN edited' \subseteq DOMAIN pm'.factMap
    BY <1>1, <1>2, <1>4, <1>5, <1>14 DEF EditsInStep
  <2>2. \A q \in DOMAIN edited' : edited'[q] \in 0 .. events' /\ values'[q] <= edited'[q]
    <3>. SUFFICES ASSUME NEW q \in DOMAIN edited'
                  PROVE  edited'[q] \in 0 .. events' /\ values'[q] <= edited'[q]
      OBVIOUS
    <3>1. CASE q = p
      BY <1>2, <1>3, <1>5, <1>7, <1>8, <1>10, <3>1
    <3>2. CASE q # p
      BY <1>1, <1>2, <1>3, <1>5, <1>10, <3>2 DEF EditsInStep
    <3>. QED  BY <3>1, <3>2
  <2>3. \A q \in DOMAIN pm'.waitingWriteParamNameMap :
           q \in DOMAIN edited' /\ pm'.factMap[q] = edited'[q]
    BY <1>1, <1>4, <1>5, <1>14 DEF EditsInStep
  <2>4. Settled' \subseteq Settled \ {p}
    BY <1>2, <1>4, <1>5, <1>14 DEF Settled
  <2>5. \A q \in Settled : q # p => /\ pm'.factMap[q] = pm.factMap[q] /\ edited'[q] = edited[q]
    BY <1>1, <1>4, <1>5, <1>14 DEF Settled, EditsInStep
  <2>. QED  BY <1>1, <1>2, <2>1, <2>2, <2>3, <2>4, <2>5 DEF EditsInStep
<1>. QED  BY <1>4, <1>11, <1>12, <1>13, <1>14, <1>15 DEF IInv

(***************************************************************************)
(* A message for the manager.                                              *)
(***************************************************************************)
Handled(msg) ==
    IF msg.kind = "HASH" THEN HandleHashCheck(pm, msg.comp, msg.values)
    ELSE HandleParamValue(pm, msg)

LEMMA AnswerIsGot ==
    ASSUME ManagerOK(pm), Timed(pm), NEW msg \in Answers
    PROVE  Got(pm, Handled(msg), Carried(msg)) /\ Timed(Handled(msg))
<1>1. DefaultComponent \in Components
  BY ParameterAssumption
<1>2. ParamsOf(DefaultComponent) \subseteq Params
  BY <1>1 DEF Params
<1>3. CASE msg.kind = "HASH"
  <2>1. msg.comp = DefaultComponent
        /\ msg.values \in UNION {[S -> Nat] : S \in SUBSET ParamsOf(DefaultComponent)}
    BY <1>3 DEF Answers
  <2>2. PICK S \in SUBSET ParamsOf(DefaultComponent) : msg.values \in [S -> Nat]
    BY <2>1
  <2>3. DOMAIN msg.values \subseteq ParamsOf(DefaultComponent) /\ msg.values \in Valuations
    BY <1>2, <2>2 DEF Valuations
  <2>4. Handled(msg) = HandleHashCheck(pm, msg.comp, msg.values) /\ Carried(msg) = msg.values
    BY <1>3 DEF Handled, Carried
  <2>. QED  BY <1>1, <2>1, <2>3, <2>4, HashIsGot
<1>4. CASE msg.kind # "HASH"
  <2>1. msg.param \in Params /\ msg.indexed \in BOOLEAN
    BY <1>4 DEF Answers
  <2>2. Handled(msg) = HandleParamValue(pm, msg) /\ Carried(msg) = Single(msg.param, msg.value)
    BY <1>4 DEF Handled, Carried, Single
  <2>. QED  BY <2>1, <2>2, ValueIsGot
<1>. QED  BY <1>3, <1>4

LEMMA AnswerValues ==
    ASSUME NEW msg \in Answers
    PROVE  /\ DOMAIN Carried(msg) \subseteq Params
           /\ \A p \in DOMAIN Carried(msg) : Carried(msg)[p] \in Nat
<1>1. ParamsOf(DefaultComponent) \subseteq Params
  BY ParameterAssumption DEF Params
<1>2. CASE msg.kind = "HASH"
  <2>1. msg.values \in UNION {[S -> Nat] : S \in SUBSET ParamsOf(DefaultComponent)}
    BY <1>2 DEF Answers
  <2>2. PICK S \in SUBSET ParamsOf(DefaultComponent) : msg.values \in [S -> Nat]
    BY <2>1
  <2>. QED  BY <1>1, <1>2, <2>2 DEF Carried
<1>3. CASE msg.kind # "HASH"
  <2>1. msg.param \in Params /\ msg.value \in Nat
    BY <1>3 DEF Answers
  <2>. QED  BY <1>3, <2>1 DEF Carried
<1>. QED  BY <1>2, <1>3

(* A value ends the wait of a write only if it is the one written, or is seen to overtake it. *)
LEMMA ReceivedStep ==
    ASSUME IInv, MessageReceived, UNCHANGED events
    PROVE  LET s == Handled(Head(toGcs))
           IN  /\ IInv' /\ Kept(pm') = Kept(s) /\ Got(pm, s, Carried(Head(toGcs)))
               /\ (Complete(s) => Complete(pm'))
<1>. DEFINE msg == Head(toGcs)
            s == Handled(msg)
            got == Carried(msg)
<1>1. /\ ManagerOK(pm) /\ pm.outbox = << >> /\ Types /\ WritesInOrder /\ ValuesInOrder
      /\ EditsInStep /\ Accounted(pm, {}) /\ Timed(pm) /\ NoSets(pm)
  BY DEF IInv, NoSets
<1>2. /\ toGcs # << >> /\ toGcs' = Tail(toGcs) /\ Becomes(s) /\ overtaken' = overtaken \cup Overtakes(s)
      /\ values' = values /\ listing' = listing /\ edited' = edited /\ events' = events
  BY DEF MessageReceived, Handled
<1>3. /\ Tail(toGcs) \in Seq(Answers) /\ Head(toGcs) = toGcs[1] /\ Head(toGcs) \in Answers
      /\ 1 \in DOMAIN toGcs
      /\ \A i \in DOMAIN Tail(toGcs) : i + 1 \in DOMAIN toGcs /\ i \in Nat
                                       /\ Tail(toGcs)[i] = toGcs[i + 1] /\ 1 < i + 1
  <2>1. toGcs \in Seq(Answers)
    BY <1>1 DEF Types
  <2>. QED  BY <1>2, <2>1, Taken
<1>4. Got(pm, s, got) /\ Timed(s)
  BY <1>1, <1>3, AnswerIsGot
<1>5. DOMAIN got \subseteq Params /\ \A p \in DOMAIN got : got[p] \in Nat
  BY <1>3, AnswerValues
<1>6. Counting /\ events \in Nat
  BY <1>1, <1>2, TransferAssumption DEF Types, Counting
<1>. HIDE DEF s
<1>7. /\ ManagerOK(pm') /\ pm'.outbox = << >> /\ Accounted(pm', {}) /\ Timed(pm')
      /\ Kept(pm') = Kept(s) /\ (Complete(s) => Complete(pm'))
      /\ toVehicle' \in Seq(Requests) /\ WritesInOrder'
  <2>1. ManagerOK(s) /\ Accounted(s, {}) /\ NoSets(s)
    BY <1>1, <1>4 DEF Got
  <2>2. SetsFor(s, {})
    BY <2>1 DEF SetsFor, NoSets
  <2>3. Written(toVehicle, values, edited', events')
    BY <1>1, <1>2, <1>6, LaterWritten
  <2>. QED  BY <1>1, <1>2, <1>4, <2>1, <2>2, <2>3, Became
<1>8. Types'
  BY <1>1, <1>2, <1>3, <1>6, <1>7, LaterTypes DEF Types
<1>9. toGcs \in Seq(Answers) /\ Past(toGcs, values) /\ Rising(toGcs)
  BY <1>1 DEF ValuesInOrder, Types
<1>10. ValuesInOrder'
  BY <1>2, <1>9, TakenPast DEF ValuesInOrder
<1>11. /\ pm'.factMap = s.factMap /\ pm'.writesFailed = pm.writesFailed
       /\ pm'.waitingWriteParamNameMap = s.waitingWriteParamNameMap
       /\ DOMAIN pm.factMap \subseteq DOMAIN s.factMap
       /\ DOMAIN s.waitingWriteParamNameMap \subseteq DOMAIN pm.waitingWriteParamNameMap
       /\ \A q \in DOMAIN s.factMap :
             \/ q \in DOMAIN pm.factMap /\ s.factMap[q] = pm.factMap[q]
             \/ /\ q \in DOMAIN got /\ s.factMap[q] = got[q]
                /\ q \notin DOMAIN s.waitingWriteParamNameMap
       /\ \A q \in DOMAIN pm.waitingWriteParamNameMap \ DOMAIN s.waitingWriteParamNameMap :
             q \in DOMAIN got /\ q \in DOMAIN s.factMap /\ s.factMap[q] = got[q]
  <2>1. pm'.factMap = s.factMap /\ pm'.writesFailed = s.writesFailed
        /\ pm'.waitingWriteParamNameMap = s.waitingWriteParamNameMap
    BY <1>7 DEF Kept
  <2>. HIDE DEF got
  <2>. QED  BY <1>4, <2>1 DEF Got
<1>12. got = Carried(toGcs[1])
  BY <1>3
<1>. HIDE DEF got, msg
<1>13. ASSUME NEW p \in Settled'
       PROVE  /\ values[p] = edited[p] /\ s.factMap[p] = edited[p]
              /\ \A i \in DOMAIN toGcs' :
                    p \in DOMAIN Carried(toGcs'[i]) => Carried(toGcs'[i])[p] = edited[p]
  <2>1. p \in DOMAIN edited /\ p \in DOMAIN pm.factMap /\ p \in DOMAIN s.factMap
        /\ p \notin DOMAIN s.waitingWriteParamNameMap
        /\ edited[p] \in Nat /\ values[p] <= edited[p] /\ p \in Params /\ values[p] \in Nat
    <3>1. p \in DOMAIN edited /\ p \notin DOMAIN s.waitingWriteParamNameMap
      BY <1>2, <1>11 DEF Settled
    <3>2. p \in Params /\ values[p] \in Nat
      BY <1>1, <3>1, TransferAssumption DEF Types
    <3>3. edited[p] \in 0 .. events /\ values[p] <= edited[p] /\ p \in DOMAIN pm.factMap
      BY <1>1, <3>1 DEF EditsInStep
    <3>. QED  BY <1>6, <1>11, <3>1, <3>2, <3>3
  <2>2. CASE p \in Settled
    <3>1. /\ values[p] = edited[p] /\ pm.factMap[p] = edited[p]
          /\ \A i \in DOMAIN toGcs :
                p \in DOMAIN Carried(toGcs[i]) => Carried(toGcs[i])[p] = edited[p]
      BY <1>1, <2>2 DEF EditsInStep
    <3>2. p \in DOMAIN got => got[p] = edited[p]
      BY <1>3, <1>12, <3>1
    <3>3. s.factMap[p] = edited[p]
      BY <1>11, <2>1, <3>1, <3>2
    <3>. QED  BY <1>2, <1>3, <3>1, <3>3
  <2>3. CASE p \notin Settled
    <3>1. p \in DOMAIN pm.waitingWriteParamNameMap /\ p \notin Overtakes(s)
      BY <1>2, <1>11, <2>1, <2>3 DEF Settled
    <3>2. p \in DOMAIN got /\ s.factMap[p] = got[p]
      BY <1>11, <2>1, <3>1
    <3>3. s.factMap[p] = pm.factMap[p]
      BY <2>1, <3>1 DEF Overtakes
    <3>4. pm.factMap[p] = edited[p]
      BY <1>1, <3>1 DEF EditsInStep
    <3>5. got[p] = edited[p] /\ got[p] <= values[p]
      BY <1>3, <1>9, <1>12, <3>2, <3>3, <3>4 DEF Past
    <3>6. values[p] = edited[p]
      BY <2>1, <3>5
    <3>7. ASSUME NEW i \in DOMAIN toGcs', p \in DOMAIN Carried(toGcs'[i])
          PROVE  Carried(toGcs'[i])[p] = edited[p]
      <4>1. i + 1 \in DOMAIN toGcs /\ toGcs'[i] = toGcs[i + 1] /\ 1 < i + 1
        BY <1>2, <1>3, <3>7
      <4>2. toGcs[i + 1] \in Answers
        BY <1>9, <4>1
      <4>3. Carried(toGcs[i + 1])[p] \in Nat
        BY <4>1, <4>2, <3>7, AnswerValues
      <4>4. Carried(toGcs[i + 1])[p] <= values[p]
        BY <1>9, <4>1, <3>7 DEF Past
      <4>5. got[p] <= Carried(toGcs[i + 1])[p]
        BY <1>3, <1>9, <1>12, <4>1, <3>2, <3>7 DEF Rising
      <4>. QED  BY <4>1, <4>3, <4>4, <4>5, <3>5, <3>6, <2>1
    <3>. QED  BY <3>2, <3>5, <3>6, <3>7
  <2>. QED  BY <2>2, <2>3
<1>14. ASSUME NEW p \in DOMAIN s.waitingWriteParamNameMap
       PROVE  p \in DOMAIN edited /\ s.factMap[p] = edited[p]
  <2>1. p \in DOMAIN edited /\ pm.factMap[p] = edited[p] /\ p \in DOMAIN s.factMap
    BY <1>1, <1>11, <1>14 DEF EditsInStep
  <2>. QED  BY <1>11, <1>14, <2>1
<1>15. EditsInStep'
  <2>1. DOMAIN edited' \subseteq DOMAIN pm'.factMap
    BY <1>1, <1>2, <1>11 DEF EditsInStep
  <2>2. \A p \in DOMAIN edited' : edited'[p] \in 0 .. events' /\ values'[p] <= edited'[p]
    BY <1>1, <1>2 DEF EditsInStep
  <2>3. \A p \in Settled' :
           /\ values'[p] = edited'[p] /\ pm'.factMap[p] = edited'[p]
           /\ \A i \in DOMAIN toGcs' :
                 p \in DOMAIN Carried(toGcs'[i]) => Carried(toGcs'[i])[p] = edited'[p]
    BY <1>2, <1>11, <1>13
  <2>. QED  BY <1>2, <1>11, <1>14, <2>1, <2>2, <2>3 DEF EditsInStep
<1>. QED  BY <1>4, <1>7, <1>8, <1>10, <1>15 DEF IInv, s, got, msg

(***************************************************************************)
(* The vehicle answers: what it sends is what it has.                      *)
(***************************************************************************)
LEMMA ValueIsAnswer ==
    ASSUME NEW p \in Params, NEW v \in Nat, NEW indexed \in BOOLEAN
    PROVE  /\ ValueMsg(p, v, indexed) \in Answers
           /\ DOMAIN Carried(ValueMsg(p, v, indexed)) = {p}
           /\ Carried(ValueMsg(p, v, indexed))[p] = v
<1>. DEFINE msg == ValueMsg(p, v, indexed)
<1>1. msg = [kind |-> "VALUE", param |-> p, value |-> v, indexed |-> indexed]
  BY DEF ValueMsg
<1>2. msg \in Answers
  BY <1>1 DEF Answers
<1>3. msg.kind # "HASH" /\ msg.param = p /\ msg.value = v
  BY <1>1
<1>. HIDE DEF msg
<1>4. Carried(msg) = [q \in {p} |-> v]
  BY <1>3 DEF Carried
<1>. QED  BY <1>2, <1>4 DEF msg

Current(msg) == \A p \in DOMAIN Carried(msg) : Carried(msg)[p] = values[p]

(* The vehicle sends what it has, and the link loses what it likes. *)
LEMMA VehicleSays ==
    ASSUME IInv, UNCHANGED <<pm, values, edited, overtaken>>, Counting, listing' \in Seq(Params),
           \/ toVehicle' = toVehicle
           \/ toVehicle # << >> /\ toVehicle' = Tail(toVehicle),
           \/ toGcs' = toGcs
           \/ toGcs # << >> /\ toGcs' = Tail(toGcs)
           \/ \E msg \in Answers : Current(msg) /\ toGcs' = Append(toGcs, msg)
    PROVE  IInv'
<1>1. /\ ManagerOK(pm) /\ pm.outbox = << >> /\ Types /\ WritesInOrder /\ ValuesInOrder
      /\ EditsInStep /\ Accounted(pm, {}) /\ Timed(pm)
  BY DEF IInv
<1>2. /\ toVehicle \in Seq(Requests) /\ toGcs \in Seq(Answers)
      /\ Past(toGcs, values) /\ Rising(toGcs) /\ Ordered(toVehicle)
  BY <1>1 DEF Types, ValuesInOrder, WritesInOrder
<1>3. Written(toVehicle, values, edited', events')
  BY <1>1, LaterWritten
<1>4. toVehicle' \in Seq(Requests) /\ WritesInOrder'
  <2>1. CASE toVehicle' = toVehicle
    BY <1>2, <1>3, <2>1 DEF WritesInOrder
  <2>2. CASE toVehicle # << >> /\ toVehicle' = Tail(toVehicle)
    <3>1. /\ Written(Tail(toVehicle), values, edited', events') /\ Ordered(Tail(toVehicle))
          /\ Tail(toVehicle) \in Seq(Requests)
      BY <1>2, <1>3, <2>2, TakenInOrder, Taken
    <3>. QED  BY <2>2, <3>1 DEF WritesInOrder
  <2>. QED  BY <2>1, <2>2
<1>5. /\ toGcs' \in Seq(Answers) /\ Past(toGcs', values) /\ Rising(toGcs')
      /\ \A i \in DOMAIN toGcs' :
            \/ \E j \in DOMAIN toGcs : toGcs'[i] = toGcs[j]
            \/ Current(toGcs'[i])
  <2>1. CASE toGcs' = toGcs
    BY <1>2, <2>1
  <2>2. CASE toGcs # << >> /\ toGcs' = Tail(toGcs)
    <3>1. /\ Tail(toGcs) \in Seq(Answers)
          /\ \A i \in DOMAIN Tail(toGcs) : i + 1 \in DOMAIN toGcs /\ Tail(toGcs)[i] = toGcs[i + 1]
      BY <1>2, <2>2, Taken
    <3>2. Past(Tail(toGcs), values) /\ Rising(Tail(toGcs))
      BY <1>2, <2>2, TakenPast
    <3>. QED  BY <2>2, <3>1, <3>2
  <2>3. CASE \E msg \in Answers : Current(msg) /\ toGcs' = Append(toGcs, msg)
    <3>1. PICK msg \in Answers : Current(msg) /\ toGcs' = Append(toGcs, msg)
      BY <2>3
    <3>2. \A p \in DOMAIN Carried(msg) : Carried(msg)[p] = values[p] /\ values[p] \in Nat
      BY <3>1, AnswerValues DEF Current
    <3>3. Append(toGcs, msg) \in Seq(Answers) /\ Past(Append(toGcs, msg), values)
          /\ Rising(Append(toGcs, msg))
      BY <1>2, <3>2, AnsweredInOrder
    <3>4. \A i \in DOMAIN Append(toGcs, msg) :
             Append(toGcs, msg)[i] = msg \/ (i \in DOMAIN toGcs /\ Append(toGcs, msg)[i] = toGcs[i])
      <4>1. /\ DOMAIN Append(toGcs, msg) = 1 .. Len(toGcs) + 1
            /\ DOMAIN toGcs = 1 .. Len(toGcs) /\ Len(toGcs) \in Nat
            /\ \A i \in DOMAIN toGcs : Append(toGcs, msg)[i] = toGcs[i]
            /\ Append(toGcs, msg)[Len(toGcs) + 1] = msg
        BY <1>2, Appended
      <4>2. \A i \in 1 .. Len(toGcs) + 1 : i = Len(toGcs) + 1 \/ i \in 1 .. Len(toGcs)
        BY <4>1
      <4>. QED  BY <4>1, <4>2
    <3>. QED  BY <3>1, <3>3, <3>4
  <2>. QED  BY <2>1, <2>2, <2>3
<1>6. Types'
  BY <1>1, <1>4, <1>5, LaterTypes
<1>7. ValuesInOrder'
  BY <1>5 DEF ValuesInOrder
<1>8. EditsInStep'
  <2>1. Settled' = Settled
    BY DEF Settled
  <2>2. \A p \in Settled :
           /\ values[p] = edited[p] /\ pm.factMap[p] = edited[p]
           /\ \A i \in DOMAIN toGcs :
                 p \in DOMAIN Carried(toGcs[i]) => Carried(toGcs[i])[p] = edited[p]
    BY <1>1 DEF EditsInStep
  <2>3. \A p \in Settled : \A i \in DOMAIN toGcs' :
           p \in DOMAIN Carried(toGcs'[i]) => Carried(toGcs'[i])[p] = edited[p]
    BY <1>5, <2>2 DEF Current
  <2>4. \A p \in DOMAIN edited : edited[p] \in 0 .. events'
    BY <1>1, TransferAssumption DEF EditsInStep, Counting, Types
  <2>. QED  BY <1>1, <2>1, <2>2, <2>3, <2>4 DEF EditsInStep
<1>9. ManagerOK(pm') /\ pm'.outbox = << >> /\ Accounted(pm', {}) /\ Timed(pm')
  BY <1>1
<1>. QED  BY <1>4, <1>6, <1>7, <1>8, <1>9 DEF IInv

LEMMA ValueIsCurrent ==
    ASSUME Types, NEW p \in Params, NEW indexed \in BOOLEAN
    PROVE  ValueMsg(p, values[p], indexed) \in Answers /\ Current(ValueMsg(p, values[p], indexed))
<1>1. values[p] \in Nat
  BY TransferAssumption DEF Types
<1>. DEFINE msg == ValueMsg(p, values[p], indexed)
<1>2. msg \in Answers /\ DOMAIN Carried(msg) = {p} /\ Carried(msg)[p] = values[p]
  BY <1>1, ValueIsAnswer
<1>. HIDE DEF msg
<1>3. Current(msg)
  BY <1>2 DEF Current
<1>. QED  BY <1>2, <1>3 DEF msg

LEMMA HashIsCurrent ==
    ASSUME Types
    PROVE  LET msg == HashMsg(DefaultComponent, Restrict(values, ParamsOf(DefaultComponent)))
           IN  msg \in Answers /\ Current(msg)
<1>. DEFINE hash == Restrict(values, ParamsOf(DefaultComponent))
            msg == HashMsg(DefaultComponent, hash)
<1>1. /\ ParamsOf(DefaultComponent) \subseteq Params
      /\ \A p \in Params : values[p] \in Nat
      /\ DOMAIN values = Params
  BY ParameterAssumption, TransferAssumption DEF Params, Types
<1>2. hash \in [ParamsOf(DefaultComponent) -> Nat] /\ \A p \in DOMAIN hash : hash[p] = values[p]
  BY <1>1 DEF Restrict
<1>. HIDE DEF hash
<1>3. msg = [kind |-> "HASH", comp |-> DefaultComponent, values |-> hash]
  BY DEF HashMsg
<1>4. hash \in UNION {[S -> Nat] : S \in SUBSET ParamsOf(DefaultComponent)}
  BY <1>2
<1>5. msg \in Answers
  BY <1>3, <1>4 DEF Answers
<1>6. Carried(msg) = hash
  BY <1>3 DEF Carried
<1>. HIDE DEF msg
<1>7. Current(msg)
  BY <1>2, <1>6 DEF Current
<1>. QED  BY <1>5, <1>7 DEF msg, hash

(***************************************************************************)
(* A write that arrives: none before it gave a later value, and it gives   *)
(* no later one than the last.                                             *)
(***************************************************************************)
LEMMA SetStep ==
    ASSUME IInv, toVehicle # << >>, toVehicle' = Tail(toVehicle), Head(toVehicle).kind = "SET",
           HandleParamSet(Head(toVehicle).param, Head(toVehicle).value),
           UNCHANGED <<pm, failureMode, link, events, edited, overtaken>>
    PROVE  IInv'
<1>. DEFINE p == Head(toVehicle).param
            v == Head(toVehicle).value
<1>1. /\ ManagerOK(pm) /\ pm.outbox = << >> /\ Types /\ WritesInOrder /\ ValuesInOrder
      /\ EditsInStep /\ Accounted(pm, {}) /\ Timed(pm)
  BY DEF IInv
<1>2. /\ toVehicle \in Seq(Requests) /\ toGcs \in Seq(Answers) /\ events \in 0 .. MaxEvents
      /\ Past(toGcs, values) /\ Rising(toGcs) /\ Ordered(toVehicle)
      /\ Written(toVehicle, values, edited, events) /\ MaxEvents \in Nat
  BY <1>1, TransferAssumption DEF Types, ValuesInOrder, WritesInOrder
<1>3. /\ Tail(toVehicle) \in Seq(Requests) /\ Head(toVehicle) = toVehicle[1]
      /\ Head(toVehicle) \in Requests /\ 1 \in DOMAIN toVehicle
      /\ \A i \in DOMAIN Tail(toVehicle) : i + 1 \in DOMAIN toVehicle /\ i \in Nat
                /\ Tail(toVehicle)[i] = toVehicle[i + 1] /\ 1 < i + 1
  BY <1>2, Taken
<1>4. p \in Params /\ v \in Nat
  BY <1>3, ValuesOfRequests
<1>5. values[p] <= v /\ v <= events /\ (p \in DOMAIN edited => v <= edited[p])
  BY <1>2, <1>3 DEF Written
<1>6. \A i \in DOMAIN Tail(toVehicle) :
         Tail(toVehicle)[i].kind = "SET" /\ Tail(toVehicle)[i].param = p => v <= Tail(toVehicle)[i].value
  BY <1>2, <1>3 DEF Ordered
<1>7. values' = [values EXCEPT ![p] = v] /\ toGcs' = Append(toGcs, ValueMsg(p, v, TRUE))
      /\ listing' = listing
  BY DEF HandleParamSet
<1>. HIDE DEF p, v
<1>8. /\ \A q \in Params : values[q] \in 0 .. MaxEvents /\ values[q] <= events
      /\ values \in [Params -> 0 .. MaxEvents]
  BY <1>1 DEF Types
<1>9. /\ values' \in [Params -> 0 .. MaxEvents] /\ values'[p] = v
      /\ \A q \in Params \ {p} : values'[q] = values[q]
      /\ \A q \in Params : values[q] <= values'[q] /\ values'[q] \in Nat /\ values'[q] <= events
                           /\ values[q] \in Nat
  <2>1. v \in 0 .. MaxEvents
    BY <1>2, <1>4, <1>5
  <2>2. /\ values' \in [Params -> 0 .. MaxEvents] /\ values'[p] = v
        /\ \A q \in Params \ {p} : values'[q] = values[q]
    BY <1>4, <1>7, <1>8, <2>1
  <2>3. ASSUME NEW q \in Params
        PROVE  values[q] <= values'[q] /\ values'[q] \in Nat /\ values'[q] <= events
               /\ values[q] \in Nat
    <3>1. CASE q = p
      BY <1>2, <1>4, <1>5, <1>8, <2>2, <3>1
    <3>2. CASE q # p
      BY <1>2, <1>8, <2>2, <3>2
    <3>. QED  BY <3>1, <3>2
  <2>. QED  BY <2>2, <2>3
<1>10. WritesInOrder'
  <2>1. Written(Tail(toVehicle), values, edited, events) /\ Ordered(Tail(toVehicle))
    BY <1>2, TakenInOrder
  <2>2. \A i \in DOMAIN Tail(toVehicle) : Tail(toVehicle)[i].kind = "SET" =>
           Tail(toVehicle)[i].param \in Params
    BY <1>3, <1>2, ValuesOfRequests
  <2>3. Written(Tail(toVehicle), values', edited, events)
    BY <1>6, <1>9, <2>1, <2>2 DEF Written
  <2>. QED  BY <2>1, <2>3 DEF WritesInOrder
<1>11. \A i \in DOMAIN toGcs : \A q \in DOMAIN Carried(toGcs[i]) :
          q \in Params /\ Carried(toGcs[i])[q] \in Nat
  BY <1>2, AnswerValues
<1>. DEFINE msg == ValueMsg(p, v, TRUE)
<1>12. msg \in Answers /\ DOMAIN Carried(msg) = {p} /\ Carried(msg)[p] = v
  <2>1. TRUE \in BOOLEAN
    OBVIOUS
  <2>. QED  BY <1>4, <2>1, ValueIsAnswer
<1>. HIDE DEF msg
<1>13. toGcs' \in Seq(Answers) /\ Past(toGcs', values') /\ Rising(toGcs')
  <2>1. Past(toGcs, values')
    BY <1>2, <1>9, <1>11 DEF Past
  <2>2. \A q \in DOMAIN Carried(msg) : Carried(msg)[q] = values'[q] /\ values'[q] \in Nat
    BY <1>4, <1>9, <1>12
  <2>3. toGcs' = Append(toGcs, msg)
    BY <1>7 DEF msg
  <2>. QED  BY <1>2, <1>12, <2>1, <2>2, <2>3, AnsweredInOrder
<1>14. \A q \in DOMAIN edited : values'[q] <= edited[q] /\ q \in Params
  BY <1>1, <1>5, <1>9 DEF EditsInStep, Types
<1>15. \A q \in Settled : values'[q] = edited[q]
  <2>. SUFFICES ASSUME NEW q \in Settled PROVE values'[q] = edited[q]
    OBVIOUS
  <2>1. values[q] = edited[q] /\ q \in DOMAIN edited
    BY <1>1 DEF EditsInStep, Settled
  <2>. QED  BY <2>1, <1>9, <1>14
<1>16. \A q \in Settled : \A i \in DOMAIN toGcs' :
          q \in DOMAIN Carried(toGcs'[i]) => Carried(toGcs'[i])[q] = edited[q]
  <2>. SUFFICES ASSUME NEW q \in Settled, NEW i \in DOMAIN toGcs', q \in DOMAIN Carried(toGcs'[i])
                PROVE  Carried(toGcs'[i])[q] = edited[q]
    OBVIOUS
  <2>1. /\ DOMAIN toGcs' = 1 .. Len(toGcs) + 1
        /\ DOMAIN toGcs = 1 .. Len(toGcs) /\ Len(toGcs) \in Nat
        /\ \A j \in DOMAIN toGcs : toGcs'[j] = toGcs[j]
        /\ toGcs'[Len(toGcs) + 1] = msg
    <3>1. toGcs' = Append(toGcs, msg)
      BY <1>7 DEF msg
    <3>. QED  BY <1>2, <1>12, <3>1, Appended
  <2>2. CASE i \in DOMAIN toGcs
    BY <1>1, <2>1, <2>2 DEF EditsInStep
  <2>3. CASE i = Len(toGcs) + 1
    BY <1>9, <1>12, <1>15, <2>1, <2>3
  <2>. QED  BY <2>1, <2>2, <2>3
<1>17. EditsInStep'
  <2>1. Settled' = Settled
    BY DEF Settled
  <2>. QED  BY <1>1, <1>14, <1>15, <1>16, <2>1 DEF EditsInStep
<1>18. Types'
  BY <1>1, <1>3, <1>7, <1>9, <1>13 DEF Types
<1>19. ManagerOK(pm') /\ pm'.outbox = << >> /\ Accounted(pm', {}) /\ Timed(pm')
  BY <1>1
<1>. QED  BY <1>10, <1>13, <1>17, <1>18, <1>19 DEF IInv, ValuesInOrder

LEMMA VehicleStep ==
    ASSUME IInv, VehicleReceives
    PROVE  IInv'
<1>. DEFINE msg == Head(toVehicle)
<1>1. /\ Types /\ toVehicle # << >> /\ toVehicle' = Tail(toVehicle)
      /\ UNCHANGED <<pm, failureMode, link, events, edited, overtaken>>
  BY DEF IInv, VehicleReceives
<1>2. toVehicle \in Seq(Requests) /\ listing \in Seq(Params) /\ Counting
  BY <1>1, TransferAssumption DEF Types, Counting
<1>3. msg \in Requests
  BY <1>1, <1>2, Taken
<1>4. CASE msg.kind = "LIST" /\ HandleParamRequestList /\ UNCHANGED values
  <2>1. CASE failureMode = "noListResponse"
    <3>1. listing' = listing /\ toGcs' = toGcs
      BY <1>4, <2>1 DEF HandleParamRequestList
    <3>. QED  BY <1>1, <1>2, <1>4, <3>1, VehicleSays
  <2>2. CASE failureMode # "noListResponse"
    <3>. DEFINE sent == {p \in Params : ~Skipped(p)}
                hash == HashMsg(DefaultComponent, Restrict(values, ParamsOf(DefaultComponent)))
    <3>1. /\ listing' = InOrder(sent)
          /\ toGcs' = toGcs \o (IF ~Px4Firmware THEN << >> ELSE << hash >>)
      BY <1>4, <2>2 DEF HandleParamRequestList
    <3>2. listing' \in Seq(Params)
      <4>1. sent \in SUBSET Params
        OBVIOUS
      <4>. HIDE DEF sent
      <4>2. InOrder(sent) \in Seq(sent)
        BY <4>1, InOrderLists
      <4>. QED  BY <3>1, <4>1, <4>2
    <3>3. hash \in Answers /\ Current(hash)
      BY <1>1, HashIsCurrent
    <3>. HIDE DEF hash
    <3>4. toGcs' = toGcs \/ toGcs' = Append(toGcs, hash)
      <4>1. toGcs \in Seq(Answers)
        BY <1>1 DEF Types
      <4>2. CASE ~Px4Firmware
        BY <3>1, <4>1, <4>2
      <4>3. CASE Px4Firmware
        BY <3>1, <3>3, <4>1, <4>3
      <4>. QED  BY <4>2, <4>3
    <3>. QED  BY <1>1, <1>2, <1>4, <3>2, <3>3, <3>4, VehicleSays
  <2>. QED  BY <2>1, <2>2
<1>5. CASE msg.kind = "READ" /\ HandleParamRequestRead(msg.param) /\ UNCHANGED values
  <2>. DEFINE p == msg.param
  <2>1. p \in Params
    BY <1>3, <1>5 DEF Requests
  <2>2. /\ toGcs' = IF Silent(p) THEN toGcs ELSE Append(toGcs, ValueMsg(p, values[p], TRUE))
        /\ listing' = listing
    BY <1>5 DEF HandleParamRequestRead
  <2>. HIDE DEF p, msg
  <2>. DEFINE value == ValueMsg(p, values[p], TRUE)
  <2>3. value \in Answers /\ Current(value)
    <3>1. TRUE \in BOOLEAN
      OBVIOUS
    <3>. QED  BY <1>1, <2>1, <3>1, ValueIsCurrent
  <2>4. toGcs' = toGcs \/ toGcs' = Append(toGcs, value)
    BY <2>2
  <2>. HIDE DEF value
  <2>. QED  BY <1>1, <1>2, <1>5, <2>2, <2>3, <2>4, VehicleSays
<1>6. CASE msg.kind = "SET" /\ HandleParamSet(msg.param, msg.value)
  BY <1>1, <1>6, SetStep
<1>7. CASE msg.kind = "HASH" /\ listing' = << >> /\ UNCHANGED <<values, toGcs>>
  <2>1. << >> \in Seq(Params)
    OBVIOUS
  <2>. QED  BY <1>1, <1>2, <1>7, <2>1, VehicleSays
<1>. QED  BY <1>4, <1>5, <1>6, <1>7 DEF VehicleReceives

LEMMA ListStep ==
    ASSUME IInv, ParamRequestListWorker
    PROVE  IInv'
<1>1. Types /\ listing # << >> /\ listing \in Seq(Params) /\ events' = events
  BY DEF IInv, Types, ParamRequestListWorker
<1>. DEFINE p == Head(listing)
            value == ValueMsg(p, values[p], TRUE)
<1>2. p \in Params /\ Tail(listing) \in Seq(Params)
  BY <1>1, Taken
<1>3. value \in Answers /\ Current(value)
  <2>1. TRUE \in BOOLEAN
    OBVIOUS
  <2>. QED  BY <1>1, <1>2, <2>1, ValueIsCurrent
<1>4. listing' = Tail(listing) /\ toGcs' = Append(toGcs, value)
      /\ UNCHANGED <<pm, values, toVehicle, edited, overtaken>>
  BY DEF ParamRequestListWorker
<1>5. Counting
  BY <1>1, TransferAssumption DEF Types, Counting
<1>. HIDE DEF value, p
<1>. QED  BY <1>2, <1>3, <1>4, <1>5, VehicleSays

(* A vehicle closed and heard of again. *)
LEMMA NewStep ==
    ASSUME IInv, Reconnects, Counting
    PROVE  /\ IInv'
           /\ pm'.parametersReady /\ ~pm'.missingParameters => Complete(pm')
<1>. DEFINE new == NewManager(pm.cache)
            s == RefreshAllParameters(new, link)
<1>1. /\ Types /\ WritesInOrder /\ ValuesInOrder /\ Becomes(s) /\ edited' = Nothing
      /\ overtaken' = {} /\ UNCHANGED <<values, listing, toGcs>>
  BY DEF IInv, Reconnects
<1>2. /\ ManagerOK(new) /\ Timed(new) /\ Accounted(new, {}) /\ NoSets(new)
      /\ DOMAIN new.waitingWriteParamNameMap = {} /\ ~new.parametersReady
  BY NewIs
<1>. HIDE DEF new
<1>3. Plain(new, s)
  BY <1>2, RefreshAllIsPlain
<1>. HIDE DEF s
<1>4. /\ ManagerOK(s) /\ Timed(s) /\ Accounted(s, {}) /\ NoSets(s)
      /\ DOMAIN s.waitingWriteParamNameMap = {}
      /\ s.parametersReady /\ ~s.missingParameters => Complete(s)
  BY <1>2, <1>3 DEF Plain
<1>5. DOMAIN edited' = {}
  BY <1>1 DEF Nothing
<1>6. Written(toVehicle, values, edited', events')
  <2>1. \A i \in DOMAIN toVehicle : toVehicle[i] \in Requests
    BY <1>1 DEF Types
  <2>2. \A i \in DOMAIN toVehicle : toVehicle[i].kind = "SET" => toVehicle[i].value \in Nat
    BY <2>1, ValuesOfRequests
  <2>3. Written(toVehicle, values, edited, events)
    BY <1>1 DEF WritesInOrder
  <2>4. events \in Nat /\ events' \in Nat /\ events <= events'
    BY <1>1, TransferAssumption DEF Types, Counting
  <2>. QED  BY <1>5, <2>2, <2>3, <2>4 DEF Written
<1>7. /\ ManagerOK(pm') /\ pm'.outbox = << >> /\ Accounted(pm', {}) /\ Timed(pm')
      /\ Kept(pm') = Kept(s) /\ (Complete(s) => Complete(pm'))
      /\ toVehicle' \in Seq(Requests) /\ WritesInOrder'
  <2>1. SetsFor(s, {})
    BY <1>4 DEF SetsFor, NoSets
  <2>. QED  BY <1>1, <1>4, <1>6, <2>1, Became
<1>8. Types'
  <2>1. DOMAIN edited' \subseteq Params
    BY <1>5
  <2>2. \A p \in Params : values[p] <= events'
    BY <1>1, TransferAssumption DEF Types, Counting
  <2>. QED  BY <1>1, <1>7, <2>1, <2>2 DEF Types, Counting
<1>9. ValuesInOrder'
  BY <1>1 DEF ValuesInOrder
<1>10. /\ pm'.waitingWriteParamNameMap = s.waitingWriteParamNameMap
       /\ pm'.parametersReady = s.parametersReady /\ pm'.missingParameters = s.missingParameters
  BY <1>7 DEF Kept
<1>11. EditsInStep'
  <2>1. Settled' = {}
    BY <1>5 DEF Settled
  <2>. QED  BY <1>4, <1>5, <1>10, <2>1 DEF EditsInStep
<1>. QED  BY <1>4, <1>7, <1>8, <1>9, <1>10, <1>11 DEF IInv

LEMMA InitOK ==
    ASSUME Init
    PROVE  IInv
<1>. DEFINE new == NewManager(NoCache)
            s == RefreshAllParameters(new, "normal")
<1>1. /\ values = [p \in Params |-> 0] /\ pm = [s EXCEPT !.outbox = << >>] /\ toVehicle = s.outbox
      /\ listing = << >> /\ toGcs = << >> /\ events = 0 /\ edited = Nothing
  BY DEF Init
<1>2. /\ ManagerOK(new) /\ Timed(new) /\ Accounted(new, {}) /\ NoSets(new)
      /\ DOMAIN new.waitingWriteParamNameMap = {}
  BY NewIs
<1>. HIDE DEF new
<1>3. Plain(new, s)
  BY <1>2, RefreshAllIsPlain
<1>. HIDE DEF s
<1>4. /\ ManagerOK(s) /\ Timed(s) /\ Accounted(s, {}) /\ NoSets(s)
      /\ DOMAIN s.waitingWriteParamNameMap = {}
  BY <1>2, <1>3 DEF Plain
<1>5. /\ ManagerOK(pm) /\ pm.outbox = << >> /\ Accounted(pm, {}) /\ Timed(pm) /\ Kept(pm) = Kept(s)
  BY <1>1, <1>4, Emptied
<1>6. DOMAIN edited = {} /\ DOMAIN pm.waitingWriteParamNameMap = {}
  <2>1. pm.waitingWriteParamNameMap = s.waitingWriteParamNameMap
    BY <1>5 DEF Kept
  <2>. QED  BY <1>1, <1>4, <2>1 DEF Nothing
<1>7. toVehicle \in Seq(Requests) /\ \A i \in DOMAIN toVehicle : toVehicle[i].kind # "SET"
  BY <1>1, <1>4 DEF ManagerOK, NoSets
<1>8. WritesInOrder
  BY <1>7 DEF WritesInOrder, Written, Ordered
<1>9. << >> \in Seq(Answers) /\ << >> \in Seq(Params) /\ DOMAIN << >> = {}
  OBVIOUS
<1>10. ValuesInOrder
  BY <1>1, <1>9 DEF ValuesInOrder, Past, Rising
<1>11. Types
  <2>1. MaxEvents \in Nat
    BY TransferAssumption
  <2>2. /\ values \in [Params -> 0 .. MaxEvents] /\ \A p \in Params : values[p] <= events
        /\ events \in 0 .. MaxEvents
    BY <1>1, <2>1
  <2>. QED  BY <1>1, <1>6, <1>7, <1>9, <2>2 DEF Types
<1>12. EditsInStep
  <2>1. Settled = {}
    BY <1>6 DEF Settled
  <2>. QED  BY <1>6, <2>1 DEF EditsInStep
<1>. QED  BY <1>5, <1>8, <1>10, <1>11, <1>12 DEF IInv

LEMMA UnchangedStep ==
    ASSUME IInv, UNCHANGED vars
    PROVE  IInv'
<1>1. UNCHANGED <<pm, values, listing, toVehicle, toGcs, events, edited, overtaken>>
  BY DEF vars
<1>2. Settled' = Settled
  BY <1>1 DEF Settled
<1>. QED  BY <1>1, <1>2 DEF IInv, Types, WritesInOrder, ValuesInOrder, EditsInStep

(* A step of the station that is no event. *)
LEMMA RequestStep ==
    ASSUME IInv, RequestTimesOut
    PROVE  LET s == InitialRequestTimeout(pm, link)
           IN  IInv' /\ Kept(pm') = Kept(s) /\ Plain(pm, s) /\ (Complete(s) => Complete(pm'))
<1>1. ManagerOK(pm) /\ Types
  BY DEF IInv
<1>2. /\ Becomes(InitialRequestTimeout(pm, link)) /\ events' = events
      /\ UNCHANGED <<values, listing, toGcs, edited, overtaken>>
  BY DEF RequestTimesOut
<1>3. Plain(pm, InitialRequestTimeout(pm, link))
  BY <1>1, RequestIsPlain
<1>4. Counting
  BY <1>1, <1>2, TransferAssumption DEF Types, Counting
<1>. DEFINE s == InitialRequestTimeout(pm, link)
<1>. HIDE DEF s
<1>5. Plain(pm, s) /\ Becomes(s)
  BY <1>2, <1>3 DEF s
<1>6. IInv' /\ Kept(pm') = Kept(s) /\ (Complete(s) => Complete(pm'))
  BY <1>2, <1>4, <1>5, PlainStep
<1>. QED  BY <1>5, <1>6 DEF s

(* When the station becomes ready in this step, and nothing is missing. *)
ReadyWhole == ~pm.parametersReady /\ pm'.parametersReady /\ ~pm'.missingParameters => Complete(pm')

LEMMA PlainReady ==
    ASSUME NEW s, Accounted(pm, {}), Plain(pm, s) \/ TimedOut(pm, s) \/ (\E got : Got(pm, s, got)),
           Kept(pm') = Kept(s), Complete(s) => Complete(pm')
    PROVE  ReadyWhole
<1>1. pm'.parametersReady = s.parametersReady /\ pm'.missingParameters = s.missingParameters
  BY DEF Kept
<1>2. ~pm.parametersReady /\ s.parametersReady /\ ~s.missingParameters => Complete(s)
  BY DEF Plain, TimedOut, Got
<1>. QED  BY <1>1, <1>2 DEF ReadyWhole

LEMMA EventStep ==
    ASSUME IInv, Event
    PROVE  IInv' /\ ReadyWhole
<1>1. /\ ManagerOK(pm) /\ Types /\ events < MaxEvents /\ events' = events + 1
      /\ Accounted(pm, {})
  BY DEF IInv, Event
<1>2. Counting
  BY <1>1, TransferAssumption DEF Types, Counting
<1>3. ASSUME NEW p \in Params, UserWrites(p, events')
      PROVE  IInv' /\ ReadyWhole
  BY <1>1, <1>3, WriteStep DEF ReadyWhole
<1>4. ASSUME NEW p \in Params, UserReads(p)
      PROVE  IInv' /\ ReadyWhole
  <2>. DEFINE s == RefreshParameter(pm, p)
  <2>1. /\ Becomes(s) /\ UNCHANGED <<values, listing, toGcs, edited, overtaken>>
    BY <1>4 DEF UserReads
  <2>2. Plain(pm, s)
    BY <1>1, RefreshIsPlain
  <2>. HIDE DEF s
  <2>. QED  BY <1>1, <1>2, <2>1, <2>2, PlainStep, PlainReady
<1>5. ASSUME NEW p \in Params, Streams(p)
      PROVE  IInv' /\ ReadyWhole
  <2>. DEFINE value == ValueMsg(p, values[p], FALSE)
  <2>1. value \in Answers /\ Current(value)
    <3>1. FALSE \in BOOLEAN
      OBVIOUS
    <3>. QED  BY <1>1, <3>1, ValueIsCurrent
  <2>2. toGcs' = Append(toGcs, value)
        /\ UNCHANGED <<pm, values, listing, toVehicle, edited, overtaken>>
    BY <1>5 DEF Streams
  <2>. HIDE DEF value
  <2>3. listing' \in Seq(Params)
    BY <1>1, <2>2 DEF Types
  <2>. QED  BY <1>2, <2>1, <2>2, <2>3, VehicleSays DEF ReadyWhole
<1>6. ASSUME UserRefreshes
      PROVE  IInv' /\ ReadyWhole
  <2>. DEFINE s == RefreshAllParameters(pm, link)
  <2>1. /\ Becomes(s) /\ UNCHANGED <<values, listing, toGcs, edited, overtaken>>
    BY <1>6 DEF UserRefreshes
  <2>2. Plain(pm, s)
    BY <1>1, RefreshAllIsPlain
  <2>. HIDE DEF s
  <2>. QED  BY <1>1, <1>2, <2>1, <2>2, PlainStep, PlainReady
<1>7. ASSUME NEW kind \in LinkKinds, LinkChanges(kind)
      PROVE  IInv' /\ ReadyWhole
  <2>1. UNCHANGED <<pm, values, listing, toVehicle, toGcs, edited, overtaken>>
    BY <1>7 DEF LinkChanges
  <2>2. listing' \in Seq(Params)
    BY <1>1, <2>1 DEF Types
  <2>. QED  BY <1>2, <2>1, <2>2, VehicleSays DEF ReadyWhole
<1>8. ASSUME Reconnects
      PROVE  IInv' /\ ReadyWhole
  BY <1>2, <1>8, NewStep DEF ReadyWhole
<1>9. ASSUME Lose
      PROVE  IInv' /\ ReadyWhole
  <2>1. /\ UNCHANGED <<pm, values, listing, edited, overtaken>>
        /\ \/ toVehicle # << >> /\ toVehicle' = Tail(toVehicle) /\ UNCHANGED toGcs
           \/ toGcs # << >> /\ toGcs' = Tail(toGcs) /\ UNCHANGED toVehicle
    BY <1>9 DEF Lose
  <2>2. listing' \in Seq(Params)
    BY <1>1, <2>1 DEF Types
  <2>. QED  BY <1>2, <2>1, <2>2, VehicleSays DEF ReadyWhole
<1>. QED  BY <1>3, <1>4, <1>5, <1>6, <1>7, <1>8, <1>9 DEF Event

(* Every step keeps the invariant and makes ready only what is complete. *)
LEMMA NextStep ==
    ASSUME IInv, [Next]_vars
    PROVE  IInv' /\ ReadyWhole
<1>1. Accounted(pm, {})
  BY DEF IInv
<1>2. ASSUME RequestTimesOut
      PROVE  IInv' /\ ReadyWhole
  BY <1>1, <1>2, RequestStep, PlainReady
<1>3. ASSUME WaitTimesOut
      PROVE  IInv' /\ ReadyWhole
  <2>1. UNCHANGED events
    BY <1>3 DEF WaitTimesOut
  <2>. QED  BY <1>1, <1>3, <2>1, TimeoutStep, PlainReady
<1>4. ASSUME MessageReceived
      PROVE  IInv' /\ ReadyWhole
  <2>1. UNCHANGED events
    BY <1>4 DEF MessageReceived
  <2>. QED  BY <1>1, <1>4, <2>1, ReceivedStep, PlainReady
<1>5. ASSUME VehicleReceives
      PROVE  IInv' /\ ReadyWhole
  <2>1. pm' = pm
    BY <1>5 DEF VehicleReceives
  <2>. QED  BY <1>5, <2>1, VehicleStep DEF ReadyWhole
<1>6. ASSUME ParamRequestListWorker
      PROVE  IInv' /\ ReadyWhole
  <2>1. pm' = pm
    BY <1>6 DEF ParamRequestListWorker
  <2>. QED  BY <1>6, <2>1, ListStep DEF ReadyWhole
<1>7. ASSUME UNCHANGED vars
      PROVE  IInv' /\ ReadyWhole
  <2>1. pm' = pm
    BY <1>7 DEF vars
  <2>. QED  BY <1>7, <2>1, UnchangedStep DEF ReadyWhole
<1>. QED  BY <1>2, <1>3, <1>4, <1>5, <1>6, <1>7, EventStep DEF Next

--------------------------------------------------------------------------------
(***************************************************************************)
(* The theorems.                                                           *)
(***************************************************************************)
LEMMA Inductive == Spec => []IInv
<1>1. Init => IInv
  BY InitOK
<1>2. IInv /\ [Next]_vars => IInv'
  BY NextStep
<1>. QED  BY <1>1, <1>2, PTL DEF Spec

(* The parameters known, waited for and counted are those of the vehicle,  *)
(* no wait has more tries than the code allows, and every handler leaves   *)
(* nothing unsent.                                                         *)
THEOREM TypeCorrect == Spec => []TypeOK
<1>1. IInv => TypeOK
  BY DEF IInv, ManagerOK, Tried, Types, TypeOK
<1>. QED  BY <1>1, Inductive, PTL

(* A write that is no longer waited for has reached the vehicle, or the    *)
(* user was told that it failed, unless another value overtook it; what    *)
(* the station shows is then what the vehicle has (_handleParamValue,      *)
(* _waitingParamTimeout).                                                  *)
THEOREM EditsNotLost == Spec => []EditsArriveOrFail
<1>1. IInv => EditsArriveOrFail
  BY DEF IInv, EditsInStep, Settled, EditsArriveOrFail
<1>. QED  BY <1>1, Inductive, PTL

(* When the parameters are ready and none is said to be missing, every one *)
(* of every component heard of is known (_checkInitialLoadComplete).       *)
THEOREM ReadyMeansComplete == Spec => ReadyIsComplete
<1>1. IInv /\ [Next]_vars =>
        [ ~pm.parametersReady /\ pm'.parametersReady /\ ~pm'.missingParameters
            => \A comp \in pm'.paramCountMap : ParamsOf(comp) \subseteq DOMAIN pm'.factMap ]_vars
  BY NextStep DEF ReadyWhole, Complete
<1>. QED  BY <1>1, Inductive, PTL DEF Spec, ReadyIsComplete

--------------------------------------------------------------------------------
(***************************************************************************)
(* The tries left: a wait that ends or is tried again has fewer.           *)
(***************************************************************************)
LEMMA FewerTries ==
    ASSUME NEW f, NEW g, NEW max \in Nat, Tried(f, max), Tried(g, max), Fewer(f, g)
    PROVE  /\ TriesOf(f, max) \in Nat /\ TriesOf(g, max) \in Nat
           /\ TriesOf(g, max) <= TriesOf(f, max)
           /\ Spent(f, g) => TriesOf(g, max) < TriesOf(f, max)
<1>. DEFINE A == {t \in (DOMAIN f) \X (0 .. max) : f[t[1]] <= t[2]}
            B == {t \in (DOMAIN g) \X (0 .. max) : g[t[1]] <= t[2]}
<1>1. IsFiniteSet(A) /\ IsFiniteSet(B)
  <2>1. IsFiniteSet(DOMAIN f) /\ IsFiniteSet(DOMAIN g)
    BY ParamsFinite, FS_Subset DEF Tried
  <2>2. IsFiniteSet(0 .. max)
    <3>1. 0 \in Int /\ max \in Int
      OBVIOUS
    <3>. QED  BY <3>1, FS_Interval
  <2>3. IsFiniteSet((DOMAIN f) \X (0 .. max)) /\ IsFiniteSet((DOMAIN g) \X (0 .. max))
    BY <2>1, <2>2, FS_Product
  <2>4. A \subseteq (DOMAIN f) \X (0 .. max) /\ B \subseteq (DOMAIN g) \X (0 .. max)
    OBVIOUS
  <2>. HIDE DEF A, B
  <2>. QED  BY <2>3, <2>4, FS_Subset
<1>2. B \subseteq A
  <2>. SUFFICES ASSUME NEW t \in B PROVE t \in A
    OBVIOUS
  <2>1. t[1] \in DOMAIN g /\ t[2] \in 0 .. max /\ g[t[1]] <= t[2] /\ t = << t[1], t[2] >>
    OBVIOUS
  <2>2. t[1] \in DOMAIN f /\ f[t[1]] <= g[t[1]] /\ f[t[1]] \in 0 .. max /\ g[t[1]] \in 0 .. max
    BY <2>1 DEF Fewer, Tried
  <2>3. f[t[1]] <= t[2] /\ t \in (DOMAIN f) \X (0 .. max)
    BY <2>1, <2>2
  <2>. QED  BY <2>3
<1>3. ASSUME Spent(f, g)
      PROVE  A # B
  <2>1. PICK p \in DOMAIN f : p \notin DOMAIN g \/ f[p] < g[p]
    BY <1>3 DEF Spent
  <2>. DEFINE t == << p, f[p] >>
  <2>2. f[p] \in 0 .. max
    BY DEF Tried
  <2>3. t \in (DOMAIN f) \X (0 .. max) /\ t[1] = p /\ t[2] = f[p]
    BY <2>2
  <2>. HIDE DEF t
  <2>4. t \in A
    BY <2>2, <2>3
  <2>5. t \notin B
    <3>1. CASE p \notin DOMAIN g
      BY <2>3, <3>1
    <3>2. CASE p \in DOMAIN g
      <4>1. f[p] < g[p] /\ g[p] \in 0 .. max
        BY <2>1, <3>2 DEF Tried
      <4>2. ~(g[p] <= f[p])
        BY <2>2, <4>1
      <4>. QED  BY <2>3, <4>2
    <3>. QED  BY <3>1, <3>2
  <2>. QED  BY <2>4, <2>5
<1>4. TriesOf(f, max) = Cardinality(A) /\ TriesOf(g, max) = Cardinality(B)
  BY DEF TriesOf
<1>. HIDE DEF A, B
<1>5. Cardinality(A) \in Nat /\ Cardinality(B) \in Nat
  BY <1>1, FS_CardinalityType
<1>6. Cardinality(B) <= Cardinality(A) /\ (Cardinality(B) = Cardinality(A) => B = A)
  BY <1>1, <1>2, FS_Subset
<1>. QED  BY <1>3, <1>4, <1>5, <1>6

LEMMA TriesSpent ==
    ASSUME NEW s, NEW t, ManagerOK(s), ManagerOK(t), NotMore(s, t)
    PROVE  /\ TriesLeft(s) \in Nat /\ TriesLeft(t) \in Nat /\ TriesLeft(t) <= TriesLeft(s)
           /\ SpentAny(s, t) => TriesLeft(t) < TriesLeft(s)
<1>1. MaxIndexRetry \in Nat /\ MaxReadWriteRetry \in Nat
  BY ParameterAssumption
<1>. DEFINE a(u) == TriesOf(u.waitingReadParamIndexMap, MaxIndexRetry)
            b(u) == TriesOf(u.waitingReadParamNameMap, MaxReadWriteRetry)
            c(u) == TriesOf(u.waitingWriteParamNameMap, MaxReadWriteRetry)
<1>2. /\ a(s) \in Nat /\ a(t) \in Nat /\ a(t) <= a(s)
      /\ Spent(s.waitingReadParamIndexMap, t.waitingReadParamIndexMap) => a(t) < a(s)
  BY <1>1, FewerTries DEF NotMore, ManagerOK
<1>3. /\ b(s) \in Nat /\ b(t) \in Nat /\ b(t) <= b(s)
      /\ Spent(s.waitingReadParamNameMap, t.waitingReadParamNameMap) => b(t) < b(s)
  BY <1>1, FewerTries DEF NotMore, ManagerOK
<1>4. /\ c(s) \in Nat /\ c(t) \in Nat /\ c(t) <= c(s)
      /\ Spent(s.waitingWriteParamNameMap, t.waitingWriteParamNameMap) => c(t) < c(s)
  BY <1>1, FewerTries DEF NotMore, ManagerOK
<1>5. TriesLeft(s) = a(s) + b(s) + c(s) /\ TriesLeft(t) = a(t) + b(t) + c(t)
  BY DEF TriesLeft
<1>. HIDE DEF a, b, c
<1>6. TriesLeft(s) \in Nat /\ TriesLeft(t) \in Nat /\ TriesLeft(t) <= TriesLeft(s)
  BY <1>2, <1>3, <1>4, <1>5
<1>7. ASSUME SpentAny(s, t)
      PROVE  TriesLeft(t) < TriesLeft(s)
  <2>1. a(t) < a(s) \/ b(t) < b(s) \/ c(t) < c(s)
    BY <1>2, <1>3, <1>4, <1>7 DEF SpentAny
  <2>. QED  BY <1>2, <1>3, <1>4, <1>5, <2>1
<1>. QED  BY <1>6, <1>7

(* Every timeout brings the last one nearer. *)
LEMMA TimeoutCosts ==
    ASSUME NEW s, NEW t, ManagerOK(s), ManagerOK(t), NotMore(s, t), Counted(s, t),
           s.waitingParamTimer
    PROVE  TimeoutsLeft(t) < TimeoutsLeft(s)
<1>1. /\ TriesLeft(s) \in Nat /\ TriesLeft(t) \in Nat /\ TriesLeft(t) <= TriesLeft(s)
      /\ SpentAny(s, t) => TriesLeft(t) < TriesLeft(s)
  BY TriesSpent
<1>. DEFINE m == TriesLeft(s)
            n == TriesLeft(t)
<1>2. TimeoutsLeft(s) = 2 * m + 2 - (IF s.waitingForDefaultComponent THEN 1 ELSE 0)
  BY DEF TimeoutsLeft
<1>3. TimeoutsLeft(t) = 2 * n + (IF t.waitingParamTimer THEN 2 ELSE 0)
                          - (IF t.waitingForDefaultComponent THEN 1 ELSE 0)
  BY DEF TimeoutsLeft
<1>. HIDE DEF m, n
<1>4. m \in Nat /\ n \in Nat /\ n <= m /\ (SpentAny(s, t) => n < m)
  BY <1>1 DEF m, n
<1>5. CASE ~s.waitingForDefaultComponent /\ t.waitingForDefaultComponent /\ t.waitingParamTimer
  <2>1. TimeoutsLeft(s) = 2 * m + 2 /\ TimeoutsLeft(t) = 2 * n + 2 - 1
    BY <1>2, <1>3, <1>5, <1>4
  <2>. QED  BY <2>1, <1>4
<1>6. CASE ~t.waitingForDefaultComponent /\ SpentAny(s, t)
  <2>1. TimeoutsLeft(s) >= 2 * m + 1 /\ TimeoutsLeft(t) <= 2 * n + 2 /\ n < m
    BY <1>2, <1>3, <1>6, <1>4
  <2>2. TimeoutsLeft(s) \in Int /\ TimeoutsLeft(t) \in Int
    BY <1>2, <1>3, <1>4
  <2>. QED  BY <2>1, <2>2, <1>4
<1>7. CASE ~t.waitingForDefaultComponent /\ ~t.waitingParamTimer
  <2>1. TimeoutsLeft(s) >= 2 * m + 1 /\ TimeoutsLeft(t) = 2 * n
    BY <1>2, <1>3, <1>7, <1>4
  <2>2. TimeoutsLeft(s) \in Int
    BY <1>2, <1>4
  <2>. QED  BY <2>1, <2>2, <1>4
<1>. QED  BY <1>5, <1>6, <1>7 DEF Counted

LEMMA SameLeft ==
    ASSUME NEW s, NEW t, Kept(t) = Kept(s)
    PROVE  TriesLeft(t) = TriesLeft(s) /\ TimeoutsLeft(t) = TimeoutsLeft(s)
BY DEF Kept, TriesLeft, TimeoutsLeft

NoTries ==
    /\ events' = events
    /\ pm'.paramCountMap = pm.paramCountMap
    /\ pm'.initialRequestRetryCount = pm.initialRequestRetryCount

(* But for the user, new components and first requests, no step gives tries back. *)
LEMMA NoneGivenBack ==
    ASSUME IInv, [Next]_vars, NoTries
    PROVE  TriesLeft(pm') <= TriesLeft(pm)
<1>1. ManagerOK(pm) /\ Types /\ Timed(pm)
  BY DEF IInv
<1>2. TriesLeft(pm) \in Nat
  <2>1. NotMore(pm, pm)
    BY <1>1, FewerItself
  <2>. QED  BY <1>1, <2>1, TriesSpent
<1>3. ASSUME RequestTimesOut
      PROVE  TriesLeft(pm') <= TriesLeft(pm)
  <2>. DEFINE s == InitialRequestTimeout(pm, link)
  <2>1. Kept(pm') = Kept(s) /\ Plain(pm, s)
    BY <1>3, RequestStep
  <2>2. s.initialRequestRetryCount = pm.initialRequestRetryCount => NotMore(pm, s)
    BY <1>1, RequestIsPlain
  <2>. HIDE DEF s
  <2>3. ManagerOK(s) /\ NotMore(pm, s)
    BY <2>1, <2>2 DEF Kept, NoTries, Plain
  <2>4. TriesLeft(pm') = TriesLeft(s)
    BY <2>1, SameLeft
  <2>. QED  BY <1>1, <2>3, <2>4, TriesSpent
<1>4. ASSUME WaitTimesOut
      PROVE  TriesLeft(pm') <= TriesLeft(pm)
  <2>. DEFINE s == WaitingParamTimeout(pm)
  <2>1. Kept(pm') = Kept(s) /\ TimedOut(pm, s)
    BY <1>4, TimeoutStep DEF NoTries
  <2>. HIDE DEF s
  <2>2. ManagerOK(s) /\ NotMore(pm, s)
    BY <2>1 DEF TimedOut
  <2>3. TriesLeft(pm') = TriesLeft(s)
    BY <2>1, SameLeft
  <2>. QED  BY <1>1, <2>2, <2>3, TriesSpent
<1>5. ASSUME MessageReceived
      PROVE  TriesLeft(pm') <= TriesLeft(pm)
  <2>. DEFINE s == Handled(Head(toGcs))
  <2>1. Kept(pm') = Kept(s) /\ Got(pm, s, Carried(Head(toGcs)))
    BY <1>5, ReceivedStep DEF NoTries
  <2>. HIDE DEF s
  <2>2. pm'.paramCountMap = s.paramCountMap
    BY <2>1 DEF Kept
  <2>3. ManagerOK(s) /\ NotMore(pm, s)
    BY <2>1, <2>2 DEF Got, NoTries
  <2>4. TriesLeft(pm') = TriesLeft(s)
    BY <2>1, SameLeft
  <2>. QED  BY <1>1, <2>3, <2>4, TriesSpent
<1>6. ASSUME VehicleReceives \/ ParamRequestListWorker \/ UNCHANGED vars
      PROVE  TriesLeft(pm') <= TriesLeft(pm)
  <2>1. pm' = pm
    BY <1>6 DEF VehicleReceives, ParamRequestListWorker, vars
  <2>. QED  BY <1>2, <2>1
<1>7. ASSUME Event
      PROVE  FALSE
  <2>1. events' = events + 1 /\ events' = events /\ events \in Nat
    BY <1>1, <1>7, TransferAssumption DEF Event, NoTries, Types
  <2>. QED  BY <2>1
<1>. QED  BY <1>3, <1>4, <1>5, <1>6, <1>7 DEF Next

(* No wait goes on for ever, with or without a link: it has its timer, a   *)
(* timeout costs one of the waits a try, and only the user, a new          *)
(* component or the next of the counted first requests gives tries back    *)
(* (_fillIndexBatchQueue, _waitingParamTimeout).                           *)
THEOREM WaitsAreBounded == Spec => WaitsEnd
<1>1. ASSUME IInv, [Next]_vars
      PROVE  WaitsAreTimed'
  <2>1. Timed(pm')
    BY <1>1, NextStep DEF IInv
  <2>. QED  BY <2>1 DEF Timed, WaitsAreTimed
<1>2. ASSUME IInv, WaitTimesOut
      PROVE  TimeoutsLeft(pm') < TimeoutsLeft(pm)
  <2>. DEFINE s == WaitingParamTimeout(pm)
  <2>1. UNCHANGED events /\ pm.waitingParamTimer
    BY <1>2 DEF WaitTimesOut
  <2>2. Kept(pm') = Kept(s) /\ TimedOut(pm, s) /\ Counted(pm, s)
    BY <1>2, <2>1, TimeoutStep
  <2>. HIDE DEF s
  <2>3. ManagerOK(pm) /\ ManagerOK(s) /\ NotMore(pm, s)
    BY <1>2, <2>2 DEF TimedOut, IInv
  <2>4. TimeoutsLeft(pm') = TimeoutsLeft(s)
    BY <2>2, SameLeft
  <2>. QED  BY <2>1, <2>2, <2>3, <2>4, TimeoutCosts
<1>3. IInv /\ [Next]_vars =>
        [ /\ WaitsAreTimed'
          /\ WaitTimesOut => TimeoutsLeft(pm') < TimeoutsLeft(pm)
          /\ /\ events' = events
             /\ pm'.paramCountMap = pm.paramCountMap
             /\ pm'.initialRequestRetryCount = pm.initialRequestRetryCount
             => TriesLeft(pm') <= TriesLeft(pm) ]_vars
  BY <1>1, <1>2, NoneGivenBack DEF NoTries
<1>. QED  BY <1>3, Inductive, PTL DEF Spec, WaitsEnd
================================================================================
