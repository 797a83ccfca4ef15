--------------------------- MODULE MultiVehicleProofs ---------------------------
(***************************************************************************)
(* Theorems about vehicles and the links they share, for any links, system *)
(* ids and bounds.                                                         *)
(***************************************************************************)
EXTENDS MultiVehicleManager, SequenceTheorems, FiniteSetTheorems, TLAPS

(* Which link is whose.  A closed Vehicle that is heard takes links again; *)
(* it is deleted with them, so that from then on a link may count more     *)
(* Vehicles than hold it, never fewer.                                     *)
LinksInv ==
  /\ \A v \in Vehicles : linksOf[v] \subseteq connected
  /\ \A v \in deleted : linksOf[v] = {}
  /\ \A link \in Links : Cardinality(Holders(link)) <= references[link]

CalmInv ==
  ~heardDying => /\ \A link \in Links : references[link] = Cardinality(Holders(link))
                 /\ \A v \in Dying : linksOf[v] = {}
                 /\ DeletedOnce

(* The n-th Vehicle that waits for its deletion has the n-th such timer,   *)
(* and whoever is to be active becomes so before its deletion.             *)
Pairs(f, dying, pending, chosen) ==
  /\ \A i, j \in DOMAIN dying : i < j => f[i] < f[j]
  /\ \A i \in DOMAIN dying : pending[f[i]] = "delete"
  /\ \A n \in DOMAIN pending : pending[n] = "delete" => \E i \in DOMAIN dying : f[i] = n
  /\ \A i \in DOMAIN dying, n \in DOMAIN pending :
       pending[n] = "setActive" /\ dying[i] = chosen => n < f[i]

Paired ==
  \E f \in [DOMAIN beingDeleted -> DOMAIN timers] : Pairs(f, beingDeleted, timers, beingSetActive)

(* The last word is always that of a listed vehicle. *)
LastIsListed ==
  timers # <<>> /\ timers[Len(timers)] = "setActive" => beingSetActive \in vehicles

TimersInv == Paired /\ ActiveIsListed /\ LastIsListed

OwnersInv == ListedAreReachable /\ LinksInv /\ CalmInv

IInv == TypeOK /\ OwnersInv /\ TimersInv

--------------------------------------------------------------------------------
(***************************************************************************)
(* Sequences.                                                              *)
(***************************************************************************)
LEMMA FunctionIsSeq == ASSUME NEW S, NEW n \in Nat, NEW s \in [1..n -> S]
                       PROVE  s \in Seq(S) /\ Len(s) = n /\ DOMAIN s = 1..n
<1>1. s \in Seq(S)
  BY SeqDef
<1>2. DOMAIN s = 1..n /\ DOMAIN s = 1..Len(s) /\ Len(s) \in Nat
  BY <1>1, LenProperties
<1>. QED  BY <1>1, <1>2

(* An order of a finite set of Vehicles has all of them. *)
LEMMA EveryOneIsGone ==
  ASSUME NEW S, IsFiniteSet(S), NEW gone \in SetToSeqs(S)
  PROVE  gone \in Seq(S) /\ ToSet(gone) = S /\ IsInjective(gone)
<1>1. Cardinality(S) \in Nat
  BY FS_CardinalityType
<1>. DEFINE D == 1..Cardinality(S)
<1>2. gone \in [D -> S] /\ \A i, j \in D : i # j => gone[i] # gone[j]
  BY DEF SetToSeqs
<1>3. IsFiniteSet(D) /\ Cardinality(D) = Cardinality(S)
  BY <1>1, FS_Interval
<1>4. gone \in Injection(D, S)
  BY <1>2 DEF Injection, IsInjective
<1>5. gone \in Surjection(D, S)
  BY <1>3, <1>4, FS_Injection
<1>6. ToSet(gone) = S
  BY <1>2, <1>5 DEF Surjection, ToSet
<1>. QED  BY <1>1, <1>2, <1>4, <1>6, FunctionIsSeq DEF Injection

LEMMA OneIsGone ==
  ASSUME NEW S, NEW v \in S
  PROVE  <<v>> \in Seq(S) /\ ToSet(<<v>>) = {v} /\ IsInjective(<<v>>) /\ Len(<<v>>) = 1
BY DEF ToSet, IsInjective

LEMMA ConcatSet ==
  ASSUME NEW S, NEW s \in Seq(S), NEW t \in Seq(S)
  PROVE  ToSet(s \o t) = ToSet(s) \cup ToSet(t)
<1>1. /\ s \o t \in Seq(S) /\ Len(s \o t) = Len(s) + Len(t)
      /\ \A i \in 1 .. Len(s) + Len(t) : (s \o t)[i] = IF i <= Len(s) THEN s[i] ELSE t[i - Len(s)]
  BY ConcatProperties
<1>2. /\ DOMAIN (s \o t) = 1 .. Len(s) + Len(t)
      /\ DOMAIN s = 1..Len(s) /\ DOMAIN t = 1..Len(t) /\ Len(s) \in Nat /\ Len(t) \in Nat
  BY <1>1, LenProperties
<1>. DEFINE u == s \o t
<1>. HIDE DEF u
<1>3. ASSUME NEW x \in ToSet(u) PROVE x \in ToSet(s) \cup ToSet(t)
  <2>1. PICK i \in 1 .. Len(s) + Len(t) : x = u[i]
    BY <1>2, <1>3 DEF ToSet, u
  <2>2. CASE i <= Len(s)
    BY <1>1, <1>2, <2>1, <2>2 DEF ToSet, u
  <2>3. CASE ~(i <= Len(s))
    <3>1. i - Len(s) \in 1 .. Len(t) /\ u[i] = t[i - Len(s)]
      BY <1>1, <1>2, <2>3 DEF u
    <3>. QED  BY <1>2, <2>1, <3>1 DEF ToSet
  <2>. QED  BY <2>2, <2>3
<1>4. ASSUME NEW x \in ToSet(s) PROVE x \in ToSet(u)
  <2>1. PICK i \in 1 .. Len(s) : x = s[i]
    BY <1>2, <1>4 DEF ToSet
  <2>2. i \in 1 .. Len(s) + Len(t) /\ u[i] = s[i]
    BY <1>1, <1>2 DEF u
  <2>. QED  BY <1>2, <2>1, <2>2 DEF ToSet, u
<1>5. ASSUME NEW x \in ToSet(t) PROVE x \in ToSet(u)
  <2>1. PICK i \in 1 .. Len(t) : x = t[i]
    BY <1>2, <1>5 DEF ToSet
  <2>2. Len(s) + i \in 1 .. Len(s) + Len(t) /\ ~(Len(s) + i <= Len(s)) /\ (Len(s) + i) - Len(s) = i
    BY <1>2
  <2>3. u[Len(s) + i] = t[i]
    BY <1>1, <2>2 DEF u
  <2>. QED  BY <1>2, <2>1, <2>2, <2>3 DEF ToSet, u
<1>. QED  BY <1>3, <1>4, <1>5 DEF u

LEMMA HeadAndTail ==
  ASSUME NEW S, NEW s \in Seq(S), s # << >>
  PROVE  /\ Len(s) \in Nat \ {0} /\ 1 \in DOMAIN s /\ Head(s) = s[1] /\ Head(s) \in S
         /\ Tail(s) \in Seq(S) /\ DOMAIN Tail(s) = 1 .. Len(s) - 1 /\ DOMAIN s = 1 .. Len(s)
         /\ Len(Tail(s)) = Len(s) - 1
         /\ \A i \in 1 .. Len(s) - 1 : Tail(s)[i] = s[i + 1]
         /\ ToSet(s) = {Head(s)} \cup ToSet(Tail(s))
<1>1. /\ Len(s) \in Nat \ {0} /\ DOMAIN s = 1 .. Len(s) /\ Head(s) \in S /\ Tail(s) \in Seq(S)
      /\ Len(Tail(s)) = Len(s) - 1
      /\ \A i \in 1 .. Len(Tail(s)) : Tail(s)[i] = s[i + 1]
  BY EmptySeq, HeadTailProperties, LenProperties
<1>2. DOMAIN Tail(s) = 1 .. Len(s) - 1
  BY <1>1, LenProperties
<1>3. Head(s) = s[1]
  OBVIOUS
<1>. DEFINE t == Tail(s)
<1>. HIDE DEF t
<1>4. ASSUME NEW x \in ToSet(s) PROVE x \in {Head(s)} \cup ToSet(t)
  <2>1. PICK i \in 1 .. Len(s) : x = s[i]
    BY <1>1, <1>4 DEF ToSet
  <2>2. CASE i = 1
    BY <1>3, <2>1, <2>2
  <2>3. CASE i # 1
    <3>1. i - 1 \in 1 .. Len(s) - 1 /\ (i - 1) + 1 = i
      BY <1>1, <2>3
    <3>2. i - 1 \in DOMAIN t /\ t[i - 1] = s[i]
      BY <1>1, <1>2, <3>1 DEF t
    <3>. QED  BY <2>1, <3>2 DEF ToSet
  <2>. QED  BY <2>2, <2>3
<1>5. ASSUME NEW x \in ToSet(t) PROVE x \in ToSet(s)
  <2>1. PICK i \in 1 .. Len(s) - 1 : x = t[i]
    BY <1>2, <1>5 DEF ToSet, t
  <2>2. i + 1 \in 1 .. Len(s) /\ t[i] = s[i + 1]
    BY <1>1 DEF t
  <2>. QED  BY <1>1, <2>1, <2>2 DEF ToSet
<1>. QED  BY <1>1, <1>2, <1>3, <1>4, <1>5 DEF ToSet, t

--------------------------------------------------------------------------------
(***************************************************************************)
(* Types.                                                                  *)
(***************************************************************************)
LEMMA VehiclesAre ==
  ASSUME TypeOK
  PROVE  /\ Len(idOf) \in Nat /\ Vehicles = 1 .. Len(idOf) /\ IsFiniteSet(Vehicles)
         /\ \A link : IsFiniteSet(Holders(link)) /\ Cardinality(Holders(link)) \in Nat
         /\ \A link, id : /\ NewHolders(link, id) \in SUBSET Alive
                          /\ IsFiniteSet(NewHolders(link, id))
                          /\ Cardinality(NewHolders(link, id)) \in Nat
<1>1. Len(idOf) \in Nat /\ Vehicles = 1 .. Len(idOf)
  BY LenProperties DEF TypeOK, Vehicles
<1>2. IsFiniteSet(Vehicles)
  BY <1>1, FS_Interval
<1>3. ASSUME NEW S \in SUBSET Vehicles PROVE IsFiniteSet(S) /\ Cardinality(S) \in Nat
  BY <1>2, FS_Subset, FS_CardinalityType
<1>. QED  BY <1>1, <1>2, <1>3 DEF Holders, NewHolders, Alive

LEMMA InitType == Init => TypeOK
<1>. SUFFICES ASSUME Init PROVE TypeOK
  OBVIOUS
<1>1. /\ idOf \in Seq(Ids) /\ beingDeleted \in Seq(Vehicles) /\ timers \in Seq({"delete", "setActive"})
  BY EmptySeq DEF Init
<1>2. Vehicles = {}
  BY DEF Init, Vehicles
<1>3. linksOf \in [Vehicles -> SUBSET Links]
  <2>1. << >> \in Seq(SUBSET Links) /\ Len(<< >>) = 0
    BY EmptySeq
  <2>2. << >> \in [1 .. 0 -> SUBSET Links] /\ 1 .. 0 = {}
    BY <2>1, LenProperties
  <2>. QED  BY <1>2, <2>2 DEF Init
<1>. QED  BY <1>1, <1>2, <1>3 DEF Init, TypeOK

\* What closing several Vehicles leaves of the types.
ClosedTypes ==
  /\ deleted \subseteq Vehicles /\ parametersReady \subseteq Vehicles
  /\ vehicles \subseteq Vehicles /\ beingDeleted \in Seq(Vehicles)
  /\ timers \in Seq({"delete", "setActive"})
  /\ activeVehicle \in Vehicles \cup {NoVehicle} /\ beingSetActive \in Vehicles \cup {NoVehicle}
  /\ activeVehicleAvailable \in BOOLEAN /\ parameterReadyVehicleAvailable \in BOOLEAN

LEMMA AllTimers ==
  ASSUME NEW gone \in Seq(Vehicles)
  PROVE  /\ [i \in DOMAIN gone |-> "delete"] \in Seq({"delete", "setActive"})
         /\ Len([i \in DOMAIN gone |-> "delete"]) = Len(gone)
         /\ DOMAIN gone = 1 .. Len(gone) /\ Len(gone) \in Nat
<1>1. DOMAIN gone = 1 .. Len(gone) /\ Len(gone) \in Nat
  BY LenProperties
<1>2. [i \in DOMAIN gone |-> "delete"] \in [1 .. Len(gone) -> {"delete", "setActive"}]
  BY <1>1
<1>. QED  BY <1>1, <1>2, FunctionIsSeq

LEMMA Phase1Types ==
  ASSUME TypeOK, NEW gone \in Seq(Vehicles), DeleteVehiclePhase1(gone)
  PROVE  ClosedTypes'
<1>1. beingDeleted \o gone \in Seq(Vehicles)
  BY ConcatProperties DEF TypeOK
<1>2. timers \o [i \in DOMAIN gone |-> "delete"] \in Seq({"delete", "setActive"})
  BY AllTimers, ConcatProperties DEF TypeOK
<1>3. Vehicles' = Vehicles
  BY DEF DeleteVehiclePhase1, Vehicles
<1>4. beingDeleted' \in Seq(Vehicles')
  BY <1>1, <1>3 DEF DeleteVehiclePhase1
<1>. QED  BY <1>2, <1>3, <1>4 DEF TypeOK, ClosedTypes, DeleteVehiclePhase1

LEMMA SetActiveTypes ==
  ASSUME TypeOK, NEW v, SetActive(v)
  PROVE  /\ timers' \in Seq({"delete", "setActive"})
         /\ activeVehicle' = activeVehicle /\ beingSetActive' \in {v, beingSetActive}
         /\ activeVehicleAvailable' \in BOOLEAN /\ parameterReadyVehicleAvailable' \in BOOLEAN
<1>1. Append(timers, "setActive") \in Seq({"delete", "setActive"})
  BY AppendProperties DEF TypeOK
<1>2. CASE v = activeVehicle
  BY <1>2 DEF TypeOK, SetActive, activeVars
<1>3. CASE v # activeVehicle
  BY <1>1, <1>3 DEF TypeOK, SetActive
<1>. QED  BY <1>2, <1>3

\* Who has this id and not the link takes it.
Taken(link, id) ==
  [w \in Vehicles |-> IF w \in NewHolders(link, id) THEN linksOf[w] \cup {link} ELSE linksOf[w]]

LEMMA TakenTypes ==
  ASSUME TypeOK, NEW link \in Links, NEW id
  PROVE  Taken(link, id) \in [Vehicles -> SUBSET Links]
BY DEF TypeOK, Taken

\* One Vehicle more.
LEMMA MadeTypes ==
  ASSUME TypeOK, NEW id \in Ids, NEW f \in [Vehicles -> SUBSET Links], NEW link \in Links,
         idOf' = Append(idOf, id), linksOf' = Append(f, {link})
  PROVE  /\ idOf' \in Seq(Ids) /\ linksOf' \in [Vehicles' -> SUBSET Links]
         /\ Len(idOf) + 1 \notin Vehicles /\ Vehicles' = Vehicles \cup {Len(idOf) + 1}
         /\ \A w \in Vehicles : idOf'[w] = idOf[w] /\ linksOf'[w] = f[w]
         /\ idOf'[Len(idOf) + 1] = id /\ linksOf'[Len(idOf) + 1] = {link}
<1>1. Len(idOf) \in Nat /\ Vehicles = 1 .. Len(idOf)
  BY VehiclesAre
<1>2. f \in Seq(SUBSET Links) /\ Len(f) = Len(idOf)
  BY <1>1, FunctionIsSeq
<1>3. /\ idOf' \in Seq(Ids) /\ Len(idOf') = Len(idOf) + 1
      /\ \A w \in 1 .. Len(idOf) : idOf'[w] = idOf[w]
      /\ idOf'[Len(idOf) + 1] = id
  BY AppendProperties DEF TypeOK
<1>4. /\ linksOf' \in Seq(SUBSET Links) /\ Len(linksOf') = Len(idOf) + 1
      /\ \A w \in 1 .. Len(idOf) : linksOf'[w] = f[w]
      /\ linksOf'[Len(idOf) + 1] = {link}
  BY <1>2, AppendProperties
<1>5. Vehicles' = 1 .. Len(idOf) + 1
  BY <1>3, LenProperties DEF Vehicles
<1>6. linksOf' \in [Vehicles' -> SUBSET Links]
  <2>1. linksOf' \in [1 .. Len(linksOf') -> SUBSET Links]
    BY <1>4, LenProperties
  <2>. QED  BY <1>4, <1>5, <2>1
<1>7. Len(idOf) + 1 \notin Vehicles /\ Vehicles' = Vehicles \cup {Len(idOf) + 1}
  BY <1>1, <1>5
<1>. QED  BY <1>1, <1>3, <1>4, <1>6, <1>7

LEMMA HeardTypes ==
  ASSUME TypeOK, NEW link \in Links, NEW id \in Ids \cup {AnyVehicle},
         Heard(link, id)
  PROVE  TypeOK'
<1>. DEFINE n == Cardinality(NewHolders(link, id))
<1>1. n \in Nat /\ NewHolders(link, id) \in SUBSET Alive
  BY VehiclesAre
<1>2. heardDying' \in BOOLEAN
  BY DEF TypeOK, Heard
<1>3. CASE MessageReceived(link, id)
  <2>1. linksOf' = Taken(link, id) /\ Vehicles' = Vehicles
    BY <1>3 DEF MessageReceived, Taken, Vehicles
  <2>2. references' \in [Links -> Nat]
    BY <1>1, <1>3 DEF TypeOK, MessageReceived
  <2>. QED  BY <1>2, <1>3, <2>1, <2>2, TakenTypes DEF TypeOK, MessageReceived, activeVars
<1>4. CASE FirstHeartbeat(link, id)
  <2>. DEFINE v == Len(idOf) + 1
  <2>1. /\ idOf' = Append(idOf, id) /\ linksOf' = Append(Taken(link, id), {link})
        /\ vehicles' = vehicles \cup {v}
        /\ SetActive(v) \/ UNCHANGED <<timers, activeVars>>
        /\ UNCHANGED <<connected, deleted, beingDeleted, parametersReady>>
        /\ id \in Ids
    BY <1>4 DEF FirstHeartbeat, Taken, MakesVehicle
  <2>2. /\ idOf' \in Seq(Ids) /\ linksOf' \in [Vehicles' -> SUBSET Links]
        /\ Vehicles' = Vehicles \cup {v}
    BY <2>1, TakenTypes, MadeTypes
  <2>3. references' \in [Links -> Nat]
    BY <1>1, <1>4 DEF TypeOK, FirstHeartbeat
  <2>4. /\ timers' \in Seq({"delete", "setActive"})
        /\ activeVehicle' = activeVehicle /\ beingSetActive' \in {v, beingSetActive}
        /\ activeVehicleAvailable' \in BOOLEAN /\ parameterReadyVehicleAvailable' \in BOOLEAN
    <3>1. CASE SetActive(v)
      BY <3>1, SetActiveTypes
    <3>2. CASE UNCHANGED <<timers, activeVars>>
      BY <3>2 DEF TypeOK, activeVars
    <3>. QED  BY <2>1, <3>1, <3>2
  <2>5. beingDeleted' \in Seq(Vehicles')
    BY <2>1, <2>2, SeqMonotonic DEF TypeOK
  <2>. HIDE DEF v
  <2>. QED  BY <1>2, <2>1, <2>2, <2>3, <2>4, <2>5 DEF TypeOK
<1>. QED  BY <1>3, <1>4 DEF Heard

LEMMA HeldIsCounted ==
  ASSUME TypeOK, LinksInv, NEW v \in Alive, NEW link \in linksOf[v]
  PROVE  /\ link \in Links /\ references[link] \in Nat \ {0}
         /\ references[link] = 1 => Holders(link) = {v}
<1>1. link \in Links /\ v \in Holders(link) /\ references[link] \in Nat
  BY DEF TypeOK, Alive, Holders
<1>2. IsFiniteSet(Holders(link)) /\ Cardinality(Holders(link)) \in Nat
  BY VehiclesAre
<1>3. Cardinality(Holders(link)) <= references[link]
  BY <1>1 DEF LinksInv
<1>4. Cardinality(Holders(link)) # 0
  BY <1>1, <1>2, FS_EmptySet
<1>5. references[link] = 1 => Cardinality(Holders(link)) = 1
  BY <1>1, <1>2, <1>3, <1>4
<1>6. Cardinality(Holders(link)) = 1 => Holders(link) = {v}
  BY <1>1, <1>2, FS_Singleton
<1>. QED  BY <1>1, <1>2, <1>3, <1>4, <1>5, <1>6

LEMMA UnheardTypes ==
  ASSUME TypeOK, LinksInv, Unheard
  PROVE  TypeOK' /\ idOf' = idOf
<1>1. heardDying' \in BOOLEAN
  BY DEF TypeOK, Unheard, VehicleCloses
<1>2. ASSUME NEW link \in Links, LinkConnects(link) PROVE TypeOK' /\ idOf' = idOf
  BY <1>1, <1>2 DEF TypeOK, LinkConnects, Vehicles, activeVars
<1>3. ASSUME NEW link \in Links, LinkDisconnected(link) PROVE TypeOK' /\ idOf' = idOf
  <2>. DEFINE stranded == {v \in Holders(link) : linksOf[v] = {link}}
  <2>1. IsFiniteSet(stranded) /\ stranded \subseteq Vehicles
    BY VehiclesAre, FS_Subset DEF Holders, Alive
  <2>2. PICK gone \in SetToSeqs(stranded) : DeleteVehiclePhase1(gone)
    BY <1>3 DEF LinkDisconnected
  <2>. HIDE DEF stranded
  <2>3. gone \in Seq(Vehicles)
    BY <2>1, EveryOneIsGone, SeqMonotonic
  <2>4. ClosedTypes' /\ idOf' = idOf
    BY <2>2, <2>3, Phase1Types DEF DeleteVehiclePhase1
  <2>. QED  BY <1>1, <1>3, <2>4 DEF TypeOK, ClosedTypes, LinkDisconnected, Vehicles
<1>4. ASSUME NEW v \in Vehicles, VehicleCloses(v) PROVE TypeOK' /\ idOf' = idOf
  <2>1. <<v>> \in Seq(Vehicles)
    BY OneIsGone
  <2>2. ClosedTypes' /\ idOf' = idOf /\ Vehicles' = Vehicles
    BY <1>4, <2>1, Phase1Types DEF VehicleCloses, CloseVehicle, DeleteVehiclePhase1, Vehicles
  <2>3. references' \in [Links -> Nat]
    <3>1. \A link \in linksOf[v] : references[link] - 1 \in Nat
      BY <1>4, HeldIsCounted DEF VehicleCloses
    <3>. QED  BY <1>4, <3>1 DEF TypeOK, VehicleCloses, CloseVehicle
  <2>. QED  BY <1>1, <1>4, <2>2, <2>3 DEF TypeOK, ClosedTypes, VehicleCloses, CloseVehicle
<1>5. ASSUME NEW v \in Vehicles, UserChooses(v) PROVE TypeOK' /\ idOf' = idOf
  <2>1. /\ timers' \in Seq({"delete", "setActive"})
        /\ activeVehicle' = activeVehicle /\ beingSetActive' \in {v, beingSetActive}
        /\ activeVehicleAvailable' \in BOOLEAN /\ parameterReadyVehicleAvailable' \in BOOLEAN
    BY <1>5, SetActiveTypes DEF UserChooses
  <2>. QED  BY <1>1, <1>5, <2>1 DEF TypeOK, UserChooses, linkVars, Vehicles
<1>6. ASSUME NEW v \in Vehicles, ParametersReady(v) PROVE TypeOK' /\ idOf' = idOf
  BY <1>1, <1>6 DEF TypeOK, ParametersReady, linkVars, Vehicles, Alive
<1>. QED  BY <1>2, <1>3, <1>4, <1>5, <1>6 DEF Unheard

LEMMA FirstListedIs ==
  ASSUME TypeOK
  PROVE  IF vehicles = {} THEN FirstListed = NoVehicle ELSE FirstListed \in vehicles
<1>1. CASE vehicles # {}
  <2>1. vehicles \subseteq Nat
    BY VehiclesAre DEF TypeOK
  <2>2. \E v \in vehicles : \A w \in vehicles : v =< w
    <3>. DEFINE R == {r \in Nat \X Nat : r[1] < r[2]}
    <3>1. IsWellFoundedOn(R, Nat)
      BY NatLessThanWellFounded DEF OpToRel
    <3>. HIDE DEF R
    <3>2. PICK v \in vehicles : \A w \in vehicles : <<w, v>> \notin R
      BY <1>1, <2>1, <3>1, WFMin
    <3>3. \A w \in vehicles : v =< w
      <4>1. ASSUME NEW w \in vehicles PROVE v =< w
        <5>1. v \in Nat /\ w \in Nat /\ <<w, v>> \notin R
          BY <2>1, <3>2
        <5>2. ~(w < v)
          BY <5>1 DEF R
        <5>. QED  BY <5>1, <5>2
      <4>. QED  BY <4>1
    <3>. QED  BY <3>3
  <2>3. Min(vehicles) \in vehicles
    BY <2>2 DEF Min
  <2>. QED  BY <1>1, <2>3 DEF FirstListed
<1>. QED  BY <1>1 DEF FirstListed

\* A deletion has its Vehicle.
LEMMA FirstIsFirst ==
  ASSUME TypeOK, NEW f \in [DOMAIN beingDeleted -> DOMAIN timers], Pairs(f, beingDeleted, timers, beingSetActive),
         timers # << >>, Head(timers) = "delete"
  PROVE  /\ beingDeleted # << >> /\ f[1] = 1
         /\ Head(beingDeleted) \in Vehicles /\ Tail(beingDeleted) \in Seq(Vehicles)
<1>1. 1 \in DOMAIN timers /\ timers[1] = "delete" /\ DOMAIN timers = 1 .. Len(timers) /\ Len(timers) \in Nat
  BY HeadAndTail DEF TypeOK
<1>2. PICK i \in DOMAIN beingDeleted : f[i] = 1
  BY <1>1 DEF Pairs
<1>3. DOMAIN beingDeleted = 1 .. Len(beingDeleted) /\ Len(beingDeleted) \in Nat
  BY LenProperties DEF TypeOK
<1>4. beingDeleted # << >>
  BY <1>2, <1>3
<1>5. i = 1
  <2>1. 1 \in DOMAIN beingDeleted /\ f[1] \in 1 .. Len(timers) /\ i \in Nat
    BY <1>1, <1>2, <1>3
  <2>2. 1 < i => f[1] < f[i]
    BY <1>2, <2>1 DEF Pairs
  <2>. QED  BY <1>1, <1>2, <1>3, <2>1, <2>2
<1>. QED  BY <1>2, <1>4, <1>5, HeadAndTail DEF TypeOK

LEMMA TimerTypes ==
  ASSUME TypeOK, Paired, TimerFires
  PROVE  TypeOK'
<1>1. timers # << >> /\ timers' \in Seq({"delete", "setActive"}) /\ Vehicles' = Vehicles
  BY HeadAndTail DEF TypeOK, TimerFires, Vehicles
<1>2. CASE Head(timers) = "delete" /\ DeleteVehiclePhase2
  <2>1. Head(beingDeleted) \in Vehicles /\ Tail(beingDeleted) \in Seq(Vehicles)
    BY <1>1, <1>2, FirstIsFirst DEF Paired
  <2>2. FirstListed \in Vehicles \cup {NoVehicle}
    BY FirstListedIs DEF TypeOK
  <2>. QED  BY <1>1, <1>2, <2>1, <2>2 DEF TypeOK, TimerFires, DeleteVehiclePhase2, Free
<1>3. CASE Head(timers) = "setActive" /\ SetActiveVehiclePhase2
  BY <1>1, <1>3 DEF TypeOK, TimerFires, SetActiveVehiclePhase2
<1>. QED  BY <1>2, <1>3 DEF TimerFires

--------------------------------------------------------------------------------
(***************************************************************************)
(* The timers.                                                             *)
(***************************************************************************)
LEMMA SequencesAre ==
  ASSUME TypeOK
  PROVE  /\ DOMAIN timers = 1 .. Len(timers) /\ Len(timers) \in Nat
         /\ DOMAIN beingDeleted = 1 .. Len(beingDeleted) /\ Len(beingDeleted) \in Nat
         /\ Dying = ToSet(beingDeleted) /\ Dying \subseteq Vehicles
         /\ NoVehicle \notin Vehicles
BY LenProperties, ElementOfSeq, VehiclesAre DEF TypeOK, Dying, ToSet, NoVehicle

LEMMA SetActiveTimers ==
  ASSUME TypeOK, TimersInv, NEW v, SetActive(v), v # activeVehicle,
         v \notin Dying \cup deleted, vehicles' = vehicles \cup {v},
         beingDeleted' = beingDeleted, deleted' = deleted
  PROVE  TimersInv'
<1>1. /\ timers' \in Seq({"delete", "setActive"}) /\ Len(timers') = Len(timers) + 1
      /\ \A n \in 1 .. Len(timers) : timers'[n] = timers[n]
      /\ timers'[Len(timers) + 1] = "setActive"
      /\ timers' # << >> /\ beingSetActive' = v /\ activeVehicle' = activeVehicle
  <2>1. timers \in Seq({"delete", "setActive"}) /\ "setActive" \in {"delete", "setActive"}
    BY DEF TypeOK
  <2>2. timers' = Append(timers, "setActive") /\ beingSetActive' = v /\ activeVehicle' = activeVehicle
    BY DEF SetActive
  <2>. QED  BY <2>1, <2>2, AppendProperties
<1>2. DOMAIN timers' = 1 .. Len(timers) + 1
  BY <1>1, LenProperties
<1>3. PICK f \in [DOMAIN beingDeleted -> DOMAIN timers] : Pairs(f, beingDeleted, timers, beingSetActive)
  BY DEF TimersInv, Paired
<1>4. \A i \in DOMAIN beingDeleted' : beingDeleted'[i] # beingSetActive'
  BY <1>1 DEF Dying
<1>5. f \in [DOMAIN beingDeleted' -> DOMAIN timers']
  BY <1>2, <1>3, SequencesAre
<1>6. Pairs(f, beingDeleted', timers', beingSetActive')
  <2>1. \A i \in DOMAIN beingDeleted : timers'[f[i]] = "delete"
    BY <1>1, <1>3, SequencesAre DEF Pairs
  <2>2. ASSUME NEW n \in DOMAIN timers', timers'[n] = "delete"
        PROVE  \E i \in DOMAIN beingDeleted : f[i] = n
    <3>1. n # Len(timers) + 1
      BY <1>1, <2>2
    <3>2. n \in DOMAIN timers /\ timers[n] = "delete"
      BY <1>1, <1>2, <2>2, <3>1, SequencesAre
    <3>. QED  BY <1>3, <3>2 DEF Pairs
  <2>. QED  BY <1>3, <1>4, <2>1, <2>2 DEF Pairs
<1>7. ActiveIsListed'
  BY <1>1 DEF TimersInv, ActiveIsListed
<1>. QED  BY <1>1, <1>5, <1>6, <1>7 DEF TimersInv, Paired, LastIsListed

LEMMA Phase1Timers ==
  ASSUME TypeOK, TimersInv, NEW gone \in Seq(Vehicles), DeleteVehiclePhase1(gone)
  PROVE  TimersInv'
<1>1. PICK f \in [DOMAIN beingDeleted -> DOMAIN timers] : Pairs(f, beingDeleted, timers, beingSetActive)
  BY DEF TimersInv, Paired
<1>. DEFINE d == Len(beingDeleted)
            t == Len(timers)
            more == [i \in DOMAIN gone |-> "delete"]
<1>2. /\ d \in Nat /\ t \in Nat /\ Len(gone) \in Nat
      /\ DOMAIN beingDeleted = 1 .. d /\ DOMAIN timers = 1 .. t /\ DOMAIN gone = 1 .. Len(gone)
  BY SequencesAre, LenProperties
<1>3. /\ more \in Seq({"delete", "setActive"}) /\ Len(more) = Len(gone)
      /\ \A i \in 1 .. Len(gone) : more[i] = "delete"
  BY <1>2, AllTimers
<1>4. beingDeleted' = beingDeleted \o gone /\ timers' = timers \o more
  BY DEF DeleteVehiclePhase1
<1>5. /\ beingDeleted' \in Seq(Vehicles) /\ Len(beingDeleted') = d + Len(gone)
      /\ \A i \in 1 .. d + Len(gone) :
           beingDeleted'[i] = IF i <= d THEN beingDeleted[i] ELSE gone[i - d]
  BY <1>4, ConcatProperties DEF TypeOK
<1>6. timers \in Seq({"delete", "setActive"})
  BY DEF TypeOK
<1>. HIDE DEF more
<1>7. /\ timers' \in Seq({"delete", "setActive"}) /\ Len(timers') = t + Len(gone)
      /\ \A n \in 1 .. t + Len(gone) : timers'[n] = IF n <= t THEN timers[n] ELSE more[n - t]
  <2>1. /\ timers \o more \in Seq({"delete", "setActive"}) /\ Len(timers \o more) = t + Len(more)
        /\ \A n \in 1 .. t + Len(more) :
             (timers \o more)[n] = IF n <= t THEN timers[n] ELSE more[n - t]
    BY <1>3, <1>6, ConcatProperties
  <2>. QED  BY <1>3, <1>4, <2>1
<1>8. \A n \in 1 .. t + Len(gone) : timers'[n] = IF n <= t THEN timers[n] ELSE "delete"
  <2>1. ASSUME NEW n \in 1 .. t + Len(gone), ~(n <= t) PROVE n - t \in 1 .. Len(gone)
    BY <1>2, <2>1
  <2>. QED  BY <1>3, <1>7, <2>1
<1>9. /\ DOMAIN beingDeleted' = 1 .. d + Len(gone)
      /\ DOMAIN timers' = 1 .. t + Len(gone)
  BY <1>5, <1>7, LenProperties
<1>10. beingSetActive' = beingSetActive /\ activeVehicle' = activeVehicle /\ deleted' = deleted
       /\ vehicles' = vehicles \ ToSet(gone)
  BY DEF DeleteVehiclePhase1
<1>. DEFINE g == [i \in DOMAIN beingDeleted' |-> IF i <= d THEN f[i] ELSE t + (i - d)]
<1>11. \A i \in 1 .. d : i \in DOMAIN beingDeleted' /\ f[i] \in 1 .. t
  BY <1>1, <1>2, <1>9
<1>12. \A i \in DOMAIN beingDeleted' : g[i] \in DOMAIN timers'
  BY <1>2, <1>9, <1>11
<1>13. g \in [DOMAIN beingDeleted' -> DOMAIN timers']
  BY <1>12
<1>14. Pairs(g, beingDeleted', timers', beingSetActive')
  <2>1. ASSUME NEW i \in DOMAIN beingDeleted', NEW j \in DOMAIN beingDeleted', i < j
        PROVE  g[i] < g[j]
    <3>1. CASE j <= d
      BY <1>1, <1>2, <1>9, <2>1, <3>1 DEF Pairs
    <3>2. CASE ~(j <= d)
      BY <1>2, <1>9, <1>11, <2>1, <3>2
    <3>. QED  BY <3>1, <3>2
  <2>2. ASSUME NEW i \in DOMAIN beingDeleted' PROVE timers'[g[i]] = "delete"
    <3>1. CASE i <= d
      BY <1>1, <1>2, <1>8, <1>9, <1>11, <3>1 DEF Pairs
    <3>2. CASE ~(i <= d)
      <4>1. g[i] \in 1 .. t + Len(gone) /\ ~(g[i] <= t)
        BY <1>2, <1>9, <3>2
      <4>. QED  BY <1>8, <4>1
    <3>. QED  BY <3>1, <3>2
  <2>3. ASSUME NEW n \in DOMAIN timers', timers'[n] = "delete"
        PROVE  \E i \in DOMAIN beingDeleted' : g[i] = n
    <3>1. CASE n <= t
      <4>1. n \in DOMAIN timers /\ timers[n] = "delete"
        BY <1>2, <1>8, <1>9, <2>3, <3>1
      <4>2. PICK i \in DOMAIN beingDeleted : f[i] = n
        BY <1>1, <4>1 DEF Pairs
      <4>3. i \in DOMAIN beingDeleted' /\ g[i] = n
        BY <1>2, <1>11, <4>2
      <4>. QED  BY <4>3
    <3>2. CASE ~(n <= t)
      <4>1. d + (n - t) \in DOMAIN beingDeleted' /\ g[d + (n - t)] = n
        BY <1>2, <1>9, <3>2
      <4>. QED  BY <4>1
    <3>. QED  BY <3>1, <3>2
  <2>4. ASSUME NEW i \in DOMAIN beingDeleted', NEW n \in DOMAIN timers',
               timers'[n] = "setActive", beingDeleted'[i] = beingSetActive'
        PROVE  n < g[i]
    <3>1. n <= t /\ timers[n] = "setActive" /\ n \in DOMAIN timers
      BY <1>2, <1>8, <1>9, <2>4
    <3>2. CASE i <= d
      <4>1. i \in DOMAIN beingDeleted /\ beingDeleted[i] = beingSetActive
        BY <1>2, <1>5, <1>9, <1>10, <2>4, <3>2
      <4>. QED  BY <1>1, <3>1, <3>2, <4>1 DEF Pairs
    <3>3. CASE ~(i <= d)
      BY <1>2, <1>9, <3>1, <3>3
    <3>. QED  BY <3>2, <3>3
  <2>. HIDE DEF g
  <2>. QED  BY <2>1, <2>2, <2>3, <2>4 DEF Pairs
<1>15. Paired'
  BY <1>13, <1>14 DEF Paired
<1>16. CASE gone = << >>
  <2>1. Len(gone) = 0 /\ ToSet(gone) = {}
    BY <1>2, <1>16 DEF ToSet
  <2>2. Len(timers') = t /\ \A n \in 1 .. t : timers'[n] = timers[n]
    BY <1>2, <1>7, <1>8, <2>1
  <2>3. timers' = timers
    BY <1>6, <1>7, <2>2, SeqEqual
  <2>. QED  BY <1>10, <1>15, <2>1, <2>3 DEF TimersInv, ActiveIsListed, LastIsListed
<1>17. CASE gone # << >>
  <2>1. Len(gone) > 0
    BY <1>2, <1>17, EmptySeq
  <2>2. Len(timers') > 0 /\ timers'[Len(timers')] = "delete"
    BY <1>2, <1>7, <1>8, <2>1
  <2>3. timers' # << >>
    BY <1>7, <2>2, EmptySeq
  <2>4. "setActive" \in ToSet(timers') => "setActive" \in ToSet(timers)
    <3>1. ASSUME NEW n \in DOMAIN timers', timers'[n] = "setActive"
          PROVE  n \in DOMAIN timers /\ timers[n] = "setActive"
      BY <1>2, <1>8, <1>9, <3>1
    <3>. QED  BY <3>1 DEF ToSet
  <2>. QED  BY <1>10, <1>15, <2>2, <2>3, <2>4 DEF TimersInv, ActiveIsListed, LastIsListed
<1>. QED  BY <1>16, <1>17

LEMMA FireTimers ==
  ASSUME TypeOK, ListedAreReachable, TimersInv, TimerFires
  PROVE  TimersInv'
<1>1. PICK f \in [DOMAIN beingDeleted -> DOMAIN timers] : Pairs(f, beingDeleted, timers, beingSetActive)
  BY DEF TimersInv, Paired
<1>. DEFINE d == Len(beingDeleted)
            t == Len(timers)
<1>2. /\ d \in Nat /\ t \in Nat
      /\ DOMAIN beingDeleted = 1 .. d /\ DOMAIN timers = 1 .. t
  BY SequencesAre
<1>3. timers # << >> /\ timers' = Tail(timers) /\ vehicles' = vehicles
  BY DEF TimerFires
<1>4. /\ t \in Nat \ {0} /\ Head(timers) = timers[1]
      /\ Len(timers') = t - 1 /\ DOMAIN timers' = 1 .. t - 1
      /\ \A n \in 1 .. t - 1 : timers'[n] = timers[n + 1]
      /\ timers' \in Seq({"delete", "setActive"})
  BY <1>3, HeadAndTail DEF TypeOK
<1>5. LastIsListed' \/ beingSetActive' # beingSetActive
  <2>1. ASSUME timers' # << >> PROVE timers'[Len(timers')] = timers[Len(timers)]
    <3>1. t - 1 \in 1 .. t - 1
      BY <1>4, <2>1, EmptySeq
    <3>. QED  BY <1>4, <3>1
  <2>. QED  BY <1>3, <2>1 DEF TimersInv, LastIsListed
<1>6. ASSUME "setActive" \in ToSet(timers')
      PROVE  \E n \in 1 .. t - 1 : n + 1 \in DOMAIN timers /\ timers[n + 1] = "setActive"
  BY <1>2, <1>4, <1>6 DEF ToSet
<1>7. CASE Head(timers) = "delete" /\ DeleteVehiclePhase2
  <2>1. beingDeleted # << >> /\ f[1] = 1
    BY <1>1, <1>3, <1>7, FirstIsFirst
  <2>2. /\ beingDeleted' = Tail(beingDeleted) /\ beingSetActive' = beingSetActive
        /\ deleted' = deleted \cup {Head(beingDeleted)} /\ activeVehicle' = FirstListed
    BY <1>7 DEF DeleteVehiclePhase2, Free
  <2>3. /\ d \in Nat \ {0} /\ Head(beingDeleted) = beingDeleted[1] /\ DOMAIN beingDeleted' = 1 .. d - 1
        /\ \A i \in 1 .. d - 1 : beingDeleted'[i] = beingDeleted[i + 1]
        /\ Head(beingDeleted) \in Dying /\ Head(beingDeleted) \in Vehicles
    BY <2>1, <2>2, HeadAndTail, SequencesAre DEF TypeOK
  <2>4. ASSUME NEW i \in 1 .. d - 1
        PROVE  i \in DOMAIN beingDeleted /\ i + 1 \in DOMAIN beingDeleted /\ f[i + 1] \in 2 .. t
    <3>1. 1 \in DOMAIN beingDeleted /\ i + 1 \in DOMAIN beingDeleted /\ i \in DOMAIN beingDeleted /\ 1 < i + 1
      BY <1>2, <2>3
    <3>2. f[1] < f[i + 1] /\ f[i + 1] \in 1 .. t
      BY <1>1, <1>2, <3>1 DEF Pairs
    <3>. QED  BY <1>2, <2>1, <3>1, <3>2
  <2>. DEFINE g == [i \in 1 .. d - 1 |-> f[i + 1] - 1]
  <2>5. ASSUME NEW i \in 1 .. d - 1
        PROVE  g[i] \in 1 .. t - 1 /\ g[i] + 1 = f[i + 1] /\ f[i + 1] \in Int
    <3>. DEFINE x == f[i + 1]
    <3>1. x \in 2 .. t /\ g[i] = x - 1
      BY <2>4
    <3>. HIDE DEF x
    <3>2. x - 1 \in 1 .. t - 1 /\ (x - 1) + 1 = x /\ x \in Int
      BY <1>2, <3>1
    <3>. QED  BY <3>1, <3>2 DEF x
  <2>11. g \in [DOMAIN beingDeleted' -> DOMAIN timers']
    BY <1>4, <2>3, <2>5
  <2>6. Pairs(g, beingDeleted', timers', beingSetActive')
    <3>1. ASSUME NEW i \in 1 .. d - 1, NEW j \in 1 .. d - 1, i < j PROVE g[i] < g[j]
      <4>1. i + 1 < j + 1
        BY <1>2, <3>1
      <4>2. f[i + 1] < f[j + 1]
        BY <1>1, <2>4, <4>1 DEF Pairs
      <4>. HIDE DEF g
      <4>. QED  BY <1>2, <2>5, <4>2
    <3>2. ASSUME NEW i \in 1 .. d - 1 PROVE timers'[g[i]] = "delete"
      <4>1. g[i] \in 1 .. t - 1 /\ g[i] + 1 = f[i + 1]
        BY <2>5
      <4>2. timers[f[i + 1]] = "delete"
        BY <1>1, <2>4 DEF Pairs
      <4>. QED  BY <1>4, <4>1, <4>2
    <3>3. ASSUME NEW n \in 1 .. t - 1, timers'[n] = "delete" PROVE \E i \in 1 .. d - 1 : g[i] = n
      <4>1. n + 1 \in DOMAIN timers /\ timers[n + 1] = "delete" /\ n + 1 # 1
        BY <1>2, <1>4, <3>3
      <4>2. PICK i \in DOMAIN beingDeleted : f[i] = n + 1
        BY <1>1, <4>1 DEF Pairs
      <4>3. i # 1
        BY <2>1, <4>1, <4>2
      <4>4. i - 1 \in 1 .. d - 1 /\ (i - 1) + 1 = i
        BY <1>2, <4>2, <4>3
      <4>5. g[i - 1] = n
        BY <4>2, <4>4
      <4>. QED  BY <4>4, <4>5
    <3>4. ASSUME NEW i \in 1 .. d - 1, NEW n \in 1 .. t - 1,
                 timers'[n] = "setActive", beingDeleted'[i] = beingSetActive'
          PROVE  n < g[i]
      <4>1. n + 1 \in DOMAIN timers /\ timers[n + 1] = "setActive"
        BY <1>2, <1>4, <3>4
      <4>2. beingDeleted[i + 1] = beingSetActive
        BY <2>2, <2>3, <3>4
      <4>3. n + 1 < f[i + 1]
        BY <1>1, <2>4, <4>1, <4>2 DEF Pairs
      <4>. HIDE DEF g
      <4>. QED  BY <1>2, <2>5, <4>3
    <3>. HIDE DEF g
    <3>. QED  BY <1>4, <2>3, <3>1, <3>2, <3>3, <3>4 DEF Pairs
  <2>7. Paired'
    BY <2>6, <2>11 DEF Paired
  <2>8. activeVehicle' \notin deleted'
    BY <2>2, <2>3, FirstListedIs, SequencesAre DEF TypeOK, ListedAreReachable
  <2>9. ASSUME "setActive" \in ToSet(timers') PROVE beingSetActive' \notin deleted'
    <3>1. PICK n \in 1 .. t - 1 : n + 1 \in DOMAIN timers /\ timers[n + 1] = "setActive"
      BY <1>6, <2>9
    <3>2. beingSetActive \notin deleted
      BY <3>1 DEF TimersInv, ActiveIsListed, ToSet
    <3>3. ~(n + 1 < f[1])
      BY <1>2, <2>1
    <3>4. 1 \in DOMAIN beingDeleted
      BY <1>2, <2>3
    <3>5. beingDeleted[1] # beingSetActive
      BY <1>1, <3>1, <3>3, <3>4 DEF Pairs
    <3>. QED  BY <2>2, <2>3, <3>2, <3>5
  <2>10. IF vehicles' = {} THEN activeVehicle' = NoVehicle ELSE activeVehicle' \in vehicles'
    BY <1>3, <2>2, FirstListedIs
  <2>. QED  BY <1>5, <2>2, <2>7, <2>8, <2>9, <2>10 DEF TimersInv, ActiveIsListed
<1>8. CASE Head(timers) = "setActive" /\ SetActiveVehiclePhase2
  <2>1. /\ beingDeleted' = beingDeleted /\ beingSetActive' = beingSetActive /\ deleted' = deleted
        /\ activeVehicle' = beingSetActive
    BY <1>8 DEF SetActiveVehiclePhase2
  <2>2. 1 \in DOMAIN timers /\ timers[1] = "setActive"
    BY <1>2, <1>4, <1>8
  <2>3. beingSetActive \notin deleted
    BY <2>2 DEF TimersInv, ActiveIsListed, ToSet
  <2>4. ASSUME NEW i \in DOMAIN beingDeleted PROVE f[i] \in 2 .. t
    <3>1. f[i] \in 1 .. t /\ timers[f[i]] = "delete"
      BY <1>1, <1>2 DEF Pairs
    <3>2. f[i] # 1
      BY <2>2, <3>1
    <3>. QED  BY <1>2, <3>1, <3>2
  <2>. DEFINE g == [i \in DOMAIN beingDeleted |-> f[i] - 1]
  <2>5. g \in [DOMAIN beingDeleted' -> DOMAIN timers']
    <3>1. \A i \in DOMAIN beingDeleted : f[i] - 1 \in 1 .. t - 1
      BY <1>2, <2>4
    <3>. QED  BY <1>4, <2>1, <3>1
  <2>6. Pairs(g, beingDeleted', timers', beingSetActive')
    <3>1. ASSUME NEW i \in DOMAIN beingDeleted, NEW j \in DOMAIN beingDeleted, i < j PROVE g[i] < g[j]
      <4>1. f[i] < f[j]
        BY <1>1, <3>1 DEF Pairs
      <4>. QED  BY <1>2, <2>4, <4>1
    <3>2. ASSUME NEW i \in DOMAIN beingDeleted PROVE timers'[g[i]] = "delete"
      <4>1. g[i] \in 1 .. t - 1 /\ g[i] + 1 = f[i]
        BY <1>2, <2>4
      <4>2. timers[f[i]] = "delete"
        BY <1>1 DEF Pairs
      <4>. QED  BY <1>4, <4>1, <4>2
    <3>3. ASSUME NEW n \in 1 .. t - 1, timers'[n] = "delete"
          PROVE  \E i \in DOMAIN beingDeleted : g[i] = n
      <4>1. n + 1 \in DOMAIN timers /\ timers[n + 1] = "delete"
        BY <1>2, <1>4, <3>3
      <4>2. PICK i \in DOMAIN beingDeleted : f[i] = n + 1
        BY <1>1, <4>1 DEF Pairs
      <4>3. g[i] = n
        BY <4>2
      <4>. QED  BY <4>3
    <3>4. ASSUME NEW i \in DOMAIN beingDeleted, NEW n \in 1 .. t - 1,
                 timers'[n] = "setActive", beingDeleted[i] = beingSetActive
          PROVE  n < g[i]
      <4>1. n + 1 \in DOMAIN timers /\ timers[n + 1] = "setActive"
        BY <1>2, <1>4, <3>4
      <4>2. n + 1 < f[i]
        BY <1>1, <3>4, <4>1 DEF Pairs
      <4>. QED  BY <1>2, <2>4, <4>2
    <3>. HIDE DEF g
    <3>. QED  BY <1>4, <2>1, <3>1, <3>2, <3>3, <3>4 DEF Pairs
  <2>7. Paired'
    BY <2>5, <2>6 DEF Paired
  <2>8. timers' = << >> => beingSetActive \in vehicles
    <3>1. ASSUME timers' = << >> PROVE t = 1
      BY <1>4, <3>1, EmptySeq
    <3>2. t = 1 => timers[t] = "setActive"
      BY <2>2
    <3>. QED  BY <1>3, <3>1, <3>2 DEF TimersInv, LastIsListed
  <2>. QED  BY <1>3, <1>5, <2>1, <2>3, <2>7, <2>8 DEF TimersInv, ActiveIsListed
<1>. QED  BY <1>7, <1>8 DEF TimerFires

LEMMA TimersStay ==
  ASSUME TimersInv, UNCHANGED <<timers, beingDeleted, deleted, activeVehicle, beingSetActive, vehicles>>
  PROVE  TimersInv'
BY DEF TimersInv, Paired, ActiveIsListed, LastIsListed

LEMMA HeardTimers ==
  ASSUME TypeOK, ListedAreReachable, TimersInv, NEW link \in Links, NEW id \in Ids \cup {AnyVehicle},
         Heard(link, id)
  PROVE  TimersInv'
<1>1. CASE MessageReceived(link, id)
  BY <1>1, TimersStay DEF MessageReceived, activeVars
<1>2. CASE FirstHeartbeat(link, id)
  <2>. DEFINE v == Len(idOf) + 1
  <2>1. v \notin Vehicles /\ v # NoVehicle
    BY VehiclesAre DEF NoVehicle
  <2>2. v \notin Dying \cup deleted /\ v # activeVehicle
    BY <2>1, SequencesAre DEF TypeOK
  <2>3. vehicles' = vehicles \cup {v} /\ beingDeleted' = beingDeleted /\ deleted' = deleted
    BY <1>2 DEF FirstHeartbeat
  <2>4. CASE vehicles = {}
    <3>1. SetActive(v)
      BY <1>2, <2>4 DEF FirstHeartbeat
    <3>. HIDE DEF v
    <3>. QED  BY <2>2, <2>3, <3>1, SetActiveTimers
  <2>5. CASE vehicles # {}
    <3>1. UNCHANGED <<timers, activeVars>>
      BY <1>2, <2>5 DEF FirstHeartbeat
    <3>. QED  BY <2>3, <2>5, <3>1 DEF TimersInv, Paired, ActiveIsListed, LastIsListed, activeVars
  <2>. QED  BY <2>4, <2>5
<1>. QED  BY <1>1, <1>2 DEF Heard

LEMMA UnheardTimers ==
  ASSUME TypeOK, ListedAreReachable, TimersInv, Unheard
  PROVE  TimersInv'
<1>1. ASSUME NEW link \in Links, LinkConnects(link) PROVE TimersInv'
  BY <1>1, TimersStay DEF LinkConnects, activeVars
<1>2. ASSUME NEW link \in Links, LinkDisconnected(link) PROVE TimersInv'
  <2>. DEFINE stranded == {v \in Holders(link) : linksOf[v] = {link}}
  <2>1. IsFiniteSet(stranded) /\ stranded \subseteq Vehicles
    BY VehiclesAre, FS_Subset DEF Holders, Alive
  <2>2. PICK gone \in SetToSeqs(stranded) : DeleteVehiclePhase1(gone)
    BY <1>2 DEF LinkDisconnected
  <2>. HIDE DEF stranded
  <2>3. gone \in Seq(Vehicles)
    BY <2>1, EveryOneIsGone, SeqMonotonic
  <2>. QED  BY <2>2, <2>3, Phase1Timers
<1>3. ASSUME NEW v \in Vehicles, VehicleCloses(v) PROVE TimersInv'
  BY <1>3, OneIsGone, Phase1Timers DEF VehicleCloses, CloseVehicle
<1>4. ASSUME NEW v \in Vehicles, UserChooses(v) PROVE TimersInv'
  <2>1. v \in vehicles /\ v # activeVehicle /\ SetActive(v)
    BY <1>4 DEF UserChooses
  <2>2. v \notin Dying \cup deleted /\ vehicles' = vehicles \cup {v}
    BY <1>4, <2>1 DEF UserChooses, ListedAreReachable
  <2>3. beingDeleted' = beingDeleted /\ deleted' = deleted
    BY <1>4 DEF UserChooses
  <2>. QED  BY <2>1, <2>2, <2>3, SetActiveTimers
<1>5. ASSUME NEW v \in Vehicles, ParametersReady(v) PROVE TimersInv'
  BY <1>5, TimersStay DEF ParametersReady
<1>. QED  BY <1>1, <1>2, <1>3, <1>4, <1>5 DEF Unheard

--------------------------------------------------------------------------------
(***************************************************************************)
(* The links.                                                              *)
(***************************************************************************)
LEMMA ConcatInjective ==
  ASSUME NEW S, NEW s \in Seq(S), NEW t \in Seq(S), IsInjective(s), IsInjective(t),
         ToSet(s) \cap ToSet(t) = {}
  PROVE  IsInjective(s \o t)
<1>1. /\ s \o t \in Seq(S) /\ Len(s \o t) = Len(s) + Len(t)
      /\ \A i \in 1 .. Len(s) + Len(t) : (s \o t)[i] = IF i <= Len(s) THEN s[i] ELSE t[i - Len(s)]
  BY ConcatProperties
<1>. DEFINE u == s \o t
            n == Len(s)
            m == Len(t)
<1>2. /\ DOMAIN u = 1 .. n + m
      /\ DOMAIN s = 1 .. n /\ DOMAIN t = 1 .. m /\ n \in Nat /\ m \in Nat
  BY <1>1, LenProperties
<1>3. ASSUME NEW i \in 1 .. n + m
      PROVE  IF i <= n THEN i \in DOMAIN s /\ u[i] = s[i]
                       ELSE i - n \in DOMAIN t /\ u[i] = t[i - n]
  BY <1>1, <1>2
<1>. HIDE DEF u, n, m
<1>4. ASSUME NEW i \in 1 .. n + m, NEW j \in 1 .. n + m, u[i] = u[j] PROVE i = j
  <2>1. CASE i <= n /\ j <= n
    BY <1>3, <1>4, <2>1 DEF IsInjective
  <2>2. CASE i <= n /\ ~(j <= n)
    BY <1>3, <1>4, <2>2 DEF ToSet
  <2>3. CASE ~(i <= n) /\ j <= n
    BY <1>3, <1>4, <2>3 DEF ToSet
  <2>4. CASE ~(i <= n) /\ ~(j <= n)
    <3>1. i - n = j - n
      BY <1>3, <1>4, <2>4 DEF IsInjective
    <3>. QED  BY <1>2, <3>1
  <2>. QED  BY <2>1, <2>2, <2>3, <2>4
<1>. QED  BY <1>2, <1>4 DEF IsInjective, u

LEMMA TailInjective ==
  ASSUME NEW S, NEW s \in Seq(S), s # << >>, IsInjective(s)
  PROVE  IsInjective(Tail(s)) /\ Head(s) \notin ToSet(Tail(s))
<1>. DEFINE t == Tail(s)
<1>1. /\ Len(s) \in Nat \ {0} /\ 1 \in DOMAIN s /\ Head(s) = s[1]
      /\ DOMAIN t = 1 .. Len(s) - 1 /\ DOMAIN s = 1 .. Len(s)
      /\ \A i \in 1 .. Len(s) - 1 : t[i] = s[i + 1]
  BY HeadAndTail
<1>2. \A i \in 1 .. Len(s) - 1 : i \in Int /\ i + 1 \in DOMAIN s /\ i + 1 # 1
  BY <1>1
<1>. HIDE DEF t
<1>3. ASSUME NEW i \in DOMAIN t, NEW j \in DOMAIN t, t[i] = t[j] PROVE i = j
  <2>1. i + 1 = j + 1
    BY <1>1, <1>2, <1>3 DEF IsInjective
  <2>. QED  BY <1>1, <1>2, <2>1
<1>4. ASSUME NEW i \in DOMAIN t PROVE t[i] # s[1]
  BY <1>1, <1>2 DEF IsInjective
<1>. QED  BY <1>1, <1>3, <1>4 DEF IsInjective, ToSet, t

LEMMA CountBoth ==
  ASSUME NEW H, NEW N, IsFiniteSet(H), IsFiniteSet(N), H \cap N = {}, NEW v, v \notin H \cup N
  PROVE  /\ Cardinality(H \cup N) = Cardinality(H) + Cardinality(N)
         /\ Cardinality((H \cup N) \cup {v}) = (Cardinality(H) + 1) + Cardinality(N)
<1>1. Cardinality(H) \in Nat /\ Cardinality(N) \in Nat
  BY FS_CardinalityType
<1>2. Cardinality(H \cap N) = 0
  BY FS_EmptySet
<1>. DEFINE U == H \cup N
<1>3. IsFiniteSet(U) /\ Cardinality(U) = Cardinality(H) + Cardinality(N) - Cardinality(H \cap N)
  BY FS_Union
<1>4. Cardinality(U) = Cardinality(H) + Cardinality(N)
  BY <1>1, <1>2, <1>3
<1>5. v \notin U
  OBVIOUS
<1>. HIDE DEF U
<1>6. Cardinality(U \cup {v}) = Cardinality(U) + 1
  BY <1>3, <1>5, FS_AddElement
<1>7. Cardinality(U \cup {v}) = (Cardinality(H) + 1) + Cardinality(N)
  BY <1>1, <1>4, <1>6
<1>. QED  BY <1>4, <1>7 DEF U

\* The counts follow those who take the link.
LEMMA TakenIsCounted ==
  ASSUME TypeOK, NEW link, NEW id, NEW v, v \notin Vehicles
  PROVE  LET H == Holders(link)
             N == NewHolders(link, id)
         IN  /\ Cardinality(H \cup N) = Cardinality(H) + Cardinality(N)
             /\ Cardinality((H \cup N) \cup {v}) = (Cardinality(H) + 1) + Cardinality(N)
<1>1. IsFiniteSet(Holders(link)) /\ IsFiniteSet(NewHolders(link, id))
  BY VehiclesAre
<1>2. Holders(link) \cap NewHolders(link, id) = {}
  BY DEF Holders, NewHolders
<1>3. v \notin Holders(link) \cup NewHolders(link, id)
  BY DEF Holders, NewHolders, Alive
<1>. QED  BY <1>1, <1>2, <1>3, CountBoth

LEMMA HeardLinks ==
  ASSUME TypeOK, OwnersInv, NEW link \in Links, NEW id \in Ids \cup {AnyVehicle},
         Heard(link, id)
  PROVE  OwnersInv'
<1>. DEFINE N == NewHolders(link, id)
            v == Len(idOf) + 1
<1>1. N \subseteq Alive /\ v \notin Vehicles /\ v # NoVehicle
  BY VehiclesAre DEF NoVehicle
<1>2. /\ Cardinality(N) \in Nat
      /\ \A l \in Links : Cardinality(Holders(l)) \in Nat /\ references[l] \in Nat
  BY VehiclesAre DEF TypeOK
<1>3. /\ Cardinality(Holders(link) \cup N) = Cardinality(Holders(link)) + Cardinality(N)
      /\ Cardinality((Holders(link) \cup N) \cup {v}) =
           (Cardinality(Holders(link)) + 1) + Cardinality(N)
  BY <1>1, TakenIsCounted
<1>4. /\ vehicles \subseteq Vehicles /\ deleted \subseteq Vehicles /\ Dying \subseteq Vehicles
      /\ linksOf \in [Vehicles -> SUBSET Links]
  BY SequencesAre DEF TypeOK
<1>5. \A w \in N : w \in Vehicles /\ w \notin deleted
  BY <1>1 DEF Alive
<1>6. link \in connected /\ connected' = connected /\ deleted' = deleted /\ beingDeleted' = beingDeleted
  BY DEF Heard, FirstHeartbeat, MessageReceived
<1>7. heardDying' = (heardDying \/ N \cap Dying # {})
  BY DEF Heard
<1>8. CASE MessageReceived(link, id)
  <2>1. /\ Vehicles' = Vehicles /\ Alive' = Alive /\ Dying' = Dying
        /\ vehicles' = vehicles /\ idOf' = idOf
    BY <1>8 DEF MessageReceived, Vehicles, Alive, Dying
  <2>2. \A w \in Vehicles : linksOf'[w] = IF w \in N THEN linksOf[w] \cup {link} ELSE linksOf[w]
    BY <1>8 DEF MessageReceived
  <2>3. \A l \in Links :
          references'[l] = IF l = link THEN references[l] + Cardinality(N) ELSE references[l]
    BY <1>8 DEF TypeOK, MessageReceived
  <2>. HIDE DEF N, v
  <2>4. ASSUME NEW l \in Links
        PROVE  Holders(l)' = IF l = link THEN Holders(l) \cup N ELSE Holders(l)
    BY <1>1, <2>1, <2>2 DEF Holders, Alive
  <2>5. ListedAreReachable'
    BY <1>4, <1>6, <2>1, <2>2 DEF OwnersInv, ListedAreReachable
  <2>6. LinksInv'
    <3>1. /\ \A w \in Vehicles' : linksOf'[w] \subseteq connected'
          /\ \A w \in deleted' : linksOf'[w] = {}
      BY <1>4, <1>5, <1>6, <2>1, <2>2 DEF OwnersInv, LinksInv
    <3>2. \A l \in Links : Cardinality(Holders(l)') <= references'[l]
      <4>. SUFFICES ASSUME NEW l \in Links PROVE Cardinality(Holders(l)') <= references'[l]
        OBVIOUS
      <4>1. Cardinality(Holders(l)) <= references[l]
        BY DEF OwnersInv, LinksInv
      <4>2. Cardinality(Holders(l)) \in Nat /\ references[l] \in Nat
        BY <1>2
      <4>3. CASE l = link
        <5>1. /\ Cardinality(Holders(l)') = Cardinality(Holders(l)) + Cardinality(N)
              /\ references'[l] = references[l] + Cardinality(N)
          BY <1>3, <2>3, <2>4, <4>3
        <5>. QED  BY <1>2, <4>1, <4>2, <5>1
      <4>4. CASE l # link
        BY <2>3, <2>4, <4>1, <4>4
      <4>. QED  BY <4>3, <4>4
    <3>. QED  BY <3>1, <3>2 DEF LinksInv
  <2>7. CalmInv'
    <3>. SUFFICES ASSUME ~heardDying'
                  PROVE  /\ \A l \in Links : references'[l] = Cardinality(Holders(l)')
                         /\ \A w \in Dying' : linksOf'[w] = {}
                         /\ DeletedOnce'
      BY DEF CalmInv
    <3>1. ~heardDying /\ N \cap Dying = {}
      BY <1>7
    <3>2. DeletedOnce'
      BY <1>6, <2>1, <3>1 DEF OwnersInv, CalmInv, DeletedOnce
    <3>3. \A l \in Links : references'[l] = Cardinality(Holders(l)')
      BY <1>2, <1>3, <2>3, <2>4, <3>1 DEF OwnersInv, CalmInv
    <3>. QED  BY <1>4, <2>1, <2>2, <3>1, <3>2, <3>3 DEF OwnersInv, CalmInv
  <2>. QED  BY <2>5, <2>6, <2>7 DEF OwnersInv
<1>9. CASE FirstHeartbeat(link, id)
  <2>1. /\ idOf' = Append(idOf, id) /\ linksOf' = Append(Taken(link, id), {link})
        /\ vehicles' = vehicles \cup {v} /\ ~IsKnown(id) /\ id \in Ids
    BY <1>9 DEF FirstHeartbeat, Taken, MakesVehicle
  <2>2. /\ Vehicles' = Vehicles \cup {v}
        /\ \A w \in Vehicles : idOf'[w] = idOf[w] /\ linksOf'[w] = Taken(link, id)[w]
        /\ idOf'[v] = id /\ linksOf'[v] = {link}
    BY <2>1, TakenTypes, MadeTypes
  <2>3. \A w \in Vehicles : linksOf'[w] = IF w \in N THEN linksOf[w] \cup {link} ELSE linksOf[w]
    BY <2>2 DEF Taken
  <2>4. \A l \in Links :
          references'[l] = IF l = link THEN (references[l] + 1) + Cardinality(N) ELSE references[l]
    BY <1>9 DEF TypeOK, FirstHeartbeat
  <2>. HIDE DEF N, v
  <2>5. Alive' = Alive \cup {v} /\ Dying' = Dying
    BY <1>1, <1>4, <1>6, <2>2 DEF Alive, Dying
  <2>6. ASSUME NEW l \in Links
        PROVE  Holders(l)' = IF l = link THEN (Holders(l) \cup N) \cup {v} ELSE Holders(l)
    <3>1. ASSUME NEW w
          PROVE  w \in Holders(l)' <=> \/ w \in Alive /\ l \in linksOf'[w]
                                       \/ w = v /\ l \in linksOf'[w]
      BY <2>5 DEF Holders
    <3>2. l \in linksOf'[v] <=> l = link
      BY <2>2
    <3>3. \A w \in Alive : l \in linksOf'[w] <=> l \in linksOf[w] \/ (l = link /\ w \in N)
      BY <2>3 DEF Alive
    <3>4. \A w : w \in Holders(l) <=> w \in Alive /\ l \in linksOf[w]
      BY DEF Holders
    <3>. QED  BY <1>1, <3>1, <3>2, <3>3, <3>4
  <2>7. ListedAreReachable'
    <3>1. ASSUME NEW w \in vehicles
          PROVE  /\ w \notin Dying' \cup deleted' /\ linksOf'[w] # {} /\ linksOf'[w] \subseteq connected'
                 /\ w \in Vehicles
      BY <1>4, <1>6, <2>3, <2>5 DEF OwnersInv, ListedAreReachable
    <3>2. v \notin Dying' \cup deleted' /\ linksOf'[v] # {} /\ linksOf'[v] \subseteq connected'
      BY <1>1, <1>4, <1>6, <2>2, <2>5
    <3>3. \A w \in vehicles : idOf'[w] # idOf'[v]
      BY <1>4, <2>1, <2>2 DEF IsKnown
    <3>4. \A w, x \in vehicles : idOf'[w] = idOf'[x] => w = x
      BY <1>4, <2>2 DEF OwnersInv, ListedAreReachable
    <3>. QED  BY <2>1, <3>1, <3>2, <3>3, <3>4 DEF ListedAreReachable
  <2>8. LinksInv'
    <3>1. /\ \A w \in Vehicles' : linksOf'[w] \subseteq connected'
          /\ \A w \in deleted' : linksOf'[w] = {}
      BY <1>4, <1>5, <1>6, <2>2, <2>3 DEF OwnersInv, LinksInv
    <3>2. \A l \in Links : Cardinality(Holders(l)') <= references'[l]
      <4>. SUFFICES ASSUME NEW l \in Links PROVE Cardinality(Holders(l)') <= references'[l]
        OBVIOUS
      <4>1. Cardinality(Holders(l)) <= references[l]
        BY DEF OwnersInv, LinksInv
      <4>. QED  BY <1>2, <1>3, <2>4, <2>6, <4>1
    <3>. QED  BY <3>1, <3>2 DEF LinksInv
  <2>9. CalmInv'
    <3>. SUFFICES ASSUME ~heardDying'
                  PROVE  /\ \A l \in Links : references'[l] = Cardinality(Holders(l)')
                         /\ \A w \in Dying' : linksOf'[w] = {}
                         /\ DeletedOnce'
      BY DEF CalmInv
    <3>1. ~heardDying /\ N \cap Dying = {}
      BY <1>7
    <3>2. DeletedOnce'
      BY <1>6, <2>5, <3>1 DEF OwnersInv, CalmInv, DeletedOnce
    <3>3. \A l \in Links : references'[l] = Cardinality(Holders(l)')
      BY <1>2, <1>3, <2>4, <2>6, <3>1 DEF OwnersInv, CalmInv
    <3>. QED  BY <1>4, <2>3, <2>5, <3>1, <3>2, <3>3 DEF OwnersInv, CalmInv
  <2>. QED  BY <2>7, <2>8, <2>9 DEF OwnersInv
<1>. QED  BY <1>8, <1>9 DEF Heard

LEMMA UnheardLinks ==
  ASSUME TypeOK, OwnersInv, Unheard
  PROVE  OwnersInv'
<1>1. /\ vehicles \subseteq Vehicles /\ deleted \subseteq Vehicles /\ Dying \subseteq Vehicles
      /\ linksOf \in [Vehicles -> SUBSET Links] /\ Dying = ToSet(beingDeleted)
      /\ beingDeleted \in Seq(Vehicles) /\ references \in [Links -> Nat] /\ connected \subseteq Links
  BY SequencesAre DEF TypeOK
<1>2. ASSUME NEW link \in Links, LinkConnects(link), UNCHANGED heardDying PROVE OwnersInv'
  <2>1. /\ UNCHANGED <<references, linksOf, idOf, deleted, vehicles, beingDeleted>>
        /\ connected \subseteq connected'
    BY <1>2 DEF LinkConnects
  <2>2. /\ Vehicles' = Vehicles /\ Dying' = Dying /\ DeletedOnce' = DeletedOnce
        /\ \A l : Holders(l)' = Holders(l)
    BY <2>1 DEF Vehicles, Dying, DeletedOnce, Holders, Alive
  <2>. QED  BY <1>2, <2>1, <2>2 DEF OwnersInv, ListedAreReachable, LinksInv, CalmInv
<1>3. ASSUME NEW link \in Links, LinkDisconnected(link), UNCHANGED heardDying PROVE OwnersInv'
  <2>. DEFINE stranded == {v \in Holders(link) : linksOf[v] = {link}}
  <2>1. PICK gone \in SetToSeqs(stranded) : DeleteVehiclePhase1(gone)
    BY <1>3 DEF LinkDisconnected
  <2>2. IsFiniteSet(stranded) /\ stranded \subseteq Alive /\ stranded \subseteq Vehicles
    BY VehiclesAre, FS_Subset DEF Holders, Alive
  <2>3. gone \in Seq(Vehicles) /\ ToSet(gone) = stranded /\ IsInjective(gone)
    BY <2>2, EveryOneIsGone, SeqMonotonic
  <2>4. /\ UNCHANGED <<idOf, deleted>> /\ beingDeleted' = beingDeleted \o gone
        /\ vehicles' = vehicles \ stranded
    BY <2>1, <2>3 DEF DeleteVehiclePhase1
  <2>5. /\ connected' = connected \ {link}
        /\ linksOf' = [v \in Vehicles |-> linksOf[v] \ {link}]
        /\ references' = [references EXCEPT ![link] = 0]
    BY <1>3 DEF LinkDisconnected
  <2>6. Vehicles' = Vehicles /\ Alive' = Alive
    BY <2>4 DEF Vehicles, Alive
  <2>7. Dying' = Dying \cup stranded
    <3>1. Dying' = ToSet(beingDeleted')
      BY DEF Dying, ToSet
    <3>. QED  BY <1>1, <2>3, <2>4, <3>1, ConcatSet
  <2>. HIDE DEF stranded
  <2>8. ASSUME NEW l \in Links
        PROVE  Holders(l)' = IF l = link THEN {} ELSE Holders(l)
    <3>1. \A v \in Alive : l \in linksOf'[v] <=> l \in linksOf[v] /\ l # link
      BY <2>5 DEF Alive
    <3>. QED  BY <2>6, <3>1 DEF Holders
  <2>9. ListedAreReachable'
    <3>1. ASSUME NEW v \in vehicles'
          PROVE  v \notin Dying' \cup deleted' /\ linksOf'[v] # {} /\ linksOf'[v] \subseteq connected'
      <4>1. /\ v \in vehicles /\ v \notin stranded /\ v \in Vehicles
            /\ v \notin Dying \cup deleted /\ linksOf[v] # {} /\ linksOf[v] \subseteq connected
        BY <1>1, <2>4 DEF OwnersInv, ListedAreReachable
      <4>2. linksOf'[v] = linksOf[v] \ {link}
        BY <2>5, <4>1
      <4>3. linksOf[v] # {link}
        BY <4>1 DEF stranded, Holders, Alive
      <4>. QED  BY <2>4, <2>5, <2>7, <4>1, <4>2, <4>3
    <3>. QED  BY <2>4, <3>1 DEF OwnersInv, ListedAreReachable
  <2>10. LinksInv'
    <3>1. /\ \A v \in Vehicles' : linksOf'[v] \subseteq connected'
          /\ \A v \in deleted' : linksOf'[v] = {}
      BY <1>1, <2>4, <2>5, <2>6 DEF OwnersInv, LinksInv
    <3>2. \A l \in Links : Cardinality(Holders(l)') <= references'[l]
      <4>1. \A l \in Links : l # link => references'[l] = references[l]
        BY <1>1, <2>5
      <4>2. references'[link] = 0 /\ Cardinality(Holders(link)') = 0
        BY <1>1, <2>5, <2>8, FS_EmptySet
      <4>. QED  BY <2>8, <4>1, <4>2 DEF OwnersInv, LinksInv
    <3>. QED  BY <3>1, <3>2 DEF LinksInv
  <2>11. CalmInv'
    <3>. SUFFICES ASSUME ~heardDying
                  PROVE  /\ \A l \in Links : references'[l] = Cardinality(Holders(l)')
                         /\ \A w \in Dying' : linksOf'[w] = {}
                         /\ DeletedOnce'
      BY <1>3 DEF CalmInv
    <3>1. /\ \A l \in Links : references[l] = Cardinality(Holders(l))
          /\ \A w \in Dying : linksOf[w] = {}
          /\ IsInjective(beingDeleted) /\ Dying \cap deleted = {}
      BY DEF OwnersInv, CalmInv, DeletedOnce
    <3>2. \A l \in Links : references'[l] = Cardinality(Holders(l)')
      BY <1>1, <2>5, <2>8, <3>1, FS_EmptySet
    <3>3. ASSUME NEW w \in Dying' PROVE linksOf'[w] = {}
      BY <1>1, <2>2, <2>5, <2>7, <3>1 DEF stranded
    <3>4. Dying \cap stranded = {}
      BY <3>1 DEF stranded
    <3>5. DeletedOnce'
      BY <1>1, <2>2, <2>3, <2>4, <2>7, <3>1, <3>4, ConcatInjective DEF DeletedOnce, Alive
    <3>. QED  BY <3>2, <3>3, <3>5
  <2>. QED  BY <2>9, <2>10, <2>11 DEF OwnersInv
<1>4. ASSUME NEW v \in Vehicles, VehicleCloses(v) PROVE OwnersInv'
  <2>1. v \in Alive /\ v \notin deleted /\ heardDying' = (heardDying \/ v \in Dying)
    BY <1>4 DEF VehicleCloses, Alive
  <2>2. <<v>> \in Seq(Vehicles) /\ ToSet(<<v>>) = {v} /\ IsInjective(<<v>>)
    BY OneIsGone
  <2>3. /\ UNCHANGED <<idOf, deleted>> /\ beingDeleted' = beingDeleted \o <<v>>
        /\ vehicles' = vehicles \ {v}
    BY <1>4, <2>2 DEF VehicleCloses, CloseVehicle, DeleteVehiclePhase1
  <2>4. /\ connected' = connected \ {link \in linksOf[v] : references[link] = 1}
        /\ references' = [link \in Links |-> IF link \in linksOf[v] THEN references[link] - 1
                                                                    ELSE references[link]]
        /\ linksOf' = [linksOf EXCEPT ![v] = {}]
    BY <1>4 DEF VehicleCloses, CloseVehicle
  <2>5. Vehicles' = Vehicles /\ Alive' = Alive
    BY <2>3 DEF Vehicles, Alive
  <2>6. Dying' = Dying \cup {v}
    <3>1. Dying' = ToSet(beingDeleted')
      BY DEF Dying, ToSet
    <3>2. ToSet(beingDeleted \o <<v>>) = ToSet(beingDeleted) \cup ToSet(<<v>>)
      <4>. DEFINE gone == <<v>>
      <4>1. gone \in Seq(Vehicles)
        BY <2>2
      <4>. HIDE DEF gone
      <4>2. ToSet(beingDeleted \o gone) = ToSet(beingDeleted) \cup ToSet(gone)
        BY <1>1, <4>1, ConcatSet
      <4>. QED  BY <4>2 DEF gone
    <3>3. ToSet(beingDeleted') = Dying \cup {v}
      BY <1>1, <2>2, <2>3, <3>2
    <3>. QED  BY <3>1, <3>3
  <2>7. \A w \in Vehicles : linksOf'[w] = IF w = v THEN {} ELSE linksOf[w]
    BY <1>1, <2>4
  <2>8. ASSUME NEW l \in Links
        PROVE  /\ Holders(l)' = Holders(l) \ {v}
               /\ l \in linksOf[v] <=> v \in Holders(l)
    <3>1. \A w \in Alive : l \in linksOf'[w] <=> l \in linksOf[w] /\ w # v
      BY <2>7 DEF Alive
    <3>. QED  BY <2>1, <2>5, <3>1 DEF Holders
  <2>9. ASSUME NEW l \in Links
        PROVE  /\ Cardinality(Holders(l)') =
                    IF l \in linksOf[v] THEN Cardinality(Holders(l)) - 1 ELSE Cardinality(Holders(l))
               /\ Cardinality(Holders(l)) \in Nat /\ references[l] \in Nat
    BY <1>1, <2>8, VehiclesAre, FS_RemoveElement
  <2>10. ASSUME NEW w \in Vehicles PROVE linksOf'[w] \subseteq connected'
    <3>. SUFFICES ASSUME w # v, NEW l \in linksOf[w] PROVE l \in connected'
      BY <2>7
    <3>1. l \in connected /\ w \in Alive
      BY <1>1 DEF OwnersInv, LinksInv, Alive
    <3>2. ~(l \in linksOf[v] /\ references[l] = 1)
      <4>1. l \in Links /\ w \in Holders(l)
        BY <1>1, <3>1 DEF Holders
      <4>2. ASSUME l \in linksOf[v], references[l] = 1 PROVE FALSE
        BY <2>1, <4>1, <4>2, HeldIsCounted DEF OwnersInv
      <4>. QED  BY <4>2
    <3>. QED  BY <2>4, <3>1, <3>2
  <2>11. ListedAreReachable'
    <3>1. ASSUME NEW w \in vehicles'
          PROVE  w \notin Dying' \cup deleted' /\ linksOf'[w] # {} /\ linksOf'[w] \subseteq connected'
      BY <1>1, <2>3, <2>6, <2>7, <2>10 DEF OwnersInv, ListedAreReachable
    <3>. QED  BY <2>3, <3>1 DEF OwnersInv, ListedAreReachable
  <2>12. LinksInv'
    <3>1. \A w \in deleted' : linksOf'[w] = {}
      BY <1>1, <2>3, <2>7 DEF OwnersInv, LinksInv
    <3>2. ASSUME NEW l \in Links PROVE Cardinality(Holders(l)') <= references'[l]
      <4>1. Cardinality(Holders(l)) <= references[l]
        BY DEF OwnersInv, LinksInv
      <4>2. references'[l] = IF l \in linksOf[v] THEN references[l] - 1 ELSE references[l]
        BY <2>4
      <4>. QED  BY <2>9, <4>1, <4>2
    <3>. QED  BY <2>5, <2>10, <3>1, <3>2 DEF LinksInv
  <2>13. CalmInv'
    <3>. SUFFICES ASSUME ~heardDying'
                  PROVE  /\ \A l \in Links : references'[l] = Cardinality(Holders(l)')
                         /\ \A w \in Dying' : linksOf'[w] = {}
                         /\ DeletedOnce'
      BY DEF CalmInv
    <3>1. /\ v \notin Dying
          /\ \A l \in Links : references[l] = Cardinality(Holders(l))
          /\ \A w \in Dying : linksOf[w] = {}
          /\ IsInjective(beingDeleted) /\ Dying \cap deleted = {}
      BY <2>1 DEF OwnersInv, CalmInv, DeletedOnce
    <3>2. \A l \in Links : references'[l] = Cardinality(Holders(l)')
      BY <2>4, <2>9, <3>1
    <3>3. \A w \in Dying' : linksOf'[w] = {}
      BY <1>1, <2>6, <2>7, <3>1
    <3>4. DeletedOnce'
      BY <1>1, <2>1, <2>2, <2>3, <2>6, <3>1, ConcatInjective DEF DeletedOnce
    <3>. QED  BY <3>2, <3>3, <3>4
  <2>. QED  BY <2>11, <2>12, <2>13 DEF OwnersInv
<1>5. ASSUME NEW v \in Vehicles, UserChooses(v) \/ ParametersReady(v), UNCHANGED heardDying
      PROVE  OwnersInv'
  <2>1. UNCHANGED <<linkVars, idOf, deleted, vehicles, beingDeleted>>
    BY <1>5 DEF UserChooses, ParametersReady
  <2>2. /\ Vehicles' = Vehicles /\ Dying' = Dying /\ DeletedOnce' = DeletedOnce
        /\ \A l : Holders(l)' = Holders(l)
    BY <2>1 DEF Vehicles, Dying, DeletedOnce, Holders, Alive, linkVars
  <2>. QED  BY <1>5, <2>1, <2>2 DEF OwnersInv, ListedAreReachable, LinksInv, CalmInv, linkVars
<1>. QED  BY <1>2, <1>3, <1>4, <1>5 DEF Unheard

LEMMA FireLinks ==
  ASSUME TypeOK, OwnersInv, Paired, TimerFires
  PROVE  OwnersInv'
<1>1. /\ vehicles \subseteq Vehicles /\ deleted \subseteq Vehicles /\ Dying \subseteq Vehicles
      /\ linksOf \in [Vehicles -> SUBSET Links] /\ Dying = ToSet(beingDeleted)
      /\ beingDeleted \in Seq(Vehicles) /\ references \in [Links -> Nat]
  BY SequencesAre DEF TypeOK
<1>2. timers # << >> /\ UNCHANGED <<connected, references, idOf, vehicles, heardDying>>
  BY DEF TimerFires
<1>3. Vehicles' = Vehicles
  BY <1>2 DEF Vehicles
<1>4. CASE Head(timers) = "delete" /\ DeleteVehiclePhase2
  <2>. DEFINE h == Head(beingDeleted)
  <2>1. beingDeleted # << >> /\ h \in Vehicles
    BY <1>2, <1>4, FirstIsFirst DEF Paired
  <2>2. /\ deleted' = deleted \cup {h} /\ beingDeleted' = Tail(beingDeleted)
        /\ linksOf' = [linksOf EXCEPT ![h] = {}]
    BY <1>4 DEF DeleteVehiclePhase2, Free
  <2>3. Dying = {h} \cup Dying' /\ ToSet(Tail(beingDeleted)) = Dying'
    <3>1. ToSet(beingDeleted) = {h} \cup ToSet(Tail(beingDeleted))
      BY <1>1, <2>1, HeadAndTail
    <3>2. ToSet(Tail(beingDeleted)) = Dying'
      BY <2>2 DEF Dying, ToSet
    <3>. QED  BY <1>1, <3>1, <3>2
  <2>4. \A w \in Vehicles : linksOf'[w] = IF w = h THEN {} ELSE linksOf[w]
    BY <1>1, <2>2
  <2>. HIDE DEF h
  <2>5. Alive' = Alive \ {h}
    BY <1>3, <2>2 DEF Alive
  <2>6. ASSUME NEW l \in Links PROVE Holders(l)' = Holders(l) \ {h}
    <3>1. \A w \in Alive : w # h => linksOf'[w] = linksOf[w]
      BY <2>4 DEF Alive
    <3>. QED  BY <2>5, <3>1 DEF Holders
  <2>7. ListedAreReachable'
    BY <1>1, <1>2, <2>2, <2>3, <2>4 DEF OwnersInv, ListedAreReachable
  <2>8. LinksInv'
    <3>1. /\ \A w \in Vehicles' : linksOf'[w] \subseteq connected'
          /\ \A w \in deleted' : linksOf'[w] = {}
      BY <1>1, <1>2, <1>3, <2>2, <2>4, <2>1 DEF OwnersInv, LinksInv
    <3>2. ASSUME NEW l \in Links PROVE Cardinality(Holders(l)') <= references'[l]
      <4>1. Cardinality(Holders(l)) <= references[l] /\ Cardinality(Holders(l)) \in Nat
            /\ references[l] \in Nat
        BY <1>1, VehiclesAre DEF OwnersInv, LinksInv
      <4>2. Cardinality(Holders(l)') \in {Cardinality(Holders(l)) - 1, Cardinality(Holders(l))}
        BY <2>6, VehiclesAre, FS_RemoveElement
      <4>. QED  BY <1>2, <4>1, <4>2
    <3>. QED  BY <3>1, <3>2 DEF LinksInv
  <2>9. CalmInv'
    <3>. SUFFICES ASSUME ~heardDying
                  PROVE  /\ \A l \in Links : references'[l] = Cardinality(Holders(l)')
                         /\ \A w \in Dying' : linksOf'[w] = {}
                         /\ DeletedOnce'
      BY <1>2 DEF CalmInv
    <3>1. /\ \A l \in Links : references[l] = Cardinality(Holders(l))
          /\ \A w \in Dying : linksOf[w] = {}
          /\ IsInjective(beingDeleted) /\ Dying \cap deleted = {}
      BY DEF OwnersInv, CalmInv, DeletedOnce
    <3>2. \A l \in Links : Holders(l)' = Holders(l)
      <4>1. linksOf[h] = {}
        BY <2>3, <3>1
      <4>. QED  BY <2>6, <4>1 DEF Holders
    <3>3. \A w \in Dying' : linksOf'[w] = {}
      BY <1>1, <2>3, <2>4, <3>1
    <3>4. IsInjective(beingDeleted') /\ h \notin Dying'
      BY <1>1, <2>1, <2>2, <2>3, <3>1, TailInjective DEF h
    <3>5. DeletedOnce'
      BY <2>2, <2>3, <3>1, <3>4 DEF DeletedOnce
    <3>. QED  BY <1>2, <3>1, <3>2, <3>3, <3>5
  <2>. QED  BY <2>7, <2>8, <2>9 DEF OwnersInv
<1>5. CASE Head(timers) = "setActive" /\ SetActiveVehiclePhase2
  <2>1. UNCHANGED <<linksOf, deleted, beingDeleted>>
    BY <1>5 DEF SetActiveVehiclePhase2
  <2>2. /\ Dying' = Dying /\ DeletedOnce' = DeletedOnce
        /\ \A l : Holders(l)' = Holders(l)
    BY <1>3, <2>1 DEF Dying, DeletedOnce, Holders, Alive
  <2>. QED  BY <1>2, <1>3, <2>1, <2>2 DEF OwnersInv, ListedAreReachable, LinksInv, CalmInv
<1>. QED  BY <1>4, <1>5 DEF TimerFires

--------------------------------------------------------------------------------
LEMMA InitInv == Init => IInv
<1>. SUFFICES ASSUME Init PROVE IInv
  OBVIOUS
<1>1. DOMAIN << >> = {} /\ Vehicles = {} /\ deleted = {} /\ Dying = {} /\ vehicles = {}
  BY DEF Init, Vehicles, Dying
<1>2. \A link \in Links : Cardinality(Holders(link)) = 0 /\ references[link] = 0
  BY <1>1, FS_EmptySet DEF Init, Holders, Alive
<1>3. TimersInv
  <2>1. << >> \in [{} -> {}] /\ Pairs(<< >>, << >>, << >>, beingSetActive)
    BY <1>1 DEF Pairs
  <2>2. Paired
    BY <1>1, <2>1 DEF Init, Paired
  <2>3. ToSet(timers) = {}
    BY <1>1 DEF Init, ToSet
  <2>. QED  BY <1>1, <2>2, <2>3 DEF Init, TimersInv, ActiveIsListed, LastIsListed
<1>4. DeletedOnce
  BY <1>1 DEF Init, DeletedOnce, IsInjective
<1>. QED  BY <1>1, <1>2, <1>3, <1>4, InitType DEF Init, IInv, OwnersInv, ListedAreReachable, LinksInv, CalmInv

LEMMA NextKeeps == IInv /\ [Next]_vars => IInv'
<1>. SUFFICES ASSUME IInv, [Next]_vars PROVE IInv'
  OBVIOUS
<1>1. TypeOK /\ ListedAreReachable /\ LinksInv /\ CalmInv /\ TimersInv /\ Paired /\ OwnersInv
  BY DEF IInv, OwnersInv, TimersInv
<1>2. CASE TimerFires
  BY <1>1, <1>2, TimerTypes, FireTimers, FireLinks DEF IInv, OwnersInv
<1>3. CASE Unheard
  BY <1>1, <1>3, UnheardTypes, UnheardTimers, UnheardLinks DEF IInv, OwnersInv
<1>4. ASSUME NEW link \in Links, NEW id \in Ids \cup {AnyVehicle}, Heard(link, id)
      PROVE  IInv'
  BY <1>1, <1>4, HeardTypes, HeardTimers, HeardLinks DEF IInv, OwnersInv
<1>5. CASE UNCHANGED vars
  <2>1. /\ UNCHANGED <<connected, references, linksOf, idOf, deleted, vehicles, beingDeleted, timers>>
        /\ UNCHANGED <<activeVehicle, beingSetActive, activeVehicleAvailable, parametersReady>>
        /\ UNCHANGED <<parameterReadyVehicleAvailable, heardDying>>
    BY <1>5 DEF vars, linkVars, activeVars
  <2>2. /\ Vehicles' = Vehicles /\ Dying' = Dying /\ DeletedOnce' = DeletedOnce
        /\ \A l : Holders(l)' = Holders(l)
    BY <2>1 DEF Vehicles, Dying, DeletedOnce, Holders, Alive
  <2>3. TypeOK'
    BY <1>1, <2>1, <2>2 DEF TypeOK
  <2>4. OwnersInv'
    BY <1>1, <2>1, <2>2 DEF OwnersInv, ListedAreReachable, LinksInv, CalmInv
  <2>5. TimersInv'
    BY <1>1, <2>1, TimersStay
  <2>. QED  BY <2>3, <2>4, <2>5 DEF IInv, OwnersInv
<1>. QED  BY <1>2, <1>3, <1>4, <1>5 DEF Next, Event

(* The invariant: whose links are whose, who is listed, and which timer is *)
(* whose, in every reachable state (MultiVehicleManager.cc).               *)
THEOREM Invariance == Spec => []IInv
<1>. QED  BY InitInv, NextKeeps, PTL DEF Spec

(* The types, of every variable of MultiVehicleManager.cc and the links.   *)
THEOREM TypeCorrect == Spec => []TypeOK
<1>1. IInv => TypeOK
  BY DEF IInv
<1>. QED  BY <1>1, Invariance, PTL

(* Whatever vehicles come and go over whatever links, and in whatever      *)
(* order the 20 ms timers were started: the listed vehicles are reachable  *)
(* and of different ids, and the active one is no deleted one              *)
(* (_deleteVehiclePhase1 and 2, setActiveVehicle, _setActiveVehiclePhase2).*)
THEOREM OnlyLive == Spec => []OnlyLiveVehicles
<1>1. IInv => OnlyLiveVehicles
  BY DEF IInv, OwnersInv, TimersInv, OnlyLiveVehicles
<1>. QED  BY <1>1, Invariance, PTL

(* As long as no closed Vehicle is heard a link counts those who hold it,  *)
(* so that it goes with the last of them (removeVehicleReference).         *)
THEOREM Held == Spec => []ReferencesAreHeld
<1>1. IInv => ReferencesAreHeld
  BY DEF IInv, OwnersInv, CalmInv, ReferencesAreHeld, TypeOK
<1>. QED  BY <1>1, Invariance, PTL

(* As long as no closed Vehicle is heard each is queued for deletion once  *)
(* and never when it is deleted (_deleteVehiclePhase1).                    *)
THEOREM Once == Spec => [](heardDying \/ DeletedOnce)
<1>1. IInv => heardDying \/ DeletedOnce
  BY DEF IInv, OwnersInv, CalmInv
<1>. QED  BY <1>1, Invariance, PTL
================================================================================
