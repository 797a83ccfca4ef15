------------------------- MODULE PlanSequenceProofs -------------------------
(***************************************************************************)
(* Proofs about PlanSequence, for any vehicles, of any support, in any     *)
(* number, and any number of events.                                       *)
(***************************************************************************)
EXTENDS PlanSequence, TLAPS

\* The steps by their numbers.
LEMMA StepNumbers ==
    /\ EndOfSteps = 9 /\ DOMAIN Steps = 1 .. 8
    /\ Steps[1] = "AutopilotVersion" /\ Steps[2] = "ProtocolVersion"
    /\ Steps[3] = "CompInfo" /\ Steps[4] = "parameters" /\ Steps[5] = "mission"
    /\ Steps[6] = "fence" /\ Steps[7] = "rally" /\ Steps[8] = "SignalComplete"
<1>1. Len(Steps) = 8
  BY DEF Steps
<1>. QED  BY <1>1 DEF Steps, EndOfSteps

LEMMA NumbersOfSteps ==
    /\ StepOf("CompInfo") = 3 /\ StepOf("ProtocolVersion") = 2
    /\ StepOf("AutopilotVersion") = 1 /\ StepOf("parameters") = 4
    /\ StepOf("mission") = 5 /\ StepOf("fence") = 6 /\ StepOf("rally") = 7
    /\ StepOf("SignalComplete") = 8
<1>1. ASSUME NEW i \in 1 .. 8
      PROVE  StepOf(Steps[i]) = i
  <2>1. \A j \in DOMAIN Steps : Steps[j] = Steps[i] => j = i
    <3>. SUFFICES ASSUME NEW j \in 1 .. 8, Steps[j] = Steps[i]
                  PROVE  j = i
      BY StepNumbers
    <3>1. i \in {1, 2, 3, 4, 5, 6, 7, 8} /\ j \in {1, 2, 3, 4, 5, 6, 7, 8}
      OBVIOUS
    <3>. QED  BY <3>1, StepNumbers
  <2>2. i \in DOMAIN Steps
    BY StepNumbers
  <2>. QED  BY <2>1, <2>2 DEF StepOf
<1>. QED  BY <1>1, StepNumbers

-----------------------------------------------------------------------------
(* The machine of one vehicle.                                             *)

Asked(u, step) == IF step \in u.asked THEN 1 ELSE 0
Slot(u, s)     == IF s \in u.slots THEN 1 ELSE 0

\* How many handlers and slots will advance the machine.
Advances(u) ==
    Asked(u, "AutopilotVersion") + Asked(u, "ProtocolVersion") + Asked(u, "CompInfo")
    + Slot(u, "parameters") + Slot(u, "mission") + Slot(u, "fence") + Slot(u, "rally")

\* The first three steps bring a handler each; the machine at j, and about to enter k.
Resting(j)  == IF j < 3 THEN 3 ELSE j
Entering(k) == IF k < 4 THEN 4 ELSE k

\* What the steps up to j have set going for the slots.
ServedTo(u, j) ==
    /\ j >= 4 /\ "parameters" \in u.slots => "parameters" \in u.asked
    /\ \A e \in Elements : j >= StepOf(e) /\ e \in u.slots => u.job[e] = "load"

AskedBelow(u, k) == \A i \in 1 .. 3 : i >= k => Steps[i] \notin u.asked

JobsKept(u, n) ==
    \A e \in Elements :
        \/ n.job[e] = u.job[e]
        \/ u.job[e] = "none" /\ n.job[e] = "load" /\ n.at = StepOf(e)

\* With a good link the machine stops at the first step the vehicle has something to do for.
InStep(u, n, k) ==
    /\ \A i \in 1 .. 8 : k <= i /\ i < n.at =>
            i = 8 \/ Steps[i] \in {"fence", "rally"} \ u.supported
    /\ \A s \in u.slots : StepOf(s) >= n.at => s \in n.slots
    /\ \A e \in Elements : n.at = StepOf(e) =>
            n.job[e] # "none" /\ (e = "mission" \/ e \in u.supported)
    /\ n.at < 4 => Steps[n.at] \in n.asked

\* The machine of u enters step k and comes to rest as n.
Entered(u, n, k) ==
    /\ n \in VehicleRecord
    /\ n.at >= k /\ n.at <= 9 /\ n.at # 8
    /\ n.supported = u.supported /\ n.link = u.link /\ n.listed = u.listed
    /\ u.planComplete => n.planComplete
    /\ JobsKept(u, n)
    /\ n.slots \subseteq u.slots
    /\ u.asked \subseteq n.asked
    /\ \A s \in n.asked : s \in u.asked \/ (n.at < 5 /\ s = Steps[n.at])
    /\ k >= 5 /\ u.link = "none" => n.at = 9
    /\ n.at = 9 \/ Advances(n) + Resting(n.at) >= Advances(u) + Entering(k)
    /\ ServedTo(u, k - 1) => n.at = 9 \/ Hindered(n) \/ ServedTo(n, n.at)
    /\ u.link = "normal" => InStep(u, n, k)

LEMMA SlotsAtMost ==
    ASSUME NEW u \in VehicleRecord
    PROVE  /\ Advances(u) \in Nat
           /\ \A s \in {"parameters", "mission", "fence", "rally"} : Slot(u, s) \in 0 .. 1
           /\ \A s \in WithHandler : Asked(u, s) \in 0 .. 1
<1>. QED  BY DEF Advances, Slot, Asked

\* The last step leaves the machine at rest.
LEMMA SignalEntered ==
    ASSUME NEW u \in VehicleRecord
    PROVE  Entered(u, StateSignalInitialConnectComplete(u), 8)
<1>. DEFINE n == StateSignalInitialConnectComplete(u)
<1>. SUFFICES Entered(u, n, 8)
  OBVIOUS
<1>1. n = [u EXCEPT !.at = 9]
  BY StepNumbers, NumbersOfSteps DEF StateSignalInitialConnectComplete, StatesCompleted, At, VehicleRecord
<1>2. /\ n \in VehicleRecord /\ n.at = 9 /\ n.supported = u.supported /\ n.link = u.link
      /\ n.listed = u.listed /\ n.planComplete = u.planComplete /\ n.job = u.job
      /\ n.slots = u.slots /\ n.asked = u.asked
  BY <1>1, StepNumbers DEF VehicleRecord
<1>. HIDE DEF n
<1>3. JobsKept(u, n)
  BY <1>2 DEF JobsKept
<1>4. InStep(u, n, 8)
  BY <1>2, StepNumbers, NumbersOfSteps DEF InStep, Elements, VehicleRecord
<1>5. u.planComplete => n.planComplete
  BY <1>2
<1>6. n.at >= 8 /\ n.at <= 9 /\ n.at # 8
  BY <1>2
<1>. QED  BY <1>2, <1>3, <1>4, <1>5, <1>6 DEF Entered

\* A step that only goes on to the next one, from 5 on without a link and before 3 with none of
\* the first three to ask.
LEMMA PassedOver ==
    ASSUME NEW u \in VehicleRecord, NEW k \in 1 .. 7, NEW n, k # 3, k # 4,
           u.link # "normal", k >= 5 => u.link = "none",
           Entered([u EXCEPT !.at = k], n, k + 1)
    PROVE  Entered(u, n, k)
<1>. DEFINE w == [u EXCEPT !.at = k]
<1>1. /\ w \in VehicleRecord /\ w.at = k /\ w.supported = u.supported /\ w.link = u.link
      /\ w.listed = u.listed /\ w.planComplete = u.planComplete /\ w.job = u.job
      /\ w.slots = u.slots /\ w.asked = u.asked
  BY StepNumbers DEF VehicleRecord
<1>2. Entered(w, n, k + 1)
  OBVIOUS
<1>. HIDE DEF w
<1>3. /\ n \in VehicleRecord /\ n.at >= k + 1 /\ n.at <= 9 /\ n.at # 8 /\ n.at \in Nat
      /\ n.supported = w.supported /\ n.link = w.link /\ n.listed = w.listed
      /\ JobsKept(w, n)
      /\ n.slots \subseteq w.slots /\ w.asked \subseteq n.asked
      /\ \A s \in n.asked : s \in w.asked \/ (n.at < 5 /\ s = Steps[n.at])
  BY <1>2, StepNumbers DEF Entered, VehicleRecord
<1>4. u.planComplete => n.planComplete
  BY <1>1, <1>2 DEF Entered
<1>5. JobsKept(u, n)
  BY <1>1, <1>3 DEF JobsKept
<1>6. k >= 5 => n.at = 9
  BY <1>1, <1>2 DEF Entered
<1>7. n.at = 9 \/ Advances(n) + Resting(n.at) >= Advances(u) + Entering(k)
  <2>1. CASE k >= 5
    BY <1>6, <2>1
  <2>2. CASE k < 5
    <3>1. k \in 1 .. 2
      BY <2>2
    <3>2. Advances(w) = Advances(u)
      BY <1>1 DEF Advances, Asked, Slot
    <3>3. Entering(k + 1) = Entering(k)
      BY <3>1 DEF Entering
    <3>. QED  BY <1>2, <3>2, <3>3 DEF Entered
  <2>. QED  BY <2>1, <2>2
<1>8. ServedTo(u, k - 1) => n.at = 9 \/ Hindered(n) \/ ServedTo(n, n.at)
  <2>1. CASE k >= 5
    BY <1>6, <2>1
  <2>2. CASE k < 5
    <3>1. k \in 1 .. 2
      BY <2>2
    <3>2. ServedTo(w, k)
      BY <3>1, NumbersOfSteps DEF ServedTo, Elements
    <3>3. (k + 1) - 1 = k
      OBVIOUS
    <3>. QED  BY <1>2, <3>2, <3>3 DEF Entered
  <2>. QED  BY <2>1, <2>2
<1>. QED  BY <1>1, <1>3, <1>4, <1>5, <1>6, <1>7, <1>8 DEF Entered

LEMMA DisconnectedFields ==
    ASSUME NEW u \in VehicleRecord, NEW s, NEW k \in 0 .. EndOfSteps
    PROVE  LET w == Disconnected([u EXCEPT !.at = k], s)
           IN  /\ w \in VehicleRecord /\ w.at = k /\ w.supported = u.supported /\ w.link = u.link
               /\ w.listed = u.listed /\ w.job = u.job
               /\ w.slots = u.slots \ {s} /\ w.asked = u.asked
               /\ u.planComplete => w.planComplete
<1>. DEFINE x == [u EXCEPT !.at = k]
            b == x.planComplete \/ s = "rally"
            w == [x EXCEPT !.slots = @ \ {s}, !.planComplete = b]
<1>1. /\ x \in VehicleRecord /\ x.at = k /\ x.supported = u.supported /\ x.link = u.link
      /\ x.listed = u.listed /\ x.planComplete = u.planComplete /\ x.job = u.job
      /\ x.slots = u.slots /\ x.asked = u.asked
  BY DEF VehicleRecord
<1>2. Disconnected(x, s) = w
  BY DEF Disconnected
<1>3. b \in BOOLEAN /\ (u.planComplete => b)
  BY <1>1
<1>. HIDE DEF x, b
<1>4. /\ w \in VehicleRecord /\ w.at = k /\ w.supported = u.supported /\ w.link = u.link
      /\ w.listed = u.listed /\ w.job = u.job
      /\ w.slots = u.slots \ {s} /\ w.asked = u.asked /\ w.planComplete = b
  BY <1>1, <1>3 DEF VehicleRecord
<1>. HIDE DEF w
<1>5. u.planComplete => w.planComplete
  BY <1>3, <1>4
<1>. QED  BY <1>2, <1>4, <1>5 DEF x

\* A step that is left out, with its slot disconnected.
LEMMA LeftOut ==
    ASSUME NEW u \in VehicleRecord, NEW k \in 4 .. 7, NEW n,
           u.link = "highLatency" \/ (u.link = "normal" /\ k \in 6 .. 7 /\ Steps[k] \notin u.supported),
           Entered(Disconnected([u EXCEPT !.at = k], Steps[k]), n, k + 1)
    PROVE  Entered(u, n, k)
<1>. DEFINE s == Steps[k]
            w == Disconnected([u EXCEPT !.at = k], s)
<1>0. s \in Elements \cup {"parameters"} /\ StepOf(s) = k
  <2>1. k \in {4, 5, 6, 7}
    OBVIOUS
  <2>. QED  BY <2>1, StepNumbers, NumbersOfSteps DEF Elements
<1>1. /\ w \in VehicleRecord /\ w.at = k /\ w.supported = u.supported /\ w.link = u.link
      /\ w.listed = u.listed /\ w.job = u.job
      /\ w.slots = u.slots \ {s} /\ w.asked = u.asked
      /\ u.planComplete => w.planComplete
  <2>1. k \in 0 .. EndOfSteps
    BY StepNumbers
  <2>. QED  BY <2>1, DisconnectedFields
<1>2. Entered(w, n, k + 1)
  OBVIOUS
<1>. HIDE DEF w, s
<1>3. /\ n \in VehicleRecord /\ n.at >= k + 1 /\ n.at <= 9 /\ n.at # 8 /\ n.at \in Nat
      /\ n.supported = w.supported /\ n.link = w.link /\ n.listed = w.listed
      /\ JobsKept(w, n)
      /\ n.slots \subseteq w.slots /\ w.asked \subseteq n.asked
      /\ \A x \in n.asked : x \in w.asked \/ (n.at < 5 /\ x = Steps[n.at])
      /\ n.at = 9 \/ Advances(n) + Resting(n.at) >= Advances(w) + Entering(k + 1)
  BY <1>2, StepNumbers DEF Entered, VehicleRecord
<1>4. u.planComplete => n.planComplete
  BY <1>1, <1>2 DEF Entered
<1>5. JobsKept(u, n)
  BY <1>1, <1>3 DEF JobsKept
<1>7. n.at = 9 \/ Advances(n) + Resting(n.at) >= Advances(u) + Entering(k)
  <2>1. Advances(w) + 1 >= Advances(u)
    BY <1>0, <1>1 DEF Advances, Asked, Slot, Elements
  <2>2. Entering(k + 1) = Entering(k) + 1
    BY DEF Entering
  <2>3. Advances(w) \in Nat /\ Advances(u) \in Nat /\ Advances(n) \in Nat /\ Entering(k) \in Nat
        /\ Resting(n.at) \in Nat
    BY <1>1, <1>3, SlotsAtMost DEF Entering, Resting
  <2>. QED  BY <1>3, <2>1, <2>2, <2>3
<1>8. ServedTo(u, k - 1) => n.at = 9 \/ Hindered(n) \/ ServedTo(n, n.at)
  <2>. SUFFICES ASSUME ServedTo(u, k - 1)
                PROVE  n.at = 9 \/ Hindered(n) \/ ServedTo(n, n.at)
    OBVIOUS
  <2>1. k >= 4 /\ "parameters" \in w.slots => "parameters" \in w.asked
    <3>1. CASE k = 4
      BY <1>1, <3>1, StepNumbers DEF s
    <3>2. CASE k > 4
      BY <1>1, <3>2 DEF ServedTo
    <3>. QED  BY <3>1, <3>2
  <2>2. ASSUME NEW e \in Elements, k >= StepOf(e), e \in w.slots
        PROVE  w.job[e] = "load"
    <3>1. e # s /\ e \in u.slots
      BY <1>1, <2>2
    <3>2. StepOf(e) # k
      BY <3>1, <1>0, NumbersOfSteps DEF Elements
    <3>3. StepOf(e) \in Nat
      BY NumbersOfSteps DEF Elements
    <3>. QED  BY <1>1, <2>2, <3>1, <3>2, <3>3 DEF ServedTo
  <2>3. ServedTo(w, k)
    BY <2>1, <2>2 DEF ServedTo
  <2>4. (k + 1) - 1 = k
    OBVIOUS
  <2>. QED  BY <1>2, <2>3, <2>4 DEF Entered
<1>9. u.link = "normal" => InStep(u, n, k)
  <2>. SUFFICES ASSUME u.link = "normal"
                PROVE  InStep(u, n, k)
    OBVIOUS
  <2>1. InStep(w, n, k + 1)
    BY <1>1, <1>2 DEF Entered
  <2>2. k \in 6 .. 7 /\ s \notin u.supported
    BY DEF s
  <2>3. \A i \in 1 .. 8 : k <= i /\ i < n.at => i = 8 \/ Steps[i] \in {"fence", "rally"} \ u.supported
    <3>. SUFFICES ASSUME NEW i \in 1 .. 8, k <= i, i < n.at, i # 8
                  PROVE  Steps[i] \in {"fence", "rally"} \ u.supported
      OBVIOUS
    <3>1. CASE i = k
      <4>1. s \in {"fence", "rally"}
        BY <2>2, StepNumbers DEF s
      <4>. QED  BY <2>2, <3>1, <4>1 DEF s
    <3>2. CASE i # k
      BY <1>1, <2>1, <3>2 DEF InStep
    <3>. QED  BY <3>1, <3>2
  <2>4. \A x \in u.slots : StepOf(x) >= n.at => x \in n.slots
    <3>. SUFFICES ASSUME NEW x \in u.slots, StepOf(x) >= n.at
                  PROVE  x \in n.slots
      OBVIOUS
    <3>1. x # s
      BY <1>0, <1>3
    <3>. QED  BY <1>1, <2>1, <3>1 DEF InStep
  <2>. QED  BY <1>1, <2>1, <2>3, <2>4 DEF InStep
<1>10. n.at >= k
  BY <1>3
<1>11. ~(u.link = "none")
  OBVIOUS
<1>. QED  BY <1>1, <1>3, <1>4, <1>5, <1>7, <1>8, <1>9, <1>10, <1>11 DEF Entered

\* A step that starts the load of its element, or finds its manager busy.
LEMMA LoadEntered ==
    ASSUME NEW u \in VehicleRecord, NEW e \in Elements, u.link = "normal",
           e = "mission" \/ e \in u.supported
    PROVE  Entered(u, StartJob(At(u, e), e, "load"), StepOf(e))
<1>. DEFINE k == StepOf(e)
            w == At(u, e)
            n == StartJob(w, e, "load")
<1>. SUFFICES Entered(u, n, k)
  OBVIOUS
<1>0. k \in 5 .. 7 /\ k \in 0 .. EndOfSteps
  BY NumbersOfSteps, StepNumbers DEF Elements
<1>1. /\ w \in VehicleRecord /\ w.at = k /\ w.supported = u.supported /\ w.link = u.link
      /\ w.listed = u.listed /\ w.planComplete = u.planComplete /\ w.job = u.job
      /\ w.slots = u.slots /\ w.asked = u.asked
  BY <1>0 DEF VehicleRecord, At
<1>. HIDE DEF w
<1>2. /\ n \in VehicleRecord /\ n.at = k /\ n.supported = u.supported /\ n.link = u.link
      /\ n.listed = u.listed /\ n.planComplete = u.planComplete
      /\ n.slots = u.slots /\ n.asked = u.asked
      /\ n.job = IF u.job[e] = "none" THEN [u.job EXCEPT ![e] = "load"] ELSE u.job
  <2>1. CASE w.job[e] = "none"
    <3>1. n = [w EXCEPT !.job[e] = "load"]
      BY <2>1 DEF StartJob, Idle
    <3>2. [w.job EXCEPT ![e] = "load"] \in [Elements -> Jobs]
      BY <1>1 DEF VehicleRecord, Jobs
    <3>. QED  BY <1>1, <2>1, <3>1, <3>2 DEF VehicleRecord
  <2>2. CASE w.job[e] # "none"
    <3>1. n = w
      BY <2>2 DEF StartJob, Idle
    <3>. QED  BY <1>1, <2>2, <3>1
  <2>. QED  BY <2>1, <2>2
<1>3. u.job \in [Elements -> Jobs] /\ u.slots \subseteq Elements \cup {"parameters"}
  BY DEF VehicleRecord
<1>. HIDE DEF n, k
<1>4. JobsKept(u, n)
  BY <1>2, <1>3 DEF JobsKept, k
<1>5. Advances(n) = Advances(u) /\ Resting(k) = Entering(k) /\ Resting(k) \in Nat /\ Advances(u) \in Nat
  BY <1>0, <1>2, SlotsAtMost DEF Advances, Asked, Slot, Resting, Entering
<1>6. ServedTo(u, k - 1) => Hindered(n) \/ ServedTo(n, k)
  <2>. SUFFICES ASSUME ServedTo(u, k - 1), ~Hindered(n)
                PROVE  ServedTo(n, k)
    OBVIOUS
  <2>1. u.job[e] \in Jobs
    BY <1>3
  <2>2. n.job[e] = "load"
    <3>1. n.job[e] \notin Writes
      BY <1>2 DEF Hindered, k
    <3>. QED  BY <1>2, <1>3, <2>1, <3>1 DEF Writes, Jobs
  <2>3. ASSUME NEW f \in Elements, f # e, k >= StepOf(f), f \in u.slots
        PROVE  u.job[f] = "load"
    <3>1. k - 1 >= StepOf(f)
      BY <2>3, NumbersOfSteps DEF Elements, k
    <3>. QED  BY <2>3, <3>1 DEF ServedTo
  <2>4. "parameters" \in u.slots => "parameters" \in u.asked
    BY <1>0 DEF ServedTo
  <2>. QED  BY <1>2, <1>3, <2>2, <2>3, <2>4 DEF ServedTo
<1>7. InStep(u, n, k)
  <2>1. \A f \in Elements : k = StepOf(f) => f = e
    BY NumbersOfSteps DEF Elements, k
  <2>2. n.job[e] # "none"
    BY <1>2, <1>3
  <2>. QED  BY <1>0, <1>2, <1>3, <2>1, <2>2 DEF InStep
<1>8. k >= k /\ k <= 9 /\ k # 8 /\ k >= 5 /\ ~(u.link = "none")
  BY <1>0
<1>. QED  BY <1>2, <1>4, <1>5, <1>6, <1>7, <1>8 DEF Entered

\* One of the first three steps asks.
LEMMA AskEntered ==
    ASSUME NEW u \in VehicleRecord, NEW k \in 1 .. 3, AskedBelow(u, k)
    PROVE  Entered(u, [u EXCEPT !.at = k, !.asked = @ \cup {Steps[k]}], k)
<1>. DEFINE n == [u EXCEPT !.at = k, !.asked = @ \cup {Steps[k]}]
<1>. SUFFICES Entered(u, n, k)
  OBVIOUS
<1>0. k \in 0 .. EndOfSteps /\ Steps[k] \in WithHandler /\ Steps[k] \notin u.asked
  <2>1. k \in {1, 2, 3}
    OBVIOUS
  <2>. QED  BY <2>1, StepNumbers DEF WithHandler, AskedBelow
<1>2. /\ n \in VehicleRecord /\ n.at = k /\ n.supported = u.supported /\ n.link = u.link
      /\ n.listed = u.listed /\ n.planComplete = u.planComplete /\ n.job = u.job
      /\ n.slots = u.slots /\ n.asked = u.asked \cup {Steps[k]}
  BY <1>0 DEF VehicleRecord
<1>. HIDE DEF n
<1>4. JobsKept(u, n)
  BY <1>2 DEF JobsKept
<1>5. Advances(n) + Resting(k) = Advances(u) + Entering(k)
  <2>1. \A s \in {"parameters", "mission", "fence", "rally"} : Slot(n, s) = Slot(u, s)
    BY <1>2 DEF Slot
  <2>2. \A s \in WithHandler : Asked(n, s) = Asked(u, s) + IF s = Steps[k] THEN 1 ELSE 0
    BY <1>0, <1>2 DEF Asked
  <2>3. Resting(k) = 3 /\ Entering(k) = 4
    BY DEF Resting, Entering
  <2>4. k \in {1, 2, 3}
    OBVIOUS
  <2>5. /\ \A s \in {"parameters", "mission", "fence", "rally"} : Slot(u, s) \in 0 .. 1
        /\ \A s \in WithHandler : Asked(u, s) \in 0 .. 1
    BY SlotsAtMost
  <2>6. CASE k = 1
    BY <2>1, <2>2, <2>3, <2>5, <2>6, StepNumbers DEF Advances, WithHandler
  <2>7. CASE k = 2
    BY <2>1, <2>2, <2>3, <2>5, <2>7, StepNumbers DEF Advances, WithHandler
  <2>8. CASE k = 3
    BY <2>1, <2>2, <2>3, <2>5, <2>8, StepNumbers DEF Advances, WithHandler
  <2>. QED  BY <2>4, <2>6, <2>7, <2>8
<1>6. Advances(n) + Resting(k) >= Advances(u) + Entering(k)
  <2>1. Advances(u) \in Nat /\ Entering(k) \in Nat
    BY SlotsAtMost DEF Entering
  <2>. QED  BY <1>5, <2>1
<1>7. ServedTo(n, k)
  BY NumbersOfSteps DEF ServedTo, Elements
<1>8. InStep(u, n, k)
  <2>1. u.slots \subseteq Elements \cup {"parameters"}
    BY DEF VehicleRecord
  <2>. QED  BY <1>2, <2>1, NumbersOfSteps DEF InStep, Elements
<1>9. k <= 9 /\ k # 8 /\ ~(k >= 5) /\ k < 5
  OBVIOUS
<1>. QED  BY <1>2, <1>4, <1>6, <1>7, <1>8, <1>9 DEF Entered

LEMMA RallyPointsEntered ==
    ASSUME NEW u \in VehicleRecord
    PROVE  Entered(u, StateRequestRallyPoints(u), 7)
<1>. DEFINE w == At(u, "rally")
            n == StateRequestRallyPoints(u)
<1>0. w = [u EXCEPT !.at = 7] /\ 7 \in 0 .. EndOfSteps
  BY NumbersOfSteps, StepNumbers DEF At
<1>1. w \in VehicleRecord /\ w.link = u.link /\ w.supported = u.supported
  BY <1>0 DEF VehicleRecord
<1>2. u.link \in {"none", "normal", "highLatency"}
  BY DEF VehicleRecord
<1>3. 7 \in 1 .. 7 /\ 7 \in 4 .. 7 /\ 7 + 1 = 8 /\ Steps[7] = "rally" /\ StepOf("rally") = 7
      /\ "rally" \in Elements
  BY StepNumbers, NumbersOfSteps DEF Elements
<1>4. CASE u.link = "none"
  <2>1. n = StateSignalInitialConnectComplete(w)
    BY <1>1, <1>4 DEF StateRequestRallyPoints
  <2>2. Entered(w, n, 7 + 1)
    BY <1>1, <1>3, <2>1, SignalEntered
  <2>3. 7 >= 5 /\ 7 # 3 /\ 7 # 4
    OBVIOUS
  <2>. HIDE DEF w, n
  <2>4. Entered(u, n, 7)
    BY <1>0, <1>3, <1>4, <2>2, <2>3, PassedOver
  <2>. QED  BY <2>4 DEF n
<1>5. CASE u.link = "normal" /\ "rally" \in u.supported
  <2>1. n = StartJob(w, "rally", "load")
    BY <1>1, <1>5 DEF StateRequestRallyPoints
  <2>. QED  BY <1>3, <1>5, <2>1, LoadEntered
<1>6. CASE u.link # "none" /\ ~(u.link = "normal" /\ "rally" \in u.supported)
  <2>. DEFINE d == Disconnected(w, "rally")
  <2>1. n = StateSignalInitialConnectComplete(d)
    BY <1>1, <1>6 DEF StateRequestRallyPoints
  <2>2. d \in VehicleRecord
    BY <1>0, DisconnectedFields
  <2>3. Entered(d, n, 7 + 1)
    BY <1>3, <2>1, <2>2, SignalEntered
  <2>4. d = Disconnected([u EXCEPT !.at = 7], Steps[7])
    BY <1>0, <1>3
  <2>5. u.link = "highLatency" \/ (u.link = "normal" /\ 7 \in 6 .. 7 /\ Steps[7] \notin u.supported)
    BY <1>2, <1>3, <1>6
  <2>. HIDE DEF d, n, w
  <2>6. Entered(u, n, 7)
    BY <1>3, <2>3, <2>4, <2>5, LeftOut
  <2>. QED  BY <2>6 DEF n
<1>. QED  BY <1>4, <1>5, <1>6

LEMMA GeoFenceEntered ==
    ASSUME NEW u \in VehicleRecord
    PROVE  Entered(u, StateRequestGeoFence(u), 6)
<1>. DEFINE w == At(u, "fence")
            n == StateRequestGeoFence(u)
<1>0. w = [u EXCEPT !.at = 6] /\ 6 \in 0 .. EndOfSteps
  BY NumbersOfSteps, StepNumbers DEF At
<1>1. w \in VehicleRecord /\ w.link = u.link /\ w.supported = u.supported
  BY <1>0 DEF VehicleRecord
<1>2. u.link \in {"none", "normal", "highLatency"}
  BY DEF VehicleRecord
<1>3. 6 \in 1 .. 7 /\ 6 \in 4 .. 7 /\ 6 + 1 = 7 /\ Steps[6] = "fence" /\ StepOf("fence") = 6
      /\ "fence" \in Elements
  BY StepNumbers, NumbersOfSteps DEF Elements
<1>4. CASE u.link = "none"
  <2>1. n = StateRequestRallyPoints(w)
    BY <1>1, <1>4 DEF StateRequestGeoFence
  <2>2. Entered(w, n, 6 + 1)
    BY <1>1, <1>3, <2>1, RallyPointsEntered
  <2>3. 6 >= 5 /\ 6 # 3 /\ 6 # 4
    OBVIOUS
  <2>. HIDE DEF w, n
  <2>4. Entered(u, n, 6)
    BY <1>0, <1>3, <1>4, <2>2, <2>3, PassedOver
  <2>. QED  BY <2>4 DEF n
<1>5. CASE u.link = "normal" /\ "fence" \in u.supported
  <2>1. n = StartJob(w, "fence", "load")
    BY <1>1, <1>5 DEF StateRequestGeoFence
  <2>. QED  BY <1>3, <1>5, <2>1, LoadEntered
<1>6. CASE u.link # "none" /\ ~(u.link = "normal" /\ "fence" \in u.supported)
  <2>. DEFINE d == Disconnected(w, "fence")
  <2>1. n = StateRequestRallyPoints(d)
    BY <1>1, <1>6 DEF StateRequestGeoFence
  <2>2. d \in VehicleRecord
    BY <1>0, DisconnectedFields
  <2>3. Entered(d, n, 6 + 1)
    BY <1>3, <2>1, <2>2, RallyPointsEntered
  <2>4. d = Disconnected([u EXCEPT !.at = 6], Steps[6])
    BY <1>0, <1>3
  <2>5. u.link = "highLatency" \/ (u.link = "normal" /\ 6 \in 6 .. 7 /\ Steps[6] \notin u.supported)
    BY <1>2, <1>3, <1>6
  <2>. HIDE DEF d, n, w
  <2>6. Entered(u, n, 6)
    BY <1>3, <2>3, <2>4, <2>5, LeftOut
  <2>. QED  BY <2>6 DEF n
<1>. QED  BY <1>4, <1>5, <1>6

LEMMA MissionEntered ==
    ASSUME NEW u \in VehicleRecord
    PROVE  Entered(u, StateRequestMission(u), 5)
<1>. DEFINE w == At(u, "mission")
            n == StateRequestMission(u)
<1>0. w = [u EXCEPT !.at = 5] /\ 5 \in 0 .. EndOfSteps
  BY NumbersOfSteps, StepNumbers DEF At
<1>1. w \in VehicleRecord /\ w.link = u.link /\ w.supported = u.supported
  BY <1>0 DEF VehicleRecord
<1>2. u.link \in {"none", "normal", "highLatency"}
  BY DEF VehicleRecord
<1>3. 5 \in 1 .. 7 /\ 5 \in 4 .. 7 /\ 5 + 1 = 6 /\ Steps[5] = "mission" /\ StepOf("mission") = 5
      /\ "mission" \in Elements
  BY StepNumbers, NumbersOfSteps DEF Elements
<1>4. CASE u.link = "none"
  <2>1. n = StateRequestGeoFence(w)
    BY <1>1, <1>4 DEF StateRequestMission
  <2>2. Entered(w, n, 5 + 1)
    BY <1>1, <1>3, <2>1, GeoFenceEntered
  <2>3. 5 >= 5 /\ 5 # 3 /\ 5 # 4
    OBVIOUS
  <2>. HIDE DEF w, n
  <2>4. Entered(u, n, 5)
    BY <1>0, <1>3, <1>4, <2>2, <2>3, PassedOver
  <2>. QED  BY <2>4 DEF n
<1>5. CASE u.link = "normal"
  <2>1. n = StartJob(w, "mission", "load")
    BY <1>1, <1>5 DEF StateRequestMission
  <2>. QED  BY <1>3, <1>5, <2>1, LoadEntered
<1>6. CASE u.link = "highLatency"
  <2>. DEFINE d == Disconnected(w, "mission")
  <2>1. n = StateRequestGeoFence(d)
    BY <1>1, <1>6 DEF StateRequestMission
  <2>2. d \in VehicleRecord
    BY <1>0, DisconnectedFields
  <2>3. Entered(d, n, 5 + 1)
    BY <1>3, <2>1, <2>2, GeoFenceEntered
  <2>4. d = Disconnected([u EXCEPT !.at = 5], Steps[5])
    BY <1>0, <1>3
  <2>. HIDE DEF d, n, w
  <2>6. Entered(u, n, 5)
    BY <1>3, <1>6, <2>3, <2>4, LeftOut
  <2>. QED  BY <2>6 DEF n
<1>. QED  BY <1>2, <1>4, <1>5, <1>6

LEMMA ParametersEntered ==
    ASSUME NEW u \in VehicleRecord
    PROVE  Entered(u, StateRequestParameters(u), 4)
<1>. DEFINE w == At(u, "parameters")
            n == StateRequestParameters(u)
<1>0. w = [u EXCEPT !.at = 4] /\ 4 \in 0 .. EndOfSteps
  BY NumbersOfSteps, StepNumbers DEF At
<1>1. /\ w \in VehicleRecord /\ w.at = 4 /\ w.supported = u.supported /\ w.link = u.link
      /\ w.listed = u.listed /\ w.planComplete = u.planComplete /\ w.job = u.job
      /\ w.slots = u.slots /\ w.asked = u.asked
  BY <1>0 DEF VehicleRecord
<1>2. u.link \in {"none", "normal", "highLatency"}
  BY DEF VehicleRecord
<1>3. 4 \in 4 .. 7 /\ 4 + 1 = 5 /\ Steps[4] = "parameters" /\ StepOf("parameters") = 4
  BY StepNumbers, NumbersOfSteps
<1>4. CASE u.link # "highLatency"
  <2>1. n = IF u.link = "none" THEN w ELSE [w EXCEPT !.asked = @ \cup {"parameters"}]
    BY <1>1, <1>2, <1>4 DEF StateRequestParameters
  <2>. HIDE DEF w
  <2>2. /\ n \in VehicleRecord /\ n.at = 4 /\ n.supported = u.supported /\ n.link = u.link
        /\ n.listed = u.listed /\ n.planComplete = u.planComplete /\ n.job = u.job
        /\ n.slots = u.slots
        /\ n.asked = IF u.link = "none" THEN u.asked ELSE u.asked \cup {"parameters"}
    BY <1>1, <2>1 DEF VehicleRecord
  <2>. SUFFICES Entered(u, n, 4)
    OBVIOUS
  <2>. HIDE DEF n
  <2>3. JobsKept(u, n)
    BY <2>2 DEF JobsKept
  <2>4. Advances(n) = Advances(u)
    BY <2>2 DEF Advances, Asked, Slot
  <2>5. Advances(n) + Resting(4) >= Advances(u) + Entering(4)
    BY <2>4, SlotsAtMost DEF Resting, Entering
  <2>6. Hindered(n) \/ ServedTo(n, 4)
    BY <1>2, <1>4, <2>2, NumbersOfSteps DEF Hindered, ServedTo, Elements
  <2>7. InStep(u, n, 4)
    BY <2>2, NumbersOfSteps DEF InStep, Elements, VehicleRecord
  <2>8. \A s \in n.asked : s \in u.asked \/ s = Steps[4]
    BY <2>2, <1>3
  <2>9. 4 >= 4 /\ 4 <= 9 /\ 4 # 8 /\ ~(4 >= 5) /\ 4 < 5
    OBVIOUS
  <2>. QED  BY <2>2, <2>3, <2>5, <2>6, <2>7, <2>8, <2>9 DEF Entered
<1>6. CASE u.link = "highLatency"
  <2>. DEFINE d == Disconnected(w, "parameters")
  <2>1. n = StateRequestMission(d)
    BY <1>1, <1>6 DEF StateRequestParameters
  <2>2. d \in VehicleRecord
    BY <1>0, DisconnectedFields
  <2>3. Entered(d, n, 4 + 1)
    BY <1>3, <2>1, <2>2, MissionEntered
  <2>4. d = Disconnected([u EXCEPT !.at = 4], Steps[4])
    BY <1>0, <1>3
  <2>. HIDE DEF d, n, w
  <2>6. Entered(u, n, 4)
    BY <1>3, <1>6, <2>3, <2>4, LeftOut
  <2>. QED  BY <2>6 DEF n
<1>. QED  BY <1>4, <1>6

LEMMA CompInfoEntered ==
    ASSUME NEW u \in VehicleRecord, AskedBelow(u, 3)
    PROVE  Entered(u, StateRequestCompInfo(u), 3)
<1>1. StateRequestCompInfo(u) = [u EXCEPT !.at = 3, !.asked = @ \cup {Steps[3]}]
  BY StepNumbers, NumbersOfSteps DEF StateRequestCompInfo, At, VehicleRecord
<1>2. 3 \in 1 .. 3
  OBVIOUS
<1>3. Entered(u, [u EXCEPT !.at = 3, !.asked = @ \cup {Steps[3]}], 3)
  BY <1>2, AskEntered
<1>. QED  BY <1>1, <1>3

LEMMA ProtocolVersionEntered ==
    ASSUME NEW u \in VehicleRecord, AskedBelow(u, 2)
    PROVE  Entered(u, StateRequestProtocolVersion(u), 2)
<1>. DEFINE w == At(u, "ProtocolVersion")
            n == StateRequestProtocolVersion(u)
<1>0. w = [u EXCEPT !.at = 2] /\ 2 \in 1 .. 7 /\ 2 + 1 = 3
  BY NumbersOfSteps DEF At
<1>1. w \in VehicleRecord /\ w.link = u.link /\ w.asked = u.asked
  BY <1>0, StepNumbers DEF VehicleRecord
<1>2. CASE u.link = "normal"
  <2>1. n = [u EXCEPT !.at = 2, !.asked = @ \cup {Steps[2]}]
    BY <1>0, <1>1, <1>2, StepNumbers DEF StateRequestProtocolVersion, VehicleRecord
  <2>2. 2 \in 1 .. 3
    OBVIOUS
  <2>. HIDE DEF n
  <2>3. Entered(u, n, 2)
    BY <2>1, <2>2, AskEntered
  <2>. QED  BY <2>3 DEF n
<1>3. CASE u.link # "normal"
  <2>1. n = StateRequestCompInfo(w)
    BY <1>1, <1>3 DEF StateRequestProtocolVersion
  <2>2. AskedBelow(w, 3)
    BY <1>1 DEF AskedBelow
  <2>3. Entered(w, n, 2 + 1)
    BY <1>0, <1>1, <2>1, <2>2, CompInfoEntered
  <2>4. ~(2 >= 5) /\ 2 # 3 /\ 2 # 4
    OBVIOUS
  <2>. HIDE DEF w, n
  <2>5. Entered(u, n, 2)
    BY <1>0, <1>3, <2>3, <2>4, PassedOver
  <2>. QED  BY <2>5 DEF n
<1>. QED  BY <1>2, <1>3

LEMMA AutopilotVersionEntered ==
    ASSUME NEW u \in VehicleRecord, AskedBelow(u, 1)
    PROVE  Entered(u, StateRequestAutopilotVersion(u), 1)
<1>. DEFINE w == At(u, "AutopilotVersion")
            n == StateRequestAutopilotVersion(u)
<1>0. w = [u EXCEPT !.at = 1] /\ 1 \in 1 .. 7 /\ 1 + 1 = 2
  BY NumbersOfSteps DEF At
<1>1. w \in VehicleRecord /\ w.link = u.link /\ w.asked = u.asked
  BY <1>0, StepNumbers DEF VehicleRecord
<1>2. CASE u.link = "normal"
  <2>1. n = [u EXCEPT !.at = 1, !.asked = @ \cup {Steps[1]}]
    BY <1>0, <1>1, <1>2, StepNumbers DEF StateRequestAutopilotVersion, VehicleRecord
  <2>2. 1 \in 1 .. 3
    OBVIOUS
  <2>. HIDE DEF n
  <2>3. Entered(u, n, 1)
    BY <2>1, <2>2, AskEntered
  <2>. QED  BY <2>3 DEF n
<1>3. CASE u.link # "normal"
  <2>1. n = StateRequestProtocolVersion(w)
    BY <1>1, <1>3 DEF StateRequestAutopilotVersion
  <2>2. AskedBelow(w, 2)
    BY <1>1 DEF AskedBelow
  <2>3. Entered(w, n, 1 + 1)
    BY <1>0, <1>1, <2>1, <2>2, ProtocolVersionEntered
  <2>4. ~(1 >= 5) /\ 1 # 3 /\ 1 # 4
    OBVIOUS
  <2>. HIDE DEF w, n
  <2>5. Entered(u, n, 1)
    BY <1>0, <1>3, <2>3, <2>4, PassedOver
  <2>. QED  BY <2>5 DEF n
<1>. QED  BY <1>2, <1>3

\* StateMachine::advance enters the step after the one the machine is at.
LEMMA Advanced ==
    ASSUME NEW u \in VehicleRecord, u.at <= 7, AskedBelow(u, u.at + 1)
    PROVE  Entered(u, Advance(u), u.at + 1)
<1>1. u.at \in {0, 1, 2, 3, 4, 5, 6, 7}
  BY StepNumbers DEF VehicleRecord
<1>2. CASE u.at = 0
  BY <1>2, AutopilotVersionEntered DEF Advance
<1>3. CASE u.at = 1
  BY <1>3, ProtocolVersionEntered DEF Advance
<1>4. CASE u.at = 2
  BY <1>4, CompInfoEntered DEF Advance
<1>5. CASE u.at = 3
  BY <1>5, ParametersEntered DEF Advance
<1>6. CASE u.at = 4
  BY <1>6, MissionEntered DEF Advance
<1>7. CASE u.at = 5
  BY <1>7, GeoFenceEntered DEF Advance
<1>8. CASE u.at = 6
  BY <1>8, RallyPointsEntered DEF Advance
<1>9. CASE u.at = 7
  BY <1>9, SignalEntered DEF Advance
<1>. QED  BY <1>1, <1>2, <1>3, <1>4, <1>5, <1>6, <1>7, <1>8, <1>9

-----------------------------------------------------------------------------
(* What holds of the record of every vehicle.                              *)

\* Nothing has been asked of a later step, only missions are written to resume or to guide, and
\* there are as many advances to come as the machine needs to reach its last step.
VehicleInv(u) ==
    /\ u.at >= 1 /\ u.at # 8
    /\ AskedBelow(u, u.at + 1)
    /\ \A e \in Elements : u.job[e] \in {"resume", "guided"} => e = "mission"
    /\ u.at = 9 \/ Advances(u) + Resting(u.at) >= 8

Served(u) == u.at = 9 \/ Hindered(u) \/ ServedTo(u, u.at)

\* The machine of a vehicle whose connect nothing has overlapped, h being the steps answered.
Ordered(u, h) ==
    /\ \A i \in 1 .. 8 : i < u.at =>
            Steps[i] \in h \cup ({"fence", "rally"} \ u.supported) \cup {"SignalComplete"}
    /\ u.at < 9 =>
        /\ u.link = "normal"
        /\ \A s \in u.asked : s = Steps[u.at]
        /\ \A e \in Elements : u.job[e] = "load" => u.at = StepOf(e)
        /\ \A s \in Elements \cup {"parameters"} : StepOf(s) >= u.at => s \in u.slots

\* The machine was at s, and is past it at an element whose manager is busy, none of those in
\* between being supported.
OnTheWay(u, n, s) ==
    \/ n.at = 9
    \/ /\ s = Steps[u.at] /\ n.at > u.at
       /\ \A f \in Elements :
            n.at = StepOf(f) => n.job[f] # "none" /\ (f = "mission" \/ f \in u.supported)
       /\ \A f \in Elements :
            u.at < StepOf(f) /\ StepOf(f) < n.at => f # "mission" /\ f \notin u.supported

\* n is u with the answer to step s taken.
Answers(u, n, s) ==
    /\ n \in VehicleRecord /\ VehicleInv(n)
    /\ n.supported = u.supported /\ n.link = u.link
    /\ u.planComplete => n.planComplete
    /\ \A f \in Elements :
        \/ f # s /\ n.job[f] = u.job[f]
        \/ f # s /\ u.job[f] = "none" /\ n.job[f] = "load"
        \/ f = s /\ n.job[f] \in {"none", "load"}
    /\ u.at = 9 \/ ServedTo(u, u.at) => Served(n)
    /\ \A h \in SUBSET StepNames : Ordered(u, h) => Ordered(n, h \cup {s}) /\ OnTheWay(u, n, s)

LEMMA StepNumbersAre ==
    \A s \in Elements \cup {"parameters"} : StepOf(s) \in 4 .. 7 /\ Steps[StepOf(s)] = s
<1>. QED  BY NumbersOfSteps, StepNumbers DEF Elements

\* One that has been taken: c is u without one handler or one slot, and n is c advanced.
LEMMA Progress ==
    ASSUME NEW u \in VehicleRecord, VehicleInv(u), u.at <= 7,
           NEW c \in VehicleRecord, c.at = u.at, c.link = u.link, c.supported = u.supported,
           c.asked \subseteq u.asked, Advances(c) + 1 >= Advances(u),
           u.planComplete => c.planComplete,
           NEW s \in StepNames,
           \A f \in Elements : \/ f # s /\ c.job[f] = u.job[f]
                               \/ f = s /\ c.job[f] = "none",
           ServedTo(u, u.at) => ServedTo(c, u.at),
           s \notin c.asked, u.slots \subseteq c.slots \cup {s},
           \A h \in SUBSET StepNames : Ordered(u, h) => s = Steps[u.at]
    PROVE  Answers(u, Advance(c), s)
<1>. DEFINE n == Advance(c)
            k == u.at + 1
<1>. SUFFICES Answers(u, n, s)
  OBVIOUS
<1>0. u.at \in Nat /\ u.at >= 1 /\ k \in 2 .. 8 /\ k \in Nat
  BY DEF VehicleRecord, VehicleInv
<1>1. AskedBelow(c, k)
  BY DEF VehicleInv, AskedBelow
<1>2. Entered(c, n, k)
  BY <1>1, Advanced
<1>. HIDE DEF n
<1>3. /\ n \in VehicleRecord /\ n.at >= k /\ n.at <= 9 /\ n.at # 8 /\ n.at \in Nat
      /\ n.supported = c.supported /\ n.link = c.link
      /\ JobsKept(c, n)
      /\ n.slots \subseteq c.slots /\ c.asked \subseteq n.asked
      /\ \A x \in n.asked : x \in c.asked \/ (n.at < 5 /\ x = Steps[n.at])
      /\ n.at = 9 \/ Advances(n) + Resting(n.at) >= Advances(c) + Entering(k)
      /\ ServedTo(c, k - 1) => n.at = 9 \/ Hindered(n) \/ ServedTo(n, n.at)
      /\ c.link = "normal" => InStep(c, n, k)
  BY <1>2 DEF Entered, VehicleRecord
<1>4. u.planComplete => n.planComplete
  BY <1>2 DEF Entered
<1>5. \A f \in Elements :
        \/ f # s /\ n.job[f] = u.job[f]
        \/ f # s /\ u.job[f] = "none" /\ n.job[f] = "load"
        \/ f = s /\ n.job[f] \in {"none", "load"}
  BY <1>3 DEF JobsKept
<1>6. VehicleInv(n)
  <2>1. AskedBelow(n, n.at + 1)
    <3>. SUFFICES ASSUME NEW i \in 1 .. 3, i >= n.at + 1, Steps[i] \in n.asked
                  PROVE  FALSE
      BY DEF AskedBelow
    <3>1. Steps[i] \notin c.asked
      BY <1>0, <1>1, <1>3 DEF AskedBelow
    <3>2. Steps[i] = Steps[n.at] /\ n.at < i
      BY <1>3, <3>1
    <3>3. i \in {1, 2, 3} /\ n.at \in {1, 2, 3}
      BY <1>0, <1>3, <3>2
    <3>. QED  BY <3>2, <3>3, StepNumbers
  <2>2. \A f \in Elements : n.job[f] \in {"resume", "guided"} => f = "mission"
    BY <1>5 DEF VehicleInv
  <2>3. n.at = 9 \/ Advances(n) + Resting(n.at) >= 8
    <3>. SUFFICES ASSUME n.at # 9
                  PROVE  Advances(n) + Resting(n.at) >= 8
      OBVIOUS
    <3>1. Advances(u) + Resting(u.at) >= 8
      BY DEF VehicleInv
    <3>2. Entering(k) = Resting(u.at) + 1
      BY <1>0 DEF Entering, Resting
    <3>3. Advances(c) \in Nat /\ Advances(u) \in Nat /\ Advances(n) \in Nat
          /\ Resting(u.at) \in Nat /\ Resting(n.at) \in Nat
      BY <1>0, <1>3, SlotsAtMost DEF Resting
    <3>. HIDE DEF k
    <3>. QED  BY <1>3, <3>1, <3>2, <3>3
  <2>4. n.at >= 1
    BY <1>0, <1>3
  <2>. QED  BY <1>3, <2>1, <2>2, <2>3, <2>4 DEF VehicleInv
<1>7. u.at = 9 \/ ServedTo(u, u.at) => Served(n)
  <2>1. k - 1 = u.at
    BY <1>0
  <2>. HIDE DEF k
  <2>. QED  BY <1>3, <2>1 DEF Served
<1>8. ASSUME NEW h \in SUBSET StepNames, Ordered(u, h)
      PROVE  Ordered(n, h \cup {s}) /\ OnTheWay(u, n, s)
  <2>0. u.at < 9
    BY <1>0
  <2>1. s = Steps[u.at] /\ u.link = "normal" /\ u.at < 9
    BY <1>8, <2>0 DEF Ordered
  <2>2. InStep(c, n, k)
    BY <1>3, <2>1
  <2>3. ASSUME NEW i \in 1 .. 8, i < n.at
        PROVE  Steps[i] \in (h \cup {s}) \cup ({"fence", "rally"} \ n.supported) \cup {"SignalComplete"}
    <3>1. CASE i < u.at
      BY <1>3, <1>8, <3>1 DEF Ordered
    <3>2. CASE i = u.at
      BY <2>1, <3>2
    <3>3. CASE i >= k
      <4>1. i = 8 \/ Steps[i] \in {"fence", "rally"} \ c.supported
        BY <2>2, <2>3, <3>3 DEF InStep
      <4>. QED  BY <1>3, <4>1, StepNumbers
    <3>. QED  BY <1>0, <3>1, <3>2, <3>3
  <2>4. ASSUME NEW x \in n.asked
        PROVE  x = Steps[n.at]
    <3>1. x \notin c.asked
      BY <1>8, <2>1 DEF Ordered
    <3>. QED  BY <1>3, <3>1
  <2>5. ASSUME NEW e \in Elements, n.job[e] = "load"
        PROVE  n.at = StepOf(e)
    <3>1. c.job[e] # "load"
      <4>1. CASE e = s
        BY <4>1
      <4>2. CASE e # s
        <5>1. u.at # StepOf(e)
          BY <2>1, <4>2, StepNumbersAre
        <5>. QED  BY <1>8, <2>1, <4>2, <5>1 DEF Ordered
      <4>. QED  BY <4>1, <4>2
    <3>. QED  BY <1>3, <2>5, <3>1 DEF JobsKept
  <2>6. ASSUME NEW x \in Elements \cup {"parameters"}, StepOf(x) >= n.at
        PROVE  x \in n.slots
    <3>1. StepOf(x) > u.at /\ StepOf(x) \in Nat
      BY <1>0, <1>3, <2>6, StepNumbersAre
    <3>2. x # s
      <4>1. Steps[u.at] = x => u.at = StepOf(x)
        <5>1. u.at \in {1, 2, 3, 4, 5, 6, 7}
          BY <1>0
        <5>. QED  BY <5>1, StepNumbers, NumbersOfSteps DEF Elements
      <4>. QED  BY <1>0, <2>1, <3>1, <4>1
    <3>3. x \in u.slots
      BY <1>0, <1>8, <2>1, <3>1 DEF Ordered
    <3>4. x \in c.slots
      BY <3>2, <3>3
    <3>. QED  BY <2>2, <2>6, <3>4 DEF InStep
  <2>7. n.link = "normal"
    BY <1>3, <2>1
  <2>8. n.at # 9 => \A f \in Elements :
            u.at < StepOf(f) /\ StepOf(f) < n.at => f # "mission" /\ f \notin u.supported
    <3>. SUFFICES ASSUME n.at # 9, NEW f \in Elements, u.at < StepOf(f), StepOf(f) < n.at
                  PROVE  f # "mission" /\ f \notin u.supported
      OBVIOUS
    <3>1. StepOf(f) \in 1 .. 8 /\ StepOf(f) # 8 /\ Steps[StepOf(f)] = f /\ StepOf(f) \in Nat
      BY StepNumbersAre
    <3>2. k <= StepOf(f)
      BY <1>0, <3>1
    <3>3. f \in {"fence", "rally"} \ c.supported
      BY <2>2, <3>1, <3>2 DEF InStep
    <3>. QED  BY <3>3
  <2>9. \A f \in Elements :
            n.at = StepOf(f) => n.job[f] # "none" /\ (f = "mission" \/ f \in u.supported)
    BY <2>2 DEF InStep
  <2>10. n.at > u.at
    BY <1>0, <1>3
  <2>. HIDE DEF k
  <2>11. OnTheWay(u, n, s)
    BY <2>1, <2>8, <2>9, <2>10 DEF OnTheWay
  <2>. QED  BY <2>3, <2>4, <2>5, <2>6, <2>7, <2>11 DEF Ordered
<1>. QED  BY <1>3, <1>4, <1>5, <1>6, <1>7, <1>8 DEF Answers

LEMMA HandlerAnswers ==
    ASSUME NEW u \in VehicleRecord, VehicleInv(u), NEW s \in WithHandler, s \in u.asked
    PROVE  Answers(u, HandlerCalled(u, s), s)
<1>. DEFINE c == [u EXCEPT !.asked = @ \ {s}]
<1>1. HandlerCalled(u, s) = Advance(c)
  BY DEF HandlerCalled
<1>2. /\ c \in VehicleRecord /\ c.at = u.at /\ c.link = u.link /\ c.supported = u.supported
      /\ c.asked = u.asked \ {s} /\ c.slots = u.slots /\ c.job = u.job
      /\ c.planComplete = u.planComplete
  BY DEF VehicleRecord
<1>. HIDE DEF c
<1>3. u.at \in 1 .. 7 \/ u.at = 9
  BY StepNumbers DEF VehicleRecord, VehicleInv
<1>4. s \notin Elements /\ s \in StepNames /\ s # "parameters"
  BY StepNumbers DEF WithHandler, Elements, StepNames
<1>5. CASE u.at \in 1 .. 7
  <2>1. Advances(c) + 1 >= Advances(u)
    <3>1. \A x \in {"parameters", "mission", "fence", "rally"} : Slot(c, x) = Slot(u, x)
      BY <1>2 DEF Slot
    <3>2. \A x \in WithHandler : Asked(c, x) + (IF x = s THEN 1 ELSE 0) = Asked(u, x)
      BY <1>2 DEF Asked
    <3>3. /\ \A x \in {"parameters", "mission", "fence", "rally"} : Slot(c, x) \in 0 .. 1
          /\ \A x \in WithHandler : Asked(c, x) \in 0 .. 1 /\ Asked(u, x) \in 0 .. 1
      BY <1>2, SlotsAtMost
    <3>4. CASE s = "AutopilotVersion"
      BY <3>1, <3>2, <3>3, <3>4 DEF Advances, WithHandler
    <3>5. CASE s = "ProtocolVersion"
      BY <3>1, <3>2, <3>3, <3>5 DEF Advances, WithHandler
    <3>6. CASE s = "CompInfo"
      BY <3>1, <3>2, <3>3, <3>6 DEF Advances, WithHandler
    <3>. QED  BY <3>4, <3>5, <3>6 DEF WithHandler
  <2>2. \A f \in Elements : f # s /\ c.job[f] = u.job[f]
    BY <1>2, <1>4
  <2>3. ServedTo(u, u.at) => ServedTo(c, u.at)
    BY <1>2, <1>4 DEF ServedTo
  <2>4. \A h \in SUBSET StepNames : Ordered(u, h) => s = Steps[u.at]
    BY <1>5 DEF Ordered
  <2>. QED  BY <1>1, <1>2, <1>4, <1>5, <2>1, <2>2, <2>3, <2>4, Progress
<1>6. CASE u.at = 9
  <2>1. HandlerCalled(u, s) = c
    BY <1>1, <1>2, <1>6 DEF Advance
  <2>2. VehicleInv(c)
    BY <1>2, <1>6 DEF VehicleInv, AskedBelow
  <2>3. \A h \in SUBSET StepNames : Ordered(u, h) => Ordered(c, h \cup {s}) /\ OnTheWay(u, c, s)
    BY <1>2, <1>6 DEF Ordered, OnTheWay
  <2>. QED  BY <1>2, <1>4, <1>6, <2>1, <2>2, <2>3 DEF Answers, Served
<1>. QED  BY <1>3, <1>5, <1>6

\* A record with its machine at rest for good answers for anything.
LEMMA RestAnswers ==
    ASSUME NEW u \in VehicleRecord, VehicleInv(u), NEW s,
           NEW n \in VehicleRecord, n.at = u.at, n.link = u.link, n.supported = u.supported,
           n.asked \subseteq u.asked, u.planComplete => n.planComplete,
           \A f \in Elements : \/ f # s /\ n.job[f] = u.job[f]
                               \/ f = s /\ n.job[f] = "none",
           n.slots \subseteq u.slots,
           u.at = 9 \/ /\ Advances(n) = Advances(u)
                       /\ ServedTo(u, u.at) => ServedTo(n, n.at)
                       /\ \A h \in SUBSET StepNames : ~Ordered(u, h)
    PROVE  Answers(u, n, s)
<1>1. AskedBelow(n, n.at + 1)
  BY DEF VehicleInv, AskedBelow
<1>2. VehicleInv(n)
  BY <1>1 DEF VehicleInv
<1>3. \A h \in SUBSET StepNames : Ordered(u, h) => Ordered(n, h \cup {s}) /\ OnTheWay(u, n, s)
  <2>1. CASE u.at = 9
    BY <2>1 DEF Ordered, OnTheWay
  <2>. QED  BY <2>1
<1>4. u.at = 9 \/ ServedTo(u, u.at) => Served(n)
  BY DEF Served
<1>. QED  BY <1>2, <1>3, <1>4 DEF Answers

LEMMA ParametersAnswer ==
    ASSUME NEW u \in VehicleRecord, VehicleInv(u), "parameters" \in u.asked
    PROVE  Answers(u, ParametersReady(u), "parameters")
<1>. DEFINE a == [u EXCEPT !.asked = @ \ {"parameters"}]
            c == Disconnected(a, "parameters")
<1>1. /\ a \in VehicleRecord /\ a.at = u.at /\ a.link = u.link /\ a.supported = u.supported
      /\ a.asked = u.asked \ {"parameters"} /\ a.slots = u.slots /\ a.job = u.job
      /\ a.planComplete = u.planComplete /\ a = [a EXCEPT !.at = u.at]
  BY DEF VehicleRecord
<1>2. u.at \in 0 .. EndOfSteps /\ (u.at \in 1 .. 7 \/ u.at = 9)
  BY StepNumbers DEF VehicleRecord, VehicleInv
<1>. HIDE DEF a
<1>3. /\ c \in VehicleRecord /\ c.at = u.at /\ c.link = u.link /\ c.supported = u.supported
      /\ c.asked = a.asked /\ c.slots = u.slots \ {"parameters"} /\ c.job = u.job
      /\ u.planComplete => c.planComplete
  <2>. DEFINE d == Disconnected([a EXCEPT !.at = u.at], "parameters")
  <2>1. d = c
    BY <1>1
  <2>2. /\ d \in VehicleRecord /\ d.at = u.at /\ d.supported = a.supported /\ d.link = a.link
        /\ d.job = a.job /\ d.slots = a.slots \ {"parameters"} /\ d.asked = a.asked
        /\ a.planComplete => d.planComplete
    BY <1>1, <1>2, DisconnectedFields
  <2>. HIDE DEF c, d
  <2>. QED  BY <1>1, <2>1, <2>2
<1>4. ParametersReady(u) = IF "parameters" \in u.slots THEN Advance(c) ELSE a
  BY DEF ParametersReady, a
<1>. HIDE DEF c
<1>5. "parameters" \in StepNames /\ "parameters" \notin Elements /\ "parameters" \notin WithHandler
  BY StepNumbers DEF StepNames, Elements, WithHandler
<1>6. CASE u.at \in 1 .. 7 /\ "parameters" \in u.slots
  <2>1. Advances(c) + 1 >= Advances(u)
    <3>1. \A x \in Elements : Slot(c, x) = Slot(u, x)
      BY <1>3, <1>5 DEF Slot
    <3>2. \A x \in WithHandler : Asked(c, x) = Asked(u, x)
      BY <1>1, <1>3, <1>5 DEF Asked
    <3>3. /\ \A x \in {"parameters", "mission", "fence", "rally"} : Slot(c, x) \in 0 .. 1 /\ Slot(u, x) \in 0 .. 1
          /\ \A x \in WithHandler : Asked(u, x) \in 0 .. 1
      BY <1>3, SlotsAtMost
    <3>. QED  BY <3>1, <3>2, <3>3 DEF Advances, WithHandler, Elements
  <2>2. \A f \in Elements : f # "parameters" /\ c.job[f] = u.job[f]
    BY <1>3, <1>5
  <2>3. ServedTo(u, u.at) => ServedTo(c, u.at)
    BY <1>3 DEF ServedTo
  <2>4. \A h \in SUBSET StepNames : Ordered(u, h) => "parameters" = Steps[u.at]
    BY <1>6 DEF Ordered
  <2>5. u.at <= 7 /\ c.asked \subseteq u.asked /\ "parameters" \notin c.asked
        /\ u.slots \subseteq c.slots \cup {"parameters"}
    BY <1>1, <1>3, <1>6
  <2>6. Answers(u, Advance(c), "parameters")
    BY <1>3, <1>5, <2>1, <2>2, <2>3, <2>4, <2>5, Progress
  <2>. QED  BY <1>4, <1>6, <2>6
<1>7. CASE u.at = 9 /\ "parameters" \in u.slots
  <2>1. Advance(c) = c
    BY <1>3, <1>7 DEF Advance
  <2>2. Answers(u, c, "parameters")
    BY <1>1, <1>3, <1>5, <1>7, RestAnswers
  <2>. QED  BY <1>4, <1>7, <2>1, <2>2
<1>8. CASE "parameters" \notin u.slots
  <2>1. Advances(a) = Advances(u)
    BY <1>1, <1>5 DEF Advances, Asked, Slot, WithHandler
  <2>2. ServedTo(u, u.at) => ServedTo(a, a.at)
    BY <1>1, <1>8 DEF ServedTo
  <2>3. u.at # 9 => \A h \in SUBSET StepNames : ~Ordered(u, h)
    <3>. SUFFICES ASSUME u.at # 9, NEW h, Ordered(u, h)
                  PROVE  FALSE
      OBVIOUS
    <3>1. "parameters" = Steps[u.at] /\ u.at \in {1, 2, 3, 4, 5, 6, 7}
      BY <1>2 DEF Ordered
    <3>2. u.at = 4
      BY <3>1, StepNumbers
    <3>. QED  BY <1>8, <3>2, NumbersOfSteps DEF Ordered
  <2>4. Answers(u, a, "parameters")
    BY <1>1, <1>5, <2>1, <2>2, <2>3, RestAnswers
  <2>. QED  BY <1>4, <1>8, <2>4
<1>. QED  BY <1>2, <1>6, <1>7, <1>8

LEMMA LoadAnswers ==
    ASSUME NEW u \in VehicleRecord, VehicleInv(u), NEW e \in Elements, u.job[e] = "load",
           NEW filled \in BOOLEAN
    PROVE  Answers(u, FirstLoadComplete(EndJob(u, e, filled), e), e)
<1>. DEFINE a == EndJob(u, e, filled)
            c == Disconnected(a, e)
<1>1. /\ a \in VehicleRecord /\ a.at = u.at /\ a.link = u.link /\ a.supported = u.supported
      /\ a.asked = u.asked /\ a.slots = u.slots /\ a.job = [u.job EXCEPT ![e] = "none"]
      /\ a.planComplete = u.planComplete /\ a = [a EXCEPT !.at = u.at]
  <2>. DEFINE l == IF filled THEN u.listed \cup {e} ELSE u.listed \ {e}
  <2>1. a = [u EXCEPT !.job[e] = "none", !.listed = l]
    BY DEF EndJob
  <2>2. l \in SUBSET Elements /\ [u.job EXCEPT ![e] = "none"] \in [Elements -> Jobs]
    BY DEF VehicleRecord, Jobs
  <2>. HIDE DEF l
  <2>. QED  BY <2>1, <2>2 DEF VehicleRecord
<1>2. u.at \in 0 .. EndOfSteps /\ (u.at \in 1 .. 7 \/ u.at = 9)
  BY StepNumbers DEF VehicleRecord, VehicleInv
<1>. HIDE DEF a
<1>3. /\ c \in VehicleRecord /\ c.at = u.at /\ c.link = u.link /\ c.supported = u.supported
      /\ c.asked = u.asked /\ c.slots = u.slots \ {e} /\ c.job = a.job
      /\ u.planComplete => c.planComplete
  <2>. DEFINE d == Disconnected([a EXCEPT !.at = u.at], e)
  <2>1. d = c
    BY <1>1
  <2>2. /\ d \in VehicleRecord /\ d.at = u.at /\ d.supported = a.supported /\ d.link = a.link
        /\ d.job = a.job /\ d.slots = a.slots \ {e} /\ d.asked = a.asked
        /\ a.planComplete => d.planComplete
    BY <1>1, <1>2, DisconnectedFields
  <2>. HIDE DEF c, d
  <2>. QED  BY <1>1, <2>1, <2>2
<1>4. FirstLoadComplete(a, e) = IF e \in u.slots THEN Advance(c) ELSE a
  BY <1>1 DEF FirstLoadComplete
<1>. HIDE DEF c
<1>5. e \in StepNames /\ e # "parameters" /\ e \notin WithHandler
  BY StepNumbers DEF StepNames, Elements, WithHandler
<1>6. u.job \in [Elements -> Jobs]
  BY DEF VehicleRecord
<1>7. \A f \in Elements : \/ f # e /\ a.job[f] = u.job[f]
                          \/ f = e /\ a.job[f] = "none"
  BY <1>1, <1>6
<1>8. CASE u.at \in 1 .. 7 /\ e \in u.slots
  <2>1. Advances(c) + 1 >= Advances(u)
    BY <1>3, <1>5 DEF Advances, Asked, Slot, Elements
  <2>3. ServedTo(u, u.at) => ServedTo(c, u.at)
    BY <1>3, <1>7 DEF ServedTo
  <2>4. \A h \in SUBSET StepNames : Ordered(u, h) => e = Steps[u.at]
    BY <1>8, StepNumbersAre DEF Ordered
  <2>5. u.at <= 7 /\ c.asked \subseteq u.asked /\ e \notin c.asked
        /\ u.slots \subseteq c.slots \cup {e}
    BY <1>3, <1>5, <1>8 DEF VehicleRecord
  <2>6. Answers(u, Advance(c), e)
    BY <1>3, <1>5, <1>7, <2>1, <2>3, <2>4, <2>5, Progress
  <2>. QED  BY <1>4, <1>8, <2>6 DEF a
<1>9. CASE u.at = 9 /\ e \in u.slots
  <2>1. Advance(c) = c
    BY <1>3, <1>9 DEF Advance
  <2>2. Answers(u, c, e)
    BY <1>3, <1>5, <1>7, <1>9, RestAnswers
  <2>. QED  BY <1>4, <1>9, <2>1, <2>2 DEF a
<1>10. CASE e \notin u.slots
  <2>1. Advances(a) = Advances(u)
    BY <1>1 DEF Advances, Asked, Slot
  <2>2. ServedTo(u, u.at) => ServedTo(a, a.at)
    BY <1>1, <1>7, <1>10 DEF ServedTo
  <2>3. u.at # 9 => \A h \in SUBSET StepNames : ~Ordered(u, h)
    <3>. SUFFICES ASSUME u.at # 9, NEW h, Ordered(u, h)
                  PROVE  FALSE
      OBVIOUS
    <3>1. u.at < 9
      BY <1>2
    <3>2. u.at = StepOf(e) /\ u.at \in Nat
      BY <1>2, <3>1 DEF Ordered
    <3>3. StepOf(e) >= u.at
      BY <3>2
    <3>. QED  BY <1>10, <3>1, <3>3 DEF Ordered
  <2>4. Answers(u, a, e)
    BY <1>1, <1>5, <1>7, <2>1, <2>2, <2>3, RestAnswers
  <2>. QED  BY <1>4, <1>10, <2>4 DEF a
<1>. QED  BY <1>2, <1>8, <1>9, <1>10

-----------------------------------------------------------------------------
(* What the managers start and end without the machine.                    *)

\* n is u with other jobs, none of the loads of u among those that have gone.
Works(u, n) ==
    /\ n \in VehicleRecord
    /\ n.at = u.at /\ n.asked = u.asked /\ n.slots = u.slots /\ n.link = u.link
    /\ n.supported = u.supported
    /\ \A f \in Elements :
        \/ n.job[f] = u.job[f]
        \/ u.job[f] # "load" /\ (n.job[f] \in {"resume", "guided"} => f = "mission")

NoNewLoad(u, n) == \A f \in Elements : n.job[f] = "load" => u.job[f] = "load"

LEMMA WorksKeeps ==
    ASSUME NEW u \in VehicleRecord, VehicleInv(u), NEW n, Works(u, n)
    PROVE  /\ VehicleInv(n)
           /\ u.at = 9 \/ ServedTo(u, u.at) => n.at = 9 \/ ServedTo(n, n.at)
           /\ u.at = 9 \/ NoNewLoad(u, n) => \A h : Ordered(u, h) => Ordered(n, h)
<1>1. AskedBelow(n, n.at + 1)
  BY DEF Works, VehicleInv, AskedBelow
<1>2. Advances(n) = Advances(u)
  BY DEF Works, Advances, Asked, Slot
<1>3. VehicleInv(n)
  BY <1>1, <1>2 DEF Works, VehicleInv
<1>4. ServedTo(u, u.at) => ServedTo(n, n.at)
  BY DEF Works, ServedTo
<1>5. ASSUME u.at = 9 \/ NoNewLoad(u, n), NEW h, Ordered(u, h)
      PROVE  Ordered(n, h)
  <2>1. \A i \in 1 .. 8 : i < n.at =>
            Steps[i] \in h \cup ({"fence", "rally"} \ n.supported) \cup {"SignalComplete"}
    BY <1>5 DEF Works, Ordered
  <2>2. CASE u.at = 9
    BY <2>1, <2>2 DEF Works, Ordered
  <2>3. CASE NoNewLoad(u, n)
    <3>1. \A e \in Elements : n.job[e] = "load" => u.job[e] = "load"
      BY <2>3 DEF NoNewLoad
    <3>. QED  BY <1>5, <2>1, <3>1 DEF Works, Ordered
  <2>. QED  BY <1>5, <2>2, <2>3
<1>6. u.at = 9 \/ ServedTo(u, u.at) => n.at = 9 \/ ServedTo(n, n.at)
  BY <1>4 DEF Works
<1>. QED  BY <1>3, <1>5, <1>6

LEMMA WorksIsReflexive ==
    ASSUME NEW u \in VehicleRecord
    PROVE  Works(u, u)
<1>. QED  BY DEF Works

LEMMA WorksIsTransitive ==
    ASSUME NEW u, NEW m, NEW n, Works(u, m), Works(m, n)
    PROVE  Works(u, n)
<1>1. ASSUME NEW f \in Elements
      PROVE  \/ n.job[f] = u.job[f]
             \/ u.job[f] # "load" /\ (n.job[f] \in {"resume", "guided"} => f = "mission")
  BY DEF Works
<1>. QED  BY <1>1 DEF Works

LEMMA JobStarts ==
    ASSUME NEW u \in VehicleRecord, NEW e \in Elements, NEW what \in Jobs \ {"none"},
           what \in {"resume", "guided"} => e = "mission"
    PROVE  LET n == StartJob(u, e, what)
           IN  /\ Works(u, n)
               /\ n.planComplete = u.planComplete
               /\ n.job = IF u.job[e] = "none" THEN [u.job EXCEPT ![e] = what] ELSE u.job
<1>. DEFINE n == StartJob(u, e, what)
            j == [u.job EXCEPT ![e] = what]
            l == u.listed \ {e}
<1>1. u.job \in [Elements -> Jobs] /\ u.listed \in SUBSET Elements
  BY DEF VehicleRecord
<1>2. CASE u.job[e] = "none"
  <2>1. n = [u EXCEPT !.job = j, !.listed = IF what = "remove" THEN l ELSE u.listed]
    BY <1>2 DEF StartJob, Idle, VehicleRecord
  <2>2. j \in [Elements -> Jobs] /\ l \in SUBSET Elements
    BY <1>1
  <2>3. \A f \in Elements : j[f] = IF f = e THEN what ELSE u.job[f]
    BY <1>1
  <2>. HIDE DEF j, l, n
  <2>4. /\ n \in VehicleRecord
        /\ n.at = u.at /\ n.asked = u.asked /\ n.slots = u.slots /\ n.link = u.link
        /\ n.supported = u.supported /\ n.planComplete = u.planComplete /\ n.job = j
    BY <2>1, <2>2 DEF VehicleRecord
  <2>5. Works(u, n)
    BY <1>2, <2>3, <2>4 DEF Works
  <2>. QED  BY <1>2, <2>4, <2>5 DEF n, j
<1>3. CASE u.job[e] # "none"
  <2>1. n = u
    BY <1>3 DEF StartJob, Idle
  <2>. QED  BY <1>3, <2>1, WorksIsReflexive
<1>. QED  BY <1>2, <1>3

LEMMA JobEnds ==
    ASSUME NEW u \in VehicleRecord, NEW e \in Elements, NEW filled \in BOOLEAN,
           u.job[e] # "load"
    PROVE  LET n == EndJob(u, e, filled)
           IN  /\ Works(u, n) /\ NoNewLoad(u, n)
               /\ n.planComplete = u.planComplete
               /\ n.job = [u.job EXCEPT ![e] = "none"]
<1>. DEFINE l == IF filled THEN u.listed \cup {e} ELSE u.listed \ {e}
            j == [u.job EXCEPT ![e] = "none"]
            n == EndJob(u, e, filled)
<1>1. n = [u EXCEPT !.job = j, !.listed = l]
  BY DEF EndJob, VehicleRecord
<1>2. l \in SUBSET Elements /\ j \in [Elements -> Jobs]
  BY DEF VehicleRecord, Jobs
<1>3. \A f \in Elements : j[f] = IF f = e THEN "none" ELSE u.job[f]
  BY DEF VehicleRecord
<1>. HIDE DEF l, j, n
<1>4. /\ n \in VehicleRecord
      /\ n.at = u.at /\ n.asked = u.asked /\ n.slots = u.slots /\ n.link = u.link
      /\ n.supported = u.supported /\ n.planComplete = u.planComplete /\ n.job = j
  BY <1>1, <1>2 DEF VehicleRecord
<1>5. Works(u, n) /\ NoNewLoad(u, n)
  BY <1>3, <1>4 DEF Works, NoNewLoad
<1>. QED  BY <1>4, <1>5 DEF n, j

-----------------------------------------------------------------------------
(* The Plan view's operators, one by one.                                  *)

World == [car : [Vehicles -> VehicleRecord], plan : PlanRecord]

\* Only the Plan view has changed, on the same vehicle.
Viewed(w, n) == n \in World /\ n.car = w.car /\ n.plan.vehicle = w.plan.vehicle

\* The vehicle of the Plan view has changed jobs, no other has.
Framed(w, n) ==
    /\ n \in World /\ n.plan.vehicle = w.plan.vehicle
    /\ \A v \in Vehicles : Works(w.car[v], n.car[v])
    /\ \A v \in Vehicles : v # w.plan.vehicle => n.car[v] = w.car[v]

Mine == {"user", "saved"}

\* What the user has put on view of element e is still there.
Keeps(w, n, e) == w.plan.view[e] \in Mine => n.plan.view[e] \in Mine

LEMMA WorldFields ==
    ASSUME NEW w \in World
    PROVE  /\ w.car \in [Vehicles -> VehicleRecord] /\ w.plan \in PlanRecord
           /\ w.plan.vehicle \in Vehicles \cup {Offline} /\ w.plan.flags \in SUBSET Flags
           /\ w.plan.requested \in SUBSET Elements /\ w.plan.view \in [Elements -> Origins]
           /\ w.plan.prompt \in BOOLEAN
<1>1. w.car \in [Vehicles -> VehicleRecord] /\ w.plan \in PlanRecord
  BY DEF World
<1>. QED  BY <1>1 DEF PlanRecord

LEMMA ViewedIsFramed ==
    ASSUME NEW w \in World, NEW n, Viewed(w, n)
    PROVE  Framed(w, n)
<1>1. \A v \in Vehicles : w.car[v] \in VehicleRecord
  BY DEF World
<1>. QED  BY <1>1, WorksIsReflexive DEF Viewed, Framed

LEMMA FramedIsTransitive ==
    ASSUME NEW w, NEW m, NEW n, Framed(w, m), Framed(m, n)
    PROVE  Framed(w, n)
<1>1. \A v \in Vehicles : Works(w.car[v], n.car[v])
  BY WorksIsTransitive DEF Framed
<1>2. \A v \in Vehicles : v # w.plan.vehicle => n.car[v] = w.car[v]
  BY DEF Framed
<1>. QED  BY <1>1, <1>2 DEF Framed

LEMMA FlagSets ==
    ASSUME NEW w \in World, NEW f \in Flags
    PROVE  LET n == SetFlag(w, f)
           IN  /\ Viewed(w, n) /\ n.plan.flags = w.plan.flags \cup {f}
               /\ n.plan.requested = w.plan.requested /\ n.plan.view = w.plan.view
<1>. QED  BY DEF SetFlag, World, PlanRecord, Viewed

LEMMA FlagClears ==
    ASSUME NEW w \in World, NEW f \in Flags
    PROVE  LET n == ClearFlag(w, f)
           IN  /\ Viewed(w, n) /\ n.plan.flags = w.plan.flags \ {f}
               /\ n.plan.requested = w.plan.requested /\ n.plan.view = w.plan.view
<1>. QED  BY DEF ClearFlag, World, PlanRecord, Viewed

LEMMA Cleans ==
    ASSUME NEW w \in World
    PROVE  LET n == SetClean(w)
           IN  /\ Viewed(w, n) /\ n.plan.flags = w.plan.flags
               /\ n.plan.requested = w.plan.requested
               /\ \A e \in Elements : Keeps(w, n, e)
<1>. DEFINE view == [e \in Elements |-> IF w.plan.view[e] = "user" THEN "saved" ELSE w.plan.view[e]]
            n == SetClean(w)
<1>1. view \in [Elements -> Origins]
  BY DEF World, PlanRecord, Origins
<1>2. \A e \in Elements : w.plan.view[e] \in Mine => view[e] \in Mine
  BY DEF Mine
<1>3. n = [w EXCEPT !.plan.view = view]
  BY DEF SetClean
<1>. HIDE DEF view, n
<1>4. n.plan.view = view /\ Viewed(w, n) /\ n.plan.flags = w.plan.flags
      /\ n.plan.requested = w.plan.requested
  BY <1>1, <1>3 DEF World, PlanRecord, Viewed
<1>5. \A e \in Elements : Keeps(w, n, e)
  BY <1>2, <1>4 DEF Keeps
<1>. QED  BY <1>4, <1>5 DEF n

LEMMA Empties ==
    ASSUME NEW w \in World, NEW elements
    PROVE  LET n == Emptied(w, elements)
           IN  /\ Viewed(w, n) /\ n.plan.flags = w.plan.flags
               /\ n.plan.requested = w.plan.requested
               /\ \A e \in Elements \ elements : Keeps(w, n, e)
<1>. DEFINE view == [e \in Elements |-> IF e \in elements THEN "empty" ELSE w.plan.view[e]]
            n == Emptied(w, elements)
<1>1. view \in [Elements -> Origins]
  BY DEF World, PlanRecord, Origins
<1>2. \A e \in Elements \ elements : view[e] = w.plan.view[e]
  OBVIOUS
<1>3. n = [w EXCEPT !.plan.view = view]
  BY DEF Emptied
<1>. HIDE DEF view, n
<1>4. n.plan.view = view /\ Viewed(w, n) /\ n.plan.flags = w.plan.flags
      /\ n.plan.requested = w.plan.requested
  BY <1>1, <1>3 DEF World, PlanRecord, Viewed
<1>5. \A e \in Elements \ elements : Keeps(w, n, e)
  BY <1>2, <1>4 DEF Keeps
<1>. QED  BY <1>4, <1>5 DEF n

\* The jobs that differ are loads, sends or whatever `what` says of elements in S, begun on the
\* vehicle of the Plan view where its managers were idle.
Starts(w, n, what, S) ==
    \A v \in Vehicles, f \in Elements :
        \/ n.car[v].job[f] = w.car[v].job[f]
        \/ /\ v = w.plan.vehicle /\ f \in S
           /\ f = "mission" \/ f \in w.car[v].supported
           /\ w.car[v].job[f] = "none" /\ n.car[v].job[f] = what

LEMMA StartsNothing ==
    ASSUME NEW w, NEW n, n.car = w.car, NEW what, NEW S
    PROVE  Starts(w, n, what, S)
<1>. QED  BY DEF Starts

\* n is w with p as its Plan view and a job handed to the manager of e.
StartedWith(w, e, what, p, n) ==
    LET cars == [w.car EXCEPT ![w.plan.vehicle] = StartJob(w.car[w.plan.vehicle], e, what)]
    IN  n = [car |-> cars, plan |-> p]

\* A controller that can starts a job at the manager of its element.
LEMMA CarStarts ==
    ASSUME NEW w \in World, NEW e \in Elements, CanSync(w, e),
           NEW what \in {"load", "send", "remove"},
           e = "mission" \/ Supports(w, e),
           NEW p \in PlanRecord, p.vehicle = w.plan.vehicle,
           NEW n, StartedWith(w, e, what, p, n)
    PROVE  /\ Framed(w, n) /\ w.plan.vehicle \in Vehicles
           /\ Starts(w, n, what, {e})
           /\ n.car[w.plan.vehicle].job[e] = what
<1>. DEFINE a == w.plan.vehicle
            u == w.car[a]
            m == StartJob(u, e, what)
            cars == [w.car EXCEPT ![a] = m]
<1>1. a \in Vehicles /\ w.car \in [Vehicles -> VehicleRecord] /\ u \in VehicleRecord
      /\ u.job[e] = "none"
  BY WorldFields DEF CanSync, IsOffline, Busy, Idle
<1>2. /\ Works(u, m)
      /\ m.job = [u.job EXCEPT ![e] = what]
  <2>1. what \in Jobs \ {"none"} /\ ~(what \in {"resume", "guided"})
    BY DEF Jobs
  <2>. HIDE DEF u, a
  <2>. QED  BY <1>1, <2>1, JobStarts
<1>3. m \in VehicleRecord
  BY <1>2 DEF Works
<1>4. u.job \in [Elements -> Jobs]
  BY <1>1 DEF VehicleRecord
<1>5. n = [car |-> cars, plan |-> p]
  BY DEF StartedWith
<1>. HIDE DEF m
<1>6. cars \in [Vehicles -> VehicleRecord] /\ cars[a] = m
      /\ \A v \in Vehicles : v # a => cars[v] = w.car[v]
  BY <1>1, <1>3
<1>. HIDE DEF u, a, cars
<1>7. n \in World /\ n.plan = p /\ n.car = cars
  <2>1. [car |-> cars, plan |-> p] \in World
    BY <1>6 DEF World
  <2>. QED  BY <1>5, <2>1
<1>8. \A v \in Vehicles : Works(w.car[v], n.car[v])
  <2>1. ASSUME NEW v \in Vehicles
        PROVE  Works(w.car[v], n.car[v])
    <3>1. CASE v = a
      BY <1>2, <1>6, <1>7, <3>1 DEF u
    <3>2. CASE v # a
      BY <1>1, <1>6, <1>7, <3>2, WorksIsReflexive
    <3>. QED  BY <3>1, <3>2
  <2>. QED  BY <2>1
<1>9. Framed(w, n)
  BY <1>6, <1>7, <1>8 DEF Framed, a
<1>10. Starts(w, n, what, {e})
  <2>1. ASSUME NEW v \in Vehicles, NEW f \in Elements, n.car[v].job[f] # w.car[v].job[f]
        PROVE  /\ v = a /\ f = e
               /\ w.car[v].job[f] = "none" /\ n.car[v].job[f] = what
    <3>1. v = a
      BY <1>6, <1>7, <2>1
    <3>2. f = e
      BY <1>2, <1>4, <1>6, <1>7, <2>1, <3>1 DEF u
    <3>. QED  BY <1>1, <1>2, <1>4, <1>6, <1>7, <3>1, <3>2 DEF u
  <2>2. e = "mission" \/ e \in u.supported
    BY DEF Supports, a, u
  <2>. QED  BY <2>1, <2>2 DEF Starts, a, u
<1>11. n.car[a].job[e] = what
  BY <1>2, <1>4, <1>6, <1>7
<1>. QED  BY <1>1, <1>7, <1>9, <1>10, <1>11 DEF a

LEMMA ControllerLoads ==
    ASSUME NEW w \in World, NEW e \in Elements, e = "mission" \/ Supports(w, e)
    PROVE  LET n == ControllerLoad(w, e)
           IN  /\ Framed(w, n) /\ n.plan.flags = w.plan.flags /\ n.plan.view = w.plan.view
               /\ n.plan.requested \in {w.plan.requested, w.plan.requested \cup {e}}
               /\ Starts(w, n, "load", {e})
               /\ CanSync(w, e) => n.car[w.plan.vehicle].job[e] = "load"
<1>. DEFINE n == ControllerLoad(w, e)
            p == [w.plan EXCEPT !.requested = @ \cup {e}]
<1>1. CASE CanSync(w, e)
  <2>1. StartedWith(w, e, "load", p, n) /\ n.plan = p
    BY <1>1 DEF StartedWith, ControllerLoad, World
  <2>2. p \in PlanRecord /\ p.vehicle = w.plan.vehicle /\ p.flags = w.plan.flags
        /\ p.view = w.plan.view /\ p.requested = w.plan.requested \cup {e}
    BY DEF World, PlanRecord
  <2>9. "load" \in {"load", "send", "remove"}
    OBVIOUS
  <2>. HIDE DEF p, n
  <2>3. /\ Framed(w, n) /\ n.plan = p /\ Starts(w, n, "load", {e})
        /\ n.car[w.plan.vehicle].job[e] = "load"
    BY <1>1, <2>1, <2>2, <2>9, CarStarts
  <2>. QED  BY <2>2, <2>3 DEF n
<1>2. CASE ~CanSync(w, e)
  <2>1. n = w
    BY <1>2 DEF ControllerLoad
  <2>2. Framed(w, w)
    BY ViewedIsFramed DEF Viewed
  <2>. QED  BY <1>2, <2>1, <2>2, StartsNothing
<1>. QED  BY <1>1, <1>2

LEMMA ControllerSends ==
    ASSUME NEW w \in World, NEW e \in Elements, e = "mission" \/ Supports(w, e)
    PROVE  LET n == ControllerSend(w, e)
           IN  /\ Framed(w, n) /\ n.plan.flags = w.plan.flags
               /\ n.plan.requested = w.plan.requested
               /\ Starts(w, n, "send", {e})
               /\ CanSync(w, e) => n.car[w.plan.vehicle].job[e] = "send"
<1>. DEFINE n == ControllerSend(w, e)
            view == [w.plan.view EXCEPT ![e] = IF @ = "user" THEN "saved" ELSE @]
            p == [w.plan EXCEPT !.view = view]
<1>1. CASE CanSync(w, e)
  <2>1. StartedWith(w, e, "send", p, n) /\ n.plan = p
    BY <1>1 DEF StartedWith, ControllerSend, World, PlanRecord
  <2>2. view \in [Elements -> Origins]
    BY DEF World, PlanRecord, Origins
  <2>. HIDE DEF view
  <2>3. p \in PlanRecord /\ p.vehicle = w.plan.vehicle /\ p.flags = w.plan.flags
        /\ p.requested = w.plan.requested
    BY <2>2 DEF World, PlanRecord
  <2>9. "send" \in {"load", "send", "remove"}
    OBVIOUS
  <2>. HIDE DEF p, n
  <2>4. /\ Framed(w, n) /\ n.plan = p /\ Starts(w, n, "send", {e})
        /\ n.car[w.plan.vehicle].job[e] = "send"
    BY <1>1, <2>1, <2>3, <2>9, CarStarts
  <2>. QED  BY <2>3, <2>4 DEF n
<1>2. CASE ~CanSync(w, e)
  <2>1. n = w
    BY <1>2 DEF ControllerSend
  <2>2. Framed(w, w)
    BY ViewedIsFramed DEF Viewed
  <2>. QED  BY <1>2, <2>1, <2>2, StartsNothing
<1>. QED  BY <1>1, <1>2

LEMMA ControllerRemoves ==
    ASSUME NEW w \in World, NEW e \in Elements, e = "mission" \/ Supports(w, e)
    PROVE  LET n == ControllerRemoveAllFromVehicle(w, e)
           IN  Framed(w, n) /\ n.plan.flags = w.plan.flags /\ Starts(w, n, "remove", {e})
<1>. DEFINE n == ControllerRemoveAllFromVehicle(w, e)
            p == [w.plan EXCEPT !.requested = IF e = "mission" THEN @ \cup {e} ELSE @]
<1>1. CASE CanSync(w, e)
  <2>1. StartedWith(w, e, "remove", p, n) /\ n.plan = p
    BY <1>1 DEF StartedWith, ControllerRemoveAllFromVehicle, World, PlanRecord
  <2>2. p \in PlanRecord /\ p.vehicle = w.plan.vehicle /\ p.flags = w.plan.flags
    BY DEF World, PlanRecord
  <2>9. "remove" \in {"load", "send", "remove"}
    OBVIOUS
  <2>. HIDE DEF p, n
  <2>3. Framed(w, n) /\ n.plan = p /\ Starts(w, n, "remove", {e})
    BY <1>1, <2>1, <2>2, <2>9, CarStarts
  <2>. QED  BY <2>2, <2>3 DEF n
<1>2. CASE ~CanSync(w, e)
  <2>1. n = w
    BY <1>2 DEF ControllerRemoveAllFromVehicle
  <2>2. Framed(w, w)
    BY ViewedIsFramed DEF Viewed
  <2>. QED  BY <2>1, <2>2, StartsNothing
<1>. QED  BY <1>1, <1>2

\* The items of an element are replaced on request, or where there were none.
LEMMA ItemsTaken ==
    ASSUME NEW w \in World, NEW e \in Elements, w.plan.vehicle \in Vehicles
    PROVE  LET n == TakeItems(w, e)
           IN  /\ Viewed(w, n) /\ n.plan.flags = w.plan.flags
               /\ n.plan.requested = w.plan.requested \ {e}
               /\ e \notin w.plan.requested => Keeps(w, n, e)
<1>. DEFINE n == TakeItems(w, e)
            taken == e \in w.plan.requested \/ w.plan.view[e] = "empty"
            from == IF e \in Listed(w) THEN w.plan.vehicle ELSE "empty"
            view == IF taken THEN [w.plan.view EXCEPT ![e] = from] ELSE w.plan.view
<1>1. n = [w EXCEPT !.plan.view = view, !.plan.requested = @ \ {e}]
  <2>1. CASE taken
    BY <2>1 DEF TakeItems, World, PlanRecord
  <2>2. CASE ~taken
    BY <2>2 DEF TakeItems, World, PlanRecord
  <2>. QED  BY <2>1, <2>2
<1>2. from \in Origins
  BY DEF Origins
<1>3. w.plan.view \in [Elements -> Origins]
  BY WorldFields
<1>. HIDE DEF from
<1>4. view \in [Elements -> Origins]
  BY <1>2, <1>3
<1>5. e \notin w.plan.requested => (w.plan.view[e] \in Mine => view[e] \in Mine)
  BY DEF Mine
<1>. HIDE DEF view, n, taken
<1>6. Viewed(w, n) /\ n.plan.flags = w.plan.flags /\ n.plan.requested = w.plan.requested \ {e}
      /\ n.plan.view = view
  BY <1>1, <1>4 DEF World, PlanRecord, Viewed
<1>. QED  BY <1>5, <1>6 DEF Keeps, n

LEMMA ElementShown ==
    ASSUME NEW w \in World, NEW e \in Elements, w.plan.vehicle \in Vehicles
    PROVE  LET n == ShowElement(w, e)
           IN  /\ Viewed(w, n) /\ n.plan.flags = w.plan.flags
               /\ n.plan.requested \subseteq w.plan.requested \cup {"fence"}
<1>. DEFINE n == ShowElement(w, e)
            r == [w EXCEPT !.plan.requested = @ \cup {e}]
<1>1. /\ Viewed(w, r) /\ r.plan.flags = w.plan.flags
      /\ r.plan.requested = w.plan.requested \cup {e}
  BY DEF World, PlanRecord, Viewed
<1>2. CASE Waits(w, e)
  <2>1. n = IF e = "fence" THEN r ELSE w
    BY <1>2 DEF ShowElement, Noted
  <2>2. Viewed(w, w)
    BY DEF Viewed
  <2>. HIDE DEF r
  <2>. QED  BY <1>1, <2>1, <2>2
<1>3. CASE ~Waits(w, e)
  <2>1. n = TakeItems(r, e)
    BY <1>3 DEF ShowElement
  <2>. HIDE DEF r, n
  <2>2. r \in World /\ r.plan.vehicle \in Vehicles
    BY <1>1 DEF Viewed
  <2>3. /\ Viewed(r, n) /\ n.plan.flags = r.plan.flags
        /\ n.plan.requested = r.plan.requested \ {e}
    BY <2>1, <2>2, ItemsTaken
  <2>4. Viewed(w, n)
    BY <1>1, <2>3 DEF Viewed
  <2>. QED  BY <1>1, <2>3, <2>4 DEF n
<1>. QED  BY <1>2, <1>3

LEMMA StartsAfterView ==
    ASSUME NEW w, NEW m, Viewed(w, m), NEW n, NEW what, NEW S
    PROVE  /\ \A e : CanSync(m, e) <=> CanSync(w, e)
           /\ \A e : Supports(m, e) <=> Supports(w, e)
           /\ \A e : Busy(m, e) <=> Busy(w, e)
           /\ Starts(m, n, what, S) => Starts(w, n, what, S)
<1>. QED  BY DEF Viewed, CanSync, Supports, IsOffline, Busy, Idle, Starts

LEMMA ViewAfterStarts ==
    ASSUME NEW w, NEW m, NEW n, Viewed(m, n), NEW what, NEW S, Starts(w, m, what, S)
    PROVE  Starts(w, n, what, S)
<1>. QED  BY DEF Viewed, Starts

\* The flags are one set, the requests only grow.
LEMMA GeoFenceLoadCompletes ==
    ASSUME NEW w \in World
    PROVE  LET n == LoadGeoFenceComplete(w)
           IN  /\ Framed(w, n)
               /\ n.plan.flags = w.plan.flags \ {"loadRallyPoints"}
               /\ w.plan.requested \subseteq n.plan.requested
               /\ n.plan.requested \subseteq w.plan.requested \cup {"rally"}
               /\ Starts(w, n, "load", {"rally"})
               /\ "loadRallyPoints" \notin w.plan.flags => n = w
               /\ Keeps(w, n, "mission") /\ Keeps(w, n, "fence")
<1>. DEFINE n == LoadGeoFenceComplete(w)
            next == ClearFlag(w, "loadRallyPoints")
            done == IF Supports(w, "rally") THEN ControllerLoad(next, "rally")
                    ELSE Emptied(next, {"rally"})
<1>1. CASE "loadRallyPoints" \notin w.plan.flags
  <2>1. n = w
    BY <1>1 DEF LoadGeoFenceComplete
  <2>2. Viewed(w, w)
    BY DEF Viewed
  <2>3. w.plan.flags = w.plan.flags \ {"loadRallyPoints"}
    BY <1>1, WorldFields
  <2>. QED  BY <1>1, <2>1, <2>2, <2>3, ViewedIsFramed, StartsNothing DEF Keeps
<1>2. CASE "loadRallyPoints" \in w.plan.flags
  <2>1. n = SetClean(done)
    BY <1>2 DEF LoadGeoFenceComplete
  <2>2. "loadRallyPoints" \in Flags /\ "rally" \in Elements /\ "mission" \in Elements \ {"rally"}
        /\ "fence" \in Elements \ {"rally"}
    BY DEF Flags, Elements
  <2>3. /\ Viewed(w, next) /\ next.plan.flags = w.plan.flags \ {"loadRallyPoints"}
        /\ next.plan.requested = w.plan.requested /\ next.plan.view = w.plan.view
    BY <2>2, FlagClears
  <2>. HIDE DEF n, next
  <2>4. /\ Framed(next, done) /\ done.plan.flags = next.plan.flags
        /\ next.plan.requested \subseteq done.plan.requested
        /\ done.plan.requested \subseteq next.plan.requested \cup {"rally"}
        /\ Starts(next, done, "load", {"rally"})
        /\ Keeps(next, done, "mission") /\ Keeps(next, done, "fence")
    <3>1. next \in World
      BY <2>3 DEF Viewed
    <3>2. CASE Supports(w, "rally")
      <4>1. done = ControllerLoad(next, "rally") /\ Supports(next, "rally")
        BY <2>3, <3>2, StartsAfterView
      <4>. HIDE DEF done
      <4>2. /\ Framed(next, done) /\ done.plan.flags = next.plan.flags
            /\ done.plan.view = next.plan.view
            /\ done.plan.requested \in {next.plan.requested, next.plan.requested \cup {"rally"}}
            /\ Starts(next, done, "load", {"rally"})
        BY <2>2, <3>1, <4>1, ControllerLoads
      <4>. QED  BY <4>2 DEF Keeps
    <3>3. CASE ~Supports(w, "rally")
      <4>1. done = Emptied(next, {"rally"})
        BY <3>3
      <4>. HIDE DEF done
      <4>2. /\ Viewed(next, done) /\ done.plan.flags = next.plan.flags
            /\ done.plan.requested = next.plan.requested
            /\ Keeps(next, done, "mission") /\ Keeps(next, done, "fence")
        BY <2>2, <3>1, <4>1, Empties
      <4>3. Starts(next, done, "load", {"rally"})
        BY <4>2, StartsNothing DEF Viewed
      <4>. QED  BY <3>1, <4>2, <4>3, ViewedIsFramed
    <3>. QED  BY <3>2, <3>3
  <2>. HIDE DEF done
  <2>5. /\ Viewed(done, n) /\ n.plan.flags = done.plan.flags
        /\ n.plan.requested = done.plan.requested
        /\ \A e \in Elements : Keeps(done, n, e)
    BY <2>1, <2>4, Cleans DEF Framed
  <2>6. Framed(w, n)
    <3>1. Framed(w, next) /\ Framed(done, n)
      BY <2>3, <2>4, <2>5, ViewedIsFramed DEF Framed
    <3>. QED  BY <2>4, <3>1, FramedIsTransitive
  <2>7. Starts(w, n, "load", {"rally"})
    BY <2>3, <2>4, <2>5, StartsAfterView, ViewAfterStarts
  <2>8. Keeps(w, n, "mission") /\ Keeps(w, n, "fence")
    BY <2>2, <2>3, <2>4, <2>5 DEF Keeps
  <2>. QED  BY <1>2, <2>3, <2>4, <2>5, <2>6, <2>7, <2>8 DEF n
<1>. QED  BY <1>1, <1>2

LEMMA MissionLoadCompletes ==
    ASSUME NEW w \in World
    PROVE  LET n == LoadMissionComplete(w)
           IN  /\ Framed(w, n)
               /\ n.plan.flags \subseteq (w.plan.flags \ {"loadGeoFence"}) \cup {"loadRallyPoints"}
               /\ w.plan.flags \ {"loadGeoFence", "loadRallyPoints"} \subseteq n.plan.flags
               /\ w.plan.requested \subseteq n.plan.requested
               /\ n.plan.requested \subseteq w.plan.requested \cup {"fence", "rally"}
               /\ Starts(w, n, "load", IF Supports(w, "fence") THEN {"fence"} ELSE {"rally"})
               /\ "loadGeoFence" \notin w.plan.flags => n = w
               /\ "loadGeoFence" \in w.plan.flags /\ "loadRallyPoints" \in n.plan.flags =>
                    /\ Supports(w, "fence")
                    /\ CanSync(w, "fence") => n.car[w.plan.vehicle].job["fence"] = "load"
               /\ Keeps(w, n, "mission")
<1>. DEFINE n == LoadMissionComplete(w)
            clear == ClearFlag(w, "loadGeoFence")
            next == SetFlag(clear, "loadRallyPoints")
            done == IF Supports(w, "fence") THEN ControllerLoad(next, "fence")
                    ELSE LoadGeoFenceComplete(Emptied(next, {"fence"}))
            S == IF Supports(w, "fence") THEN {"fence"} ELSE {"rally"}
<1>1. CASE "loadGeoFence" \notin w.plan.flags
  <2>1. n = w
    BY <1>1 DEF LoadMissionComplete
  <2>2. Viewed(w, w)
    BY DEF Viewed
  <2>. QED  BY <1>1, <2>1, <2>2, ViewedIsFramed, StartsNothing DEF Keeps
<1>2. CASE "loadGeoFence" \in w.plan.flags
  <2>1. n = SetClean(done)
    BY <1>2 DEF LoadMissionComplete
  <2>2. "loadRallyPoints" \in Flags /\ "loadGeoFence" \in Flags /\ "fence" \in Elements
        /\ "mission" \in Elements \ {"fence"} /\ "mission" \in Elements
    BY DEF Flags, Elements
  <2>3. /\ Viewed(w, clear) /\ clear.plan.flags = w.plan.flags \ {"loadGeoFence"}
        /\ clear.plan.requested = w.plan.requested /\ clear.plan.view = w.plan.view
    BY <2>2, FlagClears
  <2>. HIDE DEF n, clear
  <2>4. /\ Viewed(clear, next) /\ next.plan.flags = clear.plan.flags \cup {"loadRallyPoints"}
        /\ next.plan.requested = clear.plan.requested /\ next.plan.view = clear.plan.view
    BY <2>2, <2>3, FlagSets DEF Viewed
  <2>5. Viewed(w, next)
    BY <2>3, <2>4 DEF Viewed
  <2>. HIDE DEF next
  <2>6. next \in World
    BY <2>5 DEF Viewed
  <2>7. /\ Framed(next, done)
        /\ done.plan.flags \subseteq next.plan.flags
        /\ next.plan.flags \ {"loadRallyPoints"} \subseteq done.plan.flags
        /\ next.plan.requested \subseteq done.plan.requested
        /\ done.plan.requested \subseteq next.plan.requested \cup {"fence", "rally"}
        /\ Starts(next, done, "load", S)
        /\ "loadRallyPoints" \in done.plan.flags =>
             /\ Supports(w, "fence")
             /\ CanSync(w, "fence") => done.car[w.plan.vehicle].job["fence"] = "load"
        /\ Keeps(next, done, "mission")
    <3>1. CASE Supports(w, "fence")
      <4>1. done = ControllerLoad(next, "fence") /\ Supports(next, "fence") /\ S = {"fence"}
        BY <2>5, <3>1, StartsAfterView
      <4>. HIDE DEF done, S
      <4>2. /\ Framed(next, done) /\ done.plan.flags = next.plan.flags
            /\ done.plan.view = next.plan.view
            /\ done.plan.requested \in {next.plan.requested, next.plan.requested \cup {"fence"}}
            /\ Starts(next, done, "load", {"fence"})
            /\ CanSync(next, "fence") => done.car[next.plan.vehicle].job["fence"] = "load"
        BY <2>2, <2>6, <4>1, ControllerLoads
      <4>3. Starts(next, done, "load", S)
        BY <4>1, <4>2
      <4>4. CanSync(w, "fence") => done.car[w.plan.vehicle].job["fence"] = "load"
        BY <2>5, <4>2, StartsAfterView DEF Viewed
      <4>. QED  BY <3>1, <4>2, <4>3, <4>4 DEF Keeps
    <3>2. CASE ~Supports(w, "fence")
      <4>. DEFINE gone == Emptied(next, {"fence"})
      <4>1. done = LoadGeoFenceComplete(gone) /\ S = {"rally"}
        BY <3>2
      <4>2. /\ Viewed(next, gone) /\ gone.plan.flags = next.plan.flags
            /\ gone.plan.requested = next.plan.requested
            /\ Keeps(next, gone, "mission")
        BY <2>2, <2>6, Empties
      <4>. HIDE DEF done, gone, S
      <4>3. gone \in World
        BY <4>2 DEF Viewed
      <4>4. /\ Framed(gone, done)
            /\ done.plan.flags = gone.plan.flags \ {"loadRallyPoints"}
            /\ gone.plan.requested \subseteq done.plan.requested
            /\ done.plan.requested \subseteq gone.plan.requested \cup {"rally"}
            /\ Starts(gone, done, "load", {"rally"})
            /\ Keeps(gone, done, "mission")
        BY <4>1, <4>3, GeoFenceLoadCompletes
      <4>5. Framed(next, done)
        BY <2>6, <4>2, <4>4, ViewedIsFramed, FramedIsTransitive
      <4>6. Starts(next, done, "load", S)
        <5>1. Starts(next, done, "load", {"rally"})
          BY <4>2, <4>4, StartsAfterView
        <5>. QED  BY <4>1, <5>1
      <4>. QED  BY <4>2, <4>4, <4>5, <4>6 DEF Keeps
    <3>. QED  BY <3>1, <3>2
  <2>. HIDE DEF done
  <2>8. /\ Viewed(done, n) /\ n.plan.flags = done.plan.flags
        /\ n.plan.requested = done.plan.requested
        /\ \A e \in Elements : Keeps(done, n, e)
    BY <2>1, <2>7, Cleans DEF Framed
  <2>9. Framed(w, n)
    <3>1. Framed(w, next) /\ Framed(done, n)
      BY <2>5, <2>7, <2>8, ViewedIsFramed DEF Framed
    <3>. QED  BY <2>7, <3>1, FramedIsTransitive
  <2>. HIDE DEF S
  <2>10. Starts(w, n, "load", S)
    BY <2>5, <2>7, <2>8, StartsAfterView, ViewAfterStarts
  <2>11. Keeps(w, n, "mission")
    BY <2>2, <2>3, <2>4, <2>7, <2>8 DEF Keeps
  <2>12. n.car = done.car
    BY <2>8 DEF Viewed
  <2>. QED  BY <1>2, <2>3, <2>4, <2>7, <2>8, <2>9, <2>10, <2>11, <2>12 DEF n, S
<1>. QED  BY <1>1, <1>2

LEMMA GeoFenceSendCompletes ==
    ASSUME NEW w \in World
    PROVE  LET n == SendGeoFenceComplete(w)
           IN  /\ Framed(w, n)
               /\ n.plan.flags = w.plan.flags \ {"sendRallyPoints"}
               /\ n.plan.requested = w.plan.requested
               /\ Starts(w, n, "send", {"rally"})
               /\ "sendRallyPoints" \notin w.plan.flags => n = w
<1>. DEFINE n == SendGeoFenceComplete(w)
            next == ClearFlag(w, "sendRallyPoints")
<1>0. Framed(w, w)
  BY ViewedIsFramed DEF Viewed
<1>1. CASE "sendRallyPoints" \notin w.plan.flags
  <2>1. n = w
    BY <1>1 DEF SendGeoFenceComplete
  <2>2. w.plan.flags = w.plan.flags \ {"sendRallyPoints"}
    BY <1>1, WorldFields
  <2>. QED  BY <1>0, <1>1, <2>1, <2>2, StartsNothing
<1>2. CASE "sendRallyPoints" \in w.plan.flags
  <2>1. n = IF Supports(w, "rally") THEN ControllerSend(next, "rally") ELSE next
    BY <1>2 DEF SendGeoFenceComplete
  <2>2. "sendRallyPoints" \in Flags /\ "rally" \in Elements
    BY DEF Flags, Elements
  <2>3. /\ Viewed(w, next) /\ next.plan.flags = w.plan.flags \ {"sendRallyPoints"}
        /\ next.plan.requested = w.plan.requested
    BY <2>2, FlagClears
  <2>. HIDE DEF n, next
  <2>4. next \in World /\ Framed(w, next) /\ next.car = w.car
    BY <2>3, ViewedIsFramed DEF Viewed
  <2>5. CASE Supports(w, "rally")
    <3>1. n = ControllerSend(next, "rally") /\ Supports(next, "rally")
      BY <2>1, <2>3, <2>5, StartsAfterView
    <3>2. /\ Framed(next, n) /\ n.plan.flags = next.plan.flags
          /\ n.plan.requested = next.plan.requested
          /\ Starts(next, n, "send", {"rally"})
      BY <2>2, <2>4, <3>1, ControllerSends
    <3>3. Framed(w, n)
      BY <2>4, <3>2, FramedIsTransitive
    <3>4. Starts(w, n, "send", {"rally"})
      BY <2>3, <3>2, StartsAfterView
    <3>. QED  BY <1>2, <2>3, <3>2, <3>3, <3>4 DEF n
  <2>6. CASE ~Supports(w, "rally")
    <3>1. n = next
      BY <2>1, <2>6
    <3>2. Starts(w, n, "send", {"rally"})
      BY <2>4, <3>1, StartsNothing
    <3>. QED  BY <1>2, <2>3, <2>4, <3>1, <3>2 DEF n
  <2>. QED  BY <2>5, <2>6
<1>. QED  BY <1>1, <1>2

LEMMA MissionSendCompletes ==
    ASSUME NEW w \in World
    PROVE  LET n == SendMissionComplete(w)
           IN  /\ Framed(w, n)
               /\ n.plan.flags \subseteq (w.plan.flags \ {"sendGeoFence"}) \cup {"sendRallyPoints"}
               /\ w.plan.flags \ {"sendGeoFence", "sendRallyPoints"} \subseteq n.plan.flags
               /\ n.plan.requested = w.plan.requested
               /\ Starts(w, n, "send", IF Supports(w, "fence") THEN {"fence"} ELSE {"rally"})
               /\ "sendGeoFence" \notin w.plan.flags => n = w
               /\ "sendGeoFence" \in w.plan.flags /\ "sendRallyPoints" \in n.plan.flags =>
                    /\ Supports(w, "fence")
                    /\ CanSync(w, "fence") => n.car[w.plan.vehicle].job["fence"] = "send"
<1>. DEFINE n == SendMissionComplete(w)
            clear == ClearFlag(w, "sendGeoFence")
            next == SetFlag(clear, "sendRallyPoints")
            done == IF Supports(w, "fence") THEN ControllerSend(next, "fence")
                    ELSE SendGeoFenceComplete(next)
            S == IF Supports(w, "fence") THEN {"fence"} ELSE {"rally"}
<1>1. CASE "sendGeoFence" \notin w.plan.flags
  <2>1. n = w
    BY <1>1 DEF SendMissionComplete
  <2>2. Viewed(w, w)
    BY DEF Viewed
  <2>. QED  BY <1>1, <2>1, <2>2, ViewedIsFramed, StartsNothing
<1>2. CASE "sendGeoFence" \in w.plan.flags
  <2>1. n = SetClean(done)
    BY <1>2 DEF SendMissionComplete
  <2>2. "sendRallyPoints" \in Flags /\ "sendGeoFence" \in Flags /\ "fence" \in Elements
    BY DEF Flags, Elements
  <2>3. /\ Viewed(w, clear) /\ clear.plan.flags = w.plan.flags \ {"sendGeoFence"}
        /\ clear.plan.requested = w.plan.requested
    BY <2>2, FlagClears
  <2>. HIDE DEF n, clear
  <2>4. /\ Viewed(clear, next) /\ next.plan.flags = clear.plan.flags \cup {"sendRallyPoints"}
        /\ next.plan.requested = clear.plan.requested
    BY <2>2, <2>3, FlagSets DEF Viewed
  <2>5. Viewed(w, next)
    BY <2>3, <2>4 DEF Viewed
  <2>. HIDE DEF next
  <2>6. next \in World
    BY <2>5 DEF Viewed
  <2>7. /\ Framed(next, done)
        /\ done.plan.flags \subseteq next.plan.flags
        /\ next.plan.flags \ {"sendRallyPoints"} \subseteq done.plan.flags
        /\ done.plan.requested = next.plan.requested
        /\ Starts(next, done, "send", S)
        /\ "sendRallyPoints" \in done.plan.flags =>
             /\ Supports(w, "fence")
             /\ CanSync(w, "fence") => done.car[w.plan.vehicle].job["fence"] = "send"
    <3>1. CASE Supports(w, "fence")
      <4>1. done = ControllerSend(next, "fence") /\ Supports(next, "fence") /\ S = {"fence"}
        BY <2>5, <3>1, StartsAfterView
      <4>. HIDE DEF done, S
      <4>2. /\ Framed(next, done) /\ done.plan.flags = next.plan.flags
            /\ done.plan.requested = next.plan.requested
            /\ Starts(next, done, "send", {"fence"})
            /\ CanSync(next, "fence") => done.car[next.plan.vehicle].job["fence"] = "send"
        BY <2>2, <2>6, <4>1, ControllerSends
      <4>4. CanSync(w, "fence") => done.car[w.plan.vehicle].job["fence"] = "send"
        BY <2>5, <4>2, StartsAfterView DEF Viewed
      <4>. QED  BY <3>1, <4>1, <4>2, <4>4
    <3>2. CASE ~Supports(w, "fence")
      <4>1. done = SendGeoFenceComplete(next) /\ S = {"rally"}
        BY <3>2
      <4>. HIDE DEF done, S
      <4>4. /\ Framed(next, done)
            /\ done.plan.flags = next.plan.flags \ {"sendRallyPoints"}
            /\ done.plan.requested = next.plan.requested
            /\ Starts(next, done, "send", {"rally"})
        BY <2>6, <4>1, GeoFenceSendCompletes
      <4>. QED  BY <4>1, <4>4
    <3>. QED  BY <3>1, <3>2
  <2>. HIDE DEF done
  <2>8. /\ Viewed(done, n) /\ n.plan.flags = done.plan.flags
        /\ n.plan.requested = done.plan.requested
    BY <2>1, <2>7, Cleans DEF Framed
  <2>9. Framed(w, n)
    <3>1. Framed(w, next) /\ Framed(done, n)
      BY <2>5, <2>7, <2>8, ViewedIsFramed DEF Framed
    <3>. QED  BY <2>7, <3>1, FramedIsTransitive
  <2>. HIDE DEF S
  <2>10. Starts(w, n, "send", S)
    BY <2>5, <2>7, <2>8, StartsAfterView, ViewAfterStarts
  <2>12. n.car = done.car
    BY <2>8 DEF Viewed
  <2>. QED  BY <1>2, <2>3, <2>4, <2>7, <2>8, <2>9, <2>10, <2>12 DEF n, S
<1>. QED  BY <1>1, <1>2

LEMMA LoadsFromVehicle ==
    ASSUME NEW w \in World
    PROVE  LET n == LoadFromVehicle(w)
           IN  /\ Framed(w, n) /\ n.plan.flags = w.plan.flags \cup {"loadGeoFence"}
               /\ Starts(w, n, "load", {"mission"})
               /\ CanSync(w, "mission") => n.car[w.plan.vehicle].job["mission"] = "load"
<1>. DEFINE n == LoadFromVehicle(w)
            next == SetFlag(w, "loadGeoFence")
            done == ControllerLoad(next, "mission")
<1>1. n = SetClean(done)
  BY DEF LoadFromVehicle
<1>2. "loadGeoFence" \in Flags /\ "mission" \in Elements
  BY DEF Flags, Elements
<1>3. Viewed(w, next) /\ next.plan.flags = w.plan.flags \cup {"loadGeoFence"}
  BY <1>2, FlagSets
<1>4. next \in World
  BY <1>3 DEF Viewed
<1>. HIDE DEF next, n
<1>5. /\ Framed(next, done) /\ done.plan.flags = next.plan.flags
      /\ Starts(next, done, "load", {"mission"})
      /\ CanSync(next, "mission") => done.car[next.plan.vehicle].job["mission"] = "load"
  BY <1>2, <1>4, ControllerLoads
<1>. HIDE DEF done
<1>6. Viewed(done, n) /\ n.plan.flags = done.plan.flags
  BY <1>1, <1>5, Cleans DEF Framed
<1>7. Framed(w, n)
  <2>1. Framed(w, next) /\ Framed(done, n)
    BY <1>3, <1>5, <1>6, ViewedIsFramed DEF Framed
  <2>. QED  BY <1>5, <2>1, FramedIsTransitive
<1>8. Starts(w, n, "load", {"mission"})
  BY <1>3, <1>5, <1>6, StartsAfterView, ViewAfterStarts
<1>9. CanSync(w, "mission") => n.car[w.plan.vehicle].job["mission"] = "load"
  BY <1>3, <1>5, <1>6, StartsAfterView DEF Viewed
<1>. QED  BY <1>3, <1>5, <1>6, <1>7, <1>8, <1>9 DEF n

LEMMA SendsToVehicle ==
    ASSUME NEW w \in World
    PROVE  LET n == SendToVehicle(w)
           IN  /\ Framed(w, n) /\ n.plan.flags = w.plan.flags \cup {"sendGeoFence"}
               /\ n.plan.requested = w.plan.requested
               /\ Starts(w, n, "send", {"mission"})
               /\ CanSync(w, "mission") => n.car[w.plan.vehicle].job["mission"] = "send"
<1>. DEFINE n == SendToVehicle(w)
            next == SetFlag(w, "sendGeoFence")
            done == ControllerSend(next, "mission")
<1>1. n = SetClean(done)
  BY DEF SendToVehicle
<1>2. "sendGeoFence" \in Flags /\ "mission" \in Elements
  BY DEF Flags, Elements
<1>3. Viewed(w, next) /\ next.plan.flags = w.plan.flags \cup {"sendGeoFence"}
      /\ next.plan.requested = w.plan.requested
  BY <1>2, FlagSets
<1>4. next \in World
  BY <1>3 DEF Viewed
<1>. HIDE DEF next, n
<1>5. /\ Framed(next, done) /\ done.plan.flags = next.plan.flags
      /\ done.plan.requested = next.plan.requested
      /\ Starts(next, done, "send", {"mission"})
      /\ CanSync(next, "mission") => done.car[next.plan.vehicle].job["mission"] = "send"
  BY <1>2, <1>4, ControllerSends
<1>. HIDE DEF done
<1>6. Viewed(done, n) /\ n.plan.flags = done.plan.flags /\ n.plan.requested = done.plan.requested
  BY <1>1, <1>5, Cleans DEF Framed
<1>7. Framed(w, n)
  <2>1. Framed(w, next) /\ Framed(done, n)
    BY <1>3, <1>5, <1>6, ViewedIsFramed DEF Framed
  <2>. QED  BY <1>5, <2>1, FramedIsTransitive
<1>8. Starts(w, n, "send", {"mission"})
  BY <1>3, <1>5, <1>6, StartsAfterView, ViewAfterStarts
<1>9. CanSync(w, "mission") => n.car[w.plan.vehicle].job["mission"] = "send"
  BY <1>3, <1>5, <1>6, StartsAfterView DEF Viewed
<1>. QED  BY <1>3, <1>5, <1>6, <1>7, <1>8, <1>9 DEF n

LEMMA RemovesAllFromVehicle ==
    ASSUME NEW w \in World
    PROVE  LET n == RemoveAllFromVehicle(w)
           IN  /\ Framed(w, n) /\ n.plan.flags = w.plan.flags
               /\ Starts(w, n, "remove", Elements)
<1>. DEFINE n == RemoveAllFromVehicle(w)
            a == ControllerRemoveAllFromVehicle(w, "mission")
            b == IF Supports(w, "fence") THEN ControllerRemoveAllFromVehicle(a, "fence") ELSE a
            c == IF Supports(w, "rally") THEN ControllerRemoveAllFromVehicle(b, "rally") ELSE b
<1>1. n = SetClean(c)
  BY DEF RemoveAllFromVehicle
<1>2. "mission" \in Elements /\ "fence" \in Elements /\ "rally" \in Elements
  BY DEF Elements
<1>3. Framed(w, a) /\ a.plan.flags = w.plan.flags /\ Starts(w, a, "remove", {"mission"})
  BY <1>2, ControllerRemoves
<1>. HIDE DEF n, a
<1>4. ASSUME NEW x, Framed(w, x), NEW e
      PROVE  Supports(x, e) <=> Supports(w, e)
  BY <1>4 DEF Framed, Works, Supports, IsOffline, World, PlanRecord
<1>5. Framed(a, b) /\ b.plan.flags = a.plan.flags /\ Starts(a, b, "remove", {"fence"})
  <2>1. a \in World
    BY <1>3 DEF Framed
  <2>2. CASE Supports(w, "fence")
    <3>1. Supports(a, "fence") /\ b = ControllerRemoveAllFromVehicle(a, "fence")
      BY <1>3, <1>4, <2>2
    <3>. HIDE DEF b
    <3>. QED  BY <1>2, <2>1, <3>1, ControllerRemoves
  <2>3. CASE ~Supports(w, "fence")
    <3>1. b = a
      BY <2>3
    <3>. HIDE DEF b
    <3>2. Viewed(a, b)
      BY <2>1, <3>1 DEF Viewed
    <3>. QED  BY <2>1, <3>1, <3>2, ViewedIsFramed, StartsNothing
  <2>. QED  BY <2>2, <2>3
<1>. HIDE DEF b
<1>6. Framed(w, b)
  BY <1>3, <1>5, FramedIsTransitive
<1>7. Framed(b, c) /\ c.plan.flags = b.plan.flags /\ Starts(b, c, "remove", {"rally"})
  <2>1. b \in World
    BY <1>6 DEF Framed
  <2>2. CASE Supports(w, "rally")
    <3>1. Supports(b, "rally") /\ c = ControllerRemoveAllFromVehicle(b, "rally")
      BY <1>4, <1>6, <2>2
    <3>. HIDE DEF c
    <3>. QED  BY <1>2, <2>1, <3>1, ControllerRemoves
  <2>3. CASE ~Supports(w, "rally")
    <3>1. c = b
      BY <2>3
    <3>. HIDE DEF c
    <3>2. Viewed(b, c)
      BY <2>1, <3>1 DEF Viewed
    <3>. QED  BY <2>1, <3>1, <3>2, ViewedIsFramed, StartsNothing
  <2>. QED  BY <2>2, <2>3
<1>. HIDE DEF c
<1>8. Framed(w, c) /\ c \in World
  BY <1>6, <1>7, FramedIsTransitive DEF Framed
<1>9. Viewed(c, n) /\ n.plan.flags = c.plan.flags
  BY <1>1, <1>8, Cleans
<1>10. Framed(w, n)
  BY <1>8, <1>9, ViewedIsFramed, FramedIsTransitive
<1>11. Starts(w, n, "remove", Elements)
  <2>1. ASSUME NEW v \in Vehicles, NEW f \in Elements
        PROVE  \/ n.car[v].job[f] = w.car[v].job[f]
               \/ /\ v = w.plan.vehicle /\ f \in Elements
                  /\ f = "mission" \/ f \in w.car[v].supported
                  /\ w.car[v].job[f] = "none" /\ n.car[v].job[f] = "remove"
    <3>1. n.car[v].job[f] = c.car[v].job[f]
      BY <1>9 DEF Viewed
    <3>2. a.plan.vehicle = w.plan.vehicle /\ b.plan.vehicle = w.plan.vehicle
      BY <1>3, <1>6 DEF Framed
    <3>3. a.car[v].supported = w.car[v].supported /\ b.car[v].supported = w.car[v].supported
      BY <1>3, <1>6 DEF Framed, Works
    <3>4. CASE f = "mission"
      BY <1>3, <1>5, <1>7, <3>1, <3>2, <3>4 DEF Starts
    <3>5. CASE f = "fence"
      BY <1>3, <1>5, <1>7, <3>1, <3>2, <3>3, <3>5 DEF Starts
    <3>6. CASE f = "rally"
      BY <1>3, <1>5, <1>7, <3>1, <3>2, <3>3, <3>6 DEF Starts
    <3>. QED  BY <3>4, <3>5, <3>6 DEF Elements
  <2>. QED  BY <2>1 DEF Starts
<1>. QED  BY <1>3, <1>5, <1>7, <1>9, <1>10, <1>11 DEF n

\* n is w with the same jobs and flags, and no request but perhaps the fence's that was not there.
Shown(w, n) ==
    /\ Framed(w, n) /\ n.plan.flags = w.plan.flags
    /\ n.plan.requested \subseteq w.plan.requested \cup {"fence"}
    /\ \A v \in Vehicles : n.car[v].job = w.car[v].job

LEMMA ShownIsTransitive ==
    ASSUME NEW w, NEW m, NEW n, Shown(w, m), Shown(m, n)
    PROVE  Shown(w, n)
<1>1. Framed(w, n)
  BY FramedIsTransitive DEF Shown
<1>. QED  BY <1>1 DEF Shown

LEMMA ElementIsShown ==
    ASSUME NEW w \in World, NEW e \in Elements, w.plan.vehicle \in Vehicles
    PROVE  Shown(w, ShowElement(w, e))
<1>1. /\ Viewed(w, ShowElement(w, e)) /\ ShowElement(w, e).plan.flags = w.plan.flags
      /\ ShowElement(w, e).plan.requested \subseteq w.plan.requested \cup {"fence"}
  BY ElementShown
<1>2. Framed(w, ShowElement(w, e)) /\ ShowElement(w, e).car = w.car
  BY <1>1, ViewedIsFramed DEF Viewed
<1>. QED  BY <1>1, <1>2 DEF Shown

LEMMA PlanShown ==
    ASSUME NEW w0 \in World, w0.plan.vehicle \in Vehicles
    PROVE  Shown(w0, ShowPlanFromManagerVehicle(w0))
<1>. DEFINE a == w0.plan.vehicle
            m == [w0.car[a] EXCEPT !.planComplete = TRUE]
            w == IF SyncInProgress(w0) THEN w0 ELSE [w0 EXCEPT !.car[a].planComplete = TRUE]
            n == ShowPlanFromManagerVehicle(w0)
            mission == ShowElement(w, "mission")
            fence == ShowElement(mission, "fence")
<1>1. Shown(w0, w)
  <2>1. w0.car \in [Vehicles -> VehicleRecord] /\ a \in Vehicles /\ w0.car[a] \in VehicleRecord
    BY WorldFields
  <2>2. Works(w0.car[a], m) /\ m.job = w0.car[a].job /\ m \in VehicleRecord
    <3>. DEFINE u == w0.car[a]
    <3>1. u \in VehicleRecord
      BY <2>1
    <3>. HIDE DEF u
    <3>2. [u EXCEPT !.planComplete = TRUE] \in VehicleRecord
          /\ Works(u, [u EXCEPT !.planComplete = TRUE])
          /\ [u EXCEPT !.planComplete = TRUE].job = u.job
      BY <3>1 DEF Works, VehicleRecord
    <3>. QED  BY <3>2 DEF u
  <2>3. CASE SyncInProgress(w0)
    <3>1. w = w0
      BY <2>3
    <3>2. Viewed(w0, w0)
      BY DEF Viewed
    <3>. QED  BY <3>1, <3>2, ViewedIsFramed DEF Shown
  <2>4. CASE ~SyncInProgress(w0)
    <3>. DEFINE cars == [w0.car EXCEPT ![a] = m]
    <3>1. w = [w0 EXCEPT !.car = cars]
      BY <2>4 DEF World
    <3>. HIDE DEF m
    <3>2. cars \in [Vehicles -> VehicleRecord] /\ cars[a] = m
          /\ \A v \in Vehicles : v # a => cars[v] = w0.car[v]
      BY <2>1, <2>2
    <3>. HIDE DEF cars, w, a
    <3>3. w \in World /\ w.car = cars /\ w.plan = w0.plan
      BY <3>1, <3>2 DEF World
    <3>4. \A v \in Vehicles : Works(w0.car[v], w.car[v]) /\ w.car[v].job = w0.car[v].job
      <4>1. ASSUME NEW v \in Vehicles
            PROVE  Works(w0.car[v], w.car[v]) /\ w.car[v].job = w0.car[v].job
        <5>1. CASE v = a
          BY <2>2, <3>2, <3>3, <5>1
        <5>2. CASE v # a
          BY <2>1, <3>2, <3>3, <5>2, WorksIsReflexive
        <5>. QED  BY <5>1, <5>2
      <4>. QED  BY <4>1
    <3>5. Framed(w0, w)
      BY <3>2, <3>3, <3>4 DEF Framed, a
    <3>. QED  BY <3>3, <3>4, <3>5 DEF Shown
  <2>. QED  BY <2>3, <2>4
<1>2. n = IF Waits(w, "mission") THEN mission
          ELSE IF Waits(mission, "fence") THEN fence ELSE ShowElement(fence, "rally")
  BY DEF ShowPlanFromManagerVehicle
<1>3. "mission" \in Elements /\ "fence" \in Elements /\ "rally" \in Elements
  BY DEF Elements
<1>. HIDE DEF n, w
<1>4. w \in World /\ w.plan.vehicle \in Vehicles
  BY <1>1 DEF Shown, Framed
<1>5. Shown(w, mission)
  BY <1>3, <1>4, ElementIsShown
<1>. HIDE DEF mission
<1>6. mission \in World /\ mission.plan.vehicle \in Vehicles
  BY <1>4, <1>5 DEF Shown, Framed
<1>7. Shown(mission, fence)
  BY <1>3, <1>6, ElementIsShown
<1>. HIDE DEF fence
<1>8. fence \in World /\ fence.plan.vehicle \in Vehicles
  BY <1>6, <1>7 DEF Shown, Framed
<1>9. Shown(fence, ShowElement(fence, "rally"))
  BY <1>3, <1>8, ElementIsShown
<1>10. Shown(w0, mission) /\ Shown(w0, fence)
  BY <1>1, <1>5, <1>7, ShownIsTransitive
<1>11. Shown(w0, ShowElement(fence, "rally"))
  BY <1>9, <1>10, ShownIsTransitive
<1>12. Shown(w0, n)
  BY <1>2, <1>10, <1>11
<1>. QED  BY <1>12 DEF n

LEMMA VehicleChanges ==
    ASSUME NEW w \in World, NEW to \in Vehicles \cup {Offline}
    PROVE  LET n == ActiveVehicleChanged(w, to)
           IN  /\ n \in World /\ n.plan.vehicle = to /\ n.plan.flags = w.plan.flags
               /\ n.plan.requested \subseteq w.plan.requested \cup {"fence"}
               /\ \A v \in Vehicles : Works(w.car[v], n.car[v]) /\ n.car[v].job = w.car[v].job
<1>. DEFINE n == ActiveVehicleChanged(w, to)
            x == [w EXCEPT !.plan.vehicle = to]
<1>1. /\ x \in World /\ x.car = w.car /\ x.plan.vehicle = to /\ x.plan.flags = w.plan.flags
      /\ x.plan.requested = w.plan.requested
  BY DEF World, PlanRecord
<1>. HIDE DEF x
<1>2. Shown(x, n)
  <2>1. CASE ContainsItems(x.plan) /\ Dirty(x.plan)
    <3>1. n = [x EXCEPT !.plan.prompt = TRUE]
      BY <2>1 DEF ActiveVehicleChanged, x
    <3>. HIDE DEF n
    <3>2. Viewed(x, n) /\ n.plan.flags = x.plan.flags /\ n.plan.requested = x.plan.requested
      BY <1>1, <3>1 DEF Viewed, World, PlanRecord
    <3>. QED  BY <1>1, <3>2, ViewedIsFramed DEF Shown, Viewed
  <2>2. CASE ~(ContainsItems(x.plan) /\ Dirty(x.plan)) /\ to = Offline
    <3>1. n = Emptied(x, Elements)
      BY <2>2 DEF ActiveVehicleChanged, x, RemoveAll
    <3>. HIDE DEF n
    <3>2. Viewed(x, n) /\ n.plan.flags = x.plan.flags /\ n.plan.requested = x.plan.requested
      BY <1>1, <3>1, Empties
    <3>. QED  BY <1>1, <3>2, ViewedIsFramed DEF Shown, Viewed
  <2>3. CASE ~(ContainsItems(x.plan) /\ Dirty(x.plan)) /\ to # Offline
    <3>1. n = ShowPlanFromManagerVehicle(x)
      BY <2>3 DEF ActiveVehicleChanged, x
    <3>2. x.plan.vehicle \in Vehicles
      BY <1>1, <2>3
    <3>. QED  BY <1>1, <3>1, <3>2, PlanShown
  <2>. QED  BY <2>1, <2>2, <2>3
<1>. HIDE DEF n
<1>. QED  BY <1>1, <1>2 DEF Shown, Framed, n

-----------------------------------------------------------------------------
(* The ends of the transactions.                                           *)

\* The element whose turn comes after e.
After(w, e) ==
    IF e = "rally" THEN {}
    ELSE IF e = "mission" /\ Supports(w, "fence") THEN {"fence"} ELSE {"rally"}

\* w is w0 but for vehicle v, whose record is m.
Replaced(w0, w, v, m) ==
    /\ w \in World /\ w.plan = w0.plan /\ w.car[v] = m
    /\ \A x \in Vehicles : x # v => w.car[x] = w0.car[x]

LEMMA CarReplaced ==
    ASSUME NEW w0 \in World, NEW v \in Vehicles, NEW m \in VehicleRecord
    PROVE  Replaced(w0, [w0 EXCEPT !.car[v] = m], v, m)
<1>. DEFINE cars == [w0.car EXCEPT ![v] = m]
            w == [w0 EXCEPT !.car = cars]
<1>1. w0.car \in [Vehicles -> VehicleRecord]
  BY WorldFields
<1>2. cars \in [Vehicles -> VehicleRecord] /\ cars[v] = m
      /\ \A x \in Vehicles : x # v => cars[x] = w0.car[x]
  BY <1>1
<1>3. [w0 EXCEPT !.car[v] = m] = w
  BY DEF World
<1>. HIDE DEF cars
<1>4. w \in World /\ w.plan = w0.plan /\ w.car = cars
  BY <1>2 DEF World
<1>. HIDE DEF w
<1>. QED  BY <1>2, <1>3, <1>4 DEF Replaced

LoadFlags == {"loadGeoFence", "loadRallyPoints"}

\* n is w with what the Plan view makes of the end of a load of e at its vehicle.
LoadTaken(w, n, e) ==
    /\ Framed(w, n) /\ Starts(w, n, "load", After(w, e))
    /\ n.plan.flags \subseteq w.plan.flags \cup {"loadRallyPoints"}
    /\ w.plan.flags \cap LoadFlags = {} =>
        /\ n.plan.flags = w.plan.flags
        /\ n.plan.requested \subseteq w.plan.requested
        /\ e \notin w.plan.requested => Keeps(w, n, e)
    /\ n.plan.requested \subseteq w.plan.requested \cup {"fence", "rally"}
    /\ e = "mission" => "loadGeoFence" \notin n.plan.flags
    /\ e = "fence" => "loadRallyPoints" \notin n.plan.flags
    /\ "loadRallyPoints" \in n.plan.flags =>
        \/ e # "fence" /\ "loadRallyPoints" \in w.plan.flags
        \/ /\ e = "mission" /\ "loadGeoFence" \in w.plan.flags /\ Supports(w, "fence")
           /\ CanSync(w, "fence") => n.car[w.plan.vehicle].job["fence"] = "load"

LEMMA LoadIsTaken ==
    ASSUME NEW w \in World, NEW e \in Elements, w.plan.vehicle \in Vehicles
    PROVE  LoadTaken(w, TakeItems(CASE e = "mission" -> LoadMissionComplete(w)
                                    [] e = "fence"   -> LoadGeoFenceComplete(w)
                                    [] OTHER         -> w, e), e)
<1>. DEFINE done == CASE e = "mission" -> LoadMissionComplete(w)
                      [] e = "fence"   -> LoadGeoFenceComplete(w)
                      [] OTHER         -> w
            n == TakeItems(done, e)
<1>0. Framed(w, w) /\ Starts(w, w, "load", {})
  <2>1. Viewed(w, w)
    BY DEF Viewed
  <2>. QED  BY <2>1, ViewedIsFramed, StartsNothing
<1>1. /\ Framed(w, done) /\ Starts(w, done, "load", After(w, e))
      /\ done.plan.flags \subseteq w.plan.flags \cup {"loadRallyPoints"}
      /\ w.plan.flags \cap LoadFlags = {} => done = w
      /\ done.plan.requested \subseteq w.plan.requested \cup {"fence", "rally"}
      /\ e = "mission" => "loadGeoFence" \notin done.plan.flags
      /\ e = "fence" => "loadRallyPoints" \notin done.plan.flags
      /\ "loadRallyPoints" \in done.plan.flags =>
          \/ e # "fence" /\ "loadRallyPoints" \in w.plan.flags
          \/ /\ e = "mission" /\ "loadGeoFence" \in w.plan.flags /\ Supports(w, "fence")
             /\ CanSync(w, "fence") => done.car[w.plan.vehicle].job["fence"] = "load"
  <2>1. CASE e = "mission"
    <3>1. done = LoadMissionComplete(w)
      BY <2>1
    <3>2. After(w, e) = IF Supports(w, "fence") THEN {"fence"} ELSE {"rally"}
      BY <2>1 DEF After
    <3>. HIDE DEF done
    <3>3. /\ Framed(w, done)
          /\ done.plan.flags \subseteq (w.plan.flags \ {"loadGeoFence"}) \cup {"loadRallyPoints"}
          /\ done.plan.requested \subseteq w.plan.requested \cup {"fence", "rally"}
          /\ Starts(w, done, "load", After(w, e))
          /\ "loadGeoFence" \notin w.plan.flags => done = w
          /\ "loadGeoFence" \in w.plan.flags /\ "loadRallyPoints" \in done.plan.flags =>
                /\ Supports(w, "fence")
                /\ CanSync(w, "fence") => done.car[w.plan.vehicle].job["fence"] = "load"
      BY <3>1, <3>2, MissionLoadCompletes
    <3>4. e # "fence"
      BY <2>1
    <3>5. CASE "loadGeoFence" \in w.plan.flags
      BY <2>1, <3>3, <3>4, <3>5 DEF LoadFlags
    <3>6. CASE "loadGeoFence" \notin w.plan.flags
      BY <2>1, <3>3, <3>4, <3>6 DEF LoadFlags
    <3>. QED  BY <3>5, <3>6
  <2>2. CASE e = "fence"
    <3>1. done = LoadGeoFenceComplete(w)
      BY <2>2
    <3>2. After(w, e) = {"rally"}
      BY <2>2 DEF After
    <3>. HIDE DEF done
    <3>. QED  BY <2>2, <3>1, <3>2, GeoFenceLoadCompletes DEF LoadFlags
  <2>3. CASE e = "rally"
    <3>1. done = w
      BY <2>3
    <3>2. After(w, e) = {}
      BY <2>3 DEF After
    <3>. HIDE DEF done
    <3>. QED  BY <1>0, <2>3, <3>1, <3>2
  <2>. QED  BY <2>1, <2>2, <2>3 DEF Elements
<1>. HIDE DEF done
<1>2. done \in World /\ done.plan.vehicle = w.plan.vehicle
  BY <1>1 DEF Framed
<1>3. /\ Viewed(done, n) /\ n.plan.flags = done.plan.flags
      /\ n.plan.requested = done.plan.requested \ {e}
      /\ e \notin done.plan.requested => Keeps(done, n, e)
  BY <1>2, ItemsTaken
<1>. HIDE DEF n
<1>4. Framed(w, n) /\ n.car = done.car
  BY <1>1, <1>2, <1>3, ViewedIsFramed, FramedIsTransitive DEF Viewed
<1>5. Starts(w, n, "load", After(w, e))
  BY <1>1, <1>3, ViewAfterStarts
<1>6. LoadTaken(w, n, e)
  BY <1>1, <1>3, <1>4, <1>5 DEF LoadTaken
<1>. QED  BY <1>6 DEF n, done

\* n is w0 with a load of e ended at v, w the world after the slots of the vehicle.
LoadStep(w0, w, n, v, e) ==
    /\ Replaced(w0, w, v, w.car[v]) /\ Answers(w0.car[v], w.car[v], e)
    /\ v # w0.plan.vehicle => n = w
    /\ v = w0.plan.vehicle => LoadTaken(w, n, e)

LEMMA LoadEndingSteps ==
    ASSUME NEW w0 \in World, NEW v \in Vehicles, NEW e \in Elements,
           VehicleInv(w0.car[v]), w0.car[v].job[e] = "load", NEW filled \in BOOLEAN
    PROVE  \E w : LoadStep(w0, w, LoadEnded(w0, v, e, filled), v, e)
<1>. DEFINE u == w0.car[v]
            m == FirstLoadComplete(EndJob(u, e, filled), e)
            w == [w0 EXCEPT !.car[v] = m]
            n == LoadEnded(w0, v, e, filled)
            taken == TakeItems(CASE e = "mission" -> LoadMissionComplete(w)
                                 [] e = "fence"   -> LoadGeoFenceComplete(w)
                                 [] OTHER         -> w, e)
<1>1. u \in VehicleRecord
  BY WorldFields
<1>2. Answers(u, m, e)
  BY <1>1, LoadAnswers
<1>3. [w0 EXCEPT !.car[v] = FirstLoadComplete(EndJob(@, e, filled), e)] = w
  OBVIOUS
<1>4. n = IF v = w.plan.vehicle THEN taken ELSE w
  BY <1>3 DEF LoadEnded
<1>. HIDE DEF m
<1>5. m \in VehicleRecord
  BY <1>2 DEF Answers
<1>6. Replaced(w0, w, v, m)
  BY <1>5, CarReplaced
<1>. HIDE DEF w
<1>7. w \in World /\ w.plan = w0.plan /\ w.car[v] = m
  BY <1>6 DEF Replaced
<1>8. v = w0.plan.vehicle => LoadTaken(w, taken, e)
  <2>1. v = w0.plan.vehicle => w.plan.vehicle \in Vehicles
    BY <1>7
  <2>. QED  BY <1>7, <2>1, LoadIsTaken
<1>. HIDE DEF taken, n
<1>9. LoadStep(w0, w, n, v, e)
  BY <1>2, <1>4, <1>6, <1>7, <1>8 DEF LoadStep
<1>. QED  BY <1>9 DEF n

-----------------------------------------------------------------------------
(* What a step does to one vehicle.                                        *)

\* u becomes n, the steps answered h become h2; the order is kept where `kept` holds.
CarStep(u, n, h, h2, kept) ==
    /\ n \in VehicleRecord /\ VehicleInv(n)
    /\ u.at = 9 \/ ServedTo(u, u.at) => Served(n)
    /\ kept /\ Ordered(u, h) => Ordered(n, h2)

\* The jobs of n that m does not have are of managers that were idle.
JobsAdded(m, n) == \A f \in Elements : n.job[f] = m.job[f] \/ m.job[f] = "none"

LEMMA CarWorks ==
    ASSUME NEW u \in VehicleRecord, VehicleInv(u), NEW n, Works(u, n), NEW h,
           NEW kept, kept => u.at = 9 \/ NoNewLoad(u, n)
    PROVE  CarStep(u, n, h, h, kept)
<1>1. n \in VehicleRecord
  BY DEF Works
<1>. QED  BY <1>1, WorksKeeps DEF CarStep, Served

LEMMA CarAnswers ==
    ASSUME NEW u \in VehicleRecord, NEW m, NEW s, Answers(u, m, s),
           NEW n, Works(m, n), JobsAdded(m, n), NEW h \in SUBSET StepNames,
           OnTheWay(u, m, s) => m.at = 9 \/ NoNewLoad(m, n)
    PROVE  CarStep(u, n, h, h \cup {s}, TRUE)
<1>1. m \in VehicleRecord /\ VehicleInv(m) /\ n \in VehicleRecord
  BY DEF Answers, Works
<1>2. VehicleInv(n) /\ (m.at = 9 \/ ServedTo(m, m.at) => n.at = 9 \/ ServedTo(n, n.at))
  BY <1>1, WorksKeeps
<1>3. m.at = 9 \/ NoNewLoad(m, n) => \A g : Ordered(m, g) => Ordered(n, g)
  BY <1>1, WorksKeeps
<1>4. Hindered(m) => Hindered(n)
  <2>1. n.at = m.at /\ n.link = m.link /\ n.asked = m.asked
    BY DEF Works
  <2>2. \A f \in Elements : m.job[f] \in Writes => n.job[f] = m.job[f]
    BY DEF JobsAdded, Writes
  <2>. QED  BY <2>1, <2>2 DEF Hindered
<1>5. u.at = 9 \/ ServedTo(u, u.at) => Served(n)
  BY <1>2, <1>4 DEF Answers, Served
<1>6. Ordered(u, h) => Ordered(n, h \cup {s})
  BY <1>3 DEF Answers
<1>. QED  BY <1>1, <1>2, <1>5, <1>6 DEF CarStep

\* What the end of a load of e leads to is not what the machine would have asked for.
LEMMA LoadsOnTheWay ==
    ASSUME NEW w \in World, NEW n, NEW v \in Vehicles, NEW e \in Elements,
           v = w.plan.vehicle, Starts(w, n, "load", After(w, e)),
           NEW u \in VehicleRecord, u.at >= 1,
           OnTheWay(u, w.car[v], e), u.supported = w.car[v].supported,
           VehicleInv(w.car[v])
    PROVE  w.car[v].at = 9 \/ NoNewLoad(w.car[v], n.car[v])
<1>. DEFINE m == w.car[v]
<1>1. SUFFICES ASSUME m.at # 9, NEW f \in Elements, n.car[v].job[f] = "load",
                      m.job[f] # "load"
               PROVE  FALSE
  BY DEF NoNewLoad
<1>2. f \in After(w, e) /\ (f = "mission" \/ f \in m.supported) /\ m.job[f] = "none"
  BY <1>1 DEF Starts
<1>3. /\ e = Steps[u.at] /\ m.at > u.at
      /\ \A g \in Elements :
            m.at = StepOf(g) => m.job[g] # "none" /\ (g = "mission" \/ g \in u.supported)
      /\ \A g \in Elements :
            u.at < StepOf(g) /\ StepOf(g) < m.at => g # "mission" /\ g \notin u.supported
  BY <1>1 DEF OnTheWay
<1>4. m.at \in 1 .. 7 /\ u.at \in 1 .. 6
  <2>1. m \in VehicleRecord
    BY WorldFields
  <2>2. m.at \in 0 .. 9 /\ u.at \in 0 .. 9
    BY <2>1, StepNumbers DEF VehicleRecord
  <2>3. m.at # 8
    BY DEF VehicleInv
  <2>. QED  BY <1>1, <1>3, <2>2, <2>3
<1>5. u.at = StepOf(e)
  <2>1. u.at \in 5 .. 7
    BY <1>3, <1>4, StepNumbers DEF Elements
  <2>. QED  BY <1>3, <2>1, StepNumbers, NumbersOfSteps
<1>6. m.at # StepOf(f)
  BY <1>1, <1>2, <1>3
<1>7. f \notin {"mission"} => ~(u.at < StepOf(f) /\ StepOf(f) < m.at)
  BY <1>1, <1>2, <1>3
<1>8. "fence" \in Elements
  BY DEF Elements
<1>9. Supports(w, "fence") <=> "fence" \in m.supported
  BY OfflineIsNoVehicle DEF Supports, IsOffline
<1>10. CASE e = "mission"
  <2>1. CASE "fence" \in m.supported
    <3>1. f = "fence"
      BY <1>2, <1>9, <1>10, <2>1 DEF After
    <3>. QED  BY <1>3, <1>4, <1>5, <1>6, <1>7, <1>10, <3>1, NumbersOfSteps
  <2>2. CASE "fence" \notin m.supported
    <3>1. f = "rally"
      BY <1>2, <1>9, <1>10, <2>2 DEF After
    <3>2. m.at # 6
      BY <1>3, <1>8, <2>2, NumbersOfSteps
    <3>. QED  BY <1>3, <1>4, <1>5, <1>6, <1>10, <3>1, <3>2, NumbersOfSteps
  <2>. QED  BY <2>1, <2>2
<1>11. CASE e = "fence"
  <2>1. f = "rally"
    BY <1>2, <1>11 DEF After
  <2>. QED  BY <1>3, <1>4, <1>5, <1>6, <1>11, <2>1, NumbersOfSteps
<1>12. CASE e = "rally"
  BY <1>2, <1>12 DEF After
<1>. QED  BY <1>10, <1>11, <1>12 DEF Elements

LEMMA StartsAdds ==
    ASSUME NEW w, NEW n, NEW what, NEW S, Starts(w, n, what, S), NEW v \in Vehicles
    PROVE  JobsAdded(w.car[v], n.car[v])
BY DEF Starts, JobsAdded

\* Only v takes a step in the sense above, with the steps in S answered.
OneCar(w, n, v, S) ==
    /\ n \in World
    /\ \A h \in SUBSET StepNames : CarStep(w.car[v], n.car[v], h, h \cup S, TRUE)
    /\ \A x \in Vehicles : x # v => n.car[x] = w.car[x]

\* The end of a load answers its step at its vehicle and changes no other.
LEMMA LoadCars ==
    ASSUME NEW w0 \in World, NEW w, NEW n, NEW v \in Vehicles, NEW e \in Elements,
           VehicleInv(w0.car[v]), LoadStep(w0, w, n, v, e)
    PROVE  OneCar(w0, n, v, {e})
<1>. DEFINE u == w0.car[v]
            m == w.car[v]
<1>1. u \in VehicleRecord /\ VehicleInv(u) /\ u.at >= 1
  BY WorldFields DEF VehicleInv
<1>2. /\ w \in World /\ w.plan = w0.plan /\ Answers(u, m, e)
      /\ \A x \in Vehicles : x # v => w.car[x] = w0.car[x]
  BY DEF LoadStep, Replaced
<1>3. m \in VehicleRecord /\ VehicleInv(m) /\ m.supported = u.supported
  BY <1>2 DEF Answers
<1>4. CASE v # w0.plan.vehicle
  <2>1. n = w
    BY <1>4 DEF LoadStep
  <2>2. Works(m, m) /\ JobsAdded(m, m) /\ NoNewLoad(m, m)
    BY <1>3, WorksIsReflexive DEF JobsAdded, NoNewLoad
  <2>3. \A h \in SUBSET StepNames : CarStep(u, m, h, h \cup {e}, TRUE)
    BY <1>1, <1>2, <2>2, CarAnswers
  <2>. QED  BY <1>2, <2>1, <2>3 DEF OneCar
<1>5. CASE v = w0.plan.vehicle
  <2>1. LoadTaken(w, n, e) /\ w.plan.vehicle = v
    BY <1>2, <1>5 DEF LoadStep
  <2>2. Framed(w, n) /\ Starts(w, n, "load", After(w, e))
    BY <2>1 DEF LoadTaken
  <2>3. n \in World /\ Works(m, n.car[v]) /\ JobsAdded(m, n.car[v])
        /\ \A x \in Vehicles : x # v => n.car[x] = w.car[x]
    BY <2>1, <2>2, StartsAdds DEF Framed
  <2>4. OnTheWay(u, m, e) => m.at = 9 \/ NoNewLoad(m, n.car[v])
    BY <1>1, <1>2, <1>3, <2>1, <2>2, LoadsOnTheWay
  <2>5. \A h \in SUBSET StepNames : CarStep(u, n.car[v], h, h \cup {e}, TRUE)
    BY <1>1, <1>2, <2>3, <2>4, CarAnswers
  <2>. QED  BY <1>2, <2>3, <2>5 DEF OneCar
<1>. QED  BY <1>4, <1>5

-----------------------------------------------------------------------------
(* The flags of the Plan view.                                             *)

Doing(w, e) == IF IsOffline(w) THEN "none" ELSE w.car[w.plan.vehicle].job[e]

\* Each flag set is about a transaction that is under way.
Followed(w) ==
    /\ "loadGeoFence"    \in w.plan.flags => Doing(w, "mission") = "load"
    /\ "loadRallyPoints" \in w.plan.flags => Doing(w, "fence") = "load"
    /\ "sendGeoFence"    \in w.plan.flags => Doing(w, "mission") = "send"
    /\ "sendRallyPoints" \in w.plan.flags => Doing(w, "fence") = "send"

SendFlags == {"sendGeoFence", "sendRallyPoints"}

\* What is left of an upload is for vehicle `to`, and its mission is being sent where the fence
\* is still to come.
Uploading(w, to) ==
    /\ w.plan.flags \cap SendFlags # {} => to = w.plan.vehicle
    /\ "sendGeoFence" \in w.plan.flags => Doing(w, "mission") = "send"

\* The load of e does not begin or end anything else but loads.
LEMMA LoadKeepsFlags ==
    ASSUME NEW w0 \in World, NEW w, NEW n, NEW v \in Vehicles, NEW e \in Elements,
           LoadStep(w0, w, n, v, e), w0.car[v].job[e] = "load", NEW to
    PROVE  /\ n.plan.vehicle = w0.plan.vehicle
           /\ Uploading(w0, to) => Uploading(n, to)
           /\ Followed(w0) /\ (v = w0.plan.vehicle => ~Refused(w0, e)) => Followed(n)
<1>1. /\ w \in World /\ w.plan = w0.plan /\ Answers(w0.car[v], w.car[v], e)
      /\ \A x \in Vehicles : x # v => w.car[x] = w0.car[x]
  BY DEF LoadStep, Replaced
<1>2. CASE v # w0.plan.vehicle
  <2>1. n = w
    BY <1>2 DEF LoadStep
  <2>2. \A f : Doing(w, f) = Doing(w0, f)
    BY <1>1, <1>2, WorldFields DEF Doing, IsOffline
  <2>. QED  BY <1>1, <2>1, <2>2 DEF Uploading, Followed
<1>3. CASE v = w0.plan.vehicle
  <2>. DEFINE u == w0.car[v]
              m == w.car[v]
              c == n.car[v]
  <2>1. LoadTaken(w, n, e) /\ w.plan.vehicle = v
    BY <1>1, <1>3 DEF LoadStep
  <2>2. n.plan.vehicle = v /\ v # Offline
    BY <2>1, OfflineIsNoVehicle DEF LoadTaken, Framed
  <2>3. \A f : Doing(w0, f) = u.job[f] /\ Doing(n, f) = c.job[f]
    BY <1>3, <2>2 DEF Doing, IsOffline
  <2>4. JobsAdded(m, c)
    BY <2>1, StartsAdds DEF LoadTaken
  <2>5. \A f \in Elements : f # e => m.job[f] = u.job[f] \/ (u.job[f] = "none" /\ m.job[f] = "load")
    BY <1>1 DEF Answers
  <2>6. "mission" \in Elements /\ "fence" \in Elements
    BY DEF Elements
  <2>7. \A f \in Elements : f # e => c.job[f] = u.job[f] \/ u.job[f] = "none"
    BY <2>4, <2>5 DEF JobsAdded
  <2>8. \A f \in Elements : f # e => m.job[f] \in {u.job[f], "load"}
    BY <2>5
  <2>9. Uploading(w0, to) => Uploading(n, to)
    <3>1. \A f \in SendFlags : f \in n.plan.flags => f \in w0.plan.flags
      BY <1>1, <2>1 DEF LoadTaken, SendFlags
    <3>2. "sendGeoFence" \in w0.plan.flags /\ u.job["mission"] = "send" => c.job["mission"] = "send"
      BY <2>6, <2>7
    <3>. QED  BY <1>3, <2>2, <2>3, <3>1, <3>2 DEF Uploading, SendFlags
  <2>10. ASSUME Followed(w0), ~Refused(w0, e)
         PROVE  Followed(n)
    <3>1. "sendGeoFence" \in n.plan.flags => c.job["mission"] = "send"
      BY <1>1, <2>1, <2>3, <2>6, <2>7, <2>10 DEF LoadTaken, Followed
    <3>2. "sendRallyPoints" \in n.plan.flags => c.job["fence"] = "send"
      BY <1>1, <2>1, <2>3, <2>6, <2>7, <2>10 DEF LoadTaken, Followed
    <3>3. "loadGeoFence" \in n.plan.flags => c.job["mission"] = "load"
      BY <1>1, <2>1, <2>3, <2>6, <2>7, <2>10 DEF LoadTaken, Followed
    <3>4. "loadRallyPoints" \in n.plan.flags => c.job["fence"] = "load"
      <4>1. CASE e # "fence" /\ "loadRallyPoints" \in w0.plan.flags
        BY <2>3, <2>6, <2>7, <2>10, <4>1 DEF Followed
      <4>2. ASSUME e = "mission", "loadGeoFence" \in w.plan.flags, Supports(w, "fence"),
                   CanSync(w, "fence") => c.job["fence"] = "load"
            PROVE  c.job["fence"] = "load"
        <5>1. Supports(w0, "fence")
          BY <1>1, <1>3, <2>1, <4>2 DEF Supports, IsOffline, Answers
        <5>2. u.job["fence"] = "none"
          BY <1>1, <1>3, <2>2, <2>10, <4>2, <5>1 DEF Refused, Busy, Idle, IsOffline
        <5>3. m.job["fence"] \in {"none", "load"}
          BY <2>5, <2>6, <4>2, <5>2
        <5>4. m.job["fence"] = "none" => CanSync(w, "fence")
          BY <2>1, <2>2 DEF CanSync, Busy, Idle, IsOffline
        <5>. QED  BY <2>4, <2>6, <4>2, <5>3, <5>4 DEF JobsAdded
      <4>. QED  BY <1>1, <2>1, <4>1, <4>2 DEF LoadTaken
    <3>. QED  BY <2>3, <3>1, <3>2, <3>3, <3>4 DEF Followed
  <2>. QED  BY <1>3, <2>2, <2>9, <2>10
<1>. QED  BY <1>2, <1>3

-----------------------------------------------------------------------------
(* The ends of the writes.                                                 *)

\* n is w with what the Plan view makes of the end of a write of e at its vehicle.
SendTaken(w, n, e) ==
    /\ Framed(w, n) /\ Starts(w, n, "send", After(w, e))
    /\ n.plan.flags \subseteq w.plan.flags \cup {"sendRallyPoints"}
    /\ n.plan.requested = w.plan.requested
    /\ e = "mission" => "sendGeoFence" \notin n.plan.flags
    /\ e = "fence" => "sendRallyPoints" \notin n.plan.flags
    /\ e = "mission" /\ "sendGeoFence" \notin w.plan.flags => n = w
    /\ e = "fence" /\ "sendRallyPoints" \notin w.plan.flags => n = w
    /\ "sendRallyPoints" \in n.plan.flags =>
        \/ e # "fence" /\ "sendRallyPoints" \in w.plan.flags
        \/ /\ e = "mission" /\ "sendGeoFence" \in w.plan.flags /\ Supports(w, "fence")
           /\ CanSync(w, "fence") => n.car[w.plan.vehicle].job["fence"] = "send"

LEMMA SendIsTaken ==
    ASSUME NEW w \in World, NEW e \in Elements
    PROVE  /\ e = "mission" => SendTaken(w, SendMissionComplete(w), e)
           /\ e = "fence" => SendTaken(w, SendGeoFenceComplete(w), e)
           /\ e = "rally" => SendTaken(w, w, e)
<1>1. CASE e = "mission"
  <2>. DEFINE n == SendMissionComplete(w)
  <2>1. After(w, e) = IF Supports(w, "fence") THEN {"fence"} ELSE {"rally"}
    BY <1>1 DEF After
  <2>2. /\ Framed(w, n)
        /\ n.plan.flags \subseteq (w.plan.flags \ {"sendGeoFence"}) \cup {"sendRallyPoints"}
        /\ n.plan.requested = w.plan.requested
        /\ Starts(w, n, "send", After(w, e))
        /\ "sendGeoFence" \notin w.plan.flags => n = w
        /\ "sendGeoFence" \in w.plan.flags /\ "sendRallyPoints" \in n.plan.flags =>
              /\ Supports(w, "fence")
              /\ CanSync(w, "fence") => n.car[w.plan.vehicle].job["fence"] = "send"
    BY <2>1, MissionSendCompletes
  <2>. HIDE DEF n
  <2>3. e # "fence" /\ e # "rally"
    BY <1>1
  <2>4. SendTaken(w, n, e)
    <3>1. CASE "sendGeoFence" \in w.plan.flags
      BY <1>1, <2>2, <2>3, <3>1 DEF SendTaken
    <3>2. CASE "sendGeoFence" \notin w.plan.flags
      BY <1>1, <2>2, <2>3, <3>2 DEF SendTaken
    <3>. QED  BY <3>1, <3>2
  <2>. QED  BY <2>3, <2>4 DEF n
<1>2. CASE e = "fence"
  <2>. DEFINE n == SendGeoFenceComplete(w)
  <2>1. After(w, e) = {"rally"}
    BY <1>2 DEF After
  <2>2. /\ Framed(w, n)
        /\ n.plan.flags = w.plan.flags \ {"sendRallyPoints"}
        /\ n.plan.requested = w.plan.requested
        /\ Starts(w, n, "send", {"rally"})
        /\ "sendRallyPoints" \notin w.plan.flags => n = w
    BY GeoFenceSendCompletes
  <2>. HIDE DEF n
  <2>3. e # "mission" /\ e # "rally"
    BY <1>2
  <2>4. SendTaken(w, n, e)
    BY <1>2, <2>1, <2>2, <2>3 DEF SendTaken
  <2>. QED  BY <2>3, <2>4 DEF n
<1>3. CASE e = "rally"
  <2>1. Viewed(w, w) /\ Starts(w, w, "send", After(w, e))
    BY StartsNothing DEF Viewed
  <2>2. Framed(w, w)
    BY <2>1, ViewedIsFramed
  <2>3. e # "mission" /\ e # "fence"
    BY <1>3
  <2>4. SendTaken(w, w, e)
    BY <2>1, <2>2, <2>3 DEF SendTaken
  <2>. QED  BY <2>3, <2>4
<1>. QED  BY <1>1, <1>2, <1>3 DEF Elements

\* w is w0 with the job of e ended at v by the manager alone.
EndStep(w0, w, v, e) ==
    /\ Replaced(w0, w, v, w.car[v])
    /\ Works(w0.car[v], w.car[v]) /\ NoNewLoad(w0.car[v], w.car[v])
    /\ w.car[v].job = [w0.car[v].job EXCEPT ![e] = "none"]

\* n is w0 with a write of e ended at v, w the world before the slots of the Plan view.
SendStep(w0, w, n, v, e) ==
    /\ EndStep(w0, w, v, e)
    /\ v # w0.plan.vehicle => n = w
    /\ v = w0.plan.vehicle => SendTaken(w, n, e)

LEMMA EndingSteps ==
    ASSUME NEW w0 \in World, NEW v \in Vehicles, NEW e \in Elements,
           w0.car[v].job[e] # "load", NEW filled \in BOOLEAN
    PROVE  EndStep(w0, Ended(w0, v, e, filled), v, e)
<1>. DEFINE u == w0.car[v]
            m == EndJob(u, e, filled)
            w == [w0 EXCEPT !.car[v] = m]
<1>1. u \in VehicleRecord
  BY WorldFields
<1>2. /\ Works(u, m) /\ NoNewLoad(u, m)
      /\ m.job = [u.job EXCEPT ![e] = "none"]
  BY <1>1, JobEnds
<1>3. Ended(w0, v, e, filled) = w
  BY DEF Ended
<1>. HIDE DEF m
<1>4. Replaced(w0, w, v, m)
  BY <1>2, CarReplaced DEF Works
<1>. HIDE DEF w
<1>5. w.car[v] = m
  BY <1>4 DEF Replaced
<1>. QED  BY <1>2, <1>3, <1>4, <1>5 DEF EndStep

LEMMA SendEndingSteps ==
    ASSUME NEW w0 \in World, NEW v \in Vehicles, NEW e \in Elements,
           w0.car[v].job[e] # "load", NEW filled \in BOOLEAN
    PROVE  \E w : SendStep(w0, w, SendEnded(w0, v, e, filled), v, e)
<1>. DEFINE w == Ended(w0, v, e, filled)
            n == SendEnded(w0, v, e, filled)
<1>1. EndStep(w0, w, v, e)
  BY EndingSteps
<1>2. n = CASE v = w.plan.vehicle /\ e = "mission" -> SendMissionComplete(w)
            [] v = w.plan.vehicle /\ e = "fence"   -> SendGeoFenceComplete(w)
            [] OTHER -> w
  BY DEF SendEnded
<1>. HIDE DEF w
<1>3. w \in World /\ w.plan = w0.plan
  BY <1>1 DEF EndStep, Replaced
<1>4. v # w0.plan.vehicle => n = w
  BY <1>2, <1>3
<1>5. v = w0.plan.vehicle => SendTaken(w, n, e)
  <2>1. SUFFICES ASSUME v = w0.plan.vehicle
                 PROVE  SendTaken(w, n, e)
    OBVIOUS
  <2>2. CASE e = "mission"
    BY <1>2, <1>3, <2>1, <2>2, SendIsTaken
  <2>3. CASE e = "fence"
    BY <1>2, <1>3, <2>1, <2>3, SendIsTaken
  <2>4. CASE e = "rally"
    BY <1>2, <1>3, <2>1, <2>4, SendIsTaken
  <2>. QED  BY <2>2, <2>3, <2>4 DEF Elements
<1>. HIDE DEF n
<1>6. SendStep(w0, w, n, v, e)
  BY <1>1, <1>4, <1>5 DEF SendStep
<1>. QED  BY <1>6 DEF n

\* The end of a write changes jobs of its vehicle and no other.
LEMMA SendCars ==
    ASSUME NEW w0 \in World, NEW w, NEW n, NEW v \in Vehicles, NEW e \in Elements,
           VehicleInv(w0.car[v]), SendStep(w0, w, n, v, e)
    PROVE  OneCar(w0, n, v, {})
<1>. DEFINE u == w0.car[v]
            m == w.car[v]
<1>1. u \in VehicleRecord
  BY WorldFields
<1>2. /\ w \in World /\ w.plan = w0.plan /\ Works(u, m) /\ NoNewLoad(u, m)
      /\ \A x \in Vehicles : x # v => w.car[x] = w0.car[x]
  BY DEF SendStep, EndStep, Replaced
<1>3. CASE v # w0.plan.vehicle
  <2>1. n = w
    BY <1>3 DEF SendStep
  <2>2. \A h : CarStep(u, m, h, h, TRUE)
    BY <1>1, <1>2, CarWorks
  <2>3. \A h : h \cup {} = h
    OBVIOUS
  <2>. QED  BY <1>2, <2>1, <2>2, <2>3 DEF OneCar
<1>4. CASE v = w0.plan.vehicle
  <2>1. SendTaken(w, n, e) /\ w.plan.vehicle = v
    BY <1>2, <1>4 DEF SendStep
  <2>2. Framed(w, n) /\ Starts(w, n, "send", After(w, e))
    BY <2>1 DEF SendTaken
  <2>3. n \in World /\ Works(m, n.car[v])
        /\ \A x \in Vehicles : x # v => n.car[x] = w.car[x]
    BY <2>1, <2>2 DEF Framed
  <2>4. NoNewLoad(m, n.car[v])
    BY <2>2 DEF Starts, NoNewLoad
  <2>5. Works(u, n.car[v]) /\ NoNewLoad(u, n.car[v])
    BY <1>2, <2>3, <2>4, WorksIsTransitive DEF NoNewLoad
  <2>6. \A h : CarStep(u, n.car[v], h, h, TRUE)
    BY <1>1, <2>5, CarWorks
  <2>7. \A h : h \cup {} = h
    OBVIOUS
  <2>. QED  BY <1>2, <2>3, <2>6, <2>7 DEF OneCar
<1>. QED  BY <1>3, <1>4

LEMMA SendKeepsFlags ==
    ASSUME NEW w0 \in World, NEW w, NEW n, NEW v \in Vehicles, NEW e \in Elements,
           SendStep(w0, w, n, v, e), w0.car[v].job[e] \in {"send", "resume"}, NEW to
    PROVE  /\ n.plan.vehicle = w0.plan.vehicle
           /\ Uploading(w0, to) => Uploading(n, to)
           /\ Followed(w0) /\ (v = w0.plan.vehicle => ~Refused(w0, e)) => Followed(n)
<1>1. /\ w \in World /\ w.plan = w0.plan /\ Works(w0.car[v], w.car[v])
      /\ w.car[v].job = [w0.car[v].job EXCEPT ![e] = "none"]
      /\ \A x \in Vehicles : x # v => w.car[x] = w0.car[x]
  BY DEF SendStep, EndStep, Replaced
<1>2. CASE v # w0.plan.vehicle
  <2>1. n = w
    BY <1>2 DEF SendStep
  <2>2. \A f : Doing(w, f) = Doing(w0, f)
    BY <1>1, <1>2, WorldFields DEF Doing, IsOffline
  <2>. QED  BY <1>1, <2>1, <2>2 DEF Uploading, Followed
<1>3. CASE v = w0.plan.vehicle
  <2>. DEFINE u == w0.car[v]
              m == w.car[v]
              c == n.car[v]
  <2>1. SendTaken(w, n, e) /\ w.plan.vehicle = v
    BY <1>1, <1>3 DEF SendStep
  <2>2. n.plan.vehicle = v /\ v # Offline
    BY <2>1, OfflineIsNoVehicle DEF SendTaken, Framed
  <2>3. \A f : Doing(w0, f) = u.job[f] /\ Doing(n, f) = c.job[f]
    BY <1>3, <2>2 DEF Doing, IsOffline
  <2>4. JobsAdded(m, c)
    BY <2>1, StartsAdds DEF SendTaken
  <2>5. u \in VehicleRecord
    BY WorldFields
  <2>6. "mission" \in Elements /\ "fence" \in Elements
    BY DEF Elements
  <2>7. \A f \in Elements : f # e => m.job[f] = u.job[f]
    BY <1>1, <2>5 DEF VehicleRecord
  <2>8. \A f \in Elements : f # e => c.job[f] = u.job[f] \/ u.job[f] = "none"
    BY <2>4, <2>7 DEF JobsAdded
  <2>9. Uploading(w0, to) => Uploading(n, to)
    <3>1. ASSUME Uploading(w0, to), n.plan.flags \cap SendFlags # {}
          PROVE  to = n.plan.vehicle
      <4>1. w0.plan.flags \cap SendFlags # {}
        BY <1>1, <2>1, <3>1 DEF SendTaken, SendFlags
      <4>. QED  BY <1>3, <2>2, <3>1, <4>1 DEF Uploading
    <3>2. ASSUME Uploading(w0, to), "sendGeoFence" \in n.plan.flags
          PROVE  c.job["mission"] = "send"
      <4>1. "sendGeoFence" \in w0.plan.flags /\ e # "mission"
        BY <1>1, <2>1, <3>2 DEF SendTaken
      <4>. QED  BY <2>3, <2>6, <2>8, <3>2, <4>1 DEF Uploading
    <3>. QED  BY <2>3, <3>1, <3>2 DEF Uploading
  <2>10. ASSUME Followed(w0), ~Refused(w0, e)
         PROVE  Followed(n)
    <3>1. "loadGeoFence" \in n.plan.flags => c.job["mission"] = "load"
      BY <1>1, <2>1, <2>3, <2>6, <2>8, <2>10 DEF SendTaken, Followed
    <3>2. "loadRallyPoints" \in n.plan.flags => c.job["fence"] = "load"
      BY <1>1, <2>1, <2>3, <2>6, <2>8, <2>10 DEF SendTaken, Followed
    <3>3. "sendGeoFence" \in n.plan.flags => c.job["mission"] = "send"
      BY <1>1, <2>1, <2>3, <2>6, <2>8, <2>10 DEF SendTaken, Followed
    <3>4. "sendRallyPoints" \in n.plan.flags => c.job["fence"] = "send"
      <4>1. CASE e # "fence" /\ "sendRallyPoints" \in w0.plan.flags
        BY <2>3, <2>6, <2>8, <2>10, <4>1 DEF Followed
      <4>2. ASSUME e = "mission", "sendGeoFence" \in w.plan.flags, Supports(w, "fence"),
                   CanSync(w, "fence") => c.job["fence"] = "send"
            PROVE  c.job["fence"] = "send"
        <5>1. Supports(w0, "fence")
          BY <1>1, <1>3, <2>1, <4>2 DEF Supports, IsOffline, Works
        <5>2. u.job["fence"] = "none"
          BY <1>1, <1>3, <2>2, <2>10, <4>2, <5>1 DEF Refused, Busy, Idle, IsOffline
        <5>3. m.job["fence"] = "none"
          BY <2>6, <2>7, <4>2, <5>2
        <5>. QED  BY <2>1, <2>2, <4>2, <5>3 DEF CanSync, Busy, Idle, IsOffline
      <4>. QED  BY <1>1, <2>1, <4>1, <4>2 DEF SendTaken
    <3>. QED  BY <2>3, <3>1, <3>2, <3>3, <3>4 DEF Followed
  <2>. QED  BY <1>3, <2>2, <2>9, <2>10
<1>. QED  BY <1>2, <1>3

-----------------------------------------------------------------------------
(* The inductive invariant.                                                *)

\* Every vehicle has the advances its machine needs; its steps have done what they are there
\* for unless they were hindered, and come in order unless they were disturbed.
Cars ==
    \A v \in Vehicles :
        /\ VehicleInv(car[v])
        /\ v \notin hindered => car[v].at = 9 \/ ServedTo(car[v], car[v].at)
        /\ v \notin disturbed => Ordered(car[v], heard[v])

FlagsInv ==
    ~switched => /\ Uploading(world, uploadTo)
                 /\ ~refused => Followed(world)

\* What is asked for of a vehicle has been asked for by the user who gave up the plan.
Wants ==
    /\ noted \subseteq {"fence"}
    /\ ~switched /\ (Wanted # {} \/ plan.flags \cap LoadFlags # {}) =>
            givenUpFor = plan.vehicle

IInv == TypeOK /\ Cars /\ FlagsInv /\ Wants

\* A step that ends no load, and begins no write of a fence or of rally points.
Quiet ==
    \A v \in Vehicles, f \in Elements :
        \/ car'[v].job[f] = car[v].job[f]
        \/ car[v].job[f] # "load" /\ (car'[v].job[f] = "send" => f = "mission")

LEMMA WorldIsWorld ==
    ASSUME TypeOK
    PROVE  world \in World /\ world.car = car /\ world.plan = plan
BY DEF TypeOK, World, world

LEMMA Moved ==
    ASSUME NEW n \in World, Move(n)
    PROVE  /\ world' = n
           /\ car' \in [Vehicles -> VehicleRecord] /\ plan' \in PlanRecord
           /\ hindered \subseteq Vehicles => hindered' \subseteq Vehicles
           /\ car' = n.car /\ plan' = n.plan
<1>1. car' = n.car /\ plan' = n.plan
  BY DEF Move
<1>2. world' = [car |-> car', plan |-> plan']
  BY DEF world
<1>3. n = [car |-> n.car, plan |-> n.plan]
  BY DEF World
<1>4. hindered' = hindered \cup {v \in Vehicles : Hindered(n.car[v])}
  BY DEF Move
<1>. QED  BY <1>1, <1>2, <1>3, <1>4, WorldFields

LEMMA CarsKept ==
    ASSUME Cars, NEW n \in World, Move(n), disturbed \subseteq disturbed',
           \A v \in Vehicles : CarStep(car[v], n.car[v], heard[v], heard'[v],
                                       v \notin disturbed')
    PROVE  Cars'
<1>1. car' = n.car /\ hindered' = hindered \cup {v \in Vehicles : Hindered(n.car[v])}
  BY DEF Move
<1>2. ASSUME NEW v \in Vehicles
      PROVE  /\ VehicleInv(car'[v])
             /\ v \notin hindered' => car'[v].at = 9 \/ ServedTo(car'[v], car'[v].at)
             /\ v \notin disturbed' => Ordered(car'[v], heard'[v])
  <2>1. CarStep(car[v], car'[v], heard[v], heard'[v], v \notin disturbed')
    BY <1>1
  <2>2. ASSUME v \notin hindered'
        PROVE  car'[v].at = 9 \/ ServedTo(car'[v], car'[v].at)
    <3>1. v \notin hindered /\ ~Hindered(car'[v])
      BY <1>1, <2>2
    <3>. QED  BY <2>1, <3>1 DEF Cars, CarStep, Served
  <2>3. v \notin disturbed' => v \notin disturbed
    OBVIOUS
  <2>. QED  BY <2>1, <2>2, <2>3 DEF Cars, CarStep
<1>. QED  BY <1>2 DEF Cars

\* The transactions the flags are about are still under way.
LEMMA DoingKeepsFlags ==
    ASSUME NEW w, NEW n, n.plan.vehicle = w.plan.vehicle, n.plan.flags = w.plan.flags, NEW to,
           \A f \in Elements : Doing(w, f) \in {"load", "send"} => Doing(n, f) = Doing(w, f)
    PROVE  /\ Uploading(w, to) => Uploading(n, to)
           /\ Followed(w) => Followed(n)
<1>1. "mission" \in Elements /\ "fence" \in Elements
  BY DEF Elements
<1>. QED  BY <1>1 DEF Uploading, Followed

LEMMA AddedIsDoing ==
    ASSUME NEW w \in World, NEW n, n.plan.vehicle = w.plan.vehicle,
           w.plan.vehicle \in Vehicles => JobsAdded(w.car[w.plan.vehicle], n.car[w.plan.vehicle])
    PROVE  \A f \in Elements : Doing(w, f) \in {"load", "send"} => Doing(n, f) = Doing(w, f)
<1>1. w.plan.vehicle \in Vehicles \cup {Offline}
  BY WorldFields
<1>. QED  BY <1>1 DEF Doing, IsOffline, JobsAdded

\* A step that leaves the flags of the Plan view, the vehicle and the history alone.
LEMMA FlagsKept ==
    ASSUME TypeOK, FlagsInv, NEW n \in World, Move(n),
           n.plan.vehicle = plan.vehicle, n.plan.flags = plan.flags,
           \A f \in Elements : Doing(world, f) \in {"load", "send"} =>
                                    Doing(n, f) = Doing(world, f),
           switched' = switched, refused' = refused, uploadTo' = uploadTo
    PROVE  FlagsInv'
<1>1. world' = n /\ world.plan = plan
  BY Moved, WorldIsWorld
<1>2. /\ Uploading(world, uploadTo) => Uploading(n, uploadTo)
      /\ Followed(world) => Followed(n)
  BY <1>1, DoingKeepsFlags
<1>. QED  BY <1>1, <1>2 DEF FlagsInv

LEMMA WantsKept ==
    ASSUME Wants, plan'.requested \ noted' \subseteq plan.requested \ noted,
           plan'.flags \cap LoadFlags # {} => plan.flags \cap LoadFlags # {},
           plan'.vehicle = plan.vehicle, noted' \subseteq {"fence"},
           switched' = switched, givenUpFor' = givenUpFor
    PROVE  Wants'
<1>1. Wanted = plan.requested \ noted /\ Wanted' = plan'.requested \ noted'
  BY DEF Wanted
<1>. QED  BY <1>1 DEF Wants

-----------------------------------------------------------------------------
(* One lemma per action.                                                   *)

\* Nothing happens to a vehicle that stays as it is.
LEMMA CarStays ==
    ASSUME NEW u \in VehicleRecord, VehicleInv(u), NEW h, NEW kept
    PROVE  CarStep(u, u, h, h, kept)
<1>1. Works(u, u) /\ NoNewLoad(u, u)
  BY WorksIsReflexive DEF NoNewLoad
<1>. QED  BY <1>1, CarWorks

LEMMA CarsAre ==
    ASSUME TypeOK, Cars, NEW v \in Vehicles
    PROVE  /\ car[v] \in VehicleRecord /\ VehicleInv(car[v]) /\ heard[v] \in SUBSET StepNames
           /\ world.car[v] = car[v]
BY DEF TypeOK, Cars, world

\* Of all vehicles, only v has something new.
LEMMA OneCarSteps ==
    ASSUME TypeOK, Cars, NEW n \in World, Move(n), disturbed \subseteq disturbed',
           NEW v \in Vehicles,
           CarStep(car[v], n.car[v], heard[v], heard'[v], v \notin disturbed'),
           \A x \in Vehicles : x # v => n.car[x] = car[x] /\ heard'[x] = heard[x]
    PROVE  Cars'
<1>1. ASSUME NEW x \in Vehicles
      PROVE  CarStep(car[x], n.car[x], heard[x], heard'[x], x \notin disturbed')
  <2>1. CASE x = v
    BY <2>1
  <2>2. CASE x # v
    BY <2>2, CarsAre, CarStays
  <2>. QED  BY <2>1, <2>2
<1>. QED  BY <1>1, CarsKept

LEMMA AnsweredKeeps ==
    ASSUME IInv, NEW v \in Vehicles, NEW step \in StepNames, Answered(v, step)
    PROVE  IInv' /\ Quiet
<1>. DEFINE u == car[v]
            m == IF step \in WithHandler THEN HandlerCalled(u, step) ELSE ParametersReady(u)
            n == [world EXCEPT !.car[v] = m]
<1>0. TypeOK /\ Cars /\ FlagsInv /\ Wants
  BY DEF IInv
<1>1. world \in World /\ world.car = car /\ world.plan = plan
  BY <1>0, WorldIsWorld
<1>2. u \in VehicleRecord /\ VehicleInv(u) /\ heard[v] \in SUBSET StepNames
  BY <1>0, CarsAre
<1>3. step \in u.asked
  BY DEF Answered
<1>4. step \notin Elements /\ (step \in WithHandler \/ step = "parameters")
  BY <1>2, <1>3 DEF VehicleRecord, WithHandler, Elements
<1>5. Answers(u, m, step)
  BY <1>2, <1>3, <1>4, HandlerAnswers, ParametersAnswer
<1>6. Become(n)
  BY <1>1 DEF Answered
<1>. HIDE DEF m
<1>7. m \in VehicleRecord
  BY <1>5 DEF Answers
<1>8. Replaced(world, n, v, m)
  BY <1>1, <1>7, CarReplaced
<1>. HIDE DEF n
<1>9. n \in World /\ n.plan = plan /\ n.car[v] = m
      /\ \A x \in Vehicles : x # v => n.car[x] = car[x]
  BY <1>1, <1>8 DEF Replaced
<1>10. /\ Move(n) /\ noted' = noted \cap n.plan.requested
       /\ heard' = [heard EXCEPT ![v] = @ \cup {step}]
       /\ UNCHANGED << events, disturbed, uploadTo, givenUpFor, switched, refused >>
  BY <1>6 DEF Become, Answered, Heard
<1>11. TypeOK'
  <2>1. /\ car' \in [Vehicles -> VehicleRecord] /\ plan' \in PlanRecord
        /\ hindered \subseteq Vehicles => hindered' \subseteq Vehicles
    BY <1>9, <1>10, Moved
  <2>2. heard' \in [Vehicles -> SUBSET StepNames]
    BY <1>0, <1>10 DEF TypeOK
  <2>. QED  BY <1>0, <1>10, <2>1, <2>2 DEF TypeOK
<1>12. JobsAdded(u, m)
  BY <1>4, <1>5 DEF Answers, JobsAdded
<1>13. Cars'
  <2>1. heard'[v] = heard[v] \cup {step} /\ \A x \in Vehicles : x # v => heard'[x] = heard[x]
    BY <1>0, <1>10 DEF TypeOK
  <2>2. Works(m, m) /\ JobsAdded(m, m) /\ NoNewLoad(m, m)
    BY <1>7, WorksIsReflexive DEF JobsAdded, NoNewLoad
  <2>3. CarStep(u, m, heard[v], heard[v] \cup {step}, TRUE)
    BY <1>2, <1>5, <2>2, CarAnswers
  <2>4. CarStep(u, m, heard[v], heard'[v], v \notin disturbed')
    BY <2>1, <2>3 DEF CarStep
  <2>. QED  BY <1>0, <1>9, <1>10, <2>1, <2>4, OneCarSteps
<1>14. FlagsInv'
  <2>1. plan.vehicle \in Vehicles => JobsAdded(car[plan.vehicle], n.car[plan.vehicle])
    BY <1>9, <1>12 DEF JobsAdded
  <2>2. \A f \in Elements : Doing(world, f) \in {"load", "send"} => Doing(n, f) = Doing(world, f)
    BY <1>1, <1>9, <2>1, AddedIsDoing
  <2>. QED  BY <1>0, <1>9, <1>10, <2>2, FlagsKept
<1>15. Wants'
  <2>1. plan' = plan
    BY <1>9, <1>10 DEF Move
  <2>. QED  BY <1>0, <1>9, <1>10, <2>1, WantsKept DEF Wants
<1>16. Quiet
  <2>1. car' = n.car
    BY <1>10 DEF Move
  <2>2. \A f \in Elements : m.job[f] = u.job[f] \/ (u.job[f] = "none" /\ m.job[f] = "load")
    BY <1>4, <1>5 DEF Answers
  <2>. QED  BY <1>9, <2>1, <2>2 DEF Quiet
<1>. QED  BY <1>11, <1>13, <1>14, <1>15, <1>16 DEF IInv

LEMMA LoadEndsKeeps ==
    ASSUME IInv, NEW v \in Vehicles, NEW e \in Elements, LoadEnds(v, e)
    PROVE  IInv'
<1>0. TypeOK /\ Cars /\ FlagsInv /\ Wants
  BY DEF IInv
<1>1. world \in World /\ world.car = car /\ world.plan = plan
  BY <1>0, WorldIsWorld
<1>2. car[v] \in VehicleRecord /\ VehicleInv(car[v]) /\ heard[v] \in SUBSET StepNames
  BY <1>0, CarsAre
<1>3. car[v].job[e] = "load"
  BY DEF LoadEnds
<1>4. PICK filled \in BOOLEAN : Become(LoadEnded(world, v, e, filled))
  BY DEF LoadEnds
<1>. DEFINE n == LoadEnded(world, v, e, filled)
<1>5. PICK w : LoadStep(world, w, n, v, e)
  BY <1>1, <1>2, <1>3, LoadEndingSteps
<1>6. Become(n)
  BY <1>4
<1>. HIDE DEF n
<1>7. /\ n \in World
      /\ CarStep(car[v], n.car[v], heard[v], heard[v] \cup {e}, TRUE)
      /\ \A x \in Vehicles : x # v => n.car[x] = car[x]
  <2>1. world \in World /\ VehicleInv(world.car[v])
    BY <1>1, <1>2
  <2>2. OneCar(world, n, v, {e})
    BY <1>5, <2>1, LoadCars
  <2>. QED  BY <1>1, <1>2, <2>2 DEF OneCar
<1>8. /\ Move(n) /\ noted' = noted \cap n.plan.requested
      /\ heard' = [heard EXCEPT ![v] = @ \cup {e}]
      /\ UNCHANGED << events, disturbed, uploadTo, givenUpFor, switched >>
      /\ refused' = (refused \/ (v = plan.vehicle /\ Refused(world, e)))
  BY <1>6 DEF Become, LoadEnds, Heard
<1>9. plan' = n.plan /\ world' = n
  BY <1>7, <1>8, Moved
<1>10. TypeOK'
  <2>1. /\ car' \in [Vehicles -> VehicleRecord] /\ plan' \in PlanRecord
        /\ hindered \subseteq Vehicles => hindered' \subseteq Vehicles
    BY <1>7, <1>8, Moved
  <2>2. e \in StepNames
    BY StepNumbers DEF StepNames, Elements
  <2>3. heard' \in [Vehicles -> SUBSET StepNames]
    BY <1>0, <1>8, <2>2 DEF TypeOK
  <2>4. refused' \in BOOLEAN
    BY <1>8
  <2>. QED  BY <1>0, <1>8, <2>1, <2>3, <2>4 DEF TypeOK
<1>11. Cars'
  <2>1. heard'[v] = heard[v] \cup {e} /\ \A x \in Vehicles : x # v => heard'[x] = heard[x]
    BY <1>0, <1>8 DEF TypeOK
  <2>2. CarStep(car[v], n.car[v], heard[v], heard'[v], v \notin disturbed')
    BY <1>7, <2>1 DEF CarStep
  <2>. QED  BY <1>0, <1>7, <1>8, <2>1, <2>2, OneCarSteps
<1>12. /\ n.plan.vehicle = plan.vehicle
       /\ Uploading(world, uploadTo) => Uploading(n, uploadTo)
       /\ Followed(world) /\ (v = plan.vehicle => ~Refused(world, e)) => Followed(n)
  BY <1>1, <1>3, <1>5, LoadKeepsFlags
<1>13. FlagsInv'
  <2>1. ~refused' => ~refused /\ (v = plan.vehicle => ~Refused(world, e))
    BY <1>8
  <2>. QED  BY <1>0, <1>8, <1>9, <1>12, <2>1 DEF FlagsInv
<1>14. w.plan = plan
  BY <1>1, <1>5 DEF LoadStep, Replaced
<1>15. Wants'
  <2>1. Wanted = plan.requested \ noted /\ Wanted' = plan'.requested \ noted'
    BY DEF Wanted
  <2>2. noted' \subseteq {"fence"}
    BY <1>0, <1>8 DEF Wants
  <2>3. ASSUME Wanted' # {} \/ plan'.flags \cap LoadFlags # {}
        PROVE  Wanted # {} \/ plan.flags \cap LoadFlags # {}
    <3>1. CASE v # plan.vehicle
      <4>1. n.plan = plan
        BY <1>1, <1>5, <1>14, <3>1 DEF LoadStep
      <4>. QED  BY <1>8, <1>9, <2>1, <2>3, <4>1
    <3>2. CASE v = plan.vehicle
      <4>1. plan.flags \cap LoadFlags = {} =>
                n.plan.flags = plan.flags /\ n.plan.requested \subseteq plan.requested
        BY <1>1, <1>5, <1>14, <3>2 DEF LoadStep, LoadTaken
      <4>. QED  BY <1>8, <1>9, <2>1, <2>3, <4>1
    <3>. QED  BY <3>1, <3>2
  <2>. QED  BY <1>0, <1>8, <1>9, <1>12, <2>2, <2>3 DEF Wants
<1>. QED  BY <1>10, <1>11, <1>13, <1>15 DEF IInv

LEMMA SendEndsKeeps ==
    ASSUME IInv, NEW v \in Vehicles, NEW e \in Elements, SendEnds(v, e)
    PROVE  IInv'
<1>0. TypeOK /\ Cars /\ FlagsInv /\ Wants
  BY DEF IInv
<1>1. world \in World /\ world.car = car /\ world.plan = plan
  BY <1>0, WorldIsWorld
<1>2. car[v] \in VehicleRecord /\ VehicleInv(car[v]) /\ heard[v] \in SUBSET StepNames
  BY <1>0, CarsAre
<1>3. car[v].job[e] \in {"send", "resume"} /\ car[v].job[e] # "load"
  BY DEF SendEnds
<1>4. PICK filled \in BOOLEAN : Become(SendEnded(world, v, e, filled))
  BY DEF SendEnds
<1>. DEFINE n == SendEnded(world, v, e, filled)
<1>5. PICK w : SendStep(world, w, n, v, e)
  BY <1>1, <1>3, SendEndingSteps
<1>6. Become(n)
  BY <1>4
<1>. HIDE DEF n
<1>7. /\ n \in World
      /\ CarStep(car[v], n.car[v], heard[v], heard[v], TRUE)
      /\ \A x \in Vehicles : x # v => n.car[x] = car[x]
  <2>1. world \in World /\ VehicleInv(world.car[v])
    BY <1>1, <1>2
  <2>2. OneCar(world, n, v, {})
    BY <1>5, <2>1, SendCars
  <2>3. heard[v] \cup {} = heard[v]
    OBVIOUS
  <2>. QED  BY <1>1, <1>2, <2>2, <2>3 DEF OneCar
<1>8. /\ Move(n) /\ noted' = noted \cap n.plan.requested
      /\ UNCHANGED << events, heard, disturbed, uploadTo, givenUpFor, switched >>
      /\ refused' = (refused \/ (v = plan.vehicle /\ Refused(world, e)))
  BY <1>6 DEF Become, SendEnds
<1>9. plan' = n.plan /\ world' = n
  BY <1>7, <1>8, Moved
<1>10. TypeOK'
  <2>1. /\ car' \in [Vehicles -> VehicleRecord] /\ plan' \in PlanRecord
        /\ hindered \subseteq Vehicles => hindered' \subseteq Vehicles
    BY <1>7, <1>8, Moved
  <2>2. refused' \in BOOLEAN
    BY <1>8
  <2>. QED  BY <1>0, <1>8, <2>1, <2>2 DEF TypeOK
<1>11. Cars'
  <2>1. CarStep(car[v], n.car[v], heard[v], heard'[v], v \notin disturbed')
    BY <1>7, <1>8 DEF CarStep
  <2>. QED  BY <1>0, <1>7, <1>8, <2>1, OneCarSteps
<1>12. /\ n.plan.vehicle = plan.vehicle
       /\ Uploading(world, uploadTo) => Uploading(n, uploadTo)
       /\ Followed(world) /\ (v = plan.vehicle => ~Refused(world, e)) => Followed(n)
  BY <1>1, <1>3, <1>5, SendKeepsFlags
<1>13. FlagsInv'
  <2>1. ~refused' => ~refused /\ (v = plan.vehicle => ~Refused(world, e))
    BY <1>8
  <2>. QED  BY <1>0, <1>8, <1>9, <1>12, <2>1 DEF FlagsInv
<1>14. w.plan = plan
  BY <1>1, <1>5 DEF SendStep, EndStep, Replaced
<1>15. Wants'
  <2>1. n.plan.requested = plan.requested
        /\ n.plan.flags \subseteq plan.flags \cup {"sendRallyPoints"}
    <3>1. CASE v # plan.vehicle
      BY <1>1, <1>5, <1>14, <3>1 DEF SendStep
    <3>2. CASE v = plan.vehicle
      BY <1>1, <1>5, <1>14, <3>2 DEF SendStep, SendTaken
    <3>. QED  BY <3>1, <3>2
  <2>2. plan'.flags \cap LoadFlags # {} => plan.flags \cap LoadFlags # {}
    BY <1>9, <2>1 DEF LoadFlags
  <2>3. noted' \subseteq {"fence"}
    BY <1>0, <1>8 DEF Wants
  <2>4. plan'.requested \ noted' \subseteq plan.requested \ noted
    BY <1>8, <1>9, <2>1
  <2>. QED  BY <1>0, <1>8, <1>9, <1>12, <2>2, <2>3, <2>4, WantsKept
<1>. QED  BY <1>10, <1>11, <1>13, <1>15 DEF IInv

\* n is w0 after the end of a write of v that no flag is about, and what is shown then.
WriteEnded(w0, n, v) ==
    /\ OneCar(w0, n, v, {})
    /\ n.plan.vehicle = w0.plan.vehicle /\ n.plan.flags = w0.plan.flags
    /\ n.plan.requested \subseteq w0.plan.requested \cup {"fence"}
    /\ \A f \in Elements : Doing(w0, f) \in {"load", "send"} => Doing(n, f) = Doing(w0, f)
    /\ \A f \in Elements : \/ n.car[v].job[f] = w0.car[v].job[f]
                           \/ w0.car[v].job[f] # "load" /\ n.car[v].job[f] = "none"

\* The end of a removal, or of a guided write, and what the Plan view may show after it.
LEMMA EndedAndShown ==
    ASSUME NEW w0 \in World, NEW w, NEW n, NEW v \in Vehicles, NEW e \in Elements,
           VehicleInv(w0.car[v]), EndStep(w0, w, v, e),
           w0.car[v].job[e] \notin {"load", "send"},
           n = w \/ (v = w0.plan.vehicle /\ Shown(w, n))
    PROVE  WriteEnded(w0, n, v)
<1>. DEFINE u == w0.car[v]
            m == w.car[v]
            c == n.car[v]
<1>1. u \in VehicleRecord
  BY WorldFields
<1>2. /\ w \in World /\ w.plan = w0.plan /\ Works(u, m) /\ NoNewLoad(u, m)
      /\ m.job = [u.job EXCEPT ![e] = "none"]
      /\ \A x \in Vehicles : x # v => w.car[x] = w0.car[x]
  BY DEF EndStep, Replaced
<1>3. Works(m, m)
  BY <1>2, WorksIsReflexive DEF Works
<1>4. /\ n \in World /\ n.plan.vehicle = w0.plan.vehicle /\ n.plan.flags = w0.plan.flags
      /\ n.plan.requested \subseteq w0.plan.requested \cup {"fence"}
      /\ Works(m, c) /\ c.job = m.job
      /\ \A x \in Vehicles : x # v => n.car[x] = w0.car[x]
  <2>1. CASE n = w
    BY <1>2, <1>3, <2>1
  <2>2. CASE v = w0.plan.vehicle /\ Shown(w, n)
    BY <1>2, <2>2 DEF Shown, Framed
  <2>. QED  BY <2>1, <2>2
<1>5. Works(u, c) /\ NoNewLoad(u, c)
  BY <1>2, <1>4, WorksIsTransitive DEF NoNewLoad
<1>6. \A h : CarStep(u, c, h, h, TRUE)
  BY <1>1, <1>5, CarWorks
<1>7. OneCar(w0, n, v, {})
  <2>1. \A h : h \cup {} = h
    OBVIOUS
  <2>. QED  BY <1>4, <1>6, <2>1 DEF OneCar
<1>8. ASSUME NEW f \in Elements, Doing(w0, f) \in {"load", "send"}
      PROVE  Doing(n, f) = Doing(w0, f)
  <2>1. ~IsOffline(w0) /\ ~IsOffline(n)
    BY <1>4, <1>8 DEF Doing, IsOffline
  <2>2. CASE v = w0.plan.vehicle
    <3>1. Doing(w0, f) = u.job[f] /\ Doing(n, f) = c.job[f]
      BY <1>4, <2>1, <2>2 DEF Doing
    <3>2. f # e
      BY <1>8, <3>1
    <3>3. m.job[f] = u.job[f]
      BY <1>1, <1>2, <3>2 DEF VehicleRecord
    <3>. QED  BY <1>4, <3>1, <3>3
  <2>3. CASE v # w0.plan.vehicle
    <3>1. w0.plan.vehicle \in Vehicles
      BY <2>1, WorldFields DEF IsOffline
    <3>. QED  BY <1>4, <2>1, <2>3, <3>1 DEF Doing
  <2>. QED  BY <2>2, <2>3
<1>9. \A f \in Elements : c.job[f] = u.job[f] \/ (u.job[f] # "load" /\ c.job[f] = "none")
  BY <1>1, <1>2, <1>4 DEF VehicleRecord
<1>. QED  BY <1>4, <1>7, <1>8, <1>9 DEF WriteEnded

LEMMA RemoveEndsKeeps ==
    ASSUME IInv, NEW v \in Vehicles, NEW e \in Elements, RemoveEnds(v, e)
    PROVE  IInv' /\ Quiet
<1>0. TypeOK /\ Cars /\ FlagsInv /\ Wants
  BY DEF IInv
<1>1. world \in World /\ world.car = car /\ world.plan = plan
  BY <1>0, WorldIsWorld
<1>2. world.car[v] \in VehicleRecord /\ VehicleInv(world.car[v]) /\ heard[v] \in SUBSET StepNames
  BY <1>0, CarsAre
<1>3. world.car[v].job[e] \notin {"load", "send"} /\ world.car[v].job[e] # "load"
  BY <1>1 DEF RemoveEnds
<1>4. PICK ok \in BOOLEAN : BecomeNoting(RemoveEnded(world, v, e, ok))
  BY DEF RemoveEnds
<1>. DEFINE n == RemoveEnded(world, v, e, ok)
            w == Ended(world, v, e, FALSE)
<1>5. EndStep(world, w, v, e)
  BY <1>1, <1>3, EndingSteps
<1>6. BecomeNoting(n)
  BY <1>4
<1>7. n = IF v = w.plan.vehicle /\ ok THEN ShowElement(w, e) ELSE w
  BY DEF RemoveEnded
<1>. HIDE DEF n, w
<1>8. w \in World /\ w.plan = world.plan
  BY <1>5 DEF EndStep, Replaced
<1>9. n = w \/ (v = world.plan.vehicle /\ Shown(w, n))
  BY <1>7, <1>8, ElementIsShown
<1>10. /\ OneCar(world, n, v, {})
       /\ n.plan.vehicle = world.plan.vehicle /\ n.plan.flags = world.plan.flags
       /\ n.plan.requested \subseteq world.plan.requested \cup {"fence"}
       /\ \A f \in Elements : Doing(world, f) \in {"load", "send"} =>
                                   Doing(n, f) = Doing(world, f)
       /\ \A f \in Elements : \/ n.car[v].job[f] = world.car[v].job[f]
                              \/ world.car[v].job[f] # "load" /\ n.car[v].job[f] = "none"
  <2>1. WriteEnded(world, n, v)
    BY <1>1, <1>2, <1>3, <1>5, <1>9, EndedAndShown
  <2>. QED  BY <2>1 DEF WriteEnded
<1>11. /\ n \in World
       /\ CarStep(car[v], n.car[v], heard[v], heard[v], TRUE)
       /\ \A x \in Vehicles : x # v => n.car[x] = car[x]
  <2>1. heard[v] \cup {} = heard[v]
    OBVIOUS
  <2>. QED  BY <1>1, <1>2, <1>10, <2>1 DEF OneCar
<1>12. /\ Move(n) /\ noted' = (noted \cup (Elements \ plan.requested)) \cap n.plan.requested
       /\ UNCHANGED << events, heard, disturbed, uploadTo, givenUpFor, switched, refused >>
  BY <1>6, <1>11, Moved DEF BecomeNoting, Move, RemoveEnds
<1>13. plan' = n.plan
  BY <1>11, <1>12, Moved
<1>14. noted' \subseteq {"fence"}
  BY <1>0, <1>1, <1>10, <1>12 DEF Wants
<1>15. TypeOK'
  <2>1. /\ car' \in [Vehicles -> VehicleRecord] /\ plan' \in PlanRecord
        /\ hindered \subseteq Vehicles => hindered' \subseteq Vehicles
    BY <1>11, <1>12, Moved
  <2>2. noted' \subseteq Elements
    BY <1>14 DEF Elements
  <2>. QED  BY <1>0, <1>12, <2>1, <2>2 DEF TypeOK
<1>16. Cars'
  <2>1. CarStep(car[v], n.car[v], heard[v], heard'[v], v \notin disturbed')
    BY <1>11, <1>12 DEF CarStep
  <2>. QED  BY <1>0, <1>11, <1>12, <2>1, OneCarSteps
<1>17. FlagsInv'
  BY <1>0, <1>1, <1>10, <1>11, <1>12, FlagsKept
<1>18. Wants'
  <2>1. plan.requested \subseteq Elements /\ n.plan.requested \subseteq Elements
    BY <1>1, <1>11, WorldFields
  <2>2. plan'.requested \ noted' \subseteq plan.requested \ noted
    BY <1>12, <1>13, <2>1
  <2>. QED  BY <1>0, <1>1, <1>10, <1>12, <1>13, <1>14, <2>2, WantsKept
<1>19. Quiet
  <2>1. car' = n.car
    BY <1>12 DEF Move
  <2>. QED  BY <1>1, <1>10, <1>11, <2>1 DEF Quiet
<1>. QED  BY <1>15, <1>16, <1>17, <1>18, <1>19 DEF IInv

LEMMA GuidedEndsKeeps ==
    ASSUME IInv, NEW v \in Vehicles, GuidedEnds(v)
    PROVE  IInv' /\ Quiet
<1>0. TypeOK /\ Cars /\ FlagsInv /\ Wants
  BY DEF IInv
<1>1. world \in World /\ world.car = car /\ world.plan = plan
  BY <1>0, WorldIsWorld
<1>2. world.car[v] \in VehicleRecord /\ VehicleInv(world.car[v]) /\ heard[v] \in SUBSET StepNames
  BY <1>0, CarsAre
<1>. DEFINE e == "mission"
            filled == e \in car[v].listed
            n == Ended(world, v, e, filled)
<1>3. world.car[v].job[e] \notin {"load", "send"} /\ world.car[v].job[e] # "load"
  BY <1>1 DEF GuidedEnds
<1>4. e \in Elements /\ filled \in BOOLEAN
  BY DEF Elements
<1>5. Become(n)
  BY DEF GuidedEnds
<1>. HIDE DEF e, filled
<1>6. EndStep(world, n, v, e)
  BY <1>1, <1>3, <1>4, EndingSteps
<1>. HIDE DEF n
<1>7. /\ OneCar(world, n, v, {})
      /\ n.plan.vehicle = world.plan.vehicle /\ n.plan.flags = world.plan.flags
      /\ n.plan.requested \subseteq world.plan.requested \cup {"fence"}
      /\ \A f \in Elements : Doing(world, f) \in {"load", "send"} =>
                                  Doing(n, f) = Doing(world, f)
      /\ \A f \in Elements : \/ n.car[v].job[f] = world.car[v].job[f]
                             \/ world.car[v].job[f] # "load" /\ n.car[v].job[f] = "none"
  <2>1. WriteEnded(world, n, v)
    BY <1>1, <1>2, <1>3, <1>4, <1>6, EndedAndShown
  <2>. QED  BY <2>1 DEF WriteEnded
<1>8. /\ n \in World /\ n.plan = plan
      /\ CarStep(car[v], n.car[v], heard[v], heard[v], TRUE)
      /\ \A x \in Vehicles : x # v => n.car[x] = car[x]
  <2>1. heard[v] \cup {} = heard[v]
    OBVIOUS
  <2>. QED  BY <1>1, <1>2, <1>6, <1>7, <2>1 DEF OneCar, EndStep, Replaced
<1>9. /\ Move(n) /\ noted' = noted \cap n.plan.requested
      /\ UNCHANGED << events, heard, disturbed, uploadTo, givenUpFor, switched, refused >>
  BY <1>5 DEF Become, GuidedEnds
<1>10. plan' = plan
  BY <1>8, <1>9, Moved
<1>11. TypeOK'
  <2>1. /\ car' \in [Vehicles -> VehicleRecord] /\ plan' \in PlanRecord
        /\ hindered \subseteq Vehicles => hindered' \subseteq Vehicles
    BY <1>8, <1>9, Moved
  <2>. QED  BY <1>0, <1>9, <2>1 DEF TypeOK
<1>12. Cars'
  <2>1. CarStep(car[v], n.car[v], heard[v], heard'[v], v \notin disturbed')
    BY <1>8, <1>9 DEF CarStep
  <2>. QED  BY <1>0, <1>8, <1>9, <2>1, OneCarSteps
<1>13. FlagsInv'
  BY <1>0, <1>7, <1>8, <1>9, FlagsKept
<1>14. Wants'
  BY <1>0, <1>8, <1>9, <1>10, WantsKept DEF Wants
<1>15. Quiet
  <2>1. car' = n.car
    BY <1>9 DEF Move
  <2>. QED  BY <1>1, <1>7, <1>8, <2>1 DEF Quiet
<1>. QED  BY <1>11, <1>12, <1>13, <1>14, <1>15 DEF IInv

\* A step of the Plan view or the Fly view, which gives jobs to idle managers.
LEMMA FramedCars ==
    ASSUME TypeOK, Cars, NEW n, Framed(world, n), Move(n), heard' = heard,
           disturbed \subseteq disturbed',
           \A v \in Vehicles : v \in disturbed' \/ car[v].at = 9 \/ NoNewLoad(car[v], n.car[v])
    PROVE  Cars'
<1>1. n \in World /\ \A v \in Vehicles : Works(car[v], n.car[v])
  BY WorldIsWorld DEF Framed
<1>2. ASSUME NEW v \in Vehicles
      PROVE  CarStep(car[v], n.car[v], heard[v], heard'[v], v \notin disturbed')
  <2>1. CarStep(car[v], n.car[v], heard[v], heard[v], v \notin disturbed')
    BY <1>1, CarsAre, CarWorks
  <2>. QED  BY <2>1
<1>. QED  BY <1>1, <1>2, CarsKept

\* The same of a step that only brings a manager to do `what`, no load.
LEMMA NothingLoads ==
    ASSUME NEW w, NEW n, NEW what, what # "load", NEW S, Starts(w, n, what, S)
    PROVE  \A v \in Vehicles : NoNewLoad(w.car[v], n.car[v])
BY DEF Starts, NoNewLoad

LEMMA NothingUnderWay ==
    ASSUME TypeOK, ButtonsEnabled
    PROVE  /\ plan.vehicle \in Vehicles /\ CanSync(world, "mission")
           /\ \A f \in Elements : Doing(world, f) = "none" /\ CanSync(world, f)
           /\ Followed(world) => plan.flags = {}
<1>1. world \in World /\ world.car = car /\ world.plan = plan
  BY WorldIsWorld
<1>2. ~IsOffline(world) /\ \A f \in Elements : ~Busy(world, f)
  BY DEF ButtonsEnabled, Online, SyncInProgress
<1>3. plan.vehicle \in Vehicles
  BY <1>1, <1>2, WorldFields DEF IsOffline
<1>4. \A f \in Elements : Doing(world, f) = "none" /\ CanSync(world, f)
  BY <1>1, <1>2 DEF Doing, Busy, Idle, CanSync
<1>5. "mission" \in Elements /\ "fence" \in Elements
  BY DEF Elements
<1>6. Followed(world) => plan.flags = {}
  <2>1. plan.flags \in SUBSET Flags
    BY <1>1, WorldFields
  <2>. QED  BY <1>1, <1>4, <1>5, <2>1 DEF Followed, Flags
<1>. QED  BY <1>3, <1>4, <1>5, <1>6

LEMMA TypeKept ==
    ASSUME TypeOK, NEW n \in World, Move(n), noted' \subseteq noted \cup {"fence"},
           Count \/ UNCHANGED events,
           heard' = heard, disturbed' \subseteq Vehicles,
           uploadTo' \in Vehicles \cup {Offline}, givenUpFor' \in Vehicles \cup {Offline},
           switched' \in BOOLEAN, refused' = refused
    PROVE  TypeOK'
<1>1. /\ car' \in [Vehicles -> VehicleRecord] /\ plan' \in PlanRecord
      /\ hindered \subseteq Vehicles => hindered' \subseteq Vehicles
  BY Moved
<1>2. events' \in 0 .. MaxEvents
  BY MaxEventsIsNat DEF TypeOK, Count
<1>3. noted' \subseteq Elements
  BY DEF TypeOK, Elements
<1>. QED  BY <1>1, <1>2, <1>3 DEF TypeOK

LEMMA DownloadKeeps ==
    ASSUME IInv, Download
    PROVE  IInv' /\ Quiet
<1>0. TypeOK /\ Cars /\ FlagsInv /\ Wants
  BY DEF IInv
<1>1. world \in World /\ world.car = car /\ world.plan = plan
  BY <1>0, WorldIsWorld
<1>. DEFINE n == LoadFromVehicle(world)
<1>2. /\ Framed(world, n) /\ n.plan.flags = plan.flags \cup {"loadGeoFence"}
      /\ Starts(world, n, "load", {"mission"})
      /\ CanSync(world, "mission") => n.car[plan.vehicle].job["mission"] = "load"
  BY <1>1, LoadsFromVehicle
<1>. HIDE DEF n
<1>3. /\ n \in World /\ n.plan.vehicle = plan.vehicle
  BY <1>1, <1>2 DEF Framed
<1>4. /\ Move(n) /\ noted' = noted \cap n.plan.requested /\ ButtonsEnabled /\ Count
      /\ disturbed' = IF Connecting(plan.vehicle) THEN disturbed \cup {plan.vehicle}
                      ELSE disturbed
      /\ givenUpFor' = plan.vehicle
      /\ UNCHANGED << heard, uploadTo, switched, refused >>
  BY DEF Download, Become, n
<1>5. /\ plan.vehicle \in Vehicles
      /\ \A f \in Elements : Doing(world, f) = "none"
      /\ Followed(world) => plan.flags = {}
      /\ n.car[plan.vehicle].job["mission"] = "load"
  BY <1>0, <1>2, <1>4, NothingUnderWay
<1>6. plan' = n.plan /\ world' = n
  BY <1>3, <1>4, Moved
<1>7. TypeOK'
  <2>1. disturbed' \subseteq Vehicles /\ uploadTo' \in Vehicles \cup {Offline}
        /\ switched' \in BOOLEAN
    BY <1>0, <1>4, <1>5 DEF TypeOK
  <2>. QED  BY <1>0, <1>3, <1>4, <1>5, <2>1, TypeKept
<1>8. Cars'
  <2>1. ASSUME NEW v \in Vehicles
        PROVE  v \in disturbed' \/ car[v].at = 9 \/ NoNewLoad(car[v], n.car[v])
    <3>1. CASE v = plan.vehicle
      BY <1>4, <3>1, StepNumbers DEF Connecting
    <3>2. CASE v # plan.vehicle
      BY <1>1, <1>2, <3>2 DEF Framed, NoNewLoad
    <3>. QED  BY <3>1, <3>2
  <2>2. disturbed \subseteq disturbed'
    BY <1>4
  <2>. QED  BY <1>0, <1>2, <1>4, <2>1, <2>2, FramedCars
<1>9. FlagsInv'
  <2>0. "mission" \in Elements
    BY DEF Elements
  <2>1. Doing(n, "mission") = "load"
    BY <1>3, <1>5, OfflineIsNoVehicle DEF Doing, IsOffline
  <2>2. Uploading(world, uploadTo) => Uploading(n, uploadTo)
    BY <1>1, <1>2, <1>3, <1>5, <2>0 DEF Uploading, SendFlags
  <2>3. Followed(world) => Followed(n)
    <3>1. SUFFICES ASSUME Followed(world)
                   PROVE  Followed(n)
      OBVIOUS
    <3>2. n.plan.flags = {"loadGeoFence"}
      BY <1>2, <1>5, <3>1
    <3>. QED  BY <2>1, <3>2 DEF Followed
  <2>. QED  BY <1>0, <1>4, <1>6, <2>2, <2>3 DEF FlagsInv
<1>10. Wants'
  BY <1>0, <1>3, <1>4, <1>6 DEF Wants
<1>11. Quiet
  <2>1. car' = n.car
    BY <1>4 DEF Move
  <2>. QED  BY <1>1, <1>2, <2>1 DEF Quiet, Starts
<1>. QED  BY <1>7, <1>8, <1>9, <1>10, <1>11 DEF IInv

LEMMA UploadKeeps ==
    ASSUME IInv, Upload
    PROVE  IInv' /\ Quiet
<1>0. TypeOK /\ Cars /\ FlagsInv /\ Wants
  BY DEF IInv
<1>1. world \in World /\ world.car = car /\ world.plan = plan
  BY <1>0, WorldIsWorld
<1>. DEFINE n == SendToVehicle(world)
<1>2. /\ Framed(world, n) /\ n.plan.flags = plan.flags \cup {"sendGeoFence"}
      /\ n.plan.requested = plan.requested
      /\ Starts(world, n, "send", {"mission"})
      /\ CanSync(world, "mission") => n.car[plan.vehicle].job["mission"] = "send"
  BY <1>1, SendsToVehicle
<1>. HIDE DEF n
<1>3. /\ n \in World /\ n.plan.vehicle = plan.vehicle
  BY <1>1, <1>2 DEF Framed
<1>4. /\ Move(n) /\ noted' = noted \cap n.plan.requested /\ ButtonsEnabled /\ Count
      /\ uploadTo' = plan.vehicle
      /\ UNCHANGED << heard, disturbed, givenUpFor, switched, refused >>
  BY DEF Upload, Become, n
<1>5. /\ plan.vehicle \in Vehicles
      /\ \A f \in Elements : Doing(world, f) = "none"
      /\ Followed(world) => plan.flags = {}
      /\ n.car[plan.vehicle].job["mission"] = "send"
  BY <1>0, <1>2, <1>4, NothingUnderWay
<1>6. plan' = n.plan /\ world' = n
  BY <1>3, <1>4, Moved
<1>7. TypeOK'
  <2>1. disturbed' \subseteq Vehicles /\ givenUpFor' \in Vehicles \cup {Offline}
        /\ switched' \in BOOLEAN
    BY <1>0, <1>4 DEF TypeOK
  <2>. QED  BY <1>0, <1>3, <1>4, <1>5, <2>1, TypeKept
<1>8. Cars'
  <2>1. \A v \in Vehicles : NoNewLoad(world.car[v], n.car[v])
    BY <1>2, NothingLoads
  <2>. QED  BY <1>0, <1>1, <1>2, <1>4, <2>1, FramedCars
<1>9. FlagsInv'
  <2>1. Doing(n, "mission") = "send"
    BY <1>3, <1>5, OfflineIsNoVehicle DEF Doing, IsOffline
  <2>2. Uploading(n, uploadTo')
    BY <1>3, <1>4, <2>1 DEF Uploading
  <2>3. Followed(world) => Followed(n)
    <3>1. SUFFICES ASSUME Followed(world)
                   PROVE  Followed(n)
      OBVIOUS
    <3>2. n.plan.flags = {"sendGeoFence"}
      BY <1>2, <1>5, <3>1
    <3>. QED  BY <2>1, <3>2 DEF Followed
  <2>. QED  BY <1>0, <1>4, <1>6, <2>2, <2>3 DEF FlagsInv
<1>10. Wants'
  <2>1. plan'.flags \cap LoadFlags # {} => plan.flags \cap LoadFlags # {}
    BY <1>2, <1>6 DEF LoadFlags
  <2>2. noted' \subseteq {"fence"}
    BY <1>0, <1>4 DEF Wants
  <2>3. plan'.requested \ noted' \subseteq plan.requested \ noted
    BY <1>2, <1>4, <1>6
  <2>. QED  BY <1>0, <1>3, <1>4, <1>6, <2>1, <2>2, <2>3, WantsKept
<1>11. Quiet
  <2>1. car' = n.car
    BY <1>4 DEF Move
  <2>. QED  BY <1>1, <1>2, <2>1 DEF Quiet, Starts
<1>. QED  BY <1>7, <1>8, <1>9, <1>10, <1>11 DEF IInv

LEMMA ClearKeeps ==
    ASSUME IInv, Clear
    PROVE  IInv' /\ Quiet
<1>0. TypeOK /\ Cars /\ FlagsInv /\ Wants
  BY DEF IInv
<1>1. world \in World /\ world.car = car /\ world.plan = plan
  BY <1>0, WorldIsWorld
<1>. DEFINE n == RemoveAllFromVehicle(world)
<1>2. /\ Framed(world, n) /\ n.plan.flags = plan.flags
      /\ Starts(world, n, "remove", Elements)
  BY <1>1, RemovesAllFromVehicle
<1>. HIDE DEF n
<1>3. /\ n \in World /\ n.plan.vehicle = plan.vehicle
  BY <1>1, <1>2 DEF Framed
<1>4. /\ Move(n) /\ noted' = noted \cap n.plan.requested /\ ButtonsEnabled /\ Count
      /\ givenUpFor' = plan.vehicle
      /\ UNCHANGED << heard, disturbed, uploadTo, switched, refused >>
  BY DEF Clear, Become, n
<1>5. plan.vehicle \in Vehicles /\ \A f \in Elements : Doing(world, f) = "none"
  BY <1>0, <1>4, NothingUnderWay
<1>6. plan' = n.plan
  BY <1>3, <1>4, Moved
<1>7. TypeOK'
  <2>1. /\ disturbed' \subseteq Vehicles /\ uploadTo' \in Vehicles \cup {Offline}
        /\ switched' \in BOOLEAN
    BY <1>0, <1>4 DEF TypeOK
  <2>. QED  BY <1>0, <1>3, <1>4, <1>5, <2>1, TypeKept
<1>8. Cars'
  <2>1. \A v \in Vehicles : NoNewLoad(world.car[v], n.car[v])
    BY <1>2, NothingLoads
  <2>. QED  BY <1>0, <1>1, <1>2, <1>4, <2>1, FramedCars
<1>9. FlagsInv'
  BY <1>0, <1>2, <1>3, <1>4, <1>5, FlagsKept
<1>10. Wants'
  BY <1>0, <1>3, <1>4, <1>6 DEF Wants
<1>11. Quiet
  <2>1. car' = n.car
    BY <1>4 DEF Move
  <2>. QED  BY <1>1, <1>2, <2>1 DEF Quiet, Starts
<1>. QED  BY <1>7, <1>8, <1>9, <1>10, <1>11 DEF IInv

\* A step of the Plan view alone.
LEMMA ShownKeeps ==
    ASSUME TypeOK, Cars, FlagsInv, NEW n, Shown(world, n), Move(n),
           Count \/ UNCHANGED events, noted' = noted \cap n.plan.requested,
           givenUpFor' \in Vehicles \cup {Offline},
           UNCHANGED << heard, disturbed, uploadTo, switched, refused >>
    PROVE  TypeOK' /\ Cars' /\ FlagsInv' /\ Quiet
<1>1. world \in World /\ world.car = car /\ world.plan = plan
  BY WorldIsWorld
<1>2. /\ n \in World /\ n.plan.vehicle = plan.vehicle /\ n.plan.flags = plan.flags
      /\ Framed(world, n) /\ \A v \in Vehicles : n.car[v].job = car[v].job
  BY <1>1 DEF Shown, Framed
<1>3. TypeOK'
  <2>1. /\ disturbed' \subseteq Vehicles /\ uploadTo' \in Vehicles \cup {Offline}
        /\ switched' \in BOOLEAN
    BY DEF TypeOK
  <2>. QED  BY <1>2, <2>1, TypeKept
<1>4. Cars'
  <2>1. \A v \in Vehicles : NoNewLoad(car[v], n.car[v])
    BY <1>2 DEF NoNewLoad
  <2>. QED  BY <1>2, <2>1, FramedCars
<1>5. FlagsInv'
  <2>1. plan.vehicle \in Vehicles => JobsAdded(car[plan.vehicle], n.car[plan.vehicle])
    BY <1>2 DEF JobsAdded
  <2>2. \A f \in Elements : Doing(world, f) \in {"load", "send"} => Doing(n, f) = Doing(world, f)
    BY <1>1, <1>2, <2>1, AddedIsDoing
  <2>. QED  BY <1>2, <2>2, FlagsKept
<1>6. Quiet
  <2>1. car' = n.car
    BY DEF Move
  <2>. QED  BY <1>2, <2>1 DEF Quiet
<1>. QED  BY <1>3, <1>4, <1>5, <1>6

\* A change of what is on view, or of the prompt, is of the Plan view alone.
LEMMA ViewIsShown ==
    ASSUME NEW w \in World, NEW view \in [Elements -> Origins], NEW b \in BOOLEAN
    PROVE  LET n == [w EXCEPT !.plan.view = view, !.plan.prompt = b]
           IN  /\ Shown(w, n) /\ n.plan.requested = w.plan.requested
<1>. DEFINE p == [w.plan EXCEPT !.view = view, !.prompt = b]
            n == [w EXCEPT !.plan = p]
<1>1. w.plan \in PlanRecord
  BY WorldFields
<1>2. p \in PlanRecord /\ p.vehicle = w.plan.vehicle /\ p.flags = w.plan.flags
      /\ p.requested = w.plan.requested
  BY <1>1 DEF PlanRecord
<1>3. [w EXCEPT !.plan.view = view, !.plan.prompt = b] = n
  BY DEF World, PlanRecord
<1>. HIDE DEF p
<1>4. n \in World /\ n.car = w.car /\ n.plan = p
  BY <1>2 DEF World
<1>. HIDE DEF n
<1>5. Framed(w, n)
  BY <1>2, <1>4, ViewedIsFramed DEF Viewed
<1>. QED  BY <1>2, <1>3, <1>4, <1>5 DEF Shown

LEMMA EditKeeps ==
    ASSUME IInv, NEW e \in Elements, Edit(e)
    PROVE  IInv' /\ Quiet
<1>0. TypeOK /\ Cars /\ FlagsInv /\ Wants
  BY DEF IInv
<1>1. world \in World /\ world.car = car /\ world.plan = plan
  BY <1>0, WorldIsWorld
<1>. DEFINE view == [plan.view EXCEPT ![e] = "user"]
            n == [world EXCEPT !.plan.view[e] = "user"]
            k == [world EXCEPT !.plan.view = view, !.plan.prompt = plan.prompt]
<1>2. view \in [Elements -> Origins] /\ plan.prompt \in BOOLEAN
  BY <1>1, WorldFields DEF Origins
<1>3. n = k
  BY <1>1 DEF World, PlanRecord
<1>. HIDE DEF view, n
<1>4. Shown(world, k) /\ k.plan.requested = plan.requested
  BY <1>1, <1>2, ViewIsShown
<1>. HIDE DEF k
<1>5. Shown(world, n) /\ n.plan.requested = plan.requested
  BY <1>3, <1>4
<1>6. n \in World /\ n.plan.vehicle = plan.vehicle /\ n.plan.flags = plan.flags
  BY <1>1, <1>5 DEF Shown, Framed
<1>7. /\ Move(n) /\ noted' = noted \cap n.plan.requested /\ Count
      /\ givenUpFor' = IF Wanted = {} /\ plan.flags = {} THEN Offline ELSE givenUpFor
      /\ UNCHANGED << heard, disturbed, uploadTo, switched, refused >>
  BY DEF Edit, Become, n
<1>8. TypeOK' /\ Cars' /\ FlagsInv' /\ Quiet
  <2>1. givenUpFor' \in Vehicles \cup {Offline}
    BY <1>0, <1>7 DEF TypeOK
  <2>. QED  BY <1>0, <1>5, <1>7, <2>1, ShownKeeps
<1>9. Wants'
  <2>1. plan' = n.plan
    BY <1>6, <1>7, Moved
  <2>2. Wanted' = Wanted
    BY <1>5, <1>7, <2>1 DEF Wanted
  <2>. QED  BY <1>0, <1>6, <1>7, <2>1, <2>2 DEF Wants
<1>. QED  BY <1>8, <1>9 DEF IInv

LEMMA AnswerPromptKeeps ==
    ASSUME IInv, AnswerPrompt
    PROVE  IInv' /\ Quiet
<1>0. TypeOK /\ Cars /\ FlagsInv /\ Wants
  BY DEF IInv
<1>1. world \in World /\ world.car = car /\ world.plan = plan
  BY <1>0, WorldIsWorld
<1>2. plan.view \in [Elements -> Origins] /\ plan.vehicle \in Vehicles \cup {Offline}
  BY <1>1, WorldFields
<1>. DEFINE w == [world EXCEPT !.plan.prompt = FALSE]
            view == [f \in Elements |-> IF plan.view[f] = "empty" THEN "empty" ELSE "user"]
            kept == [w EXCEPT !.plan.view =
                        [f \in Elements |-> IF @[f] = "empty" THEN "empty" ELSE "user"]]
<1>3. Shown(world, w) /\ w.plan.requested = plan.requested
  <2>1. w = [world EXCEPT !.plan.view = plan.view, !.plan.prompt = FALSE]
    BY <1>1 DEF World, PlanRecord
  <2>2. FALSE \in BOOLEAN
    OBVIOUS
  <2>. HIDE DEF w, view, kept
  <2>. QED  BY <1>1, <1>2, <2>1, ViewIsShown
<1>4. Shown(world, kept) /\ kept.plan.requested = plan.requested
  <2>1. kept = [world EXCEPT !.plan.view = view, !.plan.prompt = FALSE]
    BY <1>1 DEF World, PlanRecord
  <2>2. view \in [Elements -> Origins]
    BY DEF Origins
  <2>. HIDE DEF view, kept
  <2>. QED  BY <1>1, <2>1, <2>2, ViewIsShown
<1>5. \/ /\ Become(IF Online THEN ShowPlanFromManagerVehicle(w) ELSE RemoveAll(w))
         /\ givenUpFor' = plan.vehicle
      \/ /\ Become(IF Online THEN kept ELSE w)
         /\ UNCHANGED givenUpFor
  BY DEF AnswerPrompt
<1>6. UNCHANGED << events, heard, disturbed, uploadTo, switched, refused >>
  BY DEF AnswerPrompt
<1>. HIDE DEF w, kept
<1>7. w \in World /\ w.plan.vehicle = plan.vehicle
  BY <1>1, <1>3 DEF Shown, Framed
<1>8. CASE /\ Become(IF Online THEN ShowPlanFromManagerVehicle(w) ELSE RemoveAll(w))
           /\ givenUpFor' = plan.vehicle
  <2>. DEFINE n == IF Online THEN ShowPlanFromManagerVehicle(w) ELSE RemoveAll(w)
  <2>1. Shown(w, n)
    <3>1. CASE Online
      <4>1. w.plan.vehicle \in Vehicles
        BY <1>1, <1>2, <1>7, <3>1 DEF Online, IsOffline
      <4>2. n = ShowPlanFromManagerVehicle(w)
        BY <3>1
      <4>. QED  BY <1>7, <4>1, <4>2, PlanShown
    <3>2. CASE ~Online
      <4>1. n = Emptied(w, Elements)
        BY <3>2 DEF RemoveAll
      <4>. HIDE DEF n
      <4>2. Viewed(w, n) /\ n.plan.flags = w.plan.flags /\ n.plan.requested = w.plan.requested
        BY <1>7, <4>1, Empties
      <4>. QED  BY <1>7, <4>2, ViewedIsFramed DEF Shown, Viewed
    <3>. QED  BY <3>1, <3>2
  <2>2. Become(n)
    BY <1>8
  <2>. HIDE DEF n
  <2>3. Shown(world, n)
    BY <1>3, <2>1, ShownIsTransitive
  <2>4. n \in World /\ n.plan.vehicle = plan.vehicle
    BY <1>1, <2>3 DEF Shown, Framed
  <2>5. Move(n) /\ noted' = noted \cap n.plan.requested
    BY <2>2 DEF Become
  <2>6. TypeOK' /\ Cars' /\ FlagsInv' /\ Quiet
    BY <1>0, <1>2, <1>6, <1>8, <2>3, <2>5, ShownKeeps
  <2>7. plan' = n.plan
    BY <2>4, <2>5, Moved
  <2>8. Wants'
    BY <1>0, <1>8, <2>4, <2>5, <2>7 DEF Wants
  <2>. QED  BY <2>6, <2>8 DEF IInv
<1>9. CASE Become(IF Online THEN kept ELSE w) /\ UNCHANGED givenUpFor
  <2>. DEFINE n == IF Online THEN kept ELSE w
  <2>1. Shown(world, n) /\ n.plan.requested = plan.requested
    BY <1>3, <1>4
  <2>2. Become(n)
    BY <1>9
  <2>. HIDE DEF n
  <2>3. n \in World /\ n.plan.vehicle = plan.vehicle /\ n.plan.flags = plan.flags
    BY <1>1, <2>1 DEF Shown, Framed
  <2>4. Move(n) /\ noted' = noted \cap n.plan.requested
    BY <2>2 DEF Become
  <2>5. TypeOK' /\ Cars' /\ FlagsInv' /\ Quiet
    <3>1. givenUpFor' \in Vehicles \cup {Offline}
      BY <1>0, <1>9 DEF TypeOK
    <3>. QED  BY <1>0, <1>6, <2>1, <2>4, <3>1, ShownKeeps
  <2>6. plan' = n.plan
    BY <2>3, <2>4, Moved
  <2>7. Wants'
    BY <1>0, <1>6, <1>9, <2>1, <2>3, <2>4, <2>6, WantsKept DEF Wants
  <2>. QED  BY <2>5, <2>7 DEF IInv
<1>. QED  BY <1>5, <1>8, <1>9

LEMMA SwitchKeeps ==
    ASSUME IInv, NEW to \in Vehicles \cup {Offline}, Switch(to)
    PROVE  IInv' /\ Quiet
<1>0. TypeOK /\ Cars /\ FlagsInv /\ Wants
  BY DEF IInv
<1>1. world \in World /\ world.car = car /\ world.plan = plan
  BY <1>0, WorldIsWorld
<1>. DEFINE n == ActiveVehicleChanged(world, to)
<1>2. /\ n \in World /\ n.plan.vehicle = to /\ n.plan.flags = plan.flags
      /\ n.plan.requested \subseteq plan.requested \cup {"fence"}
      /\ \A v \in Vehicles : Works(car[v], n.car[v]) /\ n.car[v].job = car[v].job
  BY <1>1, VehicleChanges
<1>3. BecomeNoting(n)
  BY DEF Switch
<1>. HIDE DEF n
<1>4. /\ Move(n) /\ noted' = (noted \cup (Elements \ plan.requested)) \cap n.plan.requested
      /\ Count /\ switched' = (switched \/ plan.flags # {} \/ plan.requested # {})
      /\ UNCHANGED << heard, disturbed, uploadTo, givenUpFor, refused >>
  BY <1>3 DEF BecomeNoting, Switch
<1>5. plan' = n.plan /\ world' = n
  BY <1>2, <1>4, Moved
<1>6. noted' \subseteq {"fence"}
  BY <1>0, <1>2, <1>4 DEF Wants
<1>7. TypeOK'
  <2>1. disturbed' \subseteq Vehicles /\ uploadTo' \in Vehicles \cup {Offline}
        /\ givenUpFor' \in Vehicles \cup {Offline}
    BY <1>0, <1>4 DEF TypeOK
  <2>2. switched' \in BOOLEAN
    BY <1>4
  <2>. QED  BY <1>0, <1>2, <1>4, <1>6, <2>1, <2>2, TypeKept
<1>8. Cars'
  <2>1. ASSUME NEW v \in Vehicles
        PROVE  CarStep(car[v], n.car[v], heard[v], heard'[v], v \notin disturbed')
    <3>1. NoNewLoad(car[v], n.car[v])
      BY <1>2 DEF NoNewLoad
    <3>2. CarStep(car[v], n.car[v], heard[v], heard[v], v \notin disturbed')
      BY <1>0, <1>2, <3>1, CarsAre, CarWorks
    <3>. QED  BY <1>4, <3>2
  <2>. QED  BY <1>0, <1>2, <1>4, <2>1, CarsKept
<1>9. ~switched' => plan.flags = {} /\ plan.requested = {}
  BY <1>4
<1>10. FlagsInv'
  <2>1. ~switched' => Uploading(n, uploadTo') /\ Followed(n)
    BY <1>2, <1>9 DEF Uploading, Followed
  <2>. QED  BY <1>5, <2>1 DEF FlagsInv
<1>11. Wants'
  <2>1. n.plan.requested \subseteq Elements
    BY <1>2, WorldFields
  <2>2. Wanted' = n.plan.requested \ noted'
    BY <1>5 DEF Wanted
  <2>3. ~switched' => Wanted' = {}
    BY <1>4, <1>9, <2>1, <2>2
  <2>4. ~switched' => plan'.flags \cap LoadFlags = {}
    BY <1>2, <1>5, <1>9
  <2>. QED  BY <1>6, <2>3, <2>4 DEF Wants
<1>12. Quiet
  <2>1. car' = n.car
    BY <1>4 DEF Move
  <2>. QED  BY <1>2, <2>1 DEF Quiet
<1>. QED  BY <1>7, <1>8, <1>10, <1>11, <1>12 DEF IInv

\* A step that changes the record of one vehicle and leaves the Plan view alone.
LEMMA CarAloneKeeps ==
    ASSUME IInv, NEW v \in Vehicles, NEW m, NEW n, Replaced(world, n, v, m), Become(n),
           Count, UNCHANGED << heard, uploadTo, givenUpFor, switched, refused >>,
           disturbed \subseteq disturbed', disturbed' \subseteq Vehicles,
           CarStep(car[v], m, heard[v], heard[v], v \notin disturbed'), JobsAdded(car[v], m),
           \A f \in Elements : m.job[f] = car[v].job[f] \/ m.job[f] # "send"
    PROVE  IInv' /\ Quiet
<1>0. TypeOK /\ Cars /\ FlagsInv /\ Wants
  BY DEF IInv
<1>1. world \in World /\ world.car = car /\ world.plan = plan
  BY <1>0, WorldIsWorld
<1>2. /\ n \in World /\ n.plan = plan /\ n.car[v] = m
      /\ \A x \in Vehicles : x # v => n.car[x] = car[x]
  BY <1>1 DEF Replaced
<1>3. Move(n) /\ noted' = noted \cap n.plan.requested
  BY DEF Become
<1>4. plan' = plan
  BY <1>2, <1>3, Moved
<1>5. TypeOK'
  <2>1. /\ uploadTo' \in Vehicles \cup {Offline} /\ givenUpFor' \in Vehicles \cup {Offline}
        /\ switched' \in BOOLEAN
    BY <1>0 DEF TypeOK
  <2>. QED  BY <1>0, <1>2, <1>3, <2>1, TypeKept
<1>6. Cars'
  <2>1. CarStep(car[v], n.car[v], heard[v], heard'[v], v \notin disturbed')
    BY <1>2
  <2>. QED  BY <1>0, <1>2, <1>3, <2>1, OneCarSteps
<1>7. FlagsInv'
  <2>1. plan.vehicle \in Vehicles => JobsAdded(car[plan.vehicle], n.car[plan.vehicle])
    BY <1>2 DEF JobsAdded
  <2>2. \A f \in Elements : Doing(world, f) \in {"load", "send"} => Doing(n, f) = Doing(world, f)
    BY <1>1, <1>2, <2>1, AddedIsDoing
  <2>. QED  BY <1>0, <1>2, <1>3, <2>2, FlagsKept
<1>8. Wants'
  BY <1>0, <1>2, <1>3, <1>4, WantsKept DEF Wants
<1>9. Quiet
  <2>1. car' = n.car
    BY <1>3 DEF Move
  <2>. QED  BY <1>2, <2>1 DEF Quiet, JobsAdded
<1>. QED  BY <1>5, <1>6, <1>7, <1>8, <1>9 DEF IInv

LEMMA OnlineIsVehicle ==
    ASSUME TypeOK, Online
    PROVE  plan.vehicle \in Vehicles
BY WorldIsWorld, WorldFields DEF Online, IsOffline

LEMMA FlyViewStartsKeeps ==
    ASSUME IInv, NEW what \in {"resume", "guided"}, FlyViewStarts("mission", what)
    PROVE  IInv' /\ Quiet
<1>. DEFINE e == "mission"
            v == plan.vehicle
            u == car[v]
            m == StartJob(u, e, what)
            n == [world EXCEPT !.car[v] = m]
<1>0. TypeOK /\ Cars
  BY DEF IInv
<1>1. v \in Vehicles
  BY <1>0, OnlineIsVehicle DEF FlyViewStarts
<1>2. u \in VehicleRecord /\ VehicleInv(u) /\ world.car[v] = u /\ world \in World
  BY <1>0, <1>1, CarsAre, WorldIsWorld
<1>3. u.job[e] = "none"
  BY DEF FlyViewStarts, Idle
<1>4. e \in Elements /\ what \in Jobs \ {"none"} /\ what # "load"
  BY DEF Elements, Jobs
<1>5. Become(n)
  BY <1>2 DEF FlyViewStarts
<1>6. /\ Count /\ UNCHANGED << heard, disturbed, uploadTo, givenUpFor, switched, refused >>
  BY DEF FlyViewStarts
<1>7. Works(u, m) /\ m.job = [u.job EXCEPT ![e] = what]
  <2>1. what \in {"resume", "guided"} => e = "mission"
    OBVIOUS
  <2>. HIDE DEF u, e
  <2>. QED  BY <1>2, <1>3, <1>4, <2>1, JobStarts
<1>. HIDE DEF m, u, e
<1>8. /\ NoNewLoad(u, m) /\ JobsAdded(u, m)
      /\ \A f \in Elements : m.job[f] = u.job[f] \/ m.job[f] # "send"
  BY <1>2, <1>3, <1>4, <1>7 DEF NoNewLoad, JobsAdded, VehicleRecord
<1>9. CarStep(u, m, heard[v], heard[v], v \notin disturbed')
  BY <1>2, <1>7, <1>8, CarWorks
<1>10. Replaced(world, n, v, m)
  BY <1>1, <1>2, <1>7, CarReplaced DEF Works
<1>. HIDE DEF n, v
<1>11. disturbed \subseteq disturbed' /\ disturbed' \subseteq Vehicles
  BY <1>0, <1>6 DEF TypeOK
<1>. QED  BY <1>1, <1>5, <1>6, <1>8, <1>9, <1>10, <1>11, CarAloneKeeps DEF u

LEMMA FlyViewRemovesAllKeeps ==
    ASSUME IInv, FlyViewRemovesAll
    PROVE  IInv' /\ Quiet
<1>. DEFINE v == plan.vehicle
            u == car[v]
            free == {e \in {"mission"} \cup u.supported : Idle(u, e)}
            jobs == [e \in Elements |-> IF e \in free THEN "remove" ELSE u.job[e]]
            m == [u EXCEPT !.job = jobs, !.listed = @ \ free]
            n == [world EXCEPT !.car[v] = m]
<1>0. TypeOK /\ Cars
  BY DEF IInv
<1>1. v \in Vehicles
  BY <1>0, OnlineIsVehicle DEF FlyViewRemovesAll
<1>2. u \in VehicleRecord /\ VehicleInv(u) /\ world.car[v] = u /\ world \in World
  BY <1>0, <1>1, CarsAre, WorldIsWorld
<1>3. [world EXCEPT !.car[v].job = [e \in Elements |-> IF e \in free THEN "remove" ELSE @[e]],
                    !.car[v].listed = @ \ free] = n
  BY <1>0, <1>1, <1>2, WorldIsWorld DEF World, VehicleRecord
<1>4. Become(n)
  BY <1>3 DEF FlyViewRemovesAll
<1>5. /\ Count /\ UNCHANGED << heard, disturbed, uploadTo, givenUpFor, switched, refused >>
  BY DEF FlyViewRemovesAll
<1>6. jobs \in [Elements -> Jobs]
  BY <1>2 DEF VehicleRecord, Jobs
<1>7. \A e \in Elements : jobs[e] = u.job[e] \/ (u.job[e] = "none" /\ jobs[e] = "remove")
  BY DEF Idle
<1>8. Works(u, m) /\ m.job = jobs
  <2>. HIDE DEF jobs, u, free
  <2>1. /\ m \in VehicleRecord /\ m.at = u.at /\ m.asked = u.asked /\ m.slots = u.slots
        /\ m.link = u.link /\ m.supported = u.supported /\ m.job = jobs
    BY <1>2, <1>6 DEF VehicleRecord
  <2>. HIDE DEF m
  <2>. QED  BY <1>7, <2>1 DEF Works
<1>. HIDE DEF m, jobs, u, free
<1>9. /\ NoNewLoad(u, m) /\ JobsAdded(u, m)
      /\ \A f \in Elements : m.job[f] = u.job[f] \/ m.job[f] # "send"
  BY <1>7, <1>8 DEF NoNewLoad, JobsAdded
<1>10. CarStep(u, m, heard[v], heard[v], v \notin disturbed')
  BY <1>2, <1>8, <1>9, CarWorks
<1>11. Replaced(world, n, v, m)
  BY <1>1, <1>2, <1>8, CarReplaced DEF Works
<1>. HIDE DEF n, v
<1>12. disturbed \subseteq disturbed' /\ disturbed' \subseteq Vehicles
  BY <1>0, <1>5 DEF TypeOK
<1>. QED  BY <1>1, <1>4, <1>5, <1>9, <1>10, <1>11, <1>12, CarAloneKeeps DEF u

LEMMA LinkChangesKeeps ==
    ASSUME IInv, NEW v \in Vehicles, NEW kind \in LinkKinds, LinkChanges(v, kind)
    PROVE  IInv' /\ Quiet
<1>. DEFINE u == car[v]
            m == [u EXCEPT !.link = kind]
            n == [world EXCEPT !.car[v] = m]
<1>0. TypeOK /\ Cars
  BY DEF IInv
<1>1. u \in VehicleRecord /\ VehicleInv(u) /\ world.car[v] = u /\ world \in World
  BY <1>0, CarsAre, WorldIsWorld
<1>2. Become(n)
  <2>1. [world EXCEPT !.car[v].link = kind] = n
    BY <1>0, <1>1, WorldIsWorld DEF World, VehicleRecord
  <2>. QED  BY <2>1 DEF LinkChanges
<1>3. /\ Count /\ disturbed' = disturbed \cup {v}
      /\ UNCHANGED << heard, uploadTo, givenUpFor, switched, refused >>
  BY DEF LinkChanges
<1>. HIDE DEF u
<1>4. /\ m \in VehicleRecord /\ m.at = u.at /\ m.asked = u.asked /\ m.slots = u.slots
      /\ m.job = u.job /\ m.supported = u.supported
  BY <1>1, LinkKindsAreKinds DEF VehicleRecord
<1>. HIDE DEF m
<1>5. VehicleInv(m)
  BY <1>1, <1>4 DEF VehicleInv, AskedBelow, Advances, Asked, Slot
<1>6. u.at = 9 \/ ServedTo(u, u.at) => Served(m)
  BY <1>4 DEF Served, ServedTo
<1>7. CarStep(u, m, heard[v], heard[v], v \notin disturbed')
  BY <1>3, <1>4, <1>5, <1>6 DEF CarStep
<1>8. JobsAdded(u, m) /\ \A f \in Elements : m.job[f] = u.job[f] \/ m.job[f] # "send"
  BY <1>4 DEF JobsAdded
<1>9. Replaced(world, n, v, m)
  BY <1>1, <1>4, CarReplaced
<1>. HIDE DEF n
<1>10. disturbed \subseteq disturbed' /\ disturbed' \subseteq Vehicles
  BY <1>0, <1>3 DEF TypeOK
<1>. QED  BY <1>2, <1>3, <1>7, <1>8, <1>9, <1>10, CarAloneKeeps DEF u

-----------------------------------------------------------------------------
(* The start.                                                              *)

LEMMA NewVehicleStarts ==
    ASSUME NEW S \in SUBSET Elements
    PROVE  LET n == NewVehicle("normal", S)
           IN  /\ n \in VehicleRecord /\ n.supported = S /\ n.link = "normal"
               /\ n.at = 1 /\ n.asked = {"AutopilotVersion"}
               /\ n.slots = Elements \cup {"parameters"}
               /\ n.job = [e \in Elements |-> "none"]
<1>. DEFINE idle == [e \in Elements |-> "none"]
            none == {}
            slots == Elements \cup {"parameters"}
            r == [ at |-> 0, asked |-> none, slots |-> slots,
                   planComplete |-> FALSE, link |-> "normal", supported |-> S,
                   job |-> idle, listed |-> none ]
            n == NewVehicle("normal", S)
<1>1. n = StateRequestAutopilotVersion(r)
  BY DEF NewVehicle, Advance
<1>2. /\ none \in SUBSET (WithHandler \cup {"parameters"}) /\ none \in SUBSET Elements
      /\ slots \in SUBSET (Elements \cup {"parameters"}) /\ idle \in [Elements -> Jobs]
      /\ 0 \in 0 .. EndOfSteps /\ "normal" \in {"none", "normal", "highLatency"}
      /\ FALSE \in BOOLEAN
  BY StepNumbers DEF Jobs
<1>3. none \cup {"AutopilotVersion"} = {"AutopilotVersion"}
  OBVIOUS
<1>. HIDE DEF none, slots, idle, n
<1>4. r \in VehicleRecord
  BY <1>2 DEF VehicleRecord
<1>5. /\ r.supported = S /\ r.link = "normal" /\ r.asked = none /\ r.slots = slots
      /\ r.job = idle
  OBVIOUS
<1>. HIDE DEF r
<1>6. n = [r EXCEPT !.at = 1, !.asked = r.asked \cup {"AutopilotVersion"}]
  BY <1>1, <1>4, <1>5, NumbersOfSteps DEF StateRequestAutopilotVersion, At, VehicleRecord
<1>7. /\ n \in VehicleRecord /\ n.supported = S /\ n.link = "normal" /\ n.at = 1
      /\ n.asked = r.asked \cup {"AutopilotVersion"} /\ n.slots = slots /\ n.job = idle
  <2>. DEFINE asked == r.asked \cup {"AutopilotVersion"}
  <2>1. asked \in SUBSET (WithHandler \cup {"parameters"}) /\ 1 \in 0 .. EndOfSteps
    BY <1>4, StepNumbers DEF VehicleRecord, WithHandler
  <2>2. n = [r EXCEPT !.at = 1, !.asked = asked]
    BY <1>6
  <2>. HIDE DEF asked
  <2>3. n \in VehicleRecord
    BY <1>4, <2>1, <2>2 DEF VehicleRecord
  <2>4. /\ n.supported = r.supported /\ n.link = r.link /\ n.at = 1
        /\ n.asked = asked /\ n.slots = r.slots /\ n.job = r.job
    BY <1>4, <2>2 DEF VehicleRecord
  <2>. QED  BY <1>5, <2>3, <2>4 DEF asked
<1>. QED  BY <1>3, <1>5, <1>7 DEF n, idle, slots

\* A vehicle at the start of a session.
Fresh(u) ==
    /\ u \in VehicleRecord /\ VehicleInv(u)
    /\ u.at = 9 \/ ServedTo(u, u.at)

LEMMA NewVehicleIsFresh ==
    ASSUME NEW n \in VehicleRecord, n.link = "normal", n.at = 1,
           n.asked = {"AutopilotVersion"}, n.slots = Elements \cup {"parameters"},
           \A e \in Elements : n.job[e] = "none"
    PROVE  Fresh(n) /\ Ordered(n, {})
<1>1. /\ "parameters" \in n.slots /\ "mission" \in n.slots /\ "fence" \in n.slots
      /\ "rally" \in n.slots
  BY DEF Elements
<1>2. Advances(n) + Resting(n.at) >= 8
  <2>1. /\ Slot(n, "parameters") = 1 /\ Slot(n, "mission") = 1 /\ Slot(n, "fence") = 1
        /\ Slot(n, "rally") = 1
    BY <1>1 DEF Slot
  <2>2. /\ Asked(n, "AutopilotVersion") = 1 /\ Asked(n, "ProtocolVersion") = 0
        /\ Asked(n, "CompInfo") = 0
    BY DEF Asked
  <2>3. Resting(n.at) = 3
    BY DEF Resting
  <2>. QED  BY <2>1, <2>2, <2>3 DEF Advances
<1>3. AskedBelow(n, n.at + 1)
  BY StepNumbers DEF AskedBelow
<1>4. VehicleInv(n)
  BY <1>2, <1>3 DEF VehicleInv
<1>5. ServedTo(n, n.at)
  <2>1. \A e \in Elements : ~(1 >= StepOf(e))
    BY NumbersOfSteps DEF Elements
  <2>. QED  BY <2>1 DEF ServedTo
<1>6. Ordered(n, {})
  BY StepNumbers DEF Ordered
<1>. QED  BY <1>4, <1>5, <1>6 DEF Fresh

LEMMA ConnectedIsFresh ==
    ASSUME NEW u \in VehicleRecord, \A e \in Elements : u.job[e] = "none",
           NEW S \in SUBSET Elements
    PROVE  LET n == [u EXCEPT !.at = EndOfSteps, !.asked = {}, !.slots = {},
                              !.planComplete = TRUE, !.listed = S]
           IN  Fresh(n) /\ n.job = u.job
<1>. DEFINE n == [u EXCEPT !.at = EndOfSteps, !.asked = {}, !.slots = {},
                           !.planComplete = TRUE, !.listed = S]
<1>1. n \in VehicleRecord /\ n.at = 9 /\ n.asked = {} /\ n.job = u.job
  <2>1. EndOfSteps \in 0 .. EndOfSteps /\ EndOfSteps = 9
    BY StepNumbers
  <2>2. /\ {} \in SUBSET (WithHandler \cup {"parameters"})
        /\ {} \in SUBSET (Elements \cup {"parameters"})
    OBVIOUS
  <2>3. n \in VehicleRecord
    BY <2>1, <2>2 DEF VehicleRecord
  <2>4. n.at = 9 /\ n.asked = {} /\ n.job = u.job
    BY <2>1 DEF VehicleRecord
  <2>. QED  BY <2>3, <2>4
<1>. HIDE DEF n
<1>2. VehicleInv(n)
  BY <1>1 DEF VehicleInv, AskedBelow
<1>3. Fresh(n) /\ n.job = u.job
  BY <1>1, <1>2 DEF Fresh
<1>. QED  BY <1>3 DEF n

LEMMA StartIsFresh ==
    /\ StartWorld \in World
    /\ \A v \in Vehicles : /\ Fresh(StartWorld.car[v])
                           /\ v \notin Connected => Ordered(StartWorld.car[v], {})
    /\ StartWorld.plan.flags = {} /\ StartWorld.plan.requested = {}
<1>. DEFINE new(v) == NewVehicle("normal", Supported[v])
            old(v) == [new(v) EXCEPT !.at = EndOfSteps, !.asked = {}, !.slots = {},
                                     !.planComplete = TRUE, !.listed = Supported[v]]
            c(v) == IF v \in Connected THEN old(v) ELSE new(v)
            cars == [v \in Vehicles |-> c(v)]
            view == [e \in Elements |-> "empty"]
            p == [ vehicle |-> Offline, flags |-> {}, requested |-> {},
                   view |-> view, prompt |-> FALSE ]
<1>1. StartWorld = [car |-> cars, plan |-> p]
  BY DEF StartWorld
<1>2. ASSUME NEW v \in Vehicles
      PROVE  Fresh(c(v)) /\ (v \notin Connected => Ordered(c(v), {}))
  <2>1. Supported[v] \in SUBSET Elements
    BY SupportedElements
  <2>2. /\ new(v) \in VehicleRecord /\ new(v).link = "normal"
        /\ new(v).at = 1 /\ new(v).asked = {"AutopilotVersion"}
        /\ new(v).slots = Elements \cup {"parameters"}
        /\ new(v).job = [e \in Elements |-> "none"]
    BY <2>1, NewVehicleStarts
  <2>3. \A e \in Elements : new(v).job[e] = "none"
    BY <2>2
  <2>. HIDE DEF new
  <2>4. Fresh(new(v)) /\ Ordered(new(v), {})
    BY <2>2, <2>3, NewVehicleIsFresh
  <2>5. Fresh(old(v))
    BY <2>1, <2>2, <2>3, ConnectedIsFresh
  <2>. QED  BY <2>4, <2>5
<1>. HIDE DEF c
<1>3. cars \in [Vehicles -> VehicleRecord] /\ \A v \in Vehicles : cars[v] = c(v)
  BY <1>2 DEF Fresh
<1>4. view \in [Elements -> Origins]
  BY DEF Origins
<1>. HIDE DEF view, cars
<1>5. p \in PlanRecord /\ p.flags = {} /\ p.requested = {}
  BY <1>4 DEF PlanRecord
<1>. HIDE DEF p
<1>6. StartWorld \in World /\ StartWorld.car = cars /\ StartWorld.plan = p
  BY <1>1, <1>3, <1>5 DEF World
<1>. QED  BY <1>2, <1>3, <1>5, <1>6

LEMMA InitKeeps ==
    ASSUME Init
    PROVE  IInv
<1>1. PICK to \in Vehicles : LET w == ActiveVehicleChanged(StartWorld, to)
                             IN  car = w.car /\ plan = w.plan /\ noted = w.plan.requested
  BY DEF Init
<1>. DEFINE n == ActiveVehicleChanged(StartWorld, to)
<1>2. car = n.car /\ plan = n.plan /\ noted = n.plan.requested
  BY <1>1
<1>3. /\ StartWorld \in World
      /\ \A v \in Vehicles : /\ Fresh(StartWorld.car[v])
                             /\ v \notin Connected => Ordered(StartWorld.car[v], {})
      /\ StartWorld.plan.flags = {} /\ StartWorld.plan.requested = {}
  BY StartIsFresh
<1>4. /\ n \in World /\ n.plan.vehicle = to /\ n.plan.flags = StartWorld.plan.flags
      /\ n.plan.requested \subseteq StartWorld.plan.requested \cup {"fence"}
      /\ \A v \in Vehicles : /\ Works(StartWorld.car[v], n.car[v])
                             /\ n.car[v].job = StartWorld.car[v].job
  BY <1>3, VehicleChanges
<1>. HIDE DEF n
<1>5. /\ events = 0 /\ heard = [v \in Vehicles |-> {}] /\ disturbed = Connected
      /\ hindered = {} /\ uploadTo = Offline /\ givenUpFor = Offline
      /\ switched = FALSE /\ refused = FALSE
  BY DEF Init
<1>6. plan.flags = {} /\ plan.requested \subseteq {"fence"} /\ noted = plan.requested
  BY <1>2, <1>3, <1>4
<1>7. TypeOK
  <2>1. car \in [Vehicles -> VehicleRecord] /\ plan \in PlanRecord
    BY <1>2, <1>4, WorldFields
  <2>2. noted \subseteq Elements
    BY <1>6 DEF Elements
  <2>3. heard \in [Vehicles -> SUBSET StepNames]
    BY <1>5
  <2>4. events \in 0 .. MaxEvents
    BY <1>5, MaxEventsIsNat
  <2>. QED  BY <1>5, <2>1, <2>2, <2>3, <2>4, ConnectedAreVehicles DEF TypeOK
<1>8. Cars
  <2>1. ASSUME NEW v \in Vehicles
        PROVE  /\ VehicleInv(car[v])
               /\ v \notin hindered => car[v].at = 9 \/ ServedTo(car[v], car[v].at)
               /\ v \notin disturbed => Ordered(car[v], heard[v])
    <3>. DEFINE u == StartWorld.car[v]
    <3>1. /\ u \in VehicleRecord /\ VehicleInv(u) /\ Works(u, car[v])
          /\ u.at = 9 \/ ServedTo(u, u.at)
          /\ v \notin Connected => Ordered(u, {})
      BY <1>2, <1>3, <1>4 DEF Fresh
    <3>2. NoNewLoad(u, car[v])
      BY <1>2, <1>4 DEF NoNewLoad
    <3>3. heard[v] = {}
      BY <1>5
    <3>. HIDE DEF u
    <3>. QED  BY <1>5, <3>1, <3>2, <3>3, WorksKeeps
  <2>. QED  BY <2>1 DEF Cars
<1>9. FlagsInv
  <2>1. world.plan.flags = {}
    BY <1>6 DEF world
  <2>. QED  BY <2>1 DEF FlagsInv, Uploading, Followed
<1>10. Wants
  BY <1>6 DEF Wants, Wanted
<1>. QED  BY <1>7, <1>8, <1>9, <1>10 DEF IInv

-----------------------------------------------------------------------------
(* The steps of Next.                                                      *)

LEMMA StutterKeeps ==
    ASSUME IInv, UNCHANGED vars
    PROVE  IInv' /\ Quiet
<1>1. UNCHANGED << car, plan, events, heard, disturbed, hindered, uploadTo, givenUpFor, noted,
                   switched, refused >>
  BY DEF vars
<1>2. world' = world /\ Wanted' = Wanted
  BY <1>1 DEF world, Wanted
<1>3. TypeOK'
  BY <1>1 DEF IInv, TypeOK
<1>4. Cars'
  BY <1>1 DEF IInv, Cars
<1>5. FlagsInv'
  BY <1>1, <1>2 DEF IInv, FlagsInv
<1>6. Wants'
  BY <1>1, <1>2 DEF IInv, Wants
<1>7. Quiet
  BY <1>1 DEF Quiet
<1>. QED  BY <1>3, <1>4, <1>5, <1>6, <1>7 DEF IInv

\* Every step but the ends of loads and sends is quiet.
LEMMA NextKeeps ==
    ASSUME IInv, [Next]_vars
    PROVE  /\ IInv'
           /\ \/ Quiet
              \/ \E v \in Vehicles, e \in Elements : LoadEnds(v, e) \/ SendEnds(v, e)
<1>1. CASE UNCHANGED vars
  BY <1>1, StutterKeeps
<1>2. CASE VehicleNext
  <2>1. PICK v \in Vehicles : VehicleAnswers(v)
    BY <1>2 DEF VehicleNext
  <2>2. CASE \E step \in StepNames : Answered(v, step)
    BY <2>2, AnsweredKeeps
  <2>3. CASE \E e \in Elements : LoadEnds(v, e) \/ SendEnds(v, e) \/ RemoveEnds(v, e)
    <3>1. PICK e \in Elements : LoadEnds(v, e) \/ SendEnds(v, e) \/ RemoveEnds(v, e)
      BY <2>3
    <3>2. CASE LoadEnds(v, e)
      BY <3>2, LoadEndsKeeps
    <3>3. CASE SendEnds(v, e)
      BY <3>3, SendEndsKeeps
    <3>4. CASE RemoveEnds(v, e)
      BY <3>4, RemoveEndsKeeps
    <3>. QED  BY <3>1, <3>2, <3>3, <3>4
  <2>4. CASE GuidedEnds(v)
    BY <2>4, GuidedEndsKeeps
  <2>. QED  BY <2>1, <2>2, <2>3, <2>4 DEF VehicleAnswers
<1>3. CASE UserNext
  <2>1. CASE Download
    BY <2>1, DownloadKeeps
  <2>2. CASE Upload
    BY <2>2, UploadKeeps
  <2>3. CASE Clear
    BY <2>3, ClearKeeps
  <2>4. CASE AnswerPrompt
    BY <2>4, AnswerPromptKeeps
  <2>5. CASE \E e \in Elements : Edit(e)
    BY <2>5, EditKeeps
  <2>6. CASE \E to \in Vehicles \cup {Offline} : Switch(to)
    BY <2>6, SwitchKeeps
  <2>7. CASE ResumeMission \/ GuidedGoto
    BY <2>7, FlyViewStartsKeeps DEF ResumeMission, GuidedGoto
  <2>8. CASE FlyViewRemovesAll
    BY <2>8, FlyViewRemovesAllKeeps
  <2>. QED  BY <1>3, <2>1, <2>2, <2>3, <2>4, <2>5, <2>6, <2>7, <2>8 DEF UserNext
<1>4. CASE LinkNext
  BY <1>4, LinkChangesKeeps DEF LinkNext
<1>. QED  BY <1>1, <1>2, <1>3, <1>4 DEF Next

\* All that follows rests on it.
THEOREM Invariance == Spec => []IInv
<1>1. Init => IInv
  BY InitKeeps
<1>2. IInv /\ [Next]_vars => IInv'
  BY NextKeeps
<1>. QED  BY <1>1, <1>2, PTL DEF Spec

\* The records keep their types, a job is never one its manager does not know.
THEOREM TypeCorrect == Spec => []TypeOK
<1>1. IInv => TypeOK
  BY DEF IInv
<1>. QED  BY <1>1, Invariance, PTL

\* The machine of a vehicle nothing has overlapped with is past a step only with its answer.
THEOREM ConnectsInOrder == Spec => []ConnectInOrder
<1>1. IInv => ConnectInOrder
  <2>1. SUFFICES ASSUME IInv, NEW v \in Vehicles \ disturbed, NEW i \in 1 .. (car[v].at - 1)
                 PROVE  \/ Steps[i] \in heard[v]
                        \/ Steps[i] \in (Elements \ car[v].supported) \cup {"SignalComplete"}
    BY DEF ConnectInOrder
  <2>2. Ordered(car[v], heard[v]) /\ car[v] \in VehicleRecord
    BY <2>1, CarsAre DEF IInv, Cars
  <2>3. i \in 1 .. 8 /\ i < car[v].at
    BY <2>2, StepNumbers DEF VehicleRecord
  <2>4. "fence" \in Elements /\ "rally" \in Elements
    BY DEF Elements
  <2>. QED  BY <2>2, <2>3, <2>4 DEF Ordered
<1>. QED  BY <1>1, Invariance, PTL

\* A vehicle whose connect is not over waits for something that will come, or has been hindered:
\* its handlers and slots are as many as the steps it has left, and one is of a step it has done.
THEOREM ConnectsGoOn == Spec => []ConnectNeverStalls
<1>1. IInv => ConnectNeverStalls
  <2>1. SUFFICES ASSUME IInv, NEW v \in Vehicles, Connecting(v), car[v].asked = {},
                        v \notin hindered
                 PROVE  \E e \in Elements : car[v].job[e] = "load"
    BY DEF ConnectNeverStalls
  <2>. DEFINE u == car[v]
  <2>2. u \in VehicleRecord /\ VehicleInv(u)
    BY <2>1, CarsAre DEF IInv
  <2>3. u.at \in 1 .. 7
    BY <2>1, <2>2, StepNumbers DEF Connecting, VehicleInv, VehicleRecord
  <2>4. ServedTo(u, u.at)
    BY <2>1, <2>3 DEF IInv, Cars
  <2>5. Slot(u, "parameters") + Slot(u, "mission") + Slot(u, "fence") + Slot(u, "rally")
            + Resting(u.at) >= 8
    <3>1. /\ Asked(u, "AutopilotVersion") = 0 /\ Asked(u, "ProtocolVersion") = 0
          /\ Asked(u, "CompInfo") = 0
      BY <2>1 DEF Asked
    <3>2. /\ \A s \in {"parameters", "mission", "fence", "rally"} : Slot(u, s) \in 0 .. 1
      BY <2>2, SlotsAtMost
    <3>3. Resting(u.at) \in Nat
      BY <2>3 DEF Resting
    <3>. QED  BY <2>2, <2>3, <3>1, <3>2, <3>3 DEF VehicleInv, Advances
  <2>6. "parameters" \notin u.asked
    BY <2>1
  <2>7. \A e \in Elements : u.at >= StepOf(e) /\ e \in u.slots => u.job[e] = "load"
    BY <2>4 DEF ServedTo
  <2>8. /\ \A s \in {"parameters", "mission", "fence", "rally"} :
              Slot(u, s) = IF s \in u.slots THEN 1 ELSE 0
        /\ Resting(u.at) = IF u.at < 3 THEN 3 ELSE u.at
    BY DEF Slot, Resting
  <2>9. "mission" \in Elements /\ "fence" \in Elements /\ "rally" \in Elements
    BY DEF Elements
  <2>10. u.at >= 4 => "parameters" \notin u.slots
    BY <2>4, <2>6 DEF ServedTo
  <2>. HIDE DEF u
  <2>11. u.at >= 5
    BY <2>3, <2>5, <2>8, <2>10
  <2>12. CASE "mission" \in u.slots
    BY <2>7, <2>9, <2>11, <2>12, NumbersOfSteps DEF u
  <2>13. CASE "mission" \notin u.slots
    <3>1. u.at >= 6 /\ (u.at = 6 => "fence" \in u.slots)
          /\ ("fence" \in u.slots \/ "rally" \in u.slots)
      BY <2>3, <2>5, <2>8, <2>10, <2>11, <2>13
    <3>2. CASE "fence" \in u.slots
      BY <2>7, <2>9, <3>1, <3>2, NumbersOfSteps DEF u
    <3>3. CASE "fence" \notin u.slots
      <4>1. u.at >= 7 /\ "rally" \in u.slots
        BY <2>3, <3>1, <3>3
      <4>. QED  BY <2>7, <2>9, <4>1, NumbersOfSteps DEF u
    <3>. QED  BY <3>2, <3>3
  <2>. QED  BY <2>12, <2>13
<1>. QED  BY <1>1, Invariance, PTL

\* A flag is set only while the transaction that clears it is under way.
THEOREM FlagsFollow == Spec => []FlagsFollowJobs
<1>1. IInv => FlagsFollowJobs
  <2>1. SUFFICES ASSUME IInv, ~switched, ~refused
                 PROVE  FlagsFollowJobs
    BY DEF FlagsFollowJobs
  <2>2. Followed(world)
    BY <2>1 DEF IInv, FlagsInv
  <2>3. world.plan = plan /\ world.car = car
    BY DEF world
  <2>4. \A e : Doing(world, e) = IF Online THEN car[plan.vehicle].job[e] ELSE "none"
    BY <2>3 DEF Doing, Online
  <2>. QED  BY <2>2, <2>3, <2>4 DEF Followed, FlagsFollowJobs
<1>. QED  BY <1>1, Invariance, PTL

\* The end of a load begins no write.
LEMMA LoadsBeginNoWrite ==
    ASSUME IInv, NEW v \in Vehicles, NEW e \in Elements, LoadEnds(v, e),
           NEW x \in Vehicles, NEW f \in Elements, car'[x].job[f] = "send"
    PROVE  car[x].job[f] = "send"
<1>0. TypeOK /\ Cars
  BY DEF IInv
<1>1. world \in World /\ world.car = car /\ world.plan = plan
  BY <1>0, WorldIsWorld
<1>2. VehicleInv(world.car[v]) /\ world.car[v].job[e] = "load"
  BY <1>0, <1>1, CarsAre DEF LoadEnds
<1>3. PICK filled \in BOOLEAN : Become(LoadEnded(world, v, e, filled))
  BY DEF LoadEnds
<1>. DEFINE n == LoadEnded(world, v, e, filled)
<1>4. PICK w : LoadStep(world, w, n, v, e)
  BY <1>1, <1>2, LoadEndingSteps
<1>5. car' = n.car
  BY <1>3 DEF Become, Move
<1>. HIDE DEF n
<1>6. /\ w.plan = plan /\ Answers(car[v], w.car[v], e)
      /\ \A y \in Vehicles : y # v => w.car[y] = car[y]
  BY <1>1, <1>4 DEF LoadStep, Replaced
<1>7. n.car[x].job[f] = w.car[x].job[f] \/ n.car[x].job[f] = "load"
  <2>1. CASE v # plan.vehicle
    BY <1>1, <1>4, <2>1 DEF LoadStep
  <2>2. CASE v = plan.vehicle
    BY <1>1, <1>4, <2>2 DEF LoadStep, LoadTaken, Starts
  <2>. QED  BY <2>1, <2>2
<1>8. w.car[x].job[f] = "send"
  BY <1>5, <1>7
<1>9. CASE x = v
  BY <1>6, <1>8, <1>9 DEF Answers
<1>10. CASE x # v
  BY <1>6, <1>8, <1>10
<1>. QED  BY <1>9, <1>10

InTurn ==
    \A v \in Vehicles, e \in {"fence", "rally"} :
        car[v].job[e] # "send" /\ car'[v].job[e] = "send" =>
            \/ switched
            \/ /\ v = uploadTo
               /\ \E before \in Elements \ {e} :
                    /\ car[v].job[before] = "send" /\ car'[v].job[before] = "none"
                    /\ \/ e = "fence" /\ before = "mission"
                       \/ e = "rally" /\ before = "fence"
                       \/ e = "rally" /\ before = "mission" /\ ~Supports(world, "fence")

LEMMA SendsInTurn ==
    ASSUME IInv, NEW v \in Vehicles, NEW e \in Elements, SendEnds(v, e)
    PROVE  InTurn
<1>0. TypeOK /\ Cars /\ FlagsInv
  BY DEF IInv
<1>1. world \in World /\ world.car = car /\ world.plan = plan
  BY <1>0, WorldIsWorld
<1>2. /\ VehicleInv(car[v]) /\ car[v] \in VehicleRecord
      /\ car[v].job[e] \in {"send", "resume"} /\ world.car[v].job[e] # "load"
  BY <1>0, <1>1, CarsAre DEF SendEnds
<1>3. PICK filled \in BOOLEAN : Become(SendEnded(world, v, e, filled))
  BY DEF SendEnds
<1>. DEFINE n == SendEnded(world, v, e, filled)
<1>4. PICK w : SendStep(world, w, n, v, e)
  BY <1>1, <1>2, SendEndingSteps
<1>5. car' = n.car
  BY <1>3 DEF Become, Move
<1>. HIDE DEF n
<1>6. /\ w.plan = plan /\ w.car[v].job = [car[v].job EXCEPT ![e] = "none"]
      /\ Works(car[v], w.car[v])
      /\ \A y \in Vehicles : y # v => w.car[y] = car[y]
  BY <1>1, <1>4 DEF SendStep, EndStep, Replaced
<1>7. /\ w.car[v].job[e] = "none" /\ w.car[v].supported = car[v].supported
      /\ \A g \in Elements : g # e => w.car[v].job[g] = car[v].job[g]
  BY <1>2, <1>6 DEF VehicleRecord, Works
<1>8. SUFFICES ASSUME NEW x \in Vehicles, NEW f \in {"fence", "rally"},
                      car[x].job[f] # "send", car'[x].job[f] = "send", ~switched
               PROVE  /\ x = uploadTo
                      /\ \E before \in Elements \ {f} :
                           /\ car[x].job[before] = "send" /\ car'[x].job[before] = "none"
                           /\ \/ f = "fence" /\ before = "mission"
                              \/ f = "rally" /\ before = "fence"
                              \/ f = "rally" /\ before = "mission" /\ ~Supports(world, "fence")
  BY DEF InTurn
<1>9. f \in Elements
  BY DEF Elements
<1>10. w.car[x].job[f] # "send"
  <2>1. CASE x = v /\ f = e
    BY <1>7, <2>1
  <2>2. CASE x = v /\ f # e
    BY <1>7, <1>8, <1>9, <2>2
  <2>3. CASE x # v
    BY <1>6, <1>8, <2>3
  <2>. QED  BY <2>1, <2>2, <2>3
<1>11. n # w
  BY <1>5, <1>8, <1>10
<1>12. v = plan.vehicle
  BY <1>1, <1>4, <1>11 DEF SendStep
<1>13. SendTaken(w, n, e)
  BY <1>1, <1>4, <1>12 DEF SendStep
<1>14. Starts(w, n, "send", After(w, e))
  BY <1>13 DEF SendTaken
<1>15. x = v /\ f \in After(w, e)
  BY <1>5, <1>6, <1>8, <1>9, <1>10, <1>12, <1>14 DEF Starts
<1>16. e \in {"mission", "fence"}
  BY <1>15 DEF After, Elements
<1>17. \/ e = "mission" /\ "sendGeoFence" \in plan.flags
       \/ e = "fence" /\ "sendRallyPoints" \in plan.flags
  BY <1>6, <1>11, <1>13, <1>16 DEF SendTaken
<1>18. Uploading(world, uploadTo)
  BY <1>0, <1>8 DEF FlagsInv
<1>19. x = uploadTo
  BY <1>1, <1>12, <1>15, <1>17, <1>18 DEF Uploading, SendFlags
<1>20. car[v].job[e] = "send"
  <2>1. CASE e = "mission"
    <3>1. Doing(world, "mission") = "send"
      BY <1>1, <1>17, <1>18, <2>1 DEF Uploading
    <3>. QED  BY <1>1, <1>12, <2>1, <3>1 DEF Doing
  <2>2. CASE e = "fence"
    BY <1>2, <2>2 DEF VehicleInv
  <2>. QED  BY <1>16, <2>1, <2>2
<1>21. e \notin After(w, e)
  BY DEF After
<1>22. car'[v].job[e] = "none"
  BY <1>5, <1>7, <1>14, <1>21 DEF Starts
<1>23. Supports(w, "fence") <=> Supports(world, "fence")
  BY <1>1, <1>6, <1>7, <1>12 DEF Supports, IsOffline
<1>24. \/ f = "fence" /\ e = "mission"
       \/ f = "rally" /\ e = "fence"
       \/ f = "rally" /\ e = "mission" /\ ~Supports(world, "fence")
  BY <1>15, <1>16, <1>23 DEF After
<1>25. e # f
  BY <1>24
<1>. QED  BY <1>15, <1>19, <1>20, <1>22, <1>24, <1>25

\* A fence or rally points are sent to the vehicle of the upload, after what comes before them.
THEOREM UploadsComeInTurn == Spec => UploadsInTurn
<1>1. IInv /\ [Next]_vars => [InTurn]_vars
  <2>1. SUFFICES ASSUME IInv, [Next]_vars
                 PROVE  InTurn
    OBVIOUS
  <2>2. {"fence", "rally"} \subseteq Elements
    BY DEF Elements
  <2>3. CASE Quiet
    <3>1. ASSUME NEW v \in Vehicles, NEW e \in {"fence", "rally"},
                 car[v].job[e] # "send", car'[v].job[e] = "send"
          PROVE  FALSE
      BY <2>2, <2>3, <3>1 DEF Quiet
    <3>. QED  BY <3>1 DEF InTurn
  <2>4. CASE \E v \in Vehicles, e \in Elements : LoadEnds(v, e)
    BY <2>1, <2>2, <2>4, LoadsBeginNoWrite DEF InTurn
  <2>5. CASE \E v \in Vehicles, e \in Elements : SendEnds(v, e)
    BY <2>1, <2>5, SendsInTurn
  <2>. QED  BY <2>1, <2>3, <2>4, <2>5, NextKeeps
<1>. QED  BY <1>1, Invariance, PTL DEF Spec, UploadsInTurn, InTurn

Kept ==
    \A v \in Vehicles, e \in Elements :
        /\ car[v].job[e] = "load" /\ car'[v].job[e] # "load"
        /\ plan.view[e] = "user" /\ plan'.view[e] \notin {"user", "saved"}
        => \/ switched \/ givenUpFor = v
           \/ e = "fence" /\ e \in noted

\* From w to n no load ends but that of e at v.
LosesOne(w, n, v, e) ==
    \A x \in Vehicles, f \in Elements :
        w.car[x].job[f] = "load" /\ n.car[x].job[f] # "load" => x = v /\ f = e

\* The end of a load ends that load and no other.
LEMMA LoadEndsAlone ==
    ASSUME NEW w0 \in World, NEW w, NEW n, NEW v \in Vehicles, NEW e \in Elements,
           LoadStep(w0, w, n, v, e)
    PROVE  LosesOne(w0, n, v, e)
<1>. SUFFICES ASSUME NEW x \in Vehicles, NEW f \in Elements,
                     w0.car[x].job[f] = "load", n.car[x].job[f] # "load"
              PROVE  x = v /\ f = e
  BY DEF LosesOne
<1>1. w.plan = w0.plan /\ Answers(w0.car[v], w.car[v], e)
      /\ \A y \in Vehicles : y # v => w.car[y] = w0.car[y]
  BY DEF LoadStep, Replaced
<1>2. w.car[x].job[f] # "load"
  <2>1. CASE v # w0.plan.vehicle
    BY <2>1 DEF LoadStep
  <2>2. CASE v = w0.plan.vehicle
    BY <2>2 DEF LoadStep, LoadTaken, Starts
  <2>. QED  BY <2>1, <2>2
<1>. QED  BY <1>1, <1>2 DEF Answers

LEMMA LoadsKeepEdits ==
    ASSUME IInv, NEW v \in Vehicles, NEW e \in Elements, LoadEnds(v, e)
    PROVE  Kept
<1>0. TypeOK /\ Cars /\ Wants
  BY DEF IInv
<1>1. world \in World /\ world.car = car /\ world.plan = plan
  BY <1>0, WorldIsWorld
<1>2. VehicleInv(world.car[v]) /\ world.car[v].job[e] = "load"
  BY <1>0, <1>1, CarsAre DEF LoadEnds
<1>3. PICK filled \in BOOLEAN : Become(LoadEnded(world, v, e, filled))
  BY DEF LoadEnds
<1>. DEFINE n == LoadEnded(world, v, e, filled)
<1>4. PICK w : LoadStep(world, w, n, v, e)
  BY <1>1, <1>2, LoadEndingSteps
<1>5. car' = n.car /\ plan' = n.plan
  BY <1>3 DEF Become, Move
<1>. HIDE DEF n
<1>6. SUFFICES ASSUME NEW x \in Vehicles, NEW f \in Elements,
                      car[x].job[f] = "load", car'[x].job[f] # "load",
                      plan.view[f] = "user", plan'.view[f] \notin {"user", "saved"},
                      ~switched, ~(f = "fence" /\ f \in noted)
               PROVE  givenUpFor = x
  BY DEF Kept
<1>7. x = v /\ f = e
  <2>1. world.car[x].job[f] = "load" /\ n.car[x].job[f] # "load"
    BY <1>1, <1>5, <1>6
  <2>2. LosesOne(world, n, v, e)
    <3>1. world \in World
      BY <1>1
    <3>. QED  BY <1>4, <3>1, LoadEndsAlone
  <2>. QED  BY <2>1, <2>2 DEF LosesOne
<1>8. w.plan = plan
  BY <1>1, <1>4 DEF LoadStep, Replaced
<1>9. ~Keeps(w, n, e)
  BY <1>5, <1>6, <1>7, <1>8 DEF Keeps, Mine
\* At a vehicle that is not the active one a load changes nothing on view.
<1>10. v = plan.vehicle
  <2>1. n # w
    BY <1>9 DEF Keeps
  <2>. QED  BY <1>1, <1>4, <2>1 DEF LoadStep
<1>11. LoadTaken(w, n, e)
  BY <1>1, <1>4, <1>10 DEF LoadStep
\* The items are taken because a controller or the Plan view has asked for them.
<1>12. plan.flags \cap LoadFlags # {} \/ e \in plan.requested
  BY <1>8, <1>9, <1>11 DEF LoadTaken
<1>13. e \in noted => e = "fence"
  BY <1>0 DEF Wants
<1>14. plan.flags \cap LoadFlags # {} \/ Wanted # {}
  BY <1>6, <1>7, <1>12, <1>13 DEF Wanted
<1>. QED  BY <1>0, <1>6, <1>7, <1>10, <1>14 DEF Wants

\* The end of a write ends no load.
LEMMA SendsEndNoLoad ==
    ASSUME IInv, NEW v \in Vehicles, NEW e \in Elements, SendEnds(v, e),
           NEW x \in Vehicles, NEW f \in Elements, car[x].job[f] = "load"
    PROVE  car'[x].job[f] = "load"
<1>0. TypeOK /\ Cars
  BY DEF IInv
<1>1. world \in World /\ world.car = car /\ world.plan = plan
  BY <1>0, WorldIsWorld
<1>2. car[v] \in VehicleRecord /\ car[v].job[e] # "load" /\ world.car[v].job[e] # "load"
  BY <1>0, <1>1, CarsAre DEF SendEnds
<1>3. PICK filled \in BOOLEAN : Become(SendEnded(world, v, e, filled))
  BY DEF SendEnds
<1>. DEFINE n == SendEnded(world, v, e, filled)
<1>4. PICK w : SendStep(world, w, n, v, e)
  BY <1>1, <1>2, SendEndingSteps
<1>5. car' = n.car
  BY <1>3 DEF Become, Move
<1>. HIDE DEF n
<1>6. /\ w.plan = plan /\ w.car[v].job = [car[v].job EXCEPT ![e] = "none"]
      /\ \A y \in Vehicles : y # v => w.car[y] = car[y]
  BY <1>1, <1>4 DEF SendStep, EndStep, Replaced
<1>7. \A g \in Elements : g # e => w.car[v].job[g] = car[v].job[g]
  BY <1>2, <1>6 DEF VehicleRecord
<1>8. w.car[x].job[f] = "load"
  <2>1. CASE x = v
    BY <1>2, <1>7, <2>1
  <2>2. CASE x # v
    BY <1>6, <2>2
  <2>. QED  BY <2>1, <2>2
<1>9. n.car[x].job[f] = w.car[x].job[f] \/ w.car[x].job[f] = "none"
  <2>1. CASE v # plan.vehicle
    BY <1>1, <1>4, <2>1 DEF SendStep
  <2>2. CASE v = plan.vehicle
    BY <1>1, <1>4, <2>2 DEF SendStep, SendTaken, Starts
  <2>. QED  BY <2>1, <2>2
<1>. QED  BY <1>5, <1>8, <1>9

\* What the user has edited is replaced by a load only when the user gave it up, the fence also
\* on a request its controller noted by itself.
THEOREM EditsAreKept == Spec => EditsKept
<1>1. IInv /\ [Next]_vars => [Kept]_vars
  <2>1. SUFFICES ASSUME IInv, [Next]_vars
                 PROVE  Kept
    OBVIOUS
  <2>2. CASE Quiet
    <3>1. ASSUME NEW v \in Vehicles, NEW e \in Elements,
                 car[v].job[e] = "load", car'[v].job[e] # "load"
          PROVE  FALSE
      BY <2>2, <3>1 DEF Quiet
    <3>. QED  BY <3>1 DEF Kept
  <2>3. CASE \E v \in Vehicles, e \in Elements : LoadEnds(v, e)
    BY <2>1, <2>3, LoadsKeepEdits
  <2>4. CASE \E v \in Vehicles, e \in Elements : SendEnds(v, e)
    BY <2>1, <2>4, SendsEndNoLoad DEF Kept
  <2>. QED  BY <2>1, <2>2, <2>3, <2>4, NextKeeps
<1>. QED  BY <1>1, Invariance, PTL DEF Spec, EditsKept, Kept
================================================================================
