----------------------------- MODULE MetadataProofs -----------------------------
(***************************************************************************)
(* Proofs about MetadataTransfer, for any number of vehicles, any files    *)
(* they have, and any size of the cache.                                   *)
(***************************************************************************)
EXTENDS MetadataTransfer, FiniteSetTheorems, WellFoundedInduction, TLAPS

(***************************************************************************)
(* A set of naturals that is not empty has a least element, and one with a *)
(* bound has a greatest.                                                   *)
(***************************************************************************)
Below(n) == {i \in Nat : i < n}

LEMMA LeastElement ==
    ASSUME NEW S, S \subseteq Nat, S # {}
    PROVE  \E k \in S : \A j \in S : k <= j
<1>. DEFINE T == {Below(n) : n \in S}
<1>1. \A n \in Nat : IsFiniteSet(Below(n))
  <2>. TAKE n \in Nat
  <2>1. Below(n) \in SUBSET Nat /\ \A s \in Below(n) : s <= n
    BY DEF Below
  <2>. QED  BY <2>1, FS_BoundedSetOfNaturals
<1>2. T \subseteq FiniteSubsetsOf(Nat) /\ T # {}
  <2>1. \A n \in S : Below(n) \in SUBSET Nat /\ IsFiniteSet(Below(n))
    BY <1>1 DEF Below
  <2>. QED  BY <2>1 DEF FiniteSubsetsOf
<1>3. PICK B \in T : \A C \in T : << C, B >> \notin StrictSubsetOrdering(Nat)
  <2>. HIDE DEF T
  <2>. QED  BY <1>2, FS_StrictSubsetOrderingWellFounded, WFMin
<1>4. PICK k \in S : B = Below(k)
  OBVIOUS
<1>5. \A j \in S : k <= j
  <2>. SUFFICES ASSUME NEW j \in S, j < k PROVE FALSE
    OBVIOUS
  <2>1. Below(j) \subseteq Below(k) /\ j \in Below(k) /\ j \notin Below(j)
    BY DEF Below
  <2>2. << Below(j), Below(k) >> \in StrictSubsetOrdering(Nat)
    BY <2>1 DEF StrictSubsetOrdering, Below
  <2>. QED  BY <2>2, <1>3, <1>4
<1>. QED  BY <1>5

LEMMA GreatestElement ==
    ASSUME NEW S, S \subseteq Nat, S # {}, NEW n \in Nat, \A k \in S : k <= n
    PROVE  \E k \in S : \A j \in S : j <= k
<1>. DEFINE T == {n - k : k \in S}
<1>1. T \subseteq Nat /\ T # {}
  <2>1. \A k \in S : n - k \in Nat
    OBVIOUS
  <2>. QED  BY <2>1
<1>2. PICK m \in T : \A i \in T : m <= i
  <2>. HIDE DEF T
  <2>. QED  BY <1>1, LeastElement
<1>3. PICK k \in S : m = n - k
  OBVIOUS
<1>4. \A j \in S : m <= n - j
  BY <1>2
<1>. QED  BY <1>3, <1>4

(***************************************************************************)
(* The cache.  Kept states CacheInStep of a cache c whose files out were   *)
(* removed as temporary; it allows for some entries more than the cache    *)
(* may have.                                                               *)
(***************************************************************************)
Fields(c) == {"data", "meta", "files", "next", "num"} \subseteq DOMAIN c

Kept(c, out, more) ==
    /\ Fields(c)
    /\ DOMAIN c.files \subseteq Nat /\ IsFiniteSet(DOMAIN c.files) /\ c.next \in Nat
    /\ c.num = Cardinality(DOMAIN c.files) /\ c.num <= MaxNumFiles + more
    /\ DOMAIN c.meta = Range(c.files)
    /\ \A k \in DOMAIN c.files :
          /\ c.meta[c.files[k]] = k /\ k < c.next
          /\ c.files[k] \in DOMAIN c.data \cup out

LEMMA KeptLoosely ==
    ASSUME NEW c, NEW out, Kept(c, out, 0)
    PROVE  Kept(c, out, 1)
<1>1. c.num \in Nat
  BY FS_CardinalityType DEF Kept
<1>. QED  BY <1>1, CacheAssumption DEF Kept

LEMMA NoneOldest ==
    ASSUME NEW files, IsFiniteSet(DOMAIN files)
    PROVE  OldestEntries(files, 0) = {}
<1>1. \A k \in DOMAIN files : Cardinality({j \in DOMAIN files : j < k}) \in Nat
  <2>. TAKE k \in DOMAIN files
  <2>1. {j \in DOMAIN files : j < k} \in SUBSET DOMAIN files
    OBVIOUS
  <2>. QED  BY <2>1, FS_Subset, FS_CardinalityType
<1>. QED  BY <1>1 DEF OldestEntries

LEMMA OneOldest ==
    ASSUME NEW files, DOMAIN files \subseteq Nat, IsFiniteSet(DOMAIN files), DOMAIN files # {}
    PROVE  \E k \in DOMAIN files :
              OldestEntries(files, 1) = {k} /\ \A j \in DOMAIN files : k <= j
<1>. DEFINE Older(k) == {j \in DOMAIN files : j < k}
<1>1. PICK k \in DOMAIN files : \A j \in DOMAIN files : k <= j
  BY LeastElement
<1>2. ASSUME NEW j \in DOMAIN files
      PROVE  Cardinality(Older(j)) < 1 <=> j = k
  <2>1. Older(j) \in SUBSET DOMAIN files
    OBVIOUS
  <2>2. IsFiniteSet(Older(j)) /\ Cardinality(Older(j)) \in Nat
    BY <2>1, FS_Subset, FS_CardinalityType
  <2>3. Cardinality(Older(j)) = 0 <=> Older(j) = {}
    <3>. HIDE DEF Older
    <3>. QED  BY <2>2, FS_EmptySet
  <2>4. Older(j) = {} <=> j = k
    BY <1>1
  <2>. HIDE DEF Older
  <2>. QED  BY <2>2, <2>3, <2>4
<1>3. OldestEntries(files, 1) = {j \in DOMAIN files : Cardinality(Older(j)) < 1}
  BY DEF OldestEntries
<1>4. OldestEntries(files, 1) = {k}
  <2>. HIDE DEF Older
  <2>. QED  BY <1>2, <1>3
<1>. QED  BY <1>1, <1>4

\* What is left when the entries with the counters in old are taken out of a cache.
LeftOf(c, old, excess) ==
    LET tags == {c.files[k] : k \in old}
    IN  [c EXCEPT !.data = Without(@, tags), !.meta = Without(@, tags),
                  !.files = Without(@, old), !.num = @ - excess]

LEMMA LeftIsKept ==
    ASSUME NEW c, NEW out, Kept(c, out, 1), NEW old, old \subseteq DOMAIN c.files,
           NEW excess, c.num - excess = Cardinality(DOMAIN c.files \ old),
           c.num - excess <= MaxNumFiles
    PROVE  Kept(LeftOf(c, old, excess), out, 0)
<1>. DEFINE tags == {c.files[k] : k \in old}
            r    == LeftOf(c, old, excess)
<1>1. /\ r.data = Without(c.data, tags) /\ r.meta = Without(c.meta, tags)
      /\ r.files = Without(c.files, old) /\ r.num = c.num - excess /\ r.next = c.next
      /\ Fields(r)
  BY DEF Kept, Fields, LeftOf
<1>2. /\ DOMAIN r.data = DOMAIN c.data \ tags /\ DOMAIN r.meta = DOMAIN c.meta \ tags
      /\ DOMAIN r.files = DOMAIN c.files \ old
      /\ \A t \in DOMAIN r.meta : r.meta[t] = c.meta[t]
      /\ \A k \in DOMAIN r.files : r.files[k] = c.files[k]
  BY <1>1 DEF Without, Restrict
<1>3. \A k \in DOMAIN r.files : c.files[k] \notin tags
  BY <1>2 DEF Kept
<1>4. \A k \in DOMAIN c.files : c.files[k] \notin tags => k \in DOMAIN r.files
  BY <1>2
<1>. HIDE DEF r, tags
<1>5. IsFiniteSet(DOMAIN r.files)
  <2>1. DOMAIN r.files \in SUBSET DOMAIN c.files
    BY <1>2
  <2>. QED  BY <2>1, FS_Subset DEF Kept
<1>6. DOMAIN r.meta = Range(r.files)
  <2>1. DOMAIN c.meta = {c.files[k] : k \in DOMAIN c.files}
    BY DEF Kept, Range
  <2>. QED  BY <2>1, <1>2, <1>3, <1>4 DEF Range
<1>7. \A k \in DOMAIN r.files :
         /\ r.meta[r.files[k]] = k /\ k < r.next
         /\ r.files[k] \in DOMAIN r.data \cup out
  <2>. TAKE k \in DOMAIN r.files
  <2>1. k \in DOMAIN c.files /\ r.files[k] = c.files[k] /\ c.files[k] \in DOMAIN r.meta
    BY <1>2, <1>6 DEF Range
  <2>. QED  BY <2>1, <1>1, <1>2, <1>3 DEF Kept
<1>8. /\ DOMAIN r.files \subseteq Nat /\ r.next \in Nat
      /\ r.num = Cardinality(DOMAIN r.files) /\ r.num <= MaxNumFiles + 0
  BY <1>1, <1>2, CacheAssumption DEF Kept
<1>9. Kept(r, out, 0)
  BY <1>1, <1>5, <1>6, <1>7, <1>8 DEF Kept
<1>. QED  BY <1>9 DEF r

\* ComponentInformationCache::removeOldEntries.
LEMMA RemoveOldIsKept ==
    ASSUME NEW c, NEW out, Kept(c, out, 1)
    PROVE  Kept(RemoveOldEntries(c), out, 0)
<1>0. /\ DOMAIN c.files \subseteq Nat /\ IsFiniteSet(DOMAIN c.files)
      /\ c.num = Cardinality(DOMAIN c.files) /\ c.num \in Nat /\ c.num <= MaxNumFiles + 1
  BY FS_CardinalityType DEF Kept
<1>1. CASE c.num <= MaxNumFiles
  <2>1. RemoveOldEntries(c) = LeftOf(c, {}, 0)
    <3>1. ~(c.num > MaxNumFiles)
      BY <1>0, <1>1, CacheAssumption
    <3>. QED  BY <3>1, <1>0, NoneOldest DEF RemoveOldEntries, LeftOf
  <2>2. c.num - 0 = Cardinality(DOMAIN c.files \ {}) /\ c.num - 0 <= MaxNumFiles
    BY <1>0, <1>1
  <2>. QED  BY <2>1, <2>2, LeftIsKept
<1>2. CASE c.num = MaxNumFiles + 1
  <2>1. DOMAIN c.files # {}
    BY <1>0, <1>2, FS_EmptySet, CacheAssumption
  <2>2. PICK k \in DOMAIN c.files : OldestEntries(c.files, 1) = {k}
    BY <1>0, <2>1, OneOldest
  <2>3. RemoveOldEntries(c) = LeftOf(c, {k}, 1)
    <3>1. c.num > MaxNumFiles /\ c.num - MaxNumFiles = 1
      BY <1>0, <1>2, CacheAssumption
    <3>. QED  BY <3>1, <2>2 DEF RemoveOldEntries, LeftOf
  <2>4. Cardinality(DOMAIN c.files \ {k}) = c.num - 1
    BY <1>0, FS_RemoveElement
  <2>5. c.num - 1 <= MaxNumFiles
    BY <1>2, CacheAssumption
  <2>. QED  BY <2>3, <2>4, <2>5, LeftIsKept
<1>. QED  BY <1>0, <1>1, <1>2, CacheAssumption

\* What removing the oldest entry leaves of the others, and which it is.
Thinned(c, r) ==
    /\ DOMAIN r.meta \subseteq DOMAIN c.meta
    /\ \A t \in DOMAIN r.meta : r.meta[t] = c.meta[t]
    /\ \A t \in DOMAIN c.meta \ DOMAIN r.meta, u \in DOMAIN r.meta : c.meta[t] < c.meta[u]
    /\ \A u \in DOMAIN c.meta :
          (\A t \in DOMAIN c.meta : c.meta[t] <= c.meta[u]) => u \in DOMAIN r.meta

\* The counters of entries are different naturals below the next one.
LEMMA CountersDiffer ==
    ASSUME NEW c, NEW out, NEW more, Kept(c, out, more)
    PROVE  /\ \A t \in DOMAIN c.meta :
                 /\ c.meta[t] \in DOMAIN c.files /\ c.files[c.meta[t]] = t
                 /\ c.meta[t] \in Nat /\ c.meta[t] < c.next
           /\ \A k \in DOMAIN c.files : c.files[k] \in DOMAIN c.meta /\ c.meta[c.files[k]] = k
<1>1. DOMAIN c.meta = {c.files[k] : k \in DOMAIN c.files}
  BY DEF Kept, Range
<1>. QED  BY <1>1 DEF Kept

\* ComponentInformationCache::removeOldEntries takes out the entry with the least counter, and
\* never the one that was used last.
LEMMA RemoveOldThins ==
    ASSUME NEW c, NEW out, Kept(c, out, 1)
    PROVE  Thinned(c, RemoveOldEntries(c))
<1>0. /\ DOMAIN c.files \subseteq Nat /\ IsFiniteSet(DOMAIN c.files)
      /\ c.num = Cardinality(DOMAIN c.files) /\ c.num \in Nat /\ c.num <= MaxNumFiles + 1
  BY FS_CardinalityType DEF Kept
<1>. DEFINE r == RemoveOldEntries(c)
<1>1. CASE c.num <= MaxNumFiles
  <2>1. ~(c.num > MaxNumFiles)
    BY <1>0, <1>1, CacheAssumption
  <2>2. r.meta = Without(c.meta, {})
    BY <2>1, <1>0, NoneOldest DEF RemoveOldEntries, Kept, Fields
  <2>3. DOMAIN r.meta = DOMAIN c.meta /\ \A t \in DOMAIN c.meta : r.meta[t] = c.meta[t]
    BY <2>2 DEF Without, Restrict
  <2>. HIDE DEF r
  <2>4. Thinned(c, r)
    BY <2>3 DEF Thinned
  <2>. QED  BY <2>4 DEF r
<1>2. CASE c.num = MaxNumFiles + 1
  <2>1. DOMAIN c.files # {}
    BY <1>0, <1>2, FS_EmptySet, CacheAssumption
  <2>2. PICK k \in DOMAIN c.files :
           OldestEntries(c.files, 1) = {k} /\ \A j \in DOMAIN c.files : k <= j
    BY <1>0, <2>1, OneOldest
  <2>3. c.num > MaxNumFiles /\ c.num - MaxNumFiles = 1
    BY <1>0, <1>2, CacheAssumption
  <2>4. r.meta = Without(c.meta, {c.files[k]})
    BY <2>2, <2>3 DEF RemoveOldEntries, Kept, Fields
  <2>. HIDE DEF r
  <2>. DEFINE old == c.files[k]
  <2>5. /\ DOMAIN r.meta = DOMAIN c.meta \ {old}
        /\ \A t \in DOMAIN r.meta : r.meta[t] = c.meta[t]
    BY <2>4 DEF Without, Restrict
  <2>6. old \in DOMAIN c.meta /\ c.meta[old] = k
    BY CountersDiffer
  <2>. HIDE DEF old
  <2>7. \A u \in DOMAIN c.meta \ {old} : k < c.meta[u]
    <3>. TAKE u \in DOMAIN c.meta \ {old}
    <3>1. c.meta[u] \in DOMAIN c.files /\ c.files[c.meta[u]] = u
      BY CountersDiffer
    <3>2. c.meta[u] # k
      BY <3>1 DEF old
    <3>. QED  BY <3>1, <3>2, <2>2, <1>0
  <2>8. ~ \A t \in DOMAIN c.meta : c.meta[t] <= c.meta[old]
    <3>1. Cardinality(DOMAIN c.files) # 1
      BY <1>0, <1>2, CacheAssumption
    <3>2. DOMAIN c.files # {k}
      BY <3>1, FS_Singleton
    <3>3. PICK j \in DOMAIN c.files : j # k
      BY <2>1, <3>2
    <3>4. c.files[j] \in DOMAIN c.meta /\ c.meta[c.files[j]] = j
      BY CountersDiffer
    <3>5. k < j
      BY <3>3, <2>2, <1>0
    <3>. QED  BY <3>4, <3>5, <2>6, <1>0
  <2>9. \A t \in DOMAIN c.meta \ DOMAIN r.meta, u \in DOMAIN r.meta : c.meta[t] < c.meta[u]
    BY <2>5, <2>6, <2>7
  <2>10. \A u \in DOMAIN c.meta :
            (\A t \in DOMAIN c.meta : c.meta[t] <= c.meta[u]) => u \in DOMAIN r.meta
    BY <2>5, <2>8
  <2>11. Thinned(c, r)
    BY <2>5, <2>9, <2>10 DEF Thinned
  <2>. QED  BY <2>11 DEF r
<1>. QED  BY <1>0, <1>1, <1>2, CacheAssumption

LEMMA OneMore ==
    ASSUME NEW D, NEW E, NEW x, IsFiniteSet(D), x \notin D, E = D \cup {x}
    PROVE  IsFiniteSet(E) /\ Cardinality(E) = Cardinality(D) + 1
BY FS_AddElement

\* ComponentInformationCache::access.
LEMMA AccessIsKept ==
    ASSUME NEW c, NEW out, Kept(c, out, 0), NEW tag
    PROVE  Kept(Access(c, tag).cache, out, 0)
<1>1. CASE ~Has(c, tag)
  BY <1>1 DEF Access, Untouched
<1>2. CASE Has(c, tag)
  <2>. DEFINE r == [c EXCEPT !.meta[tag] = c.next,
                             !.files = With(Without(@, {c.meta[tag]}), c.next, tag),
                             !.next = @ + 1]
              m == c.meta[tag]
  <2>1. Access(c, tag).cache = r
    BY <1>2 DEF Access
  <2>2. m \in DOMAIN c.files /\ c.files[m] = tag /\ tag \in DOMAIN c.data
    BY <1>2 DEF Has, Kept, Range
  <2>3. /\ r.meta = [c.meta EXCEPT ![tag] = c.next] /\ r.next = c.next + 1
        /\ r.files = With(Without(c.files, {m}), c.next, tag)
        /\ r.data = c.data /\ r.num = c.num /\ Fields(r)
    BY DEF Kept, Fields
  <2>. HIDE DEF r, m
  <2>4. c.next \notin DOMAIN c.files /\ c.next \in Nat
    BY DEF Kept
  <2>5. /\ DOMAIN r.files = (DOMAIN c.files \ {m}) \cup {c.next} /\ r.files[c.next] = tag
        /\ \A k \in DOMAIN c.files \ {m} : r.files[k] = c.files[k]
    <3>. DEFINE f == Without(c.files, {m})
    <3>1. DOMAIN f = DOMAIN c.files \ {m} /\ \A k \in DOMAIN f : f[k] = c.files[k]
      BY DEF Without, Restrict
    <3>2. r.files = With(f, c.next, tag)
      BY <2>3
    <3>. HIDE DEF f
    <3>3. /\ DOMAIN r.files = DOMAIN f \cup {c.next} /\ r.files[c.next] = tag
          /\ \A k \in DOMAIN f \ {c.next} : r.files[k] = f[k]
      BY <3>2 DEF With
    <3>. QED  BY <3>1, <3>3, <2>4
  <2>6. /\ DOMAIN r.meta = DOMAIN c.meta /\ r.meta[tag] = c.next
        /\ \A t \in DOMAIN c.meta \ {tag} : r.meta[t] = c.meta[t]
    BY <2>3, <1>2 DEF Has
  <2>7. IsFiniteSet(DOMAIN r.files) /\ Cardinality(DOMAIN r.files) = c.num
    <3>1. /\ IsFiniteSet(DOMAIN c.files \ {m})
          /\ Cardinality(DOMAIN c.files \ {m}) = c.num - 1
      BY <2>2, FS_RemoveElement DEF Kept
    <3>2. c.next \notin DOMAIN c.files \ {m}
      BY <2>4
    <3>3. c.num \in Nat
      BY FS_CardinalityType DEF Kept
    <3>. DEFINE D == DOMAIN c.files \ {m}
                E == DOMAIN r.files
    <3>4. IsFiniteSet(D) /\ c.next \notin D /\ E = D \cup {c.next} /\ Cardinality(D) = c.num - 1
      BY <3>1, <3>2, <2>5
    <3>. HIDE DEF D, E
    <3>5. IsFiniteSet(E) /\ Cardinality(E) = c.num
      BY <3>3, <3>4, OneMore
    <3>. QED  BY <3>5 DEF E
  <2>8. \A k \in DOMAIN c.files \ {m} : c.files[k] # tag
    BY DEF Kept, m
  <2>9. DOMAIN r.meta = Range(r.files)
    <3>1. DOMAIN c.meta = {c.files[k] : k \in DOMAIN c.files}
      BY DEF Kept, Range
    <3>. QED  BY <3>1, <2>2, <2>5, <2>6 DEF Range
  <2>10. \A k \in DOMAIN r.files :
            /\ r.meta[r.files[k]] = k /\ k < r.next
            /\ r.files[k] \in DOMAIN r.data \cup out
    <3>. TAKE k \in DOMAIN r.files
    <3>1. CASE k = c.next
      BY <3>1, <2>2, <2>3, <2>4, <2>5, <2>6
    <3>2. CASE k \in DOMAIN c.files \ {m}
      <4>1. r.files[k] = c.files[k] /\ c.files[k] # tag /\ c.files[k] \in DOMAIN c.meta
        BY <3>2, <2>5, <2>8 DEF Kept, Range
      <4>2. c.meta[c.files[k]] = k /\ k < c.next /\ k \in Nat
        BY <3>2 DEF Kept
      <4>3. c.files[k] \in DOMAIN c.data \cup out
        BY <3>2 DEF Kept
      <4>. QED  BY <4>1, <4>2, <4>3, <2>3, <2>4, <2>6
    <3>. QED  BY <3>1, <3>2, <2>5
  <2>11. Kept(r, out, 0)
    <3>1. DOMAIN r.files \subseteq Nat /\ r.next \in Nat
      BY <2>3, <2>4, <2>5 DEF Kept
    <3>2. r.num = Cardinality(DOMAIN r.files) /\ r.num <= MaxNumFiles + 0
      BY <2>3, <2>7 DEF Kept
    <3>. QED  BY <3>1, <3>2, <2>3, <2>7, <2>9, <2>10 DEF Kept
  <2>. QED  BY <2>1, <2>11
<1>. QED  BY <1>1, <1>2

\* A new entry, before the oldest one goes.
Added(c, tag, content) ==
    [c EXCEPT !.data = With(@, tag, content), !.meta = With(@, tag, c.next),
              !.files = With(@, c.next, tag), !.next = @ + 1, !.num = @ + 1]

LEMMA AddedIsKept ==
    ASSUME NEW c, NEW out, Kept(c, out, 0), NEW tag, tag \notin DOMAIN c.meta, NEW content
    PROVE  Kept(Added(c, tag, content), out, 1)
<1>. DEFINE r == Added(c, tag, content)
<1>1. /\ r.data = With(c.data, tag, content) /\ r.meta = With(c.meta, tag, c.next)
      /\ r.files = With(c.files, c.next, tag) /\ r.next = c.next + 1 /\ r.num = c.num + 1
      /\ Fields(r)
  BY DEF Kept, Fields, Added
<1>. HIDE DEF r
<1>2. c.next \notin DOMAIN c.files /\ c.next \in Nat
  BY DEF Kept
<1>3. /\ DOMAIN r.data = DOMAIN c.data \cup {tag}
      /\ DOMAIN r.files = DOMAIN c.files \cup {c.next} /\ r.files[c.next] = tag
      /\ \A k \in DOMAIN c.files : r.files[k] = c.files[k]
      /\ DOMAIN r.meta = DOMAIN c.meta \cup {tag} /\ r.meta[tag] = c.next
      /\ \A t \in DOMAIN c.meta : r.meta[t] = c.meta[t]
  <2>1. DOMAIN r.data = DOMAIN c.data \cup {tag}
    BY <1>1 DEF With
  <2>2. /\ DOMAIN r.files = DOMAIN c.files \cup {c.next} /\ r.files[c.next] = tag
        /\ \A k \in DOMAIN c.files \ {c.next} : r.files[k] = c.files[k]
    BY <1>1 DEF With
  <2>3. /\ DOMAIN r.meta = DOMAIN c.meta \cup {tag} /\ r.meta[tag] = c.next
        /\ \A t \in DOMAIN c.meta \ {tag} : r.meta[t] = c.meta[t]
    BY <1>1 DEF With
  <2>. QED  BY <1>2, <2>1, <2>2, <2>3
<1>4. /\ IsFiniteSet(DOMAIN r.files) /\ Cardinality(DOMAIN r.files) = c.num + 1
  <2>. DEFINE D == DOMAIN c.files
              E == DOMAIN r.files
  <2>1. IsFiniteSet(D) /\ c.next \notin D /\ E = D \cup {c.next} /\ Cardinality(D) = c.num
    BY <1>2, <1>3 DEF Kept
  <2>. HIDE DEF D, E
  <2>2. IsFiniteSet(E) /\ Cardinality(E) = c.num + 1
    BY <2>1, OneMore
  <2>. QED  BY <2>2 DEF E
<1>5. DOMAIN r.meta = Range(r.files)
  <2>1. DOMAIN c.meta = {c.files[k] : k \in DOMAIN c.files}
    BY DEF Kept, Range
  <2>. QED  BY <2>1, <1>3 DEF Range
<1>6. \A k \in DOMAIN r.files :
         /\ r.meta[r.files[k]] = k /\ k < r.next
         /\ r.files[k] \in DOMAIN r.data \cup out
  <2>. TAKE k \in DOMAIN r.files
  <2>1. CASE k = c.next
    BY <2>1, <1>1, <1>2, <1>3
  <2>2. CASE k \in DOMAIN c.files
    <3>1. r.files[k] = c.files[k] /\ c.files[k] \in DOMAIN c.meta
      BY <2>2, <1>3 DEF Kept, Range
    <3>2. c.meta[c.files[k]] = k /\ k < c.next /\ k \in Nat
      BY <2>2 DEF Kept
    <3>3. c.files[k] \in DOMAIN c.data \cup out
      BY <2>2 DEF Kept
    <3>. QED  BY <3>1, <3>2, <3>3, <1>1, <1>2, <1>3
  <2>. QED  BY <2>1, <2>2, <1>3
<1>7. Kept(r, out, 1)
  <2>1. DOMAIN r.files \subseteq Nat /\ r.next \in Nat
    BY <1>1, <1>2, <1>3 DEF Kept
  <2>2. c.num \in Nat /\ c.num <= MaxNumFiles + 0
    BY FS_CardinalityType DEF Kept
  <2>3. r.num = Cardinality(DOMAIN r.files) /\ r.num <= MaxNumFiles + 1
    BY <2>2, <1>1, <1>4, CacheAssumption
  <2>. QED  BY <2>1, <2>3, <1>1, <1>4, <1>5, <1>6 DEF Kept
<1>. QED  BY <1>7 DEF r

\* ComponentInformationCache::insert.
LEMMA InsertIsKept ==
    ASSUME NEW c, NEW out, Kept(c, out, 0), NEW tag, NEW file
    PROVE  Kept(Insert(c, tag, file).cache, out, 0)
<1>1. CASE tag \in DOMAIN c.meta \cup DOMAIN c.data \/ file = NoFile
  BY <1>1 DEF Insert, Untouched
<1>2. CASE tag \notin DOMAIN c.meta \cup DOMAIN c.data /\ file # NoFile
  <2>1. Insert(c, tag, file).cache = RemoveOldEntries(Added(c, tag, file.content))
    BY <1>2 DEF Insert, Added
  <2>2. Kept(Added(c, tag, file.content), out, 1)
    BY <1>2, AddedIsKept
  <2>. QED  BY <2>1, <2>2, RemoveOldIsKept
<1>. QED  BY <1>1, <1>2

(***************************************************************************)
(* The order of use.  The entries of a cache are in order if the one with  *)
(* the smaller counter was used before the other.                          *)
(***************************************************************************)
InOrder(c, order) ==
    /\ \A t \in DOMAIN c.meta : << t, t >> \in order
    /\ \A t, u \in DOMAIN c.meta : c.meta[t] < c.meta[u] => Before(order, t, u)

LEMMA UsedNone ==
    ASSUME NEW order
    PROVE  NowUsed(order, {}) = order
BY DEF NowUsed

\* A use puts an entry behind all others, and leaves those in their order.
LEMMA OthersStay ==
    ASSUME NEW order, NEW tag, NEW t, NEW u, t # tag, u # tag
    PROVE  << t, u >> \in NowUsed(order, {tag}) <=> << t, u >> \in order
BY DEF NowUsed

LEMMA OneGoesLast ==
    ASSUME NEW order, NEW tag
    PROVE  << tag, tag >> \in NowUsed(order, {tag}) /\ Newest(NowUsed(order, {tag}), tag)
<1>. DEFINE others == {p \in order : p[1] \notin {tag} /\ p[2] \notin {tag}}
            now    == NowUsed(order, {tag})
<1>1. now = others \cup {<< p[1], t >> : p \in others, t \in {tag}} \cup {tag} \X {tag}
  BY DEF NowUsed
<1>. HIDE DEF now
<1>2. << tag, tag >> \in now
  BY <1>1
<1>3. \A p \in others : << p[1], tag >> \in now
  BY <1>1
<1>. HIDE DEF others
<1>4. ASSUME NEW p \in now PROVE << p[1], tag >> \in now
  <2>1. CASE p \in others
    BY <2>1, <1>3
  <2>2. CASE p \in {<< q[1], t >> : q \in others, t \in {tag}}
    <3>1. PICK q \in others : p = << q[1], tag >>
      BY <2>2
    <3>2. p[1] = q[1]
      BY <3>1
    <3>. QED  BY <3>2, <1>3
  <2>3. CASE p \in {tag} \X {tag}
    BY <2>3, <1>2
  <2>. QED  BY <1>1, <2>1, <2>2, <2>3
<1>5. Newest(now, tag)
  BY <1>4 DEF Newest
<1>. QED  BY <1>2, <1>5 DEF now

LEMMA OneIsAfterOthers ==
    ASSUME NEW order, NEW tag, NEW t, t # tag, << t, t >> \in order
    PROVE  Before(NowUsed(order, {tag}), t, tag)
<1>. DEFINE others == {p \in order : p[1] \notin {tag} /\ p[2] \notin {tag}}
            now    == NowUsed(order, {tag})
<1>1. now = others \cup {<< p[1], u >> : p \in others, u \in {tag}} \cup {tag} \X {tag}
  BY DEF NowUsed
<1>. HIDE DEF now
<1>2. << t, t >> \in others
  OBVIOUS
<1>3. << t, tag >> \in now
  <2>1. << t, t >>[1] = t
    OBVIOUS
  <2>. HIDE DEF others
  <2>. QED  BY <1>1, <1>2, <2>1
<1>4. << tag, t >> \notin now
  BY <1>1
<1>5. Before(now, t, tag)
  BY <1>3, <1>4 DEF Before
<1>. QED  BY <1>5 DEF now

\* Before as a whole is left as it is among the others.
LEMMA OthersStayBefore ==
    ASSUME NEW order, NEW tag, NEW t, NEW u, t # tag, u # tag, Before(order, t, u)
    PROVE  Before(NowUsed(order, {tag}), t, u)
BY OthersStay DEF Before

\* The cache d is c but for tag, whose counter is not below another, and for entries that
\* are gone.
LEMMA UsedIsInOrder ==
    ASSUME NEW c, NEW order, InOrder(c, order), NEW tag, NEW d,
           DOMAIN d.meta \subseteq DOMAIN c.meta \cup {tag},
           \A t \in DOMAIN d.meta \ {tag} :
              d.meta[t] = c.meta[t] /\ ~(d.meta[tag] < d.meta[t]),
           ~(d.meta[tag] < d.meta[tag])
    PROVE  InOrder(d, NowUsed(order, {tag}))
<1>. DEFINE now == NowUsed(order, {tag})
<1>1. \A t \in DOMAIN d.meta : << t, t >> \in now
  BY OthersStay, OneGoesLast DEF InOrder
<1>2. ASSUME NEW t \in DOMAIN d.meta, NEW u \in DOMAIN d.meta, d.meta[t] < d.meta[u]
      PROVE  Before(now, t, u)
  <2>1. t # tag
    BY <1>2
  <2>2. t \in DOMAIN c.meta /\ << t, t >> \in order
    BY <2>1 DEF InOrder
  <2>3. CASE u = tag
    BY <2>1, <2>2, <2>3, OneIsAfterOthers
  <2>4. CASE u # tag
    <3>1. u \in DOMAIN c.meta /\ c.meta[t] < c.meta[u]
      BY <1>2, <2>1, <2>4
    <3>2. Before(order, t, u)
      BY <2>2, <3>1 DEF InOrder
    <3>. QED  BY <2>1, <2>4, <3>2, OthersStayBefore
  <2>. QED  BY <2>3, <2>4
<1>. QED  BY <1>1, <1>2 DEF InOrder

\* What is true of a cache and the order of use since the start of a step: entries that are
\* gone were used before all that are there, and the one used last is there.  At is that
\* start: the files removed until then, the entries, and the order of use.
Recent(c, order, at) ==
    /\ InOrder(c, order)
    /\ \A t \in at.entries : << t, t >> \in order
    /\ \A t \in at.entries \ DOMAIN c.meta, u \in DOMAIN c.meta : Before(order, t, u)
    /\ order # at.used => \E u \in DOMAIN c.meta : Newest(order, u)

LEMMA UsedIsRecent ==
    ASSUME NEW c, NEW order, NEW at, Recent(c, order, at), NEW tag, NEW d,
           tag \in DOMAIN d.meta, DOMAIN d.meta \subseteq DOMAIN c.meta \cup {tag},
           \A t \in DOMAIN d.meta \ {tag} :
              d.meta[t] = c.meta[t] /\ ~(d.meta[tag] < d.meta[t]),
           ~(d.meta[tag] < d.meta[tag]),
           \A t \in DOMAIN c.meta \ DOMAIN d.meta, u \in DOMAIN d.meta \ {tag} :
              c.meta[t] < c.meta[u]
    PROVE  Recent(d, NowUsed(order, {tag}), at)
<1>. DEFINE now == NowUsed(order, {tag})
<1>1. InOrder(d, now)
  BY UsedIsInOrder DEF Recent
<1>2. \A t \in at.entries : << t, t >> \in now
  BY OthersStay, OneGoesLast DEF Recent
<1>3. ASSUME NEW t \in at.entries \ DOMAIN d.meta, NEW u \in DOMAIN d.meta
      PROVE  Before(now, t, u)
  <2>1. t # tag /\ << t, t >> \in order
    BY DEF Recent
  <2>2. CASE u = tag
    BY <2>1, <2>2, OneIsAfterOthers
  <2>3. CASE u # tag
    <3>1. u \in DOMAIN c.meta
      BY <2>3
    <3>2. CASE t \in DOMAIN c.meta
      BY <2>1, <2>3, <3>1, <3>2, OthersStayBefore DEF Recent, InOrder
    <3>3. CASE t \notin DOMAIN c.meta
      BY <2>1, <2>3, <3>1, <3>3, OthersStayBefore DEF Recent
    <3>. QED  BY <3>2, <3>3
  <2>. QED  BY <2>2, <2>3
<1>4. \E u \in DOMAIN d.meta : Newest(now, u)
  BY OneGoesLast
<1>. QED  BY <1>1, <1>2, <1>3, <1>4 DEF Recent

\* Both: what the cache keeps, and the order in which it was used.
Held(c, order, removed, at) == Kept(c, at.out \cup removed, 0) /\ Recent(c, order, at)

LEMMA AccessIsHeld ==
    ASSUME NEW c, NEW order, NEW removed, NEW at, Held(c, order, removed, at), NEW tag
    PROVE  Held(Access(c, tag).cache, NowUsed(order, Access(c, tag).used), removed, at)
<1>. DEFINE r == Access(c, tag)
<1>1. Kept(r.cache, at.out \cup removed, 0)
  BY AccessIsKept DEF Held
<1>2. CASE ~Has(c, tag)
  <2>1. r.cache = c /\ r.used = {}
    BY <1>2 DEF Access, Untouched
  <2>. HIDE DEF r
  <2>2. Held(r.cache, NowUsed(order, r.used), removed, at)
    BY <2>1, UsedNone
  <2>. QED  BY <2>2 DEF r
<1>3. CASE Has(c, tag)
  <2>1. /\ r.used = {tag} /\ r.cache.meta = [c.meta EXCEPT ![tag] = c.next]
    BY <1>3 DEF Access, Held, Kept, Fields
  <2>2. tag \in DOMAIN c.meta
    BY <1>3 DEF Has
  <2>. HIDE DEF r
  <2>. DEFINE d == r.cache
  <2>3. /\ DOMAIN d.meta = DOMAIN c.meta /\ d.meta[tag] = c.next
        /\ \A t \in DOMAIN d.meta \ {tag} : d.meta[t] = c.meta[t]
    BY <2>1, <2>2
  <2>4. c.next \in Nat /\ \A t \in DOMAIN c.meta : c.meta[t] \in Nat /\ c.meta[t] < c.next
    BY CountersDiffer DEF Held, Kept
  <2>5. ~(d.meta[tag] < d.meta[tag])
    BY <2>3, <2>4
  <2>6. \A t \in DOMAIN d.meta \ {tag} : d.meta[t] = c.meta[t] /\ ~(d.meta[tag] < d.meta[t])
    BY <2>3, <2>4
  <2>. HIDE DEF d
  <2>7. Recent(d, NowUsed(order, {tag}), at)
    BY <2>2, <2>3, <2>5, <2>6, UsedIsRecent DEF Held
  <2>8. Held(r.cache, NowUsed(order, r.used), removed, at)
    BY <2>1, <2>7, <1>1 DEF Held, d
  <2>. QED  BY <2>8 DEF r
<1>. QED  BY <1>2, <1>3

LEMMA InsertIsHeld ==
    ASSUME NEW c, NEW order, NEW removed, NEW at, Held(c, order, removed, at), NEW tag, NEW file
    PROVE  Held(Insert(c, tag, file).cache, NowUsed(order, Insert(c, tag, file).used), removed, at)
<1>. DEFINE r == Insert(c, tag, file)
<1>1. Kept(r.cache, at.out \cup removed, 0)
  BY InsertIsKept DEF Held
<1>2. CASE tag \in DOMAIN c.meta \cup DOMAIN c.data \/ file = NoFile
  <2>1. r.cache = c /\ r.used = {}
    BY <1>2 DEF Insert, Untouched
  <2>. HIDE DEF r
  <2>2. Held(r.cache, NowUsed(order, r.used), removed, at)
    BY <2>1, UsedNone
  <2>. QED  BY <2>2 DEF r
<1>3. CASE tag \notin DOMAIN c.meta \cup DOMAIN c.data /\ file # NoFile
  <2>. DEFINE a == Added(c, tag, file.content)
              d == r.cache
  <2>1. d = RemoveOldEntries(a) /\ r.used = {tag}
    BY <1>3 DEF Insert, Added
  <2>2. Kept(a, at.out \cup removed, 1)
    BY <1>3, AddedIsKept DEF Held
  <2>3. a.meta = With(c.meta, tag, c.next)
    BY DEF Held, Kept, Fields, Added
  <2>. HIDE DEF a, r
  <2>4. Thinned(a, d)
    BY <2>1, <2>2, RemoveOldThins
  <2>5. /\ DOMAIN a.meta = DOMAIN c.meta \cup {tag} /\ a.meta[tag] = c.next
        /\ \A t \in DOMAIN c.meta : a.meta[t] = c.meta[t]
    BY <2>3, <1>3 DEF With
  <2>. HIDE DEF d
  <2>6. c.next \in Nat /\ \A t \in DOMAIN c.meta : c.meta[t] \in Nat /\ c.meta[t] < c.next
    BY CountersDiffer DEF Held, Kept
  <2>7. \A t \in DOMAIN a.meta : a.meta[t] <= a.meta[tag]
    BY <2>5, <2>6
  <2>8. tag \in DOMAIN d.meta /\ d.meta[tag] = c.next
    BY <2>4, <2>5, <2>7 DEF Thinned
  <2>9. /\ DOMAIN d.meta \subseteq DOMAIN c.meta \cup {tag}
        /\ \A t \in DOMAIN d.meta \ {tag} : d.meta[t] = c.meta[t]
    BY <2>4, <2>5 DEF Thinned
  <2>10. \A t \in DOMAIN d.meta \ {tag} : d.meta[t] = c.meta[t] /\ ~(d.meta[tag] < d.meta[t])
    BY <2>6, <2>8, <2>9
  <2>11. \A t \in DOMAIN c.meta \ DOMAIN d.meta, u \in DOMAIN d.meta \ {tag} :
            c.meta[t] < c.meta[u]
    BY <2>4, <2>5, <2>9 DEF Thinned
  <2>12. ~(d.meta[tag] < d.meta[tag])
    BY <2>6, <2>8
  <2>13. Recent(d, NowUsed(order, {tag}), at)
    BY <2>8, <2>9, <2>10, <2>11, <2>12, UsedIsRecent DEF Held
  <2>14. Held(r.cache, NowUsed(order, r.used), removed, at)
    BY <2>1, <2>13, <1>1 DEF Held, d
  <2>. QED  BY <2>14 DEF r
<1>. QED  BY <1>2, <1>3

(***************************************************************************)
(* The disk that the next program finds.                                   *)
(***************************************************************************)
ValidOn(disk) == {t \in DOMAIN disk.meta : t \in DOMAIN disk.data /\ disk.meta[t] # Torn}

UsedOn(disk) == {disk.meta[t] : t \in ValidOn(disk)}

\* Its counters are different and have a bound, and there may be one entry too many.
Recoverable(disk, n) ==
    /\ n \in Nat /\ UsedOn(disk) \subseteq Nat /\ \A k \in UsedOn(disk) : k <= n
    /\ \A t, u \in ValidOn(disk) : disk.meta[t] = disk.meta[u] => t = u
    /\ IsFiniteSet(UsedOn(disk)) /\ Cardinality(UsedOn(disk)) <= MaxNumFiles + 1

LEMMA DiskOfKept ==
    ASSUME NEW c, NEW out, Kept(c, out, 1), NEW disk,
           \A t \in ValidOn(disk) : t \in DOMAIN c.meta /\ disk.meta[t] = c.meta[t]
    PROVE  Recoverable(disk, c.next)
<1>1. \A t \in ValidOn(disk) :
         disk.meta[t] \in DOMAIN c.files /\ c.files[disk.meta[t]] = t
  BY DEF Kept, Range
<1>2. UsedOn(disk) \in SUBSET DOMAIN c.files
  BY <1>1 DEF UsedOn
<1>3. \A k \in UsedOn(disk) : k \in Nat /\ k <= c.next
  BY <1>2 DEF Kept
<1>4. IsFiniteSet(UsedOn(disk)) /\ Cardinality(UsedOn(disk)) <= Cardinality(DOMAIN c.files)
  BY <1>2, FS_Subset DEF Kept
<1>5. /\ Cardinality(UsedOn(disk)) \in Nat /\ Cardinality(DOMAIN c.files) \in Nat
      /\ Cardinality(DOMAIN c.files) <= MaxNumFiles + 1 /\ c.next \in Nat
  BY <1>4, FS_CardinalityType DEF Kept
<1>6. Cardinality(UsedOn(disk)) <= MaxNumFiles + 1
  BY <1>4, <1>5, CacheAssumption
<1>7. \A t, u \in ValidOn(disk) : disk.meta[t] = disk.meta[u] => t = u
  BY <1>1
<1>. QED  BY <1>3, <1>4, <1>5, <1>6, <1>7 DEF Recoverable

\* ComponentInformationCache::initializeDirectory, before it removes old entries.
Read(disk) ==
    LET valid    == ValidOn(disk)
        counters == UsedOn(disk)
    IN  [ data  |-> Without(disk.data, DOMAIN disk.meta \ valid),
          meta  |-> Restrict(disk.meta, valid),
          files |-> [k \in counters |-> CHOOSE t \in valid : disk.meta[t] = k],
          next  |-> IF counters = {} THEN 0
                    ELSE 1 + CHOOSE k \in counters : \A j \in counters : j <= k,
          num   |-> Cardinality(counters) ]

LEMMA ReadIsKept ==
    ASSUME NEW disk, NEW n, Recoverable(disk, n)
    PROVE  Kept(Read(disk), {}, 1)
<1>. DEFINE r     == Read(disk)
            valid == ValidOn(disk)
            counters == UsedOn(disk)
            next  == IF counters = {} THEN 0
                     ELSE 1 + CHOOSE k \in counters : \A j \in counters : j <= k
<1>1. /\ r.data = Without(disk.data, DOMAIN disk.meta \ valid)
      /\ r.meta = Restrict(disk.meta, valid)
      /\ r.files = [k \in counters |-> CHOOSE t \in valid : disk.meta[t] = k]
      /\ r.num = Cardinality(counters) /\ r.next = next /\ Fields(r)
  BY DEF Read, Fields
<1>. HIDE DEF r
<1>2. /\ DOMAIN r.meta = valid /\ DOMAIN r.files = counters /\ valid \subseteq DOMAIN r.data
      /\ \A t \in valid : r.meta[t] = disk.meta[t]
  BY <1>1 DEF Without, Restrict, ValidOn
<1>3. \A k \in counters : r.files[k] \in valid /\ disk.meta[r.files[k]] = k
  BY <1>1 DEF UsedOn
<1>4. \A t \in valid : disk.meta[t] \in counters /\ r.files[disk.meta[t]] = t
  <2>1. \A t \in valid : disk.meta[t] \in counters
    BY DEF UsedOn
  <2>. QED  BY <2>1, <1>3 DEF Recoverable
<1>5. next \in Nat /\ \A k \in counters : k < next
  <2>1. CASE counters = {}
    BY <2>1
  <2>2. CASE counters # {}
    <3>. DEFINE k == CHOOSE k \in counters : \A j \in counters : j <= k
    <3>1. \E i \in counters : \A j \in counters : j <= i
      BY <2>2, GreatestElement DEF Recoverable
    <3>2. k \in counters /\ \A j \in counters : j <= k
      BY <3>1
    <3>3. next = 1 + k
      BY <2>2
    <3>. HIDE DEF k, next
    <3>. QED  BY <3>2, <3>3 DEF Recoverable
  <2>. QED  BY <2>1, <2>2
<1>. HIDE DEF next
<1>6. DOMAIN r.meta = Range(r.files)
  <2>. HIDE DEF valid, counters
  <2>. QED  BY <1>2, <1>3, <1>4 DEF Range
<1>7. \A k \in DOMAIN r.files :
         /\ r.meta[r.files[k]] = k /\ k < r.next
         /\ r.files[k] \in DOMAIN r.data \cup {}
  <2>. HIDE DEF valid, counters
  <2>. QED  BY <1>1, <1>2, <1>3, <1>5
<1>8. /\ DOMAIN r.files \subseteq Nat /\ IsFiniteSet(DOMAIN r.files) /\ r.next \in Nat
      /\ r.num = Cardinality(DOMAIN r.files) /\ r.num <= MaxNumFiles + 1
  BY <1>1, <1>2, <1>5 DEF Recoverable
<1>9. Kept(r, {}, 1)
  BY <1>1, <1>6, <1>7, <1>8 DEF Kept
<1>. QED  BY <1>9 DEF r

\* Whatever is found, the next program's cache is in step.
LEMMA InitializeIsKept ==
    ASSUME NEW disk, NEW n, Recoverable(disk, n)
    PROVE  Kept(InitializeDirectory(disk), {}, 0)
<1>1. InitializeDirectory(disk) = RemoveOldEntries(Read(disk))
  BY DEF InitializeDirectory, Read, ValidOn, UsedOn
<1>. QED  BY <1>1, ReadIsKept, RemoveOldIsKept

LEMMA EmptyRecoverable == Recoverable(NoDisk, 0)
<1>1. ValidOn(NoDisk) = {}
  BY DEF ValidOn, NoDisk
<1>2. UsedOn(NoDisk) = {}
  BY <1>1 DEF UsedOn
<1>3. IsFiniteSet({}) /\ Cardinality({}) <= MaxNumFiles + 1
  BY FS_EmptySet, CacheAssumption
<1>. QED  BY <1>1, <1>2, <1>3 DEF Recoverable

LEMMA EmptyDisk == Kept(InitializeDirectory(NoDisk), {}, 0)
BY EmptyRecoverable, InitializeIsKept

\* A crash within ComponentInformationCache::insert.
LEMMA CrashIsRecoverable ==
    ASSUME NEW c, NEW out, Kept(c, out, 0), NEW tag, NEW file,
           NEW disk \in DisksWithinInsert(c, tag, file)
    PROVE  \E n : Recoverable(disk, n)
<1>. DEFINE moved == [ data |-> With(c.data, tag, file.content), meta |-> c.meta ]
            torn  == [ moved EXCEPT !.meta = With(@, tag, Torn) ]
            whole == [ moved EXCEPT !.meta = With(@, tag, c.next) ]
            done  == DiskOf(Insert(c, tag, file).cache)
<1>0. Kept(c, out, 1) /\ Kept(Insert(c, tag, file).cache, out, 1)
  BY KeptLoosely, InsertIsKept
<1>1. \/ disk = DiskOf(c)
      \/ /\ tag \notin DOMAIN c.meta
         /\ disk \in {moved, torn, whole, [done EXCEPT !.data = whole.data]}
  BY DEF DisksWithinInsert
<1>2. CASE disk = DiskOf(c)
  BY <1>0, <1>2, DiskOfKept DEF DiskOf, ValidOn
<1>3. CASE disk = moved
  BY <1>0, <1>3, DiskOfKept DEF ValidOn
<1>4. CASE tag \notin DOMAIN c.meta /\ disk = torn
  <2>1. disk.meta = With(c.meta, tag, Torn)
    BY <1>4
  <2>2. \A t \in ValidOn(disk) : t \in DOMAIN c.meta /\ disk.meta[t] = c.meta[t]
    BY <1>4, <2>1 DEF ValidOn, With
  <2>. QED  BY <1>0, <2>2, DiskOfKept
<1>5. CASE tag \notin DOMAIN c.meta /\ disk = whole
  <2>1. Kept(Added(c, tag, file), out, 1)
    BY <1>5, AddedIsKept
  <2>2. disk.meta = With(c.meta, tag, c.next) /\ Added(c, tag, file).meta = disk.meta
    BY <1>5 DEF Added, Kept, Fields
  <2>3. \A t \in ValidOn(disk) : t \in DOMAIN disk.meta
    BY DEF ValidOn
  <2>. QED  BY <2>1, <2>2, <2>3, DiskOfKept
<1>6. CASE disk = [done EXCEPT !.data = whole.data]
  <2>1. disk.meta = Insert(c, tag, file).cache.meta
    BY <1>6 DEF DiskOf
  <2>2. \A t \in ValidOn(disk) : t \in DOMAIN disk.meta
    BY DEF ValidOn
  <2>. QED  BY <1>0, <2>1, <2>2, DiskOfKept
<1>. QED  BY <1>1, <1>2, <1>3, <1>4, <1>5, <1>6

(***************************************************************************)
(* The order of use over a restart.                                        *)
(***************************************************************************)
NewOn(disk, c) == {t \in DOMAIN disk.meta \ DOMAIN c.meta : disk.meta[t] # Torn}

\* What is on a disk of the cache c: the entries that c had, but for those without a file or
\* with a counter below all others, and at most one that is new.
Remains(disk, c, tag) ==
    /\ NewOn(disk, c) \subseteq {tag} /\ NewOn(disk, c) \subseteq ValidOn(disk)
    /\ \A t \in ValidOn(disk) :
          \/ t \in DOMAIN c.meta /\ disk.meta[t] = c.meta[t]
          \/ t \in NewOn(disk, c) /\ disk.meta[t] = c.next
    /\ \A t \in DOMAIN c.meta \ ValidOn(disk) :
          t \notin DOMAIN c.data \/ \A u \in ValidOn(disk) : c.meta[t] < disk.meta[u]

\* The disk has every entry of the cache and perhaps one more.
LEMMA SameRemains ==
    ASSUME NEW c, NEW out, Kept(c, out, 0), NEW tag, tag \notin DOMAIN c.meta, NEW disk,
           DOMAIN c.data \subseteq DOMAIN disk.data,
           DOMAIN c.meta \subseteq DOMAIN disk.meta,
           DOMAIN disk.meta \subseteq DOMAIN c.meta \cup {tag},
           \A t \in DOMAIN c.meta : disk.meta[t] = c.meta[t],
           tag \in NewOn(disk, c) => tag \in DOMAIN disk.data /\ disk.meta[tag] = c.next
    PROVE  Remains(disk, c, tag)
<1>1. NewOn(disk, c) \subseteq {tag} /\ NewOn(disk, c) \subseteq ValidOn(disk)
  BY DEF NewOn, ValidOn
<1>2. \A t \in DOMAIN c.meta : c.meta[t] # Torn
  BY CountersDiffer, CacheAssumption
<1>3. \A t \in DOMAIN c.meta \ ValidOn(disk) : t \notin DOMAIN c.data
  BY <1>2 DEF ValidOn
<1>4. ASSUME NEW t \in ValidOn(disk), t \notin DOMAIN c.meta
      PROVE  t \in NewOn(disk, c) /\ disk.meta[t] = c.next
  BY <1>1, <1>4 DEF ValidOn, NewOn
<1>. QED  BY <1>1, <1>3, <1>4 DEF Remains

LEMMA DiskRemains ==
    ASSUME NEW c, NEW out, Kept(c, out, 0)
    PROVE  \E tag : Remains(DiskOf(c), c, tag)
<1>. DEFINE disk == DiskOf(c)
<1>1. disk.meta = c.meta /\ disk.data = c.data
  BY DEF DiskOf
<1>. HIDE DEF disk
<1>2. NewOn(disk, c) = {}
  BY <1>1 DEF NewOn
<1>3. \A t \in DOMAIN c.meta : c.meta[t] # Torn
  BY CountersDiffer, CacheAssumption
<1>4. \A tag : Remains(disk, c, tag)
  BY <1>1, <1>2, <1>3 DEF Remains, ValidOn
<1>. QED  BY <1>4 DEF disk

\* A crash within ComponentInformationCache::insert.
LEMMA CrashRemains ==
    ASSUME NEW c, NEW out, Kept(c, out, 0), NEW tag, NEW file,
           NEW disk \in DisksWithinInsert(c, tag, file)
    PROVE  \E new : Remains(disk, c, new)
<1>. DEFINE moved == [ data |-> With(c.data, tag, file.content), meta |-> c.meta ]
            torn  == [ moved EXCEPT !.meta = With(@, tag, Torn) ]
            whole == [ moved EXCEPT !.meta = With(@, tag, c.next) ]
            d     == Insert(c, tag, file).cache
            done  == DiskOf(d)
<1>1. CASE disk = DiskOf(c)
  BY <1>1, DiskRemains
<1>2. CASE disk # DiskOf(c)
  <2>1. /\ tag \notin DOMAIN c.meta \cup DOMAIN c.data /\ file # NoFile
        /\ disk \in {moved, torn, whole, [done EXCEPT !.data = whole.data]}
    BY <1>2 DEF DisksWithinInsert
  <2>2. disk.data = With(c.data, tag, file.content)
    BY <2>1 DEF DiskOf
  <2>3. DOMAIN disk.data = DOMAIN c.data \cup {tag}
    BY <2>2 DEF With
  <2>4. CASE disk = moved
    <3>1. disk.meta = c.meta
      BY <2>4
    <3>. HIDE DEF moved
    <3>2. tag \notin NewOn(disk, c)
      BY <3>1, <2>1 DEF NewOn
    <3>. QED  BY <2>1, <2>3, <3>1, <3>2, SameRemains
  <2>5. CASE disk = torn \/ disk = whole
    <3>1. disk.meta = With(c.meta, tag, Torn) \/ disk.meta = With(c.meta, tag, c.next)
      BY <2>5
    <3>. HIDE DEF moved, torn, whole
    <3>2. /\ DOMAIN disk.meta = DOMAIN c.meta \cup {tag}
          /\ disk.meta[tag] \in {Torn, c.next}
          /\ \A t \in DOMAIN c.meta : disk.meta[t] = c.meta[t]
      BY <2>1, <3>1 DEF With
    <3>3. tag \in NewOn(disk, c) => tag \in DOMAIN disk.data /\ disk.meta[tag] = c.next
      BY <2>3, <3>2 DEF NewOn
    <3>. QED  BY <2>1, <2>3, <3>2, <3>3, SameRemains
  <2>6. CASE disk = [done EXCEPT !.data = whole.data]
    <3>. DEFINE a == Added(c, tag, file.content)
    <3>1. disk.meta = d.meta
      BY <2>6 DEF DiskOf
    <3>2. d = RemoveOldEntries(a)
      BY <2>1 DEF Insert, Added
    <3>3. Kept(a, out, 1)
      BY <2>1, AddedIsKept
    <3>4. a.meta = With(c.meta, tag, c.next)
      BY DEF Kept, Fields, Added
    <3>. HIDE DEF a, d, done, whole, moved, torn
    <3>5. Thinned(a, d)
      BY <3>2, <3>3, RemoveOldThins
    <3>6. /\ DOMAIN a.meta = DOMAIN c.meta \cup {tag} /\ a.meta[tag] = c.next
          /\ \A t \in DOMAIN c.meta : a.meta[t] = c.meta[t]
      BY <2>1, <3>4 DEF With
    <3>7. c.next \in Nat /\ \A t \in DOMAIN c.meta : c.meta[t] \in Nat /\ c.meta[t] < c.next
      BY CountersDiffer DEF Kept
    <3>8. tag \in DOMAIN disk.meta /\ disk.meta[tag] = c.next
      <4>1. \A t \in DOMAIN a.meta : a.meta[t] <= a.meta[tag]
        BY <3>6, <3>7
      <4>. QED  BY <4>1, <3>1, <3>5, <3>6 DEF Thinned
    <3>9. /\ DOMAIN disk.meta \subseteq DOMAIN c.meta \cup {tag}
          /\ \A t \in DOMAIN disk.meta \cap DOMAIN c.meta : disk.meta[t] = c.meta[t]
          /\ \A t \in DOMAIN c.meta \ DOMAIN disk.meta, u \in DOMAIN disk.meta :
                c.meta[t] < disk.meta[u]
      BY <3>1, <3>5, <3>6 DEF Thinned
    <3>10. c.next # Torn /\ \A t \in DOMAIN c.meta : c.meta[t] # Torn
      BY <3>7, CacheAssumption
    <3>11. NewOn(disk, c) = {tag}
      BY <2>1, <3>8, <3>9, <3>10 DEF NewOn
    <3>12. tag \in ValidOn(disk) /\ ValidOn(disk) \subseteq DOMAIN disk.meta
      BY <2>3, <3>8, <3>10 DEF ValidOn
    <3>13. ASSUME NEW t \in DOMAIN c.meta \ ValidOn(disk), t \in DOMAIN c.data
           PROVE  \A u \in ValidOn(disk) : c.meta[t] < disk.meta[u]
      <4>1. t \notin DOMAIN disk.meta
        BY <2>3, <3>9, <3>10, <3>13 DEF ValidOn
      <4>. QED  BY <4>1, <3>9, <3>12
    <3>14. Remains(disk, c, tag)
      BY <3>8, <3>9, <3>11, <3>12, <3>13 DEF Remains
    <3>. QED  BY <3>14
  <2>. QED  BY <2>1, <2>4, <2>5, <2>6
<1>. QED  BY <1>1, <1>2

\* What LeastRecentlyUsedGoes says of two caches and orders of use.
Goes(c, order, d, now) ==
    /\ \A t \in DOMAIN c.meta \ DOMAIN d.meta :
          t \notin DOMAIN c.data \/ \A u \in DOMAIN d.meta : Before(now, t, u)
    /\ now # order => \E u \in DOMAIN d.meta : Newest(now, u)

\* ComponentInformationCache::initializeDirectory.
LEMMA ReadIsInOrder ==
    ASSUME NEW c, NEW out, Kept(c, out, 0), NEW order, InOrder(c, order),
           NEW disk, NEW n, Recoverable(disk, n), NEW tag, Remains(disk, c, tag)
    PROVE  LET d   == InitializeDirectory(disk)
               now == NowUsed(order, NewOn(disk, c))
           IN  Goes(c, order, d, now) /\ InOrder(d, now)
<1>. DEFINE d     == InitializeDirectory(disk)
            now   == NowUsed(order, NewOn(disk, c))
            r     == Read(disk)
            valid == ValidOn(disk)
<1>1. d = RemoveOldEntries(r)
  BY DEF InitializeDirectory, Read, ValidOn, UsedOn
<1>2. r.meta = Restrict(disk.meta, valid)
  BY DEF Read
<1>3. DOMAIN r.meta = valid /\ \A t \in valid : r.meta[t] = disk.meta[t]
  BY <1>2 DEF Restrict, ValidOn
<1>4. Kept(r, {}, 1)
  BY ReadIsKept
<1>5. Thinned(r, d)
  <2>. HIDE DEF r, d
  <2>. QED  BY <1>1, <1>4, RemoveOldThins
<1>. HIDE DEF r, d
<1>6. c.next \in Nat /\ \A t \in DOMAIN c.meta : c.meta[t] \in Nat /\ c.meta[t] < c.next
  BY CountersDiffer DEF Kept
<1>7. /\ NewOn(disk, c) \subseteq {tag} /\ NewOn(disk, c) \subseteq valid
      /\ NewOn(disk, c) \cap DOMAIN c.meta = {}
      /\ \A t \in valid :
            \/ t \in DOMAIN c.meta /\ disk.meta[t] = c.meta[t]
            \/ t \in NewOn(disk, c) /\ disk.meta[t] = c.next
      /\ \A t \in DOMAIN c.meta \ valid :
            t \notin DOMAIN c.data \/ \A u \in valid : c.meta[t] < disk.meta[u]
  BY DEF Remains, NewOn
<1>. HIDE DEF valid
<1>8. \A t, u \in DOMAIN c.meta : Before(order, t, u) => Before(now, t, u)
  <2>1. CASE NewOn(disk, c) = {}
    BY <2>1, UsedNone
  <2>2. CASE NewOn(disk, c) = {tag}
    <3>1. tag \notin DOMAIN c.meta
      BY <1>7, <2>2
    <3>. QED  BY <3>1, <2>2, OthersStayBefore
  <2>. QED  BY <1>7, <2>1, <2>2
<1>9. InOrder(r, now)
  <2>1. CASE NewOn(disk, c) = {}
    <3>1. now = order
      BY <2>1, UsedNone
    <3>2. \A t \in valid : t \in DOMAIN c.meta /\ r.meta[t] = c.meta[t]
      BY <1>3, <1>7, <2>1
    <3>. HIDE DEF now
    <3>. QED  BY <1>3, <3>1, <3>2 DEF InOrder
  <2>2. CASE NewOn(disk, c) = {tag}
    <3>1. tag \in valid /\ tag \notin DOMAIN c.meta /\ r.meta[tag] = c.next
      BY <1>3, <1>7, <2>2
    <3>2. \A t \in valid \ {tag} : t \in DOMAIN c.meta /\ r.meta[t] = c.meta[t]
      BY <1>3, <1>7, <2>2
    <3>3. \A t \in valid \ {tag} : r.meta[t] = c.meta[t] /\ ~(r.meta[tag] < r.meta[t])
      BY <1>6, <3>1, <3>2
    <3>4. ~(r.meta[tag] < r.meta[tag])
      BY <1>6, <3>1
    <3>5. valid \subseteq DOMAIN c.meta \cup {tag}
      BY <3>2
    <3>6. InOrder(r, NowUsed(order, {tag}))
      BY <1>3, <3>3, <3>4, <3>5, UsedIsInOrder
    <3>. QED  BY <2>2, <3>6
  <2>. QED  BY <1>7, <2>1, <2>2
<1>10. InOrder(d, now)
  <2>. HIDE DEF now
  <2>. QED  BY <1>5, <1>9 DEF InOrder, Thinned
<1>11. ASSUME NEW t \in DOMAIN c.meta \ DOMAIN d.meta, t \in DOMAIN c.data,
              NEW u \in DOMAIN d.meta
       PROVE  Before(now, t, u)
  <2>1. u \in valid
    BY <1>3, <1>5 DEF Thinned
  <2>2. CASE t \in valid
    <3>1. r.meta[t] < r.meta[u]
      BY <1>3, <1>5, <2>2 DEF Thinned
    <3>. HIDE DEF now
    <3>. QED  BY <1>3, <1>9, <2>1, <2>2, <3>1 DEF InOrder
  <2>3. CASE t \notin valid
    <3>1. c.meta[t] < disk.meta[u]
      BY <1>7, <1>11, <2>1, <2>3
    <3>2. CASE u \in DOMAIN c.meta
      <4>1. u \notin NewOn(disk, c)
        BY <1>7, <3>2
      <4>2. disk.meta[u] = c.meta[u]
        BY <1>7, <2>1, <4>1
      <4>3. Before(order, t, u)
        BY <3>1, <3>2, <4>2 DEF InOrder
      <4>. HIDE DEF now
      <4>. QED  BY <1>8, <3>2, <4>3
    <3>3. CASE u \notin DOMAIN c.meta
      <4>1. u \in NewOn(disk, c)
        BY <1>7, <2>1, <3>3
      <4>2. NewOn(disk, c) = {u} /\ u # t
        BY <1>7, <3>3, <4>1
      <4>3. << t, t >> \in order
        BY DEF InOrder
      <4>. QED  BY <4>2, <4>3, OneIsAfterOthers
    <3>. QED  BY <3>2, <3>3
  <2>. QED  BY <2>2, <2>3
<1>12. ASSUME now # order PROVE \E u \in DOMAIN d.meta : Newest(now, u)
  <2>1. NewOn(disk, c) = {tag}
    <3>1. NewOn(disk, c) # {}
      BY <1>12, UsedNone
    <3>. QED  BY <1>7, <3>1
  <2>2. tag \in valid /\ r.meta[tag] = c.next
    BY <1>3, <1>7, <2>1
  <2>3. \A t \in valid : r.meta[t] <= c.next
    <3>. TAKE t \in valid
    <3>1. CASE t \in DOMAIN c.meta /\ disk.meta[t] = c.meta[t]
      BY <1>3, <1>6, <3>1
    <3>2. CASE disk.meta[t] = c.next
      BY <1>3, <1>6, <3>2
    <3>. QED  BY <1>7, <3>1, <3>2
  <2>4. tag \in DOMAIN d.meta
    BY <1>3, <1>5, <2>2, <2>3 DEF Thinned
  <2>5. Newest(now, tag)
    BY <2>1, OneGoesLast
  <2>. QED  BY <2>4, <2>5
<1>13. Goes(c, order, d, now)
  <2>. HIDE DEF now
  <2>. QED  BY <1>11, <1>12 DEF Goes
<1>. QED  BY <1>10, <1>13 DEF d

(***************************************************************************)
(* The managers.  Sound holds of a manager at work whose cache and order   *)
(* of use are as they should be since the start of the step.               *)
(***************************************************************************)
Works(s, at) ==
    /\ {"cache", "discarded", "type", "used", "waits"} \subseteq DOMAIN s
    /\ Held(s.cache, s.used, s.discarded, at)

Sound(s, at) == Works(s, at) /\ s.type \in AllTypes

\* What some operators leave alone.
Same(s, r) ==
    /\ DOMAIN r = DOMAIN s /\ r.discarded = s.discarded /\ r.type = s.type
    /\ r.cache = s.cache /\ r.used = s.used

LEMMA SameIsSound ==
    ASSUME NEW s, NEW at, Sound(s, at), NEW r, Same(s, r)
    PROVE  Sound(r, at)
BY DEF Sound, Works, Same

\* The cache after an access or an insertion.
LEMMA CachedIsSound ==
    ASSUME NEW s, NEW at, Sound(s, at), NEW found,
           Held(found.cache, NowUsed(s.used, found.used), s.discarded, at)
    PROVE  Sound(Cached(s, found), at)
<1>. DEFINE now == NowUsed(s.used, found.used)
            r   == Cached(s, found)
<1>1. /\ DOMAIN r = DOMAIN s /\ r.discarded = s.discarded /\ r.type = s.type
      /\ r.cache = found.cache /\ r.used = now
  BY DEF Cached, Sound, Works
<1>. HIDE DEF r, now
<1>2. Sound(r, at)
  BY <1>1 DEF Sound, Works, now
<1>. QED  BY <1>2 DEF r

LEMMA RemoveFileIsSound ==
    ASSUME NEW s, NEW at, Sound(s, at), NEW file
    PROVE  Sound(RemoveFile(s, file), at) /\ RemoveFile(s, file).waits = s.waits
<1>1. CASE ~(file # NoFile /\ file.dir = "cache")
  BY <1>1 DEF RemoveFile
<1>2. CASE file # NoFile /\ file.dir = "cache"
  <2>. DEFINE r == [s EXCEPT !.cache.data = Without(@, {file.tag}),
                             !.discarded = @ \cup {file.tag}]
              c == s.cache
              d == r.cache
  <2>1. RemoveFile(s, file) = r
    BY <1>2 DEF RemoveFile
  <2>2. /\ DOMAIN r = DOMAIN s /\ r.discarded = s.discarded \cup {file.tag} /\ r.type = s.type
        /\ r.waits = s.waits /\ r.used = s.used /\ d = [c EXCEPT !.data = Without(@, {file.tag})]
    BY DEF Sound, Works
  <2>3. Kept(c, at.out \cup s.discarded, 0) /\ Recent(c, s.used, at)
    BY DEF Sound, Works, Held
  <2>. HIDE DEF r, c, d
  <2>4. /\ d.meta = c.meta /\ d.files = c.files /\ d.next = c.next /\ d.num = c.num /\ Fields(d)
        /\ d.data = Without(c.data, {file.tag})
    BY <2>2, <2>3 DEF Kept, Fields
  <2>5. DOMAIN d.data = DOMAIN c.data \ {file.tag}
    BY <2>4 DEF Without, Restrict
  <2>6. Kept(d, at.out \cup r.discarded, 0)
    BY <2>2, <2>3, <2>4, <2>5 DEF Kept
  <2>7. Recent(d, r.used, at)
    BY <2>2, <2>3, <2>4 DEF Recent, InOrder
  <2>. QED  BY <2>1, <2>2, <2>6, <2>7 DEF Sound, Works, Held, d
<1>. QED  BY <1>1, <1>2

LEMMA SetJsonIsSound ==
    ASSUME NEW s, NEW at, Sound(s, at)
    PROVE  Sound(SetJson(s), at)
<1>1. Same(s, SetJson(s))
  BY DEF SetJson, Same, Sound, Works
<1>. QED  BY <1>1, SameIsSound

\* _stateRequestComplete removes the files that are not to be kept.
LEMMA CompleteIsSound ==
    ASSUME NEW s, NEW at, Sound(s, at)
    PROVE  Sound(StateRequestComplete(s), at)
<1>. DEFINE set     == SetJson(s)
            removed == RemoveFile(RemoveFile(set, s.json), s.translation)
            r       == IF s.jsonCrcValid THEN set ELSE removed
<1>1. Sound(set, at)
  BY SetJsonIsSound
<1>2. Sound(removed, at)
  <2>. HIDE DEF set
  <2>. QED  BY <1>1, RemoveFileIsSound
<1>3. Sound(r, at)
  BY <1>1, <1>2
<1>4. StateRequestComplete(s) = [r EXCEPT !.waits = "none"]
  BY DEF StateRequestComplete
<1>. HIDE DEF r
<1>. QED  BY <1>3, <1>4 DEF Sound, Works

LEMMA RequestFileIsSound ==
    ASSUME NEW s, NEW at, Sound(s, at), NEW which
    PROVE  Sound(RequestFile(s, which), at)
<1>. DEFINE found == Found(s, which)
            one   == Cached(s, found)
            after == SetFile(one, which, found.file)
            r     == RequestFile(s, which)
<1>1. Held(found.cache, NowUsed(s.used, found.used), s.discarded, at)
  <2>1. CASE found = Access(s.cache, Tag(s, which))
    <3>. HIDE DEF found
    <3>. QED  BY <2>1, AccessIsHeld DEF Sound, Works
  <2>2. CASE found = Untouched(s.cache, NoFile)
    <3>. HIDE DEF found
    <3>. QED  BY <2>2, UsedNone DEF Sound, Works, Untouched
  <2>. QED  BY <2>1, <2>2 DEF Found
<1>. HIDE DEF found
<1>3. Sound(one, at)
  BY <1>1, CachedIsSound
<1>. HIDE DEF one
<1>5. Sound(after, at)
  BY <1>3 DEF SetFile, Sound, Works
<1>6. \/ r = [Failed(after, which) EXCEPT !.waits = "none"]
      \/ r = [after EXCEPT !.waits = which]
      \/ r = [after EXCEPT !.waits = "none"]
  BY DEF RequestFile, found, one
<1>. HIDE DEF after, r
<1>7. Sound(r, at)
  BY <1>5, <1>6 DEF Failed, Sound, Works
<1>. QED  BY <1>7 DEF r

LEMMA TranslationIsSound ==
    ASSUME NEW s, NEW at, Sound(s, at)
    PROVE  Sound(StateRequestTranslationJson(s), at)
<1>. DEFINE r == RequestFile(s, "translation")
<1>1. Sound(r, at)
  BY RequestFileIsSound
<1>2. StateRequestTranslationJson(s) = IF r.waits = "none" THEN StateRequestComplete(r) ELSE r
  BY DEF StateRequestTranslationJson, Then
<1>. HIDE DEF r
<1>. QED  BY <1>1, <1>2, CompleteIsSound

LEMMA FallbackIsSound ==
    ASSUME NEW s, NEW at, Sound(s, at)
    PROVE  Sound(StateRequestMetaDataJsonFallback(s), at)
<1>. DEFINE q == [s EXCEPT !.jsonCrcValid = Uris(s).fallback.valid]
            r == RequestFile(q, "fallback")
<1>1. Same(s, q)
  BY DEF Same, Sound, Works
<1>. HIDE DEF q
<1>2. Sound(r, at)
  BY <1>1, SameIsSound, RequestFileIsSound
<1>3. RequestFallback(s) = IF r.waits = "none" THEN StateRequestTranslationJson(r) ELSE r
  BY DEF RequestFallback, Then, q
<1>. HIDE DEF r
<1>. QED  BY <1>2, <1>3, TranslationIsSound DEF StateRequestMetaDataJsonFallback

LEMMA MetaDataJsonIsSound ==
    ASSUME NEW s, NEW at, Sound(s, at)
    PROVE  Sound(StateRequestMetaDataJson(s), at)
<1>. DEFINE q == [s EXCEPT !.jsonCrcValid = Uris(s).metadata.valid]
            r == RequestFile(q, "metadata")
<1>1. Same(s, q)
  BY DEF Same, Sound, Works
<1>. HIDE DEF q
<1>2. Sound(r, at)
  BY <1>1, SameIsSound, RequestFileIsSound
<1>3. StateRequestMetaDataJson(s) =
         IF r.waits = "none" THEN StateRequestMetaDataJsonFallback(r) ELSE r
  BY DEF StateRequestMetaDataJson, Then, q
<1>. HIDE DEF r
<1>. QED  BY <1>2, <1>3, FallbackIsSound

\* Any type may come before; a manager that is new has none.
LEMMA CompInfoIsSound ==
    ASSUME NEW s, NEW at, NEW type \in AllTypes, NEW linked \in BOOLEAN,
           Works(s, at)
    PROVE  Sound(StateRequestCompInfo(s, type, linked), at)
<1>. DEFINE q == [s EXCEPT !.type = type, !.json = NoFile, !.translation = NoFile]
<1>1. Sound(q, at)
  BY DEF Sound, Works
<1>2. \/ StateRequestCompInfo(s, type, linked) = [q EXCEPT !.waits = "message"]
      \/ StateRequestCompInfo(s, type, linked) = StateRequestMetaDataJson(q)
  BY DEF StateRequestCompInfo, Then
<1>. HIDE DEF q
<1>3. Sound([q EXCEPT !.waits = "message"], at)
  BY <1>1 DEF Sound, Works
<1>. QED  BY <1>1, <1>2, <1>3, MetaDataJsonIsSound

LEMMA TypeIsSound ==
    ASSUME NEW s, NEW at, Sound(s, at), NEW type \in AllTypes
    PROVE  Sound(RequestType(s, type), at)
BY CompInfoIsSound DEF RequestType, Sound

\* A manager between two steps: at work with a type, or through with all.
Settling(s, at) == Works(s, at) /\ (s.type \in AllTypes \/ s.waits = "none")

LEMMA AllCompleteSettles ==
    ASSUME NEW s, NEW at, Sound(s, at)
    PROVE  Settling(StateRequestAllCompInfoComplete(s), at)
BY DEF StateRequestAllCompInfoComplete, Sound, Works, Settling

LEMMA ActuatorsSettle ==
    ASSUME NEW s, NEW at, Sound(s, at)
    PROVE  Settling(StateRequestCompInfoActuators(s), at)
<1>. DEFINE r == RequestType(s, "actuators")
<1>1. Sound(r, at)
  BY TypeIsSound DEF AllTypes
<1>2. StateRequestCompInfoActuators(s) = StateRequestAllCompInfoComplete(r)
  BY DEF StateRequestCompInfoActuators, Then
<1>. HIDE DEF r
<1>. QED  BY <1>1, <1>2, AllCompleteSettles

LEMMA EventsSettle ==
    ASSUME NEW s, NEW at, Sound(s, at)
    PROVE  Settling(StateRequestCompInfoEvents(s), at)
<1>. DEFINE r == RequestType(s, "events")
<1>1. Sound(r, at)
  BY TypeIsSound DEF AllTypes
<1>2. StateRequestCompInfoEvents(s) = StateRequestCompInfoActuators(r)
  BY DEF StateRequestCompInfoEvents, Then
<1>. HIDE DEF r
<1>. QED  BY <1>1, <1>2, ActuatorsSettle

LEMMA ParamSettles ==
    ASSUME NEW s, NEW at, Sound(s, at)
    PROVE  Settling(StateRequestCompInfoParam(s), at)
<1>. DEFINE r == RequestType(s, "param")
<1>1. Sound(r, at)
  BY TypeIsSound DEF AllTypes
<1>2. StateRequestCompInfoParam(s) = StateRequestCompInfoEvents(r)
  BY DEF StateRequestCompInfoParam, Then
<1>. HIDE DEF r
<1>. QED  BY <1>1, <1>2, EventsSettle

LEMMA TypeEndsSettles ==
    ASSUME NEW s, NEW at, Sound(s, at)
    PROVE  Settling(TypeEnds(s), at)
<1>1. CASE s.waits # "none"
  BY <1>1 DEF TypeEnds, Settling, Sound
<1>2. CASE s.waits = "none" /\ s.type = "general"
  <2>. DEFINE q == UpdateAllUri(s)
  <2>1. Same(s, q)
    BY DEF UpdateAllUri, Same, Sound, Works
  <2>2. Sound(q, at)
    BY <2>1, SameIsSound
  <2>3. TypeEnds(s) = StateRequestCompInfoParam(q)
    BY <1>2 DEF TypeEnds, Then
  <2>. HIDE DEF q
  <2>. QED  BY <2>2, <2>3, ParamSettles
<1>3. CASE s.waits = "none" /\ s.type = "param"
  BY <1>3, EventsSettle DEF TypeEnds
<1>4. CASE s.waits = "none" /\ s.type = "events"
  BY <1>4, ActuatorsSettle DEF TypeEnds
<1>5. CASE s.waits = "none" /\ s.type = "actuators"
  BY <1>5, AllCompleteSettles DEF TypeEnds
<1>. QED  BY <1>1, <1>2, <1>3, <1>4, <1>5 DEF Sound, AllTypes

LEMMA RequestAllSettles ==
    ASSUME NEW s, NEW at, Works(s, at), NEW linked \in BOOLEAN
    PROVE  Settling(RequestAllComponentInformation(s, linked), at)
<1>. DEFINE r == StateRequestCompInfo(s, "general", linked)
<1>1. Sound(r, at)
  BY CompInfoIsSound DEF AllTypes
<1>2. RequestAllComponentInformation(s, linked) = TypeEnds(r)
  BY DEF RequestAllComponentInformation, Then
<1>. HIDE DEF r
<1>. QED  BY <1>1, <1>2, TypeEndsSettles

LEMMA MessageSettles ==
    ASSUME NEW s, NEW at, Sound(s, at), NEW answered \in BOOLEAN, NEW uri
    PROVE  Settling(MessageResult(s, answered, uri), at)
<1>. DEFINE q == IF answered THEN [s EXCEPT !.uris["general"].metadata = uri] ELSE s
            r == StateRequestMetaDataJson(q)
<1>1. Same(s, q)
  BY DEF Same, Sound, Works
<1>2. MessageResult(s, answered, uri) = TypeEnds(r)
  BY DEF MessageResult, Then
<1>. HIDE DEF q
<1>3. Sound(r, at)
  BY <1>1, SameIsSound, MetaDataJsonIsSound
<1>. HIDE DEF r
<1>. QED  BY <1>2, <1>3, TypeEndsSettles

LEMMA WorkerIsSound ==
    ASSUME NEW s, NEW at, Sound(s, at), NEW which, NEW file
    PROVE  Sound(DownloadCompleteJsonWorker(s, which, file), at)
<1>. DEFINE kept == IF Uris(s)[which].valid THEN Insert(s.cache, Tag(s, which), file)
                    ELSE Untouched(s.cache, file)
            had  == IF kept.file = NoFile THEN Failed(s, which) ELSE s
            one  == Cached(had, kept)
<1>1. Held(kept.cache, NowUsed(s.used, kept.used), s.discarded, at)
  <2>1. CASE kept = Insert(s.cache, Tag(s, which), file)
    <3>. HIDE DEF kept
    <3>. QED  BY <2>1, InsertIsHeld DEF Sound, Works
  <2>2. CASE kept = Untouched(s.cache, file)
    <3>. HIDE DEF kept
    <3>. QED  BY <2>2, UsedNone DEF Sound, Works, Untouched
  <2>. QED  BY <2>1, <2>2
<1>2. DownloadCompleteJsonWorker(s, which, file) = SetFile(one, which, kept.file)
  BY DEF DownloadCompleteJsonWorker
<1>. HIDE DEF kept
<1>3. Same(s, had)
  BY DEF Same, Failed, Sound, Works
<1>. HIDE DEF had
<1>4. Sound(had, at)
  BY <1>3, SameIsSound
<1>5. Sound(one, at)
  BY <1>1, <1>3, <1>4, CachedIsSound DEF Same
<1>. HIDE DEF one
<1>. QED  BY <1>2, <1>5 DEF SetFile, Sound, Works

LEMMA DownloadSettles ==
    ASSUME NEW s, NEW at, Sound(s, at), s.waits \in Files, NEW content, NEW inflates \in BOOLEAN
    PROVE  Settling(DownloadComplete(s, content, inflates), at)
<1>. DEFINE file  == IF inflates THEN TempFile(content) ELSE NoFile
            ended == IF content = NoFile THEN Failed(s, s.waits)
                     ELSE DownloadCompleteJsonWorker(s, s.waits, file)
            next  == CASE s.waits = "metadata" -> StateRequestMetaDataJsonFallback(ended)
                       [] s.waits = "fallback" -> StateRequestTranslationJson(ended)
                       [] s.waits = "translation" -> StateRequestComplete(ended)
<1>1. DownloadComplete(s, content, inflates) = TypeEnds(next)
  <2>1. CASE s.waits = "metadata"
    BY <2>1 DEF DownloadComplete, Then
  <2>2. CASE s.waits = "fallback"
    BY <2>2 DEF DownloadComplete, Then
  <2>3. CASE s.waits = "translation"
    BY <2>3 DEF DownloadComplete, Then
  <2>. QED  BY <2>1, <2>2, <2>3 DEF Files
<1>2. Sound(ended, at)
  <2>1. Sound(Failed(s, s.waits), at)
    BY DEF Failed, Sound, Works
  <2>2. Sound(DownloadCompleteJsonWorker(s, s.waits, file), at)
    <3>. HIDE DEF file
    <3>. QED  BY WorkerIsSound
  <2>. QED  BY <2>1, <2>2
<1>. HIDE DEF ended
<1>3. Sound(next, at)
  BY <1>2, FallbackIsSound, TranslationIsSound, CompleteIsSound DEF Files
<1>. HIDE DEF next
<1>. QED  BY <1>1, <1>3, TypeEndsSettles

(***************************************************************************)
(* The invariant.                                                          *)
(***************************************************************************)
\* A manager of a connected vehicle, without the cache: it has removed nothing that is not
\* recorded, and is at work with a type when it waits.
Rests(m) ==
    /\ {"cache", "discarded", "type", "used", "waits"} \subseteq DOMAIN m /\ m.discarded = {}
    /\ m.type \in AllTypes \/ m.waits = "none"

MInv ==
    /\ Kept(cache, discarded, 0) /\ InOrder(cache, used)
    /\ DOMAIN managers = Vehicles
    /\ \A v \in Connected : Rests(managers[v])

\* The start of a step.
Start == [ out |-> discarded, entries |-> Entries, used |-> used ]

\* What LeastRecentlyUsedGoes says of each step.
OldestGoes ==
    /\ \A t \in Entries \ Entries' :
          t \notin DOMAIN cache.data \/ \A u \in Entries' : Before(used', t, u)
    /\ used' # used => \E u \in Entries' : Newest(used', u)

LEMMA StartIsHeld ==
    ASSUME MInv
    PROVE  Held(cache, used, {}, Start)
<1>1. Start.out \cup {} = discarded /\ Start.entries = DOMAIN cache.meta /\ Start.used = used
  BY DEF Start, Entries
<1>2. Recent(cache, used, Start)
  BY <1>1 DEF Recent, MInv, InOrder
<1>. QED  BY <1>1, <1>2 DEF Held, MInv

\* A step that touches neither the cache nor the history of its use.
LEMMA NothingGoes ==
    ASSUME MInv, UNCHANGED << cache, used, discarded >>
    PROVE  Kept(cache, discarded, 0)' /\ InOrder(cache, used)' /\ OldestGoes
BY DEF MInv, OldestGoes, Entries

LEMMA SettledRests ==
    ASSUME NEW s, NEW at, Settling(s, at)
    PROVE  Rests(Settled(s))
<1>. DEFINE t == [s EXCEPT !.cache = NoDisk, !.refuses = FALSE, !.used = {}, !.discarded = {}]
<1>1. /\ DOMAIN t = DOMAIN s /\ t.discarded = {} /\ t.type = s.type /\ t.waits = s.waits
  BY DEF Settling, Works
<1>2. \/ Settled(s) = t
      \/ Settled(s) = [t EXCEPT !.json = NoFile, !.translation = NoFile, !.jsonCrcValid = FALSE,
                                !.uris = NewManager(NoDisk).uris]
  BY DEF Settled
<1>. HIDE DEF t
<1>. QED  BY <1>1, <1>2 DEF Settling, Works, Rests

\* The cache and what was removed from it after a step of a manager.
LEMMA StepKeeps ==
    ASSUME MInv, NEW v \in Vehicles, NEW s, Settling(s, Start), Step(v, s)
    PROVE  MInv' /\ OldestGoes
<1>0. Kept(s.cache, discarded \cup s.discarded, 0) /\ Recent(s.cache, s.used, Start)
  BY DEF Settling, Works, Held, Start
<1>1. /\ cache' = s.cache /\ used' = s.used
      /\ discarded' = (discarded \cup s.discarded) \cap DOMAIN s.cache.meta
      /\ managers' = [managers EXCEPT ![v] = Settled(s)]
  BY DEF Step
<1>2. Kept(cache', discarded', 0)
  <2>1. \A k \in DOMAIN s.cache.files : s.cache.files[k] \in DOMAIN s.cache.meta
    BY <1>0 DEF Kept, Range
  <2>. QED  BY <1>0, <1>1, <2>1 DEF Kept
<1>3. Rests(Settled(s))
  BY SettledRests
<1>. HIDE DEF Step
<1>4. DOMAIN managers' = Vehicles /\ \A w \in Connected' : Rests(managers'[w])
  BY <1>1, <1>3 DEF MInv, Connected
<1>5. Start.entries = Entries /\ Start.used = used
  BY DEF Start
<1>6. OldestGoes
  BY <1>0, <1>1, <1>5 DEF OldestGoes, Recent, Entries
<1>7. InOrder(cache', used')
  BY <1>0, <1>1 DEF Recent
<1>. QED  BY <1>2, <1>4, <1>6, <1>7 DEF MInv

LEMMA ManagerIsSound ==
    ASSUME MInv, NEW v \in Connected, NEW refuses \in BOOLEAN, managers[v].waits # "none"
    PROVE  Sound(Manager(v, refuses), Start) /\ Manager(v, refuses).waits = managers[v].waits
<1>. DEFINE s == Manager(v, refuses)
<1>1. Rests(managers[v])
  BY DEF MInv
<1>2. /\ DOMAIN s = DOMAIN managers[v] /\ s.cache = cache /\ s.used = used
      /\ s.discarded = {} /\ s.type = managers[v].type /\ s.waits = managers[v].waits
  BY <1>1 DEF Rests, Manager
<1>. HIDE DEF s
<1>3. Sound(s, Start)
  BY <1>1, <1>2, StartIsHeld DEF Rests, Sound, Works
<1>. QED  BY <1>2, <1>3 DEF s

LEMMA ConnectKeeps ==
    ASSUME MInv, NEW v \in Vehicles, Connect(v)
    PROVE  MInv' /\ OldestGoes
<1>1. PICK linked \in BOOLEAN, refuses \in BOOLEAN :
         Step(v, RequestAllComponentInformation(
                    [NewManager(cache) EXCEPT !.used = used, !.refuses = refuses], linked))
  BY DEF Connect
<1>. DEFINE s == [NewManager(cache) EXCEPT !.used = used, !.refuses = refuses]
<1>2. /\ {"cache", "discarded", "type", "used", "waits"} \subseteq DOMAIN s
      /\ s.cache = cache /\ s.used = used /\ s.discarded = {}
  BY DEF NewManager
<1>. HIDE DEF s
<1>3. Works(s, Start)
  BY <1>2, StartIsHeld DEF Works
<1>4. Settling(RequestAllComponentInformation(s, linked), Start)
  BY <1>3, RequestAllSettles
<1>. QED  BY <1>1, <1>4, StepKeeps DEF s

LEMMA MessageKeeps ==
    ASSUME MInv, NEW v \in Vehicles, MessageIsAnswered(v)
    PROVE  MInv' /\ OldestGoes
<1>1. v \in Connected /\ managers[v].waits # "none"
  BY DEF MessageIsAnswered
<1>2. \E answered, refuses \in BOOLEAN, uri \in Firmware \cup {NoUri} :
         \E s \in {MessageResult(Manager(v, refuses), answered, uri)} : Step(v, s)
  BY DEF MessageIsAnswered
<1>3. PICK answered \in BOOLEAN, refuses \in BOOLEAN, uri \in Firmware \cup {NoUri} :
         Step(v, MessageResult(Manager(v, refuses), answered, uri))
  BY <1>2
<1>. QED  BY <1>1, <1>3, ManagerIsSound, MessageSettles, StepKeeps

LEMMA DownloadKeeps ==
    ASSUME MInv, NEW v \in Vehicles, DownloadEnds(v)
    PROVE  MInv' /\ OldestGoes
<1>1. v \in Connected /\ managers[v].waits \in Files /\ managers[v].waits # "none"
  BY DEF DownloadEnds, Downloads, Files
<1>. DEFINE Contents == {Uris(managers[v])[managers[v].waits].file, NoFile}
                        \cup (IF \E w \in Vehicles \ {v} : InTemp(w) THEN {Mixed} ELSE {})
<1>2. \E content \in Contents, inflates, refuses \in BOOLEAN :
         \E s \in {DownloadComplete(Manager(v, refuses), content, inflates)} : Step(v, s)
  BY DEF DownloadEnds
<1>. HIDE DEF Contents
<1>3. PICK content \in Contents, inflates \in BOOLEAN, refuses \in BOOLEAN :
         Step(v, DownloadComplete(Manager(v, refuses), content, inflates))
  BY <1>2
<1>. QED  BY <1>1, <1>3, ManagerIsSound, DownloadSettles, StepKeeps

LEMMA OverwriteKeeps ==
    ASSUME MInv, NEW v \in Vehicles, FileIsOverwritten(v)
    PROVE  MInv' /\ OldestGoes
<1>. DEFINE over(f) == IF f # NoFile /\ f.dir = "temp" THEN TempFile(Mixed) ELSE f
<1>1. /\ v \in Connected /\ UNCHANGED << cache, used, discarded >>
      /\ managers' = [managers EXCEPT ![v].json = over(@), ![v].translation = over(@)]
  BY DEF FileIsOverwritten
<1>2. /\ DOMAIN managers' = Vehicles
      /\ \A w \in Vehicles \ {v} : managers'[w] = managers[w]
      /\ managers'[v] = [managers[v] EXCEPT !.json = over(@), !.translation = over(@)]
  BY <1>1 DEF MInv
<1>3. Rests(managers'[v])
  BY <1>1, <1>2 DEF MInv, Rests
<1>4. \A w \in Connected' : Rests(managers'[w])
  BY <1>1, <1>2, <1>3 DEF MInv, Connected
<1>. QED  BY <1>1, <1>2, <1>4, NothingGoes DEF MInv

LEMMA RestartKeeps ==
    ASSUME MInv, Restart
    PROVE  MInv' /\ OldestGoes
<1>1. PICK disk \in {DiskOf(cache)} \cup UNION {DisksOf(v) : v \in Vehicles} :
         cache' = InitializeDirectory(disk) /\ used' = NowUsed(used, NewOn(disk, cache))
  BY DEF Restart, NewOn
<1>2. managers' = [v \in Vehicles |-> Gone] /\ discarded' = {}
  BY DEF Restart
<1>3. \E n : Recoverable(disk, n)
  <2>1. CASE disk = DiskOf(cache)
    BY <2>1, KeptLoosely, DiskOfKept DEF MInv, DiskOf, ValidOn
  <2>2. CASE disk # DiskOf(cache)
    <3>1. PICK v \in Vehicles : disk \in DisksOf(v)
      BY <1>1, <2>2
    <3>2. PICK tag, file : disk \in DisksWithinInsert(cache, tag, file)
      BY <3>1 DEF DisksOf
    <3>. QED  BY <3>2, CrashIsRecoverable DEF MInv
  <2>. QED  BY <2>1, <2>2
<1>4. Kept(cache', discarded', 0)
  BY <1>1, <1>2, <1>3, InitializeIsKept
<1>5. \E tag : Remains(disk, cache, tag)
  <2>1. CASE disk = DiskOf(cache)
    BY <2>1, DiskRemains DEF MInv
  <2>2. CASE disk # DiskOf(cache)
    <3>1. PICK v \in Vehicles : disk \in DisksOf(v)
      BY <1>1, <2>2
    <3>2. PICK tag, file : disk \in DisksWithinInsert(cache, tag, file)
      BY <3>1 DEF DisksOf
    <3>. QED  BY <3>2, CrashRemains DEF MInv
  <2>. QED  BY <2>1, <2>2
<1>6. InOrder(cache', used') /\ OldestGoes
  <2>1. Goes(cache, used, cache', used') /\ InOrder(cache', used')
    BY <1>1, <1>3, <1>5, ReadIsInOrder DEF MInv
  <2>. QED  BY <2>1 DEF Goes, OldestGoes, Entries
<1>. QED  BY <1>2, <1>4, <1>6 DEF MInv, Connected

LEMMA Initially == Init => MInv
<1>. SUFFICES ASSUME Init PROVE MInv
  OBVIOUS
<1>1. DOMAIN cache.meta = {}
  <2>1. DOMAIN Read(NoDisk).meta = {} /\ Kept(Read(NoDisk), {}, 1)
    <3>1. Recoverable(NoDisk, 0)
      BY EmptyRecoverable
    <3>2. ValidOn(NoDisk) = {}
      BY DEF ValidOn, NoDisk
    <3>. QED  BY <3>1, <3>2, ReadIsKept DEF Read, Restrict
  <2>2. cache = RemoveOldEntries(Read(NoDisk))
    BY DEF Init, InitializeDirectory, Read, ValidOn, UsedOn
  <2>. QED  BY <2>1, <2>2, RemoveOldThins DEF Thinned
<1>2. InOrder(cache, used)
  BY <1>1 DEF InOrder
<1>. QED  BY <1>2, EmptyDisk DEF Init, MInv, Connected

LEMMA StepsKeep ==
    ASSUME MInv, [Next]_vars
    PROVE  MInv' /\ (OldestGoes \/ UNCHANGED vars)
<1>1. ASSUME NEW v \in Vehicles, Connect(v) PROVE MInv' /\ OldestGoes
  BY <1>1, ConnectKeeps
<1>2. ASSUME NEW v \in Vehicles, MessageIsAnswered(v) PROVE MInv' /\ OldestGoes
  BY <1>2, MessageKeeps
<1>3. ASSUME NEW v \in Vehicles, DownloadEnds(v) PROVE MInv' /\ OldestGoes
  BY <1>3, DownloadKeeps
<1>4. ASSUME NEW v \in Vehicles, FileIsOverwritten(v) PROVE MInv' /\ OldestGoes
  BY <1>4, OverwriteKeeps
<1>5. ASSUME NEW v \in Vehicles, DownloadStrands(v) PROVE MInv' /\ OldestGoes
  <2>1. /\ v \in Connected /\ managers[v].waits \in Files
        /\ UNCHANGED << cache, used, discarded >>
        /\ managers' = [managers EXCEPT ![v].waits = "stranded"]
    BY <1>5 DEF DownloadStrands, Downloads
  <2>2. /\ DOMAIN managers' = Vehicles /\ \A w \in Vehicles \ {v} : managers'[w] = managers[w]
        /\ managers'[v] = [managers[v] EXCEPT !.waits = "stranded"]
    BY <2>1 DEF MInv
  <2>3. managers[v].type \in AllTypes
    BY <2>1 DEF MInv, Rests, Files
  <2>4. Rests(managers'[v])
    BY <2>1, <2>2, <2>3 DEF MInv, Rests
  <2>5. \A w \in Connected' : Rests(managers'[w])
    BY <2>1, <2>2, <2>4 DEF MInv, Connected
  <2>. QED  BY <2>1, <2>2, <2>5, NothingGoes DEF MInv
<1>6. ASSUME NEW v \in Vehicles, VehicleGoes(v) PROVE MInv' /\ OldestGoes
  <2>1. UNCHANGED << cache, used, discarded >> /\ managers' = [managers EXCEPT ![v] = Gone]
    BY <1>6 DEF VehicleGoes
  <2>2. DOMAIN managers' = Vehicles /\ \A w \in Connected' : Rests(managers'[w])
    BY <2>1 DEF MInv, Connected
  <2>. QED  BY <2>1, <2>2, NothingGoes DEF MInv
<1>7. CASE Restart
  BY <1>7, RestartKeeps
<1>8. CASE UNCHANGED vars
  <2>1. UNCHANGED << managers, cache, used, discarded >>
    BY <1>8 DEF vars
  <2>. QED  BY <2>1, <1>8 DEF MInv, Connected
<1>. QED  BY <1>1, <1>2, <1>3, <1>4, <1>5, <1>6, <1>7, <1>8 DEF Next

\* Through hits, insertions of several vehicles, evictions, and restarts from what a crash
\* left, the map, the count and the disk agree (ComponentInformationCache), and the counters
\* are in the order of use.
THEOREM CacheInvariance == MetadataSpec => []MInv
BY Initially, StepsKeep, PTL DEF MetadataSpec

\* The cache keeps the same thing three times, in a map by use, in a count and on the disk, and
\* they agree; it never holds more than it may (ComponentInformationCache::removeOldEntries).
THEOREM CacheKeeps == MetadataSpec => []CacheInStep
<1>1. MInv => CacheInStep
  <2>. SUFFICES ASSUME MInv PROVE CacheInStep
    OBVIOUS
  <2>1. cache.num \in Nat
    BY FS_CardinalityType DEF MInv, Kept
  <2>2. cache.num <= MaxNumFiles
    BY <2>1, CacheAssumption DEF MInv, Kept
  <2>. QED  BY <2>2 DEF MInv, Kept, CacheInStep, Entries
<1>. QED  BY <1>1, CacheInvariance, PTL

\* An entry is evicted only for others that were all used after it, by any vehicle and in any
\* run of the program, and what was used last is kept (ComponentInformationCache::access,
\* insert, removeOldEntries, initializeDirectory).
THEOREM OldestGoesFirst == MetadataSpec => LeastRecentlyUsedGoes
<1>1. MInv /\ [Next]_vars => [OldestGoes]_vars
  BY StepsKeep
<1>2. MetadataSpec => []MInv
  BY CacheInvariance
<1>. QED  BY <1>1, <1>2, PTL DEF MetadataSpec, LeastRecentlyUsedGoes, OldestGoes
================================================================================
