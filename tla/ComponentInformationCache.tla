----------------------- MODULE ComponentInformationCache -----------------------
(***************************************************************************)
(* ComponentInformationCache: files kept on disk under a tag, the least    *)
(* recently used of them removed when there are too many.  A disk is       *)
(*   data     what each .cache file holds, by tag                          *)
(*   meta     the access counter in each .meta file, by tag, or Torn       *)
(* and the cache of a running program is a disk with                       *)
(*   files    _cachedFiles, tags by access counter                         *)
(*   next     _nextAccessCounter                                            *)
(*   num      _numFiles                                                     *)
(* A program that dies leaves the disk as it is at that moment; the next   *)
(* one starts from it.  What a call returns also says, for the history,    *)
(* which entries it used.                                                  *)
(***************************************************************************)
EXTENDS Naturals, FiniteSets, Functions

CONSTANTS
    MaxNumFiles,    \* 50 in ComponentInformationCache::defaultInstance
    Torn,           \* a .meta file that was created and not written
    NoFile          \* the empty file name

ASSUME CacheAssumption == MaxNumFiles \in Nat \ {0} /\ Torn \notin Nat

NoDisk == [ data |-> << >>, meta |-> << >> ]

With(f, key, value) == [x \in DOMAIN f \cup {key} |-> IF x = key THEN value ELSE f[x]]

Without(f, keys) == Restrict(f, DOMAIN f \ keys)

DiskOf(c) == [ data |-> c.data, meta |-> c.meta ]

\* A file of the cache by its name, and one in the temporary directory by what it holds.
CachedFile(tag) == [ dir |-> "cache", tag |-> tag ]

TempFile(content) == [ dir |-> "temp", content |-> content ]

\* The n entries with the smallest counters.
OldestEntries(files, n) ==
    {k \in DOMAIN files : Cardinality({j \in DOMAIN files : j < k}) < n}

\* Mutant of RemoveOldEntries: the map is walked from its other end.
RemoveNewEntries(c) ==
    LET excess == IF c.num > MaxNumFiles THEN c.num - MaxNumFiles ELSE 0
        kept   == OldestEntries(c.files, c.num - excess)
        tags   == {c.files[k] : k \in DOMAIN c.files \ kept}
    IN  [c EXCEPT !.data = Without(@, tags), !.meta = Without(@, tags),
                  !.files = Restrict(@, kept), !.num = @ - excess]

RemoveOldEntries(c) ==
    LET excess == IF c.num > MaxNumFiles THEN c.num - MaxNumFiles ELSE 0
        old    == OldestEntries(c.files, excess)
        tags   == {c.files[k] : k \in old}
    IN  [c EXCEPT !.data = Without(@, tags), !.meta = Without(@, tags),
                  !.files = Without(@, old), !.num = @ - excess]

\* The directory is read; an entry whose counter or file is missing is removed from it.  A
\* file without a counter is left where it is, and is no entry.
InitializeDirectory(disk) ==
    LET valid   == {t \in DOMAIN disk.meta : t \in DOMAIN disk.data /\ disk.meta[t] # Torn}
        invalid == DOMAIN disk.meta \ valid
        used    == {disk.meta[t] : t \in valid}
    IN  RemoveOldEntries(
          [ data  |-> Without(disk.data, invalid),
            meta  |-> Restrict(disk.meta, valid),
            files |-> [k \in used |-> CHOOSE t \in valid : disk.meta[t] = k],
            next  |-> IF used = {} THEN 0 ELSE 1 + CHOOSE k \in used : \A j \in used : j <= k,
            num   |-> Cardinality(used) ])

Has(c, tag) == tag \in DOMAIN c.meta /\ tag \in DOMAIN c.data

\* The cache is left as it is.
Untouched(c, file) == [ cache |-> c, file |-> file, used |-> {} ]

\* Mutant of Access: the entry stays in the map under its former counter.
AccessTwice(c, tag) ==
    IF ~Has(c, tag) THEN Untouched(c, NoFile)
    ELSE [ cache |-> [c EXCEPT !.meta[tag] = c.next, !.files = With(@, c.next, tag),
                               !.next = @ + 1],
           file  |-> CachedFile(tag), used |-> {tag} ]

\* A hit is the most recent use.
Access(c, tag) ==
    IF ~Has(c, tag) THEN Untouched(c, NoFile)
    ELSE [ cache |-> [c EXCEPT !.meta[tag] = c.next,
                               !.files = With(Without(@, {c.meta[tag]}), c.next, tag),
                               !.next = @ + 1],
           file  |-> CachedFile(tag), used |-> {tag} ]

\* The file is moved into the cache; if half of the entry is there already it is deleted, and
\* the entry taken for it.
Insert(c, tag, file) ==
    IF tag \in DOMAIN c.meta \cup DOMAIN c.data
    THEN Untouched(c, CachedFile(tag))
    ELSE IF file = NoFile THEN Untouched(c, NoFile)
    ELSE [ cache |-> RemoveOldEntries(
                       [c EXCEPT !.data = With(@, tag, file.content),
                                 !.meta = With(@, tag, c.next),
                                 !.files = With(@, c.next, tag),
                                 !.next = @ + 1, !.num = @ + 1]),
           file  |-> CachedFile(tag), used |-> {tag} ]

\* What is on the disk if the program dies within Insert: it moves the file, creates its
\* .meta, writes the counter, and removes the .meta of the oldest entry before its file.
DisksWithinInsert(c, tag, file) ==
    IF Has(c, tag) \/ tag \in DOMAIN c.meta \cup DOMAIN c.data \/ file = NoFile THEN {DiskOf(c)}
    ELSE LET moved == [ data |-> With(c.data, tag, file.content), meta |-> c.meta ]
             torn  == [ moved EXCEPT !.meta = With(@, tag, Torn) ]
             whole == [ moved EXCEPT !.meta = With(@, tag, c.next) ]
             done  == DiskOf(Insert(c, tag, file).cache)
         IN  {moved, torn, whole, [done EXCEPT !.data = whole.data]}
================================================================================
