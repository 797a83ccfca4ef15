---------------------------- MODULE MetadataTransfer ----------------------------
(***************************************************************************)
(* ComponentInformation of several vehicles that share one cache of files. *)
(* Vehicles connect with any firmware and go; their answers and downloads  *)
(* come to an end, well or not, in any order, and some never do; the       *)
(* program is ended or dies at any moment and is started again.            *)
(***************************************************************************)
EXTENDS ComponentInformation

CONSTANTS
    Vehicles,
    Gone,               \* a vehicle that is not connected
    Firmware,           \* general files a vehicle may have
    MaxConnects,
    MaxUpsets           \* restarts, vehicles that go, downloads that strand, are mixed up or do not inflate

ASSUME MetadataTransferAssumption == {MaxConnects, MaxUpsets} \subseteq Nat

VARIABLES
    managers,   \* ComponentInformationManager of each vehicle, the cache left out
    cache,      \* ComponentInformationCache::defaultInstance()
    connects,
    upsets,
    used,       \* history: the order of use, over restarts
    discarded   \* history: entries of the cache whose file was removed as temporary

vars == << managers, cache, connects, upsets, used, discarded >>

Connected == {v \in Vehicles : managers[v] # Gone}

Manager(v, refuses) == [managers[v] EXCEPT !.cache = cache, !.used = used, !.refuses = refuses]

Upset == upsets < MaxUpsets /\ upsets' = upsets + 1

\* What is read again of a manager: at its end the files and URIs are of no use any more.
Settled(s) ==
    LET t == [s EXCEPT !.cache = NoDisk, !.refuses = FALSE, !.used = {}, !.discarded = {}]
    IN  IF s.type # "all" THEN t
        ELSE [t EXCEPT !.json = NoFile, !.translation = NoFile, !.jsonCrcValid = FALSE,
                       !.uris = NewManager(NoDisk).uris]

\* The vehicle's manager has become s in one step.
Step(v, s) ==
    /\ cache' = s.cache
    /\ used' = s.used
    /\ discarded' = (discarded \cup s.discarded) \cap DOMAIN s.cache.meta
    /\ managers' = [managers EXCEPT ![v] = Settled(s)]

Connect(v) ==
    /\ v \notin Connected /\ connects < MaxConnects
    /\ connects' = connects + 1
    /\ \E linked, refuses \in BOOLEAN :
       \E s \in {RequestAllComponentInformation(
                    [NewManager(cache) EXCEPT !.used = used, !.refuses = refuses], linked)} : Step(v, s)
    /\ UNCHANGED upsets

MessageIsAnswered(v) ==
    /\ v \in Connected /\ managers[v].waits = "message"
    /\ \E answered, refuses \in BOOLEAN, uri \in Firmware \cup {NoUri} :
       \E s \in {MessageResult(Manager(v, refuses), answered, uri)} : Step(v, s)
    /\ UNCHANGED << connects, upsets >>

Files == {"metadata", "fallback", "translation"}

Downloads(v) == v \in Connected /\ managers[v].waits \in Files

\* Both write into the directory for temporary files, under the name the file has.
InTemp(v) ==
    \/ Downloads(v)
    \/ v \in Connected /\ \E f \in {managers[v].json, managers[v].translation} :
                             f # NoFile /\ f.dir = "temp"

DownloadEnds(v) ==
    /\ Downloads(v)
    /\ \E content \in {Uris(managers[v])[managers[v].waits].file, NoFile}
                      \cup (IF \E w \in Vehicles \ {v} : InTemp(w) THEN {Mixed} ELSE {}),
          inflates, refuses \in BOOLEAN :
             /\ \E s \in {DownloadComplete(Manager(v, refuses), content, inflates)} : Step(v, s)
             /\ IF content = Mixed \/ ~inflates THEN Upset ELSE UNCHANGED upsets
    /\ UNCHANGED connects

\* The other vehicle's download ends where a temporary file of this one lies: it is overwritten.
FileIsOverwritten(v) ==
    /\ v \in Connected /\ \E w \in Vehicles \ {v} : Downloads(w)
    /\ LET over(f) == IF f # NoFile /\ f.dir = "temp" THEN TempFile(Mixed) ELSE f
       IN  managers' = [managers EXCEPT ![v].json = over(@), ![v].translation = over(@)]
    /\ managers' # managers /\ Upset
    /\ UNCHANGED << cache, connects, used, discarded >>

\* A redirection that cannot be followed ends a download over HTTP without a word; one over
\* FTP may stop as FtpTransferHang shows.
DownloadStrands(v) ==
    /\ Downloads(v) /\ Upset
    /\ managers' = [managers EXCEPT ![v].waits = "stranded"]
    /\ UNCHANGED << cache, connects, used, discarded >>

VehicleGoes(v) ==
    /\ v \in Connected /\ Upset
    /\ managers' = [managers EXCEPT ![v] = Gone]
    /\ UNCHANGED << cache, connects, used, discarded >>

\* The disk if the program dies while this vehicle's download is put into the cache.
DisksOf(v) ==
    IF ~Downloads(v) \/ ~Uris(managers[v])[managers[v].waits].valid THEN {}
    ELSE DisksWithinInsert(cache, Tag(managers[v], managers[v].waits),
                           TempFile(Uris(managers[v])[managers[v].waits].file))

\* The program ends, or dies, and is started again.
Restart ==
    /\ connects > 0 /\ Upset
    /\ \E disk \in {DiskOf(cache)} \cup UNION {DisksOf(v) : v \in Vehicles} :
          LET new == {t \in DOMAIN disk.meta \ DOMAIN cache.meta : disk.meta[t] # Torn}
          IN  /\ cache' = InitializeDirectory(disk)
              /\ used' = NowUsed(used, new)
    /\ managers' = [v \in Vehicles |-> Gone]
    /\ discarded' = {}
    /\ UNCHANGED connects

Init ==
    /\ managers = [v \in Vehicles |-> Gone]
    /\ cache = InitializeDirectory(NoDisk)
    /\ connects = 0 /\ upsets = 0 /\ used = {} /\ discarded = {}

Next ==
    \/ \E v \in Vehicles :
          \/ Connect(v) \/ MessageIsAnswered(v) \/ DownloadEnds(v) \/ FileIsOverwritten(v)
          \/ DownloadStrands(v) \/ VehicleGoes(v)
    \/ Restart

MetadataSpec == Init /\ [][Next]_vars

--------------------------------------------------------------------------------
(***************************************************************************)
(* Properties.                                                             *)
(***************************************************************************)
Entries == DOMAIN cache.meta

\* ComponentInformationCache keeps the same thing three times: in a map by use, in a count and
\* on the disk.  Through hits, insertions of two vehicles, evictions and restarts from what a
\* crash left they agree: each entry is there once, under the counter that its .meta file
\* has, its file is there unless the end of a request removed it, and they are never too many.
CacheInStep ==
    /\ cache.num = Cardinality(DOMAIN cache.files) /\ cache.num <= MaxNumFiles
    /\ Entries = Range(cache.files)
    /\ \A k \in DOMAIN cache.files :
          /\ cache.meta[cache.files[k]] = k /\ k < cache.next
          /\ cache.files[k] \in DOMAIN cache.data \cup discarded

Before(order, t, u) == << t, u >> \in order /\ << u, t >> \notin order

Newest(order, t) == \A p \in order : << p[1], t >> \in order

\* "LRU retention policy based on last access" (ComponentInformationCache.h:23): an entry is
\* evicted only for others that were all used after it, by whichever vehicle and in whichever
\* run of the program; what is left of an entry that was torn apart goes too.  What was used
\* last is kept.
LeastRecentlyUsedGoes ==
    [][/\ \A t \in Entries \ Entries' :
             t \notin DOMAIN cache.data \/ \A u \in Entries' : Before(used', t, u)
       /\ used' # used => \E u \in Entries' : Newest(used', u)]_vars

Expected(v, t, which) ==
    LET uris == managers[v].given[t].uris
    IN  IF uris.metadata.file = NoFile \/ << t, which >> \in managers[v].failed THEN NoFile
        ELSE uris[which].file

\* Each kind of metadata the vehicle says it has is given what the vehicle offers: the
\* fallback only if the metadata was not to be had, and with its own translation, whatever was
\* cached, shared with another vehicle, evicted or half written; but for files mixed
\* up in the temporary directory, and for entries whose file was removed.  And as long as not
\* all are given there is an answer or a download to wait for: the parameters wait for all.
MetadataIsGiven ==
    \A v \in Connected :
       LET m == managers[v] IN
       /\ m.type = "all" \/ m.waits \in Files \cup {"message", "stranded"}
       /\ \A t \in AllTypes :
             LET g       == m.given[t]
                 primary == Expected(v, t, "metadata")
             IN  /\ m.type = "all" => (g # NotGiven <=> t = "general" \/ t \in DOMAIN m.supported)
                 /\ g # NotGiven =>
                       /\ g.json \in {Mixed, IF primary # NoFile THEN primary
                                             ELSE Expected(v, t, "fallback")}
                       /\ g.translation \in {Mixed, "missing", Expected(v, t, "translation")}
================================================================================
