-------------------------- MODULE ComponentInformation --------------------------
(***************************************************************************)
(* ComponentInformationManager of a vehicle, and the state machine it runs *)
(* for each type of metadata (RequestMetaDataTypeStateMachine).  The       *)
(* operators work on a record:                                             *)
(*   type         the type at hand, "none" or "all" before and after       *)
(*   waits        what it waits for: "message", "metadata", "fallback" or  *)
(*                "translation", "stranded" (a download that never ends)  *)
(*                or "none"                                                *)
(*   uris         of each type; the general type tells those of the others *)
(*   supported    _supportedTypes of CompInfoGeneral                        *)
(*   json, translation, jsonCrcValid    the files and _jsonMetadataCrcValid *)
(*   cache        the file cache, shared by all vehicles                   *)
(*   refuses      the step's calls of download() return false              *)
(*   given        history: what setJson was called with, by type, and the  *)
(*                URIs the type had                                        *)
(*   failed       history: the files of each type that were asked for and  *)
(*                not had                                                  *)
(*   used         history: the order in which entries of the cache were    *)
(*                last used: pairs of one and of one not used before it    *)
(*   discarded    history: entries whose file the step removed as temporary *)
(* A URI is [file, valid]: what it leads to, over FTP or HTTP, and whether *)
(* a CRC of it is known.  A tag holds the type, the CRC, which stands for  *)
(* the content, and whether it is a translation.                           *)
(***************************************************************************)
EXTENDS ComponentInformationCache

CONSTANTS
    General,        \* [general files -> [types they describe -> URIs]]
    Mixed           \* a file that two downloads wrote at a time

AllTypes == {"general", "param", "events", "actuators"}

NoUri == [ file |-> NoFile, valid |-> FALSE ]

NoUris == [ metadata |-> NoUri, fallback |-> NoUri, translation |-> NoUri ]

NotGiven == [ json |-> "not", translation |-> "not", uris |-> NoUris ]

\* F(x): the step goes on from x, which TLC evaluates once.
Then(x, F(_)) == CHOOSE y \in {F(z) : z \in {x}} : TRUE

NewManager(cache) ==
    [ type |-> "none", waits |-> "none", uris |-> [t \in AllTypes |-> NoUris],
      supported |-> << >>, json |-> NoFile, translation |-> NoFile, jsonCrcValid |-> FALSE,
      cache |-> cache, refuses |-> FALSE, given |-> [t \in AllTypes |-> NotGiven],
      failed |-> {}, used |-> {}, discarded |-> {} ]

Uris(s) == s.uris[s.type]

Tag(s, which) == << s.type, Uris(s)[which].file, which = "translation" >>

\* What a file holds when it is read.
Content(s, file) ==
    IF file = NoFile THEN NoFile
    ELSE IF file.dir = "temp" THEN file.content
    ELSE IF file.tag \in DOMAIN s.cache.data THEN s.cache.data[file.tag] ELSE "missing"

\* _currentFileName: the translation's, or that of the metadata and its fallback.
SetFile(s, which, file) ==
    IF which = "translation" THEN [s EXCEPT !.translation = file] ELSE [s EXCEPT !.json = file]

(***************************************************************************)
(* CompInfo::setJson and its overrides.                                    *)
(***************************************************************************)
SetJson(s) ==
    LET json  == Content(s, s.json)
        given == [s EXCEPT !.given[s.type] = [json |-> json,
                                              translation |-> Content(s, s.translation),
                                              uris |-> Uris(s)]]
    IN  IF s.type = "general" /\ json \in DOMAIN General
        THEN [given EXCEPT !.supported = General[json]] ELSE given

(***************************************************************************)
(* RequestMetaDataTypeStateMachine, from its last state to its first.      *)
(***************************************************************************)
\* QFile::remove of a file that is not cached, or is taken not to be.
RemoveFile(s, file) ==
    IF file # NoFile /\ file.dir = "cache"
    THEN [s EXCEPT !.cache.data = Without(@, {file.tag}), !.discarded = @ \cup {file.tag}]
    ELSE s

\* Both files are deleted if the metadata has no CRC, also a translation that has one.
StateRequestComplete(s) ==
    LET set == SetJson(s)
    IN  [IF s.jsonCrcValid THEN set ELSE RemoveFile(RemoveFile(set, s.json), s.translation)
            EXCEPT !.waits = "none"]

\* A file is sought in the cache, then asked for; without either it is left out.
FileIsThere(s, which) ==
    Uris(s).metadata.file # NoFile /\ Uris(s)[which].file # NoFile

Found(s, which) ==
    IF FileIsThere(s, which) /\ Uris(s)[which].valid THEN Access(s.cache, Tag(s, which))
    ELSE Untouched(s.cache, NoFile)

Failed(s, which) == [s EXCEPT !.failed = @ \cup {<< s.type, which >>}]

\* The order of use when tags are used now.
NowUsed(order, tags) ==
    LET others == {p \in order : p[1] \notin tags /\ p[2] \notin tags}
    IN  others \cup {<< p[1], t >> : p \in others, t \in tags} \cup tags \X tags

Cached(s, found) == [s EXCEPT !.cache = found.cache, !.used = NowUsed(@, found.used)]

RequestFile(s, which) ==
    LET found == Found(s, which)
        after == SetFile(Cached(s, found), which, found.file)
    IN  IF FileIsThere(s, which) /\ found.file = NoFile
        THEN IF s.refuses THEN [Failed(after, which) EXCEPT !.waits = "none"]
             ELSE [after EXCEPT !.waits = which]
        ELSE [after EXCEPT !.waits = "none"]

StateRequestTranslationJson(s) ==
    Then(RequestFile(s, "translation"),
         LAMBDA r : IF r.waits = "none" THEN StateRequestComplete(r) ELSE r)

RequestFallback(s) ==
    Then(RequestFile([s EXCEPT !.jsonCrcValid = Uris(s).fallback.valid], "fallback"),
         LAMBDA r : IF r.waits = "none" THEN StateRequestTranslationJson(r) ELSE r)

\* Mutant of StateRequestMetaDataJsonFallback: the fallback is fetched in any case.
StateRequestMetaDataJsonFallbackAlways(s) == RequestFallback(s)

StateRequestMetaDataJsonFallback(s) ==
    IF s.json # NoFile THEN StateRequestTranslationJson(s) ELSE RequestFallback(s)

StateRequestMetaDataJson(s) ==
    Then(RequestFile([s EXCEPT !.jsonCrcValid = Uris(s).metadata.valid], "metadata"),
         LAMBDA r : IF r.waits = "none" THEN StateRequestMetaDataJsonFallback(r) ELSE r)

\* Only the general type is asked for with a message, and only over a suitable link.
StateRequestCompInfo(s, type, linked) ==
    LET started == [s EXCEPT !.type = type, !.json = NoFile, !.translation = NoFile]
    IN  IF type = "general" /\ linked THEN [started EXCEPT !.waits = "message"]
        ELSE Then(started, StateRequestMetaDataJson)

(***************************************************************************)
(* ComponentInformationManager, from its last state to its first: one type *)
(* after the other, as far as it goes without waiting.                     *)
(***************************************************************************)
RequestType(s, type) ==
    IF s.waits # "none" THEN s
    ELSE IF type \notin DOMAIN s.supported THEN s
    ELSE StateRequestCompInfo(s, type, TRUE)

UpdateAllUri(s) ==
    [s EXCEPT !.uris = [t \in AllTypes |->
        IF t \in DOMAIN s.supported THEN s.supported[t] ELSE NoUris]]

StateRequestAllCompInfoComplete(s) ==
    IF s.waits = "none" THEN [s EXCEPT !.type = "all"] ELSE s

StateRequestCompInfoActuators(s) ==
    Then(RequestType(s, "actuators"), StateRequestAllCompInfoComplete)

StateRequestCompInfoEvents(s) ==
    Then(RequestType(s, "events"), StateRequestCompInfoActuators)

StateRequestCompInfoParam(s) ==
    Then(RequestType(s, "param"), StateRequestCompInfoEvents)

\* The state machine of the type at hand has come to its end, or waits.
TypeEnds(s) ==
    IF s.waits # "none" THEN s
    ELSE CASE s.type = "general"   -> Then(UpdateAllUri(s), StateRequestCompInfoParam)
           [] s.type = "param"     -> StateRequestCompInfoEvents(s)
           [] s.type = "events"    -> StateRequestCompInfoActuators(s)
           [] s.type = "actuators" -> StateRequestAllCompInfoComplete(s)

RequestAllComponentInformation(s, linked) ==
    Then(StateRequestCompInfo(s, "general", linked), TypeEnds)

\* The answer to the request for COMPONENT_INFORMATION, or that there is none.
MessageResult(s, answered, uri) ==
    LET told == IF answered THEN [s EXCEPT !.uris["general"].metadata = uri] ELSE s
    IN  Then(Then(told, StateRequestMetaDataJson), TypeEnds)

\* A downloaded file, after it was inflated if it is compressed, is kept if its CRC is known.
DownloadCompleteJsonWorker(s, which, file) ==
    LET kept == IF Uris(s)[which].valid THEN Insert(s.cache, Tag(s, which), file)
                ELSE Untouched(s.cache, file)
        had  == IF kept.file = NoFile THEN Failed(s, which) ELSE s
    IN  SetFile(Cached(had, kept), which, kept.file)

\* A download has ended, with a file or with an error; a compressed file may not inflate.
DownloadComplete(s, content, inflates) ==
    LET which == s.waits
        file  == IF inflates THEN TempFile(content) ELSE NoFile
        ended == IF content = NoFile THEN Failed(s, which)
                 ELSE DownloadCompleteJsonWorker(s, which, file)
        next  == CASE which = "metadata" -> Then(ended, StateRequestMetaDataJsonFallback)
                   [] which = "fallback" -> Then(ended, StateRequestTranslationJson)
                   [] which = "translation" -> Then(ended, StateRequestComplete)
    IN  Then(next, TypeEnds)
================================================================================
