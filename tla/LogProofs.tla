------------------------------- MODULE LogProofs -------------------------------
(***************************************************************************)
(* Theorems about the download of logs, for any vehicles with any logs,    *)
(* any number of user actions and losses, and chunks of any length.        *)
(*                                                                         *)
(* The handlers map records to records, so that the invariant is one of    *)
(* the controller (flags, list, data, what waits), of the vehicles and of  *)
(* what is on the air, and a lemma says of each handler what it keeps.     *)
(***************************************************************************)
EXTENDS LogTransfer, SequenceTheorems, WellFoundedInduction, TLAPS

Fields == {"vehicle", "entries", "data", "freed", "timer", "listing", "downloading", "retries",
           "apmOneBased", "unwatched", "out", "died", "saved", "torn", "refused",
           "cut"}

(***************************************************************************)
(* The flags of a controller.  Listing and downloading exclude each other. *)
(***************************************************************************)
Flags(s) ==
    /\ DOMAIN s = Fields
    /\ s.vehicle \in Vehicles \cup {NoVehicle}
    /\ s.listing \in BOOLEAN /\ s.downloading \in BOOLEAN /\ s.died \in BOOLEAN
    /\ ~(s.listing /\ s.downloading)

\* Those left in the middle of a transfer stay unwatched; gone are they.
WatchedBut(s, gone) ==
    ~s.died => /\ s.unwatched \subseteq gone \cup Concerned(s)
               /\ gone = {} => /\ Busy(s) => s.vehicle # NoVehicle
                              /\ Concerned(s) \subseteq s.unwatched

Watched(s) == WatchedBut(s, left)

FlagsInv ==
    /\ Flags(ctl)
    /\ Watched(ctl)
    /\ dialog # "none" => ~Busy(ctl)

(***************************************************************************)
(* The list.  Log id of vehicle v has the size told.                       *)
(***************************************************************************)
Statuses == {"Pending", "Available", "Waiting", "Downloaded", "Canceled", "Error"}
EntryType == [ size : Nat, received : BOOLEAN, selected : BOOLEAN, status : Statuses ]

Genuine(sizes, v, id, size) ==
    /\ id - FirstId(v) + 1 \in 1 .. Len(sizes)
    /\ size = sizes[id - FirstId(v) + 1]

List(s) ==
    /\ \E n \in Nat : DOMAIN s.entries = 0 .. n - 1
    /\ \A i \in DOMAIN s.entries :
         /\ s.entries[i] \in EntryType
         /\ ~s.entries[i].received => s.entries[i].size = 0
    /\ s.apmOneBased \in {0, 1}
    /\ s.vehicle = NoVehicle => DOMAIN s.entries = {}

ListedAs(s, sizes) ==
    /\ DOMAIN s.entries # {} => DOMAIN s.entries = 0 .. Len(sizes[s.vehicle]) - 1
    /\ \A i \in DOMAIN s.entries :
         s.entries[i].received =>
            Genuine(sizes[s.vehicle], s.vehicle, i + s.apmOneBased, s.entries[i].size)

\* When the list is over, each log is listed or marked.
Noted(s) ==
    ~s.listing /\ ~s.cut =>
        \A i \in DOMAIN s.entries : s.entries[i].received \/ s.entries[i].status # "Pending"

(***************************************************************************)
(* The data.  What is complete of a log is in the file, and nothing else.  *)
(***************************************************************************)
FileOf(v, size) == {[from |-> v, ofs |-> ofs] : ofs \in 0 .. size - 1}

Written(s, size) ==
    /\ s.data.table = ChunkBins(size, s.data.chunk)
    /\ ~s.torn =>
         /\ size # 0 => s.data.file \subseteq FileOf(s.vehicle, size)
         /\ \A ofs \in 0 .. size - 1 :
              (ofs < s.data.chunk * TableBins \/ ofs - s.data.chunk * TableBins \in s.data.got) =>
                 [from |-> s.vehicle, ofs |-> ofs] \in s.data.file

Data(s) ==
    /\ s.torn \in BOOLEAN /\ s.freed \in BOOLEAN /\ s.refused \in BOOLEAN
    /\ s.freed => s.data # NoData /\ DOMAIN s.entries = {}
    /\ s.data # NoData =>
         /\ DOMAIN s.data = {"id", "chunk", "got", "file", "table"}
         /\ s.data.id \in Nat /\ s.data.chunk \in Nat /\ s.data.table \in Nat
         /\ s.data.got \subseteq 0 .. s.data.table - 1
         /\ ~s.freed => /\ s.data.id \in DOMAIN s.entries
                        /\ Written(s, s.entries[s.data.id].size)

Saved(s) ==
    s.saved # NothingSaved /\ ~s.saved.torn =>
        s.saved.file = FileOf(s.saved.vehicle,
                              SizeOf(InitialLogs[s.saved.vehicle], s.saved.vehicle, s.saved.id))

(***************************************************************************)
(* What waits is selected, or the log at hand, or was given up.            *)
(***************************************************************************)
Waits(s) ==
    /\ s.downloading <=> s.data # NoData
    /\ \A i \in DOMAIN s.entries :
         s.entries[i].status = "Waiting" /\ ~s.refused =>
            /\ s.downloading
            /\ \/ s.entries[i].selected
               \/ s.data.id = i /\ ~LogComplete(s, s.entries[i].size)

(***************************************************************************)
(* Requests, the vehicles and the air.                                     *)
(***************************************************************************)
ListRequest == [ kind : {"list"}, start : Int, end : Int ]
DataRequest == [ kind : {"data"}, id : Int, ofs : Nat, count : Int ]
Message ==
    [ kind : {"entry"}, id : Int, num : Nat, size : Nat ] \cup [ kind : {"bin"}, id : Int, ofs : Nat ]

\* An entry tells the truth about the logs, or nothing but their count.
EntryOk(v, m, sizes) ==
    /\ m.num = Len(sizes)
    /\ m.num = 0 \/ (v \in ApmVehicles /\ m.size = 0) \/ Genuine(sizes, v, m.id, m.size)

\* The logs a vehicle has had.
Ever(v) == {InitialLogs[v], << >>}

Vessels ==
    /\ logs \in [Vehicles -> Seq(Nat)]
    /\ \A v \in Vehicles : logs[v] \in {InitialLogs[v], << >>}
    /\ stream \in [Vehicles -> [ id : Int, ofs : Nat, count : Int ]]
    /\ \A v \in Vehicles :
         stream[v].count > 0 =>
            stream[v].ofs + stream[v].count <= SizeOf(InitialLogs[v], v, stream[v].id)

Told(queue, v, tables) ==
    \A n \in DOMAIN queue :
        queue[n].kind = "entry" => \E sizes \in tables : EntryOk(v, queue[n], sizes)

Bins(queue, v) ==
    \A n \in DOMAIN queue :
        queue[n].kind = "bin" => queue[n].ofs < SizeOf(InitialLogs[v], v, queue[n].id)

Air(a) ==
    /\ a \in [Vehicles -> Seq(Message)]
    /\ \A v \in Vehicles : Bins(a[v], v) /\ Told(a[v], v, Ever(v))

Honest(s, a, table) ==
    /\ ListedAs(s, table) /\ Noted(s)
    /\ \A v \in Vehicles : Told(a[v], v, {table[v]})

TransferInv ==
    /\ Vessels /\ Air(air)
    /\ stale \in BOOLEAN
    /\ ListedAs(ctl, InitialLogs)
    /\ ~stale => Honest(ctl, air, logs)
    /\ ctl.out = << >>
    /\ Saved(ctl)
    /\ List(ctl) /\ Data(ctl) /\ Waits(ctl)

IInv == FlagsInv /\ TransferInv

--------------------------------------------------------------------------------
(* What is left alone by the operators on flags, on the list, on the data. *)
SameFlags(s, t) ==
    /\ DOMAIN t = DOMAIN s
    /\ t.vehicle = s.vehicle /\ t.listing = s.listing /\ t.downloading = s.downloading
    /\ t.died = s.died /\ t.unwatched = s.unwatched

SameList(s, t) ==
    /\ t.vehicle = s.vehicle /\ t.entries = s.entries /\ t.apmOneBased = s.apmOneBased
    /\ t.cut = s.cut

SameData(s, t) ==
    /\ t.data = s.data /\ t.freed = s.freed /\ t.torn = s.torn /\ t.saved = s.saved
    /\ t.refused = s.refused

(* What the invariant says of the flags depends on the flags.              *)
LEMMA FlagsStay ==
  ASSUME NEW s, NEW t, Flags(s), SameFlags(s, t)
  PROVE  /\ Flags(t) /\ (Watched(s) => Watched(t))
         /\ \A gone : WatchedBut(s, gone) => WatchedBut(t, gone)
BY DEF Flags, Watched, WatchedBut, Concerned, Busy, SameFlags

(* The end of a list or its start, unless a download is under way.         *)
LEMMA ListingSet ==
  ASSUME NEW s, Flags(s), NEW active \in BOOLEAN, active => ~s.downloading,
         NEW t, t = SetListing(s, active)
  PROVE  /\ Flags(t) /\ (Watched(s) => Watched(t))
         /\ SameList(s, t) /\ SameData(s, t) /\ t.out = s.out
         /\ t.listing = active /\ t.downloading = s.downloading
<1>1. CASE s.listing = active
  BY <1>1 DEF SetListing, SameList, SameData
<1>2. CASE s.listing # active /\ s.vehicle = NoVehicle
  <2>1. t = [[s EXCEPT !.listing = active] EXCEPT !.died = TRUE]
    BY <1>2 DEF SetListing, SetWatched, Flags, Fields
  <2>. QED  BY <1>2, <2>1
               DEF Flags, Fields, Watched, WatchedBut, Concerned, Busy, SameList, SameData
<1>3. CASE s.listing # active /\ s.vehicle # NoVehicle
  <2>1. t = [[s EXCEPT !.listing = active] EXCEPT
              !.unwatched = IF ~active THEN s.unwatched \ {s.vehicle}
                            ELSE s.unwatched \cup {s.vehicle}]
    BY <1>3 DEF SetListing, SetWatched, Flags, Fields
  <2>. QED  BY <1>3, <2>1
               DEF Flags, Fields, Watched, WatchedBut, Concerned, Busy, SameList, SameData
<1>. QED  BY <1>1, <1>2, <1>3

(* The end of a download or its start, unless a list is under way.         *)
LEMMA DownloadingSet ==
  ASSUME NEW s, Flags(s), NEW active \in BOOLEAN, active => ~s.listing,
         NEW t, t = SetDownloading(s, active)
  PROVE  /\ Flags(t) /\ (Watched(s) => Watched(t))
         /\ SameList(s, t) /\ SameData(s, t) /\ t.out = s.out
         /\ t.downloading = active /\ t.listing = s.listing
<1>1. CASE s.downloading = active
  BY <1>1 DEF SetDownloading, SameList, SameData
<1>2. CASE s.downloading # active /\ s.vehicle = NoVehicle
  <2>1. t = [[s EXCEPT !.downloading = active] EXCEPT !.died = TRUE]
    BY <1>2 DEF SetDownloading, SetWatched, Flags, Fields
  <2>. QED  BY <1>2, <2>1
               DEF Flags, Fields, Watched, WatchedBut, Concerned, Busy, SameList, SameData
<1>3. CASE s.downloading # active /\ s.vehicle # NoVehicle
  <2>1. t = [[s EXCEPT !.downloading = active] EXCEPT
              !.unwatched = IF ~active THEN s.unwatched \ {s.vehicle}
                            ELSE s.unwatched \cup {s.vehicle}]
    BY <1>3 DEF SetDownloading, SetWatched, Flags, Fields
  <2>. QED  BY <1>3, <2>1
               DEF Flags, Fields, Watched, WatchedBut, Concerned, Busy, SameList, SameData
<1>. QED  BY <1>1, <1>2, <1>3

(***************************************************************************)
(* Messages.                                                               *)
(***************************************************************************)
Request == ListRequest \cup DataRequest

LEMMA ListRequested ==
  ASSUME NEW s, Flags(s), ~s.downloading, NEW start \in Int, NEW end \in Int,
         NEW t, t = RequestLogList(s, start, end)
  PROVE  /\ Flags(t) /\ (Watched(s) => Watched(t))
         /\ SameList(s, t) /\ SameData(s, t) /\ ~t.downloading /\ (s.listing => t.listing)
         /\ IF s.vehicle = NoVehicle THEN t.out = s.out
            ELSE \E m \in ListRequest : t.out = Append(s.out, m)
<1>1. CASE s.vehicle = NoVehicle
  BY <1>1 DEF RequestLogList, SameList, SameData
<1>2. CASE s.vehicle # NoVehicle
  <2>. DEFINE u == SetListing(s, TRUE)
              m == [kind |-> "list", start |-> start, end |-> end]
  <2>1. /\ Flags(u) /\ (Watched(s) => Watched(u))
        /\ SameList(s, u) /\ SameData(s, u) /\ u.out = s.out /\ ~u.downloading /\ u.listing
    BY ListingSet
  <2>. HIDE DEF u
  <2>2. t = [[u EXCEPT !.timer = TRUE] EXCEPT !.out = Append(u.out, m)]
    BY <1>2, <2>1 DEF RequestLogList, Send, Flags, Fields, u
  <2>3. SameFlags(u, t) /\ SameList(u, t) /\ SameData(u, t) /\ t.out = Append(u.out, m)
    BY <2>1, <2>2 DEF Flags, Fields, SameFlags, SameList, SameData
  <2>4. m \in ListRequest
    BY DEF ListRequest
  <2>5. Flags(t) /\ (Watched(s) => Watched(t))
    BY <2>1, <2>3, FlagsStay
  <2>. QED  BY <1>2, <2>1, <2>3, <2>4, <2>5 DEF SameFlags, SameList, SameData
<1>. QED  BY <1>1, <1>2

LEMMA EntriesOver ==
  ASSUME NEW s, Flags(s), NEW t, t = ReceivedAllEntries(s)
  PROVE  /\ Flags(t) /\ (Watched(s) => Watched(t))
         /\ SameList(s, t) /\ SameData(s, t) /\ t.out = s.out
         /\ t.downloading = s.downloading /\ ~t.listing
<1>. DEFINE u == [s EXCEPT !.timer = FALSE]
<1>1. SameFlags(s, u) /\ SameList(s, u) /\ SameData(s, u) /\ u.out = s.out
  BY DEF Flags, Fields, SameFlags, SameList, SameData
<1>2. Flags(u) /\ (Watched(s) => Watched(u))
  BY <1>1, FlagsStay
<1>. HIDE DEF u
<1>3. t = SetListing(u, FALSE)
  BY DEF ReceivedAllEntries, u
<1>4. /\ Flags(t) /\ (Watched(u) => Watched(t))
      /\ SameList(u, t) /\ SameData(u, t) /\ t.out = u.out
      /\ ~t.listing /\ t.downloading = u.downloading
  BY <1>2, <1>3, ListingSet
<1>. QED  BY <1>1, <1>2, <1>4 DEF SameFlags, SameList, SameData

LEMMA DataRequested ==
  ASSUME NEW s, NEW id, NEW offset, NEW count, NEW t, t = RequestLogData(s, id, offset, count),
         Flags(s), id \in Int, offset \in Nat, count \in Int, s.apmOneBased \in Int
  PROVE  /\ SameFlags(s, t) /\ SameList(s, t) /\ SameData(s, t)
         /\ t.out = s.out \/ \E m \in DataRequest : t.out = Append(s.out, m)
<1>. DEFINE m == [kind |-> "data", id |-> id + s.apmOneBased, ofs |-> offset, count |-> count]
<1>1. CASE s.vehicle = NoVehicle
  BY <1>1 DEF RequestLogData, SameFlags, SameList, SameData
<1>2. CASE s.vehicle # NoVehicle
  <2>1. t = [s EXCEPT !.out = Append(s.out, m)]
    BY <1>2 DEF RequestLogData, Send, Flags, Fields
  <2>2. m \in DataRequest
    BY DEF DataRequest
  <2>. QED  BY <2>1, <2>2 DEF Flags, Fields, SameFlags, SameList, SameData
<1>. QED  BY <1>1, <1>2

(* A request is one more message.                                          *)
LEMMA OneMore ==
  ASSUME NEW s, NEW t, s.out \in Seq(Request),
         \/ t.out = s.out
         \/ \E m \in ListRequest : t.out = Append(s.out, m)
         \/ \E m \in DataRequest : t.out = Append(s.out, m)
  PROVE  t.out \in Seq(Request)
BY AppendProperties DEF Request

(***************************************************************************)
(* Chunks.                                                                 *)
(***************************************************************************)
LEMMA Chunks ==
  ASSUME NEW size \in Nat, NEW chunk \in Nat
  PROVE  /\ ChunkBins(size, chunk) \in Nat /\ ChunkBins(size, chunk) <= TableBins
         /\ chunk * TableBins \in Nat
         /\ (chunk + 1) * TableBins = chunk * TableBins + TableBins
         /\ \A ofs \in 0 .. size - 1 :
              ofs < (chunk + 1) * TableBins =>
                \/ ofs < chunk * TableBins
                \/ ofs - chunk * TableBins \in 0 .. ChunkBins(size, chunk) - 1
<1>1. TableBins \in Nat /\ TableBins > 0
  BY LogBounds
<1>2. chunk * TableBins \in Nat /\ (chunk + 1) * TableBins = chunk * TableBins + TableBins
  BY <1>1
<1>. DEFINE done == chunk * TableBins
<1>3. done \in Nat /\ (chunk + 1) * TableBins = done + TableBins
  BY <1>2
<1>4. ChunkBins(size, chunk) = IF done > size THEN TableBins ELSE Least(size - done, TableBins)
  BY DEF ChunkBins
<1>. HIDE DEF done
<1>5. ChunkBins(size, chunk) \in Nat /\ ChunkBins(size, chunk) <= TableBins
  BY <1>1, <1>3, <1>4 DEF Least
<1>6. ASSUME NEW ofs \in 0 .. size - 1, ofs < done + TableBins, ~(ofs < done)
      PROVE  ofs - done \in 0 .. ChunkBins(size, chunk) - 1
  BY <1>1, <1>3, <1>4, <1>6 DEF Least
<1>7. \A ofs \in 0 .. size - 1 :
         ofs < (chunk + 1) * TableBins =>
            ofs < done \/ ofs - done \in 0 .. ChunkBins(size, chunk) - 1
  BY <1>3, <1>6
<1>. QED  BY <1>2, <1>5, <1>7 DEF done

(* The last chunk has a bin at least, and ends with the log.               *)
LEMMA LastChunk ==
  ASSUME NEW size \in Nat, NEW chunk \in Nat, chunk + 1 = NumChunks(size)
  PROVE  /\ size > 0 /\ ChunkBins(size, chunk) > 0
         /\ chunk * TableBins + ChunkBins(size, chunk) = size
<1>1. TableBins \in Nat /\ TableBins > 0
  BY LogBounds
<1>. DEFINE done == chunk * TableBins
<1>2. done \in Nat
  BY <1>1
<1>3. (chunk + 1) * TableBins = done + TableBins
  BY <1>1
<1>4. /\ (chunk + 1) * TableBins <= size + TableBins - 1
      /\ size + TableBins - 1 < (chunk + 1) * TableBins + TableBins
  <2>. DEFINE n == size + TableBins - 1
  <2>1. n \in Nat /\ chunk + 1 = n \div TableBins
    BY <1>1 DEF NumChunks
  <2>. HIDE DEF n
  <2>2. n = TableBins * (n \div TableBins) + (n % TableBins) /\ n % TableBins \in 0 .. TableBins - 1
    BY <1>1, <2>1
  <2>3. n = (chunk + 1) * TableBins + (n % TableBins)
    BY <1>1, <2>1, <2>2
  <2>. QED  BY <1>1, <2>2, <2>3 DEF n
<1>5. ChunkBins(size, chunk) = IF done > size THEN TableBins ELSE Least(size - done, TableBins)
  BY DEF ChunkBins
<1>. HIDE DEF done
<1>6. done < size /\ size <= done + TableBins
  BY <1>1, <1>2, <1>3, <1>4
<1>7. size > 0 /\ ChunkBins(size, chunk) > 0 /\ done + ChunkBins(size, chunk) = size
  BY <1>1, <1>2, <1>5, <1>6 DEF Least
<1>. QED  BY <1>7 DEF done

(***************************************************************************)
(* Entries whose log stays what it is, while its status or selection       *)
(* changes.                                                                *)
(***************************************************************************)
Restyled(s, t) ==
    /\ t.vehicle = s.vehicle /\ t.apmOneBased = s.apmOneBased /\ (s.cut => t.cut)
    /\ DOMAIN t.entries = DOMAIN s.entries
    /\ \A i \in DOMAIN s.entries :
         /\ t.entries[i] \in EntryType
         /\ t.entries[i].size = s.entries[i].size
         /\ t.entries[i].received = s.entries[i].received
         /\ t.entries[i].status = "Pending" => s.entries[i].status = "Pending"

LEMMA RestyledIsListed ==
  ASSUME NEW s, NEW t, List(s), Restyled(s, t)
  PROVE  List(t) /\ \A sizes : ListedAs(s, sizes) => ListedAs(t, sizes)
BY DEF List, ListedAs, Restyled

LEMMA RestyledKeepsData ==
  ASSUME NEW s, NEW t, Data(s), Restyled(s, t), SameData(s, t)
  PROVE  Data(t)
BY DEF Data, Written, Restyled, SameData

LEMMA SameIsRestyled ==
  ASSUME NEW s, NEW t, List(s), SameList(s, t)
  PROVE  Restyled(s, t)
BY DEF List, SameList, Restyled

\* A list that does not end stays as complete as it is.
LEMMA NotedStays ==
  ASSUME NEW s, NEW t, Restyled(s, t), s.listing => t.listing \/ t.cut
  PROVE  Noted(s) => Noted(t)
BY DEF Noted, Restyled

LEMMA RestyledTwice ==
  ASSUME NEW s, NEW t, NEW u, Restyled(s, t), Restyled(t, u)
  PROVE  Restyled(s, u)
BY DEF Restyled

LEMMA StatusSet ==
  ASSUME NEW s, Flags(s), List(s), Data(s), s.data # NoData, NEW status \in Statuses \ {"Pending"},
         NEW t, t = SetStatus(s, status)
  PROVE  /\ SameFlags(s, t) /\ Restyled(s, t) /\ SameData(s, t) /\ t.out = s.out
         /\ \A i \in DOMAIN s.entries :
              /\ t.entries[i].selected = s.entries[i].selected
              /\ t.entries[i].status = IF i = s.data.id THEN status ELSE s.entries[i].status
<1>1. CASE s.freed
  BY <1>1, SameIsRestyled DEF SetStatus, SameFlags, SameList, SameData, Data
<1>2. CASE ~s.freed
  <2>1. t = [s EXCEPT !.entries = [s.entries EXCEPT ![s.data.id] =
                                     [s.entries[s.data.id] EXCEPT !.status = status]]]
    BY <1>2 DEF SetStatus, Flags, Fields, Data
  <2>2. s.data.id \in DOMAIN s.entries
    BY <1>2 DEF Data
  <2>3. /\ SameFlags(s, t) /\ SameData(s, t) /\ t.out = s.out
        /\ t.apmOneBased = s.apmOneBased /\ t.vehicle = s.vehicle /\ t.cut = s.cut
        /\ t.entries = [s.entries EXCEPT ![s.data.id] =
                           [s.entries[s.data.id] EXCEPT !.status = status]]
    BY <2>1 DEF Flags, Fields, SameFlags, SameData
  <2>4. \A i \in DOMAIN s.entries : s.entries[i] \in EntryType
    BY DEF List
  <2>5. DOMAIN t.entries = DOMAIN s.entries
    BY <2>3
  <2>6. ASSUME NEW i \in DOMAIN s.entries
        PROVE  t.entries[i] = IF i = s.data.id THEN [s.entries[i] EXCEPT !.status = status]
                              ELSE s.entries[i]
    BY <2>3
  <2>7. ASSUME NEW i \in DOMAIN s.entries
        PROVE  /\ t.entries[i] \in EntryType
               /\ t.entries[i].size = s.entries[i].size
               /\ t.entries[i].received = s.entries[i].received
               /\ t.entries[i].selected = s.entries[i].selected
               /\ t.entries[i].status = IF i = s.data.id THEN status ELSE s.entries[i].status
    BY <2>4, <2>6 DEF EntryType
  <2>. QED  BY <2>3, <2>5, <2>7 DEF Restyled
<1>. QED  BY <1>1, <1>2

LEMMA SelectionReset ==
  ASSUME NEW s, Flags(s), List(s), NEW canceled \in BOOLEAN,
         NEW t, t = ResetSelection(s, canceled)
  PROVE  /\ SameFlags(s, t) /\ Restyled(s, t) /\ SameData(s, t) /\ t.out = s.out
         /\ \A i \in DOMAIN s.entries :
              t.entries[i].status = IF s.entries[i].selected /\ canceled THEN "Canceled"
                                    ELSE s.entries[i].status
<1>. DEFINE reset(e) == [e EXCEPT !.selected = FALSE,
                                  !.status = IF canceled THEN "Canceled" ELSE e.status]
<1>1. t = [s EXCEPT !.entries = [i \in DOMAIN s.entries |->
             IF ~s.entries[i].selected THEN s.entries[i] ELSE reset(s.entries[i])]]
  BY DEF ResetSelection, Flags, Fields
<1>2. /\ SameFlags(s, t) /\ SameData(s, t) /\ t.out = s.out
      /\ t.apmOneBased = s.apmOneBased /\ t.vehicle = s.vehicle /\ t.cut = s.cut
      /\ t.entries = [i \in DOMAIN s.entries |->
             IF ~s.entries[i].selected THEN s.entries[i] ELSE reset(s.entries[i])]
  BY <1>1 DEF Flags, Fields, SameFlags, SameData
<1>3. ASSUME NEW i \in DOMAIN s.entries
      PROVE  /\ t.entries[i] \in EntryType
             /\ t.entries[i].size = s.entries[i].size
             /\ t.entries[i].received = s.entries[i].received
             /\ t.entries[i].status = IF s.entries[i].selected /\ canceled THEN "Canceled"
                                      ELSE s.entries[i].status
  <2>1. t.entries[i] = IF ~s.entries[i].selected THEN s.entries[i] ELSE reset(s.entries[i])
    BY <1>2
  <2>2. s.entries[i] \in EntryType
    BY DEF List
  <2>3. ASSUME NEW e \in EntryType
        PROVE  /\ reset(e) \in EntryType
               /\ reset(e).size = e.size /\ reset(e).received = e.received
               /\ reset(e).status = IF canceled THEN "Canceled" ELSE e.status
    BY DEF EntryType, Statuses
  <2>. HIDE DEF reset
  <2>. QED  BY <2>1, <2>2, <2>3
<1>. QED  BY <1>2, <1>3 DEF Restyled

LEMMA DownloadDropped ==
  ASSUME NEW s, Flags(s), List(s), Data(s), NEW t, t = NoDownload(s)
  PROVE  /\ SameFlags(s, t) /\ SameList(s, t) /\ t.out = s.out
         /\ t.data = NoData /\ ~t.freed /\ ~t.torn /\ t.saved = s.saved /\ t.refused = s.refused
         /\ Data(t)
<1>1. /\ SameFlags(s, t) /\ SameList(s, t) /\ t.out = s.out
      /\ t.data = NoData /\ t.freed = FALSE /\ t.torn = FALSE
      /\ t.saved = s.saved /\ t.refused = s.refused
  BY DEF NoDownload, Flags, Fields, SameFlags, SameList
<1>. QED  BY <1>1 DEF Data

(***************************************************************************)
(* The next log.                                                           *)
(***************************************************************************)
\* Between two logs what waits is selected.
Queued(s) ==
    \A i \in DOMAIN s.entries :
        s.entries[i].status = "Waiting" /\ ~s.refused => s.entries[i].selected

\* The same with a log at hand.
AtHand(s) ==
    \A i \in DOMAIN s.entries :
        s.entries[i].status = "Waiting" /\ ~s.refused =>
            \/ s.entries[i].selected
            \/ s.data.id = i /\ ~LogComplete(s, s.entries[i].size)

LEMMA LeastNatural ==
  ASSUME NEW S, S \subseteq Nat, S # {}
  PROVE  /\ (CHOOSE i \in S : \A j \in S : i <= j) \in S
         /\ \A j \in S : (CHOOSE i \in S : \A k \in S : i <= k) <= j
<1>1. \E i \in S : \A j \in S : i <= j
  <2>. DEFINE R == {r \in Nat \X Nat : r[1] < r[2]}
  <2>1. IsWellFoundedOn(R, Nat)
    BY NatLessThanWellFounded DEF OpToRel
  <2>. HIDE DEF R
  <2>2. PICK i \in S : \A j \in S : <<j, i>> \notin R
    BY <2>1, WFMin
  <2>3. ASSUME NEW j \in S PROVE i <= j
    <3>1. i \in Nat /\ j \in Nat /\ <<j, i>> \notin R
      BY <2>2
    <3>2. ~(j < i)
      BY <3>1 DEF R
    <3>. QED  BY <3>1, <3>2
  <2>. QED  BY <2>3
<1>. DEFINE P(i) == \A j \in S : i <= j
<1>. HIDE DEF P
<1>2. (CHOOSE i \in S : P(i)) \in S /\ P(CHOOSE i \in S : P(i))
  BY <1>1 DEF P
<1>. QED  BY <1>2 DEF P

\* A chunk that has just been begun does not complete a log.
LEMMA BegunIsNotComplete ==
  ASSUME NEW s, NEW size \in Nat, s.data.chunk \in Nat, s.data.got = {},
         s.data.table = ChunkBins(size, s.data.chunk)
  PROVE  ~LogComplete(s, size)
<1>1. SUFFICES ASSUME s.data.chunk + 1 = NumChunks(size), s.data.got = 0 .. s.data.table - 1
               PROVE  FALSE
  BY DEF LogComplete, ChunkComplete
<1>2. s.data.table \in Nat /\ s.data.table > 0
  BY <1>1, LastChunk, Chunks
<1>3. 0 \in 0 .. s.data.table - 1
  BY <1>2
<1>. QED  BY <1>1, <1>3

LEMMA Prepared ==
  ASSUME NEW s, Flags(s), List(s), Data(s), Queued(s), NEW created \in BOOLEAN,
         NEW t, t = PrepareLogDownload(s, created)
  PROVE  /\ SameFlags(s, t) /\ Restyled(s, t) /\ t.out = s.out /\ t.saved = s.saved
         /\ Data(t)
         /\ IF t.data = NoData THEN Selected(t) = {} \/ t.refused ELSE AtHand(t)
         /\ t.data = NoData => Queued(t)
<1>. DEFINE u == NoDownload(s)
<1>1. /\ SameFlags(s, u) /\ SameList(s, u) /\ u.out = s.out
      /\ u.data = NoData /\ ~u.freed /\ ~u.torn /\ u.saved = s.saved /\ u.refused = s.refused
      /\ Data(u)
  BY DownloadDropped
<1>. HIDE DEF u
<1>2. Restyled(s, u)
  BY <1>1, SameIsRestyled
<1>3. CASE Selected(s) = {}
  <2>1. t = u
    BY <1>3 DEF PrepareLogDownload, u
  <2>. QED  BY <1>1, <1>2, <1>3, <2>1 DEF SameList, Queued, Selected
<1>4. CASE Selected(s) # {}
  <2>. DEFINE id == CHOOSE i \in Selected(s) : \A j \in Selected(s) : i <= j
              picked == [u EXCEPT !.entries[id].selected = FALSE]
  <2>1. id \in Selected(s) /\ id \in Nat /\ id \in DOMAIN s.entries
    <3>1. Selected(s) \subseteq Nat
      BY DEF Selected, List
    <3>2. id \in Selected(s)
      BY <1>4, <3>1, LeastNatural
    <3>. QED  BY <3>1, <3>2 DEF Selected
  <2>2. t = IF ~created THEN [picked EXCEPT !.entries[id].status = "Error", !.refused = TRUE]
            ELSE [picked EXCEPT !.data =
                    [ id |-> id, chunk |-> 0, got |-> {}, file |-> {},
                      table |-> ChunkBins(s.entries[id].size, 0) ]]
    BY <1>4 DEF PrepareLogDownload, u
  <2>. HIDE DEF id
  <2>3. /\ SameFlags(u, picked) /\ SameData(u, picked) /\ picked.out = u.out
        /\ picked.vehicle = u.vehicle /\ picked.apmOneBased = u.apmOneBased /\ picked.cut = u.cut
        /\ picked.entries = [u.entries EXCEPT ![id] = [u.entries[id] EXCEPT !.selected = FALSE]]
    BY <1>1 DEF Flags, Fields, SameFlags, SameData
  <2>4. /\ u.entries = s.entries /\ u.vehicle = s.vehicle /\ u.apmOneBased = s.apmOneBased
        /\ u.cut = s.cut
    BY <1>1 DEF SameList
  <2>5. DOMAIN picked = Fields
    BY <1>1, <2>3 DEF SameFlags, Flags
  <2>. HIDE DEF picked
  <2>6. s.entries[id] \in EntryType
    BY <2>1 DEF List
  <2>7. DOMAIN picked.entries = DOMAIN s.entries
    BY <2>3, <2>4
  <2>8. ASSUME NEW i \in DOMAIN s.entries
        PROVE  /\ picked.entries[i] \in EntryType
               /\ picked.entries[i].size = s.entries[i].size
               /\ picked.entries[i].received = s.entries[i].received
               /\ picked.entries[i].status = s.entries[i].status
               /\ i # id => picked.entries[i].selected = s.entries[i].selected
    <3>1. s.entries[i] \in EntryType
      BY DEF List
    <3>2. picked.entries[i] = IF i = id THEN [s.entries[i] EXCEPT !.selected = FALSE]
                              ELSE s.entries[i]
      BY <2>3, <2>4
    <3>. QED  BY <3>1, <3>2 DEF EntryType
  <2>9. CASE ~created
    <3>1. t = [picked EXCEPT !.entries = [picked.entries EXCEPT ![id] =
                                [picked.entries[id] EXCEPT !.status = "Error"]],
                             !.refused = TRUE]
      BY <2>2, <2>5, <2>9 DEF Fields
    <3>2. /\ SameFlags(picked, t) /\ t.out = picked.out /\ t.saved = picked.saved
          /\ t.data = picked.data /\ t.freed = picked.freed /\ t.torn = picked.torn
          /\ t.refused = TRUE
          /\ t.vehicle = picked.vehicle /\ t.apmOneBased = picked.apmOneBased /\ t.cut = picked.cut
          /\ t.entries = [picked.entries EXCEPT ![id] =
                                [picked.entries[id] EXCEPT !.status = "Error"]]
      BY <2>5, <3>1 DEF Fields, SameFlags
    <3>3. DOMAIN t.entries = DOMAIN s.entries
      BY <2>7, <3>2
    <3>4. ASSUME NEW i \in DOMAIN s.entries
          PROVE  /\ t.entries[i] \in EntryType
                 /\ t.entries[i].size = s.entries[i].size
                 /\ t.entries[i].received = s.entries[i].received
                 /\ t.entries[i].status \in {s.entries[i].status, "Error"}
      <4>1. t.entries[i] = IF i = id THEN [picked.entries[i] EXCEPT !.status = "Error"]
                           ELSE picked.entries[i]
        BY <2>7, <3>2
      <4>. QED  BY <2>8, <4>1 DEF EntryType, Statuses
    <3>5. Restyled(s, t)
      BY <2>3, <2>4, <3>2, <3>3, <3>4 DEF Restyled
    <3>6. SameFlags(s, t) /\ t.out = s.out /\ t.saved = s.saved /\ t.data = NoData
      BY <1>1, <2>3, <3>2 DEF SameFlags, SameData
    <3>7. Data(t)
      BY <1>1, <2>3, <3>2 DEF Data, SameData
    <3>. QED  BY <3>2, <3>5, <3>6, <3>7 DEF Queued
  <2>10. CASE created
    <3>. DEFINE d == [ id |-> id, chunk |-> 0, got |-> {}, file |-> {},
                       table |-> ChunkBins(s.entries[id].size, 0) ]
    <3>1. /\ SameFlags(picked, t) /\ t.out = picked.out /\ t.saved = picked.saved
          /\ t.data = d /\ t.freed = picked.freed /\ t.torn = picked.torn
          /\ t.refused = picked.refused
          /\ t.vehicle = picked.vehicle /\ t.apmOneBased = picked.apmOneBased /\ t.cut = picked.cut
          /\ t.entries = picked.entries
      BY <2>2, <2>5, <2>10 DEF Fields, SameFlags
    <3>2. /\ DOMAIN t.data = {"id", "chunk", "got", "file", "table"}
          /\ t.data.id = id /\ t.data.chunk = 0 /\ t.data.got = {} /\ t.data.file = {}
          /\ t.data.table = ChunkBins(s.entries[id].size, 0)
      BY <3>1
    <3>. HIDE DEF d
    <3>3. t.data # NoData
      BY <2>1, <3>2 DEF NoData
    <3>4. s.entries[id].size \in Nat
      BY <2>6 DEF EntryType
    <3>5. t.entries[id].size = s.entries[id].size /\ t.data.id \in DOMAIN t.entries
      BY <2>1, <2>7, <2>8, <3>1, <3>2
    <3>6. t.data.table \in Nat
      BY <3>2, <3>4, Chunks
    <3>7. Written(t, t.entries[id].size)
      <4>1. t.data.table = ChunkBins(t.entries[id].size, t.data.chunk)
        BY <3>2, <3>5
      <4>2. t.data.chunk * TableBins = 0
        BY <3>2, LogBounds
      <4>. QED  BY <3>2, <3>4, <3>5, <4>1, <4>2 DEF Written
    <3>8. Data(t)
      <4>1. /\ t.torn \in BOOLEAN /\ t.freed = FALSE /\ t.refused \in BOOLEAN
        BY <1>1, <2>3, <3>1 DEF Data, SameData
      <4>2. t.data.id \in Nat /\ t.data.chunk \in Nat /\ t.data.got \subseteq 0 .. t.data.table - 1
        BY <2>1, <3>2
      <4>. QED  BY <3>2, <3>5, <3>6, <3>7, <4>1, <4>2 DEF Data
    <3>9. Restyled(s, t)
      <4>1. /\ DOMAIN t.entries = DOMAIN s.entries /\ t.entries = picked.entries
            /\ t.vehicle = s.vehicle /\ t.apmOneBased = s.apmOneBased /\ t.cut = s.cut
        BY <2>3, <2>4, <2>7, <3>1
      <4>. QED  BY <2>8, <4>1 DEF Restyled
    <3>10. SameFlags(s, t) /\ t.out = s.out /\ t.saved = s.saved /\ t.refused = s.refused
      BY <1>1, <2>3, <3>1 DEF SameFlags, SameData
    <3>11. ~LogComplete(t, t.entries[id].size)
      BY <3>2, <3>4, <3>5, BegunIsNotComplete
    <3>12. AtHand(t)
      BY <2>7, <2>8, <3>1, <3>2, <3>10, <3>11 DEF AtHand, Queued
    <3>. QED  BY <3>3, <3>8, <3>9, <3>10, <3>12
  <2>. QED  BY <2>9, <2>10
<1>. QED  BY <1>3, <1>4

(***************************************************************************)
(* What a handler leaves: the controller is in order, and so is what it    *)
(* has sent.                                                               *)
(***************************************************************************)
Ctl(s) == Flags(s) /\ List(s) /\ Data(s) /\ Waits(s) /\ s.out \in Seq(Request)

Handled(s, t) == Ctl(t) /\ (Watched(s) => Watched(t))

\* Without a log at hand, and none selected, nothing waits.
LEMMA NothingWaits ==
  ASSUME NEW s, s.data = NoData, s.downloading = FALSE,
         \A i \in DOMAIN s.entries : s.entries[i].status = "Waiting" => s.refused
  PROVE  Waits(s)
BY DEF Waits

\* A request leaves the controller in order.
LEMMA ChunkRequested ==
  ASSUME NEW s, NEW id, NEW offset, NEW count, NEW t, t = RequestLogData(s, id, offset, count),
         Ctl(s), id \in Nat, offset \in Nat, count \in Int
  PROVE  Handled(s, t) /\ Restyled(s, t) /\ t.saved = s.saved
<1>. USE DEF Ctl
<1>1. s.apmOneBased \in Int /\ id \in Int /\ Flags(s)
  BY DEF List
<1>2. /\ SameFlags(s, t) /\ SameList(s, t) /\ SameData(s, t)
      /\ t.out = s.out \/ \E m \in DataRequest : t.out = Append(s.out, m)
  BY <1>1, DataRequested
<1>3. t.out \in Seq(Request)
  BY <1>2, OneMore
<1>4. Flags(t) /\ (Watched(s) => Watched(t))
  BY <1>2, FlagsStay
<1>5. Restyled(s, t)
  BY <1>2, SameIsRestyled
<1>6. List(t) /\ Data(t)
  BY <1>2, <1>5, RestyledIsListed, RestyledKeepsData
<1>7. Waits(t)
  BY <1>2 DEF Waits, LogComplete, ChunkComplete, SameFlags, SameList, SameData
<1>. QED  BY <1>2, <1>3, <1>4, <1>5, <1>6, <1>7 DEF Handled, SameData

\* The timer and the number of retries matter to nothing else.
LEMMA TimerSet ==
  ASSUME NEW s, Flags(s), List(s), NEW t,
         \/ \E on : t = [s EXCEPT !.timer = on]
         \/ \E n : t = [s EXCEPT !.retries = n]
  PROVE  /\ SameFlags(s, t) /\ SameList(s, t) /\ SameData(s, t) /\ t.out = s.out
         /\ Flags(t) /\ List(t) /\ (Data(s) => Data(t)) /\ (Waits(s) => Waits(t))
         /\ (Watched(s) => Watched(t)) /\ Restyled(s, t)
<1>1. SameFlags(s, t) /\ SameList(s, t) /\ SameData(s, t) /\ t.out = s.out
  BY DEF Flags, Fields, SameFlags, SameList, SameData
<1>2. Flags(t) /\ (Watched(s) => Watched(t))
  BY <1>1, FlagsStay
<1>3. Restyled(s, t)
  BY <1>1, SameIsRestyled
<1>4. List(t) /\ (Data(s) => Data(t))
  BY <1>1, <1>3, RestyledIsListed, RestyledKeepsData
<1>5. Waits(s) => Waits(t)
  BY <1>1 DEF Waits, LogComplete, ChunkComplete, SameFlags, SameList, SameData
<1>. QED  BY <1>1, <1>2, <1>3, <1>4, <1>5

LEMMA AllDataReceived ==
  ASSUME NEW s, Flags(s), List(s), Data(s), Queued(s), s.out \in Seq(Request), s.downloading,
         NEW created \in BOOLEAN, NEW t, t = ReceivedAllData(s, created)
  PROVE  Handled(s, t) /\ Restyled(s, t) /\ t.saved = s.saved
<1>. DEFINE u    == [s EXCEPT !.timer = FALSE]
            next == PrepareLogDownload(u, created)
<1>1. /\ SameFlags(s, u) /\ SameList(s, u) /\ SameData(s, u) /\ u.out = s.out
      /\ Flags(u) /\ List(u) /\ Data(u) /\ (Watched(s) => Watched(u)) /\ Restyled(s, u)
  BY TimerSet
<1>2. Queued(u) /\ u.downloading /\ u.saved = s.saved
  BY <1>1 DEF Queued, SameFlags, SameList, SameData
<1>. HIDE DEF u
<1>3. /\ SameFlags(u, next) /\ Restyled(u, next) /\ next.out = u.out /\ next.saved = u.saved
      /\ Data(next)
      /\ IF next.data = NoData THEN Selected(next) = {} \/ next.refused ELSE AtHand(next)
      /\ next.data = NoData => Queued(next)
  BY <1>1, <1>2, Prepared
<1>4. Flags(next) /\ (Watched(s) => Watched(next)) /\ List(next) /\ next.downloading
  BY <1>1, <1>2, <1>3, FlagsStay, RestyledIsListed DEF SameFlags
<1>5. Restyled(s, next) /\ next.saved = s.saved /\ next.out = s.out
  BY <1>1, <1>2, <1>3, RestyledTwice
<1>6. t = IF next.data # NoData THEN RequestChunk([next EXCEPT !.timer = TRUE])
          ELSE SetDownloading(ResetSelection(next, FALSE), FALSE)
  BY DEF ReceivedAllData, u
<1>. HIDE DEF next
<1>7. CASE next.data # NoData
  <2>. DEFINE v == [next EXCEPT !.timer = TRUE]
  <2>1. Waits(next)
    BY <1>3, <1>4, <1>7 DEF Waits, AtHand
  <2>2. /\ SameData(next, v) /\ v.out = next.out
        /\ Flags(v) /\ List(v) /\ Data(v) /\ Waits(v) /\ (Watched(next) => Watched(v))
        /\ Restyled(next, v)
    BY <1>3, <1>4, <2>1, TimerSet
  <2>3. Ctl(v) /\ (Watched(s) => Watched(v)) /\ Restyled(s, v) /\ v.saved = s.saved
    BY <1>4, <1>5, <2>2, RestyledTwice DEF Ctl, SameData
  <2>. HIDE DEF v
  <2>4. v.data.id \in Nat /\ v.data.chunk * TableBins \in Nat /\ v.data.table \in Int
    <3>1. v.data.id \in Nat /\ v.data.chunk \in Nat /\ v.data.table \in Nat
      BY <1>7, <2>2 DEF Data, SameData
    <3>. QED  BY <3>1, LogBounds
  <2>5. t = RequestLogData(v, v.data.id, v.data.chunk * TableBins, v.data.table)
    BY <1>6, <1>7 DEF RequestChunk, v
  <2>. DEFINE offset == v.data.chunk * TableBins
  <2>6. offset \in Nat /\ t = RequestLogData(v, v.data.id, offset, v.data.table)
    BY <2>4, <2>5
  <2>. HIDE DEF offset
  <2>7. Handled(v, t) /\ Restyled(v, t) /\ t.saved = v.saved
    BY <2>3, <2>4, <2>6, ChunkRequested
  <2>. QED  BY <2>3, <2>7, RestyledTwice DEF Handled
<1>8. CASE next.data = NoData
  <2>. DEFINE v == ResetSelection(next, FALSE)
  <2>1. /\ SameFlags(next, v) /\ Restyled(next, v) /\ SameData(next, v) /\ v.out = next.out
        /\ \A i \in DOMAIN next.entries : v.entries[i].status = next.entries[i].status
    BY <1>4, SelectionReset
  <2>. HIDE DEF v
  <2>2. Flags(v) /\ (Watched(s) => Watched(v)) /\ List(v) /\ Data(v)
    BY <1>3, <1>4, <2>1, FlagsStay, RestyledIsListed, RestyledKeepsData
  <2>3. t = SetDownloading(v, FALSE)
    BY <1>6, <1>8 DEF v
  <2>4. /\ Flags(t) /\ (Watched(v) => Watched(t))
        /\ SameList(v, t) /\ SameData(v, t) /\ t.out = v.out /\ t.downloading = FALSE
    BY <2>2, <2>3, DownloadingSet
  <2>5. Restyled(v, t)
    BY <2>2, <2>4, SameIsRestyled
  <2>6. List(t) /\ Data(t) /\ Restyled(s, t)
    BY <1>5, <2>1, <2>2, <2>4, <2>5, RestyledIsListed, RestyledKeepsData, RestyledTwice
  <2>7. \A i \in DOMAIN t.entries : t.entries[i].status = "Waiting" => t.refused
    BY <1>3, <1>8, <2>1, <2>4 DEF Queued, Selected, Restyled, SameList, SameData
  <2>8. t.data = NoData /\ t.saved = s.saved /\ t.out \in Seq(Request)
    BY <1>5, <1>8, <2>1, <2>4 DEF SameData
  <2>. QED  BY <2>2, <2>4, <2>6, <2>7, <2>8, NothingWaits DEF Handled, Ctl
<1>. QED  BY <1>7, <1>8

(***************************************************************************)
(* The log at hand.  size is what is read of its entry.                    *)
(***************************************************************************)
\* The entry is read where it is, and anything where it was.
Read(s, size) ==
    size \in Nat /\ s.data # NoData /\ (~s.freed => size = s.entries[s.data.id].size)

LEMMA Advanced ==
  ASSUME NEW s, NEW size, NEW t, t = AdvanceChunk(s, size), Ctl(s), Read(s, size), ChunkComplete(s)
  PROVE  /\ Handled(s, t) /\ SameList(s, t) /\ Restyled(s, t) /\ Read(t, size)
         /\ t.saved = s.saved /\ ~LogComplete(t, size)
<1>. DEFINE d == [s.data EXCEPT !.chunk = s.data.chunk + 1, !.got = {},
                                !.table = ChunkBins(size, s.data.chunk + 1)]
<1>1. /\ DOMAIN s.data = {"id", "chunk", "got", "file", "table"}
      /\ s.data.id \in Nat /\ s.data.chunk \in Nat /\ s.data.table \in Nat
      /\ s.data.got = 0 .. s.data.table - 1
      /\ Flags(s) /\ List(s) /\ Data(s) /\ size \in Nat
  BY DEF Ctl, Data, Read, ChunkComplete
<1>2. t = [s EXCEPT !.data = d]
  BY <1>1 DEF AdvanceChunk, Flags, Fields
<1>3. /\ SameFlags(s, t) /\ SameList(s, t) /\ t.out = s.out /\ t.saved = s.saved
      /\ t.freed = s.freed /\ t.torn = s.torn /\ t.refused = s.refused /\ t.data = d
  BY <1>1, <1>2 DEF Flags, Fields, SameFlags, SameList
<1>4. /\ DOMAIN t.data = {"id", "chunk", "got", "file", "table"}
      /\ t.data.id = s.data.id /\ t.data.chunk = s.data.chunk + 1 /\ t.data.got = {}
      /\ t.data.table = ChunkBins(size, s.data.chunk + 1) /\ t.data.file = s.data.file
  BY <1>1, <1>3
<1>. HIDE DEF d
<1>5. t.data.chunk \in Nat /\ t.data.table \in Nat
  <2>1. t.data.chunk \in Nat /\ t.data.table = ChunkBins(size, t.data.chunk)
    BY <1>1, <1>4
  <2>. QED  BY <1>1, <2>1, Chunks
<1>6. t.data # NoData
  BY <1>1, <1>4 DEF NoData
<1>7. Restyled(s, t) /\ List(t) /\ Flags(t) /\ (Watched(s) => Watched(t))
  BY <1>1, <1>3, SameIsRestyled, RestyledIsListed, FlagsStay
<1>8. Read(t, size)
  BY <1>3, <1>4, <1>6 DEF Read, SameList
<1>9. ~LogComplete(t, size)
  BY <1>1, <1>4, <1>5, BegunIsNotComplete
<1>10. ASSUME ~s.freed PROVE Written(t, size)
  <2>1. Written(s, size) /\ size = s.entries[s.data.id].size
    BY <1>1, <1>10 DEF Data, Read
  <2>. DEFINE done == s.data.chunk * TableBins
  <2>2. done \in Nat /\ t.data.chunk * TableBins = done + TableBins
    BY <1>1, <1>4, Chunks
  <2>3. ASSUME NEW ofs \in 0 .. size - 1, ofs < t.data.chunk * TableBins
        PROVE  ofs < done \/ ofs - done \in s.data.got
    <3>1. ofs < (s.data.chunk + 1) * TableBins
      BY <1>4, <2>3
    <3>2. s.data.got = 0 .. ChunkBins(size, s.data.chunk) - 1
      BY <1>1, <2>1 DEF Written
    <3>. QED  BY <1>1, <3>1, <3>2, Chunks
  <2>. QED  BY <1>3, <1>4, <2>1, <2>3 DEF Written, SameList
<1>11. Data(t)
  <2>1. t.torn \in BOOLEAN /\ t.freed \in BOOLEAN /\ t.refused \in BOOLEAN
        /\ (t.freed => t.data # NoData /\ DOMAIN t.entries = {})
    BY <1>1, <1>3, <1>6 DEF Data, SameList
  <2>2. ~t.freed => t.data.id \in DOMAIN t.entries /\ Written(t, t.entries[t.data.id].size)
    BY <1>1, <1>3, <1>4, <1>8, <1>10 DEF Data, Read, SameList
  <2>. QED  BY <1>1, <1>4, <1>5, <2>1, <2>2 DEF Data
<1>12. Waits(t)
  <2>1. ASSUME NEW i \in DOMAIN t.entries, t.entries[i].status = "Waiting", ~t.refused
        PROVE  /\ t.downloading
               /\ \/ t.entries[i].selected
                  \/ t.data.id = i /\ ~LogComplete(t, t.entries[i].size)
    <3>1. s.downloading /\ (s.entries[i].selected \/ s.data.id = i)
      BY <1>3, <2>1 DEF Ctl, Waits, SameList
    <3>2. s.data.id = i => t.entries[i].size = size
      BY <1>1, <1>3, <2>1 DEF Data, Read, SameList
    <3>. QED  BY <1>3, <1>4, <1>9, <3>1, <3>2 DEF SameFlags, SameList
  <2>2. t.downloading <=> t.data # NoData
    BY <1>3, <1>6 DEF Ctl, Waits, Read, SameFlags
  <2>. QED  BY <2>1, <2>2 DEF Waits
<1>13. t.out \in Seq(Request)
  BY <1>3 DEF Ctl
<1>. QED  BY <1>3, <1>7, <1>8, <1>9, <1>11, <1>12, <1>13 DEF Handled, Ctl

\* A complete log no longer waits.
LEMMA CompleteIsQueued ==
  ASSUME NEW s, NEW size, Ctl(s), Read(s, size), LogComplete(s, size)
  PROVE  Queued(s) /\ s.downloading
<1>1. s.downloading
  BY DEF Ctl, Waits, Read
<1>2. ASSUME NEW i \in DOMAIN s.entries, s.entries[i].status = "Waiting", ~s.refused
      PROVE  s.entries[i].selected
  <2>1. s.freed = FALSE
    BY <1>2 DEF Ctl, Data
  <2>. QED  BY <1>2, <2>1 DEF Ctl, Waits, Read
<1>. QED  BY <1>1, <1>2 DEF Queued

LEMMA DataSought ==
  ASSUME NEW s, NEW size, NEW created \in BOOLEAN, NEW t, t = FindMissingData(s, size, created),
         Ctl(s), Read(s, size)
  PROVE  Handled(s, t) /\ Restyled(s, t) /\ t.saved = s.saved
<1>1. CASE LogComplete(s, size)
  <2>1. t = ReceivedAllData(s, created)
    BY <1>1 DEF FindMissingData
  <2>. QED  BY <1>1, <2>1, CompleteIsQueued, AllDataReceived DEF Ctl
<1>2. CASE ~LogComplete(s, size)
  <2>. DEFINE next  == IF ChunkComplete(s) THEN AdvanceChunk(s, size) ELSE s
              d     == [next EXCEPT !.retries = IF @ > ListRetries THEN @ ELSE @ + 1]
              holes == (0 .. d.data.table) \ d.data.got
              start == CHOOSE i \in holes : \A j \in holes : i <= j
              stops == {i \in start .. d.data.table : i \in d.data.got \/ i = d.data.table}
              end   == CHOOSE i \in stops : \A j \in stops : i <= j
              offset == d.data.chunk * TableBins + start
              count  == end - start
  <2>1. t = RequestLogData(d, d.data.id, offset, count)
    BY <1>2 DEF FindMissingData
  <2>2. Handled(s, d) /\ Restyled(s, d) /\ d.saved = s.saved /\ d.data # NoData
    <3>1. Handled(s, next) /\ Restyled(s, next) /\ next.saved = s.saved /\ next.data # NoData
      <4>1. CASE ChunkComplete(s)
        BY <4>1, Advanced DEF Read
      <4>2. CASE ~ChunkComplete(s)
        BY <4>2, SameIsRestyled DEF Handled, Read, Ctl, SameList
      <4>. QED  BY <4>1, <4>2
    <3>. HIDE DEF next
    <3>2. Ctl(next) /\ Flags(next) /\ List(next)
      BY <3>1 DEF Handled, Ctl
    <3>3. \E n : d = [next EXCEPT !.retries = n]
      <4>1. d = [next EXCEPT !.retries =
                   IF next.retries > ListRetries THEN next.retries ELSE next.retries + 1]
        BY <3>2 DEF Flags, Fields
      <4>. QED  BY <4>1
    <3>. HIDE DEF d
    <3>4. /\ SameData(next, d) /\ d.out = next.out /\ Flags(d) /\ List(d) /\ Data(d) /\ Waits(d)
          /\ (Watched(next) => Watched(d)) /\ Restyled(next, d)
      BY <3>2, <3>3, TimerSet DEF Ctl
    <3>. QED  BY <3>1, <3>2, <3>4, RestyledTwice DEF Handled, Ctl, SameData
  <2>. HIDE DEF d
  <2>3. /\ d.data.id \in Nat /\ d.data.chunk \in Nat /\ d.data.table \in Nat
        /\ d.data.got \subseteq 0 .. d.data.table - 1
    BY <2>2 DEF Handled, Ctl, Data
  <2>4. start \in holes /\ start \in 0 .. d.data.table
    <3>1. holes \subseteq Nat /\ d.data.table \in holes
      BY <2>3
    <3>. HIDE DEF holes
    <3>2. start \in holes
      BY <3>1, LeastNatural
    <3>. QED  BY <3>2 DEF holes
  <2>. HIDE DEF start
  <2>5. end \in start .. d.data.table
    <3>1. stops \subseteq Nat /\ d.data.table \in stops
      BY <2>3, <2>4
    <3>. HIDE DEF stops
    <3>2. end \in stops
      BY <3>1, LeastNatural
    <3>. QED  BY <3>2 DEF stops
  <2>. HIDE DEF end
  <2>6. d.data.chunk * TableBins \in Nat
    BY <2>3, LogBounds
  <2>7. offset \in Nat /\ count \in Int
    BY <2>3, <2>4, <2>5, <2>6
  <2>. HIDE DEF offset, count
  <2>8. Handled(d, t) /\ Restyled(d, t) /\ t.saved = d.saved
    BY <2>1, <2>2, <2>3, <2>7, ChunkRequested DEF Handled
  <2>. QED  BY <2>2, <2>8, RestyledTwice DEF Handled
<1>. QED  BY <1>1, <1>2

(***************************************************************************)
(* LOG_DATA.                                                               *)
(***************************************************************************)
\* The size in an entry is that of the log it names.
LEMMA ReadIsGenuine ==
  ASSUME NEW s, NEW size, Ctl(s), Read(s, size), ~s.freed, ListedAs(s, InitialLogs), size # 0
  PROVE  SizeOf(InitialLogs[s.vehicle], s.vehicle, s.data.id + s.apmOneBased) = size
<1>. DEFINE v  == s.vehicle
            id == s.data.id + s.apmOneBased
            n  == id - FirstId(v) + 1
<1>1. s.data.id \in DOMAIN s.entries /\ size = s.entries[s.data.id].size
  BY DEF Ctl, Data, Read
<1>2. s.entries[s.data.id].received
  BY <1>1 DEF Ctl, List
<1>3. Genuine(InitialLogs[v], v, id, size)
  BY <1>1, <1>2 DEF ListedAs
<1>4. v \in Vehicles
  BY <1>1 DEF Ctl, Flags, List
<1>5. InitialLogs[v] \in Seq(Nat)
  BY <1>4, LogsAssumption
<1>6. DOMAIN InitialLogs[v] = 1 .. Len(InitialLogs[v])
  BY <1>5
<1>. HIDE DEF id
<1>. QED  BY <1>3, <1>6 DEF SizeOf, Genuine, id

\* A log at hand is given another status than waiting.
LEMMA StatusKeepsCtl ==
  ASSUME NEW s, NEW status, NEW t, t = SetStatus(s, status),
         status \in Statuses \ {"Waiting", "Pending"},
         Flags(s), List(s), Data(s), s.out \in Seq(Request), s.data # NoData, s.downloading,
         \A i \in DOMAIN s.entries :
            s.entries[i].status = "Waiting" /\ ~s.refused => s.entries[i].selected \/ s.data.id = i
  PROVE  /\ Handled(s, t) /\ Restyled(s, t) /\ SameData(s, t) /\ Queued(t) /\ t.downloading
<1>1. /\ SameFlags(s, t) /\ Restyled(s, t) /\ SameData(s, t) /\ t.out = s.out
      /\ \A i \in DOMAIN s.entries :
            /\ t.entries[i].selected = s.entries[i].selected
            /\ t.entries[i].status = IF i = s.data.id THEN status ELSE s.entries[i].status
  BY StatusSet
<1>2. Flags(t) /\ (Watched(s) => Watched(t)) /\ List(t) /\ Data(t)
  BY <1>1, FlagsStay, RestyledIsListed, RestyledKeepsData
<1>3. Queued(t)
  BY <1>1 DEF Queued, Restyled, SameData
<1>4. t.downloading /\ t.data # NoData
  BY <1>1 DEF SameFlags, SameData
<1>5. Waits(t)
  BY <1>3, <1>4 DEF Waits, Queued
<1>. QED  BY <1>1, <1>2, <1>3, <1>4, <1>5 DEF Handled, Ctl

\* What LogData does with a bin before it looks what is complete.
Seen(s, bin) == IF bin >= s.data.table THEN s ELSE [s EXCEPT !.data.got = @ \cup {bin}]

Took(s, from, m) ==
    [Seen(s, m.ofs % TableBins) EXCEPT !.data.file = @ \cup {[from |-> from, ofs |-> m.ofs]},
                                       !.retries = 0, !.timer = TRUE]

LEMMA BinSeen ==
  ASSUME NEW s, NEW bin, NEW t, t = Seen(s, bin), Ctl(s), s.data # NoData, bin \in Nat
  PROVE  /\ SameFlags(s, t) /\ SameList(s, t) /\ t.out = s.out /\ t.saved = s.saved
         /\ t.freed = s.freed /\ t.torn = s.torn /\ t.refused = s.refused
         /\ DOMAIN t.data = DOMAIN s.data /\ t.data # NoData
         /\ t.data.id = s.data.id /\ t.data.chunk = s.data.chunk /\ t.data.table = s.data.table
         /\ t.data.file = s.data.file
         /\ t.data.got \subseteq 0 .. s.data.table - 1
         /\ s.data.got \subseteq t.data.got /\ t.data.got \subseteq s.data.got \cup {bin}
<1>1. /\ DOMAIN s.data = {"id", "chunk", "got", "file", "table"} /\ DOMAIN s = Fields
      /\ s.data.id \in Nat /\ s.data.table \in Nat /\ s.data.got \subseteq 0 .. s.data.table - 1
  BY DEF Ctl, Data, Flags
<1>2. CASE bin >= s.data.table
  BY <1>1, <1>2 DEF Seen, SameFlags, SameList
<1>3. CASE ~(bin >= s.data.table)
  <2>. DEFINE d == [s.data EXCEPT !.got = s.data.got \cup {bin}]
  <2>1. t = [s EXCEPT !.data = d]
    BY <1>1, <1>3 DEF Seen, Fields
  <2>2. /\ SameFlags(s, t) /\ SameList(s, t) /\ t.out = s.out /\ t.saved = s.saved
        /\ t.freed = s.freed /\ t.torn = s.torn /\ t.refused = s.refused /\ t.data = d
    BY <1>1, <2>1 DEF Fields, SameFlags, SameList
  <2>3. /\ DOMAIN t.data = DOMAIN s.data
        /\ t.data.id = s.data.id /\ t.data.chunk = s.data.chunk /\ t.data.table = s.data.table
        /\ t.data.file = s.data.file /\ t.data.got = s.data.got \cup {bin}
    BY <1>1, <2>2
  <2>4. t.data # NoData
    BY <1>1, <2>3 DEF NoData
  <2>. HIDE DEF d
  <2>5. t.data.got \subseteq 0 .. s.data.table - 1
    BY <1>1, <1>3, <2>3
  <2>. QED  BY <2>2, <2>3, <2>4, <2>5
<1>. QED  BY <1>2, <1>3

LEMMA BinTaken ==
  ASSUME NEW s, NEW from, NEW m, NEW t, t = Took(s, from, m), Ctl(s), s.data # NoData, m.ofs \in Nat
  PROVE  /\ SameFlags(s, t) /\ SameList(s, t) /\ t.out = s.out /\ t.saved = s.saved
         /\ t.freed = s.freed /\ t.torn = s.torn /\ t.refused = s.refused
         /\ DOMAIN t.data = DOMAIN s.data /\ t.data # NoData
         /\ t.data.id = s.data.id /\ t.data.chunk = s.data.chunk /\ t.data.table = s.data.table
         /\ t.data.file = s.data.file \cup {[from |-> from, ofs |-> m.ofs]}
         /\ t.data.got \subseteq 0 .. s.data.table - 1
         /\ s.data.got \subseteq t.data.got
         /\ t.data.got \subseteq s.data.got \cup {m.ofs % TableBins}
<1>. DEFINE bin == m.ofs % TableBins
            u   == Seen(s, bin)
            d   == [u.data EXCEPT !.file = u.data.file \cup {[from |-> from, ofs |-> m.ofs]}]
<1>1. bin \in Nat
  BY LogBounds
<1>. HIDE DEF bin
<1>2. /\ SameFlags(s, u) /\ SameList(s, u) /\ u.out = s.out /\ u.saved = s.saved
      /\ u.freed = s.freed /\ u.torn = s.torn /\ u.refused = s.refused
      /\ DOMAIN u.data = DOMAIN s.data /\ u.data # NoData
      /\ u.data.id = s.data.id /\ u.data.chunk = s.data.chunk /\ u.data.table = s.data.table
      /\ u.data.file = s.data.file
      /\ u.data.got \subseteq 0 .. s.data.table - 1
      /\ s.data.got \subseteq u.data.got /\ u.data.got \subseteq s.data.got \cup {bin}
  BY <1>1, BinSeen
<1>3. DOMAIN u = Fields /\ DOMAIN u.data = {"id", "chunk", "got", "file", "table"}
      /\ u.data.id \in Nat
  BY <1>2 DEF Ctl, Flags, Data, SameFlags
<1>4. t = [u EXCEPT !.data = d, !.retries = 0, !.timer = TRUE]
  BY <1>3 DEF Took, Fields, bin
<1>. HIDE DEF u
<1>5. /\ SameFlags(u, t) /\ SameList(u, t) /\ t.out = u.out /\ t.saved = u.saved
      /\ t.freed = u.freed /\ t.torn = u.torn /\ t.refused = u.refused /\ t.data = d
  BY <1>3, <1>4 DEF Fields, SameFlags, SameList
<1>6. /\ DOMAIN t.data = DOMAIN u.data
      /\ t.data.id = u.data.id /\ t.data.chunk = u.data.chunk /\ t.data.table = u.data.table
      /\ t.data.file = u.data.file \cup {[from |-> from, ofs |-> m.ofs]}
      /\ t.data.got = u.data.got
  BY <1>3, <1>5
<1>. HIDE DEF d
<1>7. t.data # NoData
  BY <1>3, <1>6 DEF NoData
<1>. QED  BY <1>2, <1>5, <1>6, <1>7 DEF SameFlags, SameList, bin

\* A bin of the log at hand: what the vehicle sent for it, in the chunk asked for.
OfTheLog(s, from, m, size) ==
    /\ from = s.vehicle /\ Read(s, size)
    /\ m.ofs \in Nat /\ m.id \in Int /\ EntryIndex(s, m) = s.data.id
    /\ m.ofs < SizeOf(InitialLogs[from], from, m.id) /\ m.ofs <= size
    /\ InChunk(s, m)
    /\ ListedAs(s, InitialLogs)

LEMMA BinIsGenuine ==
  ASSUME NEW s, NEW from, NEW m, NEW size, Ctl(s), OfTheLog(s, from, m, size), ~s.freed, size # 0
  PROVE  m.ofs < size /\ SizeOf(InitialLogs[from], from, m.id) = size
<1>1. SizeOf(InitialLogs[from], from, s.data.id + s.apmOneBased) = size
  BY ReadIsGenuine DEF OfTheLog
<1>2. s.data.id + s.apmOneBased = m.id
  <2>1. s.apmOneBased \in Int /\ s.data.id \in Int /\ m.id \in Int
    BY DEF Ctl, List, Data, OfTheLog, Read
  <2>2. m.id - s.apmOneBased = s.data.id
    BY DEF OfTheLog, EntryIndex
  <2>. QED  BY <2>1, <2>2
<1>. QED  BY <1>1, <1>2 DEF OfTheLog

LEMMA TakenIsWritten ==
  ASSUME NEW s, NEW from, NEW m, NEW size, NEW t, t = Took(s, from, m),
         Ctl(s), OfTheLog(s, from, m, size)
  PROVE  /\ Flags(t) /\ (Watched(s) => Watched(t)) /\ List(t) /\ Data(t) /\ Restyled(s, t)
         /\ t.out = s.out /\ t.saved = s.saved /\ t.downloading /\ Read(t, size)
         /\ t.torn = s.torn /\ t.freed = s.freed
         /\ ~LogComplete(t, size) => Waits(t)
         /\ \A i \in DOMAIN t.entries :
               t.entries[i].status = "Waiting" /\ ~t.refused =>
                  t.entries[i].selected \/ t.data.id = i
<1>1. s.data # NoData /\ m.ofs \in Nat /\ size \in Nat
  BY DEF OfTheLog, Read
<1>2. /\ SameFlags(s, t) /\ SameList(s, t) /\ t.out = s.out /\ t.saved = s.saved
      /\ t.freed = s.freed /\ t.torn = s.torn /\ t.refused = s.refused
      /\ DOMAIN t.data = DOMAIN s.data /\ t.data # NoData
      /\ t.data.id = s.data.id /\ t.data.chunk = s.data.chunk /\ t.data.table = s.data.table
      /\ t.data.file = s.data.file \cup {[from |-> from, ofs |-> m.ofs]}
      /\ t.data.got \subseteq 0 .. s.data.table - 1
      /\ t.data.got \subseteq s.data.got \cup {m.ofs % TableBins}
  BY <1>1, BinTaken
<1>3. Flags(s) /\ List(s) /\ Data(s) /\ Waits(s)
  BY DEF Ctl
<1>4. Flags(t) /\ (Watched(s) => Watched(t)) /\ Restyled(s, t) /\ List(t)
  BY <1>2, <1>3, FlagsStay, SameIsRestyled, RestyledIsListed
<1>5. Read(t, size)
  BY <1>2 DEF Read, OfTheLog, SameList
<1>6. ASSUME ~s.freed PROVE Written(t, size)
  <2>1. Written(s, size) /\ s.data.chunk \in Nat
    BY <1>1, <1>3, <1>6 DEF Data, Read, OfTheLog
  <2>2. t.data.table = ChunkBins(size, t.data.chunk)
    BY <1>2, <2>1 DEF Written
  <2>3. size # 0 => m.ofs \in 0 .. size - 1
    BY <1>1, <1>6, BinIsGenuine
  <2>4. ASSUME ~t.torn, size # 0 PROVE t.data.file \subseteq FileOf(t.vehicle, size)
    <3>1. s.data.file \subseteq FileOf(s.vehicle, size) /\ from = s.vehicle
      BY <1>2, <2>1, <2>4 DEF Written, OfTheLog
    <3>2. [from |-> from, ofs |-> m.ofs] \in FileOf(s.vehicle, size)
      BY <2>3, <2>4, <3>1 DEF FileOf
    <3>. QED  BY <1>2, <3>1, <3>2 DEF SameList
  <2>. DEFINE done == s.data.chunk * TableBins
  <2>5. done \in Nat /\ m.ofs = done + (m.ofs % TableBins)
    <3>1. m.ofs = TableBins * (m.ofs \div TableBins) + (m.ofs % TableBins)
      BY <1>1, LogBounds
    <3>2. m.ofs \div TableBins = s.data.chunk
      BY DEF OfTheLog, InChunk
    <3>. QED  BY <2>1, <3>1, <3>2, LogBounds
  <2>. HIDE DEF done
  <2>6. ASSUME ~t.torn, NEW ofs \in 0 .. size - 1, ofs < done \/ ofs - done \in t.data.got
        PROVE  [from |-> t.vehicle, ofs |-> ofs] \in t.data.file
    <3>1. CASE ofs < done \/ ofs - done \in s.data.got
      BY <1>2, <2>1, <2>6, <3>1 DEF Written, SameList, done
    <3>2. CASE ofs - done = m.ofs % TableBins
      <4>1. ofs = m.ofs
        BY <2>5, <3>2, LogBounds
      <4>. QED  BY <1>2, <4>1 DEF OfTheLog, SameList
    <3>. QED  BY <1>2, <2>6, <3>1, <3>2
  <2>. QED  BY <1>2, <2>2, <2>4, <2>6 DEF Written, done
<1>7. Data(t)
  <2>1. t.torn \in BOOLEAN /\ t.freed \in BOOLEAN /\ t.refused \in BOOLEAN
        /\ (t.freed => t.data # NoData /\ DOMAIN t.entries = {})
    BY <1>2, <1>3 DEF Data, SameList
  <2>2. /\ DOMAIN t.data = {"id", "chunk", "got", "file", "table"}
        /\ t.data.id \in Nat /\ t.data.chunk \in Nat /\ t.data.table \in Nat
        /\ t.data.got \subseteq 0 .. t.data.table - 1
    BY <1>1, <1>2, <1>3 DEF Data
  <2>3. ~t.freed => t.data.id \in DOMAIN t.entries /\ Written(t, t.entries[t.data.id].size)
    BY <1>1, <1>2, <1>3, <1>5, <1>6 DEF Data, Read, SameList
  <2>. QED  BY <2>1, <2>2, <2>3 DEF Data
<1>8. t.downloading
  BY <1>1, <1>2, <1>3 DEF Waits, SameFlags
<1>9. \A i \in DOMAIN t.entries :
         t.entries[i].status = "Waiting" /\ ~t.refused => t.entries[i].selected \/ t.data.id = i
  BY <1>2, <1>3 DEF Waits, SameList
<1>10. ASSUME ~LogComplete(t, size) PROVE Waits(t)
  <2>1. ASSUME NEW i \in DOMAIN t.entries, t.data.id = i PROVE t.entries[i].size = size
    <3>1. ~t.freed
      BY <1>7, <2>1 DEF Data
    <3>. QED  BY <1>5, <2>1, <3>1 DEF Read
  <2>. QED  BY <1>2, <1>8, <1>9, <1>10, <2>1 DEF Waits
<1>. QED  BY <1>2, <1>4, <1>5, <1>7, <1>8, <1>9, <1>10

\* A complete file is the log.
LEMMA CompleteIsWhole ==
  ASSUME NEW s, NEW from, NEW m, NEW size, NEW t, t = Took(s, from, m),
         Ctl(s), OfTheLog(s, from, m, size), LogComplete(t, size), ~s.torn, ~s.freed
  PROVE  t.data.file = FileOf(from, SizeOf(InitialLogs[from], from, m.id))
<1>1. /\ Data(t) /\ Read(t, size) /\ t.torn = s.torn /\ t.freed = s.freed /\ t.vehicle = s.vehicle
  BY TakenIsWritten DEF Restyled
<1>2. /\ Written(t, size) /\ t.data.chunk \in Nat /\ t.data.table \in Nat /\ size \in Nat
  BY <1>1 DEF Data, Read
<1>3. t.data.got = 0 .. t.data.table - 1 /\ t.data.chunk + 1 = NumChunks(size)
  BY DEF LogComplete, ChunkComplete
<1>4. t.data.table = ChunkBins(size, t.data.chunk)
  BY <1>2 DEF Written
<1>. DEFINE done == t.data.chunk * TableBins
<1>5. size > 0 /\ done + t.data.table = size
  BY <1>2, <1>3, <1>4, LastChunk
<1>6. SizeOf(InitialLogs[from], from, m.id) = size /\ from = t.vehicle
  BY <1>1, <1>5, BinIsGenuine DEF OfTheLog
<1>7. t.data.file \subseteq FileOf(from, size)
  BY <1>1, <1>5, <1>2, <1>6 DEF Written
<1>8. ASSUME NEW ofs \in 0 .. size - 1 PROVE [from |-> from, ofs |-> ofs] \in t.data.file
  <2>1. done \in Nat
    BY <1>2, LogBounds
  <2>. HIDE DEF done
  <2>2. ofs < done \/ ofs - done \in t.data.got
    BY <1>2, <1>3, <1>5, <1>8, <2>1
  <2>. QED  BY <1>1, <1>2, <1>6, <2>2 DEF Written, done
<1>. QED  BY <1>6, <1>7, <1>8 DEF FileOf

\* A bin of the log at hand, whether the disk takes it or not.
LEMMA BinHandled ==
  ASSUME NEW s, NEW from, NEW m, NEW size, NEW disk, NEW created \in BOOLEAN,
         NEW t, t = LogData(s, from, m, size, disk, created),
         Ctl(s), OfTheLog(s, from, m, size), Saved(s)
  PROVE  Handled(s, t) /\ Restyled(s, t) /\ Saved(t)
<1>. DEFINE bin  == m.ofs % TableBins
            seen == Seen(s, bin)
            took == Took(s, from, m)
            torn == [seen EXCEPT !.torn = TRUE]
            lost == [seen EXCEPT !.torn = TRUE, !.refused = TRUE]
            full == [took EXCEPT !.saved = [ id |-> m.id, vehicle |-> from, file |-> took.data.file,
                                             torn |-> s.torn \/ s.freed ]]
<1>1. /\ s.data # NoData /\ m.ofs \in Nat /\ size \in Nat /\ ~(m.ofs > size)
      /\ from = s.vehicle /\ EntryIndex(s, m) = s.data.id /\ InChunk(s, m)
  BY DEF OfTheLog, Read
<1>2. t = IF disk = "cannot seek" THEN lost
          ELSE IF disk = "fails" THEN SetStatus(torn, "Error")
          ELSE IF LogComplete(took, size) THEN ReceivedAllData(SetStatus(full, "Downloaded"), created)
          ELSE IF ChunkComplete(took) THEN RequestChunk(AdvanceChunk(took, size))
          ELSE IF bin + 1 \in took.data.got THEN FindMissingData(took, size, created)
          ELSE took
  BY <1>1 DEF LogData, Seen, Took
<1>3. /\ Flags(took) /\ (Watched(s) => Watched(took)) /\ List(took) /\ Data(took)
      /\ Restyled(s, took) /\ took.out = s.out /\ took.saved = s.saved /\ took.downloading
      /\ Read(took, size) /\ (~LogComplete(took, size) => Waits(took))
      /\ \A i \in DOMAIN took.entries :
            took.entries[i].status = "Waiting" /\ ~took.refused =>
               took.entries[i].selected \/ took.data.id = i
  BY TakenIsWritten
<1>4. ~LogComplete(took, size) => Ctl(took)
  BY <1>3 DEF Ctl
<1>5. CASE disk \in {"fails", "cannot seek"}
  <2>1. bin \in Nat
    BY <1>1, LogBounds
  <2>2. /\ SameFlags(s, seen) /\ SameList(s, seen) /\ seen.out = s.out /\ seen.saved = s.saved
        /\ seen.freed = s.freed /\ seen.torn = s.torn /\ seen.refused = s.refused
        /\ DOMAIN seen.data = DOMAIN s.data /\ seen.data # NoData
        /\ seen.data.id = s.data.id /\ seen.data.chunk = s.data.chunk
        /\ seen.data.table = s.data.table /\ seen.data.got \subseteq 0 .. s.data.table - 1
    BY <1>1, <2>1, BinSeen
  <2>. HIDE DEF seen
  <2>3. DOMAIN seen = Fields
    BY <2>2 DEF Ctl, Flags, SameFlags
  <2>4. ASSUME NEW next, next \in {torn, lost}
        PROVE  /\ SameFlags(seen, next) /\ SameList(seen, next) /\ next.out = seen.out
               /\ next.saved = seen.saved /\ next.freed = seen.freed /\ next.torn = TRUE
               /\ next.data = seen.data
               /\ next.refused \in {seen.refused, TRUE}
    BY <2>3, <2>4 DEF Fields, SameFlags, SameList
  <2>5. lost.refused = TRUE
    BY <2>3 DEF Fields
  <2>. HIDE DEF torn, lost
  <2>6. ASSUME NEW next, next \in {torn, lost}
        PROVE  /\ Flags(next) /\ (Watched(s) => Watched(next)) /\ Restyled(s, next) /\ List(next)
               /\ Data(next) /\ next.saved = s.saved /\ next.out \in Seq(Request)
               /\ next.data # NoData /\ next.downloading
               /\ \A i \in DOMAIN next.entries :
                     next.entries[i].status = "Waiting" /\ ~next.refused =>
                        next.entries[i].selected \/ next.data.id = i
    <3>1. SameFlags(s, next) /\ SameList(s, next)
      BY <2>2, <2>4, <2>6 DEF SameFlags, SameList
    <3>2. Flags(next) /\ (Watched(s) => Watched(next)) /\ Restyled(s, next) /\ List(next)
      BY <3>1, FlagsStay, SameIsRestyled, RestyledIsListed DEF Ctl
    <3>3. Data(s) /\ s.data # NoData
      BY <1>1 DEF Ctl
    <3>4. ~next.freed => /\ next.data.id \in DOMAIN next.entries
                         /\ Written(next, next.entries[next.data.id].size)
      <4>1. ~s.freed => /\ s.data.id \in DOMAIN s.entries
                        /\ s.data.table = ChunkBins(s.entries[s.data.id].size, s.data.chunk)
        BY <3>3 DEF Data, Written
      <4>2. /\ next.freed = s.freed /\ next.torn = TRUE /\ next.entries = s.entries
            /\ next.data.id = s.data.id /\ next.data.chunk = s.data.chunk
            /\ next.data.table = s.data.table
        BY <2>2, <2>4, <2>6, <3>1 DEF SameList
      <4>. QED  BY <4>1, <4>2 DEF Written
    <3>5. /\ next.torn \in BOOLEAN /\ next.freed \in BOOLEAN /\ next.refused \in BOOLEAN
          /\ (next.freed => next.data # NoData /\ DOMAIN next.entries = {})
      BY <2>2, <2>4, <2>6, <3>1, <3>3 DEF Data, SameList
    <3>6. /\ DOMAIN next.data = {"id", "chunk", "got", "file", "table"}
          /\ next.data.id \in Nat /\ next.data.chunk \in Nat /\ next.data.table \in Nat
          /\ next.data.got \subseteq 0 .. next.data.table - 1
      BY <2>2, <2>4, <2>6, <3>3 DEF Data
    <3>7. Data(next)
      BY <3>4, <3>5, <3>6 DEF Data
    <3>8. /\ next.out \in Seq(Request) /\ next.data # NoData /\ next.downloading
          /\ \A i \in DOMAIN next.entries :
                next.entries[i].status = "Waiting" /\ ~next.refused =>
                   next.entries[i].selected \/ next.data.id = i
      <4>1. /\ next.out = s.out /\ next.downloading = s.downloading
            /\ next.entries = s.entries /\ next.data # NoData /\ next.data.id = s.data.id
            /\ next.refused \in {s.refused, TRUE}
        BY <2>2, <2>4, <2>6, <3>1 DEF SameFlags, SameList
      <4>2. /\ s.out \in Seq(Request) /\ s.downloading
            /\ \A i \in DOMAIN s.entries :
                  s.entries[i].status = "Waiting" /\ ~s.refused =>
                     s.entries[i].selected \/ s.data.id = i
        BY <1>1 DEF Ctl, Waits
      <4>. QED  BY <4>1, <4>2
    <3>. QED  BY <2>2, <2>4, <2>6, <3>2, <3>7, <3>8
  <2>7. CASE disk = "fails"
    <3>1. t = SetStatus(torn, "Error") /\ "Error" \in Statuses \ {"Waiting", "Pending"}
      BY <1>2, <2>7 DEF Statuses
    <3>2. Handled(torn, t) /\ Restyled(torn, t) /\ SameData(torn, t)
      BY <2>6, <3>1, StatusKeepsCtl
    <3>3. t.saved = s.saved
      BY <2>6, <3>2 DEF SameData
    <3>. QED  BY <2>6, <3>2, <3>3, RestyledTwice DEF Handled, Saved
  <2>8. CASE disk = "cannot seek"
    <3>1. t = lost
      BY <1>2, <2>8
    <3>2. Waits(t)
      BY <2>5, <2>6, <3>1 DEF Waits
    <3>. QED  BY <2>6, <3>1, <3>2 DEF Handled, Ctl, Saved
  <2>. QED  BY <1>5, <2>7, <2>8
<1>6. CASE disk \notin {"fails", "cannot seek"} /\ LogComplete(took, size)
  <2>1. ~s.torn /\ ~s.freed => took.data.file = FileOf(from, SizeOf(InitialLogs[from], from, m.id))
    BY <1>6, CompleteIsWhole
  <2>2. DOMAIN took = Fields
    BY <1>3 DEF Flags
  <2>. HIDE DEF took
  <2>3. /\ SameFlags(took, full) /\ SameList(took, full) /\ full.out = took.out
        /\ full.data = took.data /\ full.freed = took.freed /\ full.torn = took.torn
        /\ full.refused = took.refused
        /\ full.saved = [ id |-> m.id, vehicle |-> from, file |-> took.data.file,
                          torn |-> s.torn \/ s.freed ]
    BY <2>2 DEF Fields, SameFlags, SameList
  <2>. HIDE DEF full
  <2>4. Saved(full)
    <3>1. /\ full.saved.id = m.id /\ full.saved.vehicle = from /\ full.saved.file = took.data.file
          /\ full.saved.torn = (s.torn \/ s.freed)
      BY <2>3
    <3>. QED  BY <2>1, <3>1 DEF Saved
  <2>5. Flags(full) /\ (Watched(s) => Watched(full)) /\ Restyled(took, full) /\ List(full)
    BY <1>3, <2>3, FlagsStay, SameIsRestyled, RestyledIsListed
  <2>6. Data(full)
    BY <1>3, <2>3 DEF Data, Written, SameList
  <2>7. /\ full.out \in Seq(Request) /\ full.data # NoData /\ full.downloading
        /\ \A i \in DOMAIN full.entries :
              full.entries[i].status = "Waiting" /\ ~full.refused =>
                 full.entries[i].selected \/ full.data.id = i
    BY <1>3, <2>3 DEF Ctl, Read, SameFlags, SameList
  <2>. DEFINE named == SetStatus(full, "Downloaded")
  <2>8. Handled(full, named) /\ Restyled(full, named) /\ SameData(full, named)
        /\ Queued(named) /\ named.downloading
    <3>1. "Downloaded" \in Statuses \ {"Waiting", "Pending"}
      BY DEF Statuses
    <3>. QED  BY <2>5, <2>6, <2>7, <3>1, StatusKeepsCtl
  <2>. HIDE DEF named
  <2>9. t = ReceivedAllData(named, created)
    BY <1>2, <1>6 DEF named
  <2>10. Handled(named, t) /\ Restyled(named, t) /\ t.saved = named.saved
    BY <2>8, <2>9, AllDataReceived DEF Handled, Ctl
  <2>11. Saved(t)
    BY <2>4, <2>8, <2>10 DEF Saved, SameData
  <2>12. Restyled(s, t)
    BY <1>3, <2>5, <2>8, <2>10, RestyledTwice
  <2>. QED  BY <2>5, <2>8, <2>10, <2>11, <2>12 DEF Handled
<1>7. CASE disk \notin {"fails", "cannot seek"} /\ ~LogComplete(took, size) /\ ChunkComplete(took)
  <2>. HIDE DEF took
  <2>. DEFINE next == AdvanceChunk(took, size)
  <2>1. Handled(took, next) /\ Restyled(took, next) /\ Read(next, size) /\ next.saved = took.saved
    BY <1>3, <1>4, <1>7, Advanced
  <2>. HIDE DEF next
  <2>2. next.data.id \in Nat /\ next.data.chunk \in Nat /\ next.data.table \in Nat
    BY <2>1 DEF Handled, Ctl, Data, Read
  <2>. DEFINE offset == next.data.chunk * TableBins
  <2>3. offset \in Nat
    BY <2>2, LogBounds
  <2>4. t = RequestLogData(next, next.data.id, offset, next.data.table)
    BY <1>2, <1>7 DEF RequestChunk, next
  <2>. HIDE DEF offset
  <2>5. Handled(next, t) /\ Restyled(next, t) /\ t.saved = next.saved
    BY <2>1, <2>2, <2>3, <2>4, ChunkRequested DEF Handled
  <2>. QED  BY <1>3, <2>1, <2>5, RestyledTwice DEF Handled, Saved
<1>8. CASE disk \notin {"fails", "cannot seek"} /\ ~LogComplete(took, size) /\ ~ChunkComplete(took)
  <2>. HIDE DEF took
  <2>1. CASE t = FindMissingData(took, size, created)
    <3>1. Handled(took, t) /\ Restyled(took, t) /\ t.saved = took.saved
      BY <1>3, <1>4, <1>8, <2>1, DataSought
    <3>. QED  BY <1>3, <3>1, RestyledTwice DEF Handled, Saved
  <2>2. CASE t = took
    BY <1>3, <1>4, <1>8, <2>2 DEF Handled, Saved
  <2>. QED  BY <1>2, <1>8, <2>1, <2>2
<1>. QED  BY <1>5, <1>6, <1>7, <1>8

LEMMA DataHeard ==
  ASSUME NEW s, NEW from, NEW m, NEW size, NEW disk, NEW created \in BOOLEAN,
         NEW t, t = LogData(s, from, m, size, disk, created),
         Ctl(s), s.data # NoData => Read(s, size), m.ofs \in Nat, m.id \in Int,
         m.ofs < SizeOf(InitialLogs[from], from, m.id), ListedAs(s, InitialLogs), Saved(s)
  PROVE  /\ Handled(s, t) /\ Restyled(s, t) /\ Saved(t) /\ (Busy(t) => Busy(s))
         /\ Noted(s) => Noted(t)
<1>1. CASE t = s
  BY <1>1, SameIsRestyled DEF Handled, Ctl, SameList
<1>2. CASE t = SetStatus(s, "Error") /\ s.data # NoData
  <2>1. "Error" \in Statuses \ {"Waiting", "Pending"}
    BY DEF Statuses
  <2>2. s.downloading
    BY <1>2 DEF Ctl, Waits
  <2>3. /\ Flags(s) /\ List(s) /\ Data(s) /\ s.out \in Seq(Request)
        /\ \A i \in DOMAIN s.entries :
              s.entries[i].status = "Waiting" /\ ~s.refused => s.entries[i].selected \/ s.data.id = i
    BY DEF Ctl, Waits
  <2>4. Handled(s, t) /\ Restyled(s, t) /\ SameData(s, t)
    BY <1>2, <2>1, <2>2, <2>3, StatusKeepsCtl
  <2>. QED  BY <2>2, <2>3, <2>4, NotedStays DEF Flags, Saved, SameData, Busy
<1>3. CASE OfTheLog(s, from, m, size)
  <2>1. Handled(s, t) /\ Restyled(s, t) /\ Saved(t)
    BY <1>3, BinHandled
  <2>2. s.downloading /\ ~s.listing
    BY <1>3 DEF Ctl, Flags, Waits, OfTheLog, Read
  <2>. QED  BY <2>1, <2>2, NotedStays DEF Busy
<1>4. \/ t = s \/ (t = SetStatus(s, "Error") /\ s.data # NoData)
      \/ /\ from = s.vehicle /\ s.data # NoData /\ EntryIndex(s, m) = s.data.id
         /\ ~(m.ofs > size) /\ InChunk(s, m)
  BY DEF LogData
<1>5. s.data # NoData /\ ~(m.ofs > size) => m.ofs <= size
  BY DEF Read
<1>. QED  BY <1>1, <1>2, <1>3, <1>4, <1>5 DEF OfTheLog

(***************************************************************************)
(* Listing.                                                                *)
(***************************************************************************)
\* No download is under way.
Quiet(s) ==
    /\ s.data = NoData /\ ~s.downloading
    /\ \A i \in DOMAIN s.entries : s.entries[i].status = "Waiting" => s.refused

LEMMA QuietIs ==
  ASSUME NEW s
  PROVE  /\ Ctl(s) /\ ~s.downloading => Quiet(s) /\ ~s.freed
         /\ Quiet(s) /\ Flags(s) /\ List(s) /\ Data(s) /\ s.out \in Seq(Request) => Ctl(s)
BY DEF Quiet, Ctl, Waits, Data, Flags

LEMMA QuietStays ==
  ASSUME NEW s, NEW t, Ctl(s), Quiet(s), SameList(s, t), SameData(s, t), ~t.downloading,
         Flags(t), Watched(s) => Watched(t), t.out \in Seq(Request)
  PROVE  Handled(s, t) /\ Restyled(s, t) /\ Quiet(t) /\ t.saved = s.saved
<1>1. Restyled(s, t) /\ List(t) /\ Data(t)
  BY SameIsRestyled, RestyledIsListed, RestyledKeepsData DEF Ctl
<1>2. Quiet(t)
  BY DEF Quiet, SameList, SameData
<1>. QED  BY <1>1, <1>2, QuietIs DEF Handled, SameData

LEMMA EntriesOverHandled ==
  ASSUME NEW s, NEW t, t = ReceivedAllEntries(s), Ctl(s), Quiet(s)
  PROVE  Handled(s, t) /\ Restyled(s, t) /\ Quiet(t) /\ t.saved = s.saved
<1>1. /\ Flags(t) /\ (Watched(s) => Watched(t)) /\ SameList(s, t) /\ SameData(s, t)
      /\ t.out = s.out /\ t.downloading = s.downloading
  BY EntriesOver DEF Ctl
<1>. QED  BY <1>1, QuietStays DEF Ctl, Quiet

LEMMA ListRequestedHandled ==
  ASSUME NEW s, NEW start, NEW end, NEW t, t = RequestLogList(s, start, end),
         Ctl(s), Quiet(s), start \in Int, end \in Int
  PROVE  /\ Handled(s, t) /\ Restyled(s, t) /\ Quiet(t) /\ t.saved = s.saved
         /\ s.listing => t.listing
<1>1. /\ Flags(t) /\ (Watched(s) => Watched(t)) /\ SameList(s, t) /\ SameData(s, t) /\ ~t.downloading
      /\ (s.listing => t.listing)
      /\ t.out = s.out \/ \E m \in ListRequest : t.out = Append(s.out, m)
  BY ListRequested DEF Ctl, Quiet
<1>2. t.out \in Seq(Request)
  BY <1>1, OneMore DEF Ctl
<1>. QED  BY <1>1, <1>2, QuietStays

\* A list that has just been begun, or goes on.
Filled(s, m) ==
    IF s.entries # << >> \/ m.num = 0 THEN s
    ELSE [s EXCEPT !.apmOneBased = IF s.vehicle \in ApmVehicles THEN 1 ELSE @,
                   !.entries = [i \in 0 .. m.num - 1 |-> NewEntry]]

LEMMA ListFilled ==
  ASSUME NEW s, NEW m, NEW t, t = Filled(s, m), Ctl(s), Quiet(s), s.vehicle # NoVehicle, m.num \in Nat
  PROVE  /\ Handled(s, t) /\ Quiet(t) /\ t.saved = s.saved /\ SameFlags(s, t)
         /\ m.num = 0 => t = s
         /\ \A sizes : ListedAs(s, sizes) /\ (m.num # 0 => m.num = Len(sizes[s.vehicle])) =>
                       ListedAs(t, sizes)
<1>1. CASE s.entries # << >> \/ m.num = 0
  BY <1>1 DEF Filled, Handled, SameFlags
<1>2. CASE ~(s.entries # << >> \/ m.num = 0)
  <2>. DEFINE entries == [i \in 0 .. m.num - 1 |-> NewEntry]
  <2>1. DOMAIN s = Fields /\ List(s) /\ Data(s) /\ ~s.freed
    BY QuietIs DEF Ctl, Flags, Quiet
  <2>2. t = [s EXCEPT !.apmOneBased = IF s.vehicle \in ApmVehicles THEN 1 ELSE s.apmOneBased,
                      !.entries = entries]
    BY <1>2, <2>1 DEF Filled, Fields
  <2>3. /\ SameFlags(s, t) /\ SameData(s, t) /\ t.out = s.out /\ t.entries = entries
        /\ t.apmOneBased = IF s.vehicle \in ApmVehicles THEN 1 ELSE s.apmOneBased
    BY <2>1, <2>2 DEF Fields, SameFlags, SameData
  <2>4. DOMAIN t.entries = 0 .. m.num - 1 /\ \A i \in DOMAIN t.entries : t.entries[i] = NewEntry
    BY <2>3
  <2>5. NewEntry \in EntryType /\ ~NewEntry.received /\ NewEntry.size = 0
        /\ NewEntry.status # "Waiting"
    BY DEF NewEntry, EntryType, Statuses
  <2>. HIDE DEF entries
  <2>6. t.vehicle # NoVehicle /\ t.apmOneBased \in {0, 1}
    BY <2>1, <2>3 DEF List, SameFlags
  <2>7. List(t)
    BY <2>4, <2>5, <2>6 DEF List
  <2>8. Flags(t) /\ (Watched(s) => Watched(t))
    BY <2>3, FlagsStay DEF Ctl
  <2>9. Quiet(t)
    BY <2>3, <2>4, <2>5 DEF Quiet, SameFlags, SameData
  <2>10. Data(t)
    BY <2>1, <2>3, <2>9 DEF Data, SameData, Quiet
  <2>11. \A sizes : m.num = Len(sizes[s.vehicle]) => ListedAs(t, sizes)
    BY <2>3, <2>4, <2>5 DEF ListedAs, SameFlags
  <2>. QED  BY <1>2, <2>3, <2>7, <2>8, <2>9, <2>10, <2>11, QuietIs DEF Handled, Ctl, SameData
<1>. QED  BY <1>1, <1>2

\* The entry of a log whose size is told.
Listed(s, m, id) ==
    [s EXCEPT !.entries[id].size = m.size, !.entries[id].received = TRUE,
              !.entries[id].status = "Available"]

LEMMA EntryListed ==
  ASSUME NEW s, NEW m, NEW id, NEW t, t = Listed(s, m, id),
         Ctl(s), Quiet(s), id \in DOMAIN s.entries, id = EntryIndex(s, m),
         m.id \in Int, m.size \in Nat
  PROVE  /\ Handled(s, t) /\ Quiet(t) /\ t.saved = s.saved /\ SameFlags(s, t)
         /\ \A sizes : ListedAs(s, sizes) /\ Genuine(sizes[s.vehicle], s.vehicle, m.id, m.size) =>
                       ListedAs(t, sizes)
<1>. DEFINE entries == [s.entries EXCEPT ![id] = [s.entries[id] EXCEPT
                           !.size = m.size, !.received = TRUE, !.status = "Available"]]
<1>1. DOMAIN s = Fields /\ List(s) /\ Data(s) /\ ~s.freed /\ s.data = NoData
  BY QuietIs DEF Ctl, Flags, Quiet
<1>2. \A i \in DOMAIN s.entries : s.entries[i] \in EntryType
  BY <1>1 DEF List
<1>3. t = [s EXCEPT !.entries = entries]
  BY <1>1, <1>2 DEF Listed, Fields, EntryType
<1>4. /\ SameFlags(s, t) /\ SameData(s, t) /\ t.out = s.out /\ t.entries = entries
      /\ t.apmOneBased = s.apmOneBased
  BY <1>1, <1>3 DEF Fields, SameFlags, SameData
<1>5. DOMAIN t.entries = DOMAIN s.entries
  BY <1>4
<1>6. ASSUME NEW i \in DOMAIN s.entries, i # id PROVE t.entries[i] = s.entries[i]
  BY <1>4, <1>6
<1>7. /\ t.entries[id] \in EntryType /\ t.entries[id].size = m.size /\ t.entries[id].received
      /\ t.entries[id].status = "Available"
  <2>1. t.entries[id] = [s.entries[id] EXCEPT !.size = m.size, !.received = TRUE, !.status = "Available"]
    BY <1>4
  <2>2. ASSUME NEW e \in EntryType, NEW u, u = [e EXCEPT !.size = m.size, !.received = TRUE, !.status = "Available"]
        PROVE  u \in EntryType /\ u.size = m.size /\ u.received /\ u.status = "Available"
    <3>1. u = [ size |-> m.size, received |-> TRUE, selected |-> e.selected, status |-> "Available" ]
      BY <2>2 DEF EntryType
    <3>2. e.selected \in BOOLEAN /\ "Available" \in Statuses
      BY DEF EntryType, Statuses
    <3>. QED  BY <3>1, <3>2 DEF EntryType
  <2>. QED  BY <1>2, <2>1, <2>2
<1>. HIDE DEF entries
<1>8. List(t)
  BY <1>1, <1>4, <1>5, <1>6, <1>7 DEF List, SameFlags
<1>9. Flags(t) /\ (Watched(s) => Watched(t))
  BY <1>4, FlagsStay DEF Ctl
<1>10. Quiet(t)
  BY <1>4, <1>5, <1>6, <1>7 DEF Quiet, SameFlags, SameData
<1>11. Data(t)
  BY <1>1, <1>4 DEF Data, SameData
<1>12. id + t.apmOneBased = m.id
  <2>1. s.apmOneBased \in Int /\ id \in Int
    BY <1>1 DEF List
  <2>. QED  BY <1>4, <2>1 DEF EntryIndex
<1>13. ASSUME NEW sizes, ListedAs(s, sizes), Genuine(sizes[s.vehicle], s.vehicle, m.id, m.size)
       PROVE  ListedAs(t, sizes)
  BY <1>4, <1>5, <1>6, <1>7, <1>12, <1>13 DEF ListedAs, SameFlags
<1>. QED  BY <1>4, <1>8, <1>9, <1>10, <1>11, <1>13, QuietIs DEF Handled, Ctl, SameData

LEMMA EntryHeard ==
  ASSUME NEW s, NEW from, NEW m, NEW t, t = LogEntry(s, from, m), Ctl(s), from \in Vehicles,
         m.id \in Int, m.num \in Nat, m.size \in Nat
  PROVE  /\ Handled(s, t) /\ t.saved = s.saved /\ (Busy(t) => Busy(s))
         /\ \A sizes : ListedAs(s, sizes) /\ (m.num = 0 \/ EntryOk(from, m, sizes[from])) =>
                       ListedAs(t, sizes)
         /\ Noted(s) /\ (from = s.vehicle /\ m.num = 0 => DOMAIN s.entries = {}) => Noted(t)
<1>1. CASE from # s.vehicle \/ ~s.listing
  BY <1>1 DEF LogEntry, Handled
<1>2. CASE from = s.vehicle /\ s.listing
  <2>. DEFINE apm    == s.vehicle \in ApmVehicles
              filled == Filled(s, m)
              id     == EntryIndex(filled, m)
              listed == IF m.num = 0 THEN ReceivedAllEntries(filled)
                        ELSE IF (m.size = 0 /\ apm) \/ id \notin DOMAIN filled.entries THEN filled
                        ELSE [filled EXCEPT !.entries[id].size = m.size,
                                            !.entries[id].received = TRUE,
                                            !.entries[id].status = "Available"]
              reset  == [listed EXCEPT !.retries = 0]
  <2>1. t = IF Missing(reset) = {} THEN ReceivedAllEntries(reset) ELSE [reset EXCEPT !.timer = TRUE]
    BY <1>2 DEF LogEntry, Filled
  <2>2. Quiet(s) /\ Busy(s) /\ s.vehicle # NoVehicle
    BY <1>2, QuietIs, LogVehicles DEF Ctl, Flags, Busy
  <2>3. /\ Handled(s, filled) /\ Quiet(filled) /\ filled.saved = s.saved /\ SameFlags(s, filled)
        /\ m.num = 0 => filled = s
        /\ \A sizes : ListedAs(s, sizes) /\ (m.num # 0 => m.num = Len(sizes[s.vehicle])) =>
                      ListedAs(filled, sizes)
    BY <2>2, ListFilled
  <2>4. filled.vehicle = from /\ filled.listing
    BY <1>2, <2>3 DEF SameFlags
  <2>. HIDE DEF filled
  <2>5. /\ Handled(filled, listed) /\ Quiet(listed) /\ listed.saved = s.saved
        /\ \A sizes : ListedAs(s, sizes) /\ (m.num = 0 \/ EntryOk(from, m, sizes[from])) =>
                      ListedAs(listed, sizes)
        /\ m.num # 0 => listed.listing
        /\ m.num = 0 => DOMAIN listed.entries = DOMAIN s.entries
    <3>1. CASE m.num = 0
      <4>1. /\ Handled(filled, listed) /\ Restyled(filled, listed) /\ Quiet(listed)
            /\ listed.saved = filled.saved
        BY <2>3, <3>1, EntriesOverHandled DEF Handled
      <4>. QED  BY <2>3, <3>1, <4>1, RestyledIsListed DEF Handled, Ctl, Restyled
    <3>2. CASE m.num # 0 /\ ((m.size = 0 /\ apm) \/ id \notin DOMAIN filled.entries)
      BY <1>2, <2>3, <2>4, <3>2 DEF Handled, EntryOk
    <3>3. CASE m.num # 0 /\ ~(m.size = 0 /\ apm) /\ id \in DOMAIN filled.entries
      <4>. HIDE DEF id
      <4>1. /\ Handled(filled, listed) /\ Quiet(listed) /\ listed.saved = filled.saved
            /\ \A sizes : ListedAs(filled, sizes) /\ Genuine(sizes[from], from, m.id, m.size) =>
                          ListedAs(listed, sizes)
            /\ SameFlags(filled, listed)
        <5>1. /\ listed = Listed(filled, m, id)
              /\ Ctl(filled) /\ Quiet(filled) /\ id = EntryIndex(filled, m)
          BY <2>3, <3>3 DEF Handled, id, Listed
        <5>. HIDE DEF listed
        <5>2. id \in DOMAIN filled.entries /\ m.id \in Int /\ m.size \in Nat
          BY <3>3
        <5>3. /\ Handled(filled, listed) /\ Quiet(listed) /\ listed.saved = filled.saved
              /\ \A sizes : /\ ListedAs(filled, sizes)
                            /\ Genuine(sizes[filled.vehicle], filled.vehicle, m.id, m.size)
                            => ListedAs(listed, sizes)
              /\ SameFlags(filled, listed)
          BY <5>1, <5>2, EntryListed
        <5>. QED  BY <2>4, <5>3
      <4>2. \A sizes : EntryOk(from, m, sizes) =>
                          m.num = Len(sizes) /\ Genuine(sizes, from, m.id, m.size)
        BY <1>2, <3>3 DEF EntryOk
      <4>. QED  BY <1>2, <2>3, <2>4, <3>3, <4>1, <4>2 DEF SameFlags
    <3>. QED  BY <3>1, <3>2, <3>3
  <2>. HIDE DEF listed
  <2>6. /\ Handled(listed, reset) /\ Quiet(reset) /\ reset.saved = listed.saved
        /\ Restyled(listed, reset) /\ reset.listing = listed.listing
    <3>1. Flags(listed) /\ List(listed) /\ Ctl(listed)
      BY <2>5 DEF Handled, Ctl
    <3>2. /\ SameFlags(listed, reset) /\ SameList(listed, reset) /\ SameData(listed, reset)
          /\ reset.out = listed.out /\ Flags(reset) /\ (Watched(listed) => Watched(reset))
      BY <3>1, TimerSet
    <3>. QED  BY <2>5, <3>1, <3>2, QuietStays DEF SameFlags, Quiet, Ctl
  <2>. HIDE DEF reset
  <2>7. /\ Handled(reset, t) /\ Restyled(reset, t) /\ t.saved = reset.saved
        /\ Missing(reset) = {} \/ t.listing = reset.listing
    <3>1. CASE t = ReceivedAllEntries(reset) /\ Missing(reset) = {}
      BY <2>6, <3>1, EntriesOverHandled DEF Handled
    <3>2. CASE t = [reset EXCEPT !.timer = TRUE]
      <4>1. Flags(reset) /\ List(reset) /\ Ctl(reset)
        BY <2>6 DEF Handled, Ctl
      <4>2. /\ SameFlags(reset, t) /\ SameData(reset, t) /\ t.out = reset.out
            /\ Flags(t) /\ List(t) /\ Data(t) /\ Waits(t) /\ (Watched(reset) => Watched(t))
            /\ Restyled(reset, t)
        BY <3>2, <4>1, TimerSet DEF Ctl
      <4>3. t.listing = reset.listing /\ t.saved = reset.saved
        BY <4>2 DEF SameFlags, SameData
      <4>. QED  BY <4>1, <4>2, <4>3 DEF Handled, Ctl
    <3>. QED  BY <2>1, <3>1, <3>2
  <2>8. \A sizes : ListedAs(listed, sizes) => ListedAs(t, sizes)
    BY <2>5, <2>6, <2>7, RestyledIsListed DEF Handled, Ctl
  <2>9. ASSUME Noted(s), m.num = 0 => DOMAIN s.entries = {} PROVE Noted(t)
    <3>1. CASE m.num = 0
      <4>1. DOMAIN t.entries = {}
        BY <2>5, <2>6, <2>7, <2>9, <3>1 DEF Restyled
      <4>. QED  BY <4>1 DEF Noted
    <3>2. CASE m.num # 0 /\ Missing(reset) = {}
      BY <2>7, <3>2 DEF Missing, Noted, Restyled
    <3>3. CASE m.num # 0 /\ t.listing = reset.listing
      BY <2>5, <2>6, <3>3 DEF Noted
    <3>. QED  BY <2>7, <3>1, <3>2, <3>3
  <2>. QED  BY <1>2, <2>2, <2>3, <2>5, <2>6, <2>7, <2>8, <2>9 DEF Handled
<1>. QED  BY <1>1, <1>2

LEMMA EntriesSought ==
  ASSUME NEW s, NEW t, t = FindMissingEntries(s), Ctl(s), s.listing
  PROVE  Handled(s, t) /\ t.saved = s.saved /\ Restyled(s, t) /\ Noted(t)
<1>1. Quiet(s)
  BY QuietIs DEF Ctl, Flags
<1>2. CASE Missing(s) = {}
  <2>1. t = ReceivedAllEntries(s)
    BY <1>2 DEF FindMissingEntries
  <2>2. Handled(s, t) /\ Restyled(s, t) /\ t.saved = s.saved
    BY <1>1, <2>1, EntriesOverHandled
  <2>. QED  BY <1>2, <2>2 DEF Missing, Noted, Restyled
<1>3. CASE Missing(s) # {}
  <2>. DEFINE start   == CHOOSE i \in Missing(s) : \A j \in Missing(s) : i <= j
              ends    == {i \in Missing(s) : start .. i \subseteq Missing(s) /\ i + 1 \notin Missing(s)}
              end     == CHOOSE i \in Missing(s) :
                             start .. i \subseteq Missing(s) /\ i + 1 \notin Missing(s)
              counted == [s EXCEPT !.retries = IF @ > ListRetries THEN @ ELSE @ + 1]
              failed  == [counted EXCEPT !.entries = [i \in DOMAIN @ |->
                            IF @[i].received THEN @[i] ELSE [@[i] EXCEPT !.status = "Error"]]]
  <2>1. t = IF s.retries > ListRetries THEN ReceivedAllEntries(failed)
            ELSE RequestLogList(counted, start + s.apmOneBased, end + s.apmOneBased)
    BY <1>3 DEF FindMissingEntries
  <2>2. /\ Ctl(counted) /\ Quiet(counted) /\ SameFlags(s, counted) /\ SameList(s, counted)
        /\ counted.out = s.out /\ counted.saved = s.saved /\ (Watched(s) => Watched(counted))
        /\ SameData(s, counted) /\ Restyled(s, counted)
    <3>1. \E n : counted = [s EXCEPT !.retries = n]
      <4>1. counted = [s EXCEPT !.retries = IF s.retries > ListRetries THEN s.retries ELSE s.retries + 1]
        BY DEF Ctl, Flags, Fields
      <4>. QED  BY <4>1
    <3>. HIDE DEF counted
    <3>2. /\ SameFlags(s, counted) /\ SameList(s, counted) /\ SameData(s, counted)
          /\ counted.out = s.out /\ Flags(counted) /\ List(counted) /\ Data(counted) /\ Waits(counted)
          /\ (Watched(s) => Watched(counted)) /\ Restyled(s, counted)
      BY <3>1, TimerSet DEF Ctl
    <3>. QED  BY <1>1, <3>2 DEF Ctl, Quiet, SameFlags, SameList, SameData
  <2>. HIDE DEF counted
  <2>3. CASE s.retries > ListRetries
    <3>1. DOMAIN counted = Fields /\ List(counted) /\ Data(counted) /\ Flags(counted)
      BY <2>2 DEF Ctl, Flags
    <3>2. /\ SameFlags(counted, failed) /\ SameData(counted, failed) /\ failed.out = counted.out
          /\ failed.apmOneBased = counted.apmOneBased /\ failed.vehicle = counted.vehicle
          /\ failed.cut = counted.cut
          /\ failed.entries = [i \in DOMAIN counted.entries |->
                IF counted.entries[i].received THEN counted.entries[i]
                ELSE [counted.entries[i] EXCEPT !.status = "Error"]]
      BY <3>1 DEF Fields, SameFlags, SameData
    <3>. HIDE DEF failed
    <3>3. ASSUME NEW i \in DOMAIN counted.entries
          PROVE  /\ failed.entries[i] \in EntryType
                 /\ failed.entries[i].size = counted.entries[i].size
                 /\ failed.entries[i].received = counted.entries[i].received
                 /\ failed.entries[i].status =
                       IF counted.entries[i].received THEN counted.entries[i].status ELSE "Error"
      <4>1. failed.entries[i] = IF counted.entries[i].received THEN counted.entries[i]
                                ELSE [counted.entries[i] EXCEPT !.status = "Error"]
        BY <3>2
      <4>2. counted.entries[i] \in EntryType /\ "Error" \in Statuses
        BY <3>1 DEF List, Statuses
      <4>. QED  BY <4>1, <4>2 DEF EntryType
    <3>4. Restyled(counted, failed)
      BY <3>2, <3>3 DEF Restyled
    <3>5. /\ List(failed) /\ Data(failed) /\ Flags(failed) /\ (Watched(counted) => Watched(failed))
      BY <3>1, <3>2, <3>4, RestyledIsListed, RestyledKeepsData, FlagsStay
    <3>6. Quiet(failed)
      BY <2>2, <3>2, <3>3, <3>4 DEF Quiet, Restyled, SameFlags, SameData
    <3>7. Handled(counted, failed) /\ failed.saved = counted.saved
      BY <2>2, <3>2, <3>5, <3>6, QuietIs DEF Handled, Ctl, SameData
    <3>8. Handled(failed, t) /\ Restyled(failed, t) /\ t.saved = failed.saved
      BY <2>1, <2>3, <3>6, <3>7, EntriesOverHandled DEF Handled
    <3>9. Noted(t)
      BY <3>3, <3>4, <3>8 DEF Noted, Restyled
    <3>. QED  BY <2>2, <3>4, <3>7, <3>8, <3>9, RestyledTwice DEF Handled
  <2>4. CASE ~(s.retries > ListRetries)
    <3>1. PICK n \in Nat : DOMAIN s.entries = 0 .. n - 1
      BY DEF Ctl, List
    <3>2. Missing(s) \subseteq 0 .. n - 1
      BY <3>1 DEF Missing
    <3>3. start \in Missing(s) /\ start \in Nat
      BY <1>3, <3>2, LeastNatural
    <3>. HIDE DEF start
    <3>4. end \in Missing(s)
      <4>. DEFINE stops == {i \in Nat : start <= i /\ i + 1 \notin Missing(s)}
                  last  == CHOOSE i \in stops : \A j \in stops : i <= j
      <4>1. n - 1 \in stops
        BY <3>2, <3>3
      <4>2. last \in stops /\ \A j \in stops : last <= j
        BY <4>1, LeastNatural
      <4>. HIDE DEF last
      <4>3. last \in Nat /\ start <= last /\ last + 1 \notin Missing(s)
        BY <4>2
      <4>4. ASSUME NEW i \in start .. last PROVE i \in Missing(s)
        <5>1. CASE i = start
          BY <3>3, <5>1
        <5>2. CASE i # start
          <6>1. i - 1 \in Nat /\ start <= i - 1 /\ ~(last <= i - 1) /\ i \in Nat
            BY <3>3, <4>3, <5>2
          <6>2. i - 1 \notin stops
            BY <4>2, <6>1
          <6>. QED  BY <6>1, <6>2
        <5>. QED  BY <5>1, <5>2
      <4>5. last \in Missing(s) /\ start .. last \subseteq Missing(s)
        BY <3>3, <4>3, <4>4
      <4>. QED  BY <4>3, <4>5
    <3>. HIDE DEF end
    <3>5. s.apmOneBased \in Int
      BY DEF Ctl, List
    <3>6. start + s.apmOneBased \in Int /\ end + s.apmOneBased \in Int
      BY <3>2, <3>3, <3>4, <3>5
    <3>7. /\ Handled(counted, t) /\ Restyled(counted, t) /\ t.saved = counted.saved
          /\ (counted.listing => t.listing)
      BY <2>1, <2>2, <2>4, <3>6, ListRequestedHandled
    <3>8. Noted(t)
      BY <2>2, <3>7 DEF Noted, SameFlags
    <3>. QED  BY <2>2, <3>7, <3>8, RestyledTwice DEF Handled
  <2>. QED  BY <2>3, <2>4
<1>. QED  BY <1>2, <1>3

(***************************************************************************)
(* The vehicles.                                                           *)
(***************************************************************************)
\* What a vehicle with the logs of sizes tells of them.
Answers(v, sizes) ==
    {m \in [ kind : {"entry"}, id : Int, num : Nat, size : Nat ] :
        EntryOk(v, m, sizes)}

LEMMA EntryTold ==
  ASSUME NEW v, NEW sizes \in Seq(Nat), NEW id, id \in Int
  PROVE  /\ Entry(sizes, v, id) \in [ kind : {"entry"}, id : Int, num : Nat, size : Nat ]
         /\ Entry(sizes, v, id).num = Len(sizes)
         /\ id - FirstId(v) + 1 \in 1 .. Len(sizes) => Entry(sizes, v, id) \in Answers(v, sizes)
<1>1. SizeOf(sizes, v, id) \in Nat
  <2>1. CASE id - FirstId(v) + 1 \in DOMAIN sizes
    BY <2>1, ElementOfSeq DEF SizeOf
  <2>2. CASE id - FirstId(v) + 1 \notin DOMAIN sizes
    BY <2>2 DEF SizeOf
  <2>. QED  BY <2>1, <2>2
<1>2. Len(sizes) \in Nat /\ DOMAIN sizes = 1 .. Len(sizes)
  BY LenProperties
<1>3. Entry(sizes, v, id) \in [ kind : {"entry"}, id : Int, num : Nat, size : Nat ]
  BY <1>1, <1>2 DEF Entry
<1>4. /\ Entry(sizes, v, id).num = Len(sizes) /\ Entry(sizes, v, id).id = id
      /\ Entry(sizes, v, id).size = SizeOf(sizes, v, id)
  BY DEF Entry
<1>5. ASSUME id - FirstId(v) + 1 \in 1 .. Len(sizes)
      PROVE  EntryOk(v, Entry(sizes, v, id), sizes)
  BY <1>2, <1>4, <1>5 DEF EntryOk, Genuine, SizeOf
<1>. QED  BY <1>3, <1>4, <1>5 DEF Answers

LEMMA ListAnswered ==
  ASSUME NEW v, NEW sizes \in Seq(Nat), NEW m \in ListRequest
  PROVE  HandleLogRequestList(v, sizes, m) \in Seq(Answers(v, sizes))
<1>. DEFINE first == IF m.start < FirstId(v) THEN FirstId(v) ELSE m.start
            last  == Least(m.end, FirstId(v) + Len(sizes) - 1)
            count == [Entry(sizes, v, 0) EXCEPT !.size = 0]
            some  == [n \in 1 .. last - first + 1 |-> Entry(sizes, v, first + n - 1)]
            A     == Answers(v, sizes)
<1>1. /\ first \in Int /\ last \in Int /\ FirstId(v) \in Int
      /\ FirstId(v) <= first /\ last <= FirstId(v) + Len(sizes) - 1
  <2>1. m.start \in Int /\ m.end \in Int /\ FirstId(v) \in Int /\ Len(sizes) \in Nat
    BY LenProperties DEF ListRequest, FirstId
  <2>. QED  BY <2>1 DEF Least
<1>2. HandleLogRequestList(v, sizes, m) =
         IF v \in WholeListsOnly /\ m.start # 0 THEN << >>
         ELSE IF sizes = << >> \/ (v \in ApmVehicles /\ m.start = 0) THEN << count >> \o some
         ELSE some
  BY DEF HandleLogRequestList
<1>. HIDE DEF first, last, A
<1>3. some \in Seq(A)
  <2>. DEFINE k == IF last - first + 1 \in Nat THEN last - first + 1 ELSE 0
  <2>1. k \in Nat /\ 1 .. last - first + 1 = 1 .. k
    BY <1>1
  <2>. HIDE DEF k
  <2>2. ASSUME NEW n \in 1 .. k PROVE Entry(sizes, v, first + n - 1) \in A
    <3>. DEFINE id == first + n - 1
    <3>1. n \in 1 .. last - first + 1
      BY <2>1
    <3>2. id \in Int /\ id - FirstId(v) + 1 \in 1 .. Len(sizes)
      BY <1>1, <3>1, LenProperties
    <3>. HIDE DEF id
    <3>3. Entry(sizes, v, id) \in A
      BY <3>2, EntryTold DEF A
    <3>. QED  BY <3>3 DEF id
  <2>3. [n \in 1 .. k |-> Entry(sizes, v, first + n - 1)] \in [1 .. k -> A]
    BY <2>2
  <2>4. some = [n \in 1 .. k |-> Entry(sizes, v, first + n - 1)]
    BY <2>1
  <2>5. [1 .. k -> A] \subseteq Seq(A)
    BY <2>1, SeqDef
  <2>. QED  BY <2>3, <2>4, <2>5
<1>. HIDE DEF some
<1>4. ASSUME sizes = << >> \/ v \in ApmVehicles PROVE << count >> \in Seq(A)
  <2>1. /\ Entry(sizes, v, 0) \in [ kind : {"entry"}, id : Int, num : Nat, size : Nat ]
        /\ Entry(sizes, v, 0).num = Len(sizes)
    <3>1. 0 \in Int
      OBVIOUS
    <3>. QED  BY <3>1, EntryTold
  <2>2. /\ count \in [ kind : {"entry"}, id : Int, num : Nat, size : Nat ]
        /\ count.num = Len(sizes) /\ count.size = 0
    BY <2>1
  <2>. HIDE DEF count
  <2>3. EntryOk(v, count, sizes)
    BY <1>4, <2>2, LenProperties DEF EntryOk
  <2>4. count \in A
    BY <2>2, <2>3 DEF A, Answers
  <2>. QED  BY <2>4
<1>. HIDE DEF count
<1>5. << >> \in Seq(A)
  BY EmptySeq
<1>. QED  BY <1>2, <1>3, <1>4, <1>5, ConcatProperties DEF A

\* Queues.
LEMMA TailKeeps ==
  ASSUME NEW queue \in Seq(Message), queue # << >>, NEW v
  PROVE  /\ Tail(queue) \in Seq(Message) /\ Head(queue) \in Message /\ 1 \in DOMAIN queue
         /\ Head(queue) = queue[1]
         /\ Bins(queue, v) => Bins(Tail(queue), v)
         /\ \A tables : Told(queue, v, tables) => Told(Tail(queue), v, tables)
<1>1. /\ Tail(queue) \in Seq(Message) /\ Head(queue) \in Message /\ 1 \in DOMAIN queue
      /\ Head(queue) = queue[1]
      /\ \A n \in DOMAIN Tail(queue) : n + 1 \in DOMAIN queue /\ Tail(queue)[n] = queue[n + 1]
  BY HeadTailProperties, LenProperties
<1>. QED  BY <1>1 DEF Bins, Told

LEMMA ConcatKeeps ==
  ASSUME NEW queue \in Seq(Message), NEW more \in Seq(Message), NEW v
  PROVE  /\ queue \o more \in Seq(Message)
         /\ Bins(queue, v) /\ Bins(more, v) => Bins(queue \o more, v)
         /\ \A tables : Told(queue, v, tables) /\ Told(more, v, tables) =>
                           Told(queue \o more, v, tables)
<1>1. queue \o more \in Seq(Message)
  BY ConcatProperties
<1>2. ASSUME NEW n \in DOMAIN (queue \o more)
      PROVE  \/ n \in DOMAIN queue /\ (queue \o more)[n] = queue[n]
             \/ \E k \in DOMAIN more : (queue \o more)[n] = more[k]
  <2>1. Len(queue) \in Nat /\ Len(more) \in Nat /\ n \in 1 .. Len(queue) + Len(more)
    BY <1>1, ConcatProperties, LenProperties
  <2>2. CASE n <= Len(queue)
    BY <2>1, <2>2, ConcatProperties, LenProperties
  <2>3. CASE ~(n <= Len(queue))
    <3>1. n - Len(queue) \in 1 .. Len(more)
      BY <2>1, <2>3
    <3>2. (queue \o more)[n] = more[n - Len(queue)]
      BY <2>1, <2>3, ConcatProperties
    <3>. QED  BY <3>1, <3>2, LenProperties
  <2>. QED  BY <2>2, <2>3
<1>. HIDE DEF Message
<1>. QED  BY <1>1, <1>2 DEF Bins, Told

\* A vehicle that hears requests: its logs, what it streams and what it answers.
Box(v, box) ==
    /\ DOMAIN box = {"sizes", "stream", "answers"}
    /\ box.sizes \in {InitialLogs[v], << >>}
    /\ box.stream \in [ id : Int, ofs : Nat, count : Int ]
    /\ box.stream.count > 0 =>
          box.stream.ofs + box.stream.count <= SizeOf(InitialLogs[v], v, box.stream.id)
    /\ box.answers \in Seq(Message)
    /\ Bins(box.answers, v)
    /\ Told(box.answers, v, Ever(v)) /\ Told(box.answers, v, {box.sizes})

LEMMA SizeIsNat ==
  ASSUME NEW sizes \in Seq(Nat), NEW v, NEW id
  PROVE  SizeOf(sizes, v, id) \in Nat
BY ElementOfSeq DEF SizeOf

LEMMA DataAnswered ==
  ASSUME NEW v \in Vehicles, NEW sizes \in {InitialLogs[v], << >>},
         NEW current \in [ id : Int, ofs : Nat, count : Int ], NEW m \in DataRequest,
         current.count > 0 =>
            current.ofs + current.count <= SizeOf(InitialLogs[v], v, current.id),
         NEW t, t = HandleLogRequestData(v, sizes, current, m)
  PROVE  /\ t \in [ id : Int, ofs : Nat, count : Int ]
         /\ t.count > 0 => t.ofs + t.count <= SizeOf(InitialLogs[v], v, t.id)
<1>. DEFINE size == SizeOf(sizes, v, m.id)
<1>1. /\ size \in Nat /\ SizeOf(InitialLogs[v], v, m.id) \in Nat
      /\ size <= SizeOf(InitialLogs[v], v, m.id)
  <2>1. InitialLogs[v] \in Seq(Nat) /\ << >> \in Seq(Nat)
    BY LogsAssumption
  <2>2. size \in Nat /\ SizeOf(InitialLogs[v], v, m.id) \in Nat
    BY <2>1, SizeIsNat
  <2>3. sizes = << >> => size = 0
    BY DEF SizeOf
  <2>. QED  BY <2>2, <2>3
<1>2. t = IF m.ofs > size - 1 THEN current
          ELSE [ id |-> m.id, ofs |-> m.ofs, count |-> Least(m.count, size - m.ofs) ]
  BY DEF HandleLogRequestData
<1>. HIDE DEF size
<1>3. m.id \in Int /\ m.ofs \in Nat /\ m.count \in Int
  BY DEF DataRequest
<1>4. CASE m.ofs > size - 1
  BY <1>2, <1>4
<1>5. CASE ~(m.ofs > size - 1)
  <2>1. /\ t = [ id |-> m.id, ofs |-> m.ofs, count |-> Least(m.count, size - m.ofs) ]
        /\ t.id = m.id /\ t.ofs = m.ofs /\ t.count = Least(m.count, size - m.ofs)
    BY <1>2, <1>5
  <2>2. Least(m.count, size - m.ofs) \in Int /\ m.ofs + Least(m.count, size - m.ofs) <= size
    BY <1>1, <1>3 DEF Least
  <2>. QED  BY <1>1, <1>3, <2>1, <2>2
<1>. QED  BY <1>4, <1>5

LEMMA AnswersAreOk ==
  ASSUME NEW v \in Vehicles, NEW sizes \in {InitialLogs[v], << >>}, NEW queue \in Seq(Answers(v, sizes))
  PROVE  /\ queue \in Seq(Message) /\ Bins(queue, v)
         /\ Told(queue, v, Ever(v)) /\ Told(queue, v, {sizes})
<1>1. Answers(v, sizes) \subseteq Message
  BY DEF Answers, Message
<1>2. queue \in Seq(Message)
  BY <1>1, SeqMonotonic
<1>3. ASSUME NEW n \in DOMAIN queue
      PROVE  queue[n].kind = "entry" /\ EntryOk(v, queue[n], sizes)
  <2>1. queue[n] \in Answers(v, sizes)
    BY ElementOfSeq, LenProperties
  <2>. QED  BY <2>1 DEF Answers
<1>4. sizes \in Ever(v)
  BY DEF Ever
<1>. QED  BY <1>2, <1>3, <1>4 DEF Bins, Told

LEMMA Heard ==
  ASSUME NEW v \in Vehicles, NEW box, Box(v, box), NEW m \in Request, NEW t, t = Hear(v, box, m)
  PROVE  Box(v, t) /\ t.sizes = box.sizes
<1>1. CASE m \in ListRequest
  <2>. DEFINE more == HandleLogRequestList(v, box.sizes, m)
  <2>1. box.sizes \in Seq(Nat)
    BY LogsAssumption, EmptySeq DEF Box
  <2>2. more \in Seq(Answers(v, box.sizes))
    BY <1>1, <2>1, ListAnswered
  <2>. HIDE DEF more
  <2>3. /\ more \in Seq(Message) /\ Bins(more, v)
        /\ Told(more, v, Ever(v)) /\ Told(more, v, {box.sizes})
    BY <2>2, AnswersAreOk DEF Box
  <2>4. t = [box EXCEPT !.answers = box.answers \o more]
    BY <1>1 DEF Hear, ListRequest, Box, more
  <2>. DEFINE all == box.answers \o more
  <2>5. /\ all \in Seq(Message) /\ Bins(all, v)
        /\ Told(all, v, Ever(v)) /\ Told(all, v, {box.sizes})
    BY <2>3, ConcatKeeps DEF Box
  <2>. HIDE DEF all
  <2>6. /\ t = [box EXCEPT !.answers = all]
    BY <2>4 DEF all
  <2>7. t.answers = all /\ t.sizes = box.sizes /\ t.stream = box.stream /\ DOMAIN t = DOMAIN box
    BY <2>6 DEF Box
  <2>. QED  BY <2>5, <2>7 DEF Box
<1>2. CASE m \in DataRequest
  <2>. DEFINE stream1 == HandleLogRequestData(v, box.sizes, box.stream, m)
  <2>1. /\ stream1 \in [ id : Int, ofs : Nat, count : Int ]
        /\ stream1.count > 0 => stream1.ofs + stream1.count <= SizeOf(InitialLogs[v], v, stream1.id)
    BY <1>2, DataAnswered DEF Box
  <2>2. t = [box EXCEPT !.stream = stream1]
    BY <1>2 DEF Hear, DataRequest, Box
  <2>. HIDE DEF stream1
  <2>3. t.stream = stream1 /\ t.sizes = box.sizes /\ t.answers = box.answers /\ DOMAIN t = DOMAIN box
    BY <2>2 DEF Box
  <2>. QED  BY <2>1, <2>3 DEF Box
<1>. QED  BY <1>1, <1>2 DEF Request

LEMMA Pair ==
  ASSUME NEW a, NEW b
  PROVE  Append(<< a >>, b) = << a, b >>
<1>. DEFINE S == {a, b}
            s == Append(<< a >>, b)
<1>1. << a >> \in Seq(S) /\ << a, b >> \in Seq(S) /\ b \in S
  OBVIOUS
<1>. HIDE DEF S
<1>2. /\ s \in Seq(S) /\ Len(s) = Len(<< a >>) + 1
      /\ \A i \in 1 .. Len(<< a >>) : s[i] = << a >>[i]
      /\ s[Len(<< a >>) + 1] = b
  BY <1>1, AppendProperties
<1>3. Len(s) = 2 /\ s[1] = a /\ s[2] = b
  BY <1>2
<1>. HIDE DEF s
<1>4. \A i \in 1 .. Len(s) : s[i] = << a, b >>[i]
  BY <1>3
<1>5. s = << a, b >>
  BY <1>1, <1>2, <1>3, <1>4, SeqEqual
<1>. QED  BY <1>5 DEF s

\* What a step may send: requests, or to erase all logs and list them again.
Sendable(sent) ==
    \/ sent \in Seq(Request)
    \/ \E m \in ListRequest : sent = << [kind |-> "erase"], m >>

LEMMA Delivered ==
  ASSUME Vessels, NEW v \in Vehicles, NEW sent, Sendable(sent), NEW kept \in SUBSET DOMAIN sent,
         NEW t, t = Deliver(v, sent, kept)
  PROVE  Box(v, t) /\ (sent \in Seq(Request) => t.sizes = logs[v])
<1>. DEFINE box == [ sizes |-> logs[v], stream |-> stream[v], answers |-> << >> ]
            one == IF 1 \in kept THEN Hear(v, box, sent[1]) ELSE box
<1>1. t = IF 2 \in kept THEN Hear(v, one, sent[2]) ELSE one
  BY DEF Deliver
<1>2. Box(v, box) /\ box.sizes = logs[v]
  <2>1. DOMAIN box = {"sizes", "stream", "answers"} /\ box.sizes = logs[v]
        /\ box.stream = stream[v] /\ box.answers = << >>
    OBVIOUS
  <2>2. << >> \in Seq(Message) /\ DOMAIN << >> = {}
    BY EmptySeq
  <2>. HIDE DEF box
  <2>. QED  BY <2>1, <2>2 DEF Vessels, Box, Bins, Told
<1>3. ASSUME sent \notin Seq(Request), 1 \in kept PROVE Box(v, one)
  <2>1. sent[1] = [kind |-> "erase"]
    BY <1>3 DEF Sendable
  <2>2. one = [ sizes |-> << >>, stream |-> stream[v], answers |-> << >> ]
    BY <1>3, <2>1 DEF Hear
  <2>3. DOMAIN one = {"sizes", "stream", "answers"} /\ one.sizes = << >>
        /\ one.stream = stream[v] /\ one.answers = << >>
    BY <2>2
  <2>4. << >> \in Seq(Message) /\ DOMAIN << >> = {}
    BY EmptySeq
  <2>. HIDE DEF one
  <2>. QED  BY <2>3, <2>4 DEF Vessels, Box, Bins, Told
<1>. HIDE DEF box
<1>4. Box(v, one) /\ (sent \in Seq(Request) => one.sizes = logs[v])
  <2>1. ASSUME sent \in Seq(Request), 1 \in kept PROVE sent[1] \in Request
    BY <2>1, ElementOfSeq, LenProperties
  <2>. QED  BY <1>2, <1>3, <2>1, Heard
<1>. HIDE DEF one
<1>5. ASSUME 2 \in kept PROVE sent[2] \in Request
  <2>1. CASE sent \in Seq(Request)
    BY <1>5, <2>1, ElementOfSeq, LenProperties
  <2>2. CASE sent \notin Seq(Request)
    BY <2>2 DEF Sendable, Request
  <2>. QED  BY <2>1, <2>2
<1>. QED  BY <1>1, <1>4, <1>5, Heard

(***************************************************************************)
(* Steps of the controller.                                                *)
(***************************************************************************)
LEMMA NothingChanges ==
  ASSUME NEW S, NEW T, NEW f \in [S -> T], NEW v, v \notin S, NEW e
  PROVE  [f EXCEPT ![v] = e] = f
OBVIOUS

LEMMA StepTaken ==
  ASSUME Vessels, NEW rest, Air(rest), NEW next, Flags(next), Sendable(next.out), Step(next, rest)
  PROVE  /\ ctl' = [next EXCEPT !.out = << >>] /\ ~ctl.died
         /\ Vessels' /\ Air(air')
         /\ \A w \in Vehicles : Told(rest[w], w, {logs'[w]}) => Told(air'[w], w, {logs'[w]})
         /\ \A w \in Vehicles : w # next.vehicle => logs'[w] = logs[w]
         /\ next.out \in Seq(Request) => logs' = logs
<1>. DEFINE v == next.vehicle
            done(kept) == Deliver(v, next.out, kept)
<1>1. PICK kept \in SUBSET DOMAIN next.out :
         /\ ctl' = [next EXCEPT !.out = << >>]
         /\ IF kept = {} THEN air' = rest /\ UNCHANGED << logs, stream >>
            ELSE /\ logs' = [logs EXCEPT ![v] = done(kept).sizes]
                 /\ stream' = [stream EXCEPT ![v] = done(kept).stream]
                 /\ air' = [rest EXCEPT ![v] = rest[v] \o done(kept).answers]
  BY DEF Step
<1>2. ~ctl.died
  BY DEF Step
<1>3. CASE kept = {} \/ v \notin Vehicles
  <2>1. air' = rest /\ logs' = logs /\ stream' = stream
    <3>1. CASE kept = {}
      BY <1>1, <3>1
    <3>2. CASE kept # {} /\ v \notin Vehicles
      <4>. HIDE DEF v, done
      <4>1. /\ [logs EXCEPT ![v] = done(kept).sizes] = logs
            /\ [stream EXCEPT ![v] = done(kept).stream] = stream
            /\ [rest EXCEPT ![v] = rest[v] \o done(kept).answers] = rest
        BY <3>2, NothingChanges DEF Vessels, Air
      <4>. QED  BY <1>1, <3>2, <4>1
    <3>. QED  BY <1>3, <3>1, <3>2
  <2>. QED  BY <1>1, <1>2, <2>1 DEF Vessels
<1>4. CASE kept # {} /\ v \in Vehicles
  <2>. DEFINE d == done(kept)
  <2>1. Box(v, d) /\ (next.out \in Seq(Request) => d.sizes = logs[v])
    BY <1>4, Delivered
  <2>2. /\ logs' = [logs EXCEPT ![v] = d.sizes]
        /\ stream' = [stream EXCEPT ![v] = d.stream]
        /\ air' = [rest EXCEPT ![v] = rest[v] \o d.answers]
    BY <1>1, <1>4
  <2>. HIDE DEF d, done
  <2>3. Vessels'
    <3>1. d.sizes \in {InitialLogs[v], << >>} /\ d.sizes \in Seq(Nat)
      BY <1>4, <2>1, LogsAssumption, EmptySeq DEF Box
    <3>2. logs' \in [Vehicles -> Seq(Nat)] /\ \A w \in Vehicles : logs'[w] \in {InitialLogs[w], << >>}
      BY <1>4, <2>2, <3>1 DEF Vessels
    <3>3. /\ stream' \in [Vehicles -> [ id : Int, ofs : Nat, count : Int ]]
          /\ \A w \in Vehicles : stream'[w] = IF w = v THEN d.stream ELSE stream[w]
      BY <1>4, <2>1, <2>2 DEF Vessels, Box
    <3>4. \A w \in Vehicles :
            stream'[w].count > 0 =>
               stream'[w].ofs + stream'[w].count <= SizeOf(InitialLogs[w], w, stream'[w].id)
      BY <2>1, <3>3 DEF Vessels, Box
    <3>. QED  BY <3>2, <3>3, <3>4 DEF Vessels
  <2>4. /\ d.answers \in Seq(Message) /\ Bins(d.answers, v)
        /\ Told(d.answers, v, Ever(v)) /\ Told(d.answers, v, {d.sizes})
    BY <2>1 DEF Box
  <2>. DEFINE more == rest[v] \o d.answers
  <2>5. /\ more \in Seq(Message) /\ Bins(more, v) /\ Told(more, v, Ever(v))
        /\ Told(rest[v], v, {d.sizes}) => Told(more, v, {d.sizes})
    BY <1>4, <2>4, ConcatKeeps DEF Air
  <2>. HIDE DEF more
  <2>6. /\ air' \in [Vehicles -> Seq(Message)]
        /\ \A w \in Vehicles : air'[w] = IF w = v THEN more ELSE rest[w]
    BY <1>4, <2>2, <2>5 DEF Air, more
  <2>7. \A w \in Vehicles : logs'[w] = IF w = v THEN d.sizes ELSE logs[w]
    BY <1>4, <2>2 DEF Vessels
  <2>8. Air(air')
    BY <2>5, <2>6 DEF Air
  <2>9. \A w \in Vehicles : Told(rest[w], w, {logs'[w]}) => Told(air'[w], w, {logs'[w]})
    BY <2>5, <2>6, <2>7
  <2>10. ASSUME next.out \in Seq(Request) PROVE logs' = logs
    <3>1. d.sizes = logs[v]
      BY <2>1, <2>10
    <3>. QED  BY <2>2, <3>1 DEF Vessels
  <2>. QED  BY <1>1, <1>2, <2>3, <2>7, <2>8, <2>9, <2>10
<1>. QED  BY <1>3, <1>4

\* What a step has sent is gone.
LEMMA SentIsGone ==
  ASSUME NEW s, Flags(s), NEW t, t = [s EXCEPT !.out = << >>]
  PROVE  /\ SameFlags(s, t) /\ SameList(s, t) /\ SameData(s, t) /\ t.out = << >>
         /\ Flags(t) /\ \A gone : WatchedBut(s, gone) => WatchedBut(t, gone)
         /\ (Saved(s) => Saved(t)) /\ (Noted(s) => Noted(t))
         /\ (List(s) => List(t)) /\ (Data(s) => Data(t)) /\ (Waits(s) => Waits(t))
         /\ \A sizes : ListedAs(s, sizes) => ListedAs(t, sizes)
<1>1. SameFlags(s, t) /\ SameList(s, t) /\ SameData(s, t) /\ t.out = << >>
  BY DEF Flags, Fields, SameFlags, SameList, SameData
<1>2. Flags(t) /\ \A gone : WatchedBut(s, gone) => WatchedBut(t, gone)
  BY <1>1, FlagsStay
<1>. QED
  BY <1>1, <1>2 DEF Saved, Noted, List, Data, Written, Waits, LogComplete, ChunkComplete, ListedAs,
                    SameFlags, SameList, SameData

\* A step that erases nothing keeps the invariant if the handler does.
LEMMA Kept ==
  ASSUME TransferInv, Flags(ctl), NEW next, NEW rest, Step(next, rest), stale' = stale, Air(rest),
         Flags(next), next.out \in Seq(Request), Saved(next),
         List(next), Data(next), Waits(next),
         ListedAs(next, InitialLogs), ~stale => Honest(next, rest, logs)
  PROVE  /\ TransferInv' /\ Flags(ctl)' /\ (WatchedBut(next, left') => Watched(ctl)')
         /\ Busy(ctl') = Busy(next) /\ ctl'.vehicle = next.vehicle
<1>1. /\ ctl' = [next EXCEPT !.out = << >>]
      /\ Vessels' /\ Air(air') /\ logs' = logs
      /\ \A w \in Vehicles : Told(rest[w], w, {logs'[w]}) => Told(air'[w], w, {logs'[w]})
  BY StepTaken DEF TransferInv, Sendable
<1>2. /\ SameFlags(next, ctl') /\ SameList(next, ctl') /\ SameData(next, ctl') /\ ctl'.out = << >>
      /\ Flags(ctl') /\ (WatchedBut(next, left') => WatchedBut(ctl', left'))
      /\ (Saved(next) => Saved(ctl')) /\ (Noted(next) => Noted(ctl'))
      /\ (List(next) => List(ctl')) /\ (Data(next) => Data(ctl')) /\ (Waits(next) => Waits(ctl'))
      /\ \A sizes : ListedAs(next, sizes) => ListedAs(ctl', sizes)
  BY <1>1, SentIsGone
<1>3. ~stale' => Honest(ctl', air', logs')
  BY <1>1, <1>2 DEF Honest
<1>4. TransferInv'
  BY <1>1, <1>2, <1>3 DEF TransferInv
<1>. QED  BY <1>2, <1>4 DEF SameFlags, Busy, Watched

(***************************************************************************)
(* The user and the vehicle that is chosen.                                *)
(***************************************************************************)
LEMMA Refreshed ==
  ASSUME NEW s, Flags(s), List(s), Data(s), s.data = NoData, ~Busy(s), s.vehicle # NoVehicle,
         NEW t, t = Refresh(s)
  PROVE  /\ Flags(t) /\ (Watched(s) => Watched(t)) /\ List(t) /\ Data(t) /\ Waits(t)
         /\ t.saved = s.saved /\ Noted(t) /\ \A sizes : ListedAs(t, sizes)
         /\ \E m \in ListRequest : t.out = Append(s.out, m)
<1>. DEFINE u == [s EXCEPT !.entries = << >>, !.refused = FALSE, !.cut = FALSE]
<1>1. /\ SameFlags(s, u) /\ u.entries = << >> /\ u.apmOneBased = s.apmOneBased /\ u.out = s.out
      /\ u.data = s.data /\ u.freed = s.freed /\ u.torn = s.torn /\ u.saved = s.saved
      /\ u.refused = FALSE
  BY DEF Flags, Fields, SameFlags
<1>. HIDE DEF u
<1>2. DOMAIN u.entries = {} /\ 0 .. 0 - 1 = {} /\ 0 \in Nat
  BY <1>1
<1>3. List(u) /\ Data(u) /\ \A sizes : ListedAs(u, sizes)
  <2>1. List(u)
    BY <1>1, <1>2 DEF List, SameFlags
  <2>. QED  BY <1>1, <1>2, <2>1 DEF Data, ListedAs
<1>4. Flags(u) /\ (Watched(s) => Watched(u)) /\ ~u.downloading /\ u.vehicle # NoVehicle
  BY <1>1, FlagsStay DEF SameFlags, Busy
<1>5. t = RequestLogList(u, 0, 49)
  BY DEF Refresh, u
<1>6. /\ Flags(t) /\ (Watched(u) => Watched(t)) /\ SameList(u, t) /\ SameData(u, t)
      /\ ~t.downloading /\ \E m \in ListRequest : t.out = Append(u.out, m)
  BY <1>4, <1>5, ListRequested
<1>7. Restyled(u, t)
  BY <1>3, <1>6, SameIsRestyled
<1>8. List(t) /\ Data(t) /\ \A sizes : ListedAs(t, sizes)
  BY <1>3, <1>6, <1>7, RestyledIsListed, RestyledKeepsData
<1>9. Waits(t)
  BY <1>1, <1>2, <1>6 DEF Waits, SameList, SameData
<1>10. Noted(t)
  BY <1>2, <1>6 DEF Noted, SameList
<1>. QED  BY <1>1, <1>4, <1>6, <1>8, <1>9, <1>10 DEF SameData

\* Entries that only change their status or selection.
WithEntries(s, entries) == [s EXCEPT !.entries = entries]

LEMMA Marked ==
  ASSUME NEW s, NEW entries, NEW t, t = WithEntries(s, entries), Flags(s), List(s), Data(s),
         DOMAIN entries = DOMAIN s.entries,
         \A i \in DOMAIN entries :
            /\ entries[i] \in EntryType
            /\ entries[i].size = s.entries[i].size /\ entries[i].received = s.entries[i].received
            /\ entries[i].status \in {s.entries[i].status, "Waiting"}
  PROVE  /\ Flags(t) /\ (Watched(s) => Watched(t)) /\ List(t) /\ Data(t)
         /\ SameFlags(s, t) /\ SameData(s, t) /\ Restyled(s, t)
         /\ t.out = s.out /\ t.entries = entries
<1>1. /\ SameFlags(s, t) /\ SameData(s, t) /\ t.out = s.out /\ t.entries = entries
      /\ t.apmOneBased = s.apmOneBased /\ t.cut = s.cut
  BY DEF WithEntries, Flags, Fields, SameFlags, SameData
<1>2. Flags(t) /\ (Watched(s) => Watched(t))
  BY <1>1, FlagsStay
<1>3. Restyled(s, t)
  BY <1>1 DEF Restyled, SameFlags
<1>. QED  BY <1>1, <1>2, <1>3, RestyledIsListed, RestyledKeepsData

\* The entries chosen by the user.
Choice(s, chosen) ==
    [s EXCEPT !.entries = [i \in DOMAIN @ |-> [@[i] EXCEPT !.selected = i \in chosen]]]

LEMMA Chosen ==
  ASSUME NEW s, Ctl(s), ~Busy(s), NEW chosen, NEW t, t = Choice(s, chosen)
  PROVE  Handled(s, t) /\ Restyled(s, t) /\ t.saved = s.saved /\ ~Busy(t)
<1>. DEFINE entries == [i \in DOMAIN s.entries |-> [s.entries[i] EXCEPT !.selected = (i \in chosen)]]
<1>1. t = WithEntries(s, entries) /\ Flags(s) /\ List(s) /\ Data(s) /\ Quiet(s)
  BY QuietIs DEF Choice, WithEntries, Ctl, Flags, Fields, Busy
<1>2. ASSUME NEW i \in DOMAIN entries
      PROVE  /\ entries[i] \in EntryType
             /\ entries[i].size = s.entries[i].size /\ entries[i].received = s.entries[i].received
             /\ entries[i].status = s.entries[i].status
  <2>1. entries[i] = [s.entries[i] EXCEPT !.selected = (i \in chosen)] /\ i \in DOMAIN s.entries
    OBVIOUS
  <2>2. s.entries[i] \in EntryType /\ (i \in chosen) \in BOOLEAN
    BY <1>1 DEF List
  <2>. HIDE DEF entries
  <2>. QED  BY <2>1, <2>2 DEF EntryType
<1>3. DOMAIN entries = DOMAIN s.entries
  OBVIOUS
<1>. HIDE DEF entries
<1>4. /\ Flags(t) /\ (Watched(s) => Watched(t)) /\ List(t) /\ Data(t)
      /\ SameFlags(s, t) /\ SameData(s, t) /\ Restyled(s, t)
      /\ t.out = s.out /\ t.entries = entries
  <2>1. t = WithEntries(s, entries) /\ Flags(s) /\ List(s) /\ Data(s)
    BY <1>1
  <2>2. \A i \in DOMAIN entries :
           /\ entries[i] \in EntryType
           /\ entries[i].size = s.entries[i].size /\ entries[i].received = s.entries[i].received
           /\ entries[i].status \in {s.entries[i].status, "Waiting"}
    BY <1>2
  <2>. QED  BY <1>3, <2>1, <2>2, Marked
<1>5. Quiet(t)
  BY <1>1, <1>2, <1>3, <1>4 DEF Quiet, SameFlags, SameData
<1>. QED  BY <1>4, <1>5, QuietIs DEF Handled, Ctl, SameData, SameFlags, Busy

LEMMA Begun ==
  ASSUME NEW s, Ctl(s), ~Busy(s), NEW created \in BOOLEAN, NEW t, t = DownloadToDirectory(s, created)
  PROVE  Handled(s, t) /\ Restyled(s, t) /\ t.saved = s.saved
<1>. DEFINE over    == ReceivedAllEntries(s)
            stopped == NoDownload(over)
            entries == [i \in DOMAIN stopped.entries |->
                          IF stopped.entries[i].selected
                          THEN [stopped.entries[i] EXCEPT !.status = "Waiting"]
                          ELSE stopped.entries[i]]
            waiting == WithEntries(stopped, entries)
            begun   == SetDownloading(waiting, TRUE)
<1>1. Quiet(s)
  BY QuietIs DEF Ctl, Busy
<1>2. Handled(s, over) /\ Restyled(s, over) /\ Quiet(over) /\ over.saved = s.saved /\ ~over.listing
  <2>1. ~over.listing
    BY EntriesOver DEF Ctl
  <2>. QED  BY <1>1, <2>1, EntriesOverHandled
<1>. HIDE DEF over
<1>3. /\ SameFlags(over, stopped) /\ SameList(over, stopped) /\ stopped.out = over.out
      /\ stopped.data = NoData /\ stopped.saved = over.saved /\ stopped.refused = over.refused
      /\ Data(stopped)
  BY <1>2, DownloadDropped DEF Handled, Ctl
<1>. HIDE DEF stopped
<1>4. /\ Flags(stopped) /\ (Watched(over) => Watched(stopped)) /\ Restyled(over, stopped)
      /\ List(stopped)
  BY <1>2, <1>3, FlagsStay, SameIsRestyled, RestyledIsListed DEF Handled, Ctl
<1>5. ASSUME NEW i \in DOMAIN entries
      PROVE  /\ entries[i] \in EntryType
             /\ entries[i].size = stopped.entries[i].size
             /\ entries[i].received = stopped.entries[i].received
             /\ entries[i].selected = stopped.entries[i].selected
             /\ ~entries[i].selected => entries[i].status = stopped.entries[i].status
             /\ entries[i].status \in {stopped.entries[i].status, "Waiting"}
  <2>1. /\ i \in DOMAIN stopped.entries
        /\ entries[i] = IF stopped.entries[i].selected
                        THEN [stopped.entries[i] EXCEPT !.status = "Waiting"]
                        ELSE stopped.entries[i]
    OBVIOUS
  <2>2. stopped.entries[i] \in EntryType /\ "Waiting" \in Statuses
    BY <1>4, <2>1 DEF List, Statuses
  <2>. HIDE DEF entries
  <2>. QED  BY <2>1, <2>2 DEF EntryType
<1>6. DOMAIN entries = DOMAIN stopped.entries
  OBVIOUS
<1>. HIDE DEF entries
<1>7. /\ Flags(waiting) /\ (Watched(stopped) => Watched(waiting)) /\ List(waiting) /\ Data(waiting)
      /\ SameFlags(stopped, waiting) /\ SameData(stopped, waiting) /\ Restyled(stopped, waiting)
      /\ waiting.out = stopped.out /\ waiting.entries = entries
  BY <1>3, <1>4, <1>5, <1>6, Marked
<1>. HIDE DEF waiting
<1>8. ~waiting.listing
  BY <1>2, <1>3, <1>7 DEF SameFlags
<1>9. /\ Flags(begun) /\ (Watched(waiting) => Watched(begun))
      /\ SameList(waiting, begun) /\ SameData(waiting, begun) /\ begun.out = waiting.out
      /\ begun.downloading = TRUE
  BY <1>7, <1>8, DownloadingSet
<1>. HIDE DEF begun
<1>10. Restyled(waiting, begun) /\ List(begun) /\ Data(begun)
  BY <1>7, <1>9, SameIsRestyled, RestyledIsListed, RestyledKeepsData
<1>11. Queued(begun)
  BY <1>2, <1>3, <1>5, <1>6, <1>7, <1>9 DEF Queued, Quiet, SameList, SameData
<1>12. /\ begun.out \in Seq(Request) /\ begun.saved = s.saved /\ (Watched(s) => Watched(begun))
       /\ Restyled(s, begun)
  <2>1. begun.out \in Seq(Request) /\ begun.saved = s.saved
    BY <1>2, <1>3, <1>7, <1>9 DEF Handled, Ctl, SameData
  <2>2. Watched(s) => Watched(begun)
    BY <1>2, <1>4, <1>7, <1>9 DEF Handled
  <2>. QED  BY <1>2, <1>4, <1>7, <1>10, <2>1, <2>2, RestyledTwice
<1>13. t = ReceivedAllData(begun, created)
  <2>1. DOMAIN stopped = Fields
    BY <1>4 DEF Flags
  <2>. QED  BY <2>1 DEF DownloadToDirectory, WithEntries, over, stopped, entries, waiting, begun
<1>14. Handled(begun, t) /\ Restyled(begun, t) /\ t.saved = begun.saved
  BY <1>9, <1>10, <1>11, <1>12, <1>13, AllDataReceived
<1>. QED  BY <1>12, <1>14, RestyledTwice DEF Handled

LEMMA Canceled ==
  ASSUME NEW s, Ctl(s), NEW t, t = Cancel(s)
  PROVE  Handled(s, t) /\ Restyled(s, t) /\ t.saved = s.saved /\ (s.listing => t.cut)
<1>. DEFINE stopped == IF s.vehicle = NoVehicle THEN s ELSE ReceivedAllEntries(s)
            marked  == SetStatus(stopped, "Canceled")
            dropped == IF s.data = NoData THEN stopped ELSE NoDownload(marked)
            marking == [dropped EXCEPT !.cut = @ \/ s.listing]
            reset   == ResetSelection(marking, TRUE)
<1>1. t = SetDownloading(reset, FALSE)
  BY DEF Cancel
<1>2. /\ Flags(stopped) /\ (Watched(s) => Watched(stopped))
      /\ SameList(s, stopped) /\ SameData(s, stopped) /\ stopped.out = s.out
      /\ stopped.downloading = s.downloading
  BY EntriesOver DEF Ctl, SameList, SameData
<1>. HIDE DEF stopped
<1>3. Restyled(s, stopped) /\ List(stopped) /\ Data(stopped)
  BY <1>2, SameIsRestyled, RestyledIsListed, RestyledKeepsData DEF Ctl
<1>4. \A i \in DOMAIN stopped.entries :
         stopped.entries[i].status = "Waiting" /\ ~stopped.refused =>
            /\ stopped.data # NoData
            /\ stopped.entries[i].selected \/ stopped.data.id = i
  BY <1>2 DEF Ctl, Waits, SameList, SameData
<1>5. /\ Flags(dropped) /\ (Watched(s) => Watched(dropped)) /\ Restyled(s, dropped)
      /\ List(dropped) /\ Data(dropped) /\ dropped.out = s.out /\ dropped.saved = s.saved
      /\ dropped.data = NoData /\ Queued(dropped)
  <2>1. CASE s.data = NoData
    <3>1. dropped = stopped
      BY <2>1
    <3>. QED  BY <1>2, <1>3, <1>4, <2>1, <3>1 DEF Queued, SameData
  <2>2. CASE s.data # NoData
    <3>1. "Canceled" \in Statuses \ {"Pending"} /\ stopped.data # NoData
      BY <1>2, <2>2 DEF Statuses, SameData
    <3>2. /\ SameFlags(stopped, marked) /\ Restyled(stopped, marked) /\ SameData(stopped, marked)
          /\ marked.out = stopped.out
          /\ \A i \in DOMAIN stopped.entries :
               /\ marked.entries[i].selected = stopped.entries[i].selected
               /\ marked.entries[i].status =
                     IF i = stopped.data.id THEN "Canceled" ELSE stopped.entries[i].status
      BY <1>2, <1>3, <3>1, StatusSet
    <3>. HIDE DEF marked
    <3>3. /\ Flags(marked) /\ (Watched(stopped) => Watched(marked))
          /\ List(marked) /\ Data(marked)
      BY <1>2, <1>3, <3>2, FlagsStay, RestyledIsListed, RestyledKeepsData
    <3>4. dropped = NoDownload(marked)
      BY <2>2 DEF marked
    <3>. HIDE DEF dropped
    <3>5. /\ SameFlags(marked, dropped) /\ SameList(marked, dropped) /\ dropped.out = marked.out
          /\ dropped.data = NoData /\ dropped.saved = marked.saved
          /\ dropped.refused = marked.refused /\ Data(dropped)
      BY <3>3, <3>4, DownloadDropped
    <3>6. /\ Flags(dropped) /\ (Watched(marked) => Watched(dropped)) /\ Restyled(marked, dropped)
          /\ List(dropped)
      BY <3>3, <3>5, FlagsStay, SameIsRestyled, RestyledIsListed
    <3>7. Restyled(s, dropped)
      BY <1>3, <3>2, <3>6, RestyledTwice
    <3>8. Queued(dropped)
      BY <1>4, <3>2, <3>5 DEF Queued, Restyled, SameList, SameData
    <3>. QED  BY <1>2, <3>2, <3>3, <3>5, <3>6, <3>7, <3>8 DEF SameData
  <2>. QED  BY <2>1, <2>2
<1>. HIDE DEF dropped
<1>6. /\ SameFlags(dropped, marking) /\ SameData(dropped, marking) /\ marking.out = dropped.out
       /\ marking.vehicle = dropped.vehicle /\ marking.entries = dropped.entries
       /\ marking.apmOneBased = dropped.apmOneBased
       /\ (dropped.cut => marking.cut) /\ (s.listing => marking.cut)
  <2>1. marking = [dropped EXCEPT !.cut = dropped.cut \/ s.listing]
    BY <1>5 DEF Flags, Fields
  <2>2. marking.cut = (dropped.cut \/ s.listing)
    BY <1>5, <2>1 DEF Flags, Fields
  <2>3. /\ SameFlags(dropped, marking) /\ SameData(dropped, marking) /\ marking.out = dropped.out
        /\ marking.vehicle = dropped.vehicle /\ marking.entries = dropped.entries
        /\ marking.apmOneBased = dropped.apmOneBased
    BY <1>5, <2>1 DEF Flags, Fields, SameFlags, SameData
  <2>. QED  BY <2>2, <2>3
<1>. HIDE DEF marking
<1>7. Restyled(dropped, marking)
  BY <1>5, <1>6 DEF Restyled, List
<1>8. /\ Flags(marking) /\ (Watched(dropped) => Watched(marking)) /\ List(marking) /\ Data(marking)
       /\ Queued(marking)
  BY <1>5, <1>6, <1>7, FlagsStay, RestyledIsListed, RestyledKeepsData DEF Queued, SameData
<1>9. /\ SameFlags(marking, reset) /\ Restyled(marking, reset) /\ SameData(marking, reset)
      /\ reset.out = marking.out
      /\ \A i \in DOMAIN marking.entries :
           reset.entries[i].status = IF marking.entries[i].selected THEN "Canceled"
                                     ELSE marking.entries[i].status
  BY <1>8, SelectionReset
<1>. HIDE DEF reset
<1>10. /\ Flags(reset) /\ (Watched(marking) => Watched(reset)) /\ List(reset) /\ Data(reset)
      /\ \A i \in DOMAIN reset.entries : reset.entries[i].status = "Waiting" => reset.refused
  BY <1>9, <1>8, FlagsStay, RestyledIsListed, RestyledKeepsData DEF Queued, Restyled, SameData
<1>11. /\ Flags(t) /\ (Watched(reset) => Watched(t))
      /\ SameList(reset, t) /\ SameData(reset, t) /\ t.out = reset.out /\ t.downloading = FALSE
  BY <1>1, <1>10, DownloadingSet
<1>12. Restyled(reset, t) /\ List(t) /\ Data(t)
  BY <1>10, <1>11, SameIsRestyled, RestyledIsListed, RestyledKeepsData
<1>13. Waits(t)
  BY <1>5, <1>9, <1>10, <1>11, <1>6, NothingWaits DEF SameList, SameData
<1>14. Restyled(s, t) /\ t.saved = s.saved /\ t.out \in Seq(Request)
  <2>1. Restyled(s, t)
    BY <1>5, <1>9, <1>12, <1>7, RestyledTwice
  <2>. QED  BY <1>5, <1>9, <1>11, <1>6, <2>1 DEF Ctl, SameData
<1>15. s.listing => t.cut
  BY <1>9, <1>12, <1>6 DEF Restyled
<1>. QED  BY <1>5, <1>10, <1>11, <1>12, <1>13, <1>14, <1>8, <1>15 DEF Handled, Ctl

\* Another vehicle, or none, is chosen, in the middle of a transfer or not.
LEMMA VehicleChanged ==
  ASSUME NEW s, Ctl(s), NEW v \in Vehicles \cup {NoVehicle}, NEW t, t = SetActiveVehicle(s, v)
  PROVE  /\ Ctl(t) /\ (Watched(s) => WatchedBut(t, left \cup Concerned(s))) /\ (Busy(t) => Busy(s))
         /\ t.saved = s.saved /\ Noted(t) /\ \A sizes : ListedAs(t, sizes)
<1>1. /\ t.vehicle = v /\ t.freed = (s.freed \/ s.data # NoData)
      /\ t.entries = IF s.vehicle = NoVehicle THEN s.entries ELSE << >>
      /\ t.data = s.data /\ t.torn = s.torn /\ t.saved = s.saved /\ t.refused = s.refused
      /\ t.listing = s.listing /\ t.downloading = s.downloading /\ t.died = s.died
      /\ t.unwatched = s.unwatched /\ t.apmOneBased = s.apmOneBased /\ t.out = s.out
      /\ DOMAIN t = DOMAIN s
  BY DEF SetActiveVehicle, Ctl, Flags, Fields
<1>2. DOMAIN t.entries = {} /\ 0 .. 0 - 1 = {} /\ 0 \in Nat
  BY <1>1 DEF Ctl, List
<1>3. Flags(t) /\ List(t) /\ \A sizes : ListedAs(t, sizes)
  BY <1>1, <1>2 DEF Ctl, Flags, List, ListedAs
<1>4. Data(t)
  BY <1>1, <1>2 DEF Ctl, Data
<1>5. Waits(t)
  BY <1>1, <1>2 DEF Ctl, Waits
<1>6. Watched(s) => WatchedBut(t, left \cup Concerned(s))
  BY <1>1 DEF Watched, WatchedBut, Concerned, Busy
<1>. QED  BY <1>1, <1>2, <1>3, <1>4, <1>5, <1>6 DEF Ctl, Busy, Noted

\* The controller of the next page.
LeavesBut(t, unwatched) == \A gone : unwatched \subseteq gone => WatchedBut(t, gone)

Fresh(t, v, unwatched) ==
    \/ t = [NewController(v) EXCEPT !.unwatched = unwatched]
    \/ t = NewController(v) /\ unwatched = {}

LEMMA NewInOrder ==
  ASSUME NEW v \in Vehicles \cup {NoVehicle}, NEW unwatched, NEW t, Fresh(t, v, unwatched)
  PROVE  /\ Ctl(t) /\ LeavesBut(t, unwatched) /\ ~Busy(t) /\ Saved(t)
         /\ t.out = << >> /\ Noted(t)
         /\ \A sizes : ListedAs(t, sizes)
<1>1. /\ t.vehicle = v /\ t.entries = << >> /\ t.data = NoData /\ t.freed = FALSE
      /\ t.listing = FALSE /\ t.downloading = FALSE /\ t.apmOneBased = 0
      /\ t.unwatched = unwatched /\ t.out = << >> /\ t.died = FALSE /\ t.saved = NothingSaved
      /\ t.torn = FALSE /\ t.refused = FALSE /\ DOMAIN t = Fields
  <2>1. CASE t = [NewController(v) EXCEPT !.unwatched = unwatched]
    BY <2>1 DEF NewController, Fields
  <2>2. CASE t = NewController(v) /\ unwatched = {}
    BY <2>2 DEF NewController, Fields
  <2>. QED  BY <2>1, <2>2 DEF Fresh
<1>2. DOMAIN t.entries = {} /\ 0 .. 0 - 1 = {} /\ 0 \in Nat
  BY <1>1
<1>3. Flags(t) /\ List(t) /\ \A sizes : ListedAs(t, sizes)
  BY <1>1, <1>2 DEF Flags, List, ListedAs
<1>4. Data(t) /\ Waits(t)
  BY <1>1, <1>2 DEF Data, Waits
<1>5. t.out \in Seq(Request)
  BY <1>1, EmptySeq
<1>. QED  BY <1>1, <1>2, <1>3, <1>4, <1>5
      DEF Ctl, LeavesBut, WatchedBut, Concerned, Busy, Saved, Noted

(***************************************************************************)
(* The invariant.                                                          *)
(***************************************************************************)
LEMMA Ready ==
  ASSUME IInv, NEW next, NEW rest, Step(next, rest)
  PROVE  Ctl(ctl) /\ ~ctl.died
<1>1. ~ctl.died
  BY DEF Step
<1>. QED  BY <1>1, EmptySeq DEF IInv, FlagsInv, TransferInv, Ctl

\* A step that only restyles the entries and takes nothing from the air.
LEMMA Restyles ==
  ASSUME IInv, NEW next, NEW rest, Step(next, rest), stale' = stale, Handled(ctl, next),
         Restyled(ctl, next), Saved(next), Air(rest),
         ~stale => \A v \in Vehicles : Told(rest[v], v, {logs[v]}),
         Noted(ctl) => Noted(next), left' = left
  PROVE  TransferInv' /\ Flags(ctl)' /\ (Watched(ctl) => Watched(ctl)') /\ Busy(ctl') = Busy(next)
<1>1. Ctl(ctl) /\ TransferInv /\ Flags(ctl)
  BY Ready DEF IInv, FlagsInv
<1>2. \A sizes : ListedAs(ctl, sizes) => ListedAs(next, sizes)
  BY <1>1, RestyledIsListed DEF Ctl
<1>3. /\ Flags(next) /\ next.out \in Seq(Request) /\ List(next) /\ Data(next) /\ Waits(next)
      /\ (Watched(ctl) => Watched(next))
  BY DEF Handled, Ctl
<1>4. ListedAs(next, InitialLogs) /\ (~stale => Honest(next, rest, logs))
  BY <1>1, <1>2 DEF TransferInv, Honest
<1>. QED  BY <1>1, <1>3, <1>4, Kept DEF Watched

\* The program ends.
LEMMA Ends ==
  ASSUME IInv, NEW rest, Step([ctl EXCEPT !.died = TRUE], rest), stale' = stale, Air(rest),
         ~stale => \A v \in Vehicles : Told(rest[v], v, {logs[v]}), left' = left
  PROVE  TransferInv' /\ Flags(ctl)' /\ Watched(ctl)' /\ Busy(ctl') = Busy(ctl)
<1>. DEFINE next == [ctl EXCEPT !.died = TRUE]
<1>1. TransferInv /\ Flags(ctl)
  BY DEF IInv, FlagsInv
<1>2. /\ SameList(ctl, next) /\ SameData(ctl, next) /\ next.out = << >> /\ next.died = TRUE
      /\ next.listing = ctl.listing /\ next.downloading = ctl.downloading
      /\ Flags(next)
  BY <1>1 DEF Flags, Fields, SameList, SameData, TransferInv
<1>. HIDE DEF next
<1>5. List(next) /\ Data(next) /\ Waits(next)
  <2>1. Restyled(ctl, next)
    BY <1>1, <1>2, SameIsRestyled DEF TransferInv
  <2>2. Waits(next)
    BY <1>1, <1>2 DEF TransferInv, Waits, LogComplete, ChunkComplete, SameList, SameData
  <2>. QED  BY <1>1, <1>2, <2>1, <2>2, RestyledIsListed, RestyledKeepsData DEF TransferInv
<1>3. Step(next, rest)
  BY DEF next
<1>4. /\ WatchedBut(next, left') /\ Saved(next) /\ next.out \in Seq(Request) /\ Busy(next) = Busy(ctl)
      /\ ListedAs(next, InitialLogs) /\ (~stale => Honest(next, rest, logs))
  BY <1>1, <1>2, EmptySeq
     DEF TransferInv, WatchedBut, Saved, ListedAs, Noted, Honest, SameList, SameData, Busy
<1>. QED  BY <1>1, <1>2, <1>3, <1>4, <1>5, Kept

LEMMA HeadIsGone ==
  ASSUME TransferInv, NEW v \in Vehicles, air[v] # << >>,
         NEW rest, rest = [air EXCEPT ![v] = Tail(air[v])]
  PROVE  /\ Air(rest) /\ (~stale => \A w \in Vehicles : Told(rest[w], w, {logs[w]}))
         /\ Head(air[v]) \in Message
         /\ Head(air[v]).kind = "entry" =>
               /\ Head(air[v]).num = 0 \/ EntryOk(v, Head(air[v]), InitialLogs[v])
               /\ ~stale => EntryOk(v, Head(air[v]), logs[v])
         /\ Head(air[v]).kind = "bin" =>
               Head(air[v]).ofs < SizeOf(InitialLogs[v], v, Head(air[v]).id)
<1>1. /\ air \in [Vehicles -> Seq(Message)]
      /\ \A w \in Vehicles : Bins(air[w], w) /\ Told(air[w], w, Ever(w))
      /\ ~stale => \A w \in Vehicles : Told(air[w], w, {logs[w]})
  BY DEF TransferInv, Air, Honest
<1>2. /\ Tail(air[v]) \in Seq(Message) /\ Head(air[v]) \in Message /\ 1 \in DOMAIN air[v]
      /\ Head(air[v]) = air[v][1]
      /\ Bins(air[v], v) => Bins(Tail(air[v]), v)
      /\ \A tables : Told(air[v], v, tables) => Told(Tail(air[v]), v, tables)
  BY <1>1, TailKeeps
<1>3. /\ rest \in [Vehicles -> Seq(Message)]
      /\ \A w \in Vehicles : rest[w] = IF w = v THEN Tail(air[v]) ELSE air[w]
  BY <1>1, <1>2
<1>. DEFINE m == Head(air[v])
<1>4. m.kind = "entry" => \E sizes \in Ever(v) : EntryOk(v, m, sizes)
  BY <1>1, <1>2 DEF Told
<1>5. m.kind = "entry" => m.num = 0 \/ EntryOk(v, m, InitialLogs[v])
  <2>1. \A sizes : EntryOk(v, m, sizes) => m.num = Len(sizes)
    BY DEF EntryOk
  <2>2. Len(<< >>) = 0
    OBVIOUS
  <2>. QED  BY <1>4, <2>1, <2>2 DEF Ever
<1>. HIDE DEF Message
<1>. QED  BY <1>1, <1>2, <1>3, <1>5 DEF Air, Bins, Told

LEMMA SizesAreRead ==
  ASSUME Ctl(ctl), NEW size \in Sizes
  PROVE  ctl.data # NoData => Read(ctl, size)
<1>1. CASE ctl.freed
  BY <1>1, LogBounds DEF Sizes, MaxSize, Read
<1>2. CASE ~ctl.freed /\ ctl.data # NoData
  <2>1. size = ctl.entries[ctl.data.id].size /\ ctl.data.id \in DOMAIN ctl.entries
    BY <1>2 DEF Sizes, Ctl, Data
  <2>2. ctl.entries[ctl.data.id] \in EntryType
    BY <2>1 DEF Ctl, List
  <2>. QED  BY <1>2, <2>1, <2>2 DEF Read, EntryType
<1>. QED  BY <1>1, <1>2

LEMMA ArrivesKeeps ==
  ASSUME IInv, NEW v \in Vehicles, Arrives(v)
  PROVE  IInv'
<1>. DEFINE m    == Head(air[v])
            rest == [air EXCEPT ![v] = Tail(air[v])]
<1>1. /\ air[v] # << >>
      /\ \/ m.kind = "entry" /\ Step(LogEntry(ctl, v, m), rest)
         \/ /\ m.kind = "bin"
            /\ \E size \in Sizes, disk \in Disks, created \in BOOLEAN :
                  Step(LogData(ctl, v, m, size, disk, created), rest)
         \/ m.kind = "bin" /\ ctl.freed /\ Step([ctl EXCEPT !.died = TRUE], air)
      /\ dialog' = dialog /\ left' = left /\ stale' = stale
  BY DEF Arrives, Dies
<1>2. FlagsInv /\ TransferInv
  BY DEF IInv
<1>3. /\ Air(rest) /\ (~stale => \A w \in Vehicles : Told(rest[w], w, {logs[w]}))
      /\ m \in Message
      /\ m.kind = "entry" => /\ m.num = 0 \/ EntryOk(v, m, InitialLogs[v])
                             /\ ~stale => EntryOk(v, m, logs[v])
      /\ m.kind = "bin" => m.ofs < SizeOf(InitialLogs[v], v, m.id)
  BY <1>1, <1>2, HeadIsGone
<1>. HIDE DEF m, rest
<1>4. SUFFICES /\ TransferInv' /\ Flags(ctl)' /\ (Watched(ctl) => Watched(ctl)')
               /\ Busy(ctl') => Busy(ctl)
  BY <1>1, <1>2 DEF IInv, FlagsInv
<1>5. CASE m.kind = "entry" /\ Step(LogEntry(ctl, v, m), rest)
  <2>. DEFINE next == LogEntry(ctl, v, m)
  <2>1. m.id \in Int /\ m.num \in Nat /\ m.size \in Nat
    BY <1>3, <1>5 DEF Message
  <2>2. Ctl(ctl)
    BY <1>5, Ready
  <2>3. /\ Handled(ctl, next) /\ next.saved = ctl.saved /\ (Busy(next) => Busy(ctl))
        /\ \A sizes : ListedAs(ctl, sizes) /\ (m.num = 0 \/ EntryOk(v, m, sizes[v])) =>
                      ListedAs(next, sizes)
        /\ Noted(ctl) /\ (v = ctl.vehicle /\ m.num = 0 => DOMAIN ctl.entries = {}) => Noted(next)
    BY <2>1, <2>2, EntryHeard
  <2>4. Step(next, rest)
    BY <1>5
  <2>. HIDE DEF next
  <2>5. /\ Flags(next) /\ next.out \in Seq(Request) /\ List(next) /\ Data(next) /\ Waits(next)
        /\ (Watched(ctl) => Watched(next)) /\ Saved(next)
    BY <1>2, <2>3 DEF Handled, Ctl, TransferInv, Saved
  <2>6. ListedAs(next, InitialLogs)
    BY <1>2, <1>3, <1>5, <2>3 DEF TransferInv
  <2>7. ASSUME ~stale PROVE Honest(next, rest, logs)
    <3>1. ListedAs(ctl, logs) /\ Noted(ctl) /\ EntryOk(v, m, logs[v])
      BY <1>2, <1>3, <1>5, <2>7 DEF TransferInv, Honest
    <3>2. ASSUME v = ctl.vehicle, m.num = 0 PROVE DOMAIN ctl.entries = {}
      BY <3>1, <3>2 DEF ListedAs, EntryOk
    <3>. QED  BY <1>3, <2>3, <2>7, <3>1, <3>2 DEF Honest
  <2>. QED  BY <1>1, <1>2, <1>3, <2>3, <2>4, <2>5, <2>6, <2>7, Kept DEF FlagsInv, Watched
<1>6. ASSUME m.kind = "bin", NEW size \in Sizes, NEW disk, NEW created \in BOOLEAN,
             Step(LogData(ctl, v, m, size, disk, created), rest)
      PROVE  /\ TransferInv' /\ Flags(ctl)' /\ (Watched(ctl) => Watched(ctl)')
             /\ Busy(ctl') => Busy(ctl)
  <2>. DEFINE next == LogData(ctl, v, m, size, disk, created)
  <2>1. m.ofs \in Nat /\ m.id \in Int
    BY <1>3, <1>6 DEF Message
  <2>2. Ctl(ctl)
    BY <1>6, Ready
  <2>3. ctl.data # NoData => Read(ctl, size)
    BY <2>2, SizesAreRead
  <2>4. ListedAs(ctl, InitialLogs) /\ Saved(ctl)
    BY <1>2 DEF TransferInv
  <2>5. /\ Handled(ctl, next) /\ Restyled(ctl, next) /\ Saved(next) /\ (Busy(next) => Busy(ctl))
        /\ Noted(ctl) => Noted(next)
    BY <1>3, <1>6, <2>1, <2>2, <2>3, <2>4, DataHeard
  <2>6. Step(next, rest)
    BY <1>6
  <2>. HIDE DEF next
  <2>. QED  BY <1>1, <1>3, <2>5, <2>6, Restyles
<1>7. CASE Step([ctl EXCEPT !.died = TRUE], air)
  <2>1. Air(air) /\ (~stale => \A w \in Vehicles : Told(air[w], w, {logs[w]}))
    BY <1>2 DEF TransferInv, Honest
  <2>. QED  BY <1>1, <1>7, <2>1, Ends
<1>. QED  BY <1>1, <1>5, <1>6, <1>7

LEMMA TimerKeeps ==
  ASSUME IInv, TimerFires
  PROVE  IInv'
<1>1. /\ \/ \E size \in Sizes, created \in BOOLEAN : Step(ProcessDownload(ctl, size, created), air)
         \/ Step([ctl EXCEPT !.died = TRUE], air)
      /\ dialog' = dialog /\ left' = left /\ stale' = stale
  BY DEF TimerFires, Dies
<1>2. FlagsInv /\ TransferInv /\ Air(air) /\ (~stale => \A w \in Vehicles : Told(air[w], w, {logs[w]}))
  BY DEF IInv, TransferInv, Honest
<1>3. SUFFICES /\ TransferInv' /\ Flags(ctl)' /\ (Watched(ctl) => Watched(ctl)')
               /\ Busy(ctl') => Busy(ctl)
  BY <1>1, <1>2 DEF IInv, FlagsInv
<1>4. ASSUME NEW size \in Sizes, NEW created \in BOOLEAN,
             Step(ProcessDownload(ctl, size, created), air)
      PROVE  /\ TransferInv' /\ Flags(ctl)' /\ (Watched(ctl) => Watched(ctl)')
             /\ Busy(ctl') => Busy(ctl)
  <2>. DEFINE next == ProcessDownload(ctl, size, created)
  <2>1. Ctl(ctl)
    BY <1>4, Ready
  <2>2. /\ Handled(ctl, next) /\ Restyled(ctl, next) /\ next.saved = ctl.saved
        /\ Busy(next) => Busy(ctl)
        /\ Noted(ctl) => Noted(next)
    <3>1. CASE ctl.listing
      <4>1. next = FindMissingEntries(ctl)
        BY <3>1 DEF ProcessDownload
      <4>. QED  BY <2>1, <3>1, <4>1, EntriesSought DEF Busy
    <3>2. CASE ~ctl.listing /\ ctl.downloading
      <4>1. next = FindMissingData(ctl, size, created)
        BY <3>2 DEF ProcessDownload
      <4>2. Read(ctl, size)
        BY <2>1, <3>2, SizesAreRead DEF Ctl, Waits
      <4>. QED  BY <2>1, <3>2, <4>1, <4>2, DataSought, NotedStays DEF Busy
    <3>3. CASE ~ctl.listing /\ ~ctl.downloading
      <4>1. next = ctl
        BY <3>3 DEF ProcessDownload
      <4>2. Restyled(ctl, ctl)
        BY <2>1, SameIsRestyled DEF Ctl, SameList
      <4>. QED  BY <2>1, <4>1, <4>2 DEF Handled
    <3>. QED  BY <3>1, <3>2, <3>3
  <2>3. Step(next, air)
    BY <1>4
  <2>. HIDE DEF next
  <2>4. Saved(next)
    BY <1>2, <2>2 DEF TransferInv, Saved
  <2>. QED  BY <1>1, <1>2, <2>2, <2>3, <2>4, Restyles
<1>5. CASE Step([ctl EXCEPT !.died = TRUE], air)
  BY <1>1, <1>2, <1>5, Ends
<1>. QED  BY <1>1, <1>4, <1>5

LEMMA UserKeeps ==
  ASSUME IInv, UserRefreshes \/ UserSelects \/ UserAsksToErase \/ UserDownloads \/ UserCancels
  PROVE  IInv'
<1>1. FlagsInv /\ TransferInv /\ Air(air) /\ (~stale => \A w \in Vehicles : Told(air[w], w, {logs[w]}))
  BY DEF IInv, TransferInv, Honest
<1>2. CASE UserRefreshes
  <2>1. /\ dialog = "none" /\ ~Busy(ctl) /\ ctl.vehicle # NoVehicle /\ Step(Refresh(ctl), air)
        /\ dialog' = dialog /\ left' = left /\ stale' = stale
    BY <1>2 DEF UserRefreshes, Idle
  <2>. DEFINE next == Refresh(ctl)
  <2>2. Ctl(ctl)
    BY <2>1, Ready
  <2>3. ctl.data = NoData
    BY <2>1, <2>2 DEF Ctl, Waits, Busy
  <2>4. /\ Flags(next) /\ (Watched(ctl) => Watched(next)) /\ List(next) /\ Data(next) /\ Waits(next)
        /\ next.saved = ctl.saved /\ Noted(next) /\ \A sizes : ListedAs(next, sizes)
        /\ \E m \in ListRequest : next.out = Append(ctl.out, m)
    BY <2>1, <2>2, <2>3, Refreshed DEF Ctl
  <2>5. Step(next, air)
    BY <2>1
  <2>. HIDE DEF next
  <2>6. next.out \in Seq(Request)
    BY <2>2, <2>4, OneMore DEF Ctl
  <2>7. Saved(next) /\ (~stale => Honest(next, air, logs))
    BY <1>1, <2>4 DEF TransferInv, Saved, Honest
  <2>8. TransferInv' /\ Flags(ctl)' /\ (Watched(next) => Watched(ctl)')
    BY <1>1, <2>1, <2>4, <2>5, <2>6, <2>7, Kept DEF FlagsInv, Watched
  <2>. QED  BY <1>1, <2>1, <2>4, <2>8 DEF IInv, FlagsInv
<1>3. CASE UserSelects
  <2>1. /\ ~Busy(ctl) /\ dialog' = "directory" /\ left' = left /\ stale' = stale
        /\ \E chosen : Step(Choice(ctl, chosen), air)
    BY <1>3 DEF UserSelects, Idle, Choice
  <2>2. PICK chosen : Step(Choice(ctl, chosen), air)
    BY <2>1
  <2>. DEFINE next == Choice(ctl, chosen)
  <2>3. Ctl(ctl)
    BY <2>2, Ready
  <2>4. Handled(ctl, next) /\ Restyled(ctl, next) /\ next.saved = ctl.saved /\ ~Busy(next)
    BY <2>1, <2>3, Chosen
  <2>5. Step(next, air)
    BY <2>2
  <2>. HIDE DEF next
  <2>6. Saved(next)
    BY <1>1, <2>4 DEF TransferInv, Saved
  <2>7. Noted(ctl) => Noted(next)
    BY <2>1, <2>4, NotedStays DEF Busy
  <2>8. TransferInv' /\ Flags(ctl)' /\ (Watched(ctl) => Watched(ctl)') /\ Busy(ctl') = Busy(next)
    BY <1>1, <2>1, <2>4, <2>5, <2>6, <2>7, Restyles
  <2>. QED  BY <1>1, <2>1, <2>4, <2>8 DEF IInv, FlagsInv
<1>4. CASE UserAsksToErase
  <2>1. ~Busy(ctl) /\ UNCHANGED << ctl, logs, stream, air, left, stale >>
    BY <1>4 DEF UserAsksToErase, Idle
  <2>. QED  BY <1>1, <2>1 DEF IInv, FlagsInv, TransferInv, Vessels, Watched
<1>5. CASE UserDownloads
  <2>1. /\ dialog = "directory" /\ dialog' = "none" /\ left' = left /\ stale' = stale
        /\ \E created \in BOOLEAN : Step(DownloadToDirectory(ctl, created), air)
    BY <1>5 DEF UserDownloads
  <2>2. PICK created \in BOOLEAN : Step(DownloadToDirectory(ctl, created), air)
    BY <2>1
  <2>. DEFINE next == DownloadToDirectory(ctl, created)
  <2>3. Ctl(ctl) /\ ~Busy(ctl)
    BY <1>1, <2>1, <2>2, Ready DEF FlagsInv
  <2>4. Handled(ctl, next) /\ Restyled(ctl, next) /\ next.saved = ctl.saved
    BY <2>3, Begun
  <2>5. Step(next, air)
    BY <2>2
  <2>. HIDE DEF next
  <2>6. Saved(next)
    BY <1>1, <2>4 DEF TransferInv, Saved
  <2>7. Noted(ctl) => Noted(next)
    BY <2>3, <2>4, NotedStays DEF Busy
  <2>8. TransferInv' /\ Flags(ctl)' /\ (Watched(ctl) => Watched(ctl)')
    BY <1>1, <2>1, <2>4, <2>5, <2>6, <2>7, Restyles
  <2>. QED  BY <1>1, <2>1, <2>8 DEF IInv, FlagsInv
<1>6. CASE UserCancels
  <2>1. /\ Busy(ctl) /\ dialog' = dialog /\ left' = left /\ stale' = stale
        /\ Step(Cancel(ctl), air) \/ Step([ctl EXCEPT !.died = TRUE], air)
    BY <1>6 DEF UserCancels, Dies
  <2>2. CASE Step(Cancel(ctl), air)
    <3>. DEFINE next == Cancel(ctl)
    <3>1. /\ Handled(ctl, next) /\ Restyled(ctl, next) /\ next.saved = ctl.saved
          /\ (ctl.listing => next.cut)
      BY <2>2, Ready, Canceled
    <3>2. Step(next, air)
      BY <2>2
    <3>. HIDE DEF next
    <3>3. Saved(next)
      BY <1>1, <3>1 DEF TransferInv, Saved
    <3>4. TransferInv' /\ Flags(ctl)' /\ (Watched(ctl) => Watched(ctl)')
      BY <1>1, <2>1, <3>1, <3>2, <3>3, NotedStays, Restyles
    <3>. QED  BY <1>1, <2>1, <3>4 DEF IInv, FlagsInv
  <2>3. CASE Step([ctl EXCEPT !.died = TRUE], air)
    <3>1. TransferInv' /\ Flags(ctl)' /\ Watched(ctl)' /\ Busy(ctl') = Busy(ctl)
      BY <1>1, <2>1, <2>3, Ends
    <3>. QED  BY <1>1, <2>1, <3>1 DEF IInv, FlagsInv
  <2>. QED  BY <2>1, <2>2, <2>3
<1>. QED  BY <1>2, <1>3, <1>4, <1>5, <1>6

LEMMA EraseKeeps ==
  ASSUME IInv, UserErases
  PROVE  IInv'
<1>1. FlagsInv /\ TransferInv /\ Air(air) /\ (~stale => \A w \in Vehicles : Told(air[w], w, {logs[w]}))
  BY DEF IInv, TransferInv, Honest
<1>2. /\ dialog = "erase" /\ dialog' = "none" /\ Step(EraseAll(ctl), air) /\ left' = left
      /\ stale' = (stale \/ \E v \in Vehicles : EntriesInAir(v))
  BY DEF UserErases
<1>. DEFINE next == EraseAll(ctl)
            sent == Send(ctl, [kind |-> "erase"])
<1>3. Ctl(ctl) /\ ~Busy(ctl) /\ ctl.data = NoData /\ ctl.out = << >>
  BY <1>1, <1>2, Ready DEF FlagsInv, TransferInv, Ctl, Waits, Busy
<1>4. /\ Flags(next) /\ (Watched(ctl) => Watched(next)) /\ List(next) /\ Data(next) /\ Waits(next)
      /\ Saved(next) /\ Sendable(next.out) /\ ListedAs(next, InitialLogs)
      /\ \/ next = ctl
         \/ Noted(next) /\ \A sizes : ListedAs(next, sizes)
  <2>1. CASE ctl.vehicle = NoVehicle
    <3>1. next = ctl
      BY <2>1 DEF EraseAll
    <3>. QED  BY <1>1, <1>3, <3>1 DEF Ctl, TransferInv, Sendable
  <2>2. CASE ctl.vehicle # NoVehicle
    <3>1. sent = [ctl EXCEPT !.out = << [kind |-> "erase"] >>]
      BY <1>3 DEF Send, Ctl, Flags, Fields
    <3>2. /\ SameFlags(ctl, sent) /\ SameList(ctl, sent) /\ SameData(ctl, sent)
          /\ sent.out = << [kind |-> "erase"] >>
      BY <1>3, <3>1 DEF Ctl, Flags, Fields, SameFlags, SameList, SameData
    <3>3. next = Refresh(sent)
      BY <2>2 DEF EraseAll
    <3>. HIDE DEF sent
    <3>4. Flags(sent) /\ (Watched(ctl) => Watched(sent)) /\ Restyled(ctl, sent)
      BY <1>3, <3>2, FlagsStay, SameIsRestyled DEF Ctl
    <3>5. List(sent) /\ Data(sent) /\ sent.data = NoData /\ ~Busy(sent) /\ sent.vehicle # NoVehicle
      BY <1>3, <2>2, <3>2, <3>4, RestyledIsListed, RestyledKeepsData
         DEF Ctl, SameFlags, SameData, Busy
    <3>6. /\ Flags(next) /\ (Watched(sent) => Watched(next)) /\ List(next) /\ Data(next)
          /\ Waits(next) /\ next.saved = sent.saved /\ Noted(next)
          /\ \A sizes : ListedAs(next, sizes)
          /\ \E m \in ListRequest : next.out = Append(sent.out, m)
      BY <3>3, <3>4, <3>5, Refreshed
    <3>. HIDE DEF next
    <3>7. Sendable(next.out)
      <4>1. PICK m \in ListRequest : next.out = Append(<< [kind |-> "erase"] >>, m)
        BY <3>2, <3>6
      <4>2. next.out = << [kind |-> "erase"], m >>
        BY <4>1, Pair
      <4>. QED  BY <4>2 DEF Sendable
    <3>8. Saved(next)
      BY <1>1, <3>2, <3>6 DEF Saved, SameData, TransferInv
    <3>. QED  BY <3>4, <3>6, <3>7, <3>8
  <2>. QED  BY <2>1, <2>2
<1>5. Step(next, air)
  BY <1>2
<1>. HIDE DEF next
<1>6. /\ ctl' = [next EXCEPT !.out = << >>] /\ Vessels' /\ Air(air')
      /\ \A w \in Vehicles : Told(air[w], w, {logs'[w]}) => Told(air'[w], w, {logs'[w]})
      /\ next.out \in Seq(Request) => logs' = logs
  BY <1>1, <1>4, <1>5, StepTaken DEF TransferInv
<1>7. /\ SameFlags(next, ctl') /\ ctl'.out = << >>
      /\ Flags(ctl') /\ (WatchedBut(next, left) => WatchedBut(ctl', left)) /\ Saved(ctl')
      /\ (Noted(next) => Noted(ctl'))
      /\ List(ctl') /\ Data(ctl') /\ Waits(ctl')
      /\ \A sizes : ListedAs(next, sizes) => ListedAs(ctl', sizes)
  BY <1>4, <1>6, SentIsGone
<1>8. ASSUME ~stale' PROVE Honest(ctl', air', logs')
  <2>1. ~stale /\ \A v \in Vehicles : ~EntriesInAir(v)
    BY <1>2, <1>8
  <2>2. \A w \in Vehicles : Told(air[w], w, {logs'[w]})
    BY <2>1 DEF Told, EntriesInAir
  <2>3. ListedAs(next, logs') /\ Noted(next)
    <3>1. CASE next = ctl
      <4>1. logs' = logs
        BY <1>3, <1>6, <3>1, EmptySeq
      <4>. QED  BY <1>1, <2>1, <3>1, <4>1 DEF TransferInv, Honest
    <3>2. CASE Noted(next) /\ \A sizes : ListedAs(next, sizes)
      BY <3>2
    <3>. QED  BY <1>4, <3>1, <3>2
  <2>. QED  BY <1>6, <1>7, <2>2, <2>3 DEF Honest
<1>9. stale' \in BOOLEAN
  BY <1>2
<1>. QED  BY <1>1, <1>2, <1>4, <1>6, <1>7, <1>8, <1>9 DEF IInv, FlagsInv, TransferInv, Watched

LEMMA ChangeKeeps ==
  ASSUME IInv, UserLeaves \/ \E v \in Vehicles \cup {NoVehicle} : ActiveVehicleChanges(v)
  PROVE  IInv'
<1>1. FlagsInv /\ TransferInv /\ Air(air) /\ (~stale => \A w \in Vehicles : Told(air[w], w, {logs[w]}))
  BY DEF IInv, TransferInv, Honest
<1>2. CASE UserLeaves
  <2>. DEFINE next == [NewController(ctl.vehicle) EXCEPT !.unwatched = ctl.unwatched]
  <2>1. /\ dialog = "none" /\ dialog' = dialog /\ stale' = stale
        /\ Step(next, air) /\ left' = left \cup Concerned(ctl)
    BY <1>2 DEF UserLeaves
  <2>2. Ctl(ctl) /\ ~ctl.died
    BY <2>1, Ready
  <2>3. /\ Ctl(next) /\ LeavesBut(next, ctl.unwatched) /\ ~Busy(next) /\ Saved(next)
        /\ Noted(next) /\ \A sizes : ListedAs(next, sizes)
    <3>1. Fresh(next, ctl.vehicle, ctl.unwatched) /\ ctl.vehicle \in Vehicles \cup {NoVehicle}
      BY <2>2 DEF Fresh, Ctl, Flags
    <3>. QED  BY <3>1, NewInOrder
  <2>. HIDE DEF next
  <2>4. /\ TransferInv' /\ Flags(ctl)' /\ (WatchedBut(next, left') => Watched(ctl)')
        /\ Busy(ctl') = Busy(next)
    BY <1>1, <2>1, <2>3, Kept DEF FlagsInv, Honest, Ctl
  <2>5. Watched(ctl)'
    <3>1. ctl.unwatched \subseteq left'
      BY <1>1, <2>1, <2>2 DEF FlagsInv, Watched, WatchedBut
    <3>2. WatchedBut(next, left')
      BY <2>3, <3>1 DEF LeavesBut
    <3>. QED  BY <2>4, <3>2
  <2>. QED  BY <1>1, <2>1, <2>4, <2>5 DEF IInv, FlagsInv
<1>3. ASSUME NEW v \in Vehicles \cup {NoVehicle}, ActiveVehicleChanges(v)
      PROVE  IInv'
  <2>. DEFINE next == SetActiveVehicle(ctl, v)
  <2>1. /\ dialog' = dialog /\ stale' = stale /\ Step(next, air) /\ left' = left \cup Concerned(ctl)
    BY <1>3 DEF ActiveVehicleChanges
  <2>2. Ctl(ctl)
    BY <2>1, Ready
  <2>3. /\ Ctl(next) /\ (Watched(ctl) => WatchedBut(next, left \cup Concerned(ctl)))
        /\ (Busy(next) => Busy(ctl))
        /\ next.saved = ctl.saved /\ Noted(next) /\ \A sizes : ListedAs(next, sizes)
    BY <2>2, VehicleChanged
  <2>. HIDE DEF next
  <2>4. Saved(next)
    BY <1>1, <2>3 DEF TransferInv, Saved
  <2>5. /\ TransferInv' /\ Flags(ctl)' /\ (WatchedBut(next, left') => Watched(ctl)')
        /\ Busy(ctl') = Busy(next)
    BY <1>1, <2>1, <2>3, <2>4, Kept DEF FlagsInv, Honest, Ctl
  <2>. QED  BY <1>1, <2>1, <2>3, <2>5 DEF IInv, FlagsInv
<1>. QED  BY <1>2, <1>3

LEMMA WorkerKeeps ==
  ASSUME IInv, NEW v \in Vehicles, LogDownloadWorker(v)
  PROVE  IInv'
<1>1. FlagsInv /\ TransferInv
  BY DEF IInv
<1>. DEFINE m   == [kind |-> "bin", id |-> stream[v].id, ofs |-> stream[v].ofs]
            all == Append(air[v], m)
<1>2. /\ stream[v].count > 0
      /\ air' = [air EXCEPT ![v] = all]
      /\ stream' = [stream EXCEPT ![v] = [stream[v] EXCEPT !.ofs = stream[v].ofs + 1,
                                                           !.count = stream[v].count - 1]]
      /\ UNCHANGED << ctl, dialog, logs, left, stale >>
  BY <1>1 DEF LogDownloadWorker, TransferInv, Vessels
<1>3. /\ stream[v].id \in Int /\ stream[v].ofs \in Nat /\ stream[v].count \in Int
      /\ stream[v].ofs + stream[v].count <= SizeOf(InitialLogs[v], v, stream[v].id)
      /\ SizeOf(InitialLogs[v], v, stream[v].id) \in Nat
  BY <1>1, <1>2, LogsAssumption, SizeIsNat DEF TransferInv, Vessels
<1>4. m \in Message /\ m.kind = "bin" /\ m.ofs < SizeOf(InitialLogs[v], v, m.id)
  BY <1>2, <1>3 DEF Message
<1>. HIDE DEF m
<1>5. /\ all \in Seq(Message) /\ Bins(all, v)
      /\ \A tables : Told(air[v], v, tables) => Told(all, v, tables)
  <2>1. air[v] \in Seq(Message) /\ Bins(air[v], v)
    BY <1>1 DEF TransferInv, Air
  <2>2. /\ all \in Seq(Message)
        /\ \A n \in DOMAIN all : (n \in DOMAIN air[v] /\ all[n] = air[v][n]) \/ all[n] = m
    BY <1>4, <2>1, AppendProperties, LenProperties
  <2>. HIDE DEF all
  <2>. QED  BY <1>4, <2>1, <2>2 DEF Bins, Told
<1>. HIDE DEF all
<1>6. Air(air') /\ (~stale' => Honest(ctl', air', logs'))
  <2>1. /\ air' \in [Vehicles -> Seq(Message)]
        /\ \A w \in Vehicles : air'[w] = IF w = v THEN all ELSE air[w]
    BY <1>1, <1>2, <1>5 DEF TransferInv, Air
  <2>. QED  BY <1>1, <1>2, <1>5, <2>1 DEF TransferInv, Air, Honest
<1>7. Vessels'
  <2>. DEFINE next == [stream[v] EXCEPT !.ofs = stream[v].ofs + 1, !.count = stream[v].count - 1]
  <2>1. /\ next \in [ id : Int, ofs : Nat, count : Int ] /\ next.id = stream[v].id
        /\ next.ofs = stream[v].ofs + 1 /\ next.count = stream[v].count - 1
    <3>1. ASSUME NEW s \in [ id : Int, ofs : Nat, count : Int ],
                 NEW u, u = [s EXCEPT !.ofs = s.ofs + 1, !.count = s.count - 1]
          PROVE  /\ u \in [ id : Int, ofs : Nat, count : Int ] /\ u.id = s.id
                 /\ u.ofs = s.ofs + 1 /\ u.count = s.count - 1
      <4>1. u = [ id |-> s.id, ofs |-> s.ofs + 1, count |-> s.count - 1 ]
        BY <3>1
      <4>. QED  BY <4>1
    <3>. QED  BY <1>1, <3>1 DEF TransferInv, Vessels
  <2>. HIDE DEF next
  <2>2. /\ stream' \in [Vehicles -> [ id : Int, ofs : Nat, count : Int ]]
        /\ \A w \in Vehicles : stream'[w] = IF w = v THEN next ELSE stream[w]
    BY <1>1, <1>2, <2>1 DEF TransferInv, Vessels, next
  <2>3. next.ofs + next.count <= SizeOf(InitialLogs[v], v, next.id)
    BY <1>3, <2>1
  <2>. QED  BY <1>1, <1>2, <2>2, <2>3 DEF TransferInv, Vessels
<1>. QED  BY <1>1, <1>2, <1>6, <1>7 DEF IInv, FlagsInv, TransferInv, Watched

LEMMA LoseKeeps ==
  ASSUME IInv, NEW v \in Vehicles, Lose(v)
  PROVE  IInv'
<1>1. FlagsInv /\ TransferInv
  BY DEF IInv
<1>2. /\ air[v] # << >> /\ air' = [air EXCEPT ![v] = Tail(air[v])]
      /\ UNCHANGED << ctl, dialog, logs, stream, left, stale >>
  BY DEF Lose
<1>3. Air(air') /\ (~stale => \A w \in Vehicles : Told(air'[w], w, {logs[w]}))
  BY <1>1, <1>2, HeadIsGone
<1>. QED  BY <1>1, <1>2, <1>3 DEF IInv, FlagsInv, TransferInv, Vessels, Honest, Watched

LEMMA InitInv == Init => IInv
<1>. SUFFICES ASSUME Init PROVE IInv
  OBVIOUS
<1>1. PICK v \in Vehicles : ctl = NewController(v)
  BY DEF Init
<1>2. /\ Ctl(ctl) /\ LeavesBut(ctl, {}) /\ ~Busy(ctl) /\ Saved(ctl) /\ ctl.out = << >>
      /\ Noted(ctl) /\ \A sizes : ListedAs(ctl, sizes)
  <2>1. Fresh(ctl, v, {}) /\ v \in Vehicles \cup {NoVehicle}
    BY <1>1 DEF Fresh
  <2>. QED  BY <2>1, NewInOrder
<1>3. Watched(ctl)
  BY <1>2 DEF Watched, LeavesBut
<1>4. Vessels
  BY LogsAssumption DEF Init, Vessels, NoStream
<1>5. Air(air) /\ \A w \in Vehicles : \A tables : Told(air[w], w, tables)
  <2>1. << >> \in Seq(Message) /\ DOMAIN << >> = {}
    BY EmptySeq
  <2>. QED  BY <2>1 DEF Init, Air, Bins, Told
<1>. QED  BY <1>2, <1>3, <1>4, <1>5 DEF Init, IInv, FlagsInv, TransferInv, Ctl, Honest

LEMMA NextKeeps == IInv /\ [Next]_vars => IInv'
<1>. SUFFICES ASSUME IInv, [Next]_vars PROVE IInv'
  OBVIOUS
<1>1. CASE UNCHANGED vars
  BY <1>1 DEF vars, IInv, FlagsInv, TransferInv, Vessels, Watched
<1>2. CASE Next
  BY <1>2, ArrivesKeeps, TimerKeeps, UserKeeps, EraseKeeps, ChangeKeeps, WorkerKeeps, LoseKeeps
  DEF Next, Radio, User
<1>. QED  BY <1>1, <1>2

(***************************************************************************)
(* The theorems.                                                           *)
(***************************************************************************)
\* The inductive invariant: what the handlers keep of the controller, what the vehicles have
\* and stream, and what of it is on the way.
THEOREM Invariance == Spec => []IInv
<1>1. Init => IInv
  BY InitInv
<1>2. IInv /\ [Next]_vars => IInv'
  BY NextKeeps
<1>. QED  BY <1>1, <1>2, PTL DEF Spec

\* Loss of communication goes unnoticed for the vehicle that is listing or sending logs and for
\* those that were left in the middle of that, by the page or by a change of vehicle, and for no
\* other, whatever is lost or delayed (_setListing and _setDownloading,
\* LogDownloadController.cc:655).
THEOREM Watching == Spec => []LossIsWatched
<1>1. IInv => LossIsWatched
  BY DEF IInv, FlagsInv, Watched, WatchedBut, LossIsWatched
<1>. QED  BY <1>1, Invariance, PTL

\* A file reported downloaded is the log of the vehicle it was asked of, bin by bin, and no
\* log chosen is left waiting, for logs and chunks of any length and any number of requests
\* and answers lost, as long as files are created and places in them found
\* (_logData and _receivedAllData, LogDownloadController.cc:316 and :406).
THEOREM Downloads == Spec => []LogsAreWhole
<1>1. IInv => LogsAreWhole
  <2>. SUFFICES ASSUME IInv PROVE LogsAreWhole
    OBVIOUS
  <2>1. Saved(ctl) /\ Waits(ctl)
    BY DEF IInv, TransferInv
  <2>. QED  BY <2>1 DEF Saved, FileOf, Waits, LogsAreWhole
<1>. QED  BY <1>1, Invariance, PTL

\* What the list shows as available is on the vehicle, with its size, unless the index base is
\* that of another vehicle; as soon as anything was heard it has an entry for every log, and
\* when it is over, unless the user ended it, each of them is available or marked.  All that
\* unless logs were erased while entries were on the way
\* (_logEntry and _findMissingEntries, LogDownloadController.cc:152 and :253).
THEOREM Listing == Spec => []ListIsTrue
<1>1. IInv => ListIsTrue
  <2>. SUFFICES ASSUME IInv, ctl.vehicle # NoVehicle, ~stale
                PROVE  ListIsTrue
    BY DEF ListIsTrue
  <2>1. ListedAs(ctl, logs) /\ Noted(ctl)
    BY DEF IInv, TransferInv, Honest
  <2>2. ASSUME BaseFits, NEW i \in DOMAIN ctl.entries, ctl.entries[i].received
        PROVE  ctl.entries[i].size =
                  SizeOf(logs[ctl.vehicle], ctl.vehicle, i + FirstId(ctl.vehicle))
    <3>1. Genuine(logs[ctl.vehicle], ctl.vehicle, i + FirstId(ctl.vehicle), ctl.entries[i].size)
      BY <2>1, <2>2 DEF ListedAs, BaseFits
    <3>2. ctl.vehicle \in Vehicles
      BY DEF IInv, FlagsInv, Flags
    <3>3. DOMAIN logs[ctl.vehicle] = 1 .. Len(logs[ctl.vehicle])
      BY <3>2, LenProperties DEF IInv, TransferInv, Vessels
    <3>. QED  BY <3>1, <3>3 DEF Genuine, SizeOf
  <2>. QED  BY <2>1, <2>2 DEF ListIsTrue, ListedAs, Noted
<1>. QED  BY <1>1, Invariance, PTL
================================================================================
