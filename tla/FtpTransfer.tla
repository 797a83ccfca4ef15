------------------------------- MODULE FtpTransfer -------------------------------
(***************************************************************************)
(* An FTPManager and its server, joined by a FIFO link that may lose       *)
(* packets and takes any time to deliver them, and that the station may    *)
(* lose.                                                                   *)
(***************************************************************************)
EXTENDS FtpManager, FtpServer

CONSTANTS
  Wanted,         \* what users ask for: files, and names of no file
  MaxEvents       \* bound on downloads, cancellations, lost packets and
                  \* lost links

VARIABLES
  toServer,       \* requests on their way to the vehicle
  downloads, cancels, losses, outages,
  asked,          \* history: what is being downloaded
  repairable,     \* history: nothing happened that repeated requests do not mend
  numbersSlip,    \* history: a packet of a burst was lost right before the
                  \* end of the file, or right before the numbers wrap; or a
                  \* burst may have been asked for without a link
  lateCancel,     \* history: cancelled with no download in progress
  unnumbered,     \* history: a request may have been made without a link
  malformed       \* history: a URI was wrong

counters == <<downloads, cancels, losses, outages>>
histories == <<asked, repairable, numbersSlip, lateCancel, unnumbered, malformed>>
transferVars == <<ftp, link, server, toStation, toServer, counters, histories>>

TransferInit ==
  /\ FtpInit /\ ServerInit
  /\ toServer = <<>>
  /\ downloads = 0 /\ cancels = 0 /\ losses = 0 /\ outages = 0
  /\ asked = NoFile
  /\ repairable = TRUE /\ numbersSlip = FALSE /\ lateCancel = FALSE
  /\ unnumbered = FALSE /\ malformed = FALSE

MayHappen == downloads + cancels + losses + outages < MaxEvents
SendOut == toServer' = toServer \o ftp'.sent
Ended == ftp'.completed # <<>>

RequestMade == unnumbered' = (unnumbered \/ (~link /\ ftp'.step # "idle"))
BurstMade == numbersSlip' = (numbersSlip \/ (~link /\ ftp'.step = "burst"))

UserDownload ==
  /\ MayHappen /\ downloads' = downloads + 1
  /\ \E f \in Wanted : Download(f) /\ asked' = f
  /\ RequestMade
  /\ SendOut
  /\ UNCHANGED <<link, server, toStation, cancels, losses, outages,
                 repairable, numbersSlip, lateCancel, malformed>>

UserBadUri ==
  /\ MayHappen /\ downloads' = downloads + 1
  /\ DownloadBadUri
  /\ malformed' = TRUE
  /\ UNCHANGED <<link, server, toStation, toServer, cancels, losses, outages,
                 asked, repairable, numbersSlip, lateCancel, unnumbered>>

UserCancel ==
  /\ MayHappen /\ cancels' = cancels + 1
  /\ Cancel
  /\ lateCancel' = (lateCancel \/ ~Busy)
  /\ repairable' = FALSE
  /\ RequestMade
  /\ SendOut
  /\ UNCHANGED <<link, server, toStation, downloads, losses, outages,
                 asked, numbersSlip, malformed>>

Timeout ==
  /\ AckOrNakTimeout
  /\ repairable' = (repairable /\ toStation = <<>> /\ toServer = <<>>)
  /\ asked' = IF Ended THEN NoFile ELSE asked
  /\ RequestMade /\ BurstMade
  /\ SendOut
  /\ UNCHANGED <<link, server, toStation, counters, lateCancel, malformed>>

DeliverToStation ==
  /\ toStation # <<>>
  /\ \E disk \in BOOLEAN :
       /\ MessageReceived(Head(toStation), disk)
       /\ repairable' = (repairable /\ disk)
  /\ toStation' = Tail(toStation)
  /\ asked' = IF Ended THEN NoFile ELSE asked
  /\ RequestMade /\ BurstMade
  /\ SendOut
  /\ UNCHANGED <<link, server, counters, lateCancel, malformed>>

DeliverToServer ==
  /\ toServer # <<>>
  /\ ServerReceives(Head(toServer))
  /\ toServer' = Tail(toServer)
  /\ ftp' = now
  /\ UNCHANGED <<link, counters, histories>>

LoseRequest ==
  /\ MayHappen /\ losses' = losses + 1
  /\ toServer # <<>> /\ toServer' = Tail(toServer)
  /\ repairable' = (repairable /\ Head(toServer).op # "open")
  /\ ftp' = now
  /\ UNCHANGED <<link, server, toStation, downloads, cancels, outages,
                 asked, numbersSlip, lateCancel, unnumbered, malformed>>

AtTail(r) ==
  /\ r.op = "burst" /\ r.ack
  /\ r.offset + r.size = Size[r.file] \/ r.seq = SeqRange - 1

LoseReply ==
  /\ MayHappen /\ losses' = losses + 1
  /\ toStation # <<>> /\ toStation' = Tail(toStation)
  /\ numbersSlip' = (numbersSlip \/ AtTail(Head(toStation)))
  /\ repairable' = (repairable /\ Head(toStation).op # "open")
  /\ ftp' = now
  /\ UNCHANGED <<link, server, toServer, downloads, cancels, outages,
                 asked, lateCancel, unnumbered, malformed>>

LinkComesOrGoes ==
  /\ link' = ~link
  /\ link => MayHappen
  /\ outages' = IF link THEN outages + 1 ELSE outages
  /\ repairable' = FALSE
  /\ ftp' = now
  /\ UNCHANGED <<server, toServer, toStation, downloads, cancels, losses,
                 asked, numbersSlip, lateCancel, unnumbered, malformed>>

TransferNext ==
  \/ UserDownload \/ UserBadUri \/ UserCancel
  \/ Timeout
  \/ DeliverToStation \/ DeliverToServer
  \/ LoseRequest \/ LoseReply \/ LinkComesOrGoes

TransferSpec == TransferInit /\ [][TransferNext]_transferVars

(* The timer fires and the link delivers; users and losses owe nothing.    *)
FairTransferSpec ==
  /\ TransferSpec
  /\ WF_transferVars(Timeout)
  /\ WF_transferVars(DeliverToStation)
  /\ WF_transferVars(DeliverToServer)

--------------------------------------------------------------------------------
Contents == [f \in Files |-> {f} \X Positions(0, Size[f])]

HoleAt(i) == Positions(ftp.missing[i].offset, ftp.missing[i].count)

TypeOK ==
  /\ ftp.machine \in Machines /\ ftp.step \in Steps
  /\ ftp.expectedSeq \in Seqs
  /\ ftp.retryCount \in 0 .. MaxRetry + 1
  /\ ftp.timer => Busy
  /\ ~malformed => (Busy <=> ftp.machine # "none")
  /\ Busy => lateCancel \/ asked # NoFile

(* While a file is read, what has been received so far is accounted for    *)
(* byte by byte: the bytes counted are the bytes in the file, and they and *)
(* the holes are, without overlap, a first part of the file                *)
(* (_burstReadFileAckOrNak, _fillMissingBlocksAckOrNak).                   *)
BytesAccounted ==
  ftp.step \in {"burst", "fill"} /\ ~unnumbered =>
    LET got == {p[2] : p \in ftp.content}
    IN  /\ ftp.content \subseteq Contents[asked]
        /\ ftp.bytesWritten = Cardinality(ftp.content)
        /\ \A i \in DOMAIN ftp.missing :
             /\ HoleAt(i) \cap got = {}
             /\ \A j \in DOMAIN ftp.missing : i # j => HoleAt(i) \cap HoleAt(j) = {}
        /\ \E k \in 0 .. Size[asked] :
             got \cup UNION {HoleAt(i) : i \in DOMAIN ftp.missing} = 0 .. k - 1

(* The promise made to users is kept: one completion for every download    *)
(* that was started, and none that reports success before the local file   *)
(* is the whole of the one asked for.  Two things break it: a cancellation *)
(* with no download in progress (FTPManager::cancel looks at the size of   *)
(* the last file), and a request made without a link, which uses no        *)
(* number: a reply to the request before it then passes for its own, and   *)
(* a repeat of it passes for a request the vehicle has answered            *)
(* (_sendRequestExpectAck, _openFileROAckOrNak).                           *)
Promise == INSTANCE FileDownload WITH
  Names <- Wanted, local <- ftp.content, signals <- ftp.completed

KeepsPromise == Promise!Init /\ [][lateCancel' \/ unnumbered' \/ Promise!Next]_transferVars

(* A few lost packets are made up for: with no more losses than retries,   *)
(* on a link that is faster than the timeouts, a download of a file ends   *)
(* without an error (_burstReadFileTimeout, _fillMissingBlocksTimeout; the *)
(* open request is not retried).                                           *)
LossesAreRepaired ==
  [][ errMode = "none" /\ asked \in Files /\ repairable' /\ losses <= MaxRetry
        => ftp'.completed \in {<<>>, <<TRUE>>} ]_transferVars

(* Every download ends, whatever the vehicle and the link do, unless its   *)
(* numbers no longer are those of the replies: the burst handler stops the *)
(* timer before it turns a reply away for its number                       *)
(* (_burstReadFileAckOrNak; _burstReadFileWorker).                         *)
DownloadEnds == Busy ~> (~Busy \/ numbersSlip)

(* On a link that stays, every download ends, however many packets are     *)
(* lost (the unit test of lost packets in FTPManagerTest.cc).              *)
EveryDownloadEnds == Busy ~> (~Busy \/ outages > 0)
================================================================================
