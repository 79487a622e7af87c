----------------------------- MODULE MCStreams -----------------------------
(***************************************************************************)
(* What stands between the network and the speaker, for TLC: a download    *)
(* that plays while it arrives (NavBuffer), the ring of a live stream      *)
(* (LivePrefetch) and a Spotify track that survives a lost connection      *)
(* (SpotifyStream).  A behaviour is one of the three; the other two stay   *)
(* as they were built.                                                     *)
(***************************************************************************)
EXTENDS SpotifyStream, Integers

CONSTANTS
  r1, Readers, MaxSize, MaxChunk,                       \* of the download
  Capacity, Refill, MaxFrames, MaxDecoded, MaxCallback  \* of the ring

ASSUME StreamsAssumption ==
  /\ Readers \cap {"free", "closer"} = {}
  /\ MaxSize \in Nat /\ MaxChunk \in Nat
  /\ Capacity \in Nat \ {0} /\ Refill \in Nat
  /\ MaxFrames \in Nat /\ MaxDecoded \in Nat /\ MaxCallback \in Nat

VARIABLES
  part,
  bytes, cuts, total, download, fetched, bodyEnd, offset, tail, file, fileOpen, downloaded, done,
  fileErr, fileClosed, fileCanceled, readMu, reader, got, ended, readerCancel, fileClosing,
  probe, fresh,
  frames, decoded, fill, chunk, buf, rd, wr, full, buffering, dry, sourceErr, ringClosed,
  played, told, ringClosing

Load == INSTANCE NavBuffer WITH
  size <- bytes, err <- fileErr, closed <- fileClosed, canceled <- fileCanceled,
  cancel <- readerCancel, closing <- fileClosing

Live == INSTANCE LivePrefetch WITH
  MaxSize <- MaxFrames, MaxChunk <- MaxDecoded,
  size <- frames, pc <- fill, r <- rd, w <- wr, done <- dry, closed <- ringClosed,
  got <- played, ended <- told, closing <- ringClosing

loadVars == <<bytes, cuts, total, download, fetched, bodyEnd, offset, tail, file, fileOpen,
              downloaded, done, fileErr, fileClosed, fileCanceled, readMu, reader, got, ended,
              readerCancel, fileClosing, probe, fresh>>
liveVars == <<frames, decoded, fill, chunk, buf, rd, wr, full, buffering, dry, sourceErr,
              ringClosed, played, told, ringClosing>>
allVars == <<part, vars, loadVars, liveVars>>

(* Of the longest downloads, one body has the Content-Length it promised.  *)
StreamsInit ==
  /\ part \in {"download", "ring", "track"}
  /\ Load!Init /\ (part # "download" => bytes = 0 /\ total = -1)
  /\ bytes = MaxSize /\ cuts = {} => total = bytes
  /\ Live!Init /\ (part # "ring" => frames = 0)
  /\ Init

OfDownload(action) == part = "download" /\ action /\ UNCHANGED <<part, vars, liveVars>>
OfRing(action) == part = "ring" /\ action /\ UNCHANGED <<part, vars, loadVars>>
OfTrack(action) == part = "track" /\ action /\ UNCHANGED <<part, loadVars, liveVars>>

StreamsNext == OfDownload(Load!Next) \/ OfRing(Live!Next) \/ OfTrack(Next)

(* The fairness of each of the three.                                      *)
StreamsSpec ==
  /\ StreamsInit /\ [][StreamsNext]_allVars
  /\ WF_allVars(OfDownload(Load!Download) \/ OfRing(Live!Fill))
  /\ WF_allVars(OfDownload(fileCanceled /\ Load!Network)
                \/ OfRing(ringClosing = "cut" /\ Live!Decode))
  /\ WF_allVars(OfDownload(Load!CompletedPath) \/ OfRing(Live!Close))
  /\ WF_allVars(OfRing(Live!Speaker))
  /\ SF_allVars(OfDownload(\E r \in Readers : Load!Reading(r)) \/ OfTrack(Speaks))
  /\ SF_allVars(OfDownload(Load!Close) \/ OfTrack(Closes))
  /\ SF_allVars(OfTrack(Recovers))

-----------------------------------------------------------------------------

(* Nobody uses the file of a download once it is closed, and the length    *)
(* probe measures the whole of it.                                         *)
FileSound == Load!FileSound

(* Whoever listens, a reader of the download or the speaker, gets the      *)
(* stream from its beginning and in order, and is told a clean end only    *)
(* behind the last byte: both buffers implement ByteStream.  A reader of   *)
(* the download gives up only where no byte has come since its timer       *)
(* started.                                                                *)
EveryoneHearsTheStream == Load!ReadsTheStream /\ Load!StallIsTrue /\ Live!PlaysTheStream

(* Every read and every Close returns, a recovery ends, and the silence of *)
(* a live stream ends when the ring holds a refill, but for a Spotify      *)
(* track whose reopened stream seeks on the network, under the mutex, and  *)
(* never ends to (there are MaxRecoveries such seeks, so one that is met   *)
(* again and again is one that stays): then neither its silence nor its    *)
(* Close ends, as SpotifyStream_seek.cfg shows.  A behaviour is one of the *)
(* three parts, so one formula says of all of them that what waits goes    *)
(* on: NavBuffer!CallsReturn, LivePrefetch!CloseReturns and, but for that  *)
(* case, SpotifyStream!CallsReturn.                                        *)
AdoptSeeks == recovery = "move"
Waiting == recovering \/ \E r \in Readers : reader[r].pc # "idle"
CloseBegun == fileClosing # "open" \/ ringClosing # "open" \/ closer # "none"
NobodyWaitsForGood ==
  /\ []<>(~Waiting \/ closed \/ AdoptSeeks)
  /\ []<>(CloseBegun =>
            "closed" \in {fileClosing, ringClosing} \/ closer = "returned" \/ AdoptSeeks)
  /\ Live!Resumes
==============================================================================
