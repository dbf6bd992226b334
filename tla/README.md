# CoTune: a verification development

CoTune is a peer-to-peer music application: a Go daemon on every device that
identifies, announces, searches, serves and fetches tracks, a Flutter client
that drives it, and bootstrap nodes that let peers find each other. This
directory holds TLA+ specifications of the parts where order, failure and
concurrency decide whether it works, TLC configurations that check them on small
instances, and proofs, checked by TLAPS, that the safety properties that pass there
hold for every size of instance.

    tlc -config TrackPipeline_restart.cfg MCTrackPipeline     # any run of PROJECT.json
    tlapm TrackPipelineProofs.tla                             # any *Proofs module

Paths below are relative to `src/`; Go paths to `src/go-backend/internal/`.

## 1. The system

### Components, their state and operations

| Component | State | Operations | Modelled in |
|---|---|---|---|
| Daemon `daemon/daemon.go` | context, two announcer goroutines | Start, Stop, AddTrack, ShareTrack, onTrackProcessed, announceAllTracks, FetchTrack, Search, ConnectToPeer, DisconnectPeer | TrackPipeline, Fetch, Search, Lifecycle, Bootstrap |
| CTR service `ctr/ctr.go` | queue (channel of 100), two workers, cancel function | Start, Stop, QueueTrack, ProcessTrack | TrackPipeline, Lifecycle |
| Audio decoding `audio/decoder.go` | a temporary file | DecodeAudioToPCM, decodeWithFFmpeg | FfmpegDecode |
| Track store `storage/storage.go` | Badger: track ID to record, durable | SaveTrack, GetTrack, GetAllTracks, FindTracksByToken, FindTrackByCTID | TrackPipeline |
| Search service `search/` | token index in memory | UpdateLocalIndex, HandleIndexQuery; Search, QueryPeerIndex | TrackPipeline; Search |
| DHT service `dht/dht.go` | connections, routing tables, retry loop | Provide, ProvideToken, FindProviders, FindProvidersForToken; New, bootstrapRetryLoop, ensureBootstrapConnectivity, Close | TrackPipeline, Search, Fetch; Bootstrap |
| Streaming `streaming/streaming.go` | open streams, output files | StreamFromPeer, handleStream | Fetch |
| gRPC server `api/proto/server.go` | calls being handled | Share, Search, Fetch, Connect, Start, Shutdown, status | TrackPipeline, Search, Fetch; Bootstrap; Lifecycle |
| HTTP control server `api/control/server.go` | requests being handled | /addTrack, /search, /replicate, /connect, /disconnect, /shutdown | TrackPipeline, Search, Fetch; Bootstrap; Lifecycle |
| Daemon process `cmd/daemon/main.go` | open parts, signal and stop channels | startup, signals, ordered shutdown | Lifecycle |
| Host and key `host/` | identity key file, connections | loadOrGenerateKey, ConnectToPeer, ConnectToPeerInfo | NodeSupervisor, Bootstrap |
| Bootstrap node `bootstrap/` | DHT server, key file | startup, shutdown | Bootstrap, as the daemon sees it |
| Android plugin `CotuneNodePlugin.kt` | reference to the daemon process | startNode, stopNode, detach | NodeSupervisor |
| Player `audio_player_service.dart` | queue, index, repeat mode, player | play, next, previous, completion callback | planned |
| Client library and search (Dart) | Hive box of tracks, files, search results | search, preview, like, share, edit | preview and like: RemoteLike; the rest is planned |

Screens, themes, translations, QR codes, generated protobuf code and platform
runners hold no logic of their own and are left out. `PROJECT.json` lists every
component with its sources.

### How they interact

* A client adds a file through `POST /addTrack`, or shares a track through gRPC
  `Share`. `AddTrack` copies the file, saves a record and puts it on the CTR
  queue. A worker decodes the file, computes its CTID (a hash of the PCM), saves
  the record again, announces the CTID in the DHT and calls back into the daemon,
  which indexes the track under its title and artist tokens and announces those.
* `ShareTrack` does the same synchronously in the handler, at the same time as a
  worker may be doing it; if it fails, gRPC `Share` imports the file again under a
  new ID and shares that.
* Two announcers, one after start and one on a ticker, go through the store and
  index and announce everything again.
* A search asks the DHT who has the query's tokens, asks those peers' token
  indexes for CTIDs, and asks the DHT who has the CTIDs. A fetch asks the DHT who
  has the CTID and streams the file from the first provider that manages to send it.
* The client previews and likes what a search has found. A like fetches the file,
  adds it to the client's library and shares it.
* Every announcement and lookup first makes sure of a connection, dialling the
  bootstrap addresses itself if need be, while a retry loop does the same every 30 s.
* On Android a plugin starts, probes and stops the daemon process. The process takes
  the lock of the store and loads or creates the key that is the peer's identity. It
  ends on a signal or `POST /shutdown`: the control server, the gRPC server, the
  daemon with its workers, the DHT, the host and the store are stopped in this order.

### Where it is hard

* Goroutines hold *copies* of a track for as long as decoding and announcing takes
  and write them back whole; workers, handlers and announcers do so for the same
  track at once.
* The store and the DHT survive a restart, the token index and the CTR queue do not.
* Every announcement may time out after having reached some of the DHT's peers.
* Providers fail before, during and after a transfer; the next one is tried over the
  remains of the previous one's file, and the client takes files for finished
  downloads when they are not empty. A provider that falls silent has not failed.
* A search collects CTIDs, catalogue entries and provider records at different
  moments from peers that keep changing; tokens are folded by Unicode's rules, the
  store's text search folds ASCII only.
* The peers and routing tables change while a call decides on what it read before
  dialling, and the bootstrap nodes stop, crash and come back.
* Goroutines outlive the parts they use: some are waited for without limit, some for
  ten seconds, some not at all; signals come in the middle of startup.
* Two starts of the daemon can overlap, processes die with a key half written, and
  every error of reading the key makes a new one.
* A client-side tap awaits the daemon many times; other taps happen in between.

The full list, each with its line and the property that covers it or the reason
why none does yet, is `hazards` in `PROJECT.json`.

### What makes each component correct

| Component | Properties |
|---|---|
| Pipeline | what is announced can be served from disk; the index is backed by the store and answers as promised; a success reply to Share means the track can be found; published entries are never changed; what is queued is not lost before the process ends; what is queued, published or expired gets processed, indexed and announced again |
| Decoding | the same audio gets the same CTID (it does as long as decodes through ffmpeg do not overlap) |
| Search | results can be had from whom they name; no duplicates; no reliable peer that has an answer is missed |
| Fetch | success means the whole file; failures never cost a good provider, and one suffices; every request is answered, both unless a provider stays connected and silent |
| Client library | a library file is the one its CTID was computed from; no change to an entry is lost; the results on screen belong to the query on screen |
| Lifecycle | who may use the store or the DHT when it is closed; accepted calls are answered; no request to stop is lost, and each ends the process |
| Bootstrap | a peer that is cut off reconnects; an announcement is given up only when cut off; closing ends the retries |
| Identity key | an identity is lost only by failing to read its file, whatever overlaps or dies |
| Player | the index stays within the queue; the completion callback and a user command do not both advance |
| Android plugin | no daemon that nothing can stop, as long as the calls of its plugin do not overlap; at most one is left in any case |

## 2. The modules

### TrackPipeline

One peer. Its processes are goroutines: `Workers`, `Callers` (API handlers) and
`Announcers` ("initial" and "loop"). `pc` says where each is, `trk` is its copy of
the track, `todo` the tokens it has still to announce, `visit` an announcer's
snapshot, `call` the request a handler serves. `store` and `files` are durable,
`ctidRecords` and `tokenRecords` are the DHT's provider records naming this peer,
`index` and `queue` are in memory. A step ends where the code releases a lock or
returns from the disk or the network.

| Code | Actions |
|---|---|
| `POST /addTrack`, `AddTrack` | RequestAdd, CopyTrackFile, SaveNewTrack, QueueTrack |
| gRPC `Share`, `POST /replicate`, `ShareTrack` | RequestShare, GetTrack, ProcessTrack's actions, RereadTrack, AnnounceShared, ProvideToken, IndexShared; FailCall is the import fallback |
| `ctr.worker`, `ctr.ProcessTrack`, `onTrackProcessed` | WorkerTake, ComputeCTID, SaveProcessed, ProvideProcessed, OnTrackProcessed, ProvideToken, WorkerDone, WorkerExit |
| `announceAllTracks`, `announceLoop` | Snapshot, VisitTrack, ProvideTrack, ProvideToken, EndRound, LoopExit |
| process life | Start, Stop, Exit (a stop that has run its course, or a crash) |
| DHT | Announce (ok, refused, or timed out after partial effect), Expire |

A track's metadata is what the pipeline distinguishes: its tokens, the tokens that
the store's text search would match in it, and whether it is confirmed. A file is
represented by the CTID its PCM hashes to.

### Catalogue

What a peer promises the network, without goroutines, caches or crashes: a set of
entries that only grows and never changes, and provider records that never get ahead of
it. An entry has the tokens of its title and those by which the store finds it
(`matches`). `Answers` is the other half of the promise: what an index query may be
answered with, and that it is not answered with nothing when the store finds an entry.
TrackPipeline implements both (`ImplementsCatalogue`, `AnswersAsPromised`, checked and
proved); each peer of Search is a catalogue (`PeersAreCatalogues`, proved) and answers
queries with `Answers`. This is how the two are composed: the search is checked and
proved against the promise, not against another copy of the pipeline.

### Search

One search at peer `Self` while all peers go on adding, announcing and forgetting.
SearchLocal, ReadOwnIndex, FindProvidersForToken, QueryPeerIndex, NextToken,
FindProviders and Merge are the phases of `search.Service.Search`; `found` is its
`ctidSet`, `network` and `results` the two result lists, as sets because the code goes
through Go maps. Titles and artists are left out, and so are the hints that carry them.
Whether an index query is answered from memory or from the store, and what text matches,
is a choice among `Answers` of the peer's catalogue: some of its published CTIDs, and
not none if its store finds a title by the token. So a peer that is listed under a token
may answer nothing, as one with the title "ДДТ" does after a restart: `tokenize` has
folded it (`search.go:305`), `storage.toLower` does not (`storage.go:163`). `Titles`
says which titles there are; `expected` is history, the reliable peers listed for each
token when the search began whose store finds something, less the tokens that turn out
to have more providers than are asked.

### Fetch

Downloads of one CTID and, at the other end of each stream, the provider. `disk` is
the set of chunks at each output path, `stream` what the provider has sent and how
it ended, `got` what has been received. TryPeer and CreateOutput are the two halves
of `StreamFromPeer` before its loop (a provider that cannot be reached leaves the
output alone, one that can truncates it), Receive and ReceiveEnd the loop, Serve is
`handleStream`, Reset the loss of the connection with whatever was in flight.

### Transfer

What a download promises its caller, without providers, streams or retries: the path it
was given is its own, only it changes whether the file there is whole, and it reports
success only of a whole file. `ImplementsTransfer` maps a path to whether `disk` has all
chunks there, and every program counter of a download to idle, running, ok or failed.

### RemoteLike

`_previewRemoteTrack` and `_likeRemoteTrack` of the client over an instance of
Fetch that stands for the daemon. A task is one tap; its steps end at each `await`.

### FfmpegDecode

The ffmpeg fallback of the decoder with its file names, inodes and open files: what
`O_TRUNC`, writing at an offset, reading by name and removing do to each other when
two goroutines use one name.

### Lifecycle

The daemon process. `main` is the statement `main()` has come to, `open` the parts it
has opened and not closed; every goroutine that uses the parts is reduced to whether
it is at work.

| Code | Actions |
|---|---|
| `main()` to `<-stopChan` | OpenPart, FailToStart, StartDaemon, StartGrpc, NotifySignals, StartControl, ListenForSignals |
| signals, `handleShutdown`, `shutdownOnce` | Signal, ReadSignal, AcceptShutdown, CallShutdown |
| the shutdown, its 10 s, the deferred closes | BeginShutdown, Expire, StopControl, StopGrpc, StopDaemon, WaitWorkers, ClosePart, Exit |
| gRPC calls, a Fetch from a silent peer | Accept, Answer, Hang |
| control requests, workers, loops, the initial announcement, stream handlers | AcceptRequest, FinishRequest, WorkerStep, LoopStep, AnnouncerStep, OpenStream, EndStream |

### NodeSupervisor

`pc` says where a call of `startNode` or `stopNode` is, `at` which plugin object it came
to, `mine` the process it stops or has started; `proc` is what a daemon process has come
to, from opening the store to running, and `keyFile` the key on disk. TakeProcess and
WaitForProcess are the two halves of `stopNode`, StartProcess and Probe those of
`startNode` after it, Detach is `onDetachedFromEngine`, which launches a coroutine and
cancels its scope. OpenStore is `storage.New`; LoadKey, GenerateKey, CreateKeyFile and
WriteKey are `loadOrGenerateKey`, with the file empty or half written in between.
GenerateKey does not ask whether there is a key: `key.go:19` goes on to generate one
whatever the read failed with, and writes it over what is there. `misread` is history, the
file a process found and could not read; so is `calm`, whether a plugin's own calls
have not overlapped, nor has it been detached.

### Bootstrap

`peers` is what `Network().Peers()` returns, `table` the routing tables; `left` holds the
addresses a goroutine has still to try. EndNew is the end of `dht.New`; Tick, Restore,
Refreshed, EndRound and LeaveLoop are `bootstrapRetryLoop`; Begin, Check, Recheck, Decide
and Block are `ensureBootstrapConnectivity`, with the number of peers read at Begin and
used up to Decide; Reach, Miss and ReachInVain are the outcomes of one call of
`bootstrap`, for all three. The bootstrap node's host and DHT come and go separately
(StartHost, StartDHT, StopNode, CloseNode, CrashNode). `linked` and `routed` are history:
whether there has been a connection, or routing, all through a call.

### MC modules

`MCTrackPipeline`, `MCSearch`, `MCFetch`, `MCRemoteLike`, `MCFfmpegDecode`, `MCLifecycle`,
`MCNodeSupervisor` and `MCBootstrap` only
declare model values, small metadata sets and symmetry.

## 3. The runs

| Run | Shows | Instance |
|---|---|---|
| `restart` | TypeOK, RecordsAreServable, IndexIsBacked, AdvertisedTokenIsAnswered, AnswersAsPromised | 2 tracks with the same audio, blank, with an ASCII title or one the store does not find by its token; a worker, a handler, the initial announcer; failing saves and announcements; one crash or stop |
| `handlers` | IndexIsBacked, ShareOkMeansFindable, ImplementsCatalogue | 2 tracks, blank, confirmed or with an unconfirmed title; a worker and two handlers; failing copies and decodes |
| `live` | EventuallyIndexed, EventuallyAdvertised, QueuedIsProcessed, QueuedIsNotLost, ImplementsCatalogue | 1 track, a worker, a handler, the announce loop; failing announcements, expiring records, one crash or stop |
| `lost` (violation) | RecognizedIsAnnounced fails | as `live`, without faults |
| `stale` (violation) | StaleIndexIsRebuilt fails | 2 tracks with different audio and one token, one restart |
| `search` | TypeOK, ResultsAreServable, ResultsAreDistinct, NothingIsMissed | 3 peers, one of them reliable, 2 tracks among them, 2 CTIDs, 2 tokens, titles that the store finds or, as in capital Cyrillic, does not; at most 2 providers asked for a token and 1 named for a CTID, at most 2 results, an unconfirmed own track |
| `fetch` | TypeOK, FetchedIsComplete, NotGivenUp, ImplementsTransfer, OneProviderIsEnough, FetchReturns | 2 downloads, 2 providers, one of them reliable, the other free to fall silent for good; 2 chunks, one full disk, all faults |
| `like` (violation) | LibraryFileHasItsCtid fails | 1 tap at a time, 2 providers, 2 chunks |
| `ffmpeg` (violation) | SameAudioSameCtid fails | 2 goroutines, 2 files, 2 blocks |
| `lifecycle` | TypeOK, NobodyOutlivesTheParts, CallsFindTheQueueRunning, StopIsNotLost, CallsAreAnswered, SignalEnds, ShutdownEnds | 1 gRPC call, 2 control requests, 1 worker, loop and stream, the initial announcer; signals at any time |
| `supervisor` | TypeOK, IdentityIsStable, NoOrphans, StoppedProcessesEnd, CallsReturn, OneDaemonIsLeft | 2 plugin objects, 2 starts, 1 stop or detach, 2 processes that may die, or fail to read the key, at any step |
| `bootstrap` | TypeOK, BlockedIsCutOff, Rejoins, LoopEnds | 1 bootstrap node under 2 addresses, 1 LAN peer, 1 user that announces or looks up |

**Bounds.** Two goroutines on one track are enough for every overlap of a read and a
write back; a third adds only the announcer, which `restart` has. Two IDs with one CTID
give the case where two records back one announcement; that the announced CTID belongs
to the *right* file is proved for any number. A queue of 1 or 2 is full and overflows.
`handlers` checks the refinement with two tracks and no end of the process, `live` with
one track, an end, and records that expire; a queue of several tracks under
QueuedIsNotLost is left to the theorem. One exit leaves both a crash in every state and
a restart from it. For the search, two tokens let one fail and the other go on, two
tracks and a limit of two let own results take others' places. With one provider named
for a CTID, lookups of CTIDs are crowded; with two tracks no token has more providers
than the two that are asked, so that `expected` loses no token in the run: that case is
left to the theorem. Two chunks are the least with a transfer that is neither empty nor
whole. Two control requests are a `/shutdown` beside another one or beside a request
that hangs; workers, loops and streams do not interact, so one of each shows all of
them. Two starts overlap, and two plugin objects are two engines of the app. One
bootstrap node under two addresses (QUIC and TCP, as in `CotuneNodePlugin.kt:114`) lets
a first attempt fail and a second succeed, and the LAN peer gives a connection without a
bootstrap node. All of `MaxExits`, `MaxTracks`, `Chunks`, `Ids` and `QueueCap` are
constants, and the theorems hold for every value of them.

**Deadlock** is checked in every run but two: a peer that is down can be started, an idle
handler can get a request, a tick comes. `lifecycle` and `supervisor` have
`CHECK_DEADLOCK FALSE`, since there the process exits for good and the calls are answered.

### The four places where code and documentation disagree

1. `lost`: a track that was saved but not processed when the daemon ended is never
   queued again; `announceAllTracks` skips it because it has no CTID. The comment
   says that all recognised tracks are announced periodically (`daemon.go:130`).
2. `stale`: after a restart the index refills track by track. While it has one
   track of a token, an index query answers from it and leaves out the others,
   although the comment at `index_protocol.go:91` announces a rebuild from the store.
3. `like`: a download that fails midway leaves a partial file. Liking the track
   again finds a file that is not empty and adds it to the library under the
   CTID of the whole track (`models/track.dart:11` says what a CTID is).
4. `ffmpeg`: two goroutines decoding through ffmpeg share
   `cotune_pcm_<pid>.raw`; what one reads may be truncated, empty or the other's
   audio, so the same audio gets different CTIDs, against `architecture.md:51`.

`TrackPipeline` assumes a deterministic decoder. It is a true description for MP3
and WAV, and for the ffmpeg formats as long as no two of them are decoded at once
(`DecodesApartAgree`, proved); otherwise 4 says what may go wrong before.

## 4. Fairness

* TrackPipeline: the Go scheduler runs every goroutine that can run (weak fairness of
  each worker, handler and announcer), the ticker ticks, a stopped daemon exits (the
  shutdown has a 10 s context) and is started again. Requests are not fair. Of the
  network only this is assumed: an announcement that is tried again and again
  succeeds again and again (strong fairness of the successful outcome per announcer
  and key). Without it no announcement ever has to arrive.
* Fetch: this end goes on, and so does a reliable provider that is streaming. Nothing
  is assumed of the others: there is no read deadline (`streaming.go` 155-163), so one
  that stops sending without closing holds the download for good, also when a reliable
  provider is left to try. `OneProviderIsEnough` and `FetchReturns` name this as their
  only exception (`[]Held(d)`): everything else a provider does ends the attempt.
* Lifecycle: `main()`, the goroutine on `sigChan` and the one of `handleShutdown` are
  scheduled, the ten seconds pass, and a gRPC call ends unless it is hung. Nothing is
  assumed of control requests, tracks in processing, announcements and streams, so that
  `ShutdownEnds` holds whatever they do. A hung call is the exception, and a real one:
  `GracefulStop` waits for it without limit (`server.go:72`), and closing the host, which
  would reset its stream, comes after. The exception is a call that hangs from some
  moment on (`HangsForGood`), not one that does for a while.
* NodeSupervisor: coroutines and processes are scheduled, `waitFor` times out, SIGKILL
  works. SIGTERM need not, see above; without `destroyForcibly` a stop could fail.
* Bootstrap: every attempt of the loop is bounded by its timeout; `select` does not prefer the tick
  for ever (strong fairness of LeaveLoop). Of the network it is assumed that a
  bootstrap node that can be reached again and again is reached in the end by the loop,
  and that a peer that is connected again and again gets into a routing table.
* Search, RemoteLike and FfmpegDecode state safety only.

## 5. What is proved

All theorems hold for every value of the constants under the named assumptions of
each module (disjoint process sets, `None` outside the data, natural bounds, and for
Search finitely many peers and CTIDs).

**TrackPipelineProofs.** `TypeCorrect`, `AdvertisedIsServable` (RecordsAreServable),
`IndexBacked` (IndexIsBacked), `AdvertisedAnswered` (AdvertisedTokenIsAnswered),
`AnswersPromised` (AnswersAsPromised), `SharedIsFindable` (ShareOkMeansFindable),
`QueuedNotLost` (QueuedIsNotLost) and `Refinement` (ImplementsCatalogue). None of these
is inductive: whether a goroutine may announce its track depends on what it knows about
the store, which other goroutines change. The invariant `IInv` says, for each place in
the code, how the copy held there relates to the store: it is `Backed` (some version of
a saved track) from the queue until it is saved, and `Current` (equal to the saved
record, CTID included) from then on. That this is stable is the frame lemma `Grows`:
metadata is never changed after the first save, and a CTID, once there, can only be
saved again as it is, since every computation reads the same file. `FrameHeld` then
reduces every action to what it does to its own goroutine. `Exit` is the exception that
resets everything volatile. The refinement follows: the entry set changes only when a
save gives a confirmed track its CTID, and every other step either adds a record for an
entry or stutters.

`SharedIsFindable` is an action property: the step that reports the success of a share
leaves its track saved, confirmed, with a CTID and in the index. One conjunct beside
`IInv` says that a handler holds the track its call names, `SharingInv`; the import
fallback changes both at once, and no other goroutine changes either. Only IndexShared
ends a share well, and there the copy is `Current`. `QueuedNotLost` follows a track of
the queue through every step: nobody but a worker shortens the queue, what a worker
takes it holds until it saves it, and a handler that saves the same track meanwhile can
only bring the CTID forward.

`AdvertisedAnswered` and `AnswersPromised` hold for any metadata, and so say what does
not hold: an advertised token may go unanswered after a restart, but only if the store
finds none of the published tracks with that token by it. `tokenize` folds case for all
of Unicode and `storage.toLower` only for ASCII, so a title such as "ДДТ" is
such a track (`Cyrillic` in `MCTrackPipeline`, part of the run `restart`).

**FetchProofs.** `TypeCorrect`, `FetchedComplete` (FetchedIsComplete), `NeverGivenUp`
(NotGivenUp) and `Refinement` (ImplementsTransfer). The invariant says that a running
download has its output path to itself, that the stream is in order and closed only
after the last chunk, and that the file holds what the *current* attempt has received
and nothing else. For `NeverGivenUp` it is strengthened by what a reliable provider
never sends; then a failed attempt removes an unreliable provider from those left to
try, and no reliable one. The refinement takes the path to be a download's own from the
same invariant: creating, filling and completing the file are writes, everything at the
other end of the stream is a stutter.

**SearchProofs.** `TypeCorrect`, `RepliesServable`, `RepliesDistinct`, `NothingMissed`
(NothingIsMissed) and `PeersAreCatalogues`. The invariant carries from phase to phase
that every CTID collected is some peer's and that every provider named has the track; it
is stable because catalogues only grow, which is exactly what Catalogue promises. The
bound on the size of a reply needs the cardinality facts of `FiniteSetTheorems`.

`NothingMissed` needs an invariant of the other direction, `NobodyDropped`, checked with
TLC before it was proved: every reliable peer that is expected for a token (listed under
it when the search began, and with a title its store finds by it) has still to be asked
about it, or one of its tracks is among the CTIDs found; and every CTID found has still to
be looked up, or has its result. That it then answers something is `Answers`, which
TrackPipeline keeps to for any titles. The two hard steps are counting arguments. A lookup
for a token with at most `MaxProviders` holders returns every reliable one, however many
peers there are, and a merge that ends below the limit on results has left nothing out,
since it only stops when it is full. What is proved is that some result names a CTID of
each expected peer; which providers the result lists is up to `FindProviders`.

**LifecycleProofs.** `TypeCorrect`, `PartsOutlived` (NobodyOutlivesTheParts),
`QueueRunning` (CallsFindTheQueueRunning) and `StopNotLost` (StopIsNotLost). The
invariant gives, for every statement of `main()`, which parts are open, who has not come
yet and who has left; each statement of the shutdown adds one clause, and who has left
does not return because nobody accepts calls or requests any more. That `stopChan` has
room needs one more: without a first caller of `shutdown` it is empty. `StopNotLost`
adds that the reader of `sigChan` ends only after it has asked for a shutdown.

**NodeSupervisorProofs.** `TypeCorrect`, `OneIdentity` (IdentityIsStable) and `NoneOrphaned`
(NoOrphans). The store's lock is taken before the key is looked at, so one process at a
time is at the key file, and what it found there is still there when it empties it: if that
was a key, this process has misread it. So an identity is gone from the disk only if
some process found its file and failed to read it (`AllLost`), and never because a start
overlapped another, a process died with the file half written, or two generated keys at
once. For `NoneOrphaned` the invariant adds that at a plugin whose calls do not overlap
at most one is active, that between `stopNode` and the new process this plugin refers to
none, and that a process a call lets go of has been told to end (`MineIsTold`).

**BootstrapProofs.** `TypeCorrect` and `BlockedCutOff` (BlockedIsCutOff). What a call
knows is related to what has been so all through it: a lasting connection was seen at
its start, lasting routing is there at its end.

**FfmpegDecodeProofs.** `DecodesApartAgree`: `Spec /\ []OneAtATime => []SameAudioSameCtid`.
The run `ffmpeg` shows SameAudioSameCtid violated by two decodes that overlap; the theorem
says that overlap is the only reason. Its invariant is that what a conversion has written
under the shared name, and what is read back, are the goroutine's own
blocks: a conversion truncates what is there before it writes.

**Only model-checked.** Every invariant and action property and both refinements that
a passing run checks are theorems. What stays with TLC is liveness under fairness
(EventuallyIndexed, EventuallyAdvertised, QueuedIsProcessed, OneProviderIsEnough,
FetchReturns, CallsAreAnswered, SignalEnds, ShutdownEnds, StoppedProcessesEnd,
CallsReturn, OneDaemonIsLeft, Rejoins, LoopEnds), which needs ENABLED and is out of the
prover's reach. The safety halves that such a property rests on are proved where there
is one: QueuedIsNotLost for QueuedIsProcessed, NotGivenUp for OneProviderIsEnough,
StopIsNotLost for SignalEnds and ShutdownEnds. Nothing here computes recursively over
data, so no induction over data is left open, and no module declares a RECURSIVE operator.

## 6. Assumptions and abstractions

* Track IDs are fresh. The code takes nanosecond timestamps.
* A crash ends the process, not the machine: what `SaveTrack` has returned from is on
  disk. Badger is opened without synchronous writes, so a power loss is worse.
* Reads of the store succeed; saves, copies, decodes and announcements may fail.
* Peers with a CTID have the same file, byte for byte, as a replica has. Two
  encodings with the same PCM share a CTID but not a file; every attempt starts from a
  truncated file, so a download that changes provider does not mix them.
* A running download has its output path to itself. `Fetch` over gRPC lets the caller
  choose the path; two downloads to one path are listed as a hazard.
* In TrackPipeline, handlers may go on while the daemon is stopping until the process
  ends. The code shuts the servers down first (Lifecycle), so this allows more than can
  happen.
* Creating the host and the DHT ends, one way or the other (`main.go` 103-120). Reading
  the key file may fail; a write of the key that fails leaves what a crash leaves.
* A bootstrap node's identity does not change: its key file exists when its address is
  put into a configuration, and `-expect-peer-id` stops a node that has another one.
* The peer whose ID an address names is the one that answers there.
* A lookup in the DHT never fails but may return less than there is. Peers called
  `Reliable` are reachable and their records are found in time.
* A reply's torn CTID in `POST /addTrack` (a data race on a struct that the handler
  encodes while a worker writes it) is not part of any state and is left out.

## 7. Not modelled, and the plan

Pure arithmetic on samples (MP3, WAV, resampling), status and statistics calls,
rendering, QR encoding, generated code and the Kademlia DHT, libp2p, Badger and
ffmpeg themselves beyond what the code sees of them. The rest is planned, in this
order, with one run each unless noted:

1. **PlayerQueue**: `audio_player_service.dart`, user commands against the player's
   completion callback, repeat modes, an empty queue; index and queue as a theorem.
2. **ClientLibrary**: late answers to earlier searches (`search_screen.dart:64-98`),
   whole-record writes after an await (`search_screen.dart:423`, `track_tile.dart`),
   playlists; RemoteLike extended by a passing run of what likes do guarantee.
3. The desktop's start of the daemon (`p2p_grpc_service.dart:414`), which remembers a
   daemon it has started and not that it has died, beside NodeSupervisor.
