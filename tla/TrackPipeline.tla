--------------------------- MODULE TrackPipeline ---------------------------
(***************************************************************************)
(* One CoTune peer from the moment a file is added until the rest of the   *)
(* network can find it: the daemon (daemon.go), the CTR service and its    *)
(* workers (ctr.go), the durable track store (storage.go), the in-memory   *)
(* token index (search.go, index_protocol.go) and the provider records     *)
(* this peer leaves in the DHT (dht.go).                                   *)
(*                                                                         *)
(* A process is one goroutine: a CTR worker, an API handler ("caller"),    *)
(* the initial announcer or the announce loop.  A step ends where the code *)
(* releases a lock or returns from a disk or network call; anything may    *)
(* happen between two steps, the end of the daemon included.               *)
(***************************************************************************)
EXTENDS Naturals, Sequences, FiniteSets

CONSTANTS
    Ids,         \* track IDs that UnixNano can hand out; bounds the number of AddTrack calls
    Ctid,        \* canonical track IDs; a file is known by the CTID its PCM hashes to
    Token,       \* search tokens
    Meta,        \* the title/artist pairs a client may send, see MetaType
    Workers,     \* CTR worker goroutines (2 in the code)
    Callers,     \* API handlers that may run at the same time
    Announcers,  \* the announcing goroutines: "initial" and "loop"
    QueueCap,    \* capacity of the CTR queue (100 in the code)
    MaxExits,    \* bound: how often the daemon crashes or is stopped
    Faults,      \* which operations may fail: subset of FaultKinds
    None         \* no track, no CTID, no file

Procs      == Workers \cup Callers \cup Announcers
FaultKinds == {"copy", "decode", "save", "provide", "expire"}

(***************************************************************************)
(* What the pipeline reads of a title and an artist: the tokens tokenize() *)
(* makes of both, the tokens FindTracksByToken would match in them (it     *)
(* folds case for ASCII only and matches substrings) and whether both are  *)
(* non-empty.                                                              *)
(***************************************************************************)
MetaType == [tokens: SUBSET Token, matches: SUBSET Token, recognized: BOOLEAN]
Blank    == [tokens |-> {}, matches |-> {}, recognized |-> FALSE]

\* models.Track: the durable record of a track, and a goroutine's copy of it.
Track == [id: Ids, meta: Meta, ctid: Ctid \cup {None}]

ASSUME ProcsAssumption ==
    /\ Workers \cap Callers = {}
    /\ (Workers \cup Callers) \cap Announcers = {}
    /\ "loop" \notin Workers \cup Callers
ASSUME AnnouncersAssumption == Announcers \subseteq {"initial", "loop"}
ASSUME MetaAssumption    == Meta \subseteq MetaType /\ Blank \in Meta
ASSUME NoneAssumption    == None \notin Ids /\ None \notin Ctid /\ None \notin Track
ASSUME BoundsAssumption  == QueueCap \in Nat /\ MaxExits \in Nat
ASSUME FaultsAssumption  == Faults \subseteq FaultKinds

VARIABLES
    store,         \* Badger: track ID -> saved track, durable
    files,         \* the copied audio files, durable
    ctidRecords,   \* provider records naming this peer: CTIDs
    tokenRecords,  \* provider records naming this peer: tokens
    index,         \* search.localIndex: token -> CTIDs
    queue,         \* ctr.queue
    pc,            \* where each goroutine is
    trk,           \* the track it holds
    todo,          \* the tokens it has still to announce
    visit,         \* the rest of an announcer's GetAllTracks snapshot
    call,          \* the request an API handler serves
    phase,         \* "up", "stopping" (Stop called), "down"
    exits          \* crashes and stops so far

durable == <<store, files>>
network == <<ctidRecords, tokenRecords>>
local   == <<pc, trk, todo, visit, call>>
life    == <<phase, exits>>
vars    == <<store, files, ctidRecords, tokenRecords, index, queue,
             pc, trk, todo, visit, call, phase, exits>>

-----------------------------------------------------------------------------

CallOf(op, i, f, m) == [op |-> op, id |-> i, path |-> f, meta |-> m, ok |-> FALSE]
NoCall == CallOf("none", None, None, Blank)

Saved(i)       == store[i] # None
Publishable(t) == t.meta.recognized /\ t.ctid # None
Published(i)   == Saved(i) /\ Publishable(store[i])

\* The context of a worker or of the announce loop ends with Stop; handlers
\* and the initial announcer (context.Background) are not told.
Cancelled(p) == phase = "stopping" /\ p \in Workers \cup {"loop"}
May(fault)   == fault \in Faults

Goto(p, l) == pc' = [pc EXCEPT ![p] = l]
Hold(p, t) == trk' = [trk EXCEPT ![p] = t]

(***************************************************************************)
(* The outcome ok of announcing key, with the records before and after.    *)
(* A failed announce may have reached some of the DHT's peers: the error   *)
(* is a timeout as often as a refusal.                                     *)
(***************************************************************************)
Announce(p, key, ok, before, after) ==
    \/ /\ ok
       /\ ~Cancelled(p)
       /\ after = before \cup {key}
    \/ /\ ~ok
       /\ May("provide") \/ Cancelled(p)
       /\ after \in {before, before \cup {key}}

\* Mutant: the guard at the head of UpdateLocalIndex is dropped.
IndexAnything(t) ==
    index' = [k \in Token |-> IF k \in t.meta.tokens /\ t.ctid # None
                              THEN index[k] \cup {t.ctid} ELSE index[k]]

\* search.UpdateLocalIndex: unprocessed and unrecognised tracks are refused.
UpdateLocalIndex(t) ==
    index' = IF Publishable(t)
             THEN [k \in Token |-> IF k \in t.meta.tokens
                                   THEN index[k] \cup {t.ctid} ELSE index[k]]
             ELSE index

\* Mutant: no fallback to the store.
IndexReplyFromMemory(k) == index[k]

\* Mutant: the fallback lets through tracks that are not recognised or not
\* processed yet.
IndexReplyUnfiltered(k) ==
    IF index[k] # {} THEN index[k]
    ELSE {store[i].ctid : i \in {j \in Ids : Saved(j) /\ k \in store[j].meta.matches}}

\* What HandleIndexQuery answers for token k: the in-memory index, and the
\* store only when the index has nothing.
IndexReply(k) ==
    IF index[k] # {} THEN index[k]
    ELSE {store[i].ctid : i \in {j \in Ids : Published(j) /\ k \in store[j].meta.matches}}

-----------------------------------------------------------------------------
(* API handlers: POST /tracks, POST /replicate, gRPC Share.                *)

Finish(c, ok) ==
    /\ Goto(c, "idle")
    /\ Hold(c, None)
    /\ call' = [call EXCEPT ![c] = [NoCall EXCEPT !.ok = ok]]

\* An error of ShareTrack: gRPC Share imports the file and tries again, once.
FailCall(c) ==
    IF call[c].op = "share" /\ call[c].path # None
    THEN Goto(c, "copy") /\ Hold(c, None) /\ UNCHANGED call
    ELSE Finish(c, FALSE)

Request(c, req, l) ==
    /\ pc[c] = "idle"
    /\ phase = "up"
    /\ call' = [call EXCEPT ![c] = req]
    /\ Goto(c, l)
    /\ UNCHANGED <<durable, network, index, queue, trk, todo, visit, life>>

RequestAdd(c) == \E f \in Ctid, m \in Meta :
    Request(c, CallOf("add", None, f, m), "copy")

\* POST /replicate shares by ID alone.  gRPC Share also brings the path and the
\* metadata, blanked unless the user has confirmed them.
RequestShare(c) == \E i \in Ids :
    \/ Request(c, CallOf("share", i, None, Blank), "get")
    \/ \E f \in Ctid, m \in Meta, recognized \in BOOLEAN :
          Request(c, CallOf("share", i, f, IF recognized THEN m ELSE Blank), "get")

\* AddTrack, first half: a fresh ID and a copy of the file.
CopyTrackFile(c) ==
    /\ pc[c] = "copy"
    /\ \/ \E i \in Ids :
            /\ ~Saved(i) /\ files[i] = None
            /\ files' = [files EXCEPT ![i] = call[c].path]
            /\ Hold(c, [id |-> i, meta |-> call[c].meta, ctid |-> None])
            /\ call' = [call EXCEPT ![c] = CallOf(@.op, i, None, Blank)]
            /\ Goto(c, "addSave")
       \/ /\ May("copy") \/ \A i \in Ids : Saved(i) \/ files[i] # None
          /\ Finish(c, FALSE)
          /\ UNCHANGED files
    /\ UNCHANGED <<store, network, index, queue, todo, visit, life>>

\* AddTrack, second half: SaveTrack ...
SaveNewTrack(c) ==
    /\ pc[c] = "addSave"
    /\ \/ /\ store' = [store EXCEPT ![trk[c].id] = trk[c]]
          /\ Goto(c, "enqueue")
          /\ UNCHANGED <<trk, call>>
       \/ /\ May("save")
          /\ Finish(c, FALSE)
          /\ UNCHANGED store
    /\ UNCHANGED <<files, network, index, queue, todo, visit, life>>

\* Mutant: an unbounded queue.
QueueTrackUnbounded(c) ==
    /\ pc[c] = "enqueue"
    /\ queue' = IF phase = "up" THEN Append(queue, trk[c]) ELSE queue
    /\ Finish(c, TRUE)
    /\ UNCHANGED <<durable, network, index, todo, visit, life>>

\* Mutant: AddTrack queues its track first and saves it afterwards, when a worker
\* or a handler may have processed the track already.
QueueTrackThenSave(c) ==
    /\ pc[c] = "enqueue"
    /\ store' = [store EXCEPT ![trk[c].id] = trk[c]]
    /\ Finish(c, TRUE)
    /\ UNCHANGED <<files, network, index, queue, todo, visit, life>>

\* ... and QueueTrack, which drops the track when CTR is stopped or the queue
\* is full.  gRPC Share goes on to share the track it has just added.
QueueTrack(c) ==
    /\ pc[c] = "enqueue"
    /\ queue' = IF phase = "up" /\ Len(queue) < QueueCap
                THEN Append(queue, trk[c]) ELSE queue
    /\ IF call[c].op = "share"
       THEN Goto(c, "get") /\ Hold(c, None) /\ UNCHANGED call
       ELSE Finish(c, TRUE)
    /\ UNCHANGED <<durable, network, index, todo, visit, life>>

\* Mutant: ShareTrack does not ask whether the user confirmed the metadata.
GetTrackUnchecked(c) ==
    /\ pc[c] = "get"
    /\ LET t == store[call[c].id] IN
       IF t = None THEN FailCall(c)
       ELSE Goto(c, IF t.ctid = None THEN "decode" ELSE "announce")
            /\ Hold(c, t) /\ UNCHANGED call
    /\ UNCHANGED <<durable, network, index, queue, todo, visit, life>>

\* ShareTrack: a track without a CTID is processed first, recognised or not.
GetTrack(c) ==
    /\ pc[c] = "get"
    /\ LET t == store[call[c].id] IN
       IF t = None THEN FailCall(c)
       ELSE IF t.ctid = None
            THEN Goto(c, "decode") /\ Hold(c, t) /\ UNCHANGED call
            ELSE IF t.meta.recognized
                 THEN Goto(c, "announce") /\ Hold(c, t) /\ UNCHANGED call
                 ELSE FailCall(c)
    /\ UNCHANGED <<durable, network, index, queue, todo, visit, life>>

\* ShareTrack re-reads the track once ProcessTrack has returned.
RereadTrack(c) ==
    /\ pc[c] = "notifyTokens" /\ todo[c] = {}
    /\ LET t == store[trk[c].id] IN
       IF t.ctid # None /\ t.meta.recognized
       THEN Goto(c, "announce") /\ Hold(c, t) /\ UNCHANGED call
       ELSE FailCall(c)
    /\ UNCHANGED <<durable, network, index, queue, todo, visit, life>>

\* ShareTrack: a CTID that cannot be announced fails the call.
AnnounceShared(c) ==
    /\ pc[c] = "announce"
    /\ \E ok \in BOOLEAN :
          /\ Announce(c, trk[c].ctid, ok, ctidRecords, ctidRecords')
          /\ IF ok
             THEN /\ Goto(c, "announceTokens")
                  /\ todo' = [todo EXCEPT ![c] = trk[c].meta.tokens]
                  /\ UNCHANGED <<trk, call>>
             ELSE FailCall(c) /\ UNCHANGED todo
    /\ UNCHANGED <<durable, tokenRecords, index, queue, visit, life>>

\* Mutant: ShareTrack trusts onTrackProcessed to have filled the index.
IndexSharedNever(c) ==
    /\ pc[c] = "announceTokens" /\ todo[c] = {}
    /\ Finish(c, TRUE)
    /\ UNCHANGED <<durable, network, index, queue, todo, visit, life>>

\* ShareTrack ends with the local index.
IndexShared(c) ==
    /\ pc[c] = "announceTokens" /\ todo[c] = {}
    /\ UpdateLocalIndex(trk[c])
    /\ Finish(c, TRUE)
    /\ UNCHANGED <<durable, network, queue, todo, visit, life>>

-----------------------------------------------------------------------------
(* ctr.ProcessTrack, run by the workers and, for ShareTrack, by handlers.  *)

FailProcessing(p) ==
    IF p \in Workers
    THEN Goto(p, "idle") /\ Hold(p, None) /\ UNCHANGED call
    ELSE FailCall(p)

\* computeCTID: a deterministic decoder (FfmpegDecode has the one that is not).
ComputeCTID(p) ==
    /\ pc[p] = "decode"
    /\ \/ /\ Hold(p, [trk[p] EXCEPT !.ctid = files[trk[p].id]])
          /\ Goto(p, "save")
          /\ UNCHANGED call
       \/ /\ May("decode") \/ Cancelled(p)
          /\ FailProcessing(p)
    /\ UNCHANGED <<durable, network, index, queue, todo, visit, life>>

\* Mutant: an error of SaveTrack is logged and ignored.
SaveProcessedOrNot(p) ==
    /\ pc[p] = "save"
    /\ store' \in {store, [store EXCEPT ![trk[p].id] = trk[p]]}
    /\ Goto(p, IF trk[p].meta.recognized THEN "provide" ELSE "notify")
    /\ UNCHANGED <<files, network, index, queue, trk, todo, visit, call, life>>

SaveProcessed(p) ==
    /\ pc[p] = "save"
    /\ \/ /\ store' = [store EXCEPT ![trk[p].id] = trk[p]]
          /\ Goto(p, IF trk[p].meta.recognized THEN "provide" ELSE "notify")
          /\ UNCHANGED <<trk, call>>
       \/ /\ May("save")
          /\ FailProcessing(p)
          /\ UNCHANGED store
    /\ UNCHANGED <<files, network, index, queue, todo, visit, life>>

\* A failed Provide is not an error here.
ProvideProcessed(p) ==
    /\ pc[p] = "provide"
    /\ \E ok \in BOOLEAN : Announce(p, trk[p].ctid, ok, ctidRecords, ctidRecords')
    /\ Goto(p, "notify")
    /\ UNCHANGED <<durable, tokenRecords, index, queue, trk, todo, visit, call, life>>

\* daemon.onTrackProcessed: nothing for an unrecognised track.
OnTrackProcessed(p) ==
    /\ pc[p] = "notify"
    /\ UpdateLocalIndex(trk[p])
    /\ todo' = [todo EXCEPT ![p] = IF Publishable(trk[p]) THEN trk[p].meta.tokens ELSE {}]
    /\ Goto(p, "notifyTokens")
    /\ UNCHANGED <<durable, network, queue, trk, visit, call, life>>

\* One ProvideToken of the loops in onTrackProcessed, ShareTrack and
\* announceAllTracks; its error is ignored by all three.
ProvideToken(p) ==
    /\ pc[p] \in {"notifyTokens", "announceTokens", "provideTokens"}
    /\ \E k \in todo[p], ok \in BOOLEAN :
          /\ Announce(p, k, ok, tokenRecords, tokenRecords')
          /\ todo' = [todo EXCEPT ![p] = @ \ {k}]
    /\ UNCHANGED <<durable, ctidRecords, index, queue, pc, trk, visit, call, life>>

WorkerTake(w) ==
    /\ pc[w] = "idle" /\ queue # <<>>
    /\ Hold(w, Head(queue))
    /\ queue' = Tail(queue)
    /\ Goto(w, "decode")
    /\ UNCHANGED <<durable, network, index, todo, visit, call, life>>

WorkerDone(w) ==
    /\ pc[w] = "notifyTokens" /\ todo[w] = {}
    /\ Goto(w, "idle") /\ Hold(w, None)
    /\ UNCHANGED <<durable, network, index, queue, todo, visit, call, life>>

\* Mutant: the worker gives up when it finds the queue empty.
WorkerExitWhenIdle(w) ==
    /\ pc[w] = "idle" /\ (Cancelled(w) \/ queue = <<>>)
    /\ Goto(w, "exited")
    /\ UNCHANGED <<durable, network, index, queue, trk, todo, visit, call, life>>

\* select may still prefer the queue after Stop; both are ready.
WorkerExit(w) ==
    /\ pc[w] = "idle" /\ Cancelled(w)
    /\ Goto(w, "exited")
    /\ UNCHANGED <<durable, network, index, queue, trk, todo, visit, call, life>>

-----------------------------------------------------------------------------
(* daemon.announceAllTracks: once after start and on every tick.           *)

\* A tick may be pending when Stop cancels the context; select takes either.
Snapshot(a) ==
    /\ pc[a] = "idle"
    /\ visit' = [visit EXCEPT ![a] = {store[i] : i \in {j \in Ids : Published(j)}}]
    /\ Goto(a, "visit")
    /\ UNCHANGED <<durable, network, index, queue, trk, todo, call, life>>

BetweenTracks(a) == pc[a] = "visit" \/ (pc[a] = "provideTokens" /\ todo[a] = {})

\* Mutant: announceAllTracks announces without refreshing the local index.
VisitTrackOnly(a) ==
    /\ BetweenTracks(a)
    /\ \E t \in visit[a] : visit' = [visit EXCEPT ![a] = @ \ {t}] /\ Hold(a, t)
    /\ Goto(a, "provideTrack")
    /\ UNCHANGED <<durable, network, index, queue, todo, call, life>>

VisitTrack(a) ==
    /\ BetweenTracks(a)
    /\ \E t \in visit[a] :
          /\ visit' = [visit EXCEPT ![a] = @ \ {t}]
          /\ Hold(a, t)
          /\ UpdateLocalIndex(t)
    /\ Goto(a, "provideTrack")
    /\ UNCHANGED <<durable, network, queue, todo, call, life>>

\* A CTID that cannot be announced skips the track's tokens.
ProvideTrack(a, ok) ==
    /\ pc[a] = "provideTrack"
    /\ Announce(a, trk[a].ctid, ok, ctidRecords, ctidRecords')
    /\ IF ok
       THEN /\ todo' = [todo EXCEPT ![a] = trk[a].meta.tokens]
            /\ Goto(a, "provideTokens")
       ELSE Goto(a, "visit") /\ UNCHANGED todo
    /\ UNCHANGED <<durable, tokenRecords, index, queue, trk, visit, call, life>>

\* Mutant: the announce loop ends after its first round.
EndRoundForGood(a) ==
    /\ BetweenTracks(a) /\ visit[a] = {}
    /\ Goto(a, "exited") /\ Hold(a, None)
    /\ UNCHANGED <<durable, network, index, queue, todo, visit, call, life>>

EndRound(a) ==
    /\ BetweenTracks(a) /\ visit[a] = {}
    /\ Goto(a, IF a = "loop" THEN "idle" ELSE "exited")
    /\ Hold(a, None)
    /\ UNCHANGED <<durable, network, index, queue, todo, visit, call, life>>

LoopExit(a) ==
    /\ pc[a] = "idle" /\ Cancelled(a)
    /\ Goto(a, "exited")
    /\ UNCHANGED <<durable, network, index, queue, trk, todo, visit, call, life>>

-----------------------------------------------------------------------------
(* The daemon's life.                                                      *)

\* daemon.Stop as far as ctr.Stop's wait; main lets in no request after it.
Stop ==
    /\ phase = "up" /\ exits < MaxExits
    /\ phase' = "stopping" /\ exits' = exits + 1
    /\ UNCHANGED <<durable, network, index, queue, local>>

\* The end of the process: after Stop (all workers gone or the 10 s timeout),
\* or a crash.  Only the disk and the DHT remember anything.
Exit ==
    /\ \/ phase = "stopping" /\ UNCHANGED exits
       \/ phase = "up" /\ exits < MaxExits /\ exits' = exits + 1
    /\ phase' = "down"
    /\ index' = [k \in Token |-> {}]
    /\ queue' = <<>>
    /\ pc'    = [p \in Procs |-> "off"]
    /\ trk'   = [p \in Procs |-> None]
    /\ todo'  = [p \in Procs |-> {}]
    /\ visit' = [a \in Announcers |-> {}]
    /\ call'  = [c \in Callers |-> NoCall]
    /\ UNCHANGED <<durable, network>>

\* main and daemon.Start: nothing is queued again from the store.
Start ==
    /\ phase = "down"
    /\ phase' = "up"
    /\ pc' = [p \in Procs |-> "idle"]
    /\ UNCHANGED <<durable, network, index, queue, trk, todo, visit, call, exits>>

\* Provider records age in the DHT.
Expire ==
    /\ May("expire")
    /\ \/ /\ \E c \in ctidRecords : ctidRecords' = ctidRecords \ {c}
          /\ UNCHANGED tokenRecords
       \/ /\ \E k \in tokenRecords : tokenRecords' = tokenRecords \ {k}
          /\ UNCHANGED ctidRecords
    /\ UNCHANGED <<durable, index, queue, local, life>>

-----------------------------------------------------------------------------

Init ==
    /\ store = [i \in Ids |-> None]
    /\ files = [i \in Ids |-> None]
    /\ ctidRecords = {} /\ tokenRecords = {}
    /\ index = [k \in Token |-> {}]
    /\ queue = <<>>
    /\ pc    = [p \in Procs |-> "off"]
    /\ trk   = [p \in Procs |-> None]
    /\ todo  = [p \in Procs |-> {}]
    /\ visit = [a \in Announcers |-> {}]
    /\ call  = [c \in Callers |-> NoCall]
    /\ phase = "down" /\ exits = 0

ProcessTrack(p) == \/ ComputeCTID(p) \/ SaveProcessed(p) \/ ProvideProcessed(p)
                   \/ OnTrackProcessed(p) \/ ProvideToken(p)

Worker(w) == WorkerTake(w) \/ ProcessTrack(w) \/ WorkerDone(w) \/ WorkerExit(w)

Requests(c) == RequestAdd(c) \/ RequestShare(c)

Handler(c) == \/ CopyTrackFile(c) \/ SaveNewTrack(c) \/ QueueTrack(c)
              \/ GetTrack(c) \/ ProcessTrack(c)
              \/ RereadTrack(c) \/ AnnounceShared(c) \/ IndexShared(c)

Announcer(a) == \/ Snapshot(a) \/ VisitTrack(a) \/ EndRound(a) \/ ProvideToken(a)
                \/ LoopExit(a)
                \/ \E ok \in BOOLEAN : ProvideTrack(a, ok)

Next == \/ \E w \in Workers : Worker(w)
        \/ \E c \in Callers : Requests(c) \/ Handler(c)
        \/ \E a \in Announcers : Announcer(a)
        \/ Stop \/ Exit \/ Start \/ Expire

Spec == Init /\ [][Next]_vars

-----------------------------------------------------------------------------
(* Fairness.  Every goroutine the Go scheduler runs makes progress, the     *)
(* ticker ticks, a stopped daemon exits (the 10 s shutdown context), a      *)
(* daemon that is down is started again.  Nobody has to send a request, and *)
(* the network is fair only in that an announcement tried for ever succeeds *)
(* for ever.                                                                *)

Fairness ==
    /\ \A w \in Workers : WF_vars(Worker(w))
    /\ \A c \in Callers : WF_vars(Handler(c))
    /\ \A a \in Announcers : WF_vars(Announcer(a))
    /\ WF_vars(phase = "stopping" /\ Exit) /\ WF_vars(Start)
    /\ \A a \in Announcers, i \in Ids :
          SF_vars(trk[a] # None /\ trk[a].id = i /\ ProvideTrack(a, TRUE))
    /\ \A a \in Announcers, k \in Token :
          SF_vars(ProvideToken(a) /\ k \in tokenRecords')

FairSpec == Spec /\ Fairness

-----------------------------------------------------------------------------
(* Properties.                                                             *)

CallType == [op: {"none", "add", "share"}, id: Ids \cup {None},
             path: Ctid \cup {None}, meta: Meta, ok: BOOLEAN]

Labels == {"off", "idle", "exited", "copy", "addSave", "enqueue", "get",
           "decode", "save", "provide", "notify", "notifyTokens",
           "announce", "announceTokens", "visit", "provideTrack", "provideTokens"}

\* Every variable has its type: records of the daemon's structs, a queue that
\* never outgrows the channel of ctr.New.
TypeOK ==
    /\ store \in [Ids -> Track \cup {None}]
    /\ files \in [Ids -> Ctid \cup {None}]
    /\ ctidRecords \subseteq Ctid
    /\ tokenRecords \subseteq Token
    /\ index \in [Token -> SUBSET Ctid]
    /\ queue \in Seq(Track) /\ Len(queue) <= QueueCap
    /\ pc \in [Procs -> Labels]
    /\ trk \in [Procs -> Track \cup {None}]
    /\ todo \in [Procs -> SUBSET Token]
    /\ visit \in [Announcers -> SUBSET Track]
    /\ call \in [Callers -> CallType]
    /\ phase \in {"up", "stopping", "down"}
    /\ exits \in 0..MaxExits

\* Whatever the network was told this peer provides, the peer can serve from
\* disk: the CTID is that of a saved recognised track whose file decodes to it,
\* the token one of such a track's, whatever crashed or failed in between
\* (ctr.go saves before it announces; server.go:276, "unrecognized tracks must
\* not be shared automatically").
RecordsAreServable ==
    /\ \A c \in ctidRecords : \E i \in Ids :
          Published(i) /\ store[i].ctid = c /\ files[i] = c
    /\ \A k \in tokenRecords : \E i \in Ids :
          Published(i) /\ k \in store[i].meta.tokens

\* The token index lists a CTID under a token only if a saved recognised track
\* has both (search.UpdateLocalIndex is fed from three places, none of which
\* ever removes anything).
IndexIsBacked ==
    \A k \in Token : \A c \in index[k] : \E i \in Ids :
        Published(i) /\ store[i].ctid = c /\ k \in store[i].meta.tokens

\* A peer that the network lists under a token answers a query for it with
\* something, also right after a restart with an empty index
\* (index_protocol.go:91-107), unless the store finds none of its titles with that
\* token by it: tokenize folds capitals that storage.toLower (storage.go:163) does
\* not, and such a peer may answer nothing.
AdvertisedTokenIsAnswered == phase # "down" =>
    \A k \in tokenRecords :
        LET named == {i \in Ids : Published(i) /\ k \in store[i].meta.tokens}
        IN  \/ IndexReply(k) # {}
            \/ named # {} /\ \A i \in named : k \notin store[i].meta.matches

Indexed(i) == \A k \in store[i].meta.tokens : store[i].ctid \in index[k]

\* ShareTrack reports success only for a track that is durable, recognised,
\* has a CTID and is found by every one of its tokens.
ShareOkMeansFindable ==
    [][\A c \in Callers, i \in Ids :
          /\ call[c].op = "share" /\ call[c].id = i
          /\ call'[c].op = "none" /\ call'[c].ok
          => (Published(i) /\ Indexed(i))']_vars

EntryOf(t) ==
    [id |-> t.id, ctid |-> t.ctid, tokens |-> t.meta.tokens, matches |-> t.meta.matches]
Entries    == {EntryOf(store[i]) : i \in {j \in Ids : Published(j)}}

Catalog == INSTANCE Catalogue WITH
    entries <- Entries, ctids <- ctidRecords, tokens <- tokenRecords

\* No entry of the catalogue is ever changed or withdrawn and no record gets
\* ahead of it: the slow copies of a track that workers, handlers and
\* announcers hold never overwrite what another of them saved.
ImplementsCatalogue == Catalog!CatalogueSpec

\* The index protocol answers as the catalogue promises, whether the index is
\* full, empty after a restart or anything between: never a track that is not
\* published, and something if the store finds a published track by the token
\* (index_protocol.go:81-107).  The searches of other peers rest on this.
AnswersAsPromised == \A k \in Token : IndexReply(k) \in Catalog!Answers(k)

Underway(i) ==
    \/ \E n \in 1..Len(queue) : queue[n].id = i
    \/ \E w \in Workers : pc[w] \in {"decode", "save"} /\ trk[w].id = i

Processed(i) == Saved(i) /\ store[i].ctid # None

\* Worker w gives up track i: its decoding or saving fails or is cut short.
GivesUp(w, i) ==
    /\ pc[w] \in {"decode", "save"} /\ trk[w].id = i
    /\ pc'[w] = "idle"
    /\ May(pc[w]) \/ (pc[w] = "decode" /\ Cancelled(w))

\* A track on the queue is not lost: until the process ends it stays there or in
\* a worker's hands, Stop or not, and leaves these processed, unless its own
\* decoding or saving fails (ctr.go 106-160).
QueuedIsNotLost ==
    [][\A i \in Ids : Underway(i) /\ phase # "down" /\ phase' # "down" =>
          (Underway(i) \/ Processed(i))' \/ \E w \in Workers : GivesUp(w, i)]_vars

\* While the daemon is up, every saved recognised track with a CTID gets into
\* the token index, also one saved before the last crash and whatever the
\* network does (daemon.go:180, UpdateLocalIndex before Provide).
EventuallyIndexed == \A i \in Ids :
    (phase = "up" /\ Published(i)) ~>
        (phase # "up" \/ (Published(i) /\ Indexed(i)))

\* ... and gets announced, CTID and tokens ("Non-fatal; periodic announce will
\* retry", daemon.go:209), although every single announcement may fail.
EventuallyAdvertised == \A i \in Ids :
    /\ (phase = "up" /\ Published(i)) ~> 
              (phase # "up" \/ (Published(i) /\ store[i].ctid \in ctidRecords))
    /\ \A k \in Token :
          (phase = "up" /\ Published(i) /\ k \in store[i].meta.tokens) ~>
              (phase # "up" \/ k \in tokenRecords)

\* A queued track is processed or the daemon goes down: no worker waits on
\* another one, on a handler or on the announcers for ever.
QueuedIsProcessed == \A i \in Ids :
    (\E n \in 1..Len(queue) : queue[n].id = i) ~>
        (phase # "up" \/ Processed(i))

\* "announceLoop periodically announces all recognized tracks" (daemon.go:130)
\* and "AddTrack adds a new track (copies file and processes)" (daemon.go:303):
\* a saved recognised track gets announced sooner or later.
RecognizedIsAnnounced == \A i \in Ids :
    (Saved(i) /\ store[i].meta.recognized) ~>
        (Saved(i) /\ store[i].ctid \in ctidRecords)

\* "Fallback: rebuild candidates from persistent storage when in-memory index is
\* temporarily stale (e.g. after restarts)" (index_protocol.go:91): with nothing
\* in flight, an index query lists every published track that has the token.
StaleIndexIsRebuilt ==
    (phase = "up" /\ \A p \in Workers \cup Callers : pc[p] = "idle")
    => \A i \in Ids : Published(i) =>
          \A k \in store[i].meta.tokens : store[i].ctid \in IndexReply(k)

=============================================================================
