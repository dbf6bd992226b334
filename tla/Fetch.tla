------------------------------- MODULE Fetch -------------------------------
(***************************************************************************)
(* Downloading a track: POST /replicate (control/server.go) and gRPC Fetch *)
(* (proto/server.go), FetchTrack (daemon.go), StreamFromPeer and, at the   *)
(* other end of the stream, handleStream (streaming.go).                   *)
(*                                                                         *)
(* There is one CTID.  Peers that have it have the same file, as replicas  *)
(* made by downloading do: Chunks chunks of 64 KB.  A process is one       *)
(* download together with the goroutine that serves its current stream.    *)
(***************************************************************************)
EXTENDS Naturals, FiniteSets

CONSTANTS
    Peers,         \* peers the DHT may name as providers
    Reliable,      \* those among them that have the track and serve it to the end
    Downloads,     \* downloads that may run at the same time
    Paths,         \* output paths
    FullPaths,     \* those where creating or writing the file may fail
    Chunks,        \* chunks of the file
    MaxProviders,  \* providers FetchTrack asks for (12 in the code)
    Faults,        \* what may go wrong: subset of FaultKinds
    None           \* no path, no peer

FaultKinds == {"lookup", "connect", "serve", "reset"}
Complete   == 1..Chunks

ASSUME ReliableAssumption == Reliable \subseteq Peers /\ FullPaths \subseteq Paths
ASSUME SizesAssumption    == Chunks \in Nat /\ MaxProviders \in Nat
ASSUME FaultsAssumption   == Faults \subseteq FaultKinds
ASSUME NoneAssumption     == None \notin Peers /\ None \notin Paths

VARIABLES
    disk,     \* the chunks that a path holds, at their places; none without a file
    pc,       \* where a download is
    path,     \* where it writes
    rest,     \* providers it has not tried yet
    peer,     \* the provider it talks to
    stream,   \* the stream from that provider: chunks sent, and how it ended
    got       \* chunks received

fetchVars == <<disk, pc, path, rest, peer, stream, got>>

\* Only the providers that are not reliable fail.
May(q, fault) == fault \in Faults /\ q \notin Reliable
Fresh         == [sent |-> 0, end |-> "open"]
Goto(d, l)    == pc' = [pc EXCEPT ![d] = l]

-----------------------------------------------------------------------------

\* Fetch and /replicate without a peer: FetchTrack looks for providers.
RequestFromNetwork(d, p) ==
    /\ pc[d] = "idle"
    /\ path' = [path EXCEPT ![d] = p]
    /\ Goto(d, "find")
    /\ UNCHANGED <<disk, rest, peer, stream, got>>

\* Fetch with a peer: FetchTrackFromPeer tries that one only.
RequestFromPeer(d, p, q) ==
    /\ pc[d] = "idle"
    /\ path' = [path EXCEPT ![d] = p]
    /\ rest' = [rest EXCEPT ![d] = {q}]
    /\ Goto(d, "try")
    /\ UNCHANGED <<disk, peer, stream, got>>

\* The lookup itself returns what it finds in its time, if only nothing; only a
\* CTID that is no hash is refused.
Find(d) ==
    /\ pc[d] = "find"
    /\ \/ \E qs \in SUBSET Peers :
            /\ Cardinality(qs) <= MaxProviders
            /\ rest' = [rest EXCEPT ![d] = qs]
            /\ Goto(d, "try")
       \/ /\ "lookup" \in Faults
          /\ Goto(d, "failed")
          /\ UNCHANGED rest
    /\ UNCHANGED <<disk, path, peer, stream, got>>

\* Mutant: FetchTrack returns the first provider's error.
TryPeerOnce(d) ==
    /\ pc[d] = "try"
    /\ \E q \in rest[d] :
          /\ peer' = [peer EXCEPT ![d] = q]
          /\ rest' = [rest EXCEPT ![d] = {}]
          /\ \/ Goto(d, "create") /\ stream' = [stream EXCEPT ![d] = Fresh]
             \/ May(q, "connect") /\ UNCHANGED <<pc, stream>>
    /\ UNCHANGED <<disk, path, got>>

\* Mutant: a provider that fails is tried again, for ever.
TryPeerAgain(d) ==
    /\ pc[d] = "try"
    /\ \E q \in rest[d] :
          /\ peer' = [peer EXCEPT ![d] = q]
          /\ \/ Goto(d, "create") /\ stream' = [stream EXCEPT ![d] = Fresh]
             \/ May(q, "connect") /\ UNCHANGED <<pc, stream>>
    /\ UNCHANGED <<disk, path, rest, got>>

\* StreamFromPeer connects, opens the stream and sends the request; the output
\* file is not touched if any of it fails.
TryPeer(d) ==
    /\ pc[d] = "try"
    /\ \E q \in rest[d] :
          /\ peer' = [peer EXCEPT ![d] = q]
          /\ rest' = [rest EXCEPT ![d] = @ \ {q}]
          /\ \/ Goto(d, "create") /\ stream' = [stream EXCEPT ![d] = Fresh]
             \/ May(q, "connect") /\ UNCHANGED <<pc, stream>>
    /\ UNCHANGED <<disk, path, got>>

\* No provider, or none that worked.
GiveUp(d) ==
    /\ pc[d] = "try" /\ rest[d] = {}
    /\ Goto(d, "failed")
    /\ UNCHANGED <<disk, path, rest, peer, stream, got>>

\* os.Create truncates what a previous attempt has left.
CreateOutput(d) ==
    /\ pc[d] = "create"
    /\ \/ /\ disk' = [disk EXCEPT ![path[d]] = {}]
          /\ got' = [got EXCEPT ![d] = 0]
          /\ Goto(d, "receive")
       \/ /\ path[d] \in FullPaths
          /\ Goto(d, "try")
          /\ UNCHANGED <<disk, got>>
    /\ UNCHANGED <<path, rest, peer, stream>>

\* Mutant: the chunk count is rounded up twice.
ServeOneMore(d) ==
    /\ pc[d] \in {"create", "receive"} /\ stream[d].end = "open"
    /\ stream[d].sent <= Chunks
    /\ stream' = [stream EXCEPT ![d].sent = @ + 1]
    /\ UNCHANGED <<disk, pc, path, rest, peer, got>>

\* handleStream: the next chunk, an error chunk (no such track, a file that
\* cannot be opened or read) or the end.
Serve(d) ==
    /\ pc[d] \in {"create", "receive"} /\ stream[d].end = "open"
    /\ \/ /\ stream[d].sent < Chunks
          /\ stream' = [stream EXCEPT ![d].sent = @ + 1]
       \/ /\ stream[d].sent = Chunks
          /\ stream' = [stream EXCEPT ![d].end = "eof"]
       \/ /\ May(peer[d], "serve")
          /\ stream' = [stream EXCEPT ![d].end = "error"]
    /\ UNCHANGED <<disk, pc, path, rest, peer, got>>

\* A chunk goes to its place in the file; the last one ends the download.
Receive(d) ==
    /\ pc[d] = "receive" /\ got[d] < stream[d].sent
    /\ \/ /\ got' = [got EXCEPT ![d] = @ + 1]
          /\ disk' = [disk EXCEPT ![path[d]] = @ \cup {got'[d]}]
          /\ Goto(d, IF got'[d] >= Chunks THEN "ok" ELSE "receive")
       \/ /\ path[d] \in FullPaths
          /\ Goto(d, "try")
          /\ UNCHANGED <<disk, got>>
    /\ UNCHANGED <<path, rest, peer, stream>>

\* Mutant: an error chunk is not recognised; its index, -1, passes for the last.
ReceiveAnyEnd(d) ==
    /\ pc[d] = "receive" /\ got[d] = stream[d].sent /\ stream[d].end # "open"
    /\ Goto(d, "ok")
    /\ UNCHANGED <<disk, path, rest, peer, stream, got>>

\* io.EOF between two messages ends the loop without an error; an error chunk
\* makes FetchTrack go on to the next provider.
ReceiveEnd(d) ==
    /\ pc[d] = "receive" /\ got[d] = stream[d].sent /\ stream[d].end # "open"
    /\ Goto(d, IF stream[d].end = "eof" THEN "ok" ELSE "try")
    /\ UNCHANGED <<disk, path, rest, peer, stream, got>>

\* The provider or the connection dies; chunks in flight are lost.
Reset(d) ==
    /\ pc[d] = "receive" /\ May(peer[d], "reset")
    /\ Goto(d, "try")
    /\ UNCHANGED <<disk, path, rest, peer, stream, got>>

\* The reply is sent; a failed download leaves its file as it is.
Return(d) ==
    /\ pc[d] \in {"ok", "failed"}
    /\ pc'     = [pc EXCEPT ![d] = "idle"]
    /\ path'   = [path EXCEPT ![d] = None]
    /\ rest'   = [rest EXCEPT ![d] = {}]
    /\ peer'   = [peer EXCEPT ![d] = None]
    /\ stream' = [stream EXCEPT ![d] = Fresh]
    /\ got'    = [got EXCEPT ![d] = 0]
    /\ UNCHANGED disk

-----------------------------------------------------------------------------

Init ==
    /\ disk   = [p \in Paths |-> {}]
    /\ pc     = [d \in Downloads |-> "idle"]
    /\ path   = [d \in Downloads |-> None]
    /\ rest   = [d \in Downloads |-> {}]
    /\ peer   = [d \in Downloads |-> None]
    /\ stream = [d \in Downloads |-> Fresh]
    /\ got    = [d \in Downloads |-> 0]

\* StreamFromPeer and handleStream for download d.
Download(d) == \/ Find(d) \/ TryPeer(d) \/ GiveUp(d) \/ CreateOutput(d)
               \/ Receive(d) \/ ReceiveEnd(d)

\* Environment: callers that give every running download a path of its own, as
\* /replicate does when none is given.
Unused(p) == \A d \in Downloads : path[d] # p

Request(d) == \E p \in Paths :
    /\ Unused(p)
    /\ \/ RequestFromNetwork(d, p)
       \/ \E q \in Peers : RequestFromPeer(d, p, q)

Next == \E d \in Downloads :
    Request(d) \/ Download(d) \/ Serve(d) \/ Reset(d) \/ Return(d)

Spec == Init /\ [][Next]_fetchVars

\* This end goes on, and so does a provider that is reliable.  Nothing is asked of
\* the others: they may stay connected and send nothing more, and StreamFromPeer
\* sets no deadline on the wait for the next chunk.
Fairness == \A d \in Downloads :
    WF_fetchVars(Download(d)) /\ WF_fetchVars(peer[d] \in Reliable /\ Serve(d))

FairSpec == Spec /\ Fairness

-----------------------------------------------------------------------------
(* Properties.                                                             *)

StreamType == [sent: 0..Chunks, end: {"open", "eof", "error"}]

Labels == {"idle", "find", "try", "create", "receive", "ok", "failed"}

\* Every variable has its type; no download receives more than was sent.
TypeOK ==
    /\ disk \in [Paths -> SUBSET Complete]
    /\ pc \in [Downloads -> Labels]
    /\ path \in [Downloads -> Paths \cup {None}]
    /\ rest \in [Downloads -> SUBSET Peers]
    /\ peer \in [Downloads -> Peers \cup {None}]
    /\ stream \in [Downloads -> StreamType]
    /\ got \in [Downloads -> 0..Chunks]

\* A download that reports success has the whole file on disk, however many
\* providers failed it halfway (the truncation in StreamFromPeer, its check for
\* error chunks and its end-of-file handling are what this rests on).
FetchedIsComplete ==
    \A d \in Downloads : pc[d] = "ok" => disk[path[d]] = Complete

\* Some reliable provider is left to try, or is being tried.
Hopeful(d) ==
    /\ path[d] \notin FullPaths
    /\ \/ pc[d] \in {"try", "create", "receive"} /\ rest[d] \cap Reliable # {}
       \/ pc[d] \in {"create", "receive"} /\ peer[d] \in Reliable

\* No step of the others, of the network or of its own takes a download from
\* where it can still succeed to where it cannot: a failure costs it one provider
\* and never a good one, and only success ends it ("Try each provider",
\* daemon.go:290).
NotGivenUp ==
    [][\A d \in Downloads : Hopeful(d) => (Hopeful(d) \/ pc[d] = "ok")']_fetchVars

\* The caller's view of a download.
Outcome(l) == IF l \in {"idle", "ok", "failed"} THEN l ELSE "running"
Outcomes   == [d \in Downloads |-> Outcome(pc[d])]
Whole      == {p \in Paths : disk[p] = Complete}

Caller == INSTANCE Transfer WITH whole <- Whole, target <- path, state <- Outcomes

\* To its caller a download is a transfer to a path of its own: whatever it goes
\* through with its providers, only it changes whether the file there is whole,
\* and it reports success only when it is.
ImplementsTransfer == Caller!TransferSpec

\* The download waits for a provider that is not reliable, is still connected and
\* has sent nothing that was not received.
Held(d) ==
    /\ pc[d] = "receive" /\ peer[d] \notin Reliable
    /\ stream[d].end = "open" /\ got[d] = stream[d].sent

\* A download with a reliable provider among those it has left succeeds, unless
\* the local disk fails it or some provider tried before falls silent for good
\* while connected: failures, error chunks, truncated files and resets of the
\* others cost it nothing, in whatever order they come ("Try each provider",
\* daemon.go:290), but silence is not a failure to StreamFromPeer.
OneProviderIsEnough == \A d \in Downloads :
    (pc[d] = "try" /\ path[d] \notin FullPaths /\ rest[d] \cap Reliable # {})
        ~> (pc[d] = "ok" \/ []Held(d))

\* A request is answered, unless one of its providers falls silent for good
\* while connected: no failure, no order of providers and no other download
\* keeps FetchTrack from returning, and silence is the only thing that does.
FetchReturns == \A d \in Downloads :
    pc[d] = "find" ~> (pc[d] \in {"ok", "failed"} \/ []Held(d))

=============================================================================
