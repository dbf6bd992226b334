---------------------------- MODULE FetchProofs ----------------------------
(***************************************************************************)
(* Proofs about Fetch, for any number of peers, downloads, paths and       *)
(* chunks: a download that reports success has the whole file on disk.     *)
(***************************************************************************)
EXTENDS Fetch, TLAPS

\* A running download has a path that no other one writes to.
Exclusive ==
    /\ \A d \in Downloads : pc[d] # "idle" => path[d] \in Paths
    /\ \A d, e \in Downloads : d # e /\ path[d] # None => path[e] # path[d]

\* The stream is in order: what was received had been sent, and the sender
\* closes it after the last chunk only.
InOrder == \A d \in Downloads :
    /\ pc[d] = "receive" => got[d] <= stream[d].sent
    /\ stream[d].end = "eof" => stream[d].sent = Chunks

\* The file holds what the current attempt has received, and no more.
FileOK == \A d \in Downloads :
    /\ pc[d] = "receive" => disk[path[d]] = 1..got[d]
    /\ pc[d] = "ok" => disk[path[d]] = Complete

\* The inductive invariant.
IInv == TypeOK /\ Exclusive /\ InOrder /\ FileOK

-----------------------------------------------------------------------------

\* What the counters of a stream are.
LEMMA Counters ==
    ASSUME TypeOK, NEW d \in Downloads
    PROVE  stream[d].sent \in 0..Chunks /\ got[d] \in 0..Chunks /\ Chunks \in Nat
BY SizesAssumption DEF TypeOK, StreamType

\* Nothing runs in the beginning.
LEMMA InitIInv == Init => IInv
BY SizesAssumption, NoneAssumption
   DEF Init, IInv, StreamType, TypeOK, Exclusive, InOrder, FileOK, Fresh, Labels, Complete

\* A request takes a path that is not in use.
LEMMA RequestIInv ==
    ASSUME IInv, NEW d \in Downloads, Request(d)
    PROVE  IInv'
<1> USE DEF Goto
<1>1. PICK p \in Paths : /\ Unused(p)
                         /\ \/ RequestFromNetwork(d, p)
                            \/ \E q \in Peers : RequestFromPeer(d, p, q)
  BY DEF Request
<1>2. /\ pc[d] = "idle" /\ path' = [path EXCEPT ![d] = p]
      /\ pc'[d] \in {"find", "try"}
      /\ pc' = [pc EXCEPT ![d] = pc'[d]]
      /\ rest' \in [Downloads -> SUBSET Peers]
      /\ UNCHANGED <<disk, peer, stream, got>>
  <2>1. CASE RequestFromNetwork(d, p)
    BY <2>1 DEF RequestFromNetwork, IInv, TypeOK
  <2>2. ASSUME NEW q \in Peers, RequestFromPeer(d, p, q)
        PROVE  /\ pc[d] = "idle" /\ path' = [path EXCEPT ![d] = p]
               /\ pc'[d] \in {"find", "try"}
               /\ pc' = [pc EXCEPT ![d] = pc'[d]]
               /\ rest' \in [Downloads -> SUBSET Peers]
               /\ UNCHANGED <<disk, peer, stream, got>>
    BY <2>2 DEF RequestFromPeer, IInv, TypeOK
  <2> QED
    BY <1>1, <2>1, <2>2
<1>3. TypeOK'
  BY <1>2 DEF IInv, TypeOK, Labels
<1>4. Exclusive'
  BY <1>1, <1>2, NoneAssumption DEF IInv, TypeOK, Exclusive, Unused
<1>5. InOrder' /\ FileOK'
  BY <1>2 DEF IInv, TypeOK, InOrder, FileOK, Exclusive
<1> QED
  BY <1>3, <1>4, <1>5 DEF IInv

\* The steps of a download; only truncating and writing touch the disk, at a
\* path that is the download's own.
LEMMA DownloadIInv ==
    ASSUME IInv, NEW d \in Downloads, Download(d)
    PROVE  IInv'
<1> USE DEF Goto
<1>1. CASE Find(d)
  <2>1. /\ pc[d] = "find" /\ pc'[d] \in {"try", "failed"}
        /\ pc' = [pc EXCEPT ![d] = pc'[d]]
        /\ UNCHANGED <<disk, path, peer, stream, got>>
    BY <1>1 DEF Find, IInv, TypeOK
  <2>2. rest' \in [Downloads -> SUBSET Peers]
    BY <1>1 DEF Find, IInv, TypeOK
  <2>3. TypeOK'
    BY <2>1, <2>2 DEF IInv, TypeOK, Labels
  <2>4. Exclusive' /\ InOrder' /\ FileOK'
    BY <2>1 DEF IInv, TypeOK, Exclusive, InOrder, FileOK
  <2> QED
    BY <2>3, <2>4 DEF IInv
<1>2. CASE TryPeer(d)
  <2>1. PICK q \in rest[d] :
          /\ peer' = [peer EXCEPT ![d] = q]
          /\ rest' = [rest EXCEPT ![d] = @ \ {q}]
          /\ \/ Goto(d, "create") /\ stream' = [stream EXCEPT ![d] = Fresh]
             \/ UNCHANGED <<pc, stream>>
    BY <1>2 DEF TryPeer
  <2>2. UNCHANGED <<disk, path, got>> /\ pc[d] = "try"
    BY <1>2 DEF TryPeer
  <2>3. Fresh \in StreamType
    BY SizesAssumption DEF Fresh, StreamType
  <2>4. TypeOK'
    <3>1. rest' \in [Downloads -> SUBSET Peers]
      BY <2>1 DEF IInv, TypeOK
    <3>2. peer' \in [Downloads -> Peers \cup {None}]
      BY <2>1 DEF IInv, TypeOK
    <3>3. pc' \in [Downloads -> Labels] /\ stream' \in [Downloads -> StreamType]
      BY <2>1, <2>3 DEF IInv, TypeOK, Labels
    <3> QED
      BY <2>2, <3>1, <3>2, <3>3 DEF IInv, TypeOK
  <2>5. Exclusive' /\ FileOK'
    BY <2>1, <2>2 DEF IInv, TypeOK, Exclusive, FileOK
  <2>6. InOrder'
    BY <2>1, <2>2 DEF IInv, TypeOK, InOrder, Fresh
  <2> QED
    BY <2>4, <2>5, <2>6 DEF IInv
<1>3. CASE GiveUp(d)
  BY <1>3 DEF GiveUp, IInv, TypeOK, Exclusive, InOrder, FileOK, Labels
<1>4. CASE CreateOutput(d)
  <2>1. path[d] \in Paths /\ \A e \in Downloads : e # d => path[e] # path[d]
    BY <1>4, NoneAssumption DEF CreateOutput, IInv, Exclusive
  <2>2. TypeOK' /\ Exclusive'
    <3>1. pc' \in [Downloads -> Labels] /\ got' \in [Downloads -> 0..Chunks]
      BY <1>4, SizesAssumption DEF CreateOutput, IInv, TypeOK, Labels
    <3>2. disk' \in [Paths -> SUBSET Complete]
      BY <1>4 DEF CreateOutput, IInv, TypeOK
    <3>3. UNCHANGED <<path, rest, peer, stream>>
      BY <1>4 DEF CreateOutput
    <3>4. TypeOK'
      BY <3>1, <3>2, <3>3 DEF IInv, TypeOK
    <3>5. Exclusive'
      BY <1>4, <3>3 DEF CreateOutput, IInv, TypeOK, Exclusive
    <3> QED
      BY <3>4, <3>5
  <2>3. InOrder'
    <3>1. \A e \in Downloads : 0 <= stream[e].sent
      BY Counters DEF IInv
    <3>2. CASE got' = [got EXCEPT ![d] = 0] /\ Goto(d, "receive")
      BY <1>4, <3>1, <3>2 DEF CreateOutput, IInv, TypeOK, InOrder
    <3>3. CASE Goto(d, "try") /\ UNCHANGED got
      BY <1>4, <3>3 DEF CreateOutput, IInv, TypeOK, InOrder
    <3> QED
      BY <1>4, <3>2, <3>3 DEF CreateOutput
  <2>4. FileOK'
    <3>1. CASE disk' = [disk EXCEPT ![path[d]] = {}]
      <4>1. disk'[path[d]] = {} /\ \A p \in Paths : p # path[d] => disk'[p] = disk[p]
        BY <2>1, <3>1 DEF IInv, TypeOK
      <4>2. \A e \in Downloads : e # d => pc'[e] = pc[e] /\ got'[e] = got[e]
        BY <1>4 DEF CreateOutput, IInv, TypeOK
      <4>3. pc'[d] = "receive" => got'[d] = 0
        BY <1>4 DEF CreateOutput, IInv, TypeOK
      <4>4. pc'[d] # "ok" /\ path' = path
        BY <1>4 DEF CreateOutput, IInv, TypeOK
      <4>5. ASSUME NEW e \in Downloads
            PROVE  /\ pc'[e] = "receive" => disk'[path'[e]] = 1..got'[e]
                   /\ pc'[e] = "ok" => disk'[path'[e]] = Complete
        <5>1. CASE e = d
          <6>1. 1..0 = {}
            OBVIOUS
          <6> QED
            BY <4>1, <4>3, <4>4, <5>1, <6>1
        <5>2. CASE e # d
          <6>1. pc[e] \in {"receive", "ok"} => path[e] \in Paths
            BY DEF IInv, Exclusive
          <6> QED
            BY <2>1, <4>1, <4>2, <4>4, <5>2, <6>1 DEF IInv, FileOK
        <5> QED
          BY <5>1, <5>2
      <4> QED
        BY <4>5 DEF FileOK
    <3>2. CASE Goto(d, "try") /\ UNCHANGED <<disk, got>>
      BY <1>4, <3>2 DEF CreateOutput, IInv, TypeOK, FileOK
    <3> QED
      BY <1>4, <3>1, <3>2 DEF CreateOutput
  <2> QED
    BY <2>2, <2>3, <2>4 DEF IInv
<1>5. CASE Receive(d)
  <2>1. path[d] \in Paths /\ \A e \in Downloads : e # d => path[e] # path[d]
    BY <1>5, NoneAssumption DEF Receive, IInv, Exclusive
  <2>2. CASE pc' = [pc EXCEPT ![d] = "try"] /\ UNCHANGED <<disk, got>>
    BY <1>5, <2>2 DEF Receive, IInv, TypeOK, Exclusive, InOrder, FileOK, Labels
  <2>3. CASE /\ got' = [got EXCEPT ![d] = @ + 1]
             /\ disk' = [disk EXCEPT ![path[d]] = @ \cup {got'[d]}]
             /\ Goto(d, IF got'[d] >= Chunks THEN "ok" ELSE "receive")
    <3>1. /\ UNCHANGED <<path, rest, peer, stream>>
          /\ pc[d] = "receive" /\ got[d] < stream[d].sent
      BY <1>5 DEF Receive
    <3>2. /\ got'[d] = got[d] + 1 /\ got'[d] \in 1..Chunks /\ got'[d] <= stream[d].sent
          /\ \A e \in Downloads : e # d => got'[e] = got[e]
      BY <2>3, <3>1, Counters DEF IInv, TypeOK
    <3>3. /\ disk'[path[d]] = 1..got'[d]
          /\ \A p \in Paths : p # path[d] => disk'[p] = disk[p]
      BY <2>1, <2>3, <3>1, <3>2, SizesAssumption DEF IInv, TypeOK, FileOK
    <3>4. TypeOK'
      BY <2>1, <2>3, <3>1, <3>2, SizesAssumption DEF IInv, TypeOK, Labels, Complete
    <3>5. Exclusive' /\ InOrder'
      BY <2>3, <3>1, <3>2 DEF IInv, TypeOK, Exclusive, InOrder
    <3>6. pc'[d] = "ok" => got'[d] = Chunks
      BY <2>3, <3>2, SizesAssumption DEF IInv, TypeOK
    <3>7. ASSUME NEW e \in Downloads
          PROVE  /\ pc'[e] = "receive" => disk'[path'[e]] = 1..got'[e]
                 /\ pc'[e] = "ok" => disk'[path'[e]] = Complete
      <4>1. CASE e = d
        BY <3>1, <3>3, <3>6, <4>1 DEF Complete
      <4>2. CASE e # d
        BY <2>1, <2>3, <3>1, <3>2, <3>3, <4>2 DEF IInv, TypeOK, FileOK, Exclusive
      <4> QED
        BY <4>1, <4>2
    <3> QED
      BY <3>4, <3>5, <3>7 DEF IInv, FileOK
  <2> QED
    BY <1>5, <2>2, <2>3 DEF Receive
<1>6. CASE ReceiveEnd(d)
  <2>1. /\ pc[d] = "receive" /\ got[d] = stream[d].sent
        /\ pc' = [pc EXCEPT ![d] = IF stream[d].end = "eof" THEN "ok" ELSE "try"]
        /\ UNCHANGED <<disk, path, rest, peer, stream, got>>
    BY <1>6 DEF ReceiveEnd
  <2>2. stream[d].end = "eof" => disk[path[d]] = Complete
    BY <2>1 DEF IInv, InOrder, FileOK, Complete
  <2> QED
    BY <2>1, <2>2 DEF IInv, TypeOK, Exclusive, InOrder, FileOK, Labels
<1> QED
  BY <1>1, <1>2, <1>3, <1>4, <1>5, <1>6 DEF Download

\* The serving end only adds to the stream.
LEMMA ServeIInv ==
    ASSUME IInv, NEW d \in Downloads, Serve(d)
    PROVE  IInv'
<1>1. UNCHANGED <<disk, pc, path, rest, peer, got>> /\ stream[d].end = "open"
  BY DEF Serve
<1>2. /\ stream[d] \in StreamType
      /\ stream[d].sent \in Nat
  BY SizesAssumption DEF IInv, TypeOK, StreamType
<1>3. /\ stream'[d] \in StreamType
      /\ stream' = [stream EXCEPT ![d] = stream'[d]]
      /\ stream[d].sent <= stream'[d].sent /\ stream'[d].sent \in Nat
      /\ stream'[d].end = "eof" => stream'[d].sent = Chunks
  BY <1>1, <1>2, SizesAssumption DEF Serve, IInv, TypeOK, StreamType
<1>4. TypeOK'
  BY <1>1, <1>3 DEF IInv, TypeOK
<1>6. Exclusive' /\ FileOK'
  BY <1>1 DEF IInv, Exclusive, FileOK
<1>5. InOrder'
  <2>1. \A e \in Downloads : e # d => stream'[e] = stream[e]
    BY <1>3 DEF IInv, TypeOK
  <2>2. pc[d] = "receive" => got[d] <= stream'[d].sent
    BY <1>3, Counters DEF IInv, InOrder
  <2> QED
    BY <1>1, <1>3, <2>1, <2>2 DEF IInv, InOrder
<1> QED
  BY <1>4, <1>5, <1>6 DEF IInv

\* A reset abandons the attempt.
LEMMA ResetIInv ==
    ASSUME IInv, NEW d \in Downloads, Reset(d)
    PROVE  IInv'
BY DEF Reset, Goto, IInv, TypeOK, Exclusive, InOrder, FileOK, Labels

\* The reply frees the path.
LEMMA ReturnIInv ==
    ASSUME IInv, NEW d \in Downloads, Return(d)
    PROVE  IInv'
<1>1. Fresh \in StreamType /\ 0 \in 0..Chunks
  BY SizesAssumption DEF Fresh, StreamType
<1>2. TypeOK'
  BY <1>1 DEF Return, IInv, TypeOK, Labels
<1>3. Exclusive' /\ InOrder' /\ FileOK'
  BY NoneAssumption DEF Return, IInv, TypeOK, Exclusive, InOrder, FileOK, Fresh
<1> QED
  BY <1>2, <1>3 DEF IInv

\* The invariant holds in every reachable state.
THEOREM Invariance == Spec => []IInv
<1>1. IInv /\ [Next]_fetchVars => IInv'
  <2> SUFFICES ASSUME IInv, [Next]_fetchVars PROVE IInv'
    OBVIOUS
  <2>1. CASE UNCHANGED fetchVars
    BY <2>1 DEF fetchVars, IInv, TypeOK, Exclusive, InOrder, FileOK
  <2> QED
    BY <2>1, RequestIInv, DownloadIInv, ServeIInv, ResetIInv, ReturnIInv DEF Next
<1> QED
  BY <1>1, InitIInv, PTL DEF Spec

\* Every variable keeps its type; no download receives more than was sent.
THEOREM TypeCorrect == Spec => []TypeOK
<1>1. IInv => TypeOK
  BY DEF IInv
<1> QED
  BY <1>1, Invariance, PTL

\* A download that reports success has the whole file on disk, for files of any
\* size and any number of providers that fail before it.
THEOREM FetchedComplete == Spec => []FetchedIsComplete
<1>1. IInv => FetchedIsComplete
  BY DEF IInv, FileOK, FetchedIsComplete
<1> QED
  BY <1>1, Invariance, PTL
-----------------------------------------------------------------------------
(* A download that can still succeed is never given up.                    *)

\* A reliable provider sends no error.
NoFalseErrors == \A d \in Downloads :
    pc[d] \in {"create", "receive"} /\ peer[d] \in Reliable => stream[d].end # "error"

TrustInv == IInv /\ NoFalseErrors

LEMMA TrustInvariance == Spec => []TrustInv
<1>1. Init => NoFalseErrors
  BY DEF Init, NoFalseErrors
<1>2. TrustInv /\ [Next]_fetchVars => NoFalseErrors'
  <2> SUFFICES ASSUME TrustInv, [Next]_fetchVars PROVE NoFalseErrors'
    OBVIOUS
  <2> USE DEF TrustInv, IInv, TypeOK, NoFalseErrors, Goto
  <2>1. ASSUME NEW d \in Downloads, Request(d) \/ Return(d) \/ Reset(d)
        PROVE  NoFalseErrors'
    BY <2>1 DEF Request, RequestFromNetwork, RequestFromPeer, Return, Reset
  <2>2. ASSUME NEW d \in Downloads, TryPeer(d) PROVE NoFalseErrors'
    BY <2>2 DEF TryPeer, Fresh
  <2>3. ASSUME NEW d \in Downloads,
               Find(d) \/ GiveUp(d) \/ CreateOutput(d) \/ Receive(d) \/ ReceiveEnd(d)
        PROVE  NoFalseErrors'
    BY <2>3 DEF Find, GiveUp, CreateOutput, Receive, ReceiveEnd
  <2>4. ASSUME NEW d \in Downloads, Serve(d) PROVE NoFalseErrors'
    BY <2>4 DEF Serve, May, StreamType
  <2>5. CASE UNCHANGED fetchVars
    BY <2>5 DEF fetchVars
  <2> QED
    BY <2>1, <2>2, <2>3, <2>4, <2>5 DEF Next, Download
<1> QED
  BY <1>1, <1>2, Invariance, PTL DEF Spec, TrustInv

\* Steps of one download leave the others alone.
LEMMA OthersAreLeftAlone ==
    ASSUME TypeOK, NEW d \in Downloads, NEW e \in Downloads, e # d,
           Request(e) \/ Download(e) \/ Serve(e) \/ Reset(e) \/ Return(e)
    PROVE  pc'[d] = pc[d] /\ path'[d] = path[d] /\ rest'[d] = rest[d] /\ peer'[d] = peer[d]
BY DEF Request, RequestFromNetwork, RequestFromPeer, Download, Find, TryPeer, GiveUp,
   CreateOutput, Receive, ReceiveEnd, Serve, Reset, Return, Goto, TypeOK

\* A download that has a reliable provider, before it or at the other end of its
\* stream, is not failed by any step.
LEMMA HopeStays ==
    ASSUME TrustInv, NEW d \in Downloads, Hopeful(d),
           Request(d) \/ Download(d) \/ Serve(d) \/ Reset(d) \/ Return(d)
    PROVE  Hopeful(d)' \/ pc'[d] = "ok"
<1> USE DEF TrustInv, IInv, TypeOK, Goto, Hopeful
<1>1. pc[d] \in {"try", "create", "receive"} /\ path[d] \notin FullPaths
  OBVIOUS
<1>2. CASE TryPeer(d)
  <2>1. PICK q \in rest[d] :
          /\ peer' = [peer EXCEPT ![d] = q] /\ rest' = [rest EXCEPT ![d] = @ \ {q}]
          /\ Goto(d, "create") \/ (q \notin Reliable /\ UNCHANGED pc)
    BY <1>2 DEF TryPeer, May
  <2>2. path' = path /\ pc[d] = "try"
    BY <1>2 DEF TryPeer
  <2>3. rest'[d] = rest[d] \ {q} /\ peer'[d] = q /\ rest[d] \cap Reliable # {}
    BY <2>1, <2>2
  <2>4. CASE q \in Reliable
    BY <1>1, <2>1, <2>2, <2>3, <2>4
  <2>5. CASE q \notin Reliable
    <3>1. rest'[d] \cap Reliable # {}
      BY <2>3, <2>5
    <3>2. pc'[d] \in {"try", "create"}
      BY <2>1, <2>2
    <3> QED
      BY <1>1, <2>2, <3>1, <3>2
  <2> QED
    BY <2>4, <2>5
<1>3. CASE CreateOutput(d)
  BY <1>1, <1>3 DEF CreateOutput
<1>4. CASE Receive(d)
  BY <1>1, <1>4 DEF Receive
<1>5. CASE ReceiveEnd(d)
  <2>1. peer[d] \in Reliable => stream[d].end = "eof"
    BY <1>5 DEF ReceiveEnd, NoFalseErrors, StreamType
  <2> QED
    BY <1>1, <1>5, <2>1 DEF ReceiveEnd
<1>6. CASE Serve(d) \/ Reset(d)
  BY <1>1, <1>6 DEF Serve, Reset, May
<1>7. ~(Request(d) \/ Find(d) \/ GiveUp(d) \/ Return(d))
  BY <1>1 DEF Request, RequestFromNetwork, RequestFromPeer, Find, GiveUp, Return
<1> QED
  BY <1>2, <1>3, <1>4, <1>5, <1>6, <1>7 DEF Download

\* Providers that fail, chunks that are lost and downloads that run beside it
\* never cost a download a provider that would have served it.
THEOREM NeverGivenUp == Spec => NotGivenUp
<1>1. ASSUME TrustInv, [Next]_fetchVars, NEW d \in Downloads, Hopeful(d)
      PROVE  (Hopeful(d) \/ pc[d] = "ok")'
  <2>1. CASE UNCHANGED fetchVars
    BY <1>1, <2>1 DEF fetchVars, Hopeful
  <2>2. ASSUME NEW e \in Downloads, e # d,
               Request(e) \/ Download(e) \/ Serve(e) \/ Reset(e) \/ Return(e)
        PROVE  Hopeful(d)'
    BY <1>1, <2>2, OthersAreLeftAlone DEF Hopeful, TrustInv, IInv
  <2> QED
    BY <1>1, <2>1, <2>2, HopeStays DEF Next
<1>2. TrustInv /\ [Next]_fetchVars =>
         [\A d \in Downloads : Hopeful(d) => (Hopeful(d) \/ pc[d] = "ok")']_fetchVars
  BY <1>1
<1> QED
  BY <1>2, TrustInvariance, PTL DEF Spec, NotGivenUp

-----------------------------------------------------------------------------
(* Downloads are transfers.                                                *)

LEMMA OutcomeStep ==
    ASSUME TypeOK, NEW d \in Downloads, NEW l, pc' = [pc EXCEPT ![d] = l]
    PROVE  Outcomes' = [Outcomes EXCEPT ![d] = Outcome(l)]
<1>1. \A e \in Downloads : pc'[e] = IF e = d THEN l ELSE pc[e]
  BY DEF TypeOK
<1>2. \A e \in Downloads : Outcome(pc[e])' = IF e = d THEN Outcome(l) ELSE Outcome(pc[e])
  BY <1>1 DEF Outcome
<1> QED
  BY <1>2 DEF Outcomes

LEMMA WholeStep ==
    ASSUME TypeOK, NEW p \in Paths, NEW cs, disk' = [disk EXCEPT ![p] = cs]
    PROVE  Whole' \in {Whole \cup {p}, Whole \ {p}}
<1>1. \A r \in Paths : disk'[r] = IF r = p THEN cs ELSE disk[r]
  BY DEF TypeOK
<1>2. CASE cs = Complete
  BY <1>1, <1>2 DEF Whole
<1>3. CASE cs # Complete
  BY <1>1, <1>3 DEF Whole
<1> QED
  BY <1>2, <1>3

\* Steps of a running download that end no attempt with success.
LEMMA RunningOn ==
    ASSUME IInv, NEW d \in Downloads, Outcome(pc[d]) = "running", UNCHANGED path,
           NEW l, pc' = [pc EXCEPT ![d] = l], Outcome(l) = "running",
           UNCHANGED disk \/ \E cs : disk' = [disk EXCEPT ![path[d]] = cs]
    PROVE  [Caller!TransferNext]_(Caller!tvars)
<1>1. Outcomes' = Outcomes
  <2>1. Outcomes' = [Outcomes EXCEPT ![d] = Outcome(pc[d])]
    BY OutcomeStep DEF IInv
  <2> QED
    BY <2>1 DEF Outcomes
<1>2. CASE UNCHANGED disk
  BY <1>1, <1>2 DEF Caller!tvars, Whole
<1>3. ASSUME NEW cs, disk' = [disk EXCEPT ![path[d]] = cs]
      PROVE  Caller!TransferNext
  <2>1. path[d] \in Paths
    BY DEF IInv, Exclusive, Outcome
  <2>2. Whole' \in {Whole \cup {path[d]}, Whole \ {path[d]}}
    BY <1>3, <2>1, WholeStep DEF IInv
  <2>3. Outcomes[d] = "running"
    BY DEF Outcomes
  <2> QED
    BY <1>1, <2>2, <2>3 DEF Caller!TransferNext, Caller!Write
<1> QED
  BY <1>2, <1>3

\* The step that succeeds leaves the whole file.
LEMMA Succeeding ==
    ASSUME IInv, NEW d \in Downloads, Outcome(pc[d]) = "running", UNCHANGED path,
           pc' = [pc EXCEPT ![d] = "ok"], disk'[path[d]] = Complete,
           UNCHANGED disk \/ \E cs : disk' = [disk EXCEPT ![path[d]] = cs]
    PROVE  Caller!TransferNext
<1>1. path[d] \in Paths
  BY DEF IInv, Exclusive, Outcome
<1>2. Outcomes' = [Outcomes EXCEPT ![d] = "ok"] /\ Outcomes[d] = "running"
  <2>1. Outcomes' = [Outcomes EXCEPT ![d] = Outcome("ok")]
    BY OutcomeStep DEF IInv
  <2> QED
    BY <2>1 DEF Outcomes, Outcome
<1>3. path[d] \in Whole'
  BY <1>1 DEF Whole
<1>4. Whole' \in {Whole \cup {path[d]}, Whole \ {path[d]}}
  BY <1>1, <1>3, WholeStep DEF IInv, Whole
<1> QED
  BY <1>2, <1>3, <1>4 DEF Caller!TransferNext, Caller!Write

LEMMA StepRefines ==
    ASSUME IInv, [Next]_fetchVars
    PROVE  [Caller!TransferNext]_(Caller!tvars)
<1> USE DEF Goto
<1>1. TypeOK
  BY DEF IInv
<1>2. ASSUME NEW d \in Downloads, Request(d)
      PROVE  Caller!TransferNext
  <2>1. PICK p \in Paths, l \in {"find", "try"} :
          /\ \A e \in Downloads : path[e] # p
          /\ pc[d] = "idle" /\ pc' = [pc EXCEPT ![d] = l]
          /\ path' = [path EXCEPT ![d] = p]
          /\ UNCHANGED disk
    BY <1>2 DEF Request, Unused, RequestFromNetwork, RequestFromPeer
  <2>2. Outcomes' = [Outcomes EXCEPT ![d] = "running"] /\ Outcomes[d] = "idle"
    <3>1. Outcomes' = [Outcomes EXCEPT ![d] = Outcome(l)]
      BY <1>1, <2>1, OutcomeStep
    <3> QED
      BY <2>1, <3>1 DEF Outcome, Outcomes
  <2>3. UNCHANGED Whole
    BY <2>1 DEF Whole
  <2> QED
    BY <2>1, <2>2, <2>3 DEF Caller!TransferNext, Caller!Begin
<1>3. ASSUME NEW d \in Downloads, NEW l, pc' = [pc EXCEPT ![d] = l], l = "failed",
             Outcome(pc[d]) = "running", UNCHANGED <<disk, path>>
      PROVE  Caller!TransferNext
  <2>1. Outcomes' = [Outcomes EXCEPT ![d] = "failed"] /\ Outcomes[d] = "running"
    <3>1. Outcomes' = [Outcomes EXCEPT ![d] = Outcome(l)]
      BY <1>1, <1>3, OutcomeStep
    <3> QED
      BY <1>3, <3>1 DEF Outcome, Outcomes
  <2>2. UNCHANGED Whole
    BY <1>3 DEF Whole
  <2> QED
    BY <1>3, <2>1, <2>2 DEF Caller!TransferNext, Caller!Fail
<1>4. ASSUME NEW d \in Downloads, Return(d)
      PROVE  Caller!TransferNext
  <2>1. /\ pc[d] \in {"ok", "failed"} /\ pc' = [pc EXCEPT ![d] = "idle"]
        /\ path' = [path EXCEPT ![d] = None] /\ UNCHANGED disk
    BY <1>4 DEF Return
  <2>2. Outcomes' = [Outcomes EXCEPT ![d] = "idle"] /\ Outcomes[d] \in {"ok", "failed"}
    <3>1. Outcomes' = [Outcomes EXCEPT ![d] = Outcome("idle")]
      BY <1>1, <2>1, OutcomeStep
    <3> QED
      BY <2>1, <3>1 DEF Outcome, Outcomes
  <2>3. UNCHANGED Whole
    BY <2>1 DEF Whole
  <2> QED
    BY <2>1, <2>2, <2>3 DEF Caller!TransferNext, Caller!Report
<1>5. ASSUME NEW d \in Downloads, Find(d) \/ GiveUp(d)
      PROVE  [Caller!TransferNext]_(Caller!tvars)
  <2>1. /\ Outcome(pc[d]) = "running" /\ UNCHANGED <<disk, path>>
        /\ pc' = [pc EXCEPT ![d] = "try"] \/ pc' = [pc EXCEPT ![d] = "failed"]
    BY <1>5 DEF Find, GiveUp, Outcome
  <2> QED
    BY <1>3, <2>1, RunningOn DEF Outcome
<1>6. ASSUME NEW d \in Downloads, TryPeer(d) \/ CreateOutput(d) \/ Reset(d)
      PROVE  [Caller!TransferNext]_(Caller!tvars)
  <2>1. PICK l \in {"try", "create", "receive"} : pc' = [pc EXCEPT ![d] = l]
    BY <1>1, <1>6 DEF TryPeer, CreateOutput, Reset, TypeOK
  <2>2. /\ Outcome(pc[d]) = "running" /\ Outcome(l) = "running" /\ UNCHANGED path
        /\ UNCHANGED disk \/ \E cs : disk' = [disk EXCEPT ![path[d]] = cs]
    BY <1>6 DEF TryPeer, CreateOutput, Reset, Outcome
  <2> QED
    BY <2>1, <2>2, RunningOn
<1>7. ASSUME NEW d \in Downloads, Receive(d) \/ ReceiveEnd(d)
      PROVE  [Caller!TransferNext]_(Caller!tvars)
  <2>1. PICK l \in {"try", "receive", "ok"} : pc' = [pc EXCEPT ![d] = l]
    BY <1>7 DEF Receive, ReceiveEnd
  <2>2. /\ Outcome(pc[d]) = "running" /\ UNCHANGED path
        /\ UNCHANGED disk \/ \E cs : disk' = [disk EXCEPT ![path[d]] = cs]
    BY <1>7 DEF Receive, ReceiveEnd, Outcome
  <2>3. CASE l # "ok"
    BY <2>1, <2>2, <2>3, RunningOn DEF Outcome
  <2>4. CASE l = "ok"
    <3>1. disk'[path[d]] = Complete
      <4>1. IInv' /\ pc'[d] = "ok" /\ path' = path
        BY <1>1, <1>7, <2>1, <2>2, <2>4, DownloadIInv DEF Download, TypeOK
      <4> QED
        BY <4>1 DEF IInv, FileOK
    <3> QED
      BY <2>1, <2>2, <2>4, <3>1, Succeeding
  <2> QED
    BY <2>3, <2>4
<1>8. ASSUME UNCHANGED <<disk, path, pc>>
      PROVE  [Caller!TransferNext]_(Caller!tvars)
  BY <1>8 DEF Caller!tvars, Whole, Outcomes, Outcome
<1>9. ASSUME NEW d \in Downloads, Serve(d)
      PROVE  [Caller!TransferNext]_(Caller!tvars)
  BY <1>8, <1>9 DEF Serve
<1>10. CASE UNCHANGED fetchVars
  BY <1>8, <1>10 DEF fetchVars
<1> QED
  BY <1>2, <1>4, <1>5, <1>6, <1>7, <1>9, <1>10 DEF Next, Download

\* Every download is a transfer: what it reports is true of a file that nobody
\* else was writing.
THEOREM Refinement == Spec => ImplementsTransfer
<1>1. Init => Caller!TransferInit
  BY DEF Init, Caller!TransferInit, Whole, Outcomes, Outcome
<1>2. IInv /\ [Next]_fetchVars => [Caller!TransferNext]_(Caller!tvars)
  BY StepRefines
<1> QED
  BY <1>1, <1>2, Invariance, PTL DEF Spec, ImplementsTransfer, Caller!TransferSpec
=============================================================================
