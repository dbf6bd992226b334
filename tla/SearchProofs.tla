---------------------------- MODULE SearchProofs ----------------------------
(***************************************************************************)
(* Proofs about Search, for any number of peers, tracks and tokens and any *)
(* limits: what a reply lists can be had from the peers it names.          *)
(***************************************************************************)
EXTENDS Search, FiniteSetTheorems, TLAPS

\* Records never get ahead of the tracks.
RecordsBacked == \A p \in Peers : ctids[p] \subseteq CtidsOf(entries[p])

\* What has been collected so far is somebody's, whatever was added or forgotten
\* since it was read.
Somebodys(c)   == \E p \in Peers : c \in CtidsOf(entries[p])
FoundBacked    == \A c \in found : Somebodys(c)
OwnBacked      == own \subseteq CtidsOf(entries[Self]) \cup Unconfirmed
NetworkBacked  == \A r \in network :
    r.ctid \in found /\ \A p \in r.providers : r.ctid \in CtidsOf(entries[p])

\* Every CTID is looked up once.
NetworkDistinct ==
    /\ \A r, s \in network : r.ctid = s.ctid => r = s
    /\ \A r \in network : r.ctid \notin unresolved
    /\ pc \notin {"resolve", "done"} => network = {}

\* What belongs to one search is empty outside it.
Tidy ==
    /\ pc # "query" => token = None
    /\ pc \notin {"token", "query"} => ask = {}
    /\ pc \notin {"resolve", "done"} => unresolved = {}

\* A reply is made of own results and network results for other CTIDs.
FromOwn(r)     == r.ctid \in own /\ r = Local(r.ctid)
FromNetwork(r) == r.ctid \notin own /\ r \in network
ResultsMerged  == pc = "done" =>
    /\ \A r \in results : FromOwn(r) \/ FromNetwork(r)
    /\ \/ Cardinality(results) <= MaxResults
       \/ Cardinality(results) <= Cardinality(own) + 1

Gathered == FoundBacked /\ OwnBacked /\ NetworkBacked

\* The inductive invariant.
IInv == TypeOK /\ Tidy /\ RecordsBacked /\ Gathered /\ NetworkDistinct /\ ResultsMerged

-----------------------------------------------------------------------------
(* Helpers.                                                                *)

\* More entries have more CTIDs.
LEMMA CtidsOfGrows ==
    ASSUME NEW S, NEW T, S \subseteq T
    PROVE  CtidsOf(S) \subseteq CtidsOf(T)
BY DEF CtidsOf

\* CTIDs of entries are CTIDs.
LEMMA CtidsOfType ==
    ASSUME NEW S \in SUBSET Entry
    PROVE  CtidsOf(S) \subseteq Ctid
BY DEF CtidsOf, Entry

\* What is gathered stays backed while the peers' catalogues grow.
LEMMA GrowthKeepsBacking ==
    ASSUME Gathered, UNCHANGED <<own, found, network>>, TypeOK,
           \A p \in Peers : CtidsOf(entries[p]) \subseteq CtidsOf(entries'[p])
    PROVE  Gathered'
<1>1. \A r \in network : r.providers \subseteq Peers
  BY DEF TypeOK, Result
<1>2. FoundBacked'
  BY DEF Gathered, FoundBacked, Somebodys
<1>3. OwnBacked'
  BY PeersAssumption DEF Gathered, OwnBacked
<1>4. NetworkBacked'
  BY <1>1 DEF Gathered, NetworkBacked
<1> QED
  BY <1>2, <1>3, <1>4 DEF Gathered

\* The invariant looks at the search only through these.
LEMMA SearchUnchanged ==
    ASSUME Tidy, NetworkDistinct, ResultsMerged, UNCHANGED steps
    PROVE  Tidy' /\ NetworkDistinct' /\ ResultsMerged'
BY DEF Tidy, NetworkDistinct, ResultsMerged, FromOwn, FromNetwork, steps, Local

-----------------------------------------------------------------------------

\* Nothing is known in the beginning.
LEMMA InitIInv == Init => IInv
BY NoneAssumption
   DEF Init, IInv, Tidy, TypeOK, Labels, RecordsBacked, Gathered, FoundBacked, OwnBacked,
       NetworkBacked, NetworkDistinct, ResultsMerged

\* A peer's step only lets its catalogue grow, and announces what is in it.
LEMMA PeerIInv ==
    ASSUME IInv, NEW p \in Peers, Peer(p)
    PROVE  IInv'
<1> USE DEF steps
<1>1. /\ TypeOK' /\ RecordsBacked' /\ UNCHANGED steps
      /\ \A q \in Peers : CtidsOf(entries[q]) \subseteq CtidsOf(entries'[q])
  <2>1. CASE AddEntry(p)
    <3>1. PICK e \in Entry : /\ entries' = [entries EXCEPT ![p] = @ \cup {e}]
                             /\ UNCHANGED <<ctids, tokens, steps>>
      BY <2>1 DEF AddEntry
    <3>2. \A q \in Peers : entries[q] \subseteq entries'[q]
      BY <3>1 DEF IInv, Tidy, TypeOK
    <3>3. \A q \in Peers : CtidsOf(entries[q]) \subseteq CtidsOf(entries'[q])
      BY <3>2, CtidsOfGrows
    <3>4. TypeOK'
      BY <3>1 DEF IInv, Tidy, TypeOK
    <3> QED
      BY <3>1, <3>3, <3>4 DEF IInv, Tidy, RecordsBacked
  <2>2. CASE AdvertiseCtid(p)
    <3>1. PICK e \in entries[p] : ctids' = [ctids EXCEPT ![p] = @ \cup {e.ctid}]
      BY <2>2 DEF AdvertiseCtid
    <3>2. UNCHANGED <<entries, tokens, steps>>
      BY <2>2 DEF AdvertiseCtid
    <3>3. e.ctid \in CtidsOf(entries[p])
      BY DEF CtidsOf
    <3>4. e.ctid \in Ctid
      BY <3>3, CtidsOfType DEF IInv, Tidy, TypeOK
    <3>5. TypeOK'
      BY <3>1, <3>2, <3>4 DEF IInv, Tidy, TypeOK
    <3> QED
      BY <3>1, <3>2, <3>3, <3>5 DEF IInv, Tidy, TypeOK, RecordsBacked
  <2>3. CASE AdvertiseToken(p)
    <3>1. PICK e \in entries[p] : \E k \in e.tokens :
             tokens' = [tokens EXCEPT ![p] = @ \cup {k}]
      BY <2>3 DEF AdvertiseToken
    <3>2. UNCHANGED <<entries, ctids, steps>>
      BY <2>3 DEF AdvertiseToken
    <3>3. e.tokens \subseteq Token
      BY DEF IInv, Tidy, TypeOK, Entry
    <3>4. TypeOK'
      BY <3>1, <3>2, <3>3 DEF IInv, Tidy, TypeOK
    <3> QED
      BY <3>2, <3>4 DEF IInv, Tidy, RecordsBacked
  <2>4. CASE Forget(p)
    BY <2>4 DEF Forget, IInv, Tidy, TypeOK, RecordsBacked
  <2> QED
    BY <2>1, <2>2, <2>3, <2>4 DEF Peer
<1>2. Gathered'
  BY <1>1, GrowthKeepsBacking DEF IInv
<1> QED
  BY <1>1, <1>2, SearchUnchanged DEF IInv

\* Reading CTIDs from the own store or index, or from another peer's reply.
LEMMA GatheringIInv ==
    ASSUME IInv,
           \/ \E q \in Queries : SearchLocal(q)
           \/ ReadOwnIndex \/ FindProvidersForToken \/ QueryPeerIndex \/ NextToken
    PROVE  IInv'
<1> USE DEF catalogues
<1>1. \A p \in Peers : CtidsOf(entries[p]) \subseteq Ctid
  BY CtidsOfType DEF IInv, Tidy, TypeOK
<1>2. CASE \E q \in Queries : SearchLocal(q)
  <2>1. PICK q \in Queries : SearchLocal(q)
    BY <1>2
  <2>2. TypeOK'
    BY <1>1, <2>1, PeersAssumption, CtidAssumption, QueriesAssumption
       DEF SearchLocal, IInv, Tidy, TypeOK, Labels
  <2> QED
    BY <2>1, <2>2 DEF SearchLocal, IInv, Tidy, RecordsBacked, Gathered, FoundBacked, Somebodys,
       OwnBacked, NetworkBacked, NetworkDistinct, ResultsMerged
<1>3. CASE ReadOwnIndex
  <2>1. CtidsOf(UNION {Having(Self, k) : k \in query}) \subseteq CtidsOf(entries[Self])
    BY CtidsOfGrows DEF Having
  <2>2. found' \subseteq CtidsOf(entries[Self])
    BY <1>3, <2>1 DEF ReadOwnIndex
  <2>3. TypeOK'
    <3>1. found' \subseteq Ctid
      BY <1>1, <2>2, PeersAssumption
    <3> QED
      BY <1>3, <3>1 DEF ReadOwnIndex, IInv, Tidy, TypeOK, Labels, NetworkDistinct
  <2> QED
    BY <1>3, <2>2, <2>3, PeersAssumption
       DEF ReadOwnIndex, IInv, Tidy, RecordsBacked, Gathered, FoundBacked, Somebodys,
       OwnBacked, NetworkBacked, NetworkDistinct, ResultsMerged
<1>4. CASE FindProvidersForToken
  <2>1. TypeOK'
    BY <1>4 DEF FindProvidersForToken, Lookup, IInv, Tidy, TypeOK, Labels
  <2> QED
    BY <1>4, <2>1
       DEF FindProvidersForToken, IInv, Tidy, RecordsBacked, Gathered, FoundBacked, Somebodys,
       OwnBacked, NetworkBacked, NetworkDistinct, ResultsMerged
<1>5. CASE QueryPeerIndex
  <2>1. PICK p \in left : /\ left' = left \ {p}
                          /\ \/ \E cs \in IndexReplies(p) : found' = found \cup cs
                             \/ found' = found
    BY <1>5 DEF QueryPeerIndex
  <2>2. p \in Peers /\ found \subseteq found' /\ found' \subseteq found \cup CtidsOf(entries[p])
    BY <2>1 DEF IndexReplies, Catalog!Answers, CtidsOf, IInv, Tidy, TypeOK
  <2>3. TypeOK'
    BY <1>1, <1>5, <2>1, <2>2 DEF QueryPeerIndex, IInv, Tidy, TypeOK
  <2> QED
    BY <1>5, <2>2, <2>3
       DEF QueryPeerIndex, IInv, Tidy, RecordsBacked, Gathered, FoundBacked, Somebodys,
       OwnBacked, NetworkBacked, NetworkDistinct, ResultsMerged
<1>6. CASE NextToken
  <2>1. TypeOK'
    BY <1>6 DEF NextToken, IInv, Tidy, TypeOK, Labels
  <2> QED
    BY <1>6, <2>1
       DEF NextToken, IInv, Tidy, RecordsBacked, Gathered, FoundBacked, Somebodys,
       OwnBacked, NetworkBacked, NetworkDistinct, ResultsMerged
<1> QED
  BY <1>2, <1>3, <1>4, <1>5, <1>6

\* The providers named for a CTID are listed, so they have it.
LEMMA FindProvidersIInv ==
    ASSUME IInv, FindProviders
    PROVE  IInv'
<1> USE DEF catalogues
<1>1. PICK c \in unresolved : \E ps \in SUBSET {p \in Peers : c \in ctids[p]} :
         /\ network' = network \cup {[ctid |-> c, providers |-> ps]}
         /\ unresolved' = unresolved \ {c}
  BY DEF FindProviders, Lookup
<1>2. PICK ps \in SUBSET {p \in Peers : c \in ctids[p]} :
         /\ network' = network \cup {[ctid |-> c, providers |-> ps]}
         /\ unresolved' = unresolved \ {c}
  BY <1>1
<1> DEFINE new == [ctid |-> c, providers |-> ps]
<1>3. /\ c \in found /\ c \in Ctid /\ ps \subseteq Peers
      /\ \A p \in ps : c \in CtidsOf(entries[p])
  BY DEF IInv, Tidy, TypeOK, RecordsBacked
<1>4. new \in Result /\ new.ctid = c /\ new.providers = ps
  BY <1>3 DEF Result
<1> HIDE DEF new
<1>5. network' = network \cup {new}
  BY <1>2 DEF new
<1>6. TypeOK'
  BY <1>2, <1>4, <1>5 DEF FindProviders, IInv, Tidy, TypeOK
<1>7. Gathered'
  BY <1>3, <1>4, <1>5
     DEF FindProviders, IInv, Gathered, FoundBacked, Somebodys, OwnBacked, NetworkBacked
<1>8. NetworkDistinct'
  BY <1>2, <1>4, <1>5 DEF FindProviders, IInv, NetworkDistinct
<1> QED
  BY <1>6, <1>7, <1>8 DEF FindProviders, IInv, Tidy, RecordsBacked, ResultsMerged

\* There are only so many results, and so many own ones.
LEMMA FiniteNetwork == TypeOK => IsFiniteSet(network)
<1>1. IsFiniteSet(Ctid \X SUBSET Peers)
  BY CtidAssumption, PeersAssumption, FS_SUBSET, FS_Product
<1> DEFINE rec == [z \in Ctid \X SUBSET Peers |-> [ctid |-> z[1], providers |-> z[2]]]
<1>2. rec \in Surjection(Ctid \X SUBSET Peers, Result)
  <2>1. rec \in [Ctid \X SUBSET Peers -> Result]
    BY DEF Result
  <2>2. ASSUME NEW r \in Result
        PROVE  \E z \in Ctid \X SUBSET Peers : rec[z] = r
    <3>1. <<r.ctid, r.providers>> \in Ctid \X SUBSET Peers
      BY DEF Result
    <3>2. r = [ctid |-> r.ctid, providers |-> r.providers]
      BY DEF Result
    <3>3. rec[<<r.ctid, r.providers>>] = r
      BY <3>1, <3>2
    <3> QED
      BY <3>1, <3>3
  <2> QED
    BY <2>1, <2>2 DEF Surjection
<1>3. IsFiniteSet(Result)
  BY <1>1, <1>2, FS_Surjection
<1> QED
  BY <1>3, FS_Subset DEF TypeOK

\* The own results and room for others.
LEMMA MergedSize ==
    ASSUME IInv, NEW picked \in SUBSET Fresh, Cardinality(picked) <= Room
    PROVE  LET all == {Local(c) : c \in own} \cup picked
           IN  Cardinality(all) <= MaxResults \/ Cardinality(all) <= Cardinality(own) + 1
<1> DEFINE L   == {Local(c) : c \in own}
           all == L \cup picked
<1>1. IsFiniteSet(own) /\ Cardinality(own) \in Nat
  BY CtidAssumption, FS_Subset, FS_CardinalityType DEF IInv, Tidy, TypeOK
<1>2. IsFiniteSet(L) /\ Cardinality(L) <= Cardinality(own)
  <2>1. [c \in own |-> Local(c)] \in Surjection(own, L)
    BY DEF Surjection
  <2> QED
    BY <1>1, <2>1, FS_Surjection
<1>3. IsFiniteSet(network)
  BY FiniteNetwork DEF IInv
<1>4. IsFiniteSet(picked)
  BY <1>3, FS_Subset DEF Fresh
<1>5. /\ Cardinality(L) \in Nat /\ Cardinality(picked) \in Nat
      /\ IsFiniteSet(all) /\ Cardinality(all) \in Nat
      /\ Cardinality(L \cap picked) \in Nat
      /\ Cardinality(all) = Cardinality(L) + Cardinality(picked) - Cardinality(L \cap picked)
  <2>1. IsFiniteSet(L \cap picked)
    BY <1>4, FS_Subset
  <2> QED
    BY <1>2, <1>4, <2>1, FS_Union, FS_CardinalityType
<1>6. Cardinality(all) <= Cardinality(own) + Cardinality(picked)
  <2> HIDE DEF all, L
  <2> QED
    BY <1>1, <1>2, <1>5
<1> HIDE DEF all, L
<1>7. Cardinality(all) <= MaxResults \/ Cardinality(all) <= Cardinality(own) + 1
  BY <1>1, <1>5, <1>6, LimitsAssumption DEF Room
<1> QED
  BY <1>7 DEF all, L

\* The reply is put together and sent.
LEMMA MergeIInv ==
    ASSUME IInv, Merge \/ Reply
    PROVE  IInv'
<1> USE DEF catalogues
<1>1. CASE Merge
  <2>1. PICK picked \in SUBSET Fresh :
           /\ Cardinality(picked) <= Room
           /\ results' = {Local(c) : c \in own} \cup picked
    BY <1>1 DEF Merge
  <2>2. \A c \in own : Local(c) \in Result /\ Local(c).ctid = c
    BY DEF Local, Result, IInv, Tidy, TypeOK
  <2>3. TypeOK'
    BY <1>1, <2>1, <2>2 DEF Merge, Fresh, IInv, Tidy, TypeOK, Labels
  <2>4. \A r \in results' : (FromOwn(r) \/ FromNetwork(r))'
    BY <1>1, <2>1, <2>2 DEF Merge, Fresh, FromOwn, FromNetwork
  <2>5. \/ Cardinality(results') <= MaxResults
        \/ Cardinality(results') <= Cardinality(own) + 1
    BY <2>1, MergedSize
  <2>6. ResultsMerged'
    BY <1>1, <2>4, <2>5 DEF Merge, ResultsMerged
  <2> QED
    BY <1>1, <2>3, <2>6
       DEF Merge, IInv, Tidy, RecordsBacked, Gathered, FoundBacked, Somebodys,
       OwnBacked, NetworkBacked, NetworkDistinct
<1>2. CASE Reply
  <2>1. TypeOK'
    BY <1>2 DEF Reply, IInv, Tidy, TypeOK, Labels
  <2> QED
    BY <1>2, <2>1
       DEF Reply, IInv, Tidy, RecordsBacked, Gathered, FoundBacked, Somebodys,
       OwnBacked, NetworkBacked, NetworkDistinct, ResultsMerged
<1> QED
  BY <1>1, <1>2

\* The inductive invariant holds in every reachable state.
THEOREM Invariance == Spec => []IInv
<1>1. IInv /\ [Next]_vars => IInv'
  <2> SUFFICES ASSUME IInv, [Next]_vars PROVE IInv'
    OBVIOUS
  <2>1. CASE UNCHANGED vars
    BY <2>1
       DEF vars, IInv, Tidy, TypeOK, RecordsBacked, Gathered, FoundBacked, Somebodys, OwnBacked,
       NetworkBacked, NetworkDistinct, ResultsMerged, FromOwn, FromNetwork
  <2>2. CASE Next
    BY <2>2, PeerIInv, GatheringIInv, FindProvidersIInv, MergeIInv DEF Next, Search
  <2> QED
    BY <2>1, <2>2
<1> QED
  BY InitIInv, <1>1, PTL DEF Spec

\* Every variable keeps its type.
THEOREM TypeCorrect == Spec => []TypeOK
<1>1. IInv => TypeOK
  BY DEF IInv
<1> QED
  BY Invariance, <1>1, PTL

\* What a reply lists can be had, from every peer it names.
THEOREM RepliesServable == Spec => []ResultsAreServable
<1>1. IInv => ResultsAreServable
  <2> SUFFICES ASSUME IInv, pc = "done", NEW r \in results
      PROVE /\ \/ r.ctid \in Unconfirmed
               \/ \E p \in Peers : r.ctid \in CtidsOf(entries[p])
            /\ \A p \in r.providers : r.ctid \in CtidsOf(entries[p])
    BY DEF ResultsAreServable
  <2>1. CASE FromOwn(r)
    BY <2>1, PeersAssumption DEF FromOwn, Local, IInv, Gathered, OwnBacked
  <2>2. CASE FromNetwork(r)
    BY <2>2 DEF FromNetwork, IInv, Gathered, NetworkBacked, FoundBacked, Somebodys
  <2> QED
    BY <2>1, <2>2 DEF IInv, ResultsMerged
<1> QED
  BY Invariance, <1>1, PTL

\* No CTID is listed twice; the limit is kept but for own tracks and one more.
THEOREM RepliesDistinct == Spec => []ResultsAreDistinct
<1>1. IInv => ResultsAreDistinct
  BY DEF IInv, ResultsMerged, NetworkDistinct, FromOwn, FromNetwork, ResultsAreDistinct
<1> QED
  BY Invariance, <1>1, PTL

-----------------------------------------------------------------------------
(* Nobody who was expected is dropped on the way to the reply.             *)

\* What is expected of the reply: reliable peers, that stay listed and go on finding
\* what they found when the search began.
ExpectedListed == \A e \in expected : e[1] \in tokens[e[2]] /\ Matched(e[2], e[1])

\* Peer e[2], expected for token e[1], has still to be asked about it ...
Pending(e) == e[1] \in ask \/ (pc = "query" /\ e[1] = token /\ e[2] \in left)

\* ... or has been, and one of its tracks found (by its answer or another's).
Heard(e) == \E c \in found : c \in CtidsOf(entries[e[2]])

AllHeard ==
    /\ pc \in {"token", "query"} => \A e \in expected : Pending(e) \/ Heard(e)
    /\ pc \in {"resolve", "done"} => \A e \in expected : Heard(e)

\* Every CTID that was found has been looked up or will be.
AllResolved == pc = "resolve" =>
    \A c \in found \ unresolved : \E r \in network : r.ctid = c

\* The inductive invariant of the second half: nobody who was expected is
\* dropped on the way to the reply.
NobodyDropped == ExpectedListed /\ AllHeard /\ AllResolved /\ NothingIsMissed

HearingInv == IInv /\ NobodyDropped

\* A lookup that may return every holder returns every reliable one.
LEMMA LookupFindsReliable ==
    ASSUME NEW holders \in SUBSET Peers, NEW ps \in Lookup(holders, MaxProviders),
           Cardinality(holders) <= MaxProviders
    PROVE  holders \cap Reliable \subseteq ps
<1>1. CASE Cardinality(ps) = MaxProviders
  <2>1. IsFiniteSet(holders) /\ ps \subseteq holders
    BY PeersAssumption, FS_Subset DEF Lookup
  <2>2. Cardinality(ps) <= Cardinality(holders) /\ Cardinality(holders) \in Nat
    BY <2>1, FS_Subset, FS_CardinalityType
  <2>3. Cardinality(ps) = Cardinality(holders)
    BY <1>1, <2>2, LimitsAssumption
  <2>4. ps = holders
    BY <2>1, <2>3, FS_Subset
  <2> QED
    BY <2>4
<1> QED
  BY <1>1 DEF Lookup

\* Catalogues that grow and a search that stands still keep everything.
LEMMA PeerKeepsHearing ==
    ASSUME HearingInv, NEW p \in Peers, Peer(p)
    PROVE  NobodyDropped'
<1> USE DEF steps, HearingInv, NobodyDropped
<1>1. \A q \in Peers : entries[q] \subseteq entries'[q]
  BY DEF Peer, AddEntry, AdvertiseCtid, AdvertiseToken, Forget, IInv, TypeOK
<1>2. UNCHANGED steps
  BY DEF Peer, AddEntry, AdvertiseCtid, AdvertiseToken, Forget
<1>3. \A q \in Peers : CtidsOf(entries[q]) \subseteq CtidsOf(entries'[q])
  BY <1>1, CtidsOfGrows
<1>4. \A e \in expected : e[2] \in Reliable /\ e[2] \in Peers
  BY PeersAssumption DEF IInv, TypeOK
<1>5. ExpectedListed'
  <2>1. \A e \in expected : e[1] \in tokens'[e[2]]
    BY <1>4 DEF ExpectedListed, Peer, AddEntry, AdvertiseCtid, AdvertiseToken, Forget,
       IInv, TypeOK
  <2> QED
    BY <1>1, <1>2, <1>4, <2>1 DEF ExpectedListed, Matched
<1>7. AllHeard'
  BY <1>2, <1>3, <1>4 DEF AllHeard, Pending, Heard
<1>8. AllResolved'
  BY <1>2 DEF AllResolved
<1>9. NothingIsMissed'
  BY <1>2, <1>3, <1>4 DEF NothingIsMissed
<1> QED
  BY <1>5, <1>7, <1>8, <1>9

\* Every expected peer is asked, and what it answers is kept.
LEMMA GatheringKeepsHearing ==
    ASSUME HearingInv,
           \/ \E q \in Queries : SearchLocal(q)
           \/ ReadOwnIndex \/ FindProvidersForToken \/ QueryPeerIndex \/ NextToken
    PROVE  NobodyDropped'
<1> USE DEF catalogues, HearingInv, NobodyDropped
<1>2. pc' # "done"
  BY DEF SearchLocal, ReadOwnIndex, FindProvidersForToken, QueryPeerIndex, NextToken
<1>3. CASE \E q \in Queries : SearchLocal(q)
  BY <1>2, <1>3
     DEF SearchLocal, ExpectedListed, Matched, AllHeard, AllResolved, NothingIsMissed
<1>4. CASE ReadOwnIndex
  <2>1. \A e \in expected : Pending(e)'
    BY <1>4 DEF ReadOwnIndex, Pending, IInv, TypeOK
  <2> QED
    BY <1>2, <1>4, <2>1
       DEF ReadOwnIndex, ExpectedListed, Matched, AllHeard, AllResolved, NothingIsMissed
<1>5. CASE FindProvidersForToken
  <2> DEFINE holders(k) == {p \in Peers : k \in tokens[p]}
  <2>1. PICK k \in ask :
           /\ token' = k
           /\ ask' = ask \ {k}
           /\ left' \in Lookup(holders(k), MaxProviders)
           /\ expected' = {e \in expected : e[1] = k => Cardinality(holders(k)) <= MaxProviders}
    BY <1>5 DEF FindProvidersForToken
  <2>2. ASSUME NEW e \in expected', Pending(e)
        PROVE  Pending(e)'
    <3>1. CASE e[1] = k
      <4>1. /\ e[2] \in holders(k) /\ e[2] \in Reliable
            /\ Cardinality(holders(k)) <= MaxProviders
        BY <2>1, <2>2, <3>1, PeersAssumption DEF ExpectedListed, IInv, TypeOK
      <4>2. e[2] \in left'
        BY <2>1, <2>2, <4>1, LookupFindsReliable
      <4> QED
        BY <1>5, <2>1, <3>1, <4>2 DEF FindProvidersForToken, Pending
    <3>2. CASE e[1] # k
      BY <1>5, <2>1, <2>2, <3>2 DEF FindProvidersForToken, Pending
    <3> QED
      BY <3>1, <3>2
  <2>3. pc = "token" /\ pc' = "query" /\ expected' \subseteq expected
        /\ UNCHANGED <<found, entries, tokens>>
    BY <1>5 DEF FindProvidersForToken
  <2>4. AllHeard'
    BY <2>2, <2>3 DEF AllHeard, Heard
  <2> QED
    BY <1>2, <2>3, <2>4 DEF ExpectedListed, Matched, AllResolved, NothingIsMissed
<1>6. CASE QueryPeerIndex
  <2>1. PICK p \in left :
           /\ left' = left \ {p}
           /\ \/ p # Self /\ \E cs \in IndexReplies(p) : found' = found \cup cs
              \/ (p = Self \/ p \notin Reliable) /\ found' = found
    BY <1>6 DEF QueryPeerIndex
  <2>2. /\ pc = "query" /\ pc' = "query"
        /\ UNCHANGED <<expected, entries, tokens, ask, token>>
    BY <1>6 DEF QueryPeerIndex
  <2>3. \A e \in expected : Heard(e) => Heard(e)'
    BY <2>1, <2>2 DEF Heard
  <2>4. ASSUME NEW e \in expected, Pending(e), ~Pending(e)'
        PROVE  Heard(e)'
    <3>1. e[1] = token /\ e[2] = p
      BY <2>1, <2>2, <2>4 DEF Pending
    <3>2. p \in Reliable /\ p \in Peers /\ p # Self
      BY <3>1, PeersAssumption DEF IInv, TypeOK
    <3>3. PICK cs \in IndexReplies(p) : found' = found \cup cs
      BY <2>1, <3>2
    <3>4. \E d \in entries[p] : token \in d.matches
      BY <3>1, <3>2 DEF ExpectedListed, Matched
    <3>5. cs # {} /\ cs \subseteq CtidsOf(entries[p])
      BY <3>3, <3>4 DEF IndexReplies, Catalog!Answers, CtidsOf
    <3> QED
      BY <2>2, <3>1, <3>3, <3>5 DEF Heard
  <2>5. AllHeard'
    BY <2>2, <2>3, <2>4 DEF AllHeard
  <2> QED
    BY <1>2, <2>2, <2>5 DEF ExpectedListed, Matched, AllResolved, NothingIsMissed
<1>7. CASE NextToken
  <2>1. \A e \in expected : Pending(e) => e[1] \in ask
    BY <1>7 DEF NextToken, Pending
  <2>2. /\ pc = "query" /\ UNCHANGED <<expected, entries, tokens, ask, found>>
        /\ pc' = "token" \/ (pc' = "resolve" /\ ask = {} /\ unresolved' = found)
    BY <1>7 DEF NextToken
  <2>3. AllHeard'
    BY <2>1, <2>2 DEF AllHeard, Pending, Heard
  <2> QED
    BY <1>2, <2>2, <2>3 DEF ExpectedListed, Matched, AllResolved, NothingIsMissed
<1> QED
  BY <1>3, <1>4, <1>5, <1>6, <1>7

\* A lookup that finds no provider at all still makes a result.
LEMMA FindProvidersKeepsHearing ==
    ASSUME HearingInv, FindProviders
    PROVE  NobodyDropped'
<1> USE DEF catalogues, HearingInv, NobodyDropped, FindProviders
<1>1. PICK c \in unresolved : \E ps \in SUBSET Peers :
         /\ network' = network \cup {[ctid |-> c, providers |-> ps]}
         /\ unresolved' = unresolved \ {c}
  BY DEF Lookup
<1>2. AllResolved'
  <2>1. PICK ps \in SUBSET Peers : network' = network \cup {[ctid |-> c, providers |-> ps]}
    BY <1>1
  <2>2. [ctid |-> c, providers |-> ps] \in network' /\ [ctid |-> c, providers |-> ps].ctid = c
    BY <2>1
  <2>3. /\ network \subseteq network' /\ unresolved' = unresolved \ {c}
        /\ pc = "resolve" /\ found' = found
    BY <1>1
  <2> QED
    BY <2>2, <2>3 DEF AllResolved
<1>3. ExpectedListed' /\ AllHeard' /\ NothingIsMissed'
  BY DEF ExpectedListed, Matched, AllHeard, Pending, Heard, NothingIsMissed
<1> QED
  BY <1>2, <1>3

LEMMA DisjointCardinality ==
    ASSUME NEW S, NEW T, IsFiniteSet(S), IsFiniteSet(T), S \cap T = {}
    PROVE  Cardinality(S \cup T) = Cardinality(S) + Cardinality(T)
<1>1. Cardinality(S) \in Nat /\ Cardinality(T) \in Nat /\ Cardinality(S \cap T) = 0
  BY FS_CardinalityType, FS_EmptySet
<1>2. Cardinality(S \cup T) = Cardinality(S) + Cardinality(T) - Cardinality(S \cap T)
  BY FS_Union
<1> QED
  BY <1>1, <1>2

\* If the merge leaves room, it has taken every network result: own tracks are as
\* many as the results they replace, so the search for more was not cut short.
LEMMA RoomMeansAll ==
    ASSUME IInv, Merge, Cardinality(results') < MaxResults
    PROVE  /\ unresolved = {}
           /\ \A c \in own : Local(c) \in results'
           /\ Fresh \subseteq results'
<1> DEFINE L == {Local(c) : c \in own}
           N == network \ Fresh
<1>1. PICK picked \in SUBSET Fresh :
         /\ picked = Fresh \/ Cardinality(picked) = Room
         /\ results' = L \cup picked
  BY DEF Merge
<1>2. /\ IsFiniteSet(own) /\ IsFiniteSet(network) /\ IsFiniteSet(Fresh)
      /\ IsFiniteSet(N) /\ IsFiniteSet(picked)
  BY CtidAssumption, FiniteNetwork, FS_Subset DEF IInv, TypeOK, Fresh
<1>3. IsFiniteSet(L) /\ Cardinality(L) = Cardinality(own)
  <2>1. [c \in own |-> Local(c)] \in Bijection(own, L)
    BY DEF Bijection, Injection, Surjection, IsInjective, Local
  <2> QED
    BY <1>2, <2>1, FS_Bijection DEF ExistsBijection
<1>4. /\ Cardinality(own) \in Nat /\ Cardinality(picked) \in Nat
      /\ Cardinality(Fresh) \in Nat /\ Cardinality(N) \in Nat /\ Cardinality(network) \in Nat
  BY <1>2, FS_CardinalityType
<1>5. Cardinality(results') = Cardinality(own) + Cardinality(picked)
  <2>1. L \cap picked = {}
    BY DEF Fresh, Local
  <2> HIDE DEF L
  <2>2. Cardinality(L \cup picked) = Cardinality(L) + Cardinality(picked)
    BY <1>2, <1>3, <2>1, DisjointCardinality
  <2> QED
    BY <1>1, <1>3, <2>2
<1>6. picked = Fresh
  BY <1>1, <1>4, <1>5, LimitsAssumption DEF Room
<1>7. Cardinality(N) <= Cardinality(own)
  <2>1. [r \in N |-> r.ctid] \in Injection(N, own)
    BY DEF Injection, IsInjective, Fresh, IInv, NetworkDistinct
  <2> QED
    BY <1>2, <2>1, FS_Injection
<1>8. Cardinality(network) = Cardinality(N) + Cardinality(Fresh)
  <2>1. network = N \cup Fresh /\ N \cap Fresh = {}
    BY DEF Fresh
  <2> QED
    BY <1>2, <2>1, DisjointCardinality
<1>9. Cardinality(network) < MaxResults
  BY <1>4, <1>5, <1>6, <1>7, <1>8, LimitsAssumption
<1> QED
  BY <1>1, <1>6, <1>9 DEF Merge, Unfinished

LEMMA MergeKeepsHearing ==
    ASSUME HearingInv, Merge \/ Reply
    PROVE  NobodyDropped'
<1> USE DEF catalogues, HearingInv, NobodyDropped
<1>1. CASE Merge
  <2>1. ExpectedListed' /\ AllHeard' /\ AllResolved'
    BY <1>1 DEF Merge, ExpectedListed, Matched, AllHeard, Heard, AllResolved
  <2>2. ASSUME Cardinality(results') < MaxResults, NEW e \in expected
        PROVE  \E r \in results' : r.ctid \in CtidsOf(entries[e[2]])
    <3>1. PICK c \in found : c \in CtidsOf(entries[e[2]])
      BY <1>1, <2>2 DEF AllHeard, Heard, Merge
    <3>2. PICK r \in network : r.ctid = c
      BY <1>1, <2>2, RoomMeansAll DEF AllResolved, Merge
    <3>3. r \in Fresh \/ c \in own
      BY <3>2 DEF Fresh
    <3>4. CASE c \in own
      BY <1>1, <2>2, <3>1, <3>4, RoomMeansAll DEF Local
    <3> QED
      BY <1>1, <2>2, <3>1, <3>2, <3>3, <3>4, RoomMeansAll
  <2>3. NothingIsMissed'
    BY <1>1, <2>2 DEF NothingIsMissed, Merge
  <2> QED
    BY <2>1, <2>3
<1>2. CASE Reply
  BY <1>2 DEF Reply, ExpectedListed, AllHeard, AllResolved, NothingIsMissed
<1> QED
  BY <1>1, <1>2

\* A reply with room to spare has a track of every reliable peer that, when the
\* search began, was listed under a token of the query and found a title by it, but
\* for tokens with more providers than are asked, whatever fails, is added or is
\* forgotten while it runs.
THEOREM NothingMissed == Spec => []NothingIsMissed
<1>1. Init => NobodyDropped
  BY DEF Init, NobodyDropped, ExpectedListed, AllHeard, AllResolved, NothingIsMissed
<1>2. HearingInv /\ [Next]_vars => NobodyDropped'
  <2> SUFFICES ASSUME HearingInv, [Next]_vars PROVE NobodyDropped'
    OBVIOUS
  <2>1. CASE UNCHANGED vars
    BY <2>1 DEF vars, HearingInv, NobodyDropped, ExpectedListed, Matched, AllHeard,
       Pending, Heard, AllResolved, NothingIsMissed
  <2>2. CASE Next
    BY <2>2, PeerKeepsHearing, GatheringKeepsHearing, FindProvidersKeepsHearing,
       MergeKeepsHearing DEF Next, Search
  <2> QED
    BY <2>1, <2>2
<1>3. NobodyDropped => NothingIsMissed
  BY DEF NobodyDropped
<1> QED
  BY Invariance, <1>1, <1>2, <1>3, PTL DEF Spec, HearingInv

-----------------------------------------------------------------------------
\* Every peer keeps Catalogue's promise, the one TrackPipeline is shown to keep.
THEOREM PeersAreCatalogues ==
    ASSUME NEW p \in Peers
    PROVE  Spec => Catalog(p)!CatalogueSpec
<1> USE DEF Catalog!cvars
<1>1. Init => Catalog(p)!CatalogueInit
  BY DEF Init, Catalog!CatalogueInit
<1>2. IInv /\ [Next]_vars => [Catalog(p)!CatalogueNext]_(Catalog(p)!cvars)
  <2> SUFFICES ASSUME IInv, [Next]_vars
               PROVE  \/ Catalog(p)!CatalogueNext
                      \/ UNCHANGED <<entries[p], ctids[p], tokens[p]>>
    OBVIOUS
  <2>1. CASE UNCHANGED vars
    BY <2>1 DEF vars
  <2>2. CASE Search
    BY <2>2 DEF Search, SearchLocal, ReadOwnIndex, FindProvidersForToken, QueryPeerIndex,
       NextToken, FindProviders, Merge, Reply, catalogues
  <2>3. ASSUME NEW q \in Peers, q # p, Peer(q)
        PROVE  UNCHANGED <<entries[p], ctids[p], tokens[p]>>
    BY <2>3 DEF Peer, AddEntry, AdvertiseCtid, AdvertiseToken, Forget, IInv, TypeOK
  <2>4. CASE AddEntry(p)
    BY <2>4 DEF AddEntry, IInv, TypeOK, Entry, Catalog!CatalogueNext, Catalog!AddEntry,
       Catalog!Entry
  <2>5. CASE AdvertiseCtid(p)
    BY <2>5 DEF AdvertiseCtid, IInv, TypeOK, Catalog!CatalogueNext, Catalog!AdvertiseCtid
  <2>6. CASE AdvertiseToken(p)
    BY <2>6 DEF AdvertiseToken, IInv, TypeOK, Catalog!CatalogueNext, Catalog!AdvertiseToken
  <2>7. CASE Forget(p)
    BY <2>7 DEF Forget, IInv, TypeOK, Catalog!CatalogueNext, Catalog!Forget
  <2> QED
    BY <2>1, <2>2, <2>3, <2>4, <2>5, <2>6, <2>7 DEF Next, Peer
<1> QED
  BY Invariance, <1>1, <1>2, PTL DEF Spec, Catalog!CatalogueSpec
=============================================================================
