------------------------------- MODULE Search -------------------------------
(***************************************************************************)
(* One search: daemon.Search and search.Service.Search (search.go) with    *)
(* the index queries it sends (index_protocol.go) and its DHT lookups      *)
(* (dht.go), while the peers of the network go on adding and announcing    *)
(* tracks.  The peers are what Catalogue promises of each: TrackPipeline   *)
(* is shown to keep that promise, and RemoteLike plays what is found here. *)
(*                                                                         *)
(* A step ends where the code waits for the network or the store.          *)
(***************************************************************************)
EXTENDS Naturals, FiniteSets

CONSTANTS
    Peers,          \* the network; its peers' tracks are in the catalogues
    Self,           \* the peer that searches
    Reliable,       \* peers that can be reached and whose DHT records are kept and found in time
    Ids, Ctid, Token,
    Titles,         \* what titles may give: their tokens, and those the store finds them by
    Unconfirmed,    \* CTIDs of own processed tracks that were not recognised
    MaxProviders,   \* providers of a token that are queried (10 in the code)
    MaxNamed,       \* providers named for a CTID (5 in the code)
    MaxResults,     \* the caller's limit, at least 1
    Queries,        \* the token sets that are searched for
    MaxTracks,      \* bound: tracks in all the catalogues together
    Faults,         \* subset of FaultKinds
    None            \* no token

FaultKinds == {"lookup", "query", "forget"}

ASSUME PeersAssumption  == IsFiniteSet(Peers) /\ Self \in Peers /\ Reliable \subseteq Peers \ {Self}
ASSUME TitlesAssumption == Titles \subseteq [tokens: SUBSET Token, matches: SUBSET Token]
ASSUME QueriesAssumption == Queries \subseteq (SUBSET Token) \ {{}}
ASSUME CtidAssumption   == IsFiniteSet(Ctid) /\ Unconfirmed \subseteq Ctid
ASSUME LimitsAssumption == MaxProviders \in Nat /\ MaxNamed \in Nat /\ MaxResults \in Nat \ {0}
ASSUME FaultsAssumption == Faults \subseteq FaultKinds
ASSUME NoneAssumption   == None \notin Token /\ None \notin Ctid

VARIABLES
    entries, ctids, tokens,  \* the catalogue of each peer
    pc,
    query,       \* the tokens of the query
    expected,    \* history: the reliable peers whose answer for each of them the reply owes
    own,         \* CTIDs of searchLocal's results
    ask,         \* tokens that have not been looked up
    token,       \* the token being asked about
    left,        \* its providers that have not been queried
    found,       \* ctidSet
    unresolved,  \* CTIDs of it that have not been looked up
    network,     \* searchNetwork's results
    results      \* the reply

catalogues == <<entries, ctids, tokens>>
steps      == <<pc, query, expected, own, ask, token, left, found, unresolved, network, results>>
vars       == <<entries, ctids, tokens, pc, query, expected, own, ask, token, left,
                found, unresolved, network, results>>

Catalog(p) == INSTANCE Catalogue WITH
    entries <- entries[p], ctids <- ctids[p], tokens <- tokens[p]

Entry == [id: Ids, ctid: Ctid, tokens: SUBSET Token, matches: SUBSET Token]

\* A search result; local ones name no providers.
Result   == [ctid: Ctid, providers: SUBSET Peers]
Local(c) == [ctid |-> c, providers |-> {}]

CtidsOf(es) == {e.ctid : e \in es}
Having(p, k) == {e \in entries[p] : k \in e.tokens}
Matched(p, k) == \E e \in entries[p] : k \in e.matches
May(fault)  == fault \in Faults

-----------------------------------------------------------------------------
(* The peers, as in Catalogue.                                             *)

AddEntry(p) == \E e \in Entry :
    /\ [tokens |-> e.tokens, matches |-> e.matches] \in Titles
    /\ Cardinality({t \in Peers \X Entry : t[2] \in entries[t[1]]}) < MaxTracks
    /\ \A d \in entries[p] : d.id # e.id
    /\ entries' = [entries EXCEPT ![p] = @ \cup {e}]
    /\ UNCHANGED <<ctids, tokens, steps>>

\* Mutant: a peer announces the hash it expects before the track is saved.
AdvertiseCtidEarly(p) == \E c \in Ctid :
    /\ ctids' = [ctids EXCEPT ![p] = @ \cup {c}]
    /\ UNCHANGED <<entries, tokens, steps>>

AdvertiseCtid(p) == \E e \in entries[p] :
    /\ ctids' = [ctids EXCEPT ![p] = @ \cup {e.ctid}]
    /\ UNCHANGED <<entries, tokens, steps>>

AdvertiseToken(p) == \E e \in entries[p] : \E k \in e.tokens :
    /\ tokens' = [tokens EXCEPT ![p] = @ \cup {k}]
    /\ UNCHANGED <<entries, ctids, steps>>

Forget(p) ==
    /\ May("forget") /\ p \notin Reliable
    /\ \/ \E c \in ctids[p] : ctids' = [ctids EXCEPT ![p] = @ \ {c}] /\ UNCHANGED tokens
       \/ \E k \in tokens[p] : tokens' = [tokens EXCEPT ![p] = @ \ {k}] /\ UNCHANGED ctids
    /\ UNCHANGED <<entries, steps>>

-----------------------------------------------------------------------------
(* The search.                                                             *)

\* The query is tokenised and searched for in the store.  Which of the own
\* tracks match is up to text (substrings count, case folding is ASCII); they
\* need not be recognised.  The history: who is listed under a token by then, and
\* answers for it whatever a restart has left of its index.
SearchLocal(q) ==
    /\ pc = "idle"
    /\ query' = q
    /\ own' \in SUBSET (CtidsOf(entries[Self]) \cup Unconfirmed)
    /\ expected' = {e \in q \X Reliable : e[1] \in tokens[e[2]] /\ Matched(e[2], e[1])}
    /\ pc' = "index"
    /\ UNCHANGED <<catalogues, ask, token, left, found, unresolved, network, results>>

\* The own index may be partly filled after a restart.
ReadOwnIndex ==
    /\ pc = "index"
    /\ found' \in SUBSET CtidsOf(UNION {Having(Self, k) : k \in query})
    /\ ask' = query
    /\ pc' = "token"
    /\ UNCHANGED <<catalogues, query, expected, own, token, left, unresolved, network, results>>

\* What a lookup for the holders of a record may return: as many as asked for,
\* or what arrives within its 30 seconds; it never fails.
Lookup(holders, max) == {ps \in SUBSET holders :
    /\ Cardinality(ps) <= max
    /\ \/ ps = holders
       \/ Cardinality(ps) = max
       \/ May("lookup") /\ holders \cap Reliable \subseteq ps}

\* Of a token with more providers than are asked, some are left out: it is not
\* owed to any of them.
FindProvidersForToken ==
    /\ pc = "token"
    /\ \E k \in ask : LET holders == {p \in Peers : k \in tokens[p]} IN
          /\ token' = k
          /\ ask' = ask \ {k}
          /\ left' \in Lookup(holders, MaxProviders)
          /\ expected' = {e \in expected : e[1] = k => Cardinality(holders) <= MaxProviders}
    /\ pc' = "query"
    /\ UNCHANGED <<catalogues, query, own, found, unresolved, network, results>>

\* Mutant: the fallback lets through tracks that have no CTID yet.
IndexRepliesUnprocessed(p) ==
    {cs \in SUBSET (CtidsOf(entries[p]) \cup {None}) : Matched(p, token) => cs # {}}

\* HandleIndexQuery at peer p: entries of its index, or, when that has nothing,
\* of its store, where substrings match too but only ASCII letters are folded, so
\* that a listed peer may answer nothing: what Catalogue promises, and
\* TrackPipeline is shown to keep to for any titles (AnswersAsPromised).
IndexReplies(p) == Catalog(p)!Answers(token)

\* Mutant: the first provider that cannot be queried ends the token.
QueryPeerIndexOrGiveUp ==
    /\ pc = "query"
    /\ \E p \in left :
          \/ /\ p # Self
             /\ \E cs \in IndexReplies(p) : found' = found \cup cs
             /\ left' = left \ {p}
          \/ /\ p = Self \/ (May("query") /\ p \notin Reliable)
             /\ left' = {}
             /\ UNCHANGED found
    /\ UNCHANGED <<catalogues, pc, query, expected, own, ask, token, unresolved, network, results>>

\* One provider.  A failed query is passed over, and a peer cannot dial itself.
QueryPeerIndex ==
    /\ pc = "query"
    /\ \E p \in left :
          /\ left' = left \ {p}
          /\ \/ /\ p # Self
                /\ \E cs \in IndexReplies(p) : found' = found \cup cs
             \/ /\ p = Self \/ (May("query") /\ p \notin Reliable)
                /\ UNCHANGED found
    /\ UNCHANGED <<catalogues, pc, query, expected, own, ask, token, unresolved, network, results>>

NextToken ==
    /\ pc = "query" /\ left = {}
    /\ token' = None
    /\ IF ask # {}
       THEN pc' = "token" /\ UNCHANGED unresolved
       ELSE pc' = "resolve" /\ unresolved' = found
    /\ UNCHANGED <<catalogues, query, expected, own, ask, left, found, network, results>>

Unfinished == unresolved # {} /\ Cardinality(network) < MaxResults

\* Providers of one CTID, in the order of a Go map; then the store is asked for
\* the title.
FindProviders ==
    /\ pc = "resolve" /\ Unfinished
    /\ \E c \in unresolved :
          /\ \E ps \in Lookup({p \in Peers : c \in ctids[p]}, MaxNamed) :
                network' = network \cup {[ctid |-> c, providers |-> ps]}
          /\ unresolved' = unresolved \ {c}
    /\ UNCHANGED <<catalogues, pc, query, expected, own, ask, token, left, found, results>>

\* Network results for other CTIDs than the local ones, and how many of them the
\* reply takes: whether it is full is only looked at after one has been added.
Fresh == {r \in network : r.ctid \notin own}
Room  == IF MaxResults > Cardinality(own) THEN MaxResults - Cardinality(own) ELSE 1

\* Mutant: the check for CTIDs already seen is dropped.
MergeAll ==
    /\ pc = "resolve" /\ ~Unfinished
    /\ \E picked \in SUBSET network :
          /\ Cardinality(picked) <= MaxResults - Cardinality(own)
          /\ results' = {Local(c) : c \in own} \cup picked
    /\ pc' = "done"
    /\ UNCHANGED <<catalogues, query, expected, own, ask, token, left, found, unresolved, network>>

\* Mutant: the limit counts the network results looked at, not the merged ones.
MergeUpToMax ==
    /\ pc = "resolve" /\ ~Unfinished
    /\ \E seen \in SUBSET network :
          /\ seen = network \/ Cardinality(seen) = MaxResults - 1
          /\ results' = {Local(c) : c \in own} \cup (seen \cap Fresh)
    /\ pc' = "done"
    /\ UNCHANGED <<catalogues, query, expected, own, ask, token, left, found, unresolved, network>>

\* Local results first, all of them.
Merge ==
    /\ pc = "resolve" /\ ~Unfinished
    /\ \E picked \in SUBSET Fresh :
          /\ picked = Fresh \/ Cardinality(picked) = Room
          /\ Cardinality(picked) <= Room
          /\ results' = {Local(c) : c \in own} \cup picked
    /\ pc' = "done"
    /\ UNCHANGED <<catalogues, query, expected, own, ask, token, left, found, unresolved, network>>

Reply ==
    /\ pc = "done"
    /\ pc' = "idle"
    /\ query' = {} /\ expected' = {} /\ own' = {} /\ found' = {} /\ unresolved' = {}
    /\ network' = {} /\ results' = {}
    /\ UNCHANGED <<catalogues, ask, token, left>>

-----------------------------------------------------------------------------

Init ==
    /\ entries = [p \in Peers |-> {}]
    /\ ctids   = [p \in Peers |-> {}]
    /\ tokens  = [p \in Peers |-> {}]
    /\ pc = "idle" /\ token = None
    /\ query = {} /\ expected = {} /\ own = {} /\ ask = {} /\ left = {}
    /\ found = {} /\ unresolved = {} /\ network = {} /\ results = {}

Peer(p) == AddEntry(p) \/ AdvertiseCtid(p) \/ AdvertiseToken(p) \/ Forget(p)

\* A query without tokens is answered at once with nothing.
Search ==
    \/ \E q \in Queries : SearchLocal(q)
    \/ ReadOwnIndex \/ FindProvidersForToken \/ QueryPeerIndex \/ NextToken
    \/ FindProviders \/ Merge \/ Reply

Next == (\E p \in Peers : Peer(p)) \/ Search

Spec == Init /\ [][Next]_vars

-----------------------------------------------------------------------------
(* Properties.                                                             *)

Labels == {"idle", "index", "token", "query", "resolve", "done"}

\* Every variable has its type.
TypeOK ==
    /\ entries \in [Peers -> SUBSET Entry]
    /\ ctids \in [Peers -> SUBSET Ctid]
    /\ tokens \in [Peers -> SUBSET Token]
    /\ pc \in Labels
    /\ query \subseteq Token /\ ask \subseteq query
    /\ expected \subseteq query \X Reliable
    /\ own \subseteq Ctid /\ found \subseteq Ctid
    /\ token \in query \cup {None}
    /\ left \subseteq Peers
    /\ unresolved \subseteq found
    /\ network \subseteq Result
    /\ results \subseteq Result

\* Whatever a reply says can be had: a result is an own track or one that some
\* peer has, and each provider named for it has that very track, although the
\* lookups are minutes apart and records come and go meanwhile.
ResultsAreServable == pc = "done" => \A r \in results :
    /\ \/ r.ctid \in Unconfirmed
       \/ \E p \in Peers : r.ctid \in CtidsOf(entries[p])
    /\ \A p \in r.providers : r.ctid \in CtidsOf(entries[p])

\* No CTID is listed twice, and a reply exceeds the caller's limit only by the
\* own tracks and one more (search.go:72-92).
ResultsAreDistinct == pc = "done" =>
    /\ \A r, s \in results : r.ctid = s.ctid => r = s
    /\ \/ Cardinality(results) <= MaxResults
       \/ Cardinality(results) <= Cardinality(own) + 1

\* A reply with room to spare has something from every reliable peer that was
\* listed under a token of the query when the search began, unless its store finds
\* none of its titles by that token or the token had more providers than are asked,
\* and whatever the other peers, the other tokens and the order of the lookups
\* were (search.go:157, 182 "Non-fatal, continue"; own tracks among the network
\* results take places there, but the reply is full then anyway).
NothingIsMissed ==
    (pc = "done" /\ Cardinality(results) < MaxResults) =>
        \A e \in expected : \E r \in results : r.ctid \in CtidsOf(entries[e[2]])

=============================================================================
