----------------------------- MODULE Catalogue -----------------------------
(***************************************************************************)
(* What a CoTune peer promises the network, without its goroutines, queue, *)
(* caches or crashes: a catalogue of recognised tracks that only grows,    *)
(* and provider records in the DHT that never get ahead of it.             *)
(***************************************************************************)
CONSTANTS Ids, Ctid, Token

\* A title has tokens, and the peer's store finds it by some tokens: mostly those,
\* and others, but not one that was folded from capitals outside ASCII.
Entry == [id: Ids, ctid: Ctid, tokens: SUBSET Token, matches: SUBSET Token]

VARIABLES
    entries,     \* the recognised tracks with a CTID, one entry per track ID
    ctids,       \* CTIDs the network has a record of
    tokens       \* tokens the network has a record of

cvars == <<entries, ctids, tokens>>

CatalogueInit == entries = {} /\ ctids = {} /\ tokens = {}

\* An entry is never changed, replaced or withdrawn.
AddEntry == \E e \in Entry :
    /\ \A d \in entries : d.id # e.id
    /\ entries' = entries \cup {e}
    /\ UNCHANGED <<ctids, tokens>>

AdvertiseCtid == \E e \in entries :
    /\ ctids' = ctids \cup {e.ctid}
    /\ UNCHANGED <<entries, tokens>>

AdvertiseToken == \E e \in entries : \E k \in e.tokens :
    /\ tokens' = tokens \cup {k}
    /\ UNCHANGED <<entries, ctids>>

\* The network forgets records on its own.
Forget ==
    \/ \E c \in ctids : ctids' = ctids \ {c} /\ UNCHANGED <<entries, tokens>>
    \/ \E k \in tokens : tokens' = tokens \ {k} /\ UNCHANGED <<entries, ctids>>

\* What an index query for token k may be answered with: tracks of the catalogue,
\* those that have the token or others, but something if the store finds one by it.
Answers(k) == {cs \in SUBSET {e.ctid : e \in entries} :
                  (\E e \in entries : k \in e.matches) => cs # {}}

CatalogueNext == AddEntry \/ AdvertiseCtid \/ AdvertiseToken \/ Forget

CatalogueSpec == CatalogueInit /\ [][CatalogueNext]_cvars
=============================================================================
