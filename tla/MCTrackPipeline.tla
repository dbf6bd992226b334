-------------------------- MODULE MCTrackPipeline --------------------------
(***************************************************************************)
(* Instances of TrackPipeline for TLC.                                     *)
(***************************************************************************)
EXTENDS TrackPipeline, TLC

CONSTANTS w1, w2, c1, c2, i1, i2, i3, A, B, x, y

Ascii(T)    == [tokens |-> T, matches |-> T, recognized |-> TRUE]
Unconfirmed == [tokens |-> {x}, matches |-> {x}, recognized |-> FALSE]
\* A title such as "ДДТ": tokenize lower-cases it, storage.toLower does not.
Cyrillic    == [tokens |-> {x}, matches |-> {}, recognized |-> TRUE]

Symmetry == Permutations(Ids) \cup Permutations(Ctid) \cup Permutations(Callers)

MetaShared == {Blank, Ascii({x})}
MetaMixed  == {Blank, Ascii({x}), Unconfirmed}
MetaFolded == {Blank, Ascii({x}), Cyrillic}
=============================================================================
