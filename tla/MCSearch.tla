------------------------------ MODULE MCSearch ------------------------------
(***************************************************************************)
(* Instances of Search for TLC.                                            *)
(***************************************************************************)
EXTENDS Search, TLC

CONSTANTS self, p, q, i, A, B, x, y

QueryBoth == {{x, y}}

\* Titles with both tokens, by which the store finds them or, as in capital
\* Cyrillic letters, does not.
TitlesMixed == {[tokens |-> {x, y}, matches |-> M] : M \in {{x, y}, {}}}

Symmetry == Permutations({x, y})
=============================================================================
