------------------------- MODULE MCProjectPolicies -------------------------
(* Small instances of ProjectPolicies for TLC: two specifications without a *)
(* line in common and one whose second line is rejected.                   *)
EXTENDS ProjectPolicies, TLC

CONSTANTS a, b, c

MCLine  == {a, b, c}
MCGood  == {<<a>>, <<b>>}
MCSpecs == MCGood \cup {<<c, Bad, a>>}
Symmetric == Permutations(Handler)
=============================================================================
