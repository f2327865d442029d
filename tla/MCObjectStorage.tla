--------------------------- MODULE MCObjectStorage ---------------------------
(* Instances of ObjectStorage: keys in two directories, one named like the start of
   the other, so that paths and bytes sort them differently ("-" is before "/"). *)
EXTENDS ObjectStorage, TLC

CONSTANTS c1, c2, c3, p, q

TwoCallers   == {c1, c2}
ThreeCallers == {c1, c2, c3}
Short        == <<"a", "/", "x">>
Long         == <<"a", "-", "/", "x">>
MCKeys       == {Short, Long}
MCRank       == [local |-> [k \in MCKeys |-> IF k = Short THEN 1 ELSE 2],
                 s3    |-> [k \in MCKeys |-> IF k = Long THEN 1 ELSE 2]]
MCPrefixes   == {<<"a">>, <<"a", "/">>}

Symmetry == Permutations(Callers) \cup Permutations(Payloads)
=============================================================================
