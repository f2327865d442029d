---------------------------- MODULE MCAssetUpload ----------------------------
(***************************************************************************)
(* Instances of AssetSerial: two formats, payloads of each and one of      *)
(* neither.                                                                *)
(***************************************************************************)
EXTENDS AssetSerial, TLC

CONSTANTS r1, r2, r3, p1, p2, j1, bad, png, jpg

ThreeRequests == {r1, r2, r3}

MCTypeOf == [c \in Contents |->
    CASE c \in {p1, p2} -> png [] c = j1 -> jpg [] OTHER -> NoType]

RequestSymmetry == Permutations(Requests)
=============================================================================
