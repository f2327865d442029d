----------------------------- MODULE MCModelStore -----------------------------
(* Instances of ModelStore: a trained checkpoint, and a published graph that is
   downloaded, served, and converted into the primary of u2net. *)
EXTENDS ModelStore

CONSTANTS d1, d2

MCConversions == {<<"u2net.onnx", "u2net.pt">>}
Symmetry == Permutations(Downloaders)
MCScores == {0, 1}
=============================================================================
