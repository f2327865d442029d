------------------------------- MODULE MCStudio -------------------------------
(* Instances of Studio: two files, dropped together or one alone. *)
EXTENDS Studio

CONSTANTS f1, f2, png, mask

MCDrops == {<<f1, f2>>, <<f1>>}
=============================================================================
