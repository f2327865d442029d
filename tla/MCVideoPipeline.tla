--------------------------- MODULE MCVideoPipeline ---------------------------
(* VideoPipeline on short sources.  The bounds of each run are in its cfg. *)
EXTENDS VideoPipeline
=============================================================================
