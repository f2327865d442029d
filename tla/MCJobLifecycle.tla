--------------------------- MODULE MCJobLifecycle ---------------------------
(* JobLifecycle on small instances.  The bounds of each run are in its cfg. *)
EXTENDS JobLifecycle, TLC

CONSTANTS w1, w2, o1, o2

MCWorkers == {w1, w2}
OneWorker == {w1}
OneOutput == {o1}
TwoOutputs == {o1, o2}
WorkerSymmetry == Permutations(MCWorkers)
=============================================================================
