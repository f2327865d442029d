----------------------------- MODULE MCSubmission -----------------------------
(* Instances of Submission: identical requests through the threads of an API process. *)
EXTENDS Submission, TLC

CONSTANTS p1, p2, r1, r2, r3, r4, a1, a2, k1, ip

Symmetry == Permutations(Requests) \cup Permutations(Processes) \cup Permutations(Assets)
=============================================================================
