---------------------------- MODULE AssetContract ----------------------------
(***************************************************************************)
(* What an asset promises its owner: it is reserved, accepts its bytes     *)
(* once, keeps serving exactly those, and when deleted is gone for good.   *)
(***************************************************************************)
CONSTANTS Contents, NoContent

VARIABLES
    state,      \* "absent", "open", "ready" or "deleted"
    bytes       \* what a download or a job reads, or NoContent

contractVars == <<state, bytes>>

Init == state = "absent" /\ bytes = NoContent

Reserve == state = "absent" /\ state' = "open" /\ bytes' = NoContent

Accept(c) == state = "open" /\ state' = "ready" /\ bytes' = c

Delete == state \in {"open", "ready"} /\ state' = "deleted" /\ bytes' = NoContent

Next == Reserve \/ Delete \/ \E c \in Contents : Accept(c)

Spec == Init /\ [][Next]_contractVars
=============================================================================
