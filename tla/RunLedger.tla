------------------------------ MODULE RunLedger ------------------------------
(***************************************************************************)
(* What the inference_runs table and InferenceJob.result promise a reader  *)
(* of GET /jobs/{id} and GET /jobs/{id}/result, whoever executes the job   *)
(* and however often its message is delivered: attempts are numbered       *)
(* 1, 2, 3, ... without a gap or a repeat, each is closed at most once and *)
(* never reopened, and the served manifest is always that of an attempt    *)
(* which succeeded.                                                        *)
(***************************************************************************)
EXTENDS Naturals

VARIABLES
    count,      \* attempts opened so far
    history,    \* outcome of each attempt
    published   \* the attempt whose manifest is served, or 0

ledgerVars == <<count, history, published>>

Init ==
    /\ count = 0
    /\ history = [a \in {} |-> "running"]
    /\ published = 0

\* A new attempt takes the next number.
Open ==
    /\ count' = count + 1
    /\ history' = [a \in DOMAIN history \cup {count + 1} |->
                     IF a = count + 1 THEN "running" ELSE history[a]]
    /\ published' = published

Succeed(a) ==
    /\ history[a] = "running"
    /\ history' = [history EXCEPT ![a] = "succeeded"]
    /\ published' = a
    /\ count' = count

Fail(a) ==
    /\ history[a] = "running"
    /\ history' = [history EXCEPT ![a] = "failed"]
    /\ UNCHANGED <<count, published>>

Next == Open \/ \E a \in 1 .. count : Succeed(a) \/ Fail(a)

Spec == Init /\ [][Next]_ledgerVars
=============================================================================
