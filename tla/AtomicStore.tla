----------------------------- MODULE AtomicStore -----------------------------
(***************************************************************************)
(* What the callers of cutoutml.storage rely on: a put makes a whole value *)
(* appear at its key, a delete makes it disappear, each at some moment of  *)
(* the call, and what a read answers the key held at some moment of the    *)
(* read.  A call may fail or be lost with its process; whether its effect  *)
(* happened is then unknown.                                               *)
(***************************************************************************)
CONSTANTS
    Callers, Keys, Values,
    Absent,     \* a key holds nothing
    Failed      \* a call raised, or its process died

VARIABLES
    store,      \* what each key holds
    calls,      \* each caller's call in progress
    told        \* the last answer: the caller and the value

vars == <<store, calls, told>>

NoCall == [op |-> "none"]

Init ==
    /\ store = [k \in Keys |-> Absent]
    /\ calls = [c \in Callers |-> NoCall]
    /\ told = Failed

Call(op, k, v) ==
    [op |-> op, key |-> k, value |-> v, applied |-> FALSE, seen |-> {store[k]}]

Begins(c) ==
    /\ calls[c] = NoCall
    /\ UNCHANGED <<store, told>>
    /\ \E new \in UNION {{Call("get", k, Absent), Call("delete", k, Absent)}
                           \cup {Call("put", k, v) : v \in Values} : k \in Keys} :
         calls' = [calls EXCEPT ![c] = new]

\* Until it is answered a put may be carried out again, as a client that repeats a
\* request does; every call on the key in progress may see it.
Apply(c) ==
    /\ calls[c].op \in {"put", "delete"}
    /\ UNCHANGED told
    /\ LET k == calls[c].key
           v == calls[c].value IN
       /\ store' = [store EXCEPT ![k] = v]
       /\ calls' = [d \in Callers |->
            IF calls[d] = NoCall \/ calls[d].key # k THEN calls[d]
            ELSE [op |-> calls[d].op, key |-> k, value |-> calls[d].value,
                  applied |-> calls[d].applied \/ d = c, seen |-> calls[d].seen \cup {v}]]

Ends(c, v) ==
    /\ calls[c] # NoCall
    /\ told' = <<c, v>>
    /\ UNCHANGED store
    /\ calls' = [calls EXCEPT ![c] = NoCall]

\* v is what a read answers, or what the metadata a put answers is of.
Answer(c, v) ==
    /\ Ends(c, v) /\ v \in calls[c].seen
    /\ calls[c].op \in {"put", "delete"} => calls[c].applied

\* The call raises, or its process dies.
Lose(c) == Ends(c, Failed)

Next == \E c \in Callers :
    Begins(c) \/ Apply(c) \/ Lose(c) \/ \E v \in Values \cup {Absent} : Answer(c, v)

Spec == Init /\ [][Next]_vars
=============================================================================
