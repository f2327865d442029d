------------------------------ MODULE Submission ------------------------------
(***************************************************************************)
(* POST /v1/assets/{id}/process from the rate limiter to the commit of the *)
(* job, for several requests at once: one transaction looks for a job with *)
(* the request's idempotency key, and inserts one if it saw none; the      *)
(* unique constraint on (owner, key) refuses the second of two inserts.    *)
(***************************************************************************)
EXTENDS RateLimiter, Sequences

CONSTANTS
    Requests,       \* requests of one owner, each made once
    Assets,         \* the owner's ready assets
    Keys,           \* idempotency keys a client supplies
    NoKey           \* the client supplies none

VARIABLES
    requests,       \* where each request is, and what it was answered
    jobs            \* the inference_jobs rows of the owner

vars == <<limiter, requests, jobs>>

-----------------------------------------------------------------------------

Body    == [asset : Assets, key : Keys \cup {NoKey}]
Derived == [derived : Assets]
Job     == [asset : Assets, key : Keys \cup Derived]

\* A derived key is a digest, and a client that supplies a key supplies another.
ASSUME KeyAssumption == NoKey \notin Keys /\ Keys \cap Derived = {}

\* Made out of the asset, its content and the options when the client sends none.
IdempotencyKey(body) == IF body.key = NoKey THEN [derived |-> body.asset] ELSE body.key

NotMade == [pc |-> "none"]
Stamped == [pc : {"stamped"}, process : Processes, identity : Identities, stamp : Int,
            script : BOOLEAN]
Request == [pc : {"admitted", "missed"}, body : Body]
Answer  == [pc : {"answered"}, status : {200, 202, 500}, body : Body, job : Nat]
Refused == [pc |-> "answered", status |-> 429]

TypeOK ==
    /\ LimiterTypeOK
    /\ jobs \in Seq(Job)
    /\ requests \in [Requests -> {NotMade, Refused} \cup Stamped \cup Request \cup Answer]

Init ==
    /\ LimiterInit
    /\ jobs = <<>>
    /\ requests = [r \in Requests |-> NotMade]

Goto(r, pc)  == requests' = [requests EXCEPT ![r].pc = pc]
Reply(r, status, job) ==
    requests' = [requests EXCEPT ![r] = [pc |-> "answered", status |-> status,
                                         body |-> requests[r].body, job |-> job]]

\* The request arrives at a process and the router's dependency calls the limiter,
\* which reads the clock.
Arrive(r) ==
    /\ requests[r] = NotMade
    /\ \E p \in Processes, i \in Identities, t \in Clock :
         requests' = [requests EXCEPT ![r] =
             [pc |-> "stamped", process |-> p, identity |-> i, stamp |-> t,
              script |-> ~redis_failed[p]]]
    /\ UNCHANGED <<limiter, jobs>>

\* The handler is entered with the request's body, which the limiter does not look at.
RateLimit(r) ==
    LET q == requests[r] IN
    /\ q.pc = "stamped"
    /\ \E allowed \in BOOLEAN :
         /\ Check(q.process, q.identity, q.stamp, q.script, allowed)
         /\ \/ /\ ~allowed
               /\ requests' = [requests EXCEPT ![r] = Refused]
            \/ /\ allowed
               /\ \E body \in Body :
                    requests' = [requests EXCEPT ![r] = [pc |-> "admitted", body |-> body]]
    /\ UNCHANGED jobs

WithKey(key) == {j \in DOMAIN jobs : jobs[j].key = key}
TheirJob(r)  == WithKey(IdempotencyKey(requests[r].body))

Lookup(r) ==
    /\ requests[r].pc = "admitted"
    /\ IF TheirJob(r) = {} THEN Goto(r, "missed")
       ELSE \E j \in TheirJob(r) : Reply(r, 200, j)
    /\ UNCHANGED <<limiter, jobs>>

Overlooked(r) == FALSE
Conflicts(r)  == TheirJob(r) # {}

Insert(r) ==
    /\ requests[r].pc = "missed"
    /\ IF Conflicts(r) THEN Reply(r, 500, 0) /\ UNCHANGED jobs
       ELSE /\ jobs' = Append(jobs, [asset |-> requests[r].body.asset,
                                     key |-> IdempotencyKey(requests[r].body)])
            /\ Reply(r, 202, Len(jobs'))
    /\ UNCHANGED limiter

Next ==
    \/ \E r \in Requests : Arrive(r) \/ RateLimit(r) \/ Lookup(r) \/ Insert(r)
    \/ (Tick \/ \E i \in Identities : Expire(i)) /\ UNCHANGED <<requests, jobs>>

Spec == Init /\ [][Next]_vars

-----------------------------------------------------------------------------

Answered(r, statuses) == requests[r].pc = "answered" /\ requests[r].status \in statuses

\* Whatever the order of the look-ups and inserts, requests with one key are
\* answered with one job, and one made without a client's key with a job of the
\* asset it names.
OneJobPerKey ==
    \A r, s \in Requests :
        /\ Answered(r, {200, 202}) /\ Answered(s, {200, 202})
             /\ IdempotencyKey(requests[r].body) = IdempotencyKey(requests[s].body)
           => requests[r].job = requests[s].job
        /\ Answered(r, {200, 202}) /\ requests[r].body.key = NoKey
           => jobs[requests[r].job].asset = requests[r].body.asset

\* A request that lost the race to insert its key and got a 500 is not lost: the
\* job it asked for is there, and a retry finds it; and at most one request of a
\* key is told that it created the job.
LosersHaveAJob ==
    \A r, s \in Requests :
        /\ Answered(r, {500}) => TheirJob(r) # {}
        /\ Answered(r, {202}) /\ Answered(s, {202})
             /\ IdempotencyKey(requests[r].body) = IdempotencyKey(requests[s].body) => r = s

\* A client that repeats a request, at once or later and whatever it was answered,
\* ends with the one job of its key: no answer names another, and no key has two.
OneJobForAll == OneJobPerKey /\ LosersHaveAJob
=============================================================================
