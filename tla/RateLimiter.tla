------------------------------ MODULE RateLimiter ------------------------------
(***************************************************************************)
(* The token buckets in front of the API: one per identity in Redis, which *)
(* every API process updates by an atomic script, and one in the memory of *)
(* each process that has met a Redis failure.  A check reads its process's *)
(* clock first and takes from a bucket later, so that stamps can reach a   *)
(* bucket out of order.                                                    *)
(*                                                                         *)
(* Time is in milliseconds.  A token is Cost units, so that the refill of  *)
(* a millisecond is whole.                                                 *)
(***************************************************************************)
EXTENDS Integers

CONSTANTS
    Processes,      \* API processes
    Identities,     \* callers, as rate_limit names them
    Capacity,       \* units a bucket holds: the burst
    Cost,           \* units a request takes
    Refill,         \* units a bucket gains in a millisecond
    Lags,           \* what the clock of a process may be behind the fastest one
    Instants,       \* bound: the times at which something happens
    NoBucket

\* A bucket of a process has no expiry.
Bucket      == [tokens : 0 .. Capacity, timestamp : Int]
RedisBucket == [tokens : 0 .. Capacity, timestamp : Int, expires : Nat]

ASSUME LimiterAssumption ==
    /\ Cost \in Nat \ {0} /\ Refill \in Nat \ {0}
    /\ Capacity \in Nat /\ Capacity >= Cost
    /\ Lags \subseteq Nat /\ Instants \subseteq Nat
    /\ NoBucket \notin Bucket \cup RedisBucket /\ "redis" \notin Processes

VARIABLES
    now,            \* the time, by the fastest clock
    redis,          \* the buckets in Redis
    memory,         \* the buckets of each process
    redis_failed,   \* the processes that have given Redis up
    ledger          \* history: what each bucket of an identity granted, and how far it was set back

limiter == <<now, redis, memory, redis_failed, ledger>>

-----------------------------------------------------------------------------

Atleast(a, b) == IF a >= b THEN a ELSE b
Atmost(a, b)  == IF a <= b THEN a ELSE b
CeilDiv(a, b) == (a + b - 1) \div b

Stores == Processes \cup {"redis"}
Account == [spent : Nat, behind : Nat]

LimiterTypeOK ==
    /\ now \in Nat
    /\ redis \in [Identities -> RedisBucket \cup {NoBucket}]
    /\ memory \in [Processes -> [Identities -> Bucket \cup {NoBucket}]]
    /\ redis_failed \in [Processes -> BOOLEAN]
    /\ ledger \in [Stores -> [Identities -> Account]]

\* A process that finds no Redis when it starts has none for its lifetime.
LimiterInit ==
    /\ now = 0
    /\ redis = [i \in Identities |-> NoBucket]
    /\ memory = [p \in Processes |-> [i \in Identities |-> NoBucket]]
    /\ redis_failed \in [Processes -> BOOLEAN]
    /\ ledger = [s \in Stores |-> [i \in Identities |-> [spent |-> 0, behind |-> 0]]]

\* What the clock of a process may show.  Clocks differ, and one that is set jumps,
\* forward or back.
Clock == {now - l : l \in Lags}

Since(b, t) == Atleast(0, t - b.timestamp)

\* What the bucket holds at time t, before the request takes its part.
Level(b, t) ==
    IF b = NoBucket THEN Capacity ELSE Atmost(Capacity, b.tokens + Since(b, t) * Refill)

Allowed(level) == level >= Cost
Left(level)    == IF Allowed(level) THEN level - Cost ELSE level
Grant(level)   == IF Allowed(level) THEN Cost ELSE 0

\* int(seconds + 0.999): up to a millisecond less than what is missing takes to refill.
Truncated(level)  == Atleast(1, (Cost - level) \div (1000 * Refill))
RetryAfter(level) == Atleast(1, (Cost - level + 999 * Refill) \div (1000 * Refill))

\* Seconds in which an empty bucket fills.
Fill == CeilDiv(Capacity, 1000 * Refill)

OnePeriod == (Fill - 1) * 1000
Lifetime  == (Fill * 2 + 1) * 1000

\* How far a check with stamp t sets the bucket's time back; one that Redis had
\* forgotten was full by now.
SetBack(b, t) == Atleast(0, (IF b = NoBucket THEN now ELSE b.timestamp) - t)

Entered(book, s, i, b, t) ==
    [book EXCEPT ![s][i] = [spent  |-> @.spent + Grant(Level(b, t)),
                            behind |-> @.behind + SetBack(b, t)]]

Consumed(b, t) == [tokens |-> Left(Level(b, t)), timestamp |-> t]

RefillTwice(i, t) ==
    redis' = [redis EXCEPT ![i] =
        [tokens |-> Left(Level(@, t)), timestamp |-> IF @ = NoBucket THEN t ELSE @.timestamp,
         expires |-> now + Lifetime]]

\* The script, run atomically by Redis with the stamp as an argument.
UpdateRedis(i, t) ==
    redis' = [redis EXCEPT ![i] = [tokens |-> Left(Level(@, t)), timestamp |-> t,
                                   expires |-> now + Lifetime]]

UpdateMemory(p, i, t) == memory' = [memory EXCEPT ![p][i] = Consumed(@, t)]

\* check() answered by Redis.
CheckRedis(p, i, t, allowed) ==
    /\ allowed = Allowed(Level(redis[i], t))
    /\ UpdateRedis(i, t)
    /\ ledger' = Entered(ledger, "redis", i, redis[i], t)
    /\ UNCHANGED <<now, memory, redis_failed>>

\* The call of Redis raises, with the script run or not, and memory answers.
CheckFails(p, i, t, allowed) ==
    /\ allowed = Allowed(Level(memory[p][i], t))
    /\ UpdateMemory(p, i, t)
    /\ redis_failed' = [redis_failed EXCEPT ![p] = TRUE]
    /\ \/ /\ UpdateRedis(i, t)
          /\ ledger' = Entered(Entered(ledger, "redis", i, redis[i], t), p, i, memory[p][i], t)
       \/ /\ ledger' = Entered(ledger, p, i, memory[p][i], t)
          /\ UNCHANGED redis
    /\ UNCHANGED now

\* The process had given Redis up.
CheckMemory(p, i, t, allowed) ==
    /\ redis_failed[p]
    /\ allowed = Allowed(Level(memory[p][i], t))
    /\ UpdateMemory(p, i, t)
    /\ ledger' = Entered(ledger, p, i, memory[p][i], t)
    /\ UNCHANGED <<now, redis, redis_failed>>

\* The rest of check() after the clock was read; script: Redis was not given up then.
Check(p, i, t, script, allowed) ==
    \/ script /\ (CheckRedis(p, i, t, allowed) \/ CheckFails(p, i, t, allowed))
    \/ CheckMemory(p, i, t, allowed)

Tick ==
    /\ \E t \in Instants : t > now /\ now' = t
    /\ UNCHANGED <<redis, memory, redis_failed, ledger>>

Expired(i) == redis[i] # NoBucket /\ now >= redis[i].expires

Expire(i) ==
    /\ Expired(i)
    /\ redis' = [redis EXCEPT ![i] = NoBucket]
    /\ UNCHANGED <<now, memory, redis_failed, ledger>>

-----------------------------------------------------------------------------

\* A bucket grants no more than its burst, what the time since refills, and what is
\* refilled a second time because a stamp older than the last set the bucket's time
\* back: with stamps in order and clocks in step the last part is nothing.  This goes
\* for each bucket on its own, expiry included: an identity has one in Redis, and
\* another burst from every process that has given Redis up, but from no other.
WithinQuota ==
    /\ \A s \in Stores, i \in Identities :
         ledger[s][i].spent <= Capacity + Refill * (now + ledger[s][i].behind)
    /\ \A p \in Processes, i \in Identities : ~redis_failed[p] => ledger[p][i].spent = 0

\* "an expiring bucket is always full anyway" (ratelimit.py:62): for every process
\* whose clock is behind by no more than the time an empty bucket takes to fill.
ExpiresFull ==
    \A i \in Identities, t \in Clock :
        Expired(i) /\ now - t <= 1000 * Fill => Level(redis[i], t) = Capacity

\* A refused caller who waits as long as Retry-After says and meets no one else at the
\* bucket is less than a millisecond short of its next request, if the process that
\* answers is not behind the one that wrote the bucket.
RetryIsHonest ==
    \A i \in Identities, p \in Processes, t \in Clock :
        \A b \in {redis[i], memory[p][i]} \ {NoBucket} :
            LET level == Level(b, t) IN
            ~Allowed(level) /\ b.timestamp <= t
              => Allowed(Level(b, t + 1000 * RetryAfter(level) + 1))

\* The limiter rounds time twice, and loses a caller nothing that matters by it: a
\* bucket it forgets is full, and the wait it asks for is enough but for a millisecond.
KeepsTime == ExpiresFull /\ RetryIsHonest
=============================================================================
