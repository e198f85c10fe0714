----------------------------- MODULE RateLimiter -----------------------------
(***************************************************************************)
(* The rate limiter of backend/internal/middleware/ratelimit.go: one       *)
(* counter in Redis per key and minute, shared by all servers, and in each *)
(* server a map of buckets under a mutex, for requests whose Redis         *)
(* transaction failed.  A key is a client address and a route.             *)
(*                                                                         *)
(* The minute a request is counted in is read before the Redis transaction *)
(* is sent, and again, under the mutex, if it is counted locally: either   *)
(* may be another minute than the one in which it is answered, and the     *)
(* reset time a refused client is told is that of a third reading.         *)
(*                                                                         *)
(* History variables: seen, admitted, admittedHere and refusal.            *)
(***************************************************************************)
EXTENDS Naturals, FiniteSets

CONSTANTS
    Servers,     \* the server processes that share one Redis
    Requests,    \* the handler goroutines that may run at the same time
    Keys,
    Limit,       \* requests admitted per key and minute
    Threshold,   \* size at which the local map is cleaned: 512 in the code
    WithRedis,   \* is there a Redis client?
    Faults,      \* may transactions fail or lose their answer, and servers die?
    MaxMinute,   \* bound: the clock stops there, and no request arrives any more
    MaxSeen      \* bound: arrivals per key and minute

ASSUME LimiterAssumption ==
    /\ IsFiniteSet(Requests)
    /\ Limit \in Nat /\ Threshold \in Nat
    /\ WithRedis \in BOOLEAN /\ Faults \in BOOLEAN
    /\ MaxMinute \in Nat /\ MaxSeen \in Nat

Minutes == 0..MaxMinute
Windows == Keys \X Minutes

VARIABLES
    now,           \* the minute it is
    counters,      \* Redis: the count of each key and minute, 0 if there is none
    touched,       \* Redis: when its time to live was last set, 0 if there is none
    local,         \* per server: its buckets, a function on the keys it tracks
    req,           \* per request: where its handler is
    seen,          \* the requests that were being handled in each window
    admitted,      \* the requests Redis admitted to each window
    admittedHere,  \* the requests each process, since it started, admitted itself
    refusal        \* the last refusal: its window, and the reset time it was told

vars == <<now, counters, touched, local, req, seen, admitted, admittedHere, refusal>>
redis == <<counters, touched>>
history == <<seen, admitted, admittedHere, refusal>>

\* A goroutine that handles no request.
Free == [at |-> "free"]

\* No request has been refused yet.
NoRefusal == [is |-> "none"]

\* Variant: the minute is rounded up.
WaitingRounded(place, s, k, m) == [at |-> place, server |-> s, key |-> k, minute |-> m + 1]

Waiting(place, s, k, m) == [at |-> place, server |-> s, key |-> k, minute |-> m]

Empty == [k \in {} |-> 0]

Init ==
    /\ now = 0
    /\ counters = [w \in Windows |-> 0]
    /\ touched = [w \in Windows |-> 0]
    /\ local = [s \in Servers |-> Empty]
    /\ req = [q \in Requests |-> Free]
    /\ seen = [w \in Windows |-> 0]
    /\ admitted = [w \in Windows |-> 0]
    /\ admittedHere = [s \in Servers |-> [w \in Windows |-> 0]]
    /\ refusal = NoRefusal

-----------------------------------------------------------------------------

\* A request reaches the limiter, which reads the minute for the Redis key.
Arrive(q, s, k) ==
    /\ req[q] = Free
    /\ now < MaxMinute /\ seen[<<k, now>>] < MaxSeen
    /\ req' = [req EXCEPT ![q] = Waiting(IF WithRedis THEN "redis" ELSE "mutex", s, k, now)]
    /\ seen' = [seen EXCEPT ![<<k, now>>] = @ + 1]
    /\ UNCHANGED <<now, redis, local, admitted, admittedHere, refusal>>

\* Variant: the request that reaches the limit is refused.
AdmitsBelow(count) == count < Limit

Admits(count) == count <= Limit

\* The request waits for the mutex after its transaction failed.
FallsBack(q) ==
    /\ Faults
    /\ req' = [req EXCEPT ![q].at = "mutex"]
    /\ UNCHANGED admitted

\* The transaction that increments the counter and sets its time to live.  It
\* may fail, before or after Redis has committed it.
Exec(q) ==
    /\ req[q].at = "redis"
    /\ LET w == <<req[q].key, req[q].minute>>
           count == counters[w] + 1
       IN \/ /\ counters' = [counters EXCEPT ![w] = count]
             /\ touched' = [touched EXCEPT ![w] = now]
             /\ \/ /\ Admits(count)
                   /\ req' = [req EXCEPT ![q] = Free]
                   /\ admitted' = [admitted EXCEPT ![w] = @ + 1]
                \/ /\ ~Admits(count)
                   /\ req' = [req EXCEPT ![q].at = "refused"]
                   /\ UNCHANGED admitted
                \/ FallsBack(q)
          \/ FallsBack(q) /\ UNCHANGED redis
    /\ UNCHANGED <<now, local, seen, admittedHere, refusal>>

\* Variant: no bucket is dropped.
CleanedNever(buckets) == buckets

\* The buckets left by cleanupLocal: all of them while they are few, else those
\* of the current minute.
Cleaned(buckets) ==
    LET kept == IF Cardinality(DOMAIN buckets) < Threshold
                THEN DOMAIN buckets
                ELSE {k \in DOMAIN buckets : ~(buckets[k].minute < now)}
    IN [k \in kept |-> buckets[k]]

\* The count of a key after one more request in this minute.
Counted(buckets, k) ==
    IF k \in DOMAIN buckets /\ buckets[k].minute = now THEN buckets[k].count + 1 ELSE 1

\* incrementLocal, under the mutex.
CountLocally(q) ==
    /\ req[q].at = "mutex"
    /\ LET s == req[q].server
           k == req[q].key
           kept == Cleaned(local[s])
           count == Counted(kept, k)
       IN /\ local' = [local EXCEPT ![s] =
                         [j \in DOMAIN kept \cup {k} |->
                            IF j = k THEN [minute |-> now, count |-> count] ELSE kept[j]]]
          /\ \/ /\ Admits(count)
                /\ admittedHere' = [admittedHere EXCEPT ![s][<<k, now>>] = @ + 1]
                /\ req' = [req EXCEPT ![q] = Free]
             \/ /\ ~Admits(count)
                /\ req' = [req EXCEPT ![q] = Waiting("refused", s, k, now)]
                /\ UNCHANGED admittedHere
    /\ UNCHANGED <<now, redis, seen, admitted, refusal>>

\* Variant: the minute is not rounded up.
ResetAtStart == now

\* The end of the minute it is when a request is answered.
ResetAt == now + 1

\* A request that was counted beyond the limit is answered.
Refuse(q) ==
    /\ req[q].at = "refused"
    /\ refusal' = [is |-> "refusal", key |-> req[q].key, minute |-> req[q].minute,
                   reset |-> ResetAt]
    /\ req' = [req EXCEPT ![q] = Free]
    /\ UNCHANGED <<now, redis, local, seen, admitted, admittedHere>>

\* The requests of a key that are still to be counted.
Pending(k) == {q \in Requests : req[q].at \in {"redis", "mutex"} /\ req[q].key = k}

\* The minute ends.  A transaction does not last a whole further minute: the
\* Redis client gives up long before.
Tick ==
    /\ now < MaxMinute
    /\ \A q \in Requests : req[q].at = "redis" => req[q].minute = now
    /\ now' = now + 1
    /\ seen' = [w \in Windows |->
                  IF w[2] = now + 1 THEN Cardinality(Pending(w[1])) ELSE seen[w]]
    /\ UNCHANGED <<redis, local, req, admitted, admittedHere, refusal>>

\* Variant: a minute to live.
OutlivedByOne(w) == now >= touched[w] + 1

\* The two minutes a counter has to live are over.
Outlived(w) == now >= touched[w] + 2

Expire(w) ==
    /\ counters[w] > 0 /\ Outlived(w)
    /\ counters' = [counters EXCEPT ![w] = 0]
    /\ touched' = [touched EXCEPT ![w] = 0]
    /\ UNCHANGED <<now, local, req, history>>

\* A server dies with its buckets and its requests, and starts again.
Restart(s) ==
    /\ Faults
    /\ local' = [local EXCEPT ![s] = Empty]
    /\ req' = [q \in Requests |-> IF req[q] # Free /\ req[q].server = s THEN Free ELSE req[q]]
    /\ admittedHere' = [admittedHere EXCEPT ![s] = [w \in Windows |-> 0]]
    /\ UNCHANGED <<now, redis, seen, admitted, refusal>>

Next ==
    \/ \E q \in Requests :
          \/ \E s \in Servers, k \in Keys : Arrive(q, s, k)
          \/ Exec(q)
          \/ CountLocally(q)
          \/ Refuse(q)
    \/ Tick
    \/ \E w \in Windows : Expire(w)
    \/ \E s \in Servers : Restart(s)

Spec == Init /\ [][Next]_vars

-----------------------------------------------------------------------------
(* Properties. *)

Bucket == [minute : Minutes, count : Nat]

TypeOK ==
    /\ now \in Minutes
    /\ counters \in [Windows -> Nat] /\ touched \in [Windows -> Minutes]
    /\ \A s \in Servers : \A k \in DOMAIN local[s] : k \in Keys /\ local[s][k] \in Bucket
    /\ \A q \in Requests : req[q] = Free \/
          req[q] \in [at : {"redis", "mutex", "refused"}, server : Servers, key : Keys,
                     minute : 0..now]
    /\ seen \in [Windows -> Nat] /\ admitted \in [Windows -> Nat]
    /\ admittedHere \in [Servers -> [Windows -> Nat]]
    /\ refusal = NoRefusal \/
          refusal \in [is : {"refusal"}, key : Keys, minute : Minutes, reset : Nat]

\* The limit holds for each counter on its own: however transactions fail and
\* minutes roll while requests are under way, Redis admits no more than Limit
\* requests to a key and minute, and no process admits more than Limit itself.
\* Together they may admit Limit once more per process (Limiter.Middleware).
AdmittedBounded ==
    \A w \in Windows :
        /\ admitted[w] <= Limit
        /\ \A s \in Servers : admittedHere[s][w] <= Limit

\* A client is only refused in a minute in which more than Limit requests of
\* its key were being handled: no request is counted twice by one counter, and
\* none is held against a later minute (Limiter.increment, incrementLocal).
RefusalsEarned ==
    refusal # NoRefusal => seen[<<refusal.key, refusal.minute>>] > Limit

\* A client that comes back at the reset time it was told is counted afresh:
\* that time lies after the minute it was refused for, though it is read on its
\* own, later; and never more than a minute ahead (Limiter.Middleware,
\* X-RateLimit-Reset).
ResetsAreFresh ==
    refusal # NoRefusal => refusal.minute < refusal.reset /\ refusal.reset <= now + 1

\* The local map outgrows its threshold only with keys of a single minute, so
\* its size is bounded by the keys in use in one minute (cleanupLocal).
StaleBucketsBounded ==
    \A s \in Servers :
        Cardinality(DOMAIN local[s]) > Threshold =>
            \A j, k \in DOMAIN local[s] : local[s][j].minute = local[s][k].minute
=============================================================================
