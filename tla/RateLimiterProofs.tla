-------------------------- MODULE RateLimiterProofs --------------------------
(***************************************************************************)
(* The limit holds for each counter, refusals are earned, and the local    *)
(* map stays small: for any number of servers, keys and minutes, finitely  *)
(* many requests, any limit and threshold, and whatever fails.             *)
(*                                                                         *)
(* The argument for Redis: a request is only admitted by raising the       *)
(* counter, and a counter only expires two minutes after it was touched,   *)
(* when no transaction for its minute can be under way any more.  For the  *)
(* local map: a bucket of the current minute is never cleaned away, so it  *)
(* accounts for every request admitted in that minute.                     *)
(***************************************************************************)
EXTENDS RateLimiter, FiniteSetTheorems, TLAPS

Places == {"redis", "mutex", "refused"}
Waiters == [at : Places, server : Servers, key : Keys, minute : Minutes]

\* Where requests are, and how late a transaction can be.
ReqInv ==
    /\ now \in Minutes
    /\ req \in [Requests -> Waiters \cup {Free}]
    /\ \A q \in Requests : req[q] # Free =>
          /\ req[q].minute <= now
          /\ req[q].at = "redis" => now <= req[q].minute + 1

\* A counter accounts for the requests it admitted while it can still be used.
SharedInv ==
    /\ counters \in [Windows -> Nat] /\ touched \in [Windows -> Minutes]
    /\ admitted \in [Windows -> Nat]
    /\ \A w \in Windows :
          /\ admitted[w] <= Limit
          /\ counters[w] > 0 => w[2] <= touched[w]
          /\ admitted[w] <= counters[w] \/ w[2] + 2 <= now

\* The buckets of one server account for what it admitted in this minute.
Accounted(buckets, here) ==
    \A k \in Keys : here[<<k, now>>] = 0 \/
        /\ k \in DOMAIN buckets
        /\ buckets[k].minute = now
        /\ here[<<k, now>>] <= buckets[k].count

LocalInv ==
    /\ DOMAIN local = Servers
    /\ admittedHere \in [Servers -> [Windows -> Nat]]
    /\ \A s \in Servers :
          /\ \A k \in DOMAIN local[s] : local[s][k] \in Bucket
          /\ Accounted(local[s], admittedHere[s])
          /\ \A w \in Windows :
                /\ admittedHere[s][w] <= Limit
                /\ w[2] > now => admittedHere[s][w] = 0

LimiterInv == ReqInv /\ SharedInv /\ LocalInv

\* A window is a key and a minute.
LEMMA WindowParts ==
    /\ \A k \in Keys, m \in Minutes : <<k, m>> \in Windows
    /\ \A w \in Windows : w[1] \in Keys /\ w[2] \in Minutes /\ w = <<w[1], w[2]>>
    /\ Minutes \subseteq Nat
BY LimiterAssumption DEF Windows, Minutes

\* Nothing is counted and nothing admitted yet (NewLimiter).
LEMMA LimiterInit == Init => LimiterInv
<1> SUFFICES ASSUME Init PROVE LimiterInv
    OBVIOUS
<1>1. 0 \in Minutes
    BY LimiterAssumption DEF Minutes
<1>2. ReqInv
    BY <1>1 DEF Init, ReqInv
<1>3. SharedInv
    BY <1>1, LimiterAssumption DEF Init, SharedInv
<1>4. LocalInv
    BY <1>1, WindowParts, LimiterAssumption DEF Init, LocalInv, Accounted, Empty
<1>5. QED
    BY <1>2, <1>3, <1>4 DEF LimiterInv

\* Cleaning keeps the buckets of the current minute, and changes none.
LEMMA CleaningKeeps ==
    ASSUME NEW b, now \in Nat
    PROVE  /\ \A k \in DOMAIN Cleaned(b) : k \in DOMAIN b /\ Cleaned(b)[k] = b[k]
           /\ \A k \in DOMAIN b : b[k].minute = now => k \in DOMAIN Cleaned(b)
BY DEF Cleaned

\* Reading the minute for the Redis key counts nothing.
LEMMA ArriveKeeps ==
    ASSUME LimiterInv, NEW q \in Requests, NEW s \in Servers, NEW k \in Keys, Arrive(q, s, k)
    PROVE  LimiterInv'
<1>1. Waiting(IF WithRedis THEN "redis" ELSE "mutex", s, k, now) \in Waiters
    BY DEF Waiting, Waiters, Places, LimiterInv, ReqInv
<1>2. ReqInv'
    BY <1>1, WindowParts DEF LimiterInv, ReqInv, Arrive, Waiting
<1>3. SharedInv' /\ LocalInv'
    BY DEF LimiterInv, SharedInv, LocalInv, Accounted, Arrive, redis
<1>4. QED
    BY <1>2, <1>3 DEF LimiterInv

\* A Redis transaction raises the counter before its request is admitted.
LEMMA ExecKeeps ==
    ASSUME LimiterInv, NEW q \in Requests, Exec(q)
    PROVE  LimiterInv'
<1> DEFINE w == <<req[q].key, req[q].minute>>
           count == counters[w] + 1
<1>1. /\ req[q] \in Waiters /\ w \in Windows /\ w[2] = req[q].minute
      /\ now \in Minutes /\ w[2] <= now /\ now <= w[2] + 1
      /\ w[2] \in Nat /\ now \in Nat
    BY WindowParts DEF Exec, LimiterInv, ReqInv, Free, Waiters
<1>2. ReqInv'
    <2>1. \/ req' = [req EXCEPT ![q] = Free]
          \/ \E place \in {"mutex", "refused"} : req' = [req EXCEPT ![q].at = place]
        BY DEF Exec, FallsBack
    <2>2. \A place \in {"mutex", "refused"} :
              /\ [req[q] EXCEPT !.at = place] \in Waiters
              /\ [req[q] EXCEPT !.at = place].at = place
              /\ [req[q] EXCEPT !.at = place].minute = req[q].minute
        BY <1>1 DEF Waiters, Places
    <2>3. now' = now
        BY DEF Exec
    <2>4. PICK x \in Waiters \cup {Free} :
              /\ req' = [req EXCEPT ![q] = x]
              /\ x # Free => x.at # "redis" /\ x.minute <= now
        BY <1>1, <2>1, <2>2
    <2>5. QED
        BY <2>3, <2>4 DEF LimiterInv, ReqInv
<1>3. SharedInv'
    <2>1. CASE UNCHANGED <<counters, touched, admitted>>
        BY <2>1 DEF Exec, LimiterInv, SharedInv
    <2>2. CASE /\ counters' = [counters EXCEPT ![w] = count]
               /\ touched' = [touched EXCEPT ![w] = now]
               /\ \/ UNCHANGED admitted
                  \/ Admits(count) /\ admitted' = [admitted EXCEPT ![w] = @ + 1]
        <3>1. count \in Nat /\ admitted[w] \in Nat /\ admitted[w] <= counters[w]
            BY <1>1 DEF LimiterInv, SharedInv
        <3>2. /\ counters' \in [Windows -> Nat] /\ touched' \in [Windows -> Minutes]
              /\ admitted' \in [Windows -> Nat]
            BY <1>1, <2>2, <3>1 DEF LimiterInv, SharedInv
        <3>3. /\ admitted'[w] <= Limit /\ w[2] <= touched'[w] /\ admitted'[w] <= counters'[w]
            BY <1>1, <2>2, <3>1, LimiterAssumption DEF LimiterInv, SharedInv, Admits
        <3>4. \A v \in Windows \ {w} :
                  /\ counters'[v] = counters[v] /\ touched'[v] = touched[v]
                  /\ admitted'[v] = admitted[v]
            BY <1>1, <2>2 DEF LimiterInv, SharedInv
        <3>5. now' = now
            BY DEF Exec
        <3>6. QED
            BY <3>2, <3>3, <3>4, <3>5 DEF LimiterInv, SharedInv
    <2>3. QED
        BY <2>1, <2>2 DEF Exec, FallsBack, redis
<1>4. LocalInv'
    BY DEF LimiterInv, LocalInv, Accounted, Exec
<1>5. QED
    BY <1>2, <1>3, <1>4 DEF LimiterInv

\* In a new minute nothing has been admitted locally.
LEMMA TickKeeps ==
    ASSUME LimiterInv, Tick
    PROVE  LimiterInv'
<1>1. /\ now \in Nat /\ now' = now + 1 /\ now' \in Minutes
      /\ UNCHANGED <<counters, touched, local, req, admitted, admittedHere>>
    BY LimiterAssumption DEF LimiterInv, ReqInv, Tick, Minutes, redis
<1>2. ReqInv'
    <2>1. \A q \in Requests : req[q] # Free => req[q].minute \in Nat
        BY WindowParts DEF LimiterInv, ReqInv, Waiters
    <2>2. QED
        BY <1>1, <2>1 DEF LimiterInv, ReqInv, Tick
<1>3. SharedInv'
    BY <1>1, WindowParts DEF LimiterInv, SharedInv
<1>4. LocalInv'
    <2>1. \A s \in Servers, k \in Keys : admittedHere[s][<<k, now'>>] = 0
        BY <1>1, WindowParts DEF LimiterInv, LocalInv
    <2>2. \A s \in Servers, w \in Windows : w[2] > now' => w[2] > now
        BY <1>1, WindowParts
    <2>3. QED
        BY <1>1, <2>1, <2>2 DEF LimiterInv, LocalInv, Accounted
<1>5. QED
    BY <1>2, <1>3, <1>4 DEF LimiterInv

\* A counter expires when its minute has been over for good.
LEMMA ExpireKeeps ==
    ASSUME LimiterInv, NEW w \in Windows, Expire(w)
    PROVE  LimiterInv'
<1>1. w[2] + 2 <= now
    <2>1. w[2] <= touched[w] /\ touched[w] + 2 <= now
        BY WindowParts DEF LimiterInv, ReqInv, SharedInv, Expire, Outlived
    <2>2. w[2] \in Nat /\ touched[w] \in Nat /\ now \in Nat
        BY WindowParts DEF LimiterInv, ReqInv, SharedInv
    <2>3. QED
        BY <2>1, <2>2
<1>2. SharedInv'
    <2>1. 0 \in Minutes
        BY LimiterAssumption DEF Minutes
    <2>2. QED
        BY <1>1, <2>1 DEF LimiterInv, SharedInv, Expire, history
<1>3. ReqInv' /\ LocalInv'
    BY DEF LimiterInv, ReqInv, LocalInv, Accounted, Expire, history
<1>4. QED
    BY <1>2, <1>3 DEF LimiterInv

\* A process starts with no buckets and nothing admitted.
LEMMA RestartKeeps ==
    ASSUME LimiterInv, NEW s \in Servers, Restart(s)
    PROVE  LimiterInv'
<1>1. ReqInv'
    BY DEF LimiterInv, ReqInv, Restart
<1>2. SharedInv'
    BY DEF LimiterInv, SharedInv, Restart, redis
<1>3. LocalInv'
    <2>1. /\ now' = now /\ DOMAIN local' = Servers
          /\ local'[s] = Empty /\ admittedHere'[s] = [w \in Windows |-> 0]
          /\ admittedHere' \in [Servers -> [Windows -> Nat]]
          /\ \A t \in Servers \ {s} :
                local'[t] = local[t] /\ admittedHere'[t] = admittedHere[t]
        BY DEF LimiterInv, LocalInv, Restart
    <2>2. DOMAIN local'[s] = {} /\ \A w \in Windows : admittedHere'[s][w] = 0
        BY <2>1 DEF Empty
    <2>3. \A k \in Keys : <<k, now>> \in Windows
        BY WindowParts DEF LimiterInv, ReqInv
    <2>4. \A t \in Servers :
              /\ \A k \in DOMAIN local'[t] : local'[t][k] \in Bucket
              /\ Accounted(local[t], admittedHere[t])'
              /\ \A w \in Windows :
                    /\ admittedHere'[t][w] <= Limit
                    /\ w[2] > now' => admittedHere'[t][w] = 0
        <3>1. TAKE t \in Servers
        <3>2. CASE t = s
            BY <2>1, <2>2, <2>3, <3>2, LimiterAssumption DEF Accounted
        <3>3. CASE t # s
            BY <2>1, <3>3 DEF LimiterInv, LocalInv, Accounted
        <3>4. QED
            BY <3>2, <3>3
    <2>5. QED
        BY <2>1, <2>4 DEF LocalInv
<1>4. QED
    BY <1>1, <1>2, <1>3 DEF LimiterInv

\* The bucket of the current minute accounts for all this process admitted in it.
LEMMA CountLocallyKeeps ==
    ASSUME LimiterInv, NEW q \in Requests, CountLocally(q)
    PROVE  LimiterInv'
<1> DEFINE s == req[q].server
           k == req[q].key
           b == local[s]
           here == admittedHere[s]
           count == Counted(Cleaned(b), k)
           added == [minute |-> now, count |-> count]
           b2 == [j \in DOMAIN Cleaned(b) \cup {k} |-> IF j = k THEN added ELSE Cleaned(b)[j]]
           w == <<k, now>>
<1>1. /\ s \in Servers /\ k \in Keys /\ now \in Minutes /\ now \in Nat /\ w \in Windows
      /\ w[2] = now /\ now' = now
    BY WindowParts DEF CountLocally, LimiterInv, ReqInv, Waiters, Free
<1>2. ReqInv' /\ SharedInv'
    <2>1. Waiting("refused", s, k, now) \in Waiters
        BY <1>1 DEF Waiting, Waiters, Places
    <2>2. PICK x \in Waiters \cup {Free} :
              /\ req' = [req EXCEPT ![q] = x]
              /\ x # Free => x.at # "redis" /\ x.minute <= now
        BY <1>1, <2>1 DEF CountLocally, Waiting
    <2>3. ReqInv'
        BY <1>1, <2>2 DEF LimiterInv, ReqInv
    <2>4. QED
        BY <2>3 DEF LimiterInv, SharedInv, CountLocally, redis
<1>3. local' = [local EXCEPT ![s] = b2]
    BY DEF CountLocally
<1>4. PICK h : /\ admittedHere' = [admittedHere EXCEPT ![s] = h]
               /\ \/ h = here
                  \/ Admits(count) /\ h = [here EXCEPT ![w] = @ + 1]
    <2>1. CASE UNCHANGED admittedHere
        <3>1. admittedHere' = [admittedHere EXCEPT ![s] = here]
            BY <1>1, <2>1 DEF LimiterInv, LocalInv
        <3>2. QED
            BY <3>1
    <2>2. CASE Admits(count) /\ admittedHere' = [admittedHere EXCEPT ![s][w] = @ + 1]
        BY <2>2
    <2>3. QED
        BY <2>1, <2>2 DEF CountLocally
<1>5. /\ \A j \in DOMAIN b : b[j] \in Bucket
      /\ Accounted(b, here)
      /\ here \in [Windows -> Nat]
      /\ \A v \in Windows : here[v] <= Limit /\ (v[2] > now => here[v] = 0)
    BY <1>1 DEF LimiterInv, LocalInv
<1>6. count \in Nat /\ here[w] < count
    <2>1. CASE k \in DOMAIN Cleaned(b) /\ Cleaned(b)[k].minute = now
        <3>1. k \in DOMAIN b /\ Cleaned(b)[k] = b[k]
            BY <1>1, <2>1, CleaningKeeps
        <3>2. b[k].count \in Nat /\ here[w] <= b[k].count /\ here[w] \in Nat
            BY <1>1, <1>5, <3>1 DEF Accounted, Bucket
        <3>3. QED
            BY <2>1, <3>1, <3>2 DEF Counted
    <2>2. CASE ~(k \in DOMAIN Cleaned(b) /\ Cleaned(b)[k].minute = now)
        <3>1. ~(k \in DOMAIN b /\ b[k].minute = now)
            BY <1>1, <2>2, CleaningKeeps
        <3>2. here[w] = 0
            BY <1>1, <1>5, <3>1 DEF Accounted
        <3>3. QED
            BY <2>2, <3>2 DEF Counted
    <2>3. QED
        BY <2>1, <2>2
<1>7. /\ h \in [Windows -> Nat]
      /\ h[w] <= count
      /\ \A v \in Windows : h[v] <= Limit /\ (v[2] > now => h[v] = 0)
      /\ \A v \in Windows \ {w} : h[v] = here[v]
    <2>1. here[w] \in Nat /\ Limit \in Nat
        BY <1>1, <1>5, LimiterAssumption
    <2>2. CASE h = here
        BY <1>1, <1>5, <1>6, <2>1, <2>2
    <2>3. CASE Admits(count) /\ h = [here EXCEPT ![w] = @ + 1]
        BY <1>1, <1>5, <1>6, <2>1, <2>3 DEF Admits
    <2>4. QED
        BY <1>4, <2>2, <2>3
<1>8. \A j \in DOMAIN b2 : b2[j] \in Bucket
    BY <1>1, <1>5, <1>6, CleaningKeeps DEF Bucket
<1>9. \A j \in Keys : h[<<j, now>>] = 0 \/
          /\ j \in DOMAIN b2
          /\ b2[j].minute = now
          /\ h[<<j, now>>] <= b2[j].count
    <2>1. TAKE j \in Keys
    <2>2. CASE j = k
        BY <1>7, <2>2
    <2>3. CASE j # k
        <3>1. <<j, now>> \in Windows /\ <<j, now>> # w
            BY <1>1, <2>3, WindowParts
        <3>2. h[<<j, now>>] = here[<<j, now>>]
            BY <1>7, <3>1
        <3>3. here[<<j, now>>] = 0 \/
                  /\ j \in DOMAIN b /\ b[j].minute = now /\ here[<<j, now>>] <= b[j].count
            BY <1>5 DEF Accounted
        <3>4. j \in DOMAIN b /\ b[j].minute = now => j \in DOMAIN b2 /\ b2[j] = b[j]
            BY <1>1, <2>3, CleaningKeeps
        <3>5. QED
            BY <3>2, <3>3, <3>4
    <2>4. QED
        BY <2>2, <2>3
<1> HIDE DEF s, b, here, b2, w
<1>10. LocalInv'
    <2>1. \A t \in Servers :
              /\ \A j \in DOMAIN local'[t] : local'[t][j] \in Bucket
              /\ Accounted(local[t], admittedHere[t])'
              /\ \A v \in Windows :
                    /\ admittedHere'[t][v] <= Limit
                    /\ v[2] > now' => admittedHere'[t][v] = 0
        <3>1. TAKE t \in Servers
        <3>2. CASE t = s
            <4>1. local'[t] = b2 /\ admittedHere'[t] = h
                BY <1>1, <1>3, <1>4, <3>2 DEF LimiterInv, LocalInv
            <4>2. QED
                BY <1>1, <1>7, <1>8, <1>9, <4>1 DEF Accounted
        <3>3. CASE t # s
            BY <1>1, <1>3, <1>4, <3>3 DEF LimiterInv, LocalInv, Accounted
        <3>4. QED
            BY <3>2, <3>3
    <2>2. DOMAIN local' = Servers /\ admittedHere' \in [Servers -> [Windows -> Nat]]
        BY <1>1, <1>3, <1>4, <1>7 DEF LimiterInv, LocalInv
    <2>3. QED
        BY <2>1, <2>2 DEF LocalInv
<1>11. QED
    BY <1>2, <1>10 DEF LimiterInv

\* The answer to a refused request counts nothing.
LEMMA RefuseKeeps ==
    ASSUME LimiterInv, NEW q \in Requests, Refuse(q)
    PROVE  LimiterInv'
BY DEF LimiterInv, ReqInv, SharedInv, LocalInv, Accounted, Refuse, redis

\* Every step keeps the invariant.
LEMMA LimiterStep == LimiterInv /\ [Next]_vars => LimiterInv'
<1> SUFFICES ASSUME LimiterInv, [Next]_vars PROVE LimiterInv'
    OBVIOUS
<1>1. CASE \E q \in Requests, s \in Servers, k \in Keys : Arrive(q, s, k)
    BY <1>1, ArriveKeeps
<1>2. CASE \E q \in Requests : Exec(q)
    BY <1>2, ExecKeeps
<1>3. CASE \E q \in Requests : CountLocally(q)
    BY <1>3, CountLocallyKeeps
<1>4. CASE Tick
    BY <1>4, TickKeeps
<1>9. CASE \E q \in Requests : Refuse(q)
    BY <1>9, RefuseKeeps
<1>5. CASE \E w \in Windows : Expire(w)
    BY <1>5, ExpireKeeps
<1>6. CASE \E s \in Servers : Restart(s)
    BY <1>6, RestartKeeps
<1>7. CASE UNCHANGED vars
    BY <1>7 DEF vars, LimiterInv, ReqInv, SharedInv, LocalInv, Accounted
<1>8. QED
    BY <1>1, <1>2, <1>3, <1>4, <1>5, <1>6, <1>7, <1>9 DEF Next

\* Neither Redis nor a process admits more than Limit requests to a key in a
\* minute, whatever fails or rolls over meanwhile (Limiter.Middleware).
THEOREM LimitHolds == Spec => []AdmittedBounded
<1>1. LimiterInv => AdmittedBounded
    BY DEF LimiterInv, SharedInv, LocalInv, AdmittedBounded
<1>2. QED
    BY LimiterInit, LimiterStep, <1>1, PTL DEF Spec

-----------------------------------------------------------------------------
(***************************************************************************)
(* Refusals.  The argument: a request is counted at most once by a counter *)
(* of the minute, and it waits to be counted before, so what a counter     *)
(* says, with the requests that still wait for it, never exceeds the       *)
(* requests seen in that minute.                                           *)
(***************************************************************************)

\* The requests whose transaction for this window is under way.
InRedis(w) ==
    {q \in Requests : req[q].at = "redis" /\ req[q].key = w[1] /\ req[q].minute = w[2]}

RedisSeen ==
    \A w \in Windows :
        /\ w[2] > now => counters[w] = 0
        /\ counters[w] + Cardinality(InRedis(w)) <= seen[w]

BucketSeen(buckets) ==
    \A k \in Keys : k \in DOMAIN buckets /\ buckets[k].minute = now =>
        buckets[k].count + Cardinality(Pending(k)) <= seen[<<k, now>>]

LocalSeen ==
    /\ \A k \in Keys : Cardinality(Pending(k)) <= seen[<<k, now>>]
    /\ \A s \in Servers : BucketSeen(local[s])

RefusedSeen ==
    \A q \in Requests : req[q].at = "refused" => seen[<<req[q].key, req[q].minute>>] > Limit

SeenInv ==
    /\ seen \in [Windows -> Nat]
    /\ RedisSeen /\ LocalSeen /\ RefusedSeen

\* Removing a request from a set of requests.
LEMMA OneLess ==
    ASSUME NEW S \in SUBSET Requests, NEW q
    PROVE  /\ IsFiniteSet(S) /\ Cardinality(S) \in Nat
           /\ Cardinality(S \ {q}) \in Nat
           /\ q \in S => Cardinality(S \ {q}) + 1 = Cardinality(S)
           /\ q \notin S => Cardinality(S \ {q}) = Cardinality(S)
           /\ q \notin S => Cardinality(S \cup {q}) = Cardinality(S) + 1
           /\ \A T \in SUBSET S : Cardinality(T) \in Nat /\ Cardinality(T) <= Cardinality(S)
<1>1. IsFiniteSet(S)
    BY FS_Subset, LimiterAssumption
<1>2. \A T \in SUBSET S : IsFiniteSet(T) /\ Cardinality(T) <= Cardinality(S)
    BY <1>1, FS_Subset
<1>3. \A T \in SUBSET S : Cardinality(T) \in Nat
    BY <1>2, FS_CardinalityType
<1>4. Cardinality(S) \in Nat /\ Cardinality(S \ {q}) \in Nat
    BY <1>3
<1>5. Cardinality(S \ {q}) = IF q \in S THEN Cardinality(S) - 1 ELSE Cardinality(S)
    BY <1>1, FS_RemoveElement
<1>6. Cardinality(S \cup {q}) = IF q \in S THEN Cardinality(S) ELSE Cardinality(S) + 1
    BY <1>1, FS_AddElement
<1>7. QED
    BY <1>1, <1>2, <1>3, <1>4, <1>5, <1>6

\* A request that is not to be counted any more leaves the sets it was in.
LEMMA LeavesSets ==
    ASSUME ReqInv, NEW q \in Requests, NEW x, req' = [req EXCEPT ![q] = x],
           x.at \notin {"redis", "mutex"}
    PROVE  /\ \A k : Pending(k)' = Pending(k) \ {q}
           /\ \A w : InRedis(w)' = InRedis(w) \ {q}
BY DEF ReqInv, Pending, InRedis

\* Nothing has been seen, and nothing counted.
LEMMA SeenInit == Init => SeenInv
<1> SUFFICES ASSUME Init PROVE SeenInv
    OBVIOUS
<1>1. \A k, w : Pending(k) = {} /\ InRedis(w) = {}
    BY DEF Init, Pending, InRedis, Free
<1>2. Cardinality({}) = 0
    BY FS_EmptySet
<1>3. \A k \in Keys : <<k, now>> \in Windows
    BY WindowParts, LimiterAssumption DEF Init, Minutes
<1>4. \A k, w : Cardinality(Pending(k)) = 0 /\ Cardinality(InRedis(w)) = 0
    BY <1>1, <1>2
<1>5. RedisSeen
    BY <1>4 DEF Init, RedisSeen
<1>6. LocalSeen
    <2>1. \A s \in Servers : DOMAIN local[s] = {}
        BY DEF Init, Empty
    <2>2. QED
        BY <1>3, <1>4, <2>1 DEF Init, LocalSeen, BucketSeen
<1>7. RefusedSeen
    BY DEF Init, RefusedSeen, Free
<1>8. QED
    BY <1>5, <1>6, <1>7 DEF Init, SeenInv

\* An arriving request is seen, and waits for one counter.
LEMMA ArriveSeen ==
    ASSUME LimiterInv, SeenInv, NEW q \in Requests, NEW s \in Servers, NEW k \in Keys,
           Arrive(q, s, k)
    PROVE  SeenInv'
<1> DEFINE w == <<k, now>>
<1>1. /\ now \in Minutes /\ now \in Nat /\ now' = now /\ w \in Windows
      /\ \A j \in Keys : <<j, now>> \in Windows
      /\ counters' = counters /\ local' = local
      /\ seen' = [seen EXCEPT ![w] = @ + 1]
    BY WindowParts DEF LimiterInv, ReqInv, Arrive, redis
<1>2. PICK place \in {"redis", "mutex"} : req' = [req EXCEPT ![q] = Waiting(place, s, k, now)]
    BY DEF Arrive
<1>3. /\ req[q].at = "free"
      /\ \A j : q \notin Pending(j)
      /\ \A v : q \notin InRedis(v)
    BY DEF Arrive, Free, Pending, InRedis
<1>4. /\ Pending(k)' = Pending(k) \cup {q}
      /\ \A j \in Keys \ {k} : Pending(j)' = Pending(j)
      /\ InRedis(w)' = InRedis(w) \/ InRedis(w)' = InRedis(w) \cup {q}
      /\ \A v \in Windows \ {w} : InRedis(v)' = InRedis(v)
    <2>1. /\ \A p \in Requests \ {q} : req'[p] = req[p]
          /\ req'[q].at = place /\ req'[q].key = k /\ req'[q].minute = now
        BY <1>2 DEF LimiterInv, ReqInv, Waiting
    <2>2. \A v \in Windows : v = <<v[1], v[2]>>
        BY WindowParts
    <2>3. /\ Pending(k)' = Pending(k) \cup {q}
          /\ \A j \in Keys \ {k} : Pending(j)' = Pending(j)
        BY <1>3, <2>1 DEF Pending
    <2>4. /\ InRedis(w)' = InRedis(w) \/ InRedis(w)' = InRedis(w) \cup {q}
        <3>1. w[1] = k /\ w[2] = now
            OBVIOUS
        <3>2. CASE place = "redis"
            BY <1>1, <1>3, <2>1, <3>1, <3>2 DEF InRedis
        <3>3. CASE place = "mutex"
            BY <1>1, <1>3, <2>1, <3>1, <3>3 DEF InRedis
        <3>4. QED
            BY <3>2, <3>3
    <2>5. \A v \in Windows \ {w} : InRedis(v)' = InRedis(v)
        BY <1>3, <2>1, <2>2 DEF InRedis
    <2>6. QED
        BY <2>3, <2>4, <2>5
<1>5. /\ Cardinality(Pending(k)') = Cardinality(Pending(k)) + 1
      /\ \A j \in Keys : Cardinality(Pending(j)) \in Nat
      /\ \A v \in Windows : Cardinality(InRedis(v)) \in Nat
      /\ Cardinality(InRedis(w)') <= Cardinality(InRedis(w)) + 1
      /\ Cardinality(InRedis(w)') \in Nat
    <2>1. \A v : InRedis(v) \in SUBSET Requests /\ Pending(v) \in SUBSET Requests
        BY DEF InRedis, Pending
    <2>2. /\ Cardinality(Pending(k) \cup {q}) = Cardinality(Pending(k)) + 1
          /\ Cardinality(InRedis(w)) \in Nat
          /\ Cardinality(InRedis(w) \cup {q}) = Cardinality(InRedis(w)) + 1
        BY <1>3, <2>1, OneLess
    <2>3. \A v : Cardinality(InRedis(v)) \in Nat /\ Cardinality(Pending(v)) \in Nat
        BY <2>1, OneLess
    <2>4. Cardinality(InRedis(w)') \in {Cardinality(InRedis(w)), Cardinality(InRedis(w)) + 1}
        BY <1>4, <2>2
    <2>5. Cardinality(Pending(k)') = Cardinality(Pending(k)) + 1
        BY <1>4, <2>2
    <2>6. QED
        BY <2>2, <2>3, <2>4, <2>5
<1>6. /\ seen \in [Windows -> Nat] /\ seen' \in [Windows -> Nat]
      /\ seen'[w] = seen[w] + 1
      /\ \A v \in Windows \ {w} : seen'[v] = seen[v]
      /\ \A v \in Windows : seen[v] \in Nat /\ seen'[v] \in Nat /\ seen[v] <= seen'[v]
    BY <1>1 DEF SeenInv
<1>7. RedisSeen'
    <2>1. \A v \in Windows : counters[v] \in Nat
        BY DEF LimiterInv, SharedInv
    <2>2. \A v \in Windows : counters[v] + Cardinality(InRedis(v)') <= seen'[v]
        BY <1>1, <1>4, <1>5, <1>6, <2>1 DEF SeenInv, RedisSeen
    <2>3. QED
        BY <1>1, <2>2 DEF SeenInv, RedisSeen
<1>8. LocalSeen'
    <2>1. ASSUME NEW j \in Keys
          PROVE  /\ Cardinality(Pending(j)') <= seen'[<<j, now>>]
                 /\ \A t \in Servers : j \in DOMAIN local[t] /\ local[t][j].minute = now =>
                        local[t][j].count + Cardinality(Pending(j)') <= seen'[<<j, now>>]
        <3>1. \A t \in Servers : j \in DOMAIN local[t] => local[t][j].count \in Nat
            BY DEF LimiterInv, LocalInv, Bucket
        <3>2. CASE j = k
            BY <1>1, <1>5, <1>6, <3>1, <3>2 DEF SeenInv, LocalSeen, BucketSeen
        <3>3. CASE j # k
            <4>1. <<j, now>> \in Windows \ {w}
                BY <1>1, <3>3
            <4>2. QED
                BY <1>1, <1>4, <1>6, <3>3, <4>1 DEF SeenInv, LocalSeen, BucketSeen
        <3>4. QED
            BY <3>2, <3>3
    <2>2. QED
        BY <1>1, <2>1 DEF LocalSeen, BucketSeen
<1>9. RefusedSeen'
    <2>1. \A p \in Requests : req'[p].at = "refused" => p # q /\ req'[p] = req[p]
        BY <1>2 DEF LimiterInv, ReqInv, Waiting
    <2>2. \A p \in Requests : req[p].at = "refused" => <<req[p].key, req[p].minute>> \in Windows
        BY WindowParts DEF LimiterInv, ReqInv, Waiters, Free
    <2>3. QED
        BY <1>6, <2>1, <2>2, LimiterAssumption DEF SeenInv, RefusedSeen
<1>10. QED
    BY <1>6, <1>7, <1>8, <1>9 DEF SeenInv

\* A transaction raises the counter by the request that waited for it.
LEMMA ExecSeen ==
    ASSUME LimiterInv, SeenInv, NEW q \in Requests, Exec(q)
    PROVE  SeenInv'
<1>1. PICK w \in Windows : /\ w[1] = req[q].key /\ w[2] = req[q].minute
                           /\ w = <<req[q].key, req[q].minute>>
    BY WindowParts DEF Exec, LimiterInv, ReqInv, Waiters, Free
<1>2. /\ now \in Minutes /\ now \in Nat /\ now' = now /\ w[2] \in Nat /\ w[2] <= now
      /\ local' = local /\ seen' = seen /\ seen \in [Windows -> Nat]
      /\ counters \in [Windows -> Nat]
      /\ req[q].at = "redis" /\ req[q] \in Waiters
    BY <1>1, WindowParts DEF Exec, LimiterInv, ReqInv, SharedInv, SeenInv, Waiters, Free
<1>3. PICK x : /\ req' = [req EXCEPT ![q] = x]
               /\ x.at \in {"free", "mutex", "refused"}
               /\ x.at # "free" => x.key = req[q].key /\ x.minute = req[q].minute
               /\ x.at = "refused" => counters'[w] = counters[w] + 1 /\ ~Admits(counters'[w])
               /\ \/ counters' = counters
                  \/ counters' = [counters EXCEPT ![w] = @ + 1]
    <2>1. \A place \in {"mutex", "refused"} :
              /\ [req[q] EXCEPT !.at = place].at = place
              /\ [req[q] EXCEPT !.at = place].key = req[q].key
              /\ [req[q] EXCEPT !.at = place].minute = req[q].minute
        BY <1>2 DEF Waiters
    <2>2. CASE req' = [req EXCEPT ![q] = Free]
        BY <1>1, <2>2 DEF Exec, Free, redis, FallsBack
    <2>3. CASE req' = [req EXCEPT ![q].at = "mutex"]
        BY <1>1, <2>1, <2>3 DEF Exec, redis, FallsBack
    <2>4. CASE /\ req' = [req EXCEPT ![q].at = "refused"]
               /\ counters' = [counters EXCEPT ![w] = @ + 1]
               /\ ~Admits(counters[w] + 1)
        <3>1. counters'[w] = counters[w] + 1
            BY <1>2, <2>4
        <3>2. QED
            BY <2>1, <2>4, <3>1
    <2>5. QED
        BY <1>1, <2>2, <2>3, <2>4 DEF Exec, FallsBack
<1>4. /\ \A k : Pending(k)' \in SUBSET Pending(k)
      /\ \A v : InRedis(v)' = InRedis(v) \ {q}
      /\ q \in InRedis(w)
    <2>1. /\ \A p \in Requests \ {q} : req'[p] = req[p]
          /\ req'[q] = x
        BY <1>3 DEF LimiterInv, ReqInv
    <2>2. QED
        BY <1>1, <1>2, <1>3, <2>1 DEF Pending, InRedis
<1>5. /\ \A k : /\ Cardinality(Pending(k)') \in Nat /\ Cardinality(Pending(k)) \in Nat
                /\ Cardinality(Pending(k)') <= Cardinality(Pending(k))
      /\ \A v : /\ Cardinality(InRedis(v)') \in Nat /\ Cardinality(InRedis(v)) \in Nat
                /\ Cardinality(InRedis(v)') <= Cardinality(InRedis(v))
      /\ Cardinality(InRedis(w)') + 1 = Cardinality(InRedis(w))
    <2>1. \A v : InRedis(v) \in SUBSET Requests /\ Pending(v) \in SUBSET Requests
        BY DEF InRedis, Pending
    <2>2. \A k : /\ Cardinality(Pending(k)') \in Nat /\ Cardinality(Pending(k)) \in Nat
                 /\ Cardinality(Pending(k)') <= Cardinality(Pending(k))
        <3>1. TAKE k
        <3>2. Pending(k)' \in SUBSET Pending(k)
            BY <1>4
        <3>3. QED
            BY <2>1, <3>2, OneLess
    <2>3. \A v : /\ Cardinality(InRedis(v)') \in Nat /\ Cardinality(InRedis(v)) \in Nat
                 /\ Cardinality(InRedis(v)') <= Cardinality(InRedis(v))
        <3>1. TAKE v
        <3>2. InRedis(v)' \in SUBSET InRedis(v)
            BY <1>4
        <3>3. QED
            BY <2>1, <3>2, OneLess
    <2>4. Cardinality(InRedis(w) \ {q}) + 1 = Cardinality(InRedis(w))
        BY <1>4, <2>1, OneLess
    <2>5. InRedis(w)' = InRedis(w) \ {q}
        BY <1>4
    <2>6. QED
        BY <2>2, <2>3, <2>4, <2>5
<1>6. RedisSeen'
    <2>1. \A v \in Windows : counters[v] \in Nat /\ seen[v] \in Nat
        BY <1>2
    <2>2. /\ counters'[w] \in {counters[w], counters[w] + 1}
          /\ \A v \in Windows \ {w} : counters'[v] = counters[v]
        BY <1>2, <1>3
    <2>3. counters'[w] + Cardinality(InRedis(w)') <= seen[w]
        BY <1>5, <2>1, <2>2 DEF SeenInv, RedisSeen
    <2>4. \A v \in Windows \ {w} :
              /\ v[2] > now => counters'[v] = 0
              /\ counters'[v] + Cardinality(InRedis(v)') <= seen[v]
        BY <1>5, <2>1, <2>2 DEF SeenInv, RedisSeen
    <2>5. ~(w[2] > now)
        BY <1>2
    <2>6. QED
        BY <1>2, <2>3, <2>4, <2>5 DEF RedisSeen
<1>7. LocalSeen'
    <2>1. ASSUME NEW k \in Keys
          PROVE  /\ Cardinality(Pending(k)') <= seen[<<k, now>>]
                 /\ \A s \in Servers : k \in DOMAIN local[s] /\ local[s][k].minute = now =>
                        local[s][k].count + Cardinality(Pending(k)') <= seen[<<k, now>>]
        <3>1. \A s \in Servers : k \in DOMAIN local[s] => local[s][k].count \in Nat
            BY DEF LimiterInv, LocalInv, Bucket
        <3>2. seen[<<k, now>>] \in Nat
            BY <1>2, WindowParts
        <3>3. QED
            BY <1>5, <3>1, <3>2 DEF SeenInv, LocalSeen, BucketSeen
    <2>2. QED
        BY <1>2, <2>1 DEF LocalSeen, BucketSeen
<1>8. RefusedSeen'
    <2>1. /\ \A p \in Requests \ {q} : req'[p] = req[p]
          /\ req'[q] = x
        BY <1>3 DEF LimiterInv, ReqInv
    <2>2. x.at = "refused" => seen[w] > Limit
        <3>1. counters[w] \in Nat /\ seen[w] \in Nat
            BY <1>2
        <3>2. counters[w] + 1 <= seen[w]
            BY <1>5, <3>1 DEF SeenInv, RedisSeen
        <3>3. QED
            BY <1>3, <3>1, <3>2, LimiterAssumption DEF Admits
    <2>3. x.at = "refused" => <<x.key, x.minute>> = w
        BY <1>1, <1>3
    <2>4. QED
        BY <1>2, <2>1, <2>2, <2>3 DEF SeenInv, RefusedSeen
<1>9. QED
    BY <1>2, <1>6, <1>7, <1>8 DEF SeenInv

-----------------------------------------------------------------------------
(***************************************************************************)
(* The local map.  The argument: a map below the threshold grows by one    *)
(* key at most, and one at the threshold is cleaned first, down to the     *)
(* buckets of the current minute, next to which the new one belongs.       *)
(***************************************************************************)

OneMinute(buckets) == \A j, k \in DOMAIN buckets : buckets[j].minute = buckets[k].minute

SmallOrFresh(buckets) ==
    /\ IsFiniteSet(DOMAIN buckets)
    /\ \A k \in DOMAIN buckets : k \in Keys /\ buckets[k].minute <= now
    /\ Cardinality(DOMAIN buckets) > Threshold => OneMinute(buckets)

MapInv == \A s \in Servers : SmallOrFresh(local[s])

\* A map without buckets is small.
LEMMA EmptyMap == now \in Nat => SmallOrFresh(Empty)
<1>1. DOMAIN Empty = {}
    BY DEF Empty
<1>2. IsFiniteSet({}) /\ Cardinality({}) = 0
    BY FS_EmptySet
<1>3. QED
    BY <1>1, <1>2, LimiterAssumption DEF SmallOrFresh, OneMinute

\* What a map looks like after incrementLocal.
LEMMA CountingMap ==
    ASSUME now \in Nat, NEW b, SmallOrFresh(b), NEW k \in Keys, NEW count, NEW b2,
           \A j \in DOMAIN b : b[j].minute \in Nat,
           b2 = [j \in DOMAIN Cleaned(b) \cup {k} |->
                    IF j = k THEN [minute |-> now, count |-> count] ELSE Cleaned(b)[j]]
    PROVE  SmallOrFresh(b2)
<1> DEFINE D == DOMAIN Cleaned(b)
<1>1. /\ D \in SUBSET DOMAIN b
      /\ \A j \in D : Cleaned(b)[j] = b[j]
      /\ DOMAIN b2 = D \cup {k}
      /\ b2[k].minute = now
      /\ \A j \in D \ {k} : b2[j] = b[j]
    BY CleaningKeeps
<1>2. IsFiniteSet(D) /\ Cardinality(D) <= Cardinality(DOMAIN b) /\ Cardinality(D) \in Nat
    BY <1>1, FS_Subset, FS_CardinalityType DEF SmallOrFresh
<1>3. IsFiniteSet(DOMAIN b2) /\ Cardinality(DOMAIN b2) <= Cardinality(D) + 1
          /\ Cardinality(DOMAIN b2) \in Nat
    <2>1. IsFiniteSet(D \cup {k}) /\ Cardinality(D \cup {k}) <= Cardinality(D) + 1
        BY <1>2, FS_AddElement
    <2>2. QED
        BY <1>1, <2>1, FS_CardinalityType
<1>4. \A j \in DOMAIN b2 : j \in Keys /\ b2[j].minute <= now
    <2>1. \A j \in D : j \in Keys /\ b[j].minute <= now
        BY <1>1 DEF SmallOrFresh
    <2>2. QED
        BY <1>1, <2>1
<1>5. CASE Cardinality(DOMAIN b) < Threshold
    <2>1. Cardinality(DOMAIN b) \in Nat
        BY FS_CardinalityType DEF SmallOrFresh
    <2>2. ~(Cardinality(DOMAIN b2) > Threshold)
        BY <1>2, <1>3, <1>5, <2>1, LimiterAssumption
    <2>3. QED
        BY <1>3, <1>4, <2>2 DEF SmallOrFresh
<1>6. CASE ~(Cardinality(DOMAIN b) < Threshold)
    <2>1. \A j \in D : ~(b[j].minute < now)
        BY <1>6 DEF Cleaned
    <2>2. \A j \in D : b[j].minute = now
        BY <1>1, <2>1 DEF SmallOrFresh
    <2>3. \A j \in DOMAIN b2 : b2[j].minute = now
        BY <1>1, <2>2
    <2>4. OneMinute(b2)
        BY <2>3 DEF OneMinute
    <2>5. QED
        BY <1>3, <1>4, <2>4 DEF SmallOrFresh
<1>7. QED
    BY <1>5, <1>6

\* Only incrementLocal, restarts and the clock can change what a map looks like.
LEMMA MapStep == LimiterInv /\ MapInv /\ [Next]_vars => MapInv'
<1> SUFFICES ASSUME LimiterInv, MapInv, [Next]_vars PROVE MapInv'
    OBVIOUS
<1>1. now \in Nat /\ DOMAIN local = Servers
    BY WindowParts DEF LimiterInv, ReqInv, LocalInv
<1>2. CASE UNCHANGED <<now, local>>
    BY <1>2 DEF MapInv, SmallOrFresh
<1>3. CASE \E q \in Requests : CountLocally(q)
    <2>1. PICK q \in Requests : CountLocally(q)
        BY <1>3
    <2>2. PICK s \in Servers, k \in Keys : s = req[q].server /\ k = req[q].key
        BY <2>1 DEF CountLocally, LimiterInv, ReqInv, Waiters, Free
    <2>3. PICK count, b2 :
              /\ b2 = [j \in DOMAIN Cleaned(local[s]) \cup {k} |->
                          IF j = k THEN [minute |-> now, count |-> count] ELSE Cleaned(local[s])[j]]
              /\ local' = [local EXCEPT ![s] = b2]
        BY <2>1, <2>2 DEF CountLocally
    <2>4. \A j \in DOMAIN local[s] : local[s][j].minute \in Nat
        BY WindowParts DEF LimiterInv, LocalInv, Bucket
    <2>5. SmallOrFresh(b2)
        BY <1>1, <2>3, <2>4, CountingMap DEF MapInv
    <2>6. now' = now /\ \A t \in Servers : local'[t] = IF t = s THEN b2 ELSE local[t]
        BY <1>1, <2>1, <2>3 DEF CountLocally
    <2>7. QED
        BY <2>5, <2>6 DEF MapInv, SmallOrFresh
<1>4. CASE Tick
    <2>1. now' = now + 1 /\ local' = local
        BY <1>4 DEF Tick
    <2>2. \A s \in Servers : \A k \in DOMAIN local[s] : local[s][k].minute \in Nat
        BY WindowParts DEF LimiterInv, LocalInv, Bucket
    <2>3. QED
        BY <1>1, <2>1, <2>2 DEF MapInv, SmallOrFresh
<1>5. CASE \E s \in Servers : Restart(s)
    <2>1. PICK s \in Servers : Restart(s)
        BY <1>5
    <2>2. now' = now /\ \A t \in Servers : local'[t] = IF t = s THEN Empty ELSE local[t]
        BY <1>1, <2>1 DEF Restart
    <2>3. SmallOrFresh(Empty)
        BY <1>1, EmptyMap
    <2>4. \A t \in Servers : SmallOrFresh(local'[t])
        BY <2>2, <2>3 DEF MapInv
    <2>5. QED
        BY <2>2, <2>4 DEF MapInv, SmallOrFresh
<1>6. QED
    BY <1>2, <1>3, <1>4, <1>5 DEF Next, vars, Arrive, Exec, Refuse, Expire

\* The local map outgrows its threshold only with keys of a single minute
\* (cleanupLocal), for any number of keys and any threshold.
THEOREM StaleBucketsAreBounded == Spec => []StaleBucketsBounded
<1>1. Init => MapInv
    BY EmptyMap, LimiterAssumption DEF Init, MapInv
<1>2. MapInv => StaleBucketsBounded
    BY DEF MapInv, SmallOrFresh, OneMinute, StaleBucketsBounded
<1>3. QED
    BY LimiterInit, LimiterStep, MapStep, <1>1, <1>2, PTL DEF Spec

-----------------------------------------------------------------------------
(* Refusals, the rest of the argument. *)

\* A bucket of the current minute is raised by the request that waited for it.
LEMMA CountLocallySeen ==
    ASSUME LimiterInv, SeenInv, NEW q \in Requests, CountLocally(q)
    PROVE  SeenInv'
<1>1. PICK s \in Servers, k \in Keys : s = req[q].server /\ k = req[q].key
    BY DEF CountLocally, LimiterInv, ReqInv, Waiters, Free
<1>2. PICK count : /\ count = Counted(Cleaned(local[s]), k)
                   /\ req' = [req EXCEPT ![q] = Free] \/
                         /\ ~Admits(count)
                         /\ req' = [req EXCEPT ![q] = Waiting("refused", s, k, now)]
    BY <1>1 DEF CountLocally
<1>3. PICK b : /\ b = [j \in DOMAIN Cleaned(local[s]) \cup {k} |->
                          IF j = k THEN [minute |-> now, count |-> count]
                                   ELSE Cleaned(local[s])[j]]
               /\ local' = [local EXCEPT ![s] = b]
    BY <1>1, <1>2 DEF CountLocally
<1>4. /\ now \in Minutes /\ now \in Nat /\ now' = now
      /\ \A j \in Keys : <<j, now>> \in Windows /\ seen[<<j, now>>] \in Nat
      /\ counters' = counters /\ counters \in [Windows -> Nat]
      /\ seen' = seen /\ seen \in [Windows -> Nat]
      /\ req[q].at = "mutex"
    BY WindowParts DEF CountLocally, LimiterInv, ReqInv, SharedInv, SeenInv, redis
<1>5. PICK x : /\ req' = [req EXCEPT ![q] = x]
               /\ x.at \notin {"redis", "mutex"}
               /\ x.at = "refused" => x.key = k /\ x.minute = now /\ ~Admits(count)
    <2>1. CASE req' = [req EXCEPT ![q] = Free]
        <3>1. Free.at = "free"
            BY DEF Free
        <3>2. QED
            BY <2>1, <3>1
    <2>2. CASE ~Admits(count) /\ req' = [req EXCEPT ![q] = Waiting("refused", s, k, now)]
        <3>1. /\ Waiting("refused", s, k, now).at = "refused"
              /\ Waiting("refused", s, k, now).key = k
              /\ Waiting("refused", s, k, now).minute = now
            BY DEF Waiting
        <3>2. QED
            BY <2>2, <3>1
    <2>3. QED
        BY <1>2, <2>1, <2>2
<1>6. /\ \A j : Pending(j)' = Pending(j) \ {q}
      /\ \A v : InRedis(v)' = InRedis(v) \ {q}
      /\ q \in Pending(k)
    BY <1>1, <1>4, <1>5, LeavesSets DEF LimiterInv, Pending
<1>7. /\ \A j : /\ Cardinality(Pending(j)') \in Nat /\ Cardinality(Pending(j)) \in Nat
                /\ Cardinality(Pending(j)') <= Cardinality(Pending(j))
      /\ \A v : /\ Cardinality(InRedis(v)') \in Nat /\ Cardinality(InRedis(v)) \in Nat
                /\ Cardinality(InRedis(v)') <= Cardinality(InRedis(v))
      /\ Cardinality(Pending(k)') + 1 = Cardinality(Pending(k))
    <2>1. \A v : InRedis(v) \in SUBSET Requests /\ Pending(v) \in SUBSET Requests
        BY DEF InRedis, Pending
    <2>2. \A j : /\ Cardinality(Pending(j) \ {q}) \in Nat /\ Cardinality(Pending(j)) \in Nat
                 /\ Cardinality(Pending(j) \ {q}) <= Cardinality(Pending(j))
        <3>1. TAKE j
        <3>2. Pending(j) \ {q} \in SUBSET Pending(j)
            OBVIOUS
        <3>3. QED
            BY <2>1, <3>2, OneLess
    <2>3. \A v : /\ Cardinality(InRedis(v) \ {q}) \in Nat /\ Cardinality(InRedis(v)) \in Nat
                 /\ Cardinality(InRedis(v) \ {q}) <= Cardinality(InRedis(v))
        <3>1. TAKE v
        <3>2. InRedis(v) \ {q} \in SUBSET InRedis(v)
            OBVIOUS
        <3>3. QED
            BY <2>1, <3>2, OneLess
    <2>4. Cardinality(Pending(k) \ {q}) + 1 = Cardinality(Pending(k))
        BY <1>6, <2>1, OneLess
    <2>5. /\ \A j : Cardinality(Pending(j)') = Cardinality(Pending(j) \ {q})
          /\ \A v : Cardinality(InRedis(v)') = Cardinality(InRedis(v) \ {q})
        BY <1>6
    <2>6. QED
        BY <2>2, <2>3, <2>4, <2>5
<1>8. count \in Nat /\ count + Cardinality(Pending(k)') <= seen[<<k, now>>]
    <2>1. CASE k \in DOMAIN Cleaned(local[s]) /\ Cleaned(local[s])[k].minute = now
        <3>1. k \in DOMAIN local[s] /\ Cleaned(local[s])[k] = local[s][k]
            BY <1>4, <2>1, CleaningKeeps
        <3>2. /\ local[s][k].count \in Nat
              /\ local[s][k].count + Cardinality(Pending(k)) <= seen[<<k, now>>]
            BY <1>1, <2>1, <3>1 DEF LimiterInv, LocalInv, Bucket, SeenInv, LocalSeen, BucketSeen
        <3>3. count = local[s][k].count + 1
            BY <1>2, <2>1, <3>1 DEF Counted
        <3>4. QED
            BY <1>4, <1>7, <3>2, <3>3
    <2>2. CASE ~(k \in DOMAIN Cleaned(local[s]) /\ Cleaned(local[s])[k].minute = now)
        <3>1. count = 1
            BY <1>2, <2>2 DEF Counted
        <3>2. Cardinality(Pending(k)) <= seen[<<k, now>>]
            BY DEF SeenInv, LocalSeen
        <3>3. QED
            BY <1>4, <1>7, <3>1, <3>2
    <2>3. QED
        BY <2>1, <2>2
<1>9. RedisSeen'
    <2>1. \A v \in Windows : counters[v] \in Nat /\ seen[v] \in Nat
        BY <1>4
    <2>2. QED
        BY <1>4, <1>7, <2>1 DEF SeenInv, RedisSeen
<1>10. LocalSeen'
    <2>1. \A j \in Keys : Cardinality(Pending(j)') <= seen[<<j, now>>]
        BY <1>4, <1>7 DEF SeenInv, LocalSeen
    <2>2. \A t \in Servers \ {s} : local'[t] = local[t]
        BY <1>3 DEF LimiterInv, LocalInv
    <2>3. local'[s] = b
        BY <1>3 DEF LimiterInv, LocalInv
    <2>4. ASSUME NEW t \in Servers, t # s, NEW j \in Keys, j \in DOMAIN local[t], local[t][j].minute = now
          PROVE  local[t][j].count + Cardinality(Pending(j)') <= seen[<<j, now>>]
        <3>1. local[t][j].count \in Nat
            BY <2>4 DEF LimiterInv, LocalInv, Bucket
        <3>2. QED
            BY <1>4, <1>7, <2>4, <3>1 DEF SeenInv, LocalSeen, BucketSeen
    <2>5. ASSUME NEW j \in Keys, j \in DOMAIN b, b[j].minute = now
          PROVE  b[j].count + Cardinality(Pending(j)') <= seen[<<j, now>>]
        <3>1. CASE j = k
            BY <1>3, <1>8, <3>1
        <3>2. CASE j # k
            <4>1. j \in DOMAIN Cleaned(local[s]) /\ b[j] = Cleaned(local[s])[j]
                BY <1>3, <2>5, <3>2
            <4>2. j \in DOMAIN local[s] /\ b[j] = local[s][j]
                BY <1>4, <4>1, CleaningKeeps
            <4>3. b[j].count \in Nat
                BY <4>2 DEF LimiterInv, LocalInv, Bucket
            <4>4. b[j].count + Cardinality(Pending(j)) <= seen[<<j, now>>]
                BY <2>5, <4>2 DEF SeenInv, LocalSeen, BucketSeen
            <4>5. QED
                BY <1>4, <1>7, <4>3, <4>4
        <3>3. QED
            BY <3>1, <3>2
    <2>6. QED
        BY <1>4, <2>1, <2>2, <2>3, <2>4, <2>5 DEF LocalSeen, BucketSeen
<1>11. RefusedSeen'
    <2>1. /\ \A p \in Requests \ {q} : req'[p] = req[p]
          /\ req'[q] = x
        BY <1>5 DEF LimiterInv, ReqInv
    <2>2. x.at = "refused" => seen[<<k, now>>] > Limit
        BY <1>4, <1>5, <1>7, <1>8, LimiterAssumption DEF Admits
    <2>3. QED
        BY <1>4, <1>5, <2>1, <2>2 DEF SeenInv, RefusedSeen
<1>12. QED
    BY <1>4, <1>9, <1>10, <1>11 DEF SeenInv

\* A new minute has seen the requests that still wait to be counted.
LEMMA TickSeen ==
    ASSUME LimiterInv, MapInv, SeenInv, Tick
    PROVE  SeenInv'
<1>1. /\ now \in Nat /\ now' = now + 1 /\ now' \in Minutes
      /\ UNCHANGED <<counters, local, req>>
      /\ \A w \in Windows : seen'[w] = IF w[2] = now + 1 THEN Cardinality(Pending(w[1])) ELSE seen[w]
      /\ DOMAIN seen' = Windows /\ seen' = [w \in Windows |-> seen'[w]]
      /\ counters \in [Windows -> Nat] /\ seen \in [Windows -> Nat]
    BY LimiterAssumption DEF LimiterInv, ReqInv, SharedInv, SeenInv, Tick, Minutes, redis
<1>2. /\ \A v : InRedis(v)' = InRedis(v) /\ Pending(v)' = Pending(v)
      /\ \A v : Cardinality(InRedis(v)) \in Nat /\ Cardinality(Pending(v)) \in Nat
    <2>1. \A v : InRedis(v) \in SUBSET Requests /\ Pending(v) \in SUBSET Requests
        BY DEF InRedis, Pending
    <2>2. \A v : Cardinality(InRedis(v)) \in Nat /\ Cardinality(Pending(v)) \in Nat
        BY <2>1, OneLess
    <2>3. \A v : InRedis(v)' = InRedis(v) /\ Pending(v)' = Pending(v)
        BY <1>1 DEF InRedis, Pending
    <2>4. QED
        BY <2>2, <2>3
<1>3. seen' \in [Windows -> Nat]
    BY <1>1, <1>2
<1>4. \A v \in Windows : v[2] > now => InRedis(v) = {}
    <2>1. \A q \in Requests : req[q].at = "redis" => req[q].minute <= now /\ req[q].minute \in Nat
        BY WindowParts DEF LimiterInv, ReqInv, Waiters, Free
    <2>2. QED
        BY <1>1, <2>1, WindowParts DEF InRedis
<1>5. RedisSeen'
    <2>1. \A v \in Windows : v[2] \in Nat /\ counters[v] \in Nat
        BY <1>1, WindowParts
    <2>2. \A v \in Windows : v[2] > now' => v[2] > now
        BY <1>1, <2>1
    <2>3. \A v \in Windows : v[2] = now + 1 => counters[v] + Cardinality(InRedis(v)) = 0
        <3>1. Cardinality({}) = 0
            BY FS_EmptySet
        <3>2. \A v \in Windows : v[2] = now + 1 => v[2] > now
            BY <1>1, <2>1
        <3>3. \A v \in Windows : v[2] = now + 1 =>
                  counters[v] = 0 /\ Cardinality(InRedis(v)) = 0
            BY <1>4, <3>1, <3>2 DEF SeenInv, RedisSeen
        <3>4. QED
            BY <3>3
    <2>4. \A v \in Windows : counters[v] + Cardinality(InRedis(v)) <= seen'[v]
        BY <1>1, <1>2, <2>3 DEF SeenInv, RedisSeen
    <2>5. QED
        BY <1>1, <1>2, <2>2, <2>4 DEF SeenInv, RedisSeen
<1>6. LocalSeen'
    <2>1. \A k \in Keys : seen'[<<k, now + 1>>] = Cardinality(Pending(k))
        BY <1>1, WindowParts
    <2>2. \A s \in Servers : \A k \in DOMAIN local[s] : local[s][k].minute # now + 1
        <3>1. \A s \in Servers : \A k \in DOMAIN local[s] :
                  local[s][k].minute <= now /\ local[s][k].minute \in Nat
            BY WindowParts DEF MapInv, SmallOrFresh, LimiterInv, LocalInv, Bucket
        <3>2. QED
            BY <1>1, <3>1
    <2>3. QED
        BY <1>1, <1>2, <2>1, <2>2 DEF LocalSeen, BucketSeen
<1>7. RefusedSeen'
    <2>1. \A q \in Requests : req[q].at = "refused" =>
              <<req[q].key, req[q].minute>> \in Windows /\ req[q].minute # now + 1
        <3>1. \A q \in Requests : req[q].at = "refused" =>
                  /\ req[q].minute <= now /\ req[q].minute \in Nat
                  /\ <<req[q].key, req[q].minute>> \in Windows
            BY WindowParts DEF LimiterInv, ReqInv, Waiters, Free
        <3>2. QED
            BY <1>1, <3>1
    <2>2. \A q \in Requests : req[q].at = "refused" =>
              seen'[<<req[q].key, req[q].minute>>] = seen[<<req[q].key, req[q].minute>>]
        BY <1>1, <2>1
    <2>3. QED
        BY <1>1, <2>2 DEF SeenInv, RefusedSeen
<1>8. QED
    BY <1>3, <1>5, <1>6, <1>7 DEF SeenInv

\* Expiry forgets counts.
LEMMA ExpireSeen ==
    ASSUME LimiterInv, SeenInv, NEW w \in Windows, Expire(w)
    PROVE  SeenInv'
<1>1. /\ counters' = [counters EXCEPT ![w] = 0] /\ counters \in [Windows -> Nat]
      /\ UNCHANGED <<now, local, req, seen>> /\ seen \in [Windows -> Nat]
    BY DEF Expire, history, LimiterInv, SharedInv, SeenInv
<1>2. \A v : InRedis(v)' = InRedis(v) /\ Pending(v)' = Pending(v)
    BY <1>1 DEF InRedis, Pending
<1>3. \A v : Cardinality(InRedis(v)) \in Nat
    <2>1. \A v : InRedis(v) \in SUBSET Requests
        BY DEF InRedis
    <2>2. QED
        BY <2>1, OneLess
<1>4. RedisSeen'
    <2>1. \A v \in Windows : counters[v] \in Nat /\ seen[v] \in Nat /\ counters'[v] \in {0, counters[v]}
        BY <1>1
    <2>2. \A v \in Windows : counters'[v] + Cardinality(InRedis(v)) <= seen[v]
        BY <1>3, <2>1 DEF SeenInv, RedisSeen
    <2>3. QED
        BY <1>1, <1>2, <2>1, <2>2 DEF SeenInv, RedisSeen
<1>5. LocalSeen' /\ RefusedSeen'
    BY <1>1, <1>2 DEF SeenInv, LocalSeen, BucketSeen, RefusedSeen
<1>6. QED
    BY <1>1, <1>4, <1>5 DEF SeenInv

\* Requests that die with their server are not counted any more.
LEMMA RestartSeen ==
    ASSUME LimiterInv, SeenInv, NEW s \in Servers, Restart(s)
    PROVE  SeenInv'
<1>1. /\ UNCHANGED <<now, counters, seen>> /\ seen \in [Windows -> Nat] /\ now \in Minutes
      /\ counters \in [Windows -> Nat]
      /\ \A t \in Servers : local'[t] = IF t = s THEN Empty ELSE local[t]
      /\ \A q \in Requests : req'[q] = Free \/ req'[q] = req[q]
    BY DEF Restart, redis, LimiterInv, ReqInv, SharedInv, LocalInv, SeenInv
<1>2. \A v : InRedis(v)' \in SUBSET InRedis(v) /\ Pending(v)' \in SUBSET Pending(v)
    BY <1>1 DEF InRedis, Pending, Free
<1>3. /\ \A v : /\ Cardinality(InRedis(v)') \in Nat /\ Cardinality(InRedis(v)) \in Nat
                /\ Cardinality(InRedis(v)') <= Cardinality(InRedis(v))
      /\ \A v : /\ Cardinality(Pending(v)') \in Nat /\ Cardinality(Pending(v)) \in Nat
                /\ Cardinality(Pending(v)') <= Cardinality(Pending(v))
    <2>1. \A v : InRedis(v) \in SUBSET Requests /\ Pending(v) \in SUBSET Requests
        BY DEF InRedis, Pending
    <2>2. \A S \in SUBSET Requests : \A T \in SUBSET S :
              /\ Cardinality(T) \in Nat /\ Cardinality(S) \in Nat
              /\ Cardinality(T) <= Cardinality(S)
        BY OneLess
    <2>3. QED
        BY <1>2, <2>1, <2>2
<1>4. RedisSeen'
    <2>1. \A v \in Windows : counters[v] \in Nat /\ seen[v] \in Nat
        BY <1>1
    <2>2. QED
        BY <1>1, <1>3, <2>1 DEF SeenInv, RedisSeen
<1>5. LocalSeen'
    <2>1. \A k \in Keys : seen[<<k, now>>] \in Nat
        BY <1>1, WindowParts
    <2>2. \A k \in Keys : Cardinality(Pending(k)') <= seen[<<k, now>>]
        BY <1>3, <2>1 DEF SeenInv, LocalSeen
    <2>3. \A t \in Servers \ {s}, k \in Keys : k \in DOMAIN local[t] /\ local[t][k].minute = now =>
              local[t][k].count + Cardinality(Pending(k)') <= seen[<<k, now>>]
        <3>1. \A t \in Servers, k \in Keys : k \in DOMAIN local[t] => local[t][k].count \in Nat
            BY DEF LimiterInv, LocalInv, Bucket
        <3>2. QED
            BY <1>3, <2>1, <3>1 DEF SeenInv, LocalSeen, BucketSeen
    <2>4. DOMAIN Empty = {}
        BY DEF Empty
    <2>5. QED
        BY <1>1, <2>2, <2>3, <2>4 DEF LocalSeen, BucketSeen
<1>6. RefusedSeen'
    BY <1>1 DEF SeenInv, RefusedSeen, Free
<1>7. QED
    BY <1>1, <1>4, <1>5, <1>6 DEF SeenInv

\* A request that is answered has been counted before.
LEMMA RefuseSeen ==
    ASSUME LimiterInv, SeenInv, NEW q \in Requests, Refuse(q)
    PROVE  SeenInv'
<1>1. /\ UNCHANGED <<now, counters, local, seen>>
      /\ req' = [req EXCEPT ![q] = Free] /\ req[q].at = "refused"
    BY DEF Refuse, redis
<1>2. \A v : InRedis(v)' = InRedis(v) /\ Pending(v)' = Pending(v)
    BY <1>1 DEF LimiterInv, ReqInv, InRedis, Pending, Free
<1>3. RefusedSeen'
    BY <1>1 DEF LimiterInv, ReqInv, SeenInv, RefusedSeen, Free
<1>4. QED
    BY <1>1, <1>2, <1>3 DEF SeenInv, RedisSeen, LocalSeen, BucketSeen

\* Every step keeps the account of what has been seen.
LEMMA SeenStep == LimiterInv /\ MapInv /\ SeenInv /\ [Next]_vars => SeenInv'
<1> SUFFICES ASSUME LimiterInv, MapInv, SeenInv, [Next]_vars PROVE SeenInv'
    OBVIOUS
<1>1. CASE \E q \in Requests, s \in Servers, k \in Keys : Arrive(q, s, k)
    BY <1>1, ArriveSeen
<1>2. CASE \E q \in Requests : Exec(q)
    BY <1>2, ExecSeen
<1>3. CASE \E q \in Requests : CountLocally(q)
    BY <1>3, CountLocallySeen
<1>4. CASE \E q \in Requests : Refuse(q)
    BY <1>4, RefuseSeen
<1>5. CASE Tick
    BY <1>5, TickSeen
<1>6. CASE \E w \in Windows : Expire(w)
    BY <1>6, ExpireSeen
<1>7. CASE \E s \in Servers : Restart(s)
    BY <1>7, RestartSeen
<1>8. CASE UNCHANGED vars
    BY <1>8 DEF vars, SeenInv, RedisSeen, LocalSeen, BucketSeen, RefusedSeen, InRedis, Pending
<1>9. QED
    BY <1>1, <1>2, <1>3, <1>4, <1>5, <1>6, <1>7, <1>8 DEF Next

\* The last refusal was earned, and told a time that is not too early.
RefusalInv ==
    refusal # NoRefusal =>
        /\ refusal \in [is : {"refusal"}, key : Keys, minute : Minutes, reset : Nat]
        /\ refusal.minute <= now
        /\ refusal.minute < refusal.reset /\ refusal.reset <= now + 1
        /\ seen[<<refusal.key, refusal.minute>>] > Limit

\* A refusal stays earned: what has been seen in a minute is not forgotten.
LEMMA RefusalStep == LimiterInv /\ SeenInv /\ RefusalInv /\ [Next]_vars => RefusalInv'
<1> SUFFICES ASSUME LimiterInv, SeenInv, RefusalInv, [Next]_vars PROVE RefusalInv'
    OBVIOUS
<1>1. now \in Nat /\ seen \in [Windows -> Nat]
    BY WindowParts DEF LimiterInv, ReqInv, SeenInv
<1>2. CASE UNCHANGED <<now, seen, refusal>>
    BY <1>2 DEF RefusalInv
<1>3. CASE \E q \in Requests, s \in Servers, k \in Keys : Arrive(q, s, k)
    <2>1. PICK k \in Keys : /\ seen' = [seen EXCEPT ![<<k, now>>] = @ + 1]
                            /\ now' = now /\ refusal' = refusal
        BY <1>3 DEF Arrive
    <2>2. \A w \in Windows : seen[w] \in Nat /\ seen'[w] \in {seen[w], seen[w] + 1}
        BY <1>1, <2>1
    <2>3. CASE refusal # NoRefusal
        <3>1. <<refusal.key, refusal.minute>> \in Windows
            BY <2>3, WindowParts DEF RefusalInv
        <3>2. seen'[<<refusal.key, refusal.minute>>] > Limit
            BY <2>2, <2>3, <3>1, LimiterAssumption DEF RefusalInv
        <3>3. QED
            BY <2>1, <2>3, <3>2 DEF RefusalInv
    <2>4. QED
        BY <2>1, <2>3 DEF RefusalInv
<1>4. CASE Tick
    <2>1. /\ now' = now + 1 /\ refusal' = refusal
          /\ \A w \in Windows : w[2] # now + 1 => seen'[w] = seen[w]
        BY <1>4 DEF Tick
    <2>2. CASE refusal # NoRefusal
        <3>1. /\ refusal.minute \in Nat /\ refusal.reset \in Nat
              /\ <<refusal.key, refusal.minute>> \in Windows
            BY <2>2, WindowParts DEF RefusalInv
        <3>2. refusal.minute # now + 1
            BY <1>1, <2>2, <3>1 DEF RefusalInv
        <3>3. seen'[<<refusal.key, refusal.minute>>] = seen[<<refusal.key, refusal.minute>>]
            BY <2>1, <3>1, <3>2
        <3>4. refusal.minute <= now' /\ refusal.reset <= now' + 1
            BY <1>1, <2>1, <2>2, <3>1 DEF RefusalInv
        <3>5. QED
            BY <2>1, <2>2, <3>3, <3>4 DEF RefusalInv
    <2>3. QED
        BY <2>1, <2>2 DEF RefusalInv
<1>5. CASE \E q \in Requests : Refuse(q)
    <2>1. PICK q \in Requests : Refuse(q)
        BY <1>5
    <2>2. req[q] \in Waiters /\ req[q].minute <= now /\ req[q].minute \in Nat
        BY <2>1, WindowParts DEF Refuse, LimiterInv, ReqInv, Waiters, Free
    <2>3. seen[<<req[q].key, req[q].minute>>] > Limit
        BY <2>1 DEF Refuse, SeenInv, RefusedSeen
    <2>4. /\ refusal' = [is |-> "refusal", key |-> req[q].key, minute |-> req[q].minute,
                        reset |-> now + 1]
          /\ now' = now /\ seen' = seen
        BY <2>1 DEF Refuse, ResetAt
    <2>5. refusal' \in [is : {"refusal"}, key : Keys, minute : Minutes, reset : Nat]
        BY <1>1, <2>2, <2>4 DEF Waiters
    <2>6. refusal'.key = req[q].key /\ refusal'.minute = req[q].minute /\ refusal'.reset = now + 1
        BY <2>4
    <2>7. req[q].minute < now + 1
        BY <1>1, <2>2
    <2>8. QED
        BY <1>1, <2>2, <2>3, <2>4, <2>5, <2>6, <2>7 DEF RefusalInv
<1>6. QED
    BY <1>2, <1>3, <1>4, <1>5 DEF Next, vars, Exec, CountLocally, Expire, Restart, history

\* All of it together.
LimiterIInv == LimiterInv /\ MapInv /\ SeenInv /\ RefusalInv

LEMMA LimiterInductive == Spec => []LimiterIInv
<1>1. Init => LimiterIInv
    <2>1. Init => MapInv
        BY EmptyMap, LimiterAssumption DEF Init, MapInv
    <2>2. Init => RefusalInv
        BY DEF Init, RefusalInv
    <2>3. QED
        BY <2>1, <2>2, LimiterInit, SeenInit DEF LimiterIInv
<1>2. LimiterIInv /\ [Next]_vars => LimiterIInv'
    BY LimiterStep, MapStep, SeenStep, RefusalStep DEF LimiterIInv
<1>3. QED
    BY <1>1, <1>2, PTL DEF Spec

\* Nobody is refused in a minute in which no more than Limit requests of its key
\* were being handled, whatever fails meanwhile (Limiter.increment, incrementLocal).
THEOREM RefusalsAreEarned == Spec => []RefusalsEarned
<1>1. LimiterIInv => RefusalsEarned
    BY DEF LimiterIInv, RefusalInv, RefusalsEarned
<1>2. QED
    BY LimiterInductive, <1>1, PTL

\* A refused client is told a time after the minute it was refused for, and at
\* most a minute ahead (Limiter.Middleware, X-RateLimit-Reset).
THEOREM ResetsStayFresh == Spec => []ResetsAreFresh
<1>1. LimiterIInv => ResetsAreFresh
    BY DEF LimiterIInv, RefusalInv, ResetsAreFresh
<1>2. QED
    BY LimiterInductive, <1>1, PTL

\* The state of the limiter has its type: in particular no request is counted in
\* a minute that has not begun (Limiter.increment, incrementLocal).
THEOREM LimiterTyped == Spec => []TypeOK
<1>1. LimiterIInv => TypeOK
    <2> SUFFICES ASSUME LimiterIInv PROVE TypeOK
        OBVIOUS
    <2>1. \A q \in Requests : req[q] = Free \/
              req[q] \in [at : Places, server : Servers, key : Keys, minute : 0..now]
        <3>1. \A q \in Requests : req[q] # Free =>
                  req[q] \in Waiters /\ req[q].minute \in 0..now
            BY WindowParts DEF LimiterIInv, LimiterInv, ReqInv, Waiters
        <3>2. QED
            BY <3>1 DEF Waiters
    <2>2. \A s \in Servers : \A k \in DOMAIN local[s] : k \in Keys /\ local[s][k] \in Bucket
        BY DEF LimiterIInv, LimiterInv, LocalInv, MapInv, SmallOrFresh
    <2>3. refusal = NoRefusal \/
              refusal \in [is : {"refusal"}, key : Keys, minute : Minutes, reset : Nat]
        BY DEF LimiterIInv, RefusalInv
    <2>4. QED
        BY <2>1, <2>2, <2>3
           DEF LimiterIInv, LimiterInv, ReqInv, SharedInv, LocalInv, SeenInv, TypeOK, Places
<1>2. QED
    BY LimiterInductive, <1>1, PTL
=============================================================================
