----------------------------- MODULE RateLimiter -----------------------------
(***************************************************************************)
(* The rate limiter in front of every route.  A request is counted per     *)
(* client and route in the current minute: in Redis, or, when Redis does   *)
(* not answer, in a table of this process.  Requests run concurrently; the *)
(* minute may turn between any two of their steps; an answer of Redis may  *)
(* be lost after it has counted.                                           *)
(*                                                                         *)
(* Source: backend/internal/middleware/ratelimit.go.  The client library   *)
(* tries a lost command again; its timeouts end a request's dealings with  *)
(* Redis within a minute, so that they touch at most one turn of the       *)
(* minute, and the expiry of a counter (two minutes) never matters.  Redis  *)
(* keeps its counters when it restarts (docker-compose: appendonly).        *)
(***************************************************************************)
EXTENDS Naturals, FiniteSets

CONSTANTS
    Request,     \* request ids
    Key,         \* a client's address and a route
    Limit,       \* l.limit, REQUEST_LIMIT
    TableSize,   \* the size from which the local table is cleaned; 512
    Retries,     \* how often the Redis client tries again
    MaxWindow,   \* bound: the last minute
    MaxBoot      \* bound: restarts of the process

ASSUME LimiterConstants ==
    /\ Limit \in Nat \ {0} /\ TableSize \in Nat /\ Retries \in Nat
    /\ MaxWindow \in Nat /\ MaxBoot \in Nat

VARIABLES
    now,         \* the current minute
    boot,        \* how often the process has been started again
    redis,       \* redis[w, k]: the counter "rate:w:k"
    local,       \* the table of this process: key -> bucket
    pc,          \* what request r waits for, or its outcome
    key,         \* key[r]: the key of request r
    window,      \* window[r]: the minute in which r built its Redis key
    lost,        \* lost[r]: how often Redis counted r and the answer was lost
    tally        \* tally[r]: where r was counted, and as which request there

vars == <<now, boot, redis, local, pc, key, window, lost, tally>>

Window == 0..MaxWindow
Boot == 0..MaxBoot
Bucket == [window : Window, count : Nat \ {0}]

(* The counters: that of Redis, and that of each life of the process.       *)
Redis == <<"redis", 0>>
Memory(b) == <<"memory", b>>
Backend == {Redis} \cup {Memory(b) : b \in Boot}

Tally(b, w, n) == [by |-> b, minute |-> w, number |-> n]
Tallies == [by : Backend, minute : Window, number : Nat \ {0}]
NoTally == [by |-> <<"none", 0>>, minute |-> 0, number |-> 0]

Waiting == {"redis", "local"}
Outcome == {"passed", "limited"}

Init ==
    /\ now = 0 /\ boot = 0
    /\ redis = [e \in Window \X Key |-> 0]
    /\ local = [k \in {} |-> 0]
    /\ pc = [r \in Request |-> "idle"]
    /\ key \in [Request -> Key]
    /\ window = [r \in Request |-> 0]
    /\ lost = [r \in Request |-> 0]
    /\ tally = [r \in Request |-> NoTally]

-----------------------------------------------------------------------------
(* count > l.limit *)
Exceeds(n) == n > Limit

(* r has been counted as the n-th request of minute w by b: next, or 429.    *)
Decide(r, b, w, n) ==
    /\ tally' = [tally EXCEPT ![r] = Tally(b, w, n)]
    /\ pc' = [pc EXCEPT ![r] = IF Exceeds(n) THEN "limited" ELSE "passed"]

(* A request arrives and builds its Redis key. *)
Arrive(r) ==
    /\ pc[r] = "idle"
    /\ pc' = [pc EXCEPT ![r] = "redis"]
    /\ window' = [window EXCEPT ![r] = now]
    /\ UNCHANGED <<now, boot, redis, local, key, lost, tally>>

Slot(r) == <<window[r], key[r]>>

(* Slip: the client tries again without end. *)
MayAttempt_NoLimit(r) == pc[r] = "redis"

(* The client has an attempt left: a first one and its retries. *)
MayAttempt(r) == pc[r] = "redis" /\ lost[r] <= Retries

(* INCR and EXPIRE are executed in one transaction, and its answer arrives.  *)
RedisCounts(r) ==
    /\ MayAttempt(r)
    /\ redis' = [redis EXCEPT ![Slot(r)] = @ + 1]
    /\ Decide(r, Redis, window[r], redis[Slot(r)] + 1)
    /\ UNCHANGED <<now, boot, local, key, window, lost>>

(* They are executed, but the answer is lost. *)
RedisLosesAnswer(r) ==
    /\ MayAttempt(r)
    /\ redis' = [redis EXCEPT ![Slot(r)] = @ + 1]
    /\ lost' = [lost EXCEPT ![r] = @ + 1]
    /\ UNCHANGED <<now, boot, local, pc, key, window, tally>>

(* The client gives up, or there is no Redis.                               *)
RedisFails(r) ==
    /\ pc[r] = "redis"
    /\ pc' = [pc EXCEPT ![r] = "local"]
    /\ UNCHANGED <<now, boot, redis, local, key, window, lost, tally>>

(* Slips of cleanupLocal: buckets of the current minute go, or none does.    *)
Outdated_NotAfter(w) == w <= now
Outdated_Never(w) == FALSE

(* value.window.Before(currentWindow) *)
Outdated(w) == w < now

(* cleanupLocal *)
Cleaned ==
    IF Cardinality(DOMAIN local) < TableSize THEN local
    ELSE [k \in {j \in DOMAIN local : ~Outdated(local[j].window)} |-> local[k]]

(* Slip: the bucket of an earlier minute is counted on. *)
Counted_AnyWindow(table, k) == IF k \in DOMAIN table THEN table[k].count ELSE 0

(* The requests of k that its bucket has counted in the current minute.      *)
Counted(table, k) ==
    IF k \in DOMAIN table /\ table[k].window = now THEN table[k].count ELSE 0

(* incrementLocal, under the mutex. *)
LocalCounts(r) ==
    LET k == key[r]
        n == Counted(Cleaned, k) + 1
    IN  /\ pc[r] = "local"
        /\ local' = [j \in DOMAIN Cleaned \cup {k} |->
                        IF j = k THEN [window |-> now, count |-> n] ELSE Cleaned[j]]
        /\ Decide(r, Memory(boot), now, n)
        /\ UNCHANGED <<now, boot, redis, key, window, lost>>

(* The minute turns. *)
Tick ==
    /\ now < MaxWindow
    /\ \A r \in Request : pc[r] = "redis" => window[r] = now
    /\ now' = now + 1
    /\ UNCHANGED <<boot, redis, local, pc, key, window, lost, tally>>

(* The process is restarted; the requests it was serving are gone.           *)
Restart ==
    /\ boot < MaxBoot
    /\ boot' = boot + 1
    /\ local' = [k \in {} |-> 0]
    /\ pc' = [r \in Request |-> IF pc[r] \in Waiting THEN "gone" ELSE pc[r]]
    /\ UNCHANGED <<now, redis, key, window, lost, tally>>

Serve(r) ==
    \/ Arrive(r) \/ RedisCounts(r) \/ RedisLosesAnswer(r) \/ RedisFails(r)
    \/ LocalCounts(r)

Next == Tick \/ Restart \/ \E r \in Request : Serve(r)

Spec == Init /\ [][Next]_vars

-----------------------------------------------------------------------------
(* Properties. *)

TypeOK ==
    /\ now \in Window /\ boot \in Boot
    /\ redis \in [Window \X Key -> Nat]
    /\ DOMAIN local \subseteq Key
    /\ \A k \in DOMAIN local : local[k] \in Bucket
    /\ pc \in [Request -> {"idle", "gone"} \cup Waiting \cup Outcome]
    /\ key \in [Request -> Key]
    /\ window \in [Request -> Window]
    /\ lost \in [Request -> 0..(Retries + 1)]
    /\ tally \in [Request -> Tallies \cup {NoTally}]

(* The requests with key k that b has counted in minute w.                   *)
CountedBy(b, w, k) ==
    {r \in Request : tally[r].by = b /\ tally[r].minute = w /\ key[r] = k}

(* No counter lets more than Limit requests of a client and route through in *)
(* a minute, however requests interleave with each other, with the turn of   *)
(* the minute and with the cleaning of the table.  A client can therefore    *)
(* pass at most Limit requests by Redis and Limit by each life of the        *)
(* process in a minute.                                                      *)
LimitPerCounter ==
    \A b \in Backend, w \in Window, k \in Key :
        Cardinality({r \in CountedBy(b, w, k) : pc[r] = "passed"}) <= Limit

(* The lost answers of minute w and key k. *)
LostAnswers(w, k) ==
    {e \in Request \X (1..(Retries + 1)) :
        key[e[1]] = k /\ window[e[1]] = w /\ e[2] <= lost[e[1]]}

(* A request is refused only when its counter has really counted Limit other *)
(* requests of its minute, or attempts whose answer was lost: earlier        *)
(* minutes, other clients and the other backend do not use up its share.     *)
LimitedOnlyWhenFull ==
    \A r \in Request : pc[r] = "limited" =>
        LET t == tally[r] IN
        Cardinality(CountedBy(t.by, t.minute, key[r]) \ {r})
            + (IF t.by = Redis THEN Cardinality(LostAnswers(t.minute, key[r])) ELSE 0)
        >= Limit

(* The table stays small: when it has more keys than the size from which it  *)
(* is cleaned, all its buckets are of one minute.                            *)
BigTableIsFresh ==
    Cardinality(DOMAIN local) > TableSize =>
        \A j, k \in DOMAIN local : local[j].window = local[k].window

=============================================================================
