-------------------------- MODULE RateLimiterProofs --------------------------
(***************************************************************************)
(* Proofs about RateLimiter, for any number of requests and keys, any      *)
(* limit and any size of the table: no counter lets more than Limit        *)
(* requests through, and a big table holds buckets of one minute only.     *)
(***************************************************************************)
EXTENDS RateLimiter, FiniteSetTheorems, TLAPS

Entered(r) == tally[r] \in Tallies

SameCounter(q, r) ==
    /\ tally[q].by = tally[r].by
    /\ tally[q].minute = tally[r].minute
    /\ key[q] = key[r]

(* A request has an outcome when it has been counted, and passes only within *)
(* the limit.                                                                *)
OutcomeOK ==
    \A r \in Request :
        /\ Entered(r) <=> pc[r] \in Outcome
        /\ pc[r] = "passed" => tally[r].number <= Limit

(* A counter has counted at least as far as the requests it has numbered; of *)
(* the table this is known of the current minute and life of the process.    *)
Ahead(r) ==
    /\ tally[r].by = Redis =>
          tally[r].number <= redis[<<tally[r].minute, key[r]>>]
    /\ tally[r].by = Memory(boot) /\ tally[r].minute = now =>
          /\ key[r] \in DOMAIN local
          /\ local[key[r]].window = now
          /\ tally[r].number <= local[key[r]].count
    /\ \A b \in Boot : tally[r].by = Memory(b) => b <= boot /\ tally[r].minute <= now

CountersAhead == \A r \in Request : Entered(r) => Ahead(r)

(* A counter gives every number once. *)
NumbersDiffer ==
    \A q, r \in Request :
        Entered(q) /\ Entered(r) /\ q # r /\ SameCounter(q, r)
            => tally[q].number # tally[r].number

TableOK ==
    /\ IsFiniteSet(DOMAIN local)
    /\ \A k \in DOMAIN local : local[k].window <= now

IInv == TypeOK /\ OutcomeOK /\ CountersAhead /\ NumbersDiffer /\ TableOK /\ BigTableIsFresh

-----------------------------------------------------------------------------
LEMMA BackendsDiffer ==
    /\ \A b : Redis # Memory(b)
    /\ \A a, b : Memory(a) = Memory(b) => a = b
    /\ NoTally \notin Tallies
BY DEF Redis, Memory, NoTally, Tallies, Backend

LEMMA InitInvariant == Init => IInv
<1>. SUFFICES ASSUME Init PROVE IInv
  OBVIOUS
<1>1. DOMAIN local = {}
  BY DEF Init
<1>2. TypeOK
  BY <1>1, LimiterConstants DEF Init, TypeOK, Window, Boot
<1>3. \A r \in Request : ~Entered(r)
  BY BackendsDiffer DEF Init, Entered
<1>4. OutcomeOK /\ CountersAhead /\ NumbersDiffer
  BY <1>3 DEF Init, OutcomeOK, CountersAhead, NumbersDiffer, Outcome
<1>5. TableOK /\ BigTableIsFresh
  BY <1>1, FS_EmptySet DEF TableOK, BigTableIsFresh
<1>. QED
  BY <1>2, <1>4, <1>5 DEF IInv

(* cleanupLocal keeps the buckets of the current minute as they are, and      *)
(* only them when the table has reached its size.                            *)
LEMMA CleaningKeepsTheMinute ==
    /\ DOMAIN Cleaned \subseteq DOMAIN local
    /\ \A k \in DOMAIN Cleaned : Cleaned[k] = local[k]
    /\ \A k \in DOMAIN local : local[k].window = now /\ now \in Nat => k \in DOMAIN Cleaned
    /\ \/ Cleaned = local /\ Cardinality(DOMAIN local) < TableSize
       \/ \A k \in DOMAIN Cleaned : ~(local[k].window < now)
<1>1. CASE Cardinality(DOMAIN local) < TableSize
  BY <1>1 DEF Cleaned
<1>2. CASE ~(Cardinality(DOMAIN local) < TableSize)
  <2>1. Cleaned = [k \in {j \in DOMAIN local : ~(local[j].window < now)} |-> local[k]]
    BY <1>2 DEF Cleaned, Outdated
  <2>. QED
    BY <2>1
<1>. QED
  BY <1>1, <1>2

(* What LocalCounts does to the table. *)
Bumped(r) ==
    /\ DOMAIN local' = DOMAIN Cleaned \cup {key[r]}
    /\ local'[key[r]] = [window |-> now, count |-> Counted(Cleaned, key[r]) + 1]
    /\ \A k \in DOMAIN Cleaned \ {key[r]} : local'[k] = local[k]
    /\ Counted(Cleaned, key[r]) \in Nat
    /\ \A k \in DOMAIN local :
          local[k].window = now /\ k = key[r] => Counted(Cleaned, key[r]) = local[k].count

LEMMA BucketCounts ==
    ASSUME TypeOK, NEW r \in Request, LocalCounts(r)
    PROVE  Bumped(r)
<1>1. local' = [j \in DOMAIN Cleaned \cup {key[r]} |->
                  IF j = key[r] THEN [window |-> now, count |-> Counted(Cleaned, key[r]) + 1]
                  ELSE Cleaned[j]]
  BY DEF LocalCounts
<1>2. /\ DOMAIN local' = DOMAIN Cleaned \cup {key[r]}
      /\ local'[key[r]] = [window |-> now, count |-> Counted(Cleaned, key[r]) + 1]
      /\ \A k \in DOMAIN Cleaned \ {key[r]} : local'[k] = local[k]
  BY <1>1, CleaningKeepsTheMinute
<1>3. Counted(Cleaned, key[r]) \in Nat
  BY CleaningKeepsTheMinute DEF Counted, TypeOK, Bucket
<1>4. \A k \in DOMAIN local :
         local[k].window = now /\ k = key[r] => Counted(Cleaned, key[r]) = local[k].count
  BY CleaningKeepsTheMinute DEF Counted, TypeOK, Window
<1>. QED
  BY <1>2, <1>3, <1>4 DEF Bumped

-----------------------------------------------------------------------------
(* Every step keeps the types.                                              *)
LEMMA TypesStep == TypeOK /\ [Next]_vars => TypeOK'
<1>. SUFFICES ASSUME TypeOK, [Next]_vars PROVE TypeOK'
  OBVIOUS
<1>. USE LimiterConstants DEF TypeOK
<1>1. ASSUME NEW r \in Request, NEW b \in Backend, NEW w \in Window, NEW n \in Nat \ {0},
             Decide(r, b, w, n)
      PROVE  /\ tally' \in [Request -> Tallies \cup {NoTally}]
             /\ pc' \in [Request -> {"idle", "gone"} \cup Waiting \cup Outcome]
  BY <1>1 DEF Decide, Tally, Tallies, Outcome
<1>2. ASSUME NEW r \in Request, Arrive(r) \/ RedisFails(r)
      PROVE  TypeOK'
  BY <1>2 DEF Arrive, RedisFails, Waiting
<1>3. ASSUME NEW r \in Request
      PROVE  Slot(r) \in Window \X Key /\ redis[Slot(r)] \in Nat /\ Redis \in Backend
  BY DEF Slot, Backend
<1>4. ASSUME NEW r \in Request, RedisCounts(r)
      PROVE  TypeOK'
  <2>1. /\ tally' \in [Request -> Tallies \cup {NoTally}]
        /\ pc' \in [Request -> {"idle", "gone"} \cup Waiting \cup Outcome]
    <3>1. redis[Slot(r)] + 1 \in Nat \ {0} /\ window[r] \in Window
      BY <1>3
    <3>. QED
      BY <1>1, <1>3, <1>4, <3>1 DEF RedisCounts
  <2>2. redis' \in [Window \X Key -> Nat]
    BY <1>3, <1>4 DEF RedisCounts
  <2>. QED
    BY <1>4, <2>1, <2>2 DEF RedisCounts
<1>5. ASSUME NEW r \in Request, RedisLosesAnswer(r)
      PROVE  TypeOK'
  <2>1. redis' \in [Window \X Key -> Nat]
    BY <1>3, <1>5 DEF RedisLosesAnswer
  <2>2. lost' \in [Request -> 0..(Retries + 1)]
    BY <1>5 DEF RedisLosesAnswer, MayAttempt
  <2>. QED
    BY <1>5, <2>1, <2>2 DEF RedisLosesAnswer
<1>6. ASSUME NEW r \in Request, LocalCounts(r)
      PROVE  TypeOK'
  <2>. DEFINE n == Counted(Cleaned, key[r]) + 1
  <2>0. Bumped(r)
    BY <1>6, BucketCounts
  <2>1. n \in Nat \ {0} /\ Memory(boot) \in Backend
    BY <2>0 DEF Backend, Bumped
  <2>2. /\ tally' \in [Request -> Tallies \cup {NoTally}]
        /\ pc' \in [Request -> {"idle", "gone"} \cup Waiting \cup Outcome]
    BY <1>1, <1>6, <2>1 DEF LocalCounts
  <2>3. DOMAIN local' \subseteq Key /\ \A k \in DOMAIN local' : local'[k] \in Bucket
    BY <2>0, <2>1, CleaningKeepsTheMinute DEF Bumped, Bucket
  <2>. QED
    BY <1>6, <2>2, <2>3 DEF LocalCounts
<1>7. CASE Tick
  BY <1>7 DEF Tick, Window
<1>8. CASE Restart
  BY <1>8 DEF Restart, Boot
<1>9. CASE UNCHANGED vars
  BY <1>9 DEF vars
<1>. QED
  BY <1>2, <1>4, <1>5, <1>6, <1>7, <1>8, <1>9 DEF Next, Serve

(* Every step keeps the table finite, its buckets from being ahead of the     *)
(* clock and, when it is big, of one minute.                                 *)
LEMMA TableStep == IInv /\ [Next]_vars => TableOK' /\ BigTableIsFresh'
<1>. SUFFICES ASSUME IInv, [Next]_vars PROVE TableOK' /\ BigTableIsFresh'
  OBVIOUS
<1>. USE DEF IInv, TableOK, BigTableIsFresh
<1>1. ASSUME NEW r \in Request, LocalCounts(r)
      PROVE  TableOK' /\ BigTableIsFresh'
  <2>. DEFINE k == key[r]
  <2>0. Bumped(r)
    BY <1>1, BucketCounts
  <2>1. IsFiniteSet(DOMAIN Cleaned)
    BY CleaningKeepsTheMinute, FS_Subset
  <2>2. /\ IsFiniteSet(DOMAIN local')
        /\ Cardinality(DOMAIN local') <= Cardinality(DOMAIN Cleaned) + 1
    <3>1. DOMAIN local' = DOMAIN Cleaned \cup {k}
      BY <2>0 DEF Bumped
    <3>2. /\ IsFiniteSet(DOMAIN Cleaned \cup {k})
          /\ Cardinality(DOMAIN Cleaned \cup {k}) =
                IF k \in DOMAIN Cleaned THEN Cardinality(DOMAIN Cleaned)
                ELSE Cardinality(DOMAIN Cleaned) + 1
      BY <2>1, FS_AddElement
    <3>3. Cardinality(DOMAIN Cleaned) \in Nat
      BY <2>1, FS_CardinalityType
    <3>. HIDE DEF k
    <3>. QED
      BY <3>1, <3>2, <3>3
  <2>3. UNCHANGED now /\ now \in Nat
    BY <1>1 DEF LocalCounts, TypeOK, Window
  <2>4. \A j \in DOMAIN local' : local'[j].window <= now
    BY <2>0, <2>3, CleaningKeepsTheMinute DEF Bumped
  <2>5. CASE Cleaned = local /\ Cardinality(DOMAIN local) < TableSize
    <3>1. ~(Cardinality(DOMAIN local') > TableSize)
      BY <2>1, <2>2, <2>5, FS_CardinalityType, LimiterConstants
    <3>. QED
      BY <2>2, <2>3, <2>4, <3>1
  <2>6. CASE \A j \in DOMAIN Cleaned : ~(local[j].window < now)
    <3>1. \A j \in DOMAIN Cleaned : local[j].window = now
      BY <2>3, <2>6, CleaningKeepsTheMinute DEF TypeOK, Bucket, Window
    <3>2. \A j \in DOMAIN local' : local'[j].window = now
      BY <2>0, <3>1 DEF Bumped
    <3>. QED
      BY <2>2, <2>3, <2>4, <3>2
  <2>. QED
    BY <2>5, <2>6, CleaningKeepsTheMinute
<1>2. CASE Tick
  BY <1>2 DEF Tick, TypeOK, Window, Bucket
<1>3. CASE Restart
  <2>1. DOMAIN local' = {}
    BY <1>3 DEF Restart
  <2>. QED
    BY <2>1, FS_EmptySet
<1>4. CASE UNCHANGED <<now, local>>
  BY <1>4
<1>. QED
  BY <1>1, <1>2, <1>3, <1>4
  DEF Next, Serve, Arrive, RedisCounts, RedisLosesAnswer, RedisFails, vars

-----------------------------------------------------------------------------
(* What it takes for r to be counted as number n of counter b in minute w:   *)
(* nobody has been given n or more there, and the counter now stands at n.   *)
Numbered(r, b, w, n) ==
    /\ pc[r] \in Waiting
    /\ b \in Backend /\ w \in Window /\ n \in Nat \ {0}
    /\ tally' = [tally EXCEPT ![r] = Tally(b, w, n)]
    /\ pc' = [pc EXCEPT ![r] = IF n > Limit THEN "limited" ELSE "passed"]
    /\ UNCHANGED key
    /\ \A q \in Request :
          Entered(q) /\ tally[q].by = b /\ tally[q].minute = w /\ key[q] = key[r]
             => tally[q].number < n

LEMMA NumberingOK ==
    ASSUME IInv, NEW r \in Request, NEW b, NEW w, NEW n, Numbered(r, b, w, n)
    PROVE  /\ OutcomeOK' /\ NumbersDiffer'
           /\ ~Entered(r) /\ tally'[r] = Tally(b, w, n)
           /\ \A q \in Request \ {r} : tally'[q] = tally[q]
<1>1. /\ tally'[r] = Tally(b, w, n)
      /\ \A q \in Request \ {r} : tally'[q] = tally[q] /\ pc'[q] = pc[q]
      /\ pc'[r] = IF n > Limit THEN "limited" ELSE "passed"
  BY DEF Numbered, IInv, TypeOK
<1>2. ~Entered(r)
  BY DEF Numbered, IInv, OutcomeOK, Waiting, Outcome
<1>3. Tally(b, w, n) \in Tallies
  BY DEF Numbered, Tally, Tallies
<1>4. OutcomeOK'
  BY <1>1, <1>3, LimiterConstants DEF IInv, OutcomeOK, Entered, Outcome, Numbered, Tally
<1>5. NumbersDiffer'
  <2>. SUFFICES ASSUME NEW p \in Request, NEW q \in Request,
                       Entered(p)', Entered(q)', p # q, SameCounter(p, q)'
                PROVE  tally'[p].number # tally'[q].number
    BY DEF NumbersDiffer
  <2>1. CASE p # r /\ q # r
    BY <1>1, <2>1 DEF IInv, NumbersDiffer, Entered, SameCounter, Numbered
  <2>2. ASSUME NEW o \in Request, o # r, Entered(o),
               tally[o].by = b, tally[o].minute = w, key[o] = key[r]
        PROVE  tally'[o].number # n
    <3>1. tally[o].number < n /\ n \in Nat /\ tally[o].number \in Nat
      BY <2>2 DEF Numbered, Entered, Tallies
    <3>. QED
      BY <1>1, <2>2, <3>1
  <2>3. CASE p = r
    BY <1>1, <2>2, <2>3 DEF Entered, SameCounter, Tally, Numbered
  <2>4. CASE q = r
    BY <1>1, <2>2, <2>4 DEF Entered, SameCounter, Tally, Numbered
  <2>. QED
    BY <2>1, <2>3, <2>4
<1>. QED
  BY <1>1, <1>2, <1>4, <1>5

Counting == OutcomeOK /\ CountersAhead /\ NumbersDiffer

(* The steps of a request that is counted by Redis. *)
LEMMA RedisStep ==
    ASSUME IInv, NEW r \in Request, RedisCounts(r)
    PROVE  Counting'
<1>. DEFINE n == redis[Slot(r)] + 1
<1>1. /\ Slot(r) = <<window[r], key[r]>>
      /\ Slot(r) \in Window \X Key
      /\ redis[Slot(r)] \in Nat
      /\ redis' = [redis EXCEPT ![Slot(r)] = n]
  BY DEF RedisCounts, Slot, IInv, TypeOK
<1>2. Numbered(r, Redis, window[r], n)
  <2>1. \A q \in Request :
          Entered(q) /\ tally[q].by = Redis /\ tally[q].minute = window[r] /\ key[q] = key[r]
             => tally[q].number < n
    BY <1>1 DEF IInv, CountersAhead, Ahead, Entered, Tallies
  <2>2. pc[r] \in Waiting /\ Redis \in Backend /\ window[r] \in Window /\ n \in Nat \ {0}
    BY <1>1 DEF RedisCounts, MayAttempt, Waiting, Backend, IInv, TypeOK
  <2>. QED
    BY <2>1, <2>2 DEF Numbered, RedisCounts, Decide, Exceeds
<1>3. /\ OutcomeOK' /\ NumbersDiffer'
      /\ tally'[r] = Tally(Redis, window[r], n)
      /\ \A q \in Request \ {r} : tally'[q] = tally[q]
  BY <1>2, NumberingOK
<1>4. redis'[Slot(r)] = n /\ \A e \in Window \X Key : redis'[e] \in Nat /\ redis[e] <= redis'[e]
  BY <1>1 DEF IInv, TypeOK
<1>5. ASSUME NEW q \in Request, Entered(q)'
      PROVE  Ahead(q)'
  <2>0. UNCHANGED <<now, boot, local, key>>
    BY DEF RedisCounts
  <2>1. CASE q = r
    <3>1. /\ tally'[q].by = Redis /\ tally'[q].minute = window[r]
          /\ tally'[q].number = n /\ n \in Nat
      BY <1>1, <1>3, <2>1 DEF Tally
    <3>2. redis'[<<tally'[q].minute, key'[q]>>] = n
      <4>1. <<tally'[q].minute, key'[q]>> = Slot(r)
        BY <2>0, <2>1, <3>1 DEF Slot
      <4>. QED
        BY <1>4, <4>1
    <3>. HIDE DEF n
    <3>. QED
      BY <3>1, <3>2, BackendsDiffer DEF Ahead
  <2>2. CASE q # r
    <3>1. Entered(q) /\ tally'[q] = tally[q]
      BY <1>3, <1>5, <2>2 DEF Entered
    <3>2. <<tally[q].minute, key[q]>> \in Window \X Key /\ tally[q].number \in Nat
      BY <3>1 DEF Entered, Tallies, IInv, TypeOK
    <3>3. Ahead(q)
      BY <3>1 DEF IInv, CountersAhead
    <3>4. /\ redis[<<tally[q].minute, key[q]>>] <= redis'[<<tally[q].minute, key[q]>>]
          /\ redis[<<tally[q].minute, key[q]>>] \in Nat
          /\ redis'[<<tally[q].minute, key[q]>>] \in Nat
      BY <1>4, <3>2 DEF IInv, TypeOK
    <3>. QED
      BY <2>0, <3>1, <3>2, <3>3, <3>4 DEF Ahead
  <2>. QED
    BY <2>1, <2>2
<1>. QED
  BY <1>3, <1>5 DEF Counting, CountersAhead

(* The step of a request that is counted by the table. *)
LEMMA LocalStep ==
    ASSUME IInv, NEW r \in Request, LocalCounts(r)
    PROVE  Counting'
<1>. DEFINE n == Counted(Cleaned, key[r]) + 1
<1>1. Bumped(r) /\ UNCHANGED <<now, boot, redis, key>>
  BY BucketCounts DEF IInv, LocalCounts
<1>2. n \in Nat \ {0} /\ now \in Nat /\ now \in Window /\ boot \in Boot
  BY <1>1 DEF Bumped, IInv, TypeOK, Window
<1>3. Numbered(r, Memory(boot), now, n)
  <2>1. ASSUME NEW q \in Request, Entered(q),
               tally[q].by = Memory(boot), tally[q].minute = now, key[q] = key[r]
        PROVE  tally[q].number < n
    <3>1. /\ key[r] \in DOMAIN local
          /\ local[key[r]].window = now
          /\ tally[q].number <= local[key[r]].count
      BY <2>1 DEF IInv, CountersAhead, Ahead
    <3>2. local[key[r]].count = Counted(Cleaned, key[r])
      BY <1>1, <3>1 DEF Bumped
    <3>3. tally[q].number \in Nat /\ Counted(Cleaned, key[r]) \in Nat
      BY <1>1, <2>1 DEF Entered, Tallies, Bumped
    <3>. QED
      BY <3>1, <3>2, <3>3
  <2>2. pc[r] \in Waiting /\ Memory(boot) \in Backend
    BY <1>2 DEF LocalCounts, Waiting, Backend
  <2>. QED
    BY <1>2, <2>1, <2>2 DEF Numbered, LocalCounts, Decide, Exceeds
<1>4. /\ OutcomeOK' /\ NumbersDiffer'
      /\ tally'[r] = Tally(Memory(boot), now, n)
      /\ \A q \in Request \ {r} : tally'[q] = tally[q]
  BY <1>3, NumberingOK
<1>5. ASSUME NEW q \in Request, Entered(q)'
      PROVE  Ahead(q)'
  <2>1. CASE q = r
    <3>1. /\ tally'[q].by = Memory(boot) /\ tally'[q].minute = now
          /\ tally'[q].number = n
      BY <1>4, <2>1 DEF Tally
    <3>2. /\ key[q] \in DOMAIN local' /\ local'[key[q]].window = now
          /\ local'[key[q]].count = n
      BY <1>1, <2>1 DEF Bumped
    <3>. HIDE DEF n
    <3>. QED
      BY <1>1, <1>2, <3>1, <3>2, BackendsDiffer DEF Ahead, Boot
  <2>2. CASE q # r
    <3>1. Entered(q) /\ tally'[q] = tally[q]
      BY <1>4, <1>5, <2>2 DEF Entered
    <3>2. Ahead(q) /\ tally[q].number \in Nat
      BY <3>1 DEF IInv, CountersAhead, Entered, Tallies
    <3>3. ASSUME tally[q].by = Memory(boot), tally[q].minute = now
          PROVE  /\ key[q] \in DOMAIN local' /\ local'[key[q]].window = now
                 /\ tally[q].number <= local'[key[q]].count
      <4>1. /\ key[q] \in DOMAIN local /\ local[key[q]].window = now
            /\ tally[q].number <= local[key[q]].count
        BY <3>2, <3>3 DEF Ahead
      <4>2. CASE key[q] = key[r]
        <5>1. local'[key[q]] = [window |-> now, count |-> n]
          BY <1>1, <4>2 DEF Bumped
        <5>2. /\ local[key[q]].count = Counted(Cleaned, key[r])
              /\ key[q] \in DOMAIN local'
          BY <1>1, <4>1, <4>2 DEF Bumped
        <5>3. Counted(Cleaned, key[r]) \in Nat
          BY <1>1 DEF Bumped
        <5>. QED
          BY <3>2, <4>1, <5>1, <5>2, <5>3
      <4>3. CASE key[q] # key[r]
        <5>1. key[q] \in DOMAIN Cleaned
          BY <1>2, <4>1, CleaningKeepsTheMinute
        <5>. QED
          BY <1>1, <4>1, <4>3, <5>1 DEF Bumped
      <4>. QED
        BY <4>2, <4>3
    <3>. QED
      BY <1>1, <3>1, <3>2, <3>3 DEF Ahead
  <2>. QED
    BY <2>1, <2>2
<1>. QED
  BY <1>4, <1>5 DEF Counting, CountersAhead

(* Every step keeps the counting right. *)
LEMMA CountingStep == IInv /\ [Next]_vars => Counting'
<1>. SUFFICES ASSUME IInv, [Next]_vars PROVE Counting'
  OBVIOUS
(* A step that numbers no request. *)
<1>1. ASSUME UNCHANGED <<tally, key>>,
             \A r \in Request : pc'[r] \in Outcome <=> pc[r] \in Outcome,
             \A r \in Request : pc'[r] = "passed" => pc[r] = "passed",
             \A r \in Request : Entered(r) => Ahead(r)'
      PROVE  Counting'
  BY <1>1 DEF IInv, Counting, OutcomeOK, CountersAhead, NumbersDiffer, Entered, SameCounter
<1>2. ASSUME NEW r \in Request, Arrive(r) \/ RedisFails(r)
      PROVE  Counting'
  <2>1. \A q \in Request : pc'[q] \in Outcome <=> pc[q] \in Outcome
    BY <1>2 DEF Arrive, RedisFails, Outcome, IInv, TypeOK
  <2>4. \A q \in Request : pc'[q] = "passed" => pc[q] = "passed"
    BY <1>2 DEF Arrive, RedisFails, IInv, TypeOK
  <2>2. UNCHANGED <<now, boot, redis, local, key, tally>>
    BY <1>2 DEF Arrive, RedisFails
  <2>3. \A q \in Request : Entered(q) => Ahead(q)'
    BY <2>2 DEF IInv, CountersAhead, Ahead
  <2>. QED
    BY <1>1, <2>1, <2>2, <2>3, <2>4
<1>3. ASSUME NEW r \in Request, RedisLosesAnswer(r)
      PROVE  Counting'
  <2>1. UNCHANGED <<now, boot, local, key, tally, pc>>
    BY <1>3 DEF RedisLosesAnswer
  <2>2. \A e \in Window \X Key : redis[e] \in Nat /\ redis'[e] \in Nat /\ redis[e] <= redis'[e]
    BY <1>3 DEF RedisLosesAnswer, IInv, TypeOK
  <2>3. ASSUME NEW q \in Request, Entered(q)
        PROVE  Ahead(q)'
    <3>1. <<tally[q].minute, key[q]>> \in Window \X Key /\ tally[q].number \in Nat
      BY <2>3 DEF Entered, Tallies, IInv, TypeOK
    <3>2. Ahead(q)
      BY <2>3 DEF IInv, CountersAhead
    <3>. QED
      BY <2>1, <2>2, <3>1, <3>2 DEF Ahead
  <2>. QED
    BY <1>1, <2>1, <2>3
<1>4. CASE Tick
  <2>1. UNCHANGED <<boot, redis, local, key, tally, pc>> /\ now' = now + 1 /\ now \in Nat
    BY <1>4 DEF Tick, IInv, TypeOK, Window
  <2>2. ASSUME NEW q \in Request, Entered(q)
        PROVE  Ahead(q)'
    <3>1. tally[q].minute \in Nat
      BY <2>2 DEF Entered, Tallies, Window
    <3>2. Ahead(q) /\ boot \in Boot
      BY <2>2 DEF IInv, CountersAhead, TypeOK
    <3>3. \A b \in Boot : tally[q].by = Memory(b) => b <= boot /\ tally[q].minute <= now
      BY <3>2 DEF Ahead
    <3>4. tally[q].by = Memory(boot) => tally[q].minute # now'
      BY <2>1, <3>1, <3>2, <3>3
    <3>. QED
      BY <2>1, <3>1, <3>2, <3>3, <3>4 DEF Ahead
  <2>. QED
    BY <1>1, <2>1, <2>2
<1>5. CASE Restart
  <2>1. /\ UNCHANGED <<now, redis, key, tally>>
        /\ boot' = boot + 1 /\ boot \in Nat /\ boot' \in Boot /\ boot \in Boot
    BY <1>5, LimiterConstants DEF Restart, IInv, TypeOK, Boot
  <2>2. \A q \in Request : pc'[q] \in Outcome <=> pc[q] \in Outcome
    BY <1>5 DEF Restart, Outcome, Waiting, IInv, TypeOK
  <2>4. \A q \in Request : pc'[q] = "passed" => pc[q] = "passed"
    BY <1>5 DEF Restart, Waiting, IInv, TypeOK
  <2>3. ASSUME NEW q \in Request, Entered(q)
        PROVE  Ahead(q)'
    <3>1. Ahead(q)
      BY <2>3 DEF IInv, CountersAhead
    <3>2. \A b \in Boot : tally[q].by = Memory(b) => b <= boot /\ tally[q].minute <= now
      BY <3>1 DEF Ahead
    <3>3. tally[q].by # Memory(boot')
      BY <2>1, <3>2
    <3>4. \A b \in Boot : b <= boot => b <= boot'
      BY <2>1 DEF Boot
    <3>. QED
      BY <2>1, <3>1, <3>2, <3>3, <3>4 DEF Ahead
  <2>. QED
    BY <1>1, <2>1, <2>2, <2>3, <2>4
<1>6. CASE UNCHANGED vars
  BY <1>6 DEF vars, IInv, Counting, OutcomeOK, CountersAhead, NumbersDiffer, Entered,
              SameCounter, Ahead
<1>. QED
  BY <1>2, <1>3, <1>4, <1>5, <1>6, RedisStep, LocalStep DEF Next, Serve

LEMMA IInvInductive == IInv /\ [Next]_vars => IInv'
BY TypesStep, TableStep, CountingStep DEF IInv, Counting

LEMMA AlwaysIInv == Spec => []IInv
<1>. QED
  BY InitInvariant, IInvInductive, PTL DEF Spec

-----------------------------------------------------------------------------
(* The passed requests of a counter have different numbers in 1..Limit: there *)
(* are at most Limit of them.                                                *)
LEMMA PassedWithinLimit == IInv => LimitPerCounter
<1>. SUFFICES ASSUME IInv, NEW b \in Backend, NEW w \in Window, NEW k \in Key
              PROVE  Cardinality({r \in CountedBy(b, w, k) : pc[r] = "passed"}) <= Limit
  BY DEF LimitPerCounter
<1>. DEFINE P == {r \in CountedBy(b, w, k) : pc[r] = "passed"}
            f == [r \in P |-> tally[r].number]
<1>1. ASSUME NEW r \in P
      PROVE  tally[r].number \in 1..Limit /\ Entered(r) /\ r \in Request
  <2>1. r \in Request /\ pc[r] = "passed"
    BY DEF CountedBy
  <2>2. Entered(r) /\ tally[r].number <= Limit
    BY <2>1 DEF IInv, OutcomeOK, Outcome
  <2>3. tally[r].number \in Nat \ {0}
    BY <2>2 DEF Entered, Tallies
  <2>. QED
    BY <2>1, <2>2, <2>3, LimiterConstants
<1>2. ASSUME NEW q \in P, NEW r \in P, q # r
      PROVE  tally[q].number # tally[r].number
  <2>1. SameCounter(q, r)
    BY DEF SameCounter, CountedBy
  <2>. QED
    BY <1>1, <1>2, <2>1 DEF IInv, NumbersDiffer
<1>3. f \in Injection(P, 1..Limit)
  <2>1. f \in [P -> 1..Limit]
    BY <1>1
  <2>2. \A q, r \in P : f[q] = f[r] => q = r
    BY <1>2
  <2>. HIDE DEF f, P
  <2>. QED
    BY <2>1, <2>2 DEF Injection, IsInjective
<1>4. IsFiniteSet(1..Limit) /\ Cardinality(1..Limit) = Limit
  BY FS_Interval, LimiterConstants
<1>. HIDE DEF f, P
<1>5. Cardinality(P) <= Cardinality(1..Limit)
  BY <1>3, <1>4, FS_Injection
<1>. QED
  BY <1>4, <1>5 DEF P

(* No counter ever lets more than Limit requests of a client and route        *)
(* through in a minute.                                                      *)
THEOREM LimitHolds == Spec => []LimitPerCounter
BY AlwaysIInv, PassedWithinLimit, PTL

(* Every reachable state is well typed: buckets, counts and the number of     *)
(* lost answers of a request stay in their ranges.                           *)
THEOREM LimiterTypes == Spec => []TypeOK
<1>1. IInv => TypeOK
  BY DEF IInv
<1>. QED
  BY <1>1, AlwaysIInv, PTL

(* A table above the size from which it is cleaned always holds buckets of    *)
(* one minute only.                                                          *)
THEOREM BigTablesAreFresh == Spec => []BigTableIsFresh
<1>1. IInv => BigTableIsFresh
  BY DEF IInv
<1>. QED
  BY <1>1, AlwaysIInv, PTL
-----------------------------------------------------------------------------
(* Who is refused. *)

(* What has used up counter b of minute w and key k: the requests counted    *)
(* there, and the attempts that Redis counted and did not answer.            *)
Volume(b, w, k) ==
    Cardinality(CountedBy(b, w, k)) + (IF b = Redis THEN Cardinality(LostAnswers(w, k)) ELSE 0)

(* So far only finitely many requests have been counted or lost an answer,   *)
(* however many there are.                                                   *)
FiniteSoFar ==
    /\ IsFiniteSet({r \in Request : Entered(r)})
    /\ IsFiniteSet({e \in Request \X (1..(Retries + 1)) : e[2] <= lost[e[1]]})

(* No counter, and no number given by one, is above its volume.              *)
VolumeInv ==
    /\ FiniteSoFar
    /\ \A w \in Window, k \in Key : redis[<<w, k>>] <= Volume(Redis, w, k)
    /\ \A k \in DOMAIN local : local[k].count <= Volume(Memory(boot), local[k].window, k)
    /\ \A r \in Request : Entered(r) =>
          tally[r].number <= Volume(tally[r].by, tally[r].minute, key[r])
    /\ \A r \in Request : pc[r] = "limited" => tally[r].number > Limit
    /\ \A r \in Request : pc[r] = "idle" => lost[r] = 0

LEMMA VolumeTypes ==
    ASSUME TypeOK, FiniteSoFar, NEW b \in Backend, NEW w, NEW k
    PROVE  /\ IsFiniteSet(CountedBy(b, w, k)) /\ Cardinality(CountedBy(b, w, k)) \in Nat
           /\ IsFiniteSet(LostAnswers(w, k)) /\ Cardinality(LostAnswers(w, k)) \in Nat
           /\ Volume(b, w, k) \in Nat
<1>1. NoTally.by \notin Backend
  BY DEF NoTally, Backend, Redis, Memory
<1>2. CountedBy(b, w, k) \subseteq {r \in Request : Entered(r)}
  BY <1>1 DEF CountedBy, Entered, TypeOK
<1>3. LostAnswers(w, k) \subseteq {e \in Request \X (1..(Retries + 1)) : e[2] <= lost[e[1]]}
  BY DEF LostAnswers
<1>4. IsFiniteSet(CountedBy(b, w, k)) /\ IsFiniteSet(LostAnswers(w, k))
  BY <1>2, <1>3, FS_Subset DEF FiniteSoFar
<1>5. Cardinality(CountedBy(b, w, k)) \in Nat /\ Cardinality(LostAnswers(w, k)) \in Nat
  BY <1>4, FS_CardinalityType
<1>. QED
  BY <1>4, <1>5 DEF Volume

LEMMA VolumeInit == Init => VolumeInv
<1>. SUFFICES ASSUME Init PROVE VolumeInv
  OBVIOUS
<1>1. IInv
  BY InitInvariant
<1>2. \A r \in Request : ~Entered(r)
  BY BackendsDiffer DEF Init, Entered
<1>3. {r \in Request : Entered(r)} = {}
  BY <1>2
<1>4. {e \in Request \X (1..(Retries + 1)) : e[2] <= lost[e[1]]} = {}
  BY LimiterConstants DEF Init
<1>5. FiniteSoFar
  BY <1>3, <1>4, FS_EmptySet DEF FiniteSoFar
<1>6. ASSUME NEW w \in Window, NEW k \in Key PROVE redis[<<w, k>>] <= Volume(Redis, w, k)
  <2>1. Volume(Redis, w, k) \in Nat
    BY <1>1, <1>5, VolumeTypes DEF IInv, Backend
  <2>. QED
    BY <2>1 DEF Init
<1>. QED
  BY <1>2, <1>5, <1>6 DEF Init, VolumeInv

(* A step that counts nobody. *)
LEMMA IdleVolume ==
    ASSUME TypeOK, VolumeInv, UNCHANGED <<redis, tally, key, lost>>,
           \A r \in Request : lost[r] = 0 \/ window'[r] = window[r],
           (local' = local /\ boot' = boot) \/ DOMAIN local' = {},
           \A r \in Request : /\ pc'[r] = "limited" => pc[r] = "limited"
                              /\ pc'[r] = "idle" => pc[r] = "idle"
    PROVE  VolumeInv'
<1>1. ASSUME NEW b, NEW w, NEW k
      PROVE  CountedBy(b, w, k)' = CountedBy(b, w, k)
  BY DEF CountedBy
<1>2. ASSUME NEW w, NEW k
      PROVE  LostAnswers(w, k)' = LostAnswers(w, k)
  <2>1. ASSUME NEW e \in Request \X (1..(Retries + 1)), e[2] <= lost[e[1]]
        PROVE  window'[e[1]] = window[e[1]]
    BY <2>1, LimiterConstants
  <2>. QED
    BY <2>1 DEF LostAnswers
<1>3. ASSUME NEW b, NEW w, NEW k
      PROVE  Volume(b, w, k)' = Volume(b, w, k)
  BY <1>1, <1>2 DEF Volume
<1>4. FiniteSoFar'
  BY DEF VolumeInv, FiniteSoFar, Entered
<1>5. \A w \in Window, k \in Key : (redis[<<w, k>>] <= Volume(Redis, w, k))'
  BY <1>3 DEF VolumeInv
<1>6. \A k \in DOMAIN local' : (local[k].count <= Volume(Memory(boot), local[k].window, k))'
  BY <1>3 DEF VolumeInv
<1>7. \A r \in Request : (Entered(r) =>
          tally[r].number <= Volume(tally[r].by, tally[r].minute, key[r]))'
  BY <1>3 DEF VolumeInv, Entered
<1>. QED
  BY <1>4, <1>5, <1>6, <1>7 DEF VolumeInv

(* Counting r adds one to the volume of its counter, and nothing to others.  *)
LEMMA NumberingVolume ==
    ASSUME IInv, VolumeInv, NEW r \in Request, NEW b \in Backend, NEW w \in Window,
           NEW n \in Nat \ {0}, Numbered(r, b, w, n), UNCHANGED <<window, lost>>,
           n <= Volume(b, w, key[r]) + 1
    PROVE  /\ FiniteSoFar'
           /\ \A c \in Backend : \A v, k :
                 /\ Volume(c, v, k) \in Nat /\ Volume(c, v, k)' \in Nat
                 /\ Volume(c, v, k)' >= Volume(c, v, k)
           /\ Volume(b, w, key[r])' = Volume(b, w, key[r]) + 1
           /\ \A q \in Request : (Entered(q) =>
                 tally[q].number <= Volume(tally[q].by, tally[q].minute, key[q]))'
           /\ \A q \in Request : (pc[q] = "limited" => tally[q].number > Limit)'
           /\ \A q \in Request : (pc[q] = "idle" => lost[q] = 0)'
<1>14. /\ ~Entered(r) /\ tally'[r] = Tally(b, w, n)
      /\ \A q \in Request \ {r} : tally'[q] = tally[q]
  BY NumberingOK
<1>15. /\ key' = key /\ pc'[r] = IF n > Limit THEN "limited" ELSE "passed"
      /\ \A q \in Request \ {r} : pc'[q] = pc[q]
  BY DEF Numbered, IInv, TypeOK
<1>1. /\ ~Entered(r) /\ tally'[r] = Tally(b, w, n) /\ key' = key
      /\ \A q \in Request \ {r} : tally'[q] = tally[q] /\ pc'[q] = pc[q]
      /\ pc'[r] = IF n > Limit THEN "limited" ELSE "passed"
  BY <1>14, <1>15
<1>2. /\ Tally(b, w, n) \in Tallies
      /\ Tally(b, w, n).by = b /\ Tally(b, w, n).minute = w /\ Tally(b, w, n).number = n
  BY DEF Tally, Tallies
<1>3. tally[r].by \notin Backend
  BY <1>1 DEF Entered, IInv, TypeOK, NoTally, Backend, Redis, Memory
<1>4. ASSUME NEW c \in Backend, NEW v, NEW k
      PROVE  /\ r \notin CountedBy(c, v, k)
             /\ CountedBy(c, v, k)' = IF c = b /\ v = w /\ k = key[r]
                                      THEN CountedBy(c, v, k) \cup {r}
                                      ELSE CountedBy(c, v, k)
  <2>1. r \notin CountedBy(c, v, k)
    BY <1>3 DEF CountedBy
  <2>2. CountedBy(c, v, k)' =
           {q \in Request : tally'[q].by = c /\ tally'[q].minute = v /\ key[q] = k}
    BY <1>1 DEF CountedBy
  <2>3. ASSUME NEW q \in Request
        PROVE  q \in CountedBy(c, v, k)' <=>
                  q \in CountedBy(c, v, k) \/ (q = r /\ c = b /\ v = w /\ k = key[r])
    <3>1. CASE q = r
      BY <1>1, <1>2, <2>1, <2>2, <3>1
    <3>2. CASE q # r
      BY <1>1, <2>2, <3>2 DEF CountedBy
    <3>. QED
      BY <3>1, <3>2
  <2>4. CountedBy(c, v, k) \subseteq Request /\ CountedBy(c, v, k)' \subseteq Request
    BY <2>2 DEF CountedBy
  <2>. QED
    BY <2>1, <2>3, <2>4
<1>5. ASSUME NEW v, NEW k PROVE LostAnswers(v, k)' = LostAnswers(v, k)
  BY <1>1 DEF LostAnswers
<1>6. FiniteSoFar'
  <2>1. {q \in Request : Entered(q)'} = {q \in Request : Entered(q)} \cup {r}
    BY <1>1, <1>2 DEF Entered
  <2>2. IsFiniteSet({q \in Request : Entered(q)'})
    BY <2>1, FS_AddElement DEF VolumeInv, FiniteSoFar
  <2>. QED
    BY <2>2 DEF VolumeInv, FiniteSoFar
<1>7. ASSUME NEW c \in Backend, NEW v, NEW k
      PROVE  /\ Volume(c, v, k) \in Nat /\ Volume(c, v, k)' \in Nat
             /\ Volume(c, v, k)' >= Volume(c, v, k)
             /\ c = b /\ v = w /\ k = key[r] => Volume(c, v, k)' = Volume(c, v, k) + 1
  <2>1. /\ IsFiniteSet(CountedBy(c, v, k)) /\ Cardinality(CountedBy(c, v, k)) \in Nat
        /\ Cardinality(LostAnswers(v, k)) \in Nat /\ Volume(c, v, k) \in Nat
    BY VolumeTypes DEF IInv, VolumeInv
  <2>2. Cardinality(CountedBy(c, v, k) \cup {r}) = Cardinality(CountedBy(c, v, k)) + 1
    BY <1>4, <2>1, FS_AddElement
  <2>3. CASE c = b /\ v = w /\ k = key[r]
    <3>1. Cardinality(CountedBy(c, v, k)') = Cardinality(CountedBy(c, v, k)) + 1
      BY <1>4, <2>2, <2>3
    <3>2. Volume(c, v, k)' = Volume(c, v, k) + 1
      BY <1>5, <2>1, <3>1 DEF Volume
    <3>. QED
      BY <2>1, <3>2
  <2>4. CASE ~(c = b /\ v = w /\ k = key[r])
    <3>1. CountedBy(c, v, k)' = CountedBy(c, v, k)
      BY <1>4, <2>4
    <3>2. Volume(c, v, k)' = Volume(c, v, k)
      BY <1>5, <3>1 DEF Volume
    <3>. QED
      BY <2>1, <2>4, <3>2
  <2>. QED
    BY <2>3, <2>4
<1>8. PICK k : k = key[r]
  OBVIOUS
<1>9. Volume(b, w, k)' = Volume(b, w, k) + 1 /\ Volume(b, w, k) \in Nat
  BY <1>7, <1>8
<1>10. Volume(b, w, key[r])' = Volume(b, w, k)' /\ Volume(b, w, key[r]) = Volume(b, w, k)
  BY <1>1, <1>8 DEF Volume, CountedBy, LostAnswers
<1>11. ASSUME NEW q \in Request, Entered(q)'
       PROVE  tally'[q].number <= Volume(tally[q].by, tally[q].minute, key[q])'
  <2>1. CASE q = r
    <3>1. Volume(tally[q].by, tally[q].minute, key[q])' = Volume(b, w, k)'
      BY <1>1, <1>2, <1>8, <2>1 DEF Volume, CountedBy, LostAnswers
    <3>. QED
      BY <1>1, <1>2, <1>9, <1>10, <2>1, <3>1
  <2>2. CASE q # r
    <3>1. PICK t, j : t = tally[q] /\ j = key[q]
      OBVIOUS
    <3>2. /\ tally'[q] = t /\ key'[q] = j /\ t \in Tallies /\ Entered(q)
      BY <1>1, <1>11, <2>2, <3>1 DEF Entered
    <3>3. t.number <= Volume(t.by, t.minute, j)
      BY <3>1, <3>2 DEF VolumeInv
    <3>4. t.by \in Backend /\ t.number \in Nat
      BY <3>2 DEF Tallies
    <3>5. t.number <= Volume(t.by, t.minute, j)'
      BY <1>7, <3>3, <3>4
    <3>6. Volume(tally[q].by, tally[q].minute, key[q])' = Volume(t.by, t.minute, j)'
      BY <3>2 DEF Volume, CountedBy, LostAnswers
    <3>. QED
      BY <3>2, <3>5, <3>6
  <2>. QED
    BY <2>1, <2>2
<1>12. \A q \in Request : (pc[q] = "limited" => tally[q].number > Limit)'
  BY <1>1, <1>2 DEF VolumeInv
<1>13. \A q \in Request : (pc[q] = "idle" => lost[q] = 0)'
  BY <1>1 DEF VolumeInv
<1>. QED
  BY <1>6, <1>7, <1>9, <1>10, <1>11, <1>12, <1>13

LEMMA RedisVolume ==
    ASSUME IInv, VolumeInv, NEW r \in Request, RedisCounts(r)
    PROVE  VolumeInv'
<1>. DEFINE n == redis[Slot(r)] + 1
<1>1. /\ window[r] \in Window /\ key[r] \in Key /\ Slot(r) = <<window[r], key[r]>>
      /\ redis[Slot(r)] \in Nat /\ Redis \in Backend
      /\ redis' = [redis EXCEPT ![Slot(r)] = n]
      /\ UNCHANGED <<now, boot, local, key, window, lost>>
  BY DEF RedisCounts, Slot, IInv, TypeOK, Backend
<1>2. Numbered(r, Redis, window[r], n)
  <2>1. \A q \in Request :
          Entered(q) /\ tally[q].by = Redis /\ tally[q].minute = window[r] /\ key[q] = key[r]
             => tally[q].number < n
    BY <1>1 DEF IInv, CountersAhead, Ahead, Entered, Tallies
  <2>2. pc[r] \in Waiting /\ n \in Nat \ {0}
    BY <1>1 DEF RedisCounts, MayAttempt, Waiting
  <2>. QED
    BY <1>1, <2>1, <2>2 DEF Numbered, RedisCounts, Decide, Exceeds
<1>3. PICK w, k : w = window[r] /\ k = key[r]
  OBVIOUS
<1>4. n \in Nat \ {0} /\ n <= Volume(Redis, w, key[r]) + 1 /\ w \in Window
  <2>1. redis[<<w, k>>] <= Volume(Redis, w, k) /\ Volume(Redis, w, k) \in Nat
    BY <1>1, <1>3, VolumeTypes DEF VolumeInv, IInv
  <2>. QED
    BY <1>1, <1>3, <2>1
<1>5. /\ FiniteSoFar'
      /\ \A c \in Backend : \A v, j :
            /\ Volume(c, v, j) \in Nat /\ Volume(c, v, j)' \in Nat
            /\ Volume(c, v, j)' >= Volume(c, v, j)
      /\ Volume(Redis, w, key[r])' = Volume(Redis, w, key[r]) + 1
      /\ \A q \in Request : (Entered(q) =>
            tally[q].number <= Volume(tally[q].by, tally[q].minute, key[q]))'
      /\ \A q \in Request : (pc[q] = "limited" => tally[q].number > Limit)'
      /\ \A q \in Request : (pc[q] = "idle" => lost[q] = 0)'
  BY <1>1, <1>2, <1>3, <1>4, NumberingVolume
<1>6. ASSUME NEW v \in Window, NEW j \in Key
      PROVE  (redis[<<v, j>>] <= Volume(Redis, v, j))'
  <2>1. redis[<<v, j>>] \in Nat /\ redis[<<v, j>>] <= Volume(Redis, v, j)
    BY DEF VolumeInv, IInv, TypeOK
  <2>2. Volume(Redis, v, j) \in Nat /\ Volume(Redis, v, j)' \in Nat /\ Volume(Redis, v, j)' >= Volume(Redis, v, j)
    BY <1>1, <1>5
  <2>3. CASE <<v, j>> = <<w, k>>
    <3>1. redis'[<<v, j>>] = redis[<<v, j>>] + 1
      BY <1>1, <1>3, <2>3 DEF IInv, TypeOK
    <3>2. Volume(Redis, w, key[r])' = Volume(Redis, v, j)' /\ Volume(Redis, w, key[r]) = Volume(Redis, v, j)
      BY <1>1, <1>3, <2>3 DEF Volume, CountedBy, LostAnswers
    <3>. QED
      BY <1>5, <2>1, <2>2, <3>1, <3>2
  <2>4. CASE <<v, j>> # <<w, k>>
    <3>1. redis'[<<v, j>>] = redis[<<v, j>>]
      BY <1>1, <1>3, <2>4 DEF IInv, TypeOK
    <3>. QED
      BY <2>1, <2>2, <3>1
  <2>. QED
    BY <2>3, <2>4
<1>7. ASSUME NEW j \in DOMAIN local'
      PROVE  (local[j].count <= Volume(Memory(boot), local[j].window, j))'
  <2>1. PICK b, v : b = Memory(boot) /\ v = local[j].window
    OBVIOUS
  <2>2. b \in Backend /\ local[j].count \in Nat /\ local[j].count <= Volume(b, v, j)
    BY <1>1, <2>1 DEF VolumeInv, IInv, TypeOK, Backend, Bucket
  <2>3. local[j].count <= Volume(b, v, j)'
    BY <1>5, <2>2
  <2>4. Volume(Memory(boot), local[j].window, j)' = Volume(b, v, j)'
    BY <1>1, <2>1 DEF Volume, CountedBy, LostAnswers
  <2>. QED
    BY <1>1, <2>3, <2>4
<1>. QED
  BY <1>5, <1>6, <1>7 DEF VolumeInv

LEMMA LocalVolume ==
    ASSUME IInv, VolumeInv, NEW r \in Request, LocalCounts(r)
    PROVE  VolumeInv'
<1>. DEFINE n == Counted(Cleaned, key[r]) + 1
<1>1. Bumped(r) /\ UNCHANGED <<now, boot, redis, key, window, lost>>
  BY BucketCounts DEF IInv, LocalCounts
<1>2. n \in Nat \ {0} /\ now \in Window /\ boot \in Boot /\ Memory(boot) \in Backend
  BY <1>1 DEF Bumped, IInv, TypeOK, Backend
<1>3. Numbered(r, Memory(boot), now, n)
  <2>1. ASSUME NEW q \in Request, Entered(q),
               tally[q].by = Memory(boot), tally[q].minute = now, key[q] = key[r]
        PROVE  tally[q].number < n
    <3>1. /\ key[r] \in DOMAIN local
          /\ local[key[r]].window = now
          /\ tally[q].number <= local[key[r]].count
      BY <2>1 DEF IInv, CountersAhead, Ahead
    <3>2. local[key[r]].count = Counted(Cleaned, key[r])
      BY <1>1, <3>1 DEF Bumped
    <3>3. tally[q].number \in Nat /\ Counted(Cleaned, key[r]) \in Nat
      BY <1>1, <2>1 DEF Entered, Tallies, Bumped
    <3>. QED
      BY <3>1, <3>2, <3>3
  <2>2. pc[r] \in Waiting
    BY DEF LocalCounts, Waiting
  <2>. QED
    BY <1>2, <2>1, <2>2 DEF Numbered, LocalCounts, Decide, Exceeds
<1>4. PICK b, w, k : b = Memory(boot) /\ w = now /\ k = key[r]
  OBVIOUS
<1>5. b \in Backend /\ w \in Window /\ Volume(b, w, k) \in Nat
  BY <1>2, <1>4, VolumeTypes DEF IInv, VolumeInv
<1>6. n <= Volume(b, w, key[r]) + 1
  <2>1. CASE k \in DOMAIN Cleaned /\ Cleaned[k].window = now
    <3>1. k \in DOMAIN local /\ local[k].window = now /\ local[k].count = Counted(Cleaned, k)
      BY <1>1, <1>4, <2>1, CleaningKeepsTheMinute DEF Bumped
    <3>2. local[k].count <= Volume(b, w, k) /\ local[k].count \in Nat
      BY <1>4, <3>1 DEF VolumeInv, IInv, TypeOK, Bucket
    <3>. QED
      BY <1>4, <1>5, <3>1, <3>2
  <2>2. CASE ~(k \in DOMAIN Cleaned /\ Cleaned[k].window = now)
    BY <1>4, <1>5, <2>2 DEF Counted
  <2>. QED
    BY <2>1, <2>2
<1>7. /\ FiniteSoFar'
      /\ \A c \in Backend : \A v, j :
            /\ Volume(c, v, j) \in Nat /\ Volume(c, v, j)' \in Nat
            /\ Volume(c, v, j)' >= Volume(c, v, j)
      /\ Volume(b, w, key[r])' = Volume(b, w, key[r]) + 1
      /\ \A q \in Request : (Entered(q) =>
            tally[q].number <= Volume(tally[q].by, tally[q].minute, key[q]))'
      /\ \A q \in Request : (pc[q] = "limited" => tally[q].number > Limit)'
      /\ \A q \in Request : (pc[q] = "idle" => lost[q] = 0)'
  BY <1>1, <1>2, <1>3, <1>4, <1>5, <1>6, NumberingVolume
<1>8. ASSUME NEW v \in Window, NEW j \in Key
      PROVE  (redis[<<v, j>>] <= Volume(Redis, v, j))'
  <2>1. redis[<<v, j>>] \in Nat /\ redis[<<v, j>>] <= Volume(Redis, v, j) /\ Redis \in Backend
    BY DEF VolumeInv, IInv, TypeOK, Backend
  <2>. QED
    BY <1>1, <1>7, <2>1
<1>9. ASSUME NEW j \in DOMAIN local'
      PROVE  (local[j].count <= Volume(Memory(boot), local[j].window, j))'
  <2>1. CASE j = k
    <3>1. local'[j].window = w /\ local'[j].count = n
      BY <1>1, <1>4, <2>1 DEF Bumped
    <3>2. Volume(Memory(boot), local[j].window, j)' = Volume(b, w, k)'
      BY <1>1, <1>4, <2>1, <3>1 DEF Volume, CountedBy, LostAnswers
    <3>3. /\ Volume(b, w, key[r])' = Volume(b, w, k)'
          /\ Volume(b, w, key[r]) = Volume(b, w, k)
      BY <1>1, <1>4 DEF Volume, CountedBy, LostAnswers
    <3>. HIDE DEF n
    <3>. QED
      BY <1>6, <1>7, <3>1, <3>2, <3>3
  <2>2. CASE j # k
    <3>1. j \in DOMAIN local /\ local'[j] = local[j]
      BY <1>1, <1>4, <2>2, CleaningKeepsTheMinute DEF Bumped
    <3>2. PICK v : v = local[j].window
      OBVIOUS
    <3>3. local[j].count \in Nat /\ local[j].count <= Volume(b, v, j)
      BY <1>4, <3>1, <3>2 DEF VolumeInv, IInv, TypeOK, Bucket
    <3>4. local[j].count <= Volume(b, v, j)'
      BY <1>5, <1>7, <3>3
    <3>5. Volume(Memory(boot), local[j].window, j)' = Volume(b, v, j)'
      BY <1>1, <1>4, <3>1, <3>2 DEF Volume, CountedBy, LostAnswers
    <3>. QED
      BY <3>1, <3>4, <3>5
  <2>. QED
    BY <2>1, <2>2
<1>. QED
  BY <1>7, <1>8, <1>9 DEF VolumeInv

(* An attempt without an answer adds one to the volume as well.              *)
LEMMA LostVolume ==
    ASSUME IInv, VolumeInv, NEW r \in Request, RedisLosesAnswer(r)
    PROVE  VolumeInv'
<1>1. /\ window[r] \in Window /\ key[r] \in Key /\ Slot(r) = <<window[r], key[r]>>
      /\ redis[Slot(r)] \in Nat /\ Redis \in Backend /\ lost[r] \in Nat
      /\ lost[r] + 1 \in 1..(Retries + 1)
      /\ redis' = [redis EXCEPT ![Slot(r)] = redis[Slot(r)] + 1]
      /\ lost' = [lost EXCEPT ![r] = lost[r] + 1]
      /\ UNCHANGED <<now, boot, local, pc, key, window, tally>>
  BY LimiterConstants DEF RedisLosesAnswer, MayAttempt, Slot, IInv, TypeOK, Backend
<1>2. PICK w, k, e : w = window[r] /\ k = key[r] /\ e = <<r, lost[r] + 1>>
  OBVIOUS
<1>3. ASSUME NEW c, NEW v, NEW j PROVE CountedBy(c, v, j)' = CountedBy(c, v, j)
  BY <1>1 DEF CountedBy
<1>4. ASSUME NEW f \in Request \X (1..(Retries + 1))
      PROVE  f[2] <= lost'[f[1]] <=> f[2] <= lost[f[1]] \/ f = e
  <2>1. lost[f[1]] \in Nat /\ f[2] \in Nat
    BY LimiterConstants DEF IInv, TypeOK
  <2>2. CASE f[1] = r
    <3>1. lost'[f[1]] = lost[r] + 1
      BY <1>1, <2>2 DEF IInv, TypeOK
    <3>2. f = e <=> f[2] = lost[r] + 1
      BY <1>2, <2>2
    <3>. QED
      BY <1>1, <2>1, <2>2, <3>1, <3>2
  <2>3. CASE f[1] # r
    BY <1>1, <1>2, <2>3 DEF IInv, TypeOK
  <2>. QED
    BY <2>2, <2>3
<1>5. ASSUME NEW v, NEW j
      PROVE  /\ e \notin LostAnswers(v, j)
             /\ LostAnswers(v, j)' = IF v = w /\ j = k THEN LostAnswers(v, j) \cup {e}
                                     ELSE LostAnswers(v, j)
  <2>1. LostAnswers(v, j)' = {f \in Request \X (1..(Retries + 1)) :
                                 key[f[1]] = j /\ window[f[1]] = v /\ f[2] <= lost'[f[1]]}
    BY <1>1 DEF LostAnswers
  <2>2. ~(e[2] <= lost[e[1]]) /\ e \in Request \X (1..(Retries + 1)) /\ e[1] = r
    BY <1>1, <1>2
  <2>. QED
    BY <1>2, <1>4, <2>1, <2>2 DEF LostAnswers
<1>6. FiniteSoFar'
  <2>. DEFINE A == {f \in Request \X (1..(Retries + 1)) : f[2] <= lost[f[1]]}
              B == {f \in Request \X (1..(Retries + 1)) : f[2] <= lost'[f[1]]}
  <2>1. B \subseteq A \cup {e}
    BY <1>4
  <2>2. IsFiniteSet(A)
    BY DEF VolumeInv, FiniteSoFar
  <2>. HIDE DEF A, B
  <2>3. IsFiniteSet(B)
    BY <2>1, <2>2, FS_AddElement, FS_Subset
  <2>. QED
    BY <1>1, <2>3 DEF B, VolumeInv, FiniteSoFar, Entered
<1>7. ASSUME NEW c \in Backend, NEW v, NEW j
      PROVE  /\ Volume(c, v, j) \in Nat /\ Volume(c, v, j)' \in Nat
             /\ Volume(c, v, j)' >= Volume(c, v, j)
             /\ c = Redis /\ v = w /\ j = k => Volume(c, v, j)' = Volume(c, v, j) + 1
  <2>1. /\ IsFiniteSet(LostAnswers(v, j)) /\ Cardinality(LostAnswers(v, j)) \in Nat
        /\ Cardinality(CountedBy(c, v, j)) \in Nat /\ Volume(c, v, j) \in Nat
    BY VolumeTypes DEF IInv, VolumeInv
  <2>2. Cardinality(LostAnswers(v, j) \cup {e}) = Cardinality(LostAnswers(v, j)) + 1
    BY <1>5, <2>1, FS_AddElement
  <2>3. CASE v = w /\ j = k
    <3>1. Cardinality(LostAnswers(v, j)') = Cardinality(LostAnswers(v, j)) + 1
      BY <1>5, <2>2, <2>3
    <3>2. Volume(c, v, j)' = Volume(c, v, j) + (IF c = Redis THEN 1 ELSE 0)
      BY <1>3, <2>1, <3>1 DEF Volume
    <3>. QED
      BY <2>1, <3>2
  <2>4. CASE ~(v = w /\ j = k)
    <3>1. Volume(c, v, j)' = Volume(c, v, j)
      BY <1>3, <1>5, <2>4 DEF Volume
    <3>. QED
      BY <2>1, <2>4, <3>1
  <2>. QED
    BY <2>3, <2>4
<1>8. ASSUME NEW v \in Window, NEW j \in Key
      PROVE  (redis[<<v, j>>] <= Volume(Redis, v, j))'
  <2>1. redis[<<v, j>>] \in Nat /\ redis[<<v, j>>] <= Volume(Redis, v, j)
    BY DEF VolumeInv, IInv, TypeOK
  <2>2. /\ Volume(Redis, v, j) \in Nat /\ Volume(Redis, v, j)' \in Nat
        /\ Volume(Redis, v, j)' >= Volume(Redis, v, j)
        /\ v = w /\ j = k => Volume(Redis, v, j)' = Volume(Redis, v, j) + 1
    BY <1>1, <1>7
  <2>3. redis'[<<v, j>>] = IF v = w /\ j = k THEN redis[<<v, j>>] + 1 ELSE redis[<<v, j>>]
    BY <1>1, <1>2 DEF IInv, TypeOK
  <2>. QED
    BY <2>1, <2>2, <2>3
<1>9. ASSUME NEW j \in DOMAIN local'
      PROVE  (local[j].count <= Volume(Memory(boot), local[j].window, j))'
  <2>1. PICK b, v : b = Memory(boot) /\ v = local[j].window
    OBVIOUS
  <2>2. b \in Backend /\ local[j].count \in Nat /\ local[j].count <= Volume(b, v, j)
    BY <1>1, <2>1 DEF VolumeInv, IInv, TypeOK, Backend, Bucket
  <2>3. local[j].count <= Volume(b, v, j)'
    BY <1>7, <2>2
  <2>4. Volume(Memory(boot), local[j].window, j)' = Volume(b, v, j)'
    BY <1>1, <2>1 DEF Volume, CountedBy, LostAnswers
  <2>. QED
    BY <1>1, <2>3, <2>4
<1>10. ASSUME NEW q \in Request, Entered(q)'
       PROVE  (tally[q].number <= Volume(tally[q].by, tally[q].minute, key[q]))'
  <2>1. PICK t, j : t = tally[q] /\ j = key[q]
    OBVIOUS
  <2>2. t \in Tallies /\ t.number <= Volume(t.by, t.minute, j)
    BY <1>1, <1>10, <2>1 DEF VolumeInv, Entered
  <2>3. t.by \in Backend /\ t.number \in Nat
    BY <2>2 DEF Tallies
  <2>4. t.number <= Volume(t.by, t.minute, j)'
    BY <1>7, <2>2, <2>3
  <2>5. Volume(tally[q].by, tally[q].minute, key[q])' = Volume(t.by, t.minute, j)'
    BY <1>1, <2>1 DEF Volume, CountedBy, LostAnswers
  <2>. QED
    BY <1>1, <2>1, <2>4, <2>5
<1>11. \A q \in Request : (pc[q] = "idle" => lost[q] = 0)'
  BY <1>1 DEF VolumeInv, RedisLosesAnswer, MayAttempt
<1>12. \A q \in Request : (pc[q] = "limited" => tally[q].number > Limit)'
  BY <1>1 DEF VolumeInv
<1>. QED
  BY <1>6, <1>8, <1>9, <1>10, <1>11, <1>12 DEF VolumeInv

LEMMA VolumeStep == IInv /\ VolumeInv /\ [Next]_vars => VolumeInv'
<1>. SUFFICES ASSUME IInv, VolumeInv, [Next]_vars PROVE VolumeInv'
  OBVIOUS
<1>0. TypeOK
  BY DEF IInv
<1>1. ASSUME NEW r \in Request, Arrive(r)
      PROVE  VolumeInv'
  <2>1. \A q \in Request : lost[q] = 0 \/ window'[q] = window[q]
    BY <1>1 DEF Arrive, VolumeInv, IInv, TypeOK
  <2>2. \A q \in Request : /\ pc'[q] = "limited" => pc[q] = "limited"
                           /\ pc'[q] = "idle" => pc[q] = "idle"
    BY <1>1 DEF Arrive, IInv, TypeOK
  <2>. QED
    BY <1>0, <1>1, <2>1, <2>2, IdleVolume DEF Arrive
<1>2. ASSUME NEW r \in Request, RedisFails(r)
      PROVE  VolumeInv'
  <2>1. \A q \in Request : /\ pc'[q] = "limited" => pc[q] = "limited"
                           /\ pc'[q] = "idle" => pc[q] = "idle"
    BY <1>2 DEF RedisFails, IInv, TypeOK
  <2>. QED
    BY <1>0, <1>2, <2>1, IdleVolume DEF RedisFails
<1>3. CASE Tick
  BY <1>0, <1>3, IdleVolume DEF Tick
<1>4. CASE Restart
  <2>1. \A q \in Request : /\ pc'[q] = "limited" => pc[q] = "limited"
                           /\ pc'[q] = "idle" => pc[q] = "idle"
    BY <1>4 DEF Restart, Waiting
  <2>2. DOMAIN local' = {}
    BY <1>4 DEF Restart
  <2>. QED
    BY <1>0, <1>4, <2>1, <2>2, IdleVolume DEF Restart
<1>5. CASE UNCHANGED vars
  BY <1>0, <1>5, IdleVolume DEF vars
<1>. QED
  BY <1>1, <1>2, <1>3, <1>4, <1>5, RedisVolume, LocalVolume, LostVolume DEF Next, Serve

(* A request is refused only when its counter has counted Limit other        *)
(* requests of its client, route and minute, or attempts whose answer was    *)
(* lost (ratelimit.go:37-83): no race makes anybody pay for someone else.    *)
THEOREM OnlyFullCountersRefuse == Spec => []LimitedOnlyWhenFull
<1>1. ASSUME IInv, VolumeInv, NEW r \in Request, pc[r] = "limited"
      PROVE  LET t == tally[r] IN
             Cardinality(CountedBy(t.by, t.minute, key[r]) \ {r})
                 + (IF t.by = Redis THEN Cardinality(LostAnswers(t.minute, key[r])) ELSE 0)
             >= Limit
  <2>1. PICK t, k : t = tally[r] /\ k = key[r]
    OBVIOUS
  <2>2. t \in Tallies /\ t.number > Limit /\ t.number <= Volume(t.by, t.minute, k)
    BY <1>1, <2>1 DEF IInv, OutcomeOK, Outcome, VolumeInv, Entered
  <2>3. t.by \in Backend /\ t.number \in Nat
    BY <2>2 DEF Tallies
  <2>4. /\ IsFiniteSet(CountedBy(t.by, t.minute, k)) /\ Cardinality(CountedBy(t.by, t.minute, k)) \in Nat
        /\ Cardinality(LostAnswers(t.minute, k)) \in Nat
    BY <1>1, <2>3, VolumeTypes DEF IInv, VolumeInv
  <2>5. r \in CountedBy(t.by, t.minute, k)
    BY <2>1 DEF CountedBy
  <2>6. Cardinality(CountedBy(t.by, t.minute, k) \ {r}) = Cardinality(CountedBy(t.by, t.minute, k)) - 1
    BY <2>4, <2>5, FS_RemoveElement
  <2>7. Cardinality(CountedBy(t.by, t.minute, k) \ {r})
            + (IF t.by = Redis THEN Cardinality(LostAnswers(t.minute, k)) ELSE 0) >= Limit
    BY <2>2, <2>3, <2>4, <2>6, LimiterConstants DEF Volume
  <2>. QED
    BY <2>1, <2>7
<1>2. IInv /\ VolumeInv => LimitedOnlyWhenFull
  BY <1>1 DEF LimitedOnlyWhenFull
<1>. QED
  BY <1>2, AlwaysIInv, VolumeInit, VolumeStep, PTL DEF Spec

(* The requests of client and route k that passed in minute w, by whichever  *)
(* counter.                                                                  *)
PassedIn(w, k) == {r \in Request : pc[r] = "passed" /\ tally[r].minute = w /\ key[r] = k}

(* A client passes at most Limit requests of a route in a minute by Redis,   *)
(* and Limit more by each life the process has had so far: an outage of      *)
(* Redis at most doubles its share, and each restart adds one                *)
(* (ratelimit.go:37-83).                                                     *)
LimitPerClient ==
    \A w \in Window, k \in Key : Cardinality(PassedIn(w, k)) <= (boot + 2) * Limit

(* The counters that a client can have met, numbered: Redis, then the lives. *)
CounterNumber(b) == IF b = Redis THEN 0 ELSE b[2] + 1

LEMMA CountersAreNumbered ==
    ASSUME IInv, NEW r \in Request, pc[r] = "passed"
    PROVE  /\ CounterNumber(tally[r].by) \in 0..(boot + 1)
           /\ \/ tally[r].by = Redis /\ CounterNumber(tally[r].by) = 0
              \/ /\ CounterNumber(tally[r].by) > 0
                 /\ tally[r].by = Memory(CounterNumber(tally[r].by) - 1)
           /\ tally[r].number \in 1..Limit
           /\ Entered(r)
<1>1. /\ Entered(r) /\ Ahead(r) /\ tally[r].number <= Limit
      /\ tally[r].number \in Nat \ {0} /\ tally[r].by \in Backend
  BY DEF IInv, OutcomeOK, Outcome, CountersAhead, Entered, Tallies
<1>2. boot \in Nat
  BY DEF IInv, TypeOK, Boot
<1>3. CASE tally[r].by = Redis
  BY <1>1, <1>2, <1>3, LimiterConstants DEF CounterNumber
<1>4. ASSUME NEW b \in Boot, tally[r].by = Memory(b)
      PROVE  CounterNumber(tally[r].by) = b + 1 /\ b \in 0..boot
  <2>1. b <= boot /\ b \in Nat
    BY <1>1, <1>4 DEF Ahead, Boot
  <2>2. Memory(b) # Redis
    BY BackendsDiffer
  <2>. QED
    BY <1>2, <1>4, <2>1, <2>2 DEF CounterNumber, Memory
<1>. QED
  BY <1>1, <1>2, <1>3, <1>4, LimiterConstants DEF Backend, Boot

(* The counter and the number a request was given there tell the requests of *)
(* a client, route and minute apart.                                         *)
THEOREM ClientsAreLimited == Spec => []LimitPerClient
<1>1. ASSUME IInv, NEW w \in Window, NEW k \in Key
      PROVE  Cardinality(PassedIn(w, k)) <= (boot + 2) * Limit
  <2>. DEFINE P == PassedIn(w, k)
              T == (0..(boot + 1)) \X (1..Limit)
              f == [r \in P |-> <<CounterNumber(tally[r].by), tally[r].number>>]
  <2>1. \A r \in P : r \in Request /\ pc[r] = "passed"
    BY DEF PassedIn
  <2>2. f \in [P -> T]
    BY <1>1, <2>1, CountersAreNumbered
  <2>3. ASSUME NEW q \in P, NEW r \in P, f[q] = f[r]
        PROVE  q = r
    <3>1. /\ CounterNumber(tally[q].by) = CounterNumber(tally[r].by)
          /\ tally[q].number = tally[r].number
      BY <2>3
    <3>2. tally[q].by = tally[r].by
      <4>1. PICK b, c : b = tally[q].by /\ c = tally[r].by
        OBVIOUS
      <4>2. /\ CounterNumber(b) = CounterNumber(c)
            /\ CounterNumber(b) \in Int /\ CounterNumber(c) \in Int
            /\ \/ b = Redis /\ CounterNumber(b) = 0
               \/ CounterNumber(b) > 0 /\ b = Memory(CounterNumber(b) - 1)
            /\ \/ c = Redis /\ CounterNumber(c) = 0
               \/ CounterNumber(c) > 0 /\ c = Memory(CounterNumber(c) - 1)
        BY <1>1, <2>1, <3>1, <4>1, CountersAreNumbered
      <4>. QED
        BY <4>1, <4>2
    <3>3. SameCounter(q, r)
      BY <3>2 DEF SameCounter, PassedIn
    <3>. QED
      BY <1>1, <2>1, <3>1, <3>3, CountersAreNumbered DEF IInv, NumbersDiffer
  <2>4. /\ IsFiniteSet(0..(boot + 1)) /\ Cardinality(0..(boot + 1)) = boot + 2
        /\ IsFiniteSet(1..Limit) /\ Cardinality(1..Limit) = Limit
    BY <1>1, FS_Interval, LimiterConstants DEF IInv, TypeOK, Boot
  <2>5. IsFiniteSet(T) /\ Cardinality(T) = (boot + 2) * Limit
    <3>1. PICK A, B : A = 0..(boot + 1) /\ B = 1..Limit
      OBVIOUS
    <3>2. IsFiniteSet(A \X B) /\ Cardinality(A \X B) = Cardinality(A) * Cardinality(B)
      BY <2>4, <3>1, FS_Product
    <3>. QED
      BY <2>4, <3>1, <3>2
  <2>. HIDE DEF P, T, f
  <2>6. f \in Injection(P, T)
    BY <2>2, <2>3 DEF Injection, IsInjective
  <2>7. Cardinality(P) <= Cardinality(T)
    BY <2>5, <2>6, FS_Injection
  <2>. QED
    BY <2>5, <2>7 DEF P
<1>2. IInv => LimitPerClient
  BY <1>1 DEF LimitPerClient
<1>. QED
  BY <1>2, AlwaysIInv, PTL


=============================================================================
