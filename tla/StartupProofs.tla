---------------------------- MODULE StartupProofs ----------------------------
(***************************************************************************)
(* Proofs about Startup, for any tables, seeds, attempts and failures: a   *)
(* backend that serves is completely seeded, and deleted rows stay so.     *)
(***************************************************************************)
EXTENDS Startup, TLAPS

(* How far the seeding of this start has come. *)
Progress ==
    /\ pc \in {"connect", "users"} => at = 1
    /\ pc \in {"seed", "redis", "serving"} => users
    /\ pc = "seed" => \A i \in DOMAIN SeedOrder : i < at => Seeded(SeedOrder[i])
    /\ pc \in {"redis", "serving"} => \A t \in Table : Seeded(t)

IInv == TypeOK /\ SeedIsAtomic /\ Disjoint /\ Progress

-----------------------------------------------------------------------------
(* The steps that leave the rows alone.                                     *)
Idle ==
    \/ Start \/ Connect \/ ConnectFails \/ PingFlaps \/ SeedCollides \/ SeedFails
    \/ PingRedis \/ Stop
    \/ \E d \in Dependency : Outage(d) \/ Recover(d)

LEMMA ListedTables ==
    /\ DOMAIN SeedOrder = 1..Len(SeedOrder)
    /\ Len(SeedOrder) \in Nat \ {0}
    /\ \A i \in DOMAIN SeedOrder : SeedOrder[i] \in Table
BY TablesAreListed DEF Table

LEMMA InitInvariant == Init => IInv
<1>. SUFFICES ASSUME Init PROVE IInv
  OBVIOUS
<1>1. TypeOK
  <2>1. 1 \in DOMAIN SeedOrder /\ 1 \in 1..MaxAttempts /\ 0 \in 0..Mishaps
    BY ListedTables, Bounds
  <2>. QED
    BY <2>1 DEF Init, TypeOK
<1>2. SeedIsAtomic /\ Disjoint /\ Progress
  BY DEF Init, SeedIsAtomic, Disjoint, Progress
<1>. QED
  BY <1>1, <1>2 DEF IInv

(* Every step keeps the types. *)
LEMMA TypesStep == TypeOK /\ [Next]_vars => TypeOK'
<1>. SUFFICES ASSUME TypeOK, [Next]_vars PROVE TypeOK'
  OBVIOUS
<1>. USE ListedTables, Bounds
<1>1. CASE Idle
  BY <1>1 DEF Idle, TypeOK, Start, Connect, ConnectFails, PingFlaps, SeedCollides,
      SeedFails, PingRedis, Stop, Outage, Recover, Mishap, LastAttempt, rows, Starting
<1>2. CASE SeedUsers
  BY <1>2 DEF TypeOK, SeedUsers, Starting
<1>3. CASE SeedTable
  BY <1>3 DEF TypeOK, SeedTable, Insert, AnyCode, Starting
<1>4. CASE StartIsCut
  BY <1>4 DEF TypeOK, StartIsCut, Insert, Survives, AnyCode, Mishap, Starting
<1>5. ASSUME NEW t \in Table, NEW c \in AnyCode, CreateRow(t, c) \/ DeleteRow(t, c)
      PROVE  TypeOK'
  BY <1>5 DEF TypeOK, CreateRow, DeleteRow, Insert
<1>6. CASE UNCHANGED vars
  BY <1>6 DEF TypeOK, vars
<1>. QED
  BY <1>1, <1>2, <1>3, <1>4, <1>5, <1>6 DEF Next, StartStep, Idle

(* What a step may do to the rows of a table: none disappears or comes back, *)
(* and the first ones are those of the seed.                                 *)
Grows(t) ==
    /\ gone[t] \subseteq gone'[t]
    /\ gone'[t] \cap live'[t] = {}
    /\ live[t] \cup gone[t] \subseteq live'[t] \cup gone'[t]
    /\ live'[t] \cup gone'[t] # {} => SeedCode \subseteq live'[t] \cup gone'[t]

LEMMA RowsGrow ==
    ASSUME IInv, [Next]_vars, NEW t \in Table
    PROVE  Grows(t)
<1>. USE DEF Grows, IInv, SeedIsAtomic, Disjoint, Seeded
<1>1. CASE UNCHANGED <<live, gone>>
  BY <1>1
<1>2. ASSUME NEW d \in Table, NEW codes \in SUBSET AnyCode, Insert(d, codes),
             UNCHANGED gone, codes \cap gone[d] = {},
             codes = {} \/ SeedCode \subseteq live[d] \cup gone[d] \cup codes
      PROVE  Grows(t)
  <2>1. live' = [live EXCEPT ![d] = live[d] \cup codes]
    BY <1>2 DEF Insert
  <2>2. live'[t] = IF t = d THEN live[d] \cup codes ELSE live[t]
    BY <2>1 DEF TypeOK
  <2>. QED
    BY <1>2, <2>2
<1>3. CASE SeedTable
  <2>. DEFINE d == SeedOrder[at]
  <2>1. d \in Table
    BY ListedTables DEF TypeOK
  <2>2. CASE NeedsSeed(d) /\ ~Collides(d) /\ Insert(d, SeedCode)
    BY <1>2, <1>3, <2>1, <2>2 DEF SeedTable, Collides, AnyCode
  <2>. QED
    BY <1>1, <1>3, <2>2 DEF SeedTable
<1>4. CASE StartIsCut
  <2>. DEFINE d == SeedOrder[at]
  <2>1. d \in Table
    BY ListedTables DEF TypeOK
  <2>2. ASSUME NEW codes \in Survives, ~Collides(d), Insert(d, codes)
        PROVE  Grows(t)
    <3>1. codes \in SUBSET AnyCode /\ codes \cap gone[d] = {}
      BY <2>2 DEF Survives, Collides, AnyCode
    <3>2. codes = {} \/ codes = SeedCode
      BY <2>2 DEF Survives
    <3>. QED
      BY <1>2, <1>4, <2>1, <2>2, <3>1, <3>2 DEF StartIsCut
  <2>. QED
    BY <1>1, <1>4, <2>2 DEF StartIsCut
<1>5. ASSUME NEW d \in Table, NEW c \in AnyCode, CreateRow(d, c)
      PROVE  Grows(t)
  BY <1>2, <1>5 DEF CreateRow, Progress
<1>6. ASSUME NEW d \in Table, NEW c \in AnyCode, DeleteRow(d, c)
      PROVE  Grows(t)
  <2>1. /\ live'[t] = IF t = d THEN live[d] \ {c} ELSE live[t]
        /\ gone'[t] = IF t = d THEN gone[d] \cup {c} ELSE gone[t]
        /\ c \in live[d]
    BY <1>6 DEF DeleteRow, TypeOK
  <2>. QED
    BY <2>1
<1>7. CASE Idle \/ SeedUsers \/ UNCHANGED vars
  <2>1. UNCHANGED <<live, gone>>
    BY <1>7 DEF Idle, Start, Connect, ConnectFails, PingFlaps, SeedCollides, SeedFails,
        PingRedis, Stop, Outage, Recover, SeedUsers, rows, vars
  <2>. QED
    BY <1>1, <2>1
<1>. QED
  BY <1>3, <1>4, <1>5, <1>6, <1>7 DEF Next, StartStep, Idle

(* What has been seeded stays seeded, and SeedTable seeds its table.         *)
LEMMA ProgressStep == IInv /\ [Next]_vars => Progress'
<1>. SUFFICES ASSUME IInv, [Next]_vars PROVE Progress'
  OBVIOUS
<1>1. \A t \in Table : Seeded(t) => Seeded(t)'
  BY RowsGrow DEF Grows, Seeded
<1>2. \A i \in DOMAIN SeedOrder : Seeded(SeedOrder[i]) => Seeded(SeedOrder[i])'
  BY <1>1, ListedTables
<1>3. CASE Idle
  <2>1. CASE PingRedis
    BY <1>1, <2>1 DEF IInv, Progress, PingRedis, rows
  <2>2. CASE Start \/ Connect \/ ConnectFails \/ PingFlaps \/ SeedCollides \/ SeedFails \/ Stop
    BY <2>2 DEF IInv, Progress, Start, Connect, ConnectFails, PingFlaps, SeedCollides, SeedFails, Stop
  <2>3. CASE \E d \in Dependency : Outage(d) \/ Recover(d)
    BY <1>1, <1>2, <2>3 DEF IInv, Progress, Outage, Recover, rows
  <2>. QED
    BY <1>3, <2>1, <2>2, <2>3 DEF Idle
<1>4. CASE SeedUsers
  BY <1>4, ListedTables DEF SeedUsers, IInv, Progress
<1>5. CASE SeedTable
  <2>1. at \in 1..Len(SeedOrder) /\ Len(SeedOrder) \in Nat /\ SeedOrder[at] \in Table
    BY ListedTables DEF IInv, TypeOK
  <2>2. \A i \in DOMAIN SeedOrder : i = at => Seeded(SeedOrder[i])'
    <3>. SUFFICES ASSUME NEW i \in DOMAIN SeedOrder, i = at PROVE Seeded(SeedOrder[i])'
      OBVIOUS
    <3>1. CASE ~NeedsSeed(SeedOrder[i])
      BY <1>2, <2>1, <3>1 DEF NeedsSeed, IInv, SeedIsAtomic
    <3>2. CASE Insert(SeedOrder[i], SeedCode)
      BY <2>1, <3>2 DEF Insert, Seeded, IInv, TypeOK
    <3>. QED
      BY <1>5, <3>1, <3>2 DEF SeedTable
  <2>3. users' /\ \A i \in DOMAIN SeedOrder : i < at => Seeded(SeedOrder[i])'
    BY <1>2, <1>5 DEF SeedTable, IInv, Progress
  <2>4. \A i \in DOMAIN SeedOrder : i < at + 1 => Seeded(SeedOrder[i])'
    BY <2>1, <2>2, <2>3, ListedTables
  <2>5. CASE at < Len(SeedOrder) /\ at' = at + 1 /\ UNCHANGED pc
    BY <1>5, <2>3, <2>4, <2>5 DEF SeedTable, Progress
  <2>6. CASE at = Len(SeedOrder) /\ pc' = "redis" /\ UNCHANGED at
    <3>1. \A t \in Table : \E i \in DOMAIN SeedOrder : t = SeedOrder[i] /\ i < at + 1
      BY <2>1, <2>6, ListedTables DEF Table
    <3>2. \A t \in Table : Seeded(t)'
      BY <2>4, <3>1
    <3>. QED
      BY <2>3, <2>6, <3>2 DEF Progress
  <2>. QED
    BY <1>5, <2>5, <2>6 DEF SeedTable
<1>6. CASE StartIsCut
  BY <1>6 DEF StartIsCut, Progress
<1>7. ASSUME NEW t \in Table, NEW c \in AnyCode, CreateRow(t, c) \/ DeleteRow(t, c)
      PROVE  Progress'
  BY <1>1, <1>7 DEF CreateRow, DeleteRow, IInv, Progress
<1>8. CASE UNCHANGED vars
  BY <1>1, <1>2, <1>8 DEF vars, IInv, Progress
<1>. QED
  BY <1>3, <1>4, <1>5, <1>6, <1>7, <1>8 DEF Next, StartStep, Idle

LEMMA Inductive == Spec => []IInv
<1>1. IInv /\ [Next]_vars => SeedIsAtomic' /\ Disjoint'
  BY RowsGrow DEF Grows, SeedIsAtomic, Disjoint, Seeded
<1>2. IInv /\ [Next]_vars => IInv'
  BY <1>1, TypesStep, ProgressStep DEF IInv
<1>. QED
  BY InitInvariant, <1>2, PTL DEF Spec

-----------------------------------------------------------------------------
(* A backend that serves has its accounts and every row of every seed, live  *)
(* or deleted, whatever starts were cut off before.                          *)
THEOREM ServesSeeded == Spec => []SeededBeforeServing
<1>1. IInv => SeededBeforeServing
  BY DEF IInv, Progress, SeededBeforeServing
<1>. QED
  BY Inductive, <1>1, PTL

(* Every reachable state is well typed: the rows are rows of the seed or of   *)
(* users, and the attempts to connect stay within their bound.               *)
THEOREM StartupTypes == Spec => []TypeOK
BY Inductive, PTL DEF IInv

(* A table that holds any row holds the rows of its seed.                    *)
THEOREM SeedsAreAtomic == Spec => []SeedIsAtomic
BY Inductive, PTL DEF IInv

(* No step, and no start in particular, brings a deleted row back.           *)
THEOREM DeletedRowsStayDeleted == Spec => NoResurrection
<1>1. IInv /\ [Next]_vars =>
        [\A t \in Table : gone[t] \subseteq gone'[t] /\ gone[t] \cap live'[t] = {}]_vars
  <2>. SUFFICES ASSUME IInv, [Next]_vars, NEW t \in Table
                PROVE  gone[t] \subseteq gone'[t] /\ gone[t] \cap live'[t] = {}
    OBVIOUS
  <2>. QED
    BY RowsGrow DEF Grows
<1>. QED
  BY Inductive, <1>1, PTL DEF Spec, NoResurrection
-----------------------------------------------------------------------------
(* What a start finds and leaves in the tables.                             *)

(* A seed finds its codes taken only in a table that has been emptied.        *)
LEMMA OnlyEmptiedTablesCollide ==
    ASSUME TypeOK, SeedCollides
    PROVE  \E t \in Table : Emptied(t)
<1>1. SeedOrder[at] \in Table
  BY ListedTables DEF TypeOK
<1>. QED
  BY <1>1 DEF SeedCollides, NeedsSeed, Collides, Emptied

(* With its dependencies answering and no table emptied, every step of a      *)
(* start brings it one step further (database.Open and Seed, database.go     *)
(* 20-75 and 88-126): it serves after Len(SeedOrder) + 3 of them.           *)
THEOREM StartsNeverFallBack == Spec => StartsAdvance
<1>1. ASSUME IInv, StartStep, outage = {}, \A t \in Table : ~Emptied(t)
      PROVE  Rank' = Rank + 1
  <2>. USE <1>1
  <2>1. Len(SeedOrder) \in Nat /\ at \in Nat
    BY ListedTables DEF IInv, TypeOK
  <2>2. CASE Connect
    BY <2>2 DEF Connect, Rank
  <2>3. CASE SeedUsers
    BY <2>1, <2>3 DEF SeedUsers, Rank, IInv, Progress
  <2>4. CASE SeedTable
    BY <2>1, <2>4 DEF SeedTable, Rank
  <2>5. CASE PingRedis
    BY <2>1, <2>5 DEF PingRedis, Rank
  <2>6. ~ConnectFails /\ ~SeedFails /\ ~SeedCollides
    BY OnlyEmptiedTablesCollide DEF ConnectFails, SeedFails, IInv
  <2>. QED
    BY <2>2, <2>3, <2>4, <2>5, <2>6 DEF StartStep
<1>2. IInv => [StartStep /\ outage = {} /\ (\A t \in Table : ~Emptied(t)) => Rank' = Rank + 1]_vars
  BY <1>1
<1>. QED
  BY <1>2, Inductive, PTL DEF StartsAdvance

(* The tables that a start has left behind hold a row.                       *)
Filled ==
    /\ pc = "seed" => \A i \in DOMAIN SeedOrder : i < at => live[SeedOrder[i]] # {}
    /\ pc = "redis" => \A t \in Table : live[t] # {}

LEMMA FilledStep == IInv /\ Filled /\ [Next]_vars => Filled'
<1>. SUFFICES ASSUME IInv, Filled, [Next]_vars PROVE Filled'
  OBVIOUS
<1>1. /\ at \in 1..Len(SeedOrder) /\ Len(SeedOrder) \in Nat
      /\ \A i \in DOMAIN SeedOrder : i \in Nat /\ SeedOrder[i] \in Table
  BY ListedTables DEF IInv, TypeOK
<1>2. CASE SeedTable
  <2>1. \A t \in Table : live[t] # {} => live'[t] # {}
    BY <1>2 DEF SeedTable, Insert, IInv, TypeOK
  <2>2. live'[SeedOrder[at]] # {}
    BY <1>1, <1>2, EverySeedInserts DEF SeedTable, NeedsSeed, Insert, IInv, TypeOK
  <2>3. \A i \in DOMAIN SeedOrder : i < at + 1 => live'[SeedOrder[i]] # {}
    <3>. SUFFICES ASSUME NEW i \in DOMAIN SeedOrder, i < at + 1 PROVE live'[SeedOrder[i]] # {}
      OBVIOUS
    <3>1. CASE i = at
      BY <2>2, <3>1
    <3>2. CASE i < at
      BY <1>1, <1>2, <2>1, <3>2 DEF Filled, SeedTable
    <3>. QED
      BY <1>1, <3>1, <3>2
  <2>4. CASE at = Len(SeedOrder) /\ pc' = "redis"
    <3>1. \A t \in Table : \E i \in DOMAIN SeedOrder : t = SeedOrder[i] /\ i < at + 1
      BY <1>1, <2>4, ListedTables DEF Table
    <3>. QED
      BY <2>3, <2>4, <3>1 DEF Filled
  <2>. QED
    BY <1>2, <2>3, <2>4 DEF SeedTable, Filled
<1>3. CASE SeedUsers
  BY <1>1, <1>3 DEF SeedUsers, IInv, Progress, Filled
<1>4. CASE \E d \in Dependency : Outage(d) \/ Recover(d)
  BY <1>4 DEF Outage, Recover, rows, Filled
<1>5. CASE pc' \in {"down", "connect", "users", "serving"}
  BY <1>5 DEF Filled
<1>6. CASE UNCHANGED vars
  BY <1>6 DEF vars, Filled
<1>. QED
  BY <1>2, <1>3, <1>4, <1>5, <1>6
     DEF Next, StartStep, Start, Connect, ConnectFails, PingFlaps, SeedCollides, SeedFails,
         PingRedis, Stop, StartIsCut, CreateRow, DeleteRow

(* A backend that stops after an admin has deleted every row of a table does *)
(* not serve again, whatever the environment does: no start brings the table *)
(* back or gets past its seed.                                              *)
THEOREM EmptiedNeverServesAgain == Spec => EmptiedStaysDown
<1>1. ASSUME IInv, Filled, [Next]_vars, NEW t \in Table, Emptied(t), pc # "serving"
      PROVE  Emptied(t)' /\ pc' # "serving"
  <2>. USE <1>1
  <2>1. SeedOrder[at] \in Table
    BY ListedTables DEF IInv, TypeOK
  <2>2. Collides(t) /\ live[t] = {}
    BY DEF Emptied, Collides
  <2>3. ASSUME NEW codes, ~Collides(SeedOrder[at]), Insert(SeedOrder[at], codes)
        PROVE  live'[t] = live[t]
    BY <2>1, <2>2, <2>3 DEF Insert, IInv, TypeOK
  <2>4. live'[t] = live[t] /\ UNCHANGED gone
    BY <2>3
       DEF Next, StartStep, Start, Connect, ConnectFails, PingFlaps, SeedUsers, SeedTable,
           SeedCollides, SeedFails, PingRedis, Stop, StartIsCut, CreateRow, DeleteRow, Outage,
           Recover, rows, vars
  <2>5. pc' # "serving"
    BY <2>2
       DEF Filled, Next, StartStep, Start, Connect, ConnectFails, PingFlaps, SeedUsers, SeedTable,
           SeedCollides, SeedFails, PingRedis, Stop, StartIsCut, CreateRow, DeleteRow, Outage,
           Recover, vars
  <2>. QED
    BY <2>4, <2>5 DEF Emptied
<1>2. IInv /\ Filled /\ [Next]_vars =>
         [\A t \in Table : Emptied(t) /\ pc # "serving" => Emptied(t)' /\ pc' # "serving"]_vars
  BY <1>1
<1>3. Init => Filled
  BY DEF Init, Filled
<1>. QED
  BY <1>2, <1>3, FilledStep, Inductive, PTL DEF Spec, EmptiedStaysDown


=============================================================================
