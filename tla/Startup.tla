------------------------------- MODULE Startup -------------------------------
(***************************************************************************)
(* The backend starts, serves, stops and is started again.  main opens the *)
(* database with bounded retries, seeds the users and then the tables one  *)
(* after another, pings Redis and serves; any error on the way ends the    *)
(* process, and docker-compose (restart: unless-stopped) starts it again.  *)
(* Rows live through all of this, including the soft-deleted ones, which   *)
(* the seeds do not count but the unique index on Code does.               *)
(*                                                                         *)
(* Sources: backend/cmd/server/main.go, internal/database/database.go,     *)
(* internal/model/base.go (Code), internal/repository/base.go (Create,     *)
(* Delete).                                                                *)
(***************************************************************************)
EXTENDS Naturals, Sequences

CONSTANTS
    SeedOrder,      \* the tables in the order in which Seed visits them
    SeedCode,       \* the codes that a table's seed inserts
    OtherCode,      \* codes that only users insert
    Kept,           \* the seeds <<t, c>> that nobody can delete: final decisions
    MaxAttempts,    \* connection attempts of one start; 20 in the code
    Mishaps         \* bound: how many failures the environment causes in all

Table == {SeedOrder[i] : i \in DOMAIN SeedOrder}
AnyCode == SeedCode \cup OtherCode
Dependency == {"db", "redis"}

ASSUME TablesAreListed == SeedOrder \in Seq(Table) /\ Len(SeedOrder) > 0
ASSUME EverySeedInserts == SeedCode # {} /\ SeedCode \cap OtherCode = {}
ASSUME KeptAreSeeds == Kept \subseteq Table \X SeedCode
ASSUME Bounds == MaxAttempts \in Nat \ {0} /\ Mishaps \in Nat

VARIABLES
    users,      \* the accounts have been seeded
    live,       \* live[t]: the codes of the rows of t that are not deleted
    gone,       \* gone[t]: the codes of the soft-deleted rows of t
    pc,         \* what the process does; "down" when there is none
    attempt,    \* the connection attempt of this start
    at,         \* the table that Seed visits, as an index of SeedOrder
    outage,     \* the dependencies that do not answer
    mishaps     \* failures so far

rows == <<users, live, gone>>
vars == <<users, live, gone, pc, attempt, at, outage, mishaps>>

Starting == {"connect", "users", "seed", "redis"}

TypeOK ==
    /\ users \in BOOLEAN
    /\ live \in [Table -> SUBSET AnyCode]
    /\ gone \in [Table -> SUBSET AnyCode]
    /\ pc \in {"down", "serving"} \cup Starting
    /\ attempt \in 1..MaxAttempts
    /\ at \in DOMAIN SeedOrder
    /\ outage \in SUBSET Dependency
    /\ mishaps \in 0..Mishaps

(* The volume of the database is empty. *)
Init ==
    /\ users = FALSE
    /\ live = [t \in Table |-> {}]
    /\ gone = [t \in Table |-> {}]
    /\ pc = "down"
    /\ attempt = 1
    /\ at = 1
    /\ outage \in SUBSET Dependency
    /\ mishaps = 0

Mishap == mishaps < Mishaps /\ mishaps' = mishaps + 1

-----------------------------------------------------------------------------
(* One start of the process. *)

Start ==
    /\ pc = "down"
    /\ pc' = "connect" /\ attempt' = 1 /\ at' = 1
    /\ UNCHANGED <<rows, outage, mishaps>>

(* The database answers: connected. *)
Connect ==
    /\ pc = "connect" /\ "db" \notin outage
    /\ pc' = "users"
    /\ UNCHANGED <<rows, attempt, at, outage, mishaps>>

(* Slip: the loop runs once more than it should. *)
LastAttempt_OffByOne == attempt = MaxAttempts + 1

LastAttempt == attempt = MaxAttempts

(* It does not: wait a second and try again, or give up after the last.     *)
ConnectFails ==
    /\ pc = "connect" /\ "db" \in outage
    /\ \/ ~LastAttempt /\ attempt' = attempt + 1 /\ UNCHANGED pc
       \/ LastAttempt /\ pc' = "down" /\ UNCHANGED attempt
    /\ UNCHANGED <<rows, at, outage, mishaps>>

(* The ping fails and the second ping, made for its error, succeeds: err is  *)
(* nil but the loop goes on; after the last attempt that counts as success.  *)
PingFlaps ==
    /\ pc = "connect" /\ "db" \notin outage
    /\ Mishap
    /\ \/ ~LastAttempt /\ attempt' = attempt + 1 /\ UNCHANGED pc
       \/ LastAttempt /\ pc' = "users" /\ UNCHANGED attempt
    /\ UNCHANGED <<rows, at, outage>>

SeedUsers ==
    /\ pc = "users" /\ "db" \notin outage
    /\ users' = TRUE
    /\ pc' = "seed"
    /\ UNCHANGED <<live, gone, attempt, at, outage, mishaps>>

(* Slip: the rows are not counted. *)
NeedsSeed_Always(t) == TRUE

(* Model(...).Count leaves the soft-deleted rows out. *)
NeedsSeed(t) == live[t] = {}

(* Slip: the unique index covers only the rows that are not deleted. *)
Collides_LiveOnly(t) == SeedCode \cap live[t] # {}

(* The unique index on Code covers the soft-deleted rows too. *)
Collides(t) == SeedCode \cap (live[t] \cup gone[t]) # {}

(* Slip: every row is inserted by a transaction of its own. *)
Survives_RowByRow == SUBSET SeedCode

(* What a seed that is cut off may have inserted: all rows or none.         *)
Survives == {{}, SeedCode}

Insert(t, codes) == live' = [live EXCEPT ![t] = @ \cup codes]

SeedTable ==
    LET t == SeedOrder[at] IN
    /\ pc = "seed" /\ "db" \notin outage
    /\ \/ ~NeedsSeed(t) /\ UNCHANGED live
       \/ NeedsSeed(t) /\ ~Collides(t) /\ Insert(t, SeedCode)
    /\ \/ at < Len(SeedOrder) /\ at' = at + 1 /\ UNCHANGED pc
       \/ at = Len(SeedOrder) /\ pc' = "redis" /\ UNCHANGED at
    /\ UNCHANGED <<users, gone, attempt, outage, mishaps>>

(* The insert violates the unique index, Open returns the error, main exits. *)
SeedCollides ==
    LET t == SeedOrder[at] IN
    /\ pc = "seed" /\ "db" \notin outage
    /\ NeedsSeed(t) /\ Collides(t)
    /\ pc' = "down"
    /\ UNCHANGED <<rows, attempt, at, outage, mishaps>>

PingRedis ==
    /\ pc = "redis"
    /\ \/ "redis" \notin outage /\ pc' = "serving"
       \/ "redis" \in outage /\ pc' = "down"
    /\ UNCHANGED <<rows, attempt, at, outage, mishaps>>

(* The database does not answer while it is being seeded.                   *)
SeedFails ==
    /\ pc \in {"users", "seed"} /\ "db" \in outage
    /\ pc' = "down"
    /\ UNCHANGED <<rows, attempt, at, outage, mishaps>>

(* The deadline STARTUP_TIMEOUT passes, or the process is killed, in the     *)
(* middle of a start: also in the middle of inserting the rows of a table.   *)
StartIsCut ==
    /\ pc \in Starting
    /\ Mishap
    /\ pc' = "down"
    /\ \/ UNCHANGED live
       \/ /\ pc = "seed" /\ NeedsSeed(SeedOrder[at]) /\ ~Collides(SeedOrder[at])
          /\ \E codes \in Survives : Insert(SeedOrder[at], codes)
    /\ UNCHANGED <<users, gone, attempt, at, outage>>

-----------------------------------------------------------------------------
(* While it serves, users create rows and admins delete them.  Bridges,      *)
(* inspections and defects may be deleted in any status, decisions only as   *)
(* drafts.                                                                   *)

CreateRow(t, c) ==
    /\ pc = "serving" /\ "db" \notin outage
    /\ c \notin live[t] \cup gone[t]
    /\ Insert(t, {c})
    /\ UNCHANGED <<users, gone, pc, attempt, at, outage, mishaps>>

DeleteRow(t, c) ==
    /\ pc = "serving" /\ "db" \notin outage
    /\ c \in live[t] /\ <<t, c>> \notin Kept
    /\ live' = [live EXCEPT ![t] = @ \ {c}]
    /\ gone' = [gone EXCEPT ![t] = @ \cup {c}]
    /\ UNCHANGED <<users, pc, attempt, at, outage, mishaps>>

(* A signal or a crash ends the process. *)
Stop ==
    /\ pc = "serving"
    /\ Mishap
    /\ pc' = "down"
    /\ UNCHANGED <<rows, attempt, at, outage>>

-----------------------------------------------------------------------------
(* The dependencies. *)

Outage(d) ==
    /\ d \notin outage
    /\ Mishap
    /\ outage' = outage \cup {d}
    /\ UNCHANGED <<rows, pc, attempt, at>>

Recover(d) ==
    /\ d \in outage
    /\ outage' = outage \ {d}
    /\ UNCHANGED <<rows, pc, attempt, at, mishaps>>

-----------------------------------------------------------------------------
StartStep ==
    \/ Connect \/ ConnectFails \/ SeedUsers \/ SeedTable \/ SeedCollides
    \/ SeedFails \/ PingRedis

Next ==
    \/ Start \/ StartStep \/ PingFlaps \/ StartIsCut \/ Stop
    \/ \E t \in Table, c \in AnyCode : CreateRow(t, c) \/ DeleteRow(t, c)
    \/ \E d \in Dependency : Outage(d) \/ Recover(d)

Spec == Init /\ [][Next]_vars

(* docker-compose starts the process again, a started process does not stand *)
(* still, and a dependency comes back (docker-compose restarts it as well).  *)
Fairness ==
    /\ WF_vars(Start)
    /\ WF_vars(StartStep)
    /\ \A d \in Dependency : WF_vars(Recover(d))

FairSpec == Spec /\ Fairness

-----------------------------------------------------------------------------
(* Properties. *)

Seeded(t) == SeedCode \subseteq live[t] \cup gone[t]

(* A backend that serves has the accounts and every row of every seed, or an *)
(* admin has deleted it: however often starts were cut off between or inside *)
(* the seeds, a later start has completed them.                              *)
SeededBeforeServing ==
    pc = "serving" => users /\ \A t \in Table : Seeded(t)

(* A table with any row at all has had its whole seed: that is why counting  *)
(* the rows tells whether the seed is due.                                   *)
SeedIsAtomic ==
    \A t \in Table : live[t] \cup gone[t] # {} => Seeded(t)

(* A row is deleted or it is not. *)
Disjoint == \A t \in Table : live[t] \cap gone[t] = {}

(* What an admin deleted stays deleted: no start brings a row back.          *)
NoResurrection ==
    [][\A t \in Table : gone[t] \subseteq gone'[t] /\ gone[t] \cap live'[t] = {}]_vars

(* Every row of t has been deleted, rows of its seed among them.             *)
Emptied(t) == live[t] = {} /\ SeedCode \cap gone[t] # {}

(* How far a start has come. *)
Rank ==
    CASE pc = "down"    -> 0
      [] pc = "connect" -> 1
      [] pc = "users"   -> 2
      [] pc = "seed"    -> 2 + at
      [] pc = "redis"   -> Len(SeedOrder) + 3
      [] pc = "serving" -> Len(SeedOrder) + 4

(* While its dependencies answer, a start neither gives up nor repeats itself *)
(* nor leaves a seed out, whatever earlier starts and users have left in the *)
(* tables, unless every row of one has been deleted: the part of              *)
(* ServesUnlessEmptied that does not rest on fairness.                       *)
StartsAdvance ==
    [][StartStep /\ outage = {} /\ (\A t \in Table : ~Emptied(t)) => Rank' = Rank + 1]_vars

(* And if every row of a table has been deleted, then a backend that is not   *)
(* serving never serves again: no start repairs it, and users need one to.   *)
EmptiedStaysDown ==
    [][\A t \in Table : Emptied(t) /\ pc # "serving" => Emptied(t)' /\ pc' # "serving"]_vars

(* After finitely many failures the backend serves, unless an admin has      *)
(* deleted all the rows of a table.                                          *)
ServesUnlessEmptied == []<>(pc = "serving" \/ \E t \in Table : Emptied(t))

(* The README lets an admin delete rows of any kind, and docker-compose       *)
(* starts the backend again whenever it stops: with its dependencies         *)
(* answering it should serve again.  Violated: once all rows of a table are  *)
(* deleted, its seed collides with the deleted rows at every start.          *)
ServesAgain == []<>(pc = "serving")

=============================================================================
