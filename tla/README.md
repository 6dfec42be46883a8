# A TLA+ verification of the railway bridge defect priority service

The repository is a Go backend (Gin, GORM, PostgreSQL, Redis) with a Vue
frontend. It manages bridges, inspections, defects and, above all, *priority
decisions*: versioned decisions on how a defect is treated, each prepared by one
person and made final by another. This directory holds

- TLA+ modules translated from that code,
- TLC configurations that check them on small instances, and
- proofs, checked by TLAPS, that hold for every value of the constants.

Paths below are relative to `backend/internal/` unless they begin with
`frontend/`, `cmd/` or name a file of the repository's root. `PROJECT.json` says
for every definition which lines it models, for every run which properties it
checks, and for every property which slip in the code would break it.

## 1. Inventory

| Component | State it keeps | Operations | Modelled by |
|---|---|---|---|
| Priority decision service (`handler`, `service`, `repository`, `model/priority_decision.go`) | a row per code with version, status, preparer, soft-delete mark; append-only revisions, unique per (decision, version) | create, update, transition, delete; list, get, counts | `PriorityDecision`, `DecisionLedger`; get and list in `ReadRoutes` |
| Authentication and roles (`middleware/auth.go`, `service/security.go`) | none; the token carries user and role | the guards `RequireMinimumRole`, `RequireRoles`; token parsing, login | `Access` (guards) |
| Audit log (`service/security.go`, `repository/security.go`) | append-only `audit_logs` | append; list, summary, history | append in `PriorityDecision` and `VersionedRecord`; clocks, summary and history in `ReadRoutes` |
| Seed and startup (`cmd/server/main.go`, `database/database.go`) | progress of a start; the tables | connect with retries, migrate, seed, ping Redis, serve, stop | `Startup` |
| Rate limiter (`middleware/ratelimit.go`) | Redis counters per minute, client and route; a local table with a mutex | count in Redis, count locally, clean the table; status | `RateLimiter` |
| Bridges, inspections, defects (`service/bridge_asset.go`, ...) | rows with a version and a status | create, update, transition along a graph, delete; list, get, counts | `VersionedRecord`, `RecordWalk` |
| Transition graphs (`constants/status.go`, `frontend/src/utils/format.ts`) | none | `CanTransition` | `TransitionGraphs`, `PriorityDecision` (the decisions' own), `Workbench` (the frontend's copy) |
| HTTP pipeline (`middleware/request.go`, `router`, `dto`, `handler/system.go`) | none | request ids, paging, limits, health, status | windows and limits in `ReadRoutes` |
| Configuration (`config/config.go`) | read once | load, validate | not modelled |
| Frontend stores, session, router (`frontend/src/`) | loaded items, the dialog, session in memory and in localStorage | load, create, confirm a transition, log in and out | `Workbench` (one page, without logging in and out) |

**How they interact.** A request passes the request context, the rate limiter,
the token check and the role guard of its route before its handler calls the
service; the service reads through the repository, writes through it, and
appends to the audit log through the security service. Everything is a
synchronous call in the goroutine of the request. What requests share is the
database (PostgreSQL, one statement or one explicit transaction at a time), the
Redis counters and the limiter's local table (under a mutex). The frontend sends
back, as `expectedVersion`, the version of the row its dialog was opened on; after
each accepted move it loads the list again. It keeps the session twice: in memory,
where the buttons look, and in localStorage, where the requests look and where
another tab may change it.

**What is hard.** No lock is held between the read on which the business rules
are checked and the write: an optimistic lock on the version, and nothing else,
keeps concurrent requests apart, and deletion does not take even that. The audit
entry is a statement of its own after the commit. An acknowledgement may be lost
after the effect. The process can stop anywhere, a start as well. Redis may
answer one request and not the next, or count without answering. The
soft-deleted rows are invisible to queries but not to the unique indexes. A read
is several statements without a transaction, and writes commit between them. And
in the browser, the answers of overlapping requests arrive in any order.

**What makes each component correct.**

- *Decisions*: the revisions are a chain without gap or fork and agree with the
  row; only another person than the preparer, and a reviewer or admin, makes a
  decision final; what was reviewed is what becomes final; a final decision never
  changes; what clients and the audit log are told is true.
- *Startup*: a serving backend has all its seeds, once; deleted rows do not come
  back; after failures end, the backend serves.
- *Rate limiter*: no counter lets more than the limit through, and nobody is
  limited by somebody else's requests or by those of another minute.
- *Versioned records*: each version is one edit or one move along the graph, none
  undoes another; the audit log explains the status a record is in.
- *Reads and audit*: a decision is shown with revisions that explain it; the
  figures of a summary err in one direction only; a history is in real time.
- *Frontend*: a move starts from the very row that its dialog showed, however
  often the list was loaded behind it; what is offered is accepted; a reload after
  a move shows it; the spinner stops.

The hazards, each at its line and with the properties that watch it, are listed
in `PROJECT.json` under `hazards`.

## 2. Modules

### PriorityDecision

One process per HTTP request. `pc[r]` is the database statement that the
goroutine of request `r` executes next, `call[r]` what the request asks for,
`seen[r]` the variable `current` of the service (the row as read), `reply[r]`
the class of the HTTP answer.

| Action | Code |
|---|---|
| `Create`, `Update`, `Transition`, `Delete` | handler, role guard of the route, `Get`, and the checks of the service up to the write, in their order; a refusal ends the request |
| `CreateWithRevision`, `UpdateWithRevision` | the two repository transactions; the row is written as a whole from `seen[r]` and the call, except the columns in `Omit(...)`; the acknowledgement may be lost after the commit |
| `SoftDelete` | `Store.Delete`: by id alone, no version |
| `AppendAudit`, `AuditFails` | the audit entry; an error is ignored after create and update and returned after transition and delete, and the entry may be stored although an error is returned |
| `Reread` | the closing `Get`; answers 404 if the row was deleted meanwhile |
| `StatementFails`, `Crash` | a statement that fails without effect; the process stops and takes every request with it |

A code stands for a row: `Code` is unique over all rows, the soft-deleted ones
included, so a code has at most one row for ever. The business fields (name,
evidence, facility, owner, ...) are one value `Content`; `NoContent` is an input
whose mandatory fields trim to the empty string. `Init` has every combination of
what `seedPriorityDecision` inserts.

The unique index on (decision, version) of the revisions is the guard `IsUnique` of
`UpdateWithRevision`; a revision that it refused would roll the transaction back, which
is a `StatementFails`. It never does refuse one that the version comparison admits
(`IndexNeverRefuses`): it is a second barrier behind a lock that suffices.

`Lookahead` says which versions a client may send. With 0 it sends a version the
row has had, as the frontend does. The binding of the input only demands that
the version is not zero; `Lookahead = 1` covers a client that names the version
the row is about to have.

Not in the model, and why: request ids are taken to be distinct per request (a
client may send its own `X-Request-ID`; the ids of revisions are not unique in
the database and no code relies on it); wrap-around of a 64-bit version; the
wording of reasons and the serialised snapshot of a revision, which repeats its
content. Timestamps and the read routes are in `ReadRoutes`.

### DecisionLedger (abstract) and Access

`DecisionLedger` is the promise without requests, versions or races: a ledger
per code that is opened by a preparer, amended by the preparer or an admin while
a draft, closed by one decision of another entitled person on the evidence of
the last draft, and possibly withdrawn. `PriorityDecision` implements it
(`LedgerSpec`) under the mapping `ledger[c]` = status, content and actor of each
revision of `c`, and `withdrawn[c]` = the soft-delete mark. `Access` holds the
roles and the two guards.

### VersionedRecord, RecordWalk (abstract) and TransitionGraphs

`service/bridge_asset.go`, `inspection_round.go` and `defect_finding.go` are the
same program over three tables and three status graphs, so one module models
them: `KindOf` says to which table a code belongs, and `TransitionGraphs` holds the
graphs, the status of a new record and the statuses of the seeds. The rows of
`map` cite the three files in turn. The processes are those of
`PriorityDecision`, with these differences in the code: no revisions are kept, a
record in any status may be edited and deleted, nobody is anybody's preparer.
The user of a request decides on its guards only, and what a refused request
asked for is forgotten at once; both keep the instances small.

| Action | Code |
|---|---|
| `Create`, `Update`, `Transition`, `Delete` | handler, role guard, `Get`, the checks of the service before its write |
| `Insert`, `WriteUpdate`, `SoftDelete` | `Store.Create`, `Store.Update`, `Store.Delete`, one statement each; the acknowledgement may be lost after the effect |
| `AppendAudit`, `AuditFails` | the audit entry; its error is ignored after create and update, and ends a transition or delete |
| `Reread`, `StatementFails`, `Crash` | as in `PriorityDecision` |

`RecordWalk` is the promise: a record is opened in the initial status of its kind,
each further version either edits the content and keeps the status or moves the
status along one edge and keeps the content, and a deleted record rests.
`VersionedRecord` implements it (`WalkSpec`), with the same variable `record`, for
`Lookahead = 0`. With a client that names the next version, an update that read a
status writes it back over a move made in between: the same cause as F3, in a
place where no document promises otherwise.

### Startup

The life of the backend over one database volume. `live[t]` and `gone[t]` are the
codes of the visible and of the soft-deleted rows of table `t`; `pc`, `attempt`
and `at` follow `Open` and `Seed`. `PingFlaps` is the iteration in which the ping
fails and the second ping, made for its error, succeeds: `err` is nil, the loop
goes on all the same, and after the last attempt it counts as success.
`SeedTable` and `SeedCollides` are one seed: skip when the table counts a row,
else insert all codes or violate the unique index. `StartIsCut` is the startup
deadline or a kill, also in the middle of a seed (`Survives`: the transaction
leaves all rows or none). `Kept` are the seeds that are final decisions, which
nobody can delete. `AutoMigrate` is part of connecting. `outage` and `mishaps`
belong to the environment; `Mishaps` bounds the failures.

### RateLimiter

`redis[w, k]` and `local[k]` are the counters, `pc[r]` is where request `r` is,
`window[r]` the minute in its Redis key, and `tally[r]` remembers by which counter
and as which number it was counted, for the properties only. `RedisCounts` is the
transaction INCR and EXPIRE with its answer, `RedisLosesAnswer` the same without
(the client library tries again up to `Retries` times), `RedisFails` the end of
the attempts, `LocalCounts` all of `incrementLocal`, which holds the mutex
throughout and includes `cleanupLocal`. `Tick` turns the minute between any two
steps, `Restart` empties the local table. Assumed: the clock does not go
backwards; the client's timeouts end a request's dealings with Redis within a
minute; Redis keeps its counters when it restarts (`appendonly yes` in
`docker-compose.yml`). The code promises a limit per counter (`LimitPerCounter`), and
what that means for a client is proved (`ClientsAreLimited`): when requests of one minute
are split between Redis and the local table, or the process restarts, a client may
pass up to the limit on each counter, `(boot + 2) * Limit` times after `boot` restarts,
and no more.

### ReadRoutes

One read among requests that write. `reader` is the goroutine of the read: `pc` is
the statement it executes next, and the other fields are what the statements have
returned so far.

| Action | Code |
|---|---|
| `FindRows`, `PreloadRevisions` | `Get` (one code) and `List` (all of them): the statement for the rows, then that for their revisions in the order of versions |
| `StartSummary`, `NextStatement` | `SummarizeAudits`: the moment from which it counts is fixed first, then five statements, one after the other |
| `EntityHistory` | one statement; `ORDER BY created_at DESC LIMIT n` returns any of `Listings`, since entries with equal stamps come in any order |
| `ReadFails` | any statement of a read fails, and the caller is told |
| `Write` | a write commits: a step of `DecisionLedger` |
| `Stamp`, `AppendAudit`, `AuditFails` | `Audit` reads the clock, then inserts the entry, or fails to |
| `Tick` | the clock of the backend |

The writers are instances of the promise and not of `PriorityDecision` itself: the
service is proved to implement `DecisionLedger` (`ServiceKeepsLedger`), so for
clients that send versions they were shown, whatever holds of reads among ledger
steps holds of reads among requests, and the instance stays
small. `earlier` remembers, for the property about real time only, which requests
had been answered when a request wrote. `Window` and `NormalizedLimit` are the
defaults and caps of the queries; the service normalises again what the handler
has normalised, which changes nothing. Assumed: one backend process, whose clock
does not run backwards; and an insert takes longer than the resolution of the
stamps (microseconds), which is the guard `stamp < clock` of `AppendAudit`. With a
clock that stands still, two entries of consecutive requests have equal stamps,
and a history may list them either way round.

`CONSTRAINT Reading` ends a behaviour of the instance when the read has ended: the
properties speak of that moment and of the steps that lead to it.

Not in the model: the totals and pages of `List`, whose count and page are two
statements and may disagree when rows are added in between (the interface
promises nothing else); the paged listing of all entries, one statement like
the history; the details of an entry.

### Workbench

One page of the frontend, from its mounting on, with the backend behind it.
`items`, `loading` and `pending` are the store's rows and flag and the item in the
dialog; `session` is what `useAuth` holds and `stored` what localStorage holds;
`call[k]` is a request in flight: sent, answered or failed.

| Action | Code |
|---|---|
| `Load`, `createDemo`, `confirmTransition` | the buttons; each sends a request with the session stored at that moment and starts the spinner |
| `OpenDialog`, `CloseDialog` | the buttons of a row, `targetsFor` of it; closing the dialog |
| `Serve` | the backend answers: `ServeMove` and `ServeCreate` take steps of `RecordWalk` or `DecisionLedger` when role, version and graph allow it; `ServeLoad` returns rows, for a search any of them |
| `CallFails` | the request or its answer is lost, or refused; a request lost after the backend served it has had its effect |
| `ShowRows`, `LoadAgain`, `ShowError` | the continuations of the store and of `EntityPage` after each answer: show the list, load again after a create or a move, stop the spinner; the reload of a move closes the dialog whether it succeeds or fails |
| `OtherTab` | another tab signs in or out |
| `Elsewhere` | others write to the records of the page |

Requests overlap and answers are taken in any order; `Send` takes the lowest free
number, so that numbers carry no meaning. `transitions`, `targetsFor` and `canAtLeast` are
the frontend's copies of the graphs, roles and the preparer rule, translated from
the frontend; `Accepts` is the backend's view, from `RecordWalk`, `DecisionLedger` and
`Access`. That the two agree is a property (`OfferedIsAccepted`), not an assumption.
`overtaken` is remembered for `ReloadShowsMove` only.

The page discharges the hypothesis `Lookahead = 0` of the decision and record
theorems for clients that use it: `ConfirmedAsSeen` says that no request names a version
that is yet to come.

What the code does and no document forbids: confirming a create twice makes two
records, as the code is made of the time; the reload of one move closes the
dialog of another that was opened meanwhile; when the reload fails, the move
stands and its error is shown; after another tab has signed in as somebody else,
the buttons are those of the old user and the requests those of the new. What is
done then is all the same what the page would have offered the new user:
`offeredTo` is `targetsFor` for any user, and `MovesAsConfirmed` judges an accepted move by
the user whose session the request carries.

Not in the model: signing in and out on the page, navigation and route guards; the
text of the error; rows left in the store by an earlier visit of the page, which
are replaced by the load on mounting.

### MC modules

`MCPriorityDecision`, `MCVersionedRecord`, `MCStartup`, `MCRateLimiter`, `MCReadRoutes` and
`MCWorkbench` define the values of constants that a `.cfg` cannot write, and the
symmetry sets. Symmetry is used
only in runs without liveness properties; requests, contents, codes and keys are
interchangeable in their modules (roles and users are not, and are left out).

## 3. Runs

| Run | Question | Bounds |
|---|---|---|
| `decision_races` | Do the chain, separation of duty, evidence, audit and answers survive every interleaving? | 1 code, 3 requests, 3 users that may write (operator, reviewer, admin), 2 contents; 2.1 million states |
| `decision_refines_ledger` | Does the service implement `DecisionLedger`? | 2 codes, 2 requests, all four accounts, 2 contents; 363 thousand states |
| `decision_delete_race` | README: final decisions cannot be overwritten, and deletion refuses them. | violated (F1) |
| `decision_audit_loss` | README: every change is in the audit log. Does a request that knows its decision committed leave the audit statement with the entry stored? | violated (F2) |
| `decision_stale_read` | Are final decisions frozen against a client that guesses versions? | violated (F3) |
| `record_races` | Does the lock protect what was read, and does the audit log explain the status? | 1 defect (the largest graph), 3 requests, operator and admin, 2 contents; 881 thousand states |
| `record_refines_walk` | Do the three services implement `RecordWalk`? | a bridge and an inspection, 2 requests, viewer, operator and admin, 2 contents; 238 thousand states |
| `startup_recovers` | Are seeds complete, atomic and never repeated; does a start only advance; does the backend serve again, unless emptied? | 2 tables, 2 seed codes and 1 other, 2 attempts, 3 failures |
| `startup_emptied` | Does a restart always succeed when its dependencies answer? | violated (F4) |
| `rate_limits` | Does every counter keep its limit, and refuse only when full? | 4 requests, 3 keys, limit 2, table size 2, 1 retry, 2 minutes, 1 restart; 2.0 million states |
| `read_routes` | What may a read of several statements return while others write; does what it shows prove that the rules were kept; is a history bounded, and never empty without cause? | 1 decision, 3 writing requests of an operator and an admin, 2 contents; clock to 2, default window and limit 1, caps 2, numbers asked for 0 and 5; 3.2 million states |
| `workbench` | Do moves start from what was shown, do what was confirmed, and stay within what is open to the user who signs them, are offers accepted, do reloads show moves, does the spinner have a reason and stop? | the page of one inspection or of one decision, the session of a viewer, an operator or a reviewer, 2 requests in flight, versions to 2, the session changed once; 1.0 million states |

Why the bounds are enough to be interesting. A race in the decision service needs
a reader whose read becomes stale, a writer in between and, for the delete race
and for conflicts that hit a third party, one more: three requests on one code,
each of which may be any operation by any account. Codes do not interact, so a
second one matters only for the mapping to the ledger. The same holds of records;
their two runs cover the three graphs between them. Two contents tell the
evidence that was reviewed from another. With two attempts the connection loop
has a first and a last iteration; with two tables a start can end before, inside
and between seeds; three failures cut off three starts at different places. A
limit of 2 with four requests overfills a counter twice; with a table size of 2
the first two buckets are added without cleaning, so a bucket of an earlier minute
is met again, and the third key cleans the table and may outgrow its size, where
the code's 512 would never be reached. A torn read needs two commits, one before
the row is read and one between its statements; a third request lets an entry fall
out of a history of two. Asked for 0, the default applies, and for 5, the cap; a
clock to 2 tells entries inside the window from those before it. In the browser, a
stale dialog needs a load behind it, a wrong order two answers on their way; a
viewer, an operator and a reviewer on either page cover both rules for buttons, and
another tab that signs in once leaves the two sessions apart from then on: an
operator's button may send a viewer's session, a reviewer's one the preparer's.

`decision_*`, `record_*`, `rate_limits` and `read_routes` runs set `CHECK_DEADLOCK FALSE`: each request is
handled once, and when all are answered the instance is at rest.
`startup_*` runs come to rest in the same way when failures and codes are used up.

**Fairness.** `Startup` and `Workbench` need it. In `Startup`, `WF(Start)`: docker-compose restarts the
backend (`restart: unless-stopped`). `WF(StartStep)`: a goroutine that can take a
step of `Open` takes it. `WF(Recover(d))`: PostgreSQL and Redis are restarted as
well. The failures (`Outage`, `PingFlaps`, `StartIsCut`, `Stop`) and the users
(`CreateRow`, `DeleteRow`) have no fairness and need not happen; failures are
finitely many, which is what "after failures end" means. In `Workbench`,
`WF(Serve(k) \/ CallFails(k))` says that every request ends somehow: the server has
read and write timeouts, and the browser reports a lost connection; which of the
two it is remains open. `WF(Deliver(k))`: the event loop runs the continuation of a
promise that is settled. The user, the other tab and everybody else have no
fairness; `SpinnerStops` holds although the user may press buttons for ever, since
each answer clears the flag, if only for a moment. Nothing is assumed about the
requests of the other modules, so their properties are about safety only: a
goroutine may stop for ever at any statement.

## 4. Findings

- **F1, a final decision can be deleted.** `Delete` checks the status it read
  and deletes by id alone; a transition in between is not noticed.
- **F2, a final decision without an audit entry.** The entry is inserted after
  the commit, which the service knows to have succeeded; when the insert fails, or
  the process stops before it, the entry is lost for good, and a retry is refused
  because the decision is final. `FinalsAreAudited` speaks of the step that leaves the
  audit statement, so a commit of which the service is not told does not count
  against it.
- **F3, a final decision overwritten.** The rules are checked on the row as read
  but the lock compares the version the client sent. A client that sends the
  version the row is about to have passes the draft check and overwrites the
  decision that a reviewer has made in between. Clients that send versions they
  were shown cannot do it, which is proved, and so is that no other kind of step
  can (`OnlyGuessesUnfreeze`).
- **F4, an emptied table stops the backend for good.** A seed runs when its table
  has no visible row, and its codes collide with the soft-deleted rows: once an
  admin has deleted every bridge (or inspection, or defect), no start succeeds.
  `EmptiedNeverServesAgain` proves it for any tables, codes and failures.

Two observations that contradict nothing documented: an update that took effect
answers 404 when the row is deleted before the closing read (`ReplyHonest` says
what each answer does mean), and a lost acknowledgement leaves a write without
audit entry and answers 500.

## 5. Proofs

All theorems are about the specification for **every** value of the constants.
The assumptions are named in the modules and evaluated by TLC in the runs:
`RolesAssigned` (each user has a role), `SeedUsers` (the two seed accounts differ
and the second may review), `Sentinels` (the markers are not real values),
`LookaheadIsNat`; `TablesAreListed`, `EverySeedInserts`, `KeptAreSeeds`, `Bounds`;
`LimiterConstants`; `KindsAssigned` (each code belongs to a table),
`BlankIsNoContent`; `Ranges` (defaults are positive and below their caps) and
`SeedAccounts` (as `SeedUsers`) of `ReadRoutes`; `Nobody`, `Nothing` (the absent
session and row are not real ones), `Kinds`, `SeedAccounts` and `Bounds` of `Workbench`.
With the exceptions listed at the end, every property that a passing run checks is
also proved.

**PriorityDecisionProofs.** The inductive invariant is

    IInv == TypeOK /\ RequestOK /\ RevisionChain /\ RowIsNewestRevision
            /\ SnapshotIsFaithful

`RevisionChain` alone is not inductive: that a write appends the next number
follows from the version comparison only if the request's own data is sane, which
is `RequestOK` (a request in flight is entitled to its write, and read what its
operation demands). That the row agrees with the new revision, and that a writer
overwrites what it read, needs `SnapshotIsFaithful`: while the version has not
moved, neither have status and content, and the preparer never does.
The proof first shows that a step leaves the store alone or is one of three
writes (`StoreSteps`), then treats the writes.

- `TypeCorrect`, `ChainIsComplete`, `NewestRevision`, `SnapshotsAreFaithful`,
  `DutiesAreSeparated`, `IndexNeverRefuses` hold for whatever versions clients send.
- `FinalDecisionsAreFrozen`, `EvidenceIsReviewed` hold for `Lookahead = 0`. F3
  shows that the hypothesis is necessary. They rest on `ReadIsOverwritten`: when the lock
  succeeds for a request that does not name a later version than it was checked
  on (`Guesses`), the row is the one read.
- `OnlyGuessesUnfreeze` holds for any client: a step that changes a final decision is
  the overwrite of a guess (`Guessed`).

**DecisionLedgerProofs.** `ServiceKeepsLedger` (`Lookahead = 0` proves `Spec => LedgerSpec`) is
the refinement: a create is `Open`, an update `Amend`, a transition `Decide`, a delete
`Withdraw`, every other step a stutter. The mapping turns a chain of revisions into a
ledger entry by entry, so appending a revision appends an entry
(`EntriesOfSeq`). Beyond `IInv` it needs that the first revision of a decision is its
preparer's (`FirstIsPreparers`), since the ledger knows its preparer only as the author of
its first entry, and that a request about to insert passed the role guard
(`CreatorsMayWrite`). For any client, `OnlyGuessesLeaveTheLedger`: what is not a step of the ledger is
the overwrite of a guess.

**DecisionAuditProofs.** `AuditIsTrue` and `ConflictsHaveWinners` (for `Lookahead = 0`) and
`RepliesAreHonest` (for any client). The properties speak of finished requests; `KnownInv` adds,
for every request and every statement it may be at, what it has written and what
is recorded of it: nothing before its write, its revision at the version it named
after it, its entry once the audit is behind it. Revisions and entries are only
ever added (`Grown`), so what is known of one request survives the steps of the others.
`NothingIsForgotten` states this growth by itself: for any client, so also in the behaviours of
F3, where the row of a final decision is overwritten and its revisions still tell.

**VersionedRecordProofs.** The invariant is

    IInv == TypeOK /\ RequestOK /\ SnapshotIsFaithful

where `RequestOK` says that a request about to write passed its checks on the row
it read. `RecordTypes` and `RecordSnapshots` hold for whatever versions clients
send; `RecordsWalk` (`Lookahead = 0 /\ Spec => WalkSpec`) is the refinement: initial
states are initial states of the walk, an insert is `Open`, an update `Edit`, a
transition `Move` because the status it was checked on is the one it overwrites
(`SnapshotIsFaithful`), a delete `Remove`, and every other step a stutter.
`LogExplainsStatus` counts: for every status, the moves into it and the moves out of it
balance but for the status started in and the one the row has (`Balanced`). Entries
are appended long after their moves, so the count is over `Known`, the entries
stored and those about to be: a move enters it in the very step that writes the
row (`MovingStep`), and a step that loses an entry leaves a request behind that failed
or was lost (`Missing`), which is when the property promises nothing (`QuietStep`).
`VersionsAdvanceByOne` is what remains of the walk for clients that guess versions: each write
of a record is its opening, one version more, or the deletion mark, so at most
one of the requests that name the same version overwrites it; `OnlyGuessesLeaveTheWalk` says
of such clients what `OnlyGuessesLeaveTheLedger` says above.

**StartupProofs.** `StartupTypes`, `ServesSeeded`, `SeedsAreAtomic`, `DeletedRowsStayDeleted`. The
invariant adds to the properties how far the seed has come (`Progress`: every
table before `at` has its seed) and that a code is not both live and deleted.
Two theorems frame the liveness property `ServesUnlessEmptied` from both sides. `StartsNeverFallBack`:
with dependencies answering and no table emptied, every step of a start advances its
`Rank` by one, and the rank ends at serving; the fairness that makes steps happen
is TLC's part. `EmptiedNeverServesAgain`: with a table emptied, no start ever serves. It needs
that the tables a start has passed hold a row (`Filled`), so that an emptied one is still
ahead of it.

**RateLimiterProofs.** `LimitHolds`: the requests a counter lets through have
different numbers, none above the limit, so an injection into `1..Limit` bounds
them. That numbers differ (`NumbersDiffer`) needs that a counter stands at least
as high as every number it has given (`CountersAhead`); for the local table this
holds for the current minute and the current life of the process only, which is
why cleaning must keep the current minute (`CleaningKeepsTheMinute`).
`BigTablesAreFresh`: cleaning at the size leaves buckets of one minute.
`OnlyFullCountersRefuse` is the other direction: the volume of a counter, the requests it has
counted and the answers it has lost, is never below its value (`VolumeInv`), so a
number above the limit means that as many were counted; the request refused is
one of them, the others are the limit. `ClientsAreLimited` adds the counters up: the pair
of counter and number tells the requests of a client, route and minute apart
(`CountersAreNumbered`), and there are `boot + 2` counters.

**ReadRoutesProofs.** `ReadTypes`, `GetsExplainThemselves`, `FiguresAreOrdered`, `HistoriesAreInRealTime`,
`ShownDecisionsAreLawful`, `HistoriesHaveLimits`.
Ledgers only grow, and only while the last entry is a draft (`Extended`), so what
explained a row when it was read still explains it when the revisions are. The
figures grow from statement to statement, since entries are only added and the
moment from which they are counted is fixed. For the history, `EntriesInRealTime` says that
a request answered before another wrote has the smaller stamp; `ListedInOrder` then
turns stamps into positions, for any choice among equal stamps. `HistoriesHaveLimits` rests on
the range of `NormalizedLimit`, which is never 0 (`Limits`). `ShownDecisionsAreLawful` is about
what a reader can check: ledgers are lawful (`LedgersLawful`, by `LawfulAppend` for each entry),
and the preparer a row names stays the first author of its ledger until the revisions are
read (`RowsNamePreparers`).

**WorkbenchProofs.** `PageTypes`, `MovesStartFromWhatWasSeen`, `OffersAreAccepted`, `ReloadsShowMoves`. A row of
a code that exists keeps its version or moves on (`Advances`), so a row once loaded
is past or present for ever, wherever it travels: list, dialog, request. A dialog
and the move confirmed from it carry a target the page offered for that very
row (`Offered`); that the frontend's offers are allowed by the backend is a fact about
the two sets of graphs and roles. A reload is sent after its move has been
answered and so sees a later version (`Outrun`). `MovesDoAsConfirmed` puts the dialog and the
effect together: a move that is accepted finds the row at the version it names,
and that row is the one shown; that the backend lets the holder of the token do it
means that `offeredTo` would have offered it, whoever pressed the button.
`SpinnerWaitsForSomething` is the part of `SpinnerStops` that needs no fairness.

**Only model-checked.** `ServesUnlessEmptied` and `SpinnerStops`, since liveness under fairness
is beyond the prover; what of them is safety is proved (`StartsNeverFallBack`,
`SpinnerWaitsForSomething`). The four violations under 4 are counterexamples of TLC.

## 6. Status

Done: `PriorityDecision` with `DecisionLedger` and `Access`; `Startup`; `RateLimiter`; `VersionedRecord` with
`RecordWalk` and `TransitionGraphs`; `ReadRoutes`; `Workbench`; and the proofs of their safety
properties. The components compose through their promises: `ReadRoutes` and `Workbench` run
on `DecisionLedger` and `RecordWalk`, which the services are proved to implement, and `Workbench`
shows that its users are the clients for whom `Lookahead = 0`.

What could follow: logging in, the expiry of tokens and the deactivation of a user
while a token lives (the guards trust the token); the paged lists with their
totals; a page that is left and visited again while its requests are in flight.

Left out for good: routing, JSON and GORM themselves (library code); password
hashing and token signatures (the model takes the token's claims as given);
configuration (a conjunction of range checks read once); styles and pages.
