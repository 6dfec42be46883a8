----------------------------- MODULE ReadRoutes -----------------------------
(***************************************************************************)
(* The read routes of the backend, statement by statement, while requests  *)
(* write.  Reading a decision or a page of them takes a statement for the  *)
(* rows and one for their revisions; the audit summary takes five; no      *)
(* transaction holds them together.  The history of a record is one        *)
(* statement, but its order is that of clocks read after the commits.      *)
(* The writers take the steps of DecisionLedger, the promise that          *)
(* PriorityDecision keeps, and append an audit entry to each.              *)
(*                                                                         *)
(* Sources: backend/internal/repository/priority_decision.go and           *)
(* security.go, service/security.go, dto/common.go, handler/system.go.     *)
(***************************************************************************)
EXTENDS Access, Naturals, Sequences, FiniteSets

CONSTANTS
    Code,               \* the codes of decisions
    Content,            \* the evidence of a revision
    SeedPreparer, SeedReviewer,
    Request,            \* the requests that write
    DefaultWindow,      \* 24 in dto/common.go, in units of the clock
    MaxWindow,          \* 24 * 90 there
    DefaultLimit,       \* 20 there
    MaxLimit,           \* 100 there
    Asked,              \* the numbers that queries ask for
    MaxClock            \* bounds the clock

ASSUME Ranges ==
    /\ {DefaultWindow, MaxWindow, DefaultLimit, MaxLimit} \subseteq Nat \ {0}
    /\ DefaultWindow <= MaxWindow /\ DefaultLimit <= MaxLimit
    /\ Asked \subseteq Nat /\ MaxClock \in Nat

ASSUME SeedAccounts ==
    /\ SeedPreparer \in User /\ SeedReviewer \in User \ {SeedPreparer}
    /\ RoleOf[SeedReviewer] \in {"reviewer", "admin"}

VARIABLES
    ledger, withdrawn,  \* those of DecisionLedger: revisions, deletion marks
    audit,              \* the rows of audit_logs
    clock,              \* the clock of the backend
    writer,             \* writer[r]: how far request r has come
    reader              \* one read: what its statements have returned

Ledger == INSTANCE DecisionLedger
vars == <<ledger, withdrawn, audit, clock, writer, reader>>

-----------------------------------------------------------------------------
(* Writers.                                                                 *)

Op == {"create", "update", "transition", "delete"}

Writer == [pc : {"idle", "done"}] \cup
          [pc : {"audit", "insert"}, action : Op, actor : User, code : Code,
           stamp : 0..MaxClock, earlier : SUBSET Request]

(* `earlier` are the requests that were answered before this one wrote.  No  *)
(* column holds it: properties alone read it.                               *)
Entry == [action : Op, actor : User, code : Code, stamp : 0..MaxClock,
          earlier : SUBSET Request, request : Request]

Answered == {r \in Request : writer[r].pc = "done"}

EntryOf(r) ==
    [request |-> r, action |-> writer[r].action, actor |-> writer[r].actor,
     code |-> writer[r].code, stamp |-> writer[r].stamp, earlier |-> writer[r].earlier]

Committed(r, u, a, c) ==
    writer' = [writer EXCEPT ![r] =
                 [pc |-> "audit", action |-> a, actor |-> u, code |-> c,
                  stamp |-> 0, earlier |-> Answered]]

(* The transaction of r commits. *)
Write(r) ==
    /\ writer[r].pc = "idle"
    /\ \E c \in Code, u \in User :
          \/ \E x \in Content : Ledger!Open(c, u, x) /\ Committed(r, u, "create", c)
          \/ \E x \in Content : Ledger!Amend(c, u, x) /\ Committed(r, u, "update", c)
          \/ \E s \in Ledger!Decided : Ledger!Decide(c, u, s) /\ Committed(r, u, "transition", c)
          \/ RequireRoles(u, {"admin"}) /\ Ledger!Withdraw(c) /\ Committed(r, u, "delete", c)
    /\ UNCHANGED <<audit, clock, reader>>

(* Audit reads the clock for CreatedAt. *)
Stamp(r) ==
    /\ writer[r].pc = "audit"
    /\ writer' = [writer EXCEPT ![r].pc = "insert", ![r].stamp = clock]
    /\ UNCHANGED <<ledger, withdrawn, audit, clock, reader>>

Done(r) == writer' = [writer EXCEPT ![r] = [pc |-> "done"]]

(* The entry is inserted and the request answered; the round trip to the     *)
(* database takes longer than the resolution of the clock.                  *)
AppendAudit(r) ==
    /\ writer[r].pc = "insert" /\ writer[r].stamp < clock
    /\ audit' = audit \cup {EntryOf(r)}
    /\ Done(r)
    /\ UNCHANGED <<ledger, withdrawn, clock, reader>>

(* The insert fails: the request is answered without an entry. *)
AuditFails(r) ==
    /\ writer[r].pc = "insert"
    /\ Done(r)
    /\ UNCHANGED <<ledger, withdrawn, audit, clock, reader>>

Tick ==
    /\ clock < MaxClock
    /\ clock' = clock + 1
    /\ UNCHANGED <<ledger, withdrawn, audit, writer, reader>>

-----------------------------------------------------------------------------
(* Get and List: the rows, then their revisions.                            *)

Version(c) == Len(ledger[c])
Visible(c) == ledger[c] # <<>> /\ ~withdrawn[c]

RowOf(c) == [version |-> Version(c), status |-> Ledger!LastEntry(c).status,
             content |-> Ledger!LastEntry(c).content, preparedBy |-> Ledger!Preparer(c)]

Idle == [pc |-> "idle"]

(* The rows of the decisions S: one of them for Get, all of them for List.   *)
FindRows(S) ==
    /\ reader = Idle
    /\ reader' = [pc |-> "preload", rows |-> [c \in {d \in S : Visible(d)} |-> RowOf(c)]]
    /\ UNCHANGED <<ledger, withdrawn, audit, clock, writer>>

(* Slip: the revisions come newest first. *)
RevisionsOf_Descending(c) == [k \in DOMAIN ledger[c] |-> ledger[c][Len(ledger[c]) + 1 - k]]

(* Order("version ASC") *)
RevisionsOf(c) == ledger[c]

(* Preload("Revisions") for the rows found. *)
PreloadRevisions ==
    /\ reader.pc = "preload"
    /\ reader' = [pc |-> "shown", rows |-> reader.rows,
                  revisions |-> [c \in DOMAIN reader.rows |-> RevisionsOf(c)]]
    /\ UNCHANGED <<ledger, withdrawn, audit, clock, writer>>

-----------------------------------------------------------------------------
(* The audit summary.                                                       *)

(* AuditSummaryQuery.Window, and the same again in AuditSummary. *)
Window(n) == IF n < 1 THEN DefaultWindow ELSE IF n > MaxWindow THEN MaxWindow ELSE n

(* now - window; 0 stands for any moment before the first entry. *)
Since(n) == IF Window(n) > clock THEN 0 ELSE clock - Window(n)

Statement == <<"total", "transitions", "actors", "actions", "entity_types">>

(* Slip: the transitions of all times are counted. *)
Counted_AllTime(name, since) ==
    {e \in audit : /\ name # "transitions" => e.stamp >= since
                   /\ name = "transitions" => e.action = "transition"}

(* The rows that a statement counts. *)
Counted(name, since) ==
    {e \in audit : /\ e.stamp >= since
                   /\ name = "transitions" => e.action = "transition"}

StartSummary(n) ==
    /\ reader = Idle
    /\ reader' = [pc |-> "summary", since |-> Since(n), counted |-> <<>>]
    /\ UNCHANGED <<ledger, withdrawn, audit, clock, writer>>

NextStatement ==
    /\ reader.pc = "summary" /\ Len(reader.counted) < Len(Statement)
    /\ LET name == Statement[Len(reader.counted) + 1]
       IN reader' = [pc |-> "summary", since |-> reader.since,
                     counted |-> Append(reader.counted, Counted(name, reader.since))]
    /\ UNCHANGED <<ledger, withdrawn, audit, clock, writer>>

(* A statement of any read fails: the caller is told of an error. *)
ReadFails ==
    /\ reader.pc \in {"preload", "summary"}
    /\ reader' = [pc |-> "failed"]
    /\ UNCHANGED <<ledger, withdrawn, audit, clock, writer>>

-----------------------------------------------------------------------------
(* The history of a record.                                                 *)

Least(m, n) == IF m < n THEN m ELSE n

(* Slips: the upper limit, or the default is forgotten. *)
NormalizedLimit_Uncapped(n) == IF n < 1 THEN DefaultLimit ELSE n
NormalizedLimit_NoDefault(n) == Least(n, MaxLimit)

(* EntityHistoryQuery.NormalizedLimit, and the same again in EntityHistory. *)
NormalizedLimit(n) == IF n < 1 THEN DefaultLimit ELSE IF n > MaxLimit THEN MaxLimit ELSE n

(* Slip: ORDER BY created_at without DESC. *)
Precedes_Ascending(e, f) == e.stamp <= f.stamp

(* ORDER BY created_at DESC: e may be listed before f. *)
Precedes(e, f) == e.stamp >= f.stamp

(* The results that ORDER BY ... LIMIT n may have over the rows S: entries   *)
(* with the same stamp come in any order.                                   *)
Listings(S, n) ==
    {h \in [1..Least(n, Cardinality(S)) -> S] :
        /\ \A i, j \in DOMAIN h : i < j => h[i] # h[j] /\ Precedes(h[i], h[j])
        /\ \A i \in DOMAIN h : \A e \in S :
              (\A j \in DOMAIN h : h[j] # e) => Precedes(h[i], e)}

EntityHistory(c, n) ==
    /\ reader = Idle
    /\ \E h \in Listings({e \in audit : e.code = c}, NormalizedLimit(n)) :
          reader' = [pc |-> "history", code |-> c, listed |-> h]
    /\ UNCHANGED <<ledger, withdrawn, audit, clock, writer>>

-----------------------------------------------------------------------------
Init ==
    /\ Ledger!Init
    /\ audit = {}
    /\ clock = 0
    /\ writer = [r \in Request |-> [pc |-> "idle"]]
    /\ reader = Idle

Read ==
    \/ \E c \in Code : FindRows({c})
    \/ FindRows(Code)
    \/ PreloadRevisions
    \/ \E n \in Asked : StartSummary(n)
    \/ NextStatement
    \/ ReadFails
    \/ \E c \in Code, n \in Asked : EntityHistory(c, n)

Next ==
    \/ \E r \in Request : Write(r) \/ Stamp(r) \/ AppendAudit(r) \/ AuditFails(r)
    \/ Tick
    \/ Read

Spec == Init /\ [][Next]_vars

-----------------------------------------------------------------------------
(* Properties.                                                              *)

RowShown == [version : Nat \ {0}, status : Ledger!Decided \cup {"draft"},
             content : Content, preparedBy : User]

TypeOK ==
    /\ audit \in SUBSET Entry
    /\ clock \in 0..MaxClock
    /\ writer \in [Request -> Writer]
    /\ reader.pc \in {"idle", "preload", "shown", "summary", "history", "failed"}
    /\ reader.pc \in {"preload", "shown"} => 
           /\ DOMAIN reader.rows \subseteq Code
           /\ \A c \in DOMAIN reader.rows : reader.rows[c] \in RowShown
    /\ reader.pc = "summary" => /\ reader.since \in 0..MaxClock
                                /\ reader.counted \in Seq(SUBSET audit)
                                /\ Len(reader.counted) <= Len(Statement)
    /\ reader.pc = "history" => /\ Len(reader.listed) <= MaxLimit
                                /\ \A i \in DOMAIN reader.listed : reader.listed[i] \in audit

Explains(past, row) ==
    /\ row.version \in DOMAIN past
    /\ past[row.version].status = row.status
    /\ past[row.version].content = row.content
    /\ past[1].author = row.preparedBy
    /\ row.status \in Ledger!Decided => row.version = Len(past)

(* A decision is shown with revisions that explain it although they are read *)
(* by a later statement: one of them is the version shown, and says what the *)
(* row says; the first names its preparer; and a decision shown as final has *)
(* no revision beyond it (Get and List, priority_decision.go:31-58).        *)
GetExplainsItself ==
    reader.pc = "shown" =>
        \A c \in DOMAIN reader.rows : Explains(reader.revisions[c], reader.rows[c])

(* The drafts of `past` are the preparer's or an admin's; what closes it is   *)
(* one decision of another who may review, on the evidence drafted last.    *)
Lawful(past, preparer) ==
    \A k \in DOMAIN past :
        \/ /\ past[k].status = "draft"
           /\ past[k].author = preparer \/ RoleOf[past[k].author] = "admin"
        \/ /\ past[k].status # "draft" /\ k = Len(past) /\ k > 1
           /\ past[k].author # preparer /\ RoleOf[past[k].author] \in {"reviewer", "admin"}
           /\ past[k].content = past[k - 1].content

(* What is shown of a decision proves on its own that the rules were kept:   *)
(* the revisions of the later statement are lawful for the preparer that the *)
(* row of the earlier one names (Get and List, priority_decision.go:31-58). *)
ShownIsLawful ==
    reader.pc = "shown" =>
        \A c \in DOMAIN reader.rows : Lawful(reader.revisions[c], reader.rows[c].preparedBy)

(* The count that the statement on actions gives for a. *)
CountOf(S, a) == Cardinality({e \in S : e.action = a})

(* The figures of a finished summary disagree in one direction only, that of *)
(* entries appended meanwhile: no figure exceeds what a later statement says *)
(* of the same entries (SummarizeAudits, security.go:62-90).                *)
SummaryFigures ==
    reader.pc = "summary" /\ Len(reader.counted) = Len(Statement) =>
        LET total == Cardinality(reader.counted[1])
            transitions == Cardinality(reader.counted[2])
            actors == Cardinality({e.actor : e \in reader.counted[3]})
            actions == reader.counted[4]
            entity_types == Cardinality(reader.counted[5])
        IN /\ total <= Cardinality(actions) /\ Cardinality(actions) <= entity_types
           /\ transitions <= CountOf(actions, "transition")
           /\ actors <= Cardinality(actions) /\ (actors = 0 => total = 0)

(* The history of a record is in real time: when a request was answered      *)
(* before another wrote, its entry is not listed above the other's, nor      *)
(* without it, although entries are stamped and appended after the commits   *)
(* (Audit, service/security.go:58-73; EntityHistory, security.go:92-103).   *)
HistoryInRealTime ==
    [][reader'.pc = "history" =>
         \A e \in audit : \A i \in DOMAIN reader'.listed :
            e.code = reader'.code /\ reader'.listed[i].request \in e.earlier =>
                \E j \in 1..i - 1 : reader'.listed[j] = e]_reader

(* Whatever number of entries is asked for, 0 or far too many, a history has *)
(* at most MaxLimit of them and is not empty when the record has an entry;   *)
(* what the limit cuts off is no newer than anything that is listed          *)
(* (NormalizedLimit, dto/common.go:50-58; EntityHistory, security.go:92-103). *)
HistoryIsBounded ==
    [][reader'.pc = "history" =>
         LET own == {e \in audit : e.code = reader'.code}
         IN /\ Len(reader'.listed) \in Least(1, Cardinality(own))..MaxLimit
            /\ \A e \in own : \A i \in DOMAIN reader'.listed :
                  (\A j \in DOMAIN reader'.listed : reader'.listed[j] # e) =>
                     e.stamp <= reader'.listed[i].stamp]_reader

=============================================================================
