--------------------------- MODULE VersionedRecord ---------------------------
(***************************************************************************)
(* The services of bridges, inspections and defects: concurrent requests   *)
(* that create, update, move and delete records.  The three services are   *)
(* the same program over three tables and three status graphs; every       *)
(* record takes its part by the kind of its code.  Like the decisions they *)
(* check their rules on a row read without a lock, write the whole row     *)
(* under an optimistic lock on the version, and audit after the commit;    *)
(* unlike them they keep no revisions, and a record in any status may be   *)
(* edited and deleted.                                                     *)
(*                                                                         *)
(* Sources: backend/internal/service, handler, repository and model of     *)
(* bridge_asset, inspection_round and defect_finding; repository/base.go.  *)
(***************************************************************************)
EXTENDS Access, TransitionGraphs, FiniteSets

CONSTANTS
    Code,           \* codes of records; a code names at most one row, ever
    KindOf,         \* the table a code belongs to
    Request,        \* request ids; each names one handler call
    Content,        \* the business fields of a record
    NoContent,      \* business fields of which a mandatory one trims to ""
    Lookahead       \* how far the version a client sends may be ahead of the
                    \* row it names: 0 for a client that sends one it was shown

ASSUME KindsAssigned == KindOf \in [Code -> Kind]
ASSUME BlankIsNoContent == NoContent \notin Content
ASSUME LookaheadIsNat == Lookahead \in Nat

VARIABLES
    record,      \* record[c]: the row of c
    audit,       \* the entries of audit_logs about records
    pc,          \* pc[r]: the statement request r executes next
    call,        \* call[r]: what request r asks for
    seen,        \* seen[r]: the row as request r read it
    reply        \* reply[r]: the outcome the client of r is told

db == <<record, audit>>
vars == <<record, audit, pc, call, seen, reply>>

-----------------------------------------------------------------------------
Row == [status : Status, version : Nat \ {0}, content : Content, deleted : BOOLEAN]
NoRow == [status |-> "none", version |-> 0, content |-> NoContent, deleted |-> FALSE]

Op == {"create", "update", "transition", "delete"}

Call(op, c, v, x, s) ==
    [status |-> s, content |-> x, op |-> op, code |-> c, expected |-> v]
Calls == [status : Status \cup {"none"}, content : Content \cup {NoContent},
          op : Op, code : Code, expected : Nat]
NoCall == [op |-> "none"]

Entry == [request : Request, action : Op, code : Code,
          before : Status \cup {"none"}, after : Status \cup {"deleted"}]

InFlight == {"write", "audit", "reread"}
Refusal == {"not_found", "conflict", "forbidden", "rejected"}

(* What First(&item, id) finds: a row that exists and is not soft-deleted. *)
Visible(row) == row.version # 0 /\ ~row.deleted

OpenedRow(s, x) == [status |-> s, version |-> 1, content |-> x, deleted |-> FALSE]

(* Each code is absent or seeded. *)
Init ==
    /\ record \in [Code -> {NoRow} \cup {OpenedRow(s, x) : s \in Status, x \in Content}]
    /\ \A c \in Code : record[c] # NoRow => record[c].status \in SeedStatus[KindOf[c]]
    /\ audit = {}
    /\ pc = [r \in Request |-> "idle"]
    /\ call = [r \in Request |-> NoCall]
    /\ seen = [r \in Request |-> NoRow]
    /\ reply = [r \in Request |-> "none"]

-----------------------------------------------------------------------------
(* A request arrives: role guard of the route, Get, business rules.         *)

Shown(c) == {1} \cup 1..(record[c].version + Lookahead)

CreateVerdict(u, k) ==
    IF ~RequireMinimumRole(u, "operator") THEN "forbidden"
    ELSE IF k.content = NoContent THEN "rejected"
    ELSE "accepted"

(* Slip: the mandatory fields are not validated. *)
UpdateVerdict_NoValidation(u, k, row) ==
    IF ~RequireMinimumRole(u, "operator") THEN "forbidden"
    ELSE IF ~Visible(row) THEN "not_found"
    ELSE "accepted"

UpdateVerdict(u, k, row) ==
    IF ~RequireMinimumRole(u, "operator") THEN "forbidden"
    ELSE IF ~Visible(row) THEN "not_found"
    ELSE IF k.content = NoContent THEN "rejected"
    ELSE "accepted"

TransitionVerdict(u, k, row) ==
    IF ~RequireMinimumRole(u, "operator") THEN "forbidden"
    ELSE IF ~Visible(row) THEN "not_found"
    ELSE IF ~CanTransition(KindOf[k.code], row.status, k.status) THEN "rejected"
    ELSE "accepted"

DeleteVerdict(u, row) ==
    IF ~RequireRoles(u, {"admin"}) THEN "forbidden"
    ELSE IF ~Visible(row) THEN "not_found"
    ELSE "accepted"

(* Request r asks for k; it goes on to write, or is refused at once, and     *)
(* then what it asked for does not matter any more.                         *)
Receive(r, k, row, verdict) ==
    /\ pc[r] = "idle"
    /\ \/ /\ verdict = "accepted"
          /\ pc' = [pc EXCEPT ![r] = "write"]
          /\ call' = [call EXCEPT ![r] = k]
          /\ seen' = [seen EXCEPT ![r] = row]
          /\ UNCHANGED reply
       \/ /\ verdict \in Refusal
          /\ pc' = [pc EXCEPT ![r] = "done"]
          /\ reply' = [reply EXCEPT ![r] = verdict]
          /\ UNCHANGED <<call, seen>>
    /\ UNCHANGED db

Create(r) ==
    \E u \in User, c \in Code, x \in Content \cup {NoContent} :
        LET k == Call("create", c, 0, x, "none") IN
        Receive(r, k, NoRow, CreateVerdict(u, k))

Update(r) ==
    \E u \in User, c \in Code, x \in Content \cup {NoContent} : \E v \in Shown(c) :
        LET k == Call("update", c, v, x, "none") IN
        Receive(r, k, record[c], UpdateVerdict(u, k, record[c]))

Transition(r) ==
    \E u \in User, c \in Code, s \in Status : \E v \in Shown(c) :
        LET k == Call("transition", c, v, NoContent, s) IN
        Receive(r, k, record[c], TransitionVerdict(u, k, record[c]))

Delete(r) ==
    \E u \in User, c \in Code :
        LET k == Call("delete", c, 0, NoContent, "none") IN
        Receive(r, k, record[c], DeleteVerdict(u, record[c]))

-----------------------------------------------------------------------------
(* The write, one statement.                                                *)

(* Slip: the version is not advanced. *)
MovedRow_SameVersion(k, row) == [row EXCEPT !.status = k.status, !.version = k.expected]

MovedRow(k, row) == [row EXCEPT !.status = k.status, !.version = k.expected + 1]
EditedRow(k, row) == [row EXCEPT !.content = k.content, !.version = k.expected + 1]

(* The whole row that r writes. *)
Item(r) ==
    LET k == call[r] IN
    IF k.op = "create" THEN OpenedRow(InitialStatus[KindOf[k.code]], k.content)
    ELSE IF k.op = "update" THEN EditedRow(k, seen[r])
    ELSE MovedRow(k, seen[r])

(* Slip: the WHERE clause forgets the version. *)
RowMatches_AnyVersion(row, v) == Visible(row)

(* WHERE id = ? AND version = ?, in the default scope without deleted rows. *)
RowMatches(row, v) == Visible(row) /\ row.version = v

(* Every column is written, except those of Omit(...). *)
Overwrite(row, item) == [item EXCEPT !.deleted = row.deleted]

Return(r, a) ==
    /\ pc' = [pc EXCEPT ![r] = "done"]
    /\ reply' = [reply EXCEPT ![r] = a]

Goto(r, l) ==
    /\ pc' = [pc EXCEPT ![r] = l]
    /\ UNCHANGED reply

(* The write took effect; the acknowledgement of it may still be lost.      *)
Committed(r) == Goto(r, "audit") \/ Return(r, "error")

(* Store.Create: Code is unique over all rows, deleted ones included.       *)
Insert(r) ==
    LET c == call[r].code IN
    /\ pc[r] = "write" /\ call[r].op = "create"
    /\ \/ /\ record[c].version = 0
          /\ record' = [record EXCEPT ![c] = Item(r)]
          /\ Committed(r)
       \/ /\ record[c].version # 0
          /\ Return(r, "error")
          /\ UNCHANGED record
    /\ UNCHANGED <<audit, call, seen>>

(* Store.Update, for update and transition.                                 *)
WriteUpdate(r) ==
    LET c == call[r].code IN
    /\ pc[r] = "write" /\ call[r].op \in {"update", "transition"}
    /\ \/ /\ RowMatches(record[c], call[r].expected)
          /\ record' = [record EXCEPT ![c] = Overwrite(@, Item(r))]
          /\ Committed(r)
       \/ /\ ~RowMatches(record[c], call[r].expected)
          /\ Return(r, "conflict")
          /\ UNCHANGED record
    /\ UNCHANGED <<audit, call, seen>>

(* Store.Delete: neither the version nor the status is in its WHERE clause. *)
SoftDelete(r) ==
    LET c == call[r].code IN
    /\ pc[r] = "write" /\ call[r].op = "delete"
    /\ \/ /\ Visible(record[c])
          /\ record' = [record EXCEPT ![c].deleted = TRUE]
          /\ Committed(r)
       \/ /\ ~Visible(record[c])
          /\ Return(r, "not_found")
          /\ UNCHANGED record
    /\ UNCHANGED <<audit, call, seen>>

-----------------------------------------------------------------------------
(* After the write.                                                         *)

(* The audit entries whose failure the service ignores.                     *)
BestEffortAudit(op) == op \in {"create", "update"}

(* Slip: the state before is taken from the row after it has been changed.   *)
StateBefore_AfterAssignment(r) ==
    IF call[r].op = "transition" THEN Item(r).status ELSE seen[r].status

StateBefore(r) == seen[r].status

StateAfter(r) == IF call[r].op = "delete" THEN "deleted" ELSE Item(r).status

AuditEntry(r) ==
    [request |-> r, action |-> call[r].op, code |-> call[r].code,
     before |-> StateBefore(r), after |-> StateAfter(r)]

(* The audit is done with: create answers with the row it made, delete with  *)
(* nothing, update and transition read the row again.                       *)
Audited(r) ==
    \/ call[r].op \in {"create", "delete"} /\ Return(r, "ok")
    \/ call[r].op \in {"update", "transition"} /\ Goto(r, "reread")

AppendAudit(r) ==
    /\ pc[r] = "audit"
    /\ audit' = audit \cup {AuditEntry(r)}
    /\ Audited(r)
    /\ UNCHANGED <<record, call, seen>>

(* AppendAudit returns an error, whether or not the entry was stored.       *)
AuditFails(r) ==
    /\ pc[r] = "audit"
    /\ audit' \in {audit, audit \cup {AuditEntry(r)}}
    /\ \/ BestEffortAudit(call[r].op) /\ Audited(r)
       \/ ~BestEffortAudit(call[r].op) /\ Return(r, "error")
    /\ UNCHANGED <<record, call, seen>>

(* The closing Get; the row may have been deleted meanwhile.                *)
Reread(r) ==
    /\ pc[r] = "reread"
    /\ \/ Visible(record[call[r].code]) /\ Return(r, "ok")
       \/ ~Visible(record[call[r].code]) /\ Return(r, "not_found")
    /\ UNCHANGED <<record, audit, call, seen>>

(* A statement fails without effect: connection lost, deadline, client gone. *)
StatementFails(r) ==
    /\ pc[r] \in {"write", "reread"}
    /\ Return(r, "error")
    /\ UNCHANGED <<record, audit, call, seen>>

(* The backend process stops: every request it was serving is lost.         *)
Crash ==
    /\ \E r \in Request : pc[r] \in InFlight
    /\ pc' = [r \in Request |-> IF pc[r] \in InFlight THEN "lost" ELSE pc[r]]
    /\ UNCHANGED <<record, audit, call, seen, reply>>

Step(r) ==
    \/ Create(r) \/ Update(r) \/ Transition(r) \/ Delete(r)
    \/ Insert(r) \/ WriteUpdate(r) \/ SoftDelete(r)
    \/ AppendAudit(r) \/ AuditFails(r) \/ Reread(r) \/ StatementFails(r)

Next == Crash \/ \E r \in Request : Step(r)

Spec == Init /\ [][Next]_vars

-----------------------------------------------------------------------------
(* Properties.                                                              *)

(* Every variable has its type, and a row a status of its own kind. *)
TypeOK ==
    /\ record \in [Code -> Row \cup {NoRow}]
    /\ \A c \in Code : record[c] # NoRow => record[c].status \in StatusOf(KindOf[c])
    /\ audit \subseteq Entry
    /\ pc \in [Request -> {"idle", "done", "lost"} \cup InFlight]
    /\ call \in [Request -> Calls \cup {NoCall}]
    /\ seen \in [Request -> Row \cup {NoRow}]
    /\ reply \in [Request -> {"none", "ok", "error"} \cup Refusal]

(* Why the lock works: a request about to overwrite a row read it at some    *)
(* version up to the current one, and if the row still has that version it   *)
(* still is what was read, but for the deletion mark.                        *)
SnapshotIsFaithful ==
    \A r \in Request : pc[r] = "write" /\ call[r].op # "create" =>
        LET row == record[call[r].code] IN
        /\ seen[r].version \in 1..row.version
        /\ seen[r].version = row.version =>
              seen[r].status = row.status /\ seen[r].content = row.content

Walk == INSTANCE RecordWalk

(* Each version of a record is one edit of its content or one legal move of  *)
(* its status, never both and never the undoing of another request's work,   *)
(* however requests race, fail or are cut off.                               *)
WalkSpec == Walk!Spec

(* The audit entries of the moves of c. *)
Moves(c) == {e \in audit : e.code = c /\ e.action = "transition"}

(* r may have moved c without an entry that says so. *)
Unrecorded(r, c) ==
    /\ call[r].op = "transition" /\ call[r].code = c
    /\ pc[r] \in {"audit", "lost"} \/ reply[r] = "error"

Number(S) == Cardinality(S)
One(condition) == IF condition THEN 1 ELSE 0

(* The audit log explains the status of every record: unless a move of it is *)
(* still to be audited or its request failed, the entries are legal moves    *)
(* that lead from a status a record may start in to the one the row has, in  *)
(* whatever order they were appended.                                        *)
AuditExplainsStatus ==
    \A c \in Code :
        record[c] # NoRow /\ (\A r \in Request : ~Unrecorded(r, c)) =>
            /\ \A e \in Moves(c) : CanTransition(KindOf[c], e.before, e.after)
            /\ \E start \in SeedStatus[KindOf[c]] : \A s \in StatusOf(KindOf[c]) :
                  Number({e \in Moves(c) : e.after = s}) + One(s = start)
                  = Number({e \in Moves(c) : e.before = s}) + One(s = record[c].status)

=============================================================================
