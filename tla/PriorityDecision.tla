-------------------------- MODULE PriorityDecision --------------------------
(***************************************************************************)
(* The priority decision service: concurrent HTTP requests that create,    *)
(* update, decide (transition) and delete priority decisions over one      *)
(* database.  A request is a process: the goroutine of one handler call.   *)
(* It authorises the caller, reads the row, checks its business rules on   *)
(* that read, writes a whole row computed from it under an optimistic      *)
(* lock, appends an audit entry in a transaction of its own, and reads the *)
(* row again for the response.  Between any two database statements other  *)
(* requests run, and the process or the database connection may fail.      *)
(*                                                                         *)
(* Sources: backend/internal/service/priority_decision.go,                 *)
(* repository/priority_decision.go, repository/base.go (Delete),           *)
(* model/priority_decision.go, handler/priority_decision.go,               *)
(* handler/errors.go, database/database.go (seedPriorityDecision).         *)
(***************************************************************************)
EXTENDS Access, Sequences

CONSTANTS
    Code,           \* codes of decisions; a code names at most one row, ever
    Request,        \* request ids; each names one handler call
    Content,        \* the business fields of a decision, evidence included
    NoContent,      \* business fields of which a mandatory one trims to ""
    NoUser,         \* the preparer of a row that does not exist
    SeedRequest,    \* stands for the request ids of the seeded revisions
    SeedPreparer,   \* "operator" in seedPriorityDecision
    SeedReviewer,   \* "reviewer" in seedPriorityDecision
    Lookahead       \* how far the version a client sends may be ahead of the
                    \* row it names: 0 for a client that sends the version it
                    \* was shown, as frontend/src/stores/factory.ts does

Reviewers == {"reviewer", "admin"}

ASSUME SeedUsers ==
    /\ SeedPreparer \in User /\ SeedReviewer \in User
    /\ SeedPreparer # SeedReviewer
    /\ RoleOf[SeedReviewer] \in Reviewers

ASSUME Sentinels ==
    /\ NoContent \notin Content
    /\ NoUser \notin User
    /\ SeedRequest \notin Request

ASSUME LookaheadIsNat == Lookahead \in Nat

VARIABLES
    decision,    \* decision[c]: the row of c in priority_decisions
    revisions,   \* revisions[c]: the rows of c in priority_decision_revisions
    audit,       \* the PriorityDecision entries of audit_logs
    pc,          \* pc[r]: the statement request r executes next
    call,        \* call[r]: what request r asks for
    seen,        \* seen[r]: `current`, the row as request r read it
    reply        \* reply[r]: the outcome the client of r is told

db == <<decision, revisions, audit>>
vars == <<decision, revisions, audit, pc, call, seen, reply>>

-----------------------------------------------------------------------------
(* Rows, revisions and audit entries. *)

Final == {"observe", "restrict", "urgent"}
Status == {"draft"} \cup Final
SeedFinal == {"observe", "restrict"}

Row == [status : Status, version : Nat \ {0}, preparedBy : User,
        content : Content, deleted : BOOLEAN]

NoRow == [status |-> "none", version |-> 0, preparedBy |-> NoUser,
          content |-> NoContent, deleted |-> FALSE]

Revision == [status : Status, version : Nat \ {0}, content : Content,
             actor : User, request : Request \cup {SeedRequest}]

Op == {"create", "update", "transition", "delete"}

Entry == [request : Request, user : User, action : Op, code : Code,
          before : Status \cup {"none"}, after : Status \cup {"deleted"}]

Call(op, u, c, v, x, s) ==
    [content |-> x, user |-> u, code |-> c, op |-> op, expected |-> v, target |-> s]

Calls == [content : Content \cup {NoContent}, user : User, code : Code,
          op : Op, expected : Nat, target : Status \cup {"none"}]

NoCall == [op |-> "none"]

InFlight == {"write", "audit", "reread"}
Finished == {"done", "lost"}
Refusal == {"not_found", "conflict", "forbidden", "rejected"}

(* What First(&item, id) finds: a row that exists and is not soft-deleted. *)
Visible(row) == row.version # 0 /\ ~row.deleted

PriorityDecisionTransitions == [s \in Status |-> IF s = "draft" THEN Final ELSE {}]

CanTransition(from, to) ==
    /\ from \in DOMAIN PriorityDecisionTransitions
    /\ to \in PriorityDecisionTransitions[from]

-----------------------------------------------------------------------------
(* The seed: each code is absent, a seeded draft, or a seeded draft and the *)
(* independent review of it.                                                *)

SeedRow(s, x) ==
    [status |-> s, version |-> IF s = "draft" THEN 1 ELSE 2,
     preparedBy |-> SeedPreparer, content |-> x, deleted |-> FALSE]

SeedRevision(v, s, x, u) ==
    [version |-> v, status |-> s, content |-> x, actor |-> u, request |-> SeedRequest]

SeedRevisions(s, x) ==
    IF s = "draft"
    THEN <<SeedRevision(1, "draft", x, SeedPreparer)>>
    ELSE <<SeedRevision(1, "draft", x, SeedPreparer), SeedRevision(2, s, x, SeedReviewer)>>

SeedRows == {NoRow} \cup {SeedRow(s, x) : s \in {"draft"} \cup SeedFinal, x \in Content}

Init ==
    /\ decision \in [Code -> SeedRows]
    /\ revisions = [c \in Code |->
                      IF decision[c] = NoRow THEN <<>>
                      ELSE SeedRevisions(decision[c].status, decision[c].content)]
    /\ audit = {}
    /\ pc = [r \in Request |-> "idle"]
    /\ call = [r \in Request |-> NoCall]
    /\ seen = [r \in Request |-> NoRow]
    /\ reply = [r \in Request |-> "none"]

-----------------------------------------------------------------------------
(* A request arrives: role guard of the route, Get, business rules.  The    *)
(* rules are evaluated on the row as read here; no lock is held on it.      *)

(* Versions a client may send for c: any it can have been shown, or up to   *)
(* Lookahead more.  The input binding only demands that it is not 0.        *)
Shown(c) == {1} \cup 1..(decision[c].version + Lookahead)

CreateVerdict(k) ==
    IF ~RequireMinimumRole(k.user, "operator") THEN "forbidden"
    ELSE IF k.content = NoContent THEN "rejected"
    ELSE "accepted"

(* Slip: a final decision may be edited like a draft. *)
UpdateVerdict_AnyStatus(k, row) ==
    IF ~RequireMinimumRole(k.user, "operator") THEN "forbidden"
    ELSE IF ~Visible(row) THEN "not_found"
    ELSE IF k.user # row.preparedBy /\ RoleOf[k.user] # "admin" THEN "forbidden"
    ELSE IF k.content = NoContent THEN "rejected"
    ELSE "accepted"

(* Slip: the mandatory fields are not validated. *)
UpdateVerdict_NoValidation(k, row) ==
    IF ~RequireMinimumRole(k.user, "operator") THEN "forbidden"
    ELSE IF ~Visible(row) THEN "not_found"
    ELSE IF row.status # "draft" THEN "rejected"
    ELSE IF k.user # row.preparedBy /\ RoleOf[k.user] # "admin" THEN "forbidden"
    ELSE "accepted"

UpdateVerdict(k, row) ==
    IF ~RequireMinimumRole(k.user, "operator") THEN "forbidden"
    ELSE IF ~Visible(row) THEN "not_found"
    ELSE IF row.status # "draft" THEN "rejected"
    ELSE IF k.user # row.preparedBy /\ RoleOf[k.user] # "admin" THEN "forbidden"
    ELSE IF k.content = NoContent THEN "rejected"
    ELSE "accepted"

(* Slip: the preparer may decide its own draft. *)
TransitionVerdict_SelfReview(k, row) ==
    IF ~RequireMinimumRole(k.user, "operator") THEN "forbidden"
    ELSE IF ~Visible(row) THEN "not_found"
    ELSE IF RoleOf[k.user] \notin Reviewers THEN "forbidden"
    ELSE IF ~CanTransition(row.status, k.target) THEN "rejected"
    ELSE "accepted"

TransitionVerdict(k, row) ==
    IF ~RequireMinimumRole(k.user, "operator") THEN "forbidden"
    ELSE IF ~Visible(row) THEN "not_found"
    ELSE IF RoleOf[k.user] \notin Reviewers THEN "forbidden"
    ELSE IF k.user = row.preparedBy THEN "rejected"
    ELSE IF ~CanTransition(row.status, k.target) THEN "rejected"
    ELSE "accepted"

DeleteVerdict(k, row) ==
    IF ~RequireRoles(k.user, {"admin"}) THEN "forbidden"
    ELSE IF ~Visible(row) THEN "not_found"
    ELSE IF row.status # "draft" THEN "rejected"
    ELSE "accepted"

(* Request r asks for k; it goes on to write, or is refused at once. *)
Receive(r, k, row, verdict) ==
    /\ pc[r] = "idle"
    /\ call' = [call EXCEPT ![r] = k]
    /\ \/ /\ verdict = "accepted"
          /\ pc' = [pc EXCEPT ![r] = "write"]
          /\ seen' = [seen EXCEPT ![r] = row]
          /\ UNCHANGED reply
       \/ /\ verdict \in Refusal
          /\ pc' = [pc EXCEPT ![r] = "done"]
          /\ reply' = [reply EXCEPT ![r] = verdict]
          /\ UNCHANGED seen
    /\ UNCHANGED db

Create(r) ==
    \E u \in User, c \in Code, x \in Content \cup {NoContent} :
        LET k == Call("create", u, c, 0, x, "none") IN
        Receive(r, k, NoRow, CreateVerdict(k))

Update(r) ==
    \E u \in User, c \in Code, x \in Content \cup {NoContent} : \E v \in Shown(c) :
        LET k == Call("update", u, c, v, x, "none") IN
        Receive(r, k, decision[c], UpdateVerdict(k, decision[c]))

Transition(r) ==
    \E u \in User, c \in Code, s \in Status : \E v \in Shown(c) :
        LET k == Call("transition", u, c, v, NoContent, s) IN
        Receive(r, k, decision[c], TransitionVerdict(k, decision[c]))

Delete(r) ==
    \E u \in User, c \in Code :
        LET k == Call("delete", u, c, 0, NoContent, "none") IN
        Receive(r, k, decision[c], DeleteVerdict(k, decision[c]))

-----------------------------------------------------------------------------
(* The write: one transaction, or one statement, that the database executes *)
(* atomically.                                                              *)

DraftRow(k) ==
    [status |-> "draft", version |-> 1, preparedBy |-> k.user,
     content |-> k.content, deleted |-> FALSE]

UpdatedRow(k, row) == [row EXCEPT !.content = k.content, !.version = k.expected + 1]

DecidedRow(k, row) == [row EXCEPT !.status = k.target, !.version = k.expected + 1]

(* The whole row that r writes: what it read, changed as it asked. *)
Item(r) ==
    IF call[r].op = "create" THEN DraftRow(call[r])
    ELSE IF call[r].op = "update" THEN UpdatedRow(call[r], seen[r])
    ELSE DecidedRow(call[r], seen[r])

NewRevision(r) ==
    [version |-> Item(r).version, status |-> Item(r).status, content |-> Item(r).content,
     actor |-> call[r].user, request |-> r]

(* Slips: the WHERE clause forgets the soft-delete scope, or compares with   *)
(* the new version.                                                         *)
RowMatches_Unscoped(row, v) == row.version = v
RowMatches_NewVersion(row, v) == Visible(row) /\ row.version = v + 1

(* WHERE id = ? AND version = ?, in the default scope without deleted rows. *)
RowMatches(row, v) == Visible(row) /\ row.version = v

(* Slips: the content, or the version column is omitted as well. *)
Overwrite_OmitContent(row, item) ==
    [item EXCEPT !.preparedBy = row.preparedBy, !.deleted = row.deleted, !.content = row.content]

Overwrite_OmitVersion(row, item) ==
    [item EXCEPT !.preparedBy = row.preparedBy, !.deleted = row.deleted, !.version = row.version]

(* Every column is written, except those of Omit(...). *)
Overwrite(row, item) == [item EXCEPT !.preparedBy = row.preparedBy, !.deleted = row.deleted]

(* r's handler returns with reply a. *)
Return(r, a) ==
    /\ pc' = [pc EXCEPT ![r] = "done"]
    /\ reply' = [reply EXCEPT ![r] = a]

Goto(r, l) ==
    /\ pc' = [pc EXCEPT ![r] = l]
    /\ UNCHANGED reply

(* The write took effect; the acknowledgement of it may still be lost.      *)
Committed(r) == Goto(r, "audit") \/ Return(r, "error")

(* The unique index on (decision, version) lets rev join the revisions of c. *)
IsUnique(c, rev) == \A i \in DOMAIN revisions[c] : revisions[c][i].version # rev.version

(* CreateWithRevision: Code is unique over all rows, deleted ones included,  *)
(* and a row that is new has no revisions for the index to compare with.    *)
CreateWithRevision(r) ==
    LET c == call[r].code IN
    /\ pc[r] = "write" /\ call[r].op = "create"
    /\ \/ /\ decision[c].version = 0
          /\ decision' = [decision EXCEPT ![c] = Item(r)]
          /\ revisions' = [revisions EXCEPT ![c] = Append(@, NewRevision(r))]
          /\ Committed(r)
       \/ /\ decision[c].version # 0
          /\ Return(r, "error")
          /\ UNCHANGED <<decision, revisions>>
    /\ UNCHANGED <<audit, call, seen>>

(* UpdateWithRevision, for update and transition.  A revision that the index *)
(* refuses rolls the transaction back: StatementFails.                      *)
UpdateWithRevision(r) ==
    LET c == call[r].code IN
    /\ pc[r] = "write" /\ call[r].op \in {"update", "transition"}
    /\ \/ /\ RowMatches(decision[c], call[r].expected)
          /\ IsUnique(c, NewRevision(r))
          /\ decision' = [decision EXCEPT ![c] = Overwrite(@, Item(r))]
          /\ revisions' = [revisions EXCEPT ![c] = Append(@, NewRevision(r))]
          /\ Committed(r)
       \/ /\ ~RowMatches(decision[c], call[r].expected)
          /\ Return(r, "conflict")
          /\ UNCHANGED <<decision, revisions>>
    /\ UNCHANGED <<audit, call, seen>>

(* Store.Delete: neither the version nor the status is in its WHERE clause. *)
SoftDelete(r) ==
    LET c == call[r].code IN
    /\ pc[r] = "write" /\ call[r].op = "delete"
    /\ \/ /\ Visible(decision[c])
          /\ decision' = [decision EXCEPT ![c].deleted = TRUE]
          /\ Committed(r)
       \/ /\ ~Visible(decision[c])
          /\ Return(r, "not_found")
          /\ UNCHANGED decision
    /\ UNCHANGED <<revisions, audit, call, seen>>

-----------------------------------------------------------------------------
(* After the write: the audit entry, and the row for the response.          *)

(* Slip: a failed audit of a transition is ignored too. *)
BestEffortAudit_Always(op) == TRUE

(* The audit entries whose failure the service ignores.                     *)
BestEffortAudit(op) == op \in {"create", "update"}

(* Slip: the state after a transition is taken from the row as it was read.  *)
StateAfter_AsRead(r) == seen[r].status

StateAfter(r) ==
    IF call[r].op = "delete" THEN "deleted" ELSE Item(r).status

AuditEntry(r) ==
    [request |-> r, user |-> call[r].user, action |-> call[r].op, code |-> call[r].code,
     before |-> seen[r].status, after |-> StateAfter(r)]

AppendAudit(r) ==
    /\ pc[r] = "audit"
    /\ audit' = audit \cup {AuditEntry(r)}
    /\ \/ call[r].op = "delete" /\ Return(r, "ok")
       \/ call[r].op # "delete" /\ Goto(r, "reread")
    /\ UNCHANGED <<decision, revisions, call, seen>>

(* AppendAudit returns an error, whether or not the entry was stored.       *)
AuditFails(r) ==
    /\ pc[r] = "audit"
    /\ audit' \in {audit, audit \cup {AuditEntry(r)}}
    /\ \/ BestEffortAudit(call[r].op) /\ Goto(r, "reread")
       \/ ~BestEffortAudit(call[r].op) /\ Return(r, "error")
    /\ UNCHANGED <<decision, revisions, call, seen>>

(* The closing Get; the row may have been deleted meanwhile.                *)
Reread(r) ==
    /\ pc[r] = "reread"
    /\ \/ Visible(decision[call[r].code]) /\ Return(r, "ok")
       \/ ~Visible(decision[call[r].code]) /\ Return(r, "not_found")
    /\ UNCHANGED <<decision, revisions, audit, call, seen>>

(* A statement fails without effect: connection lost, deadline, client gone. *)
StatementFails(r) ==
    /\ pc[r] \in {"write", "reread"}
    /\ Return(r, "error")
    /\ UNCHANGED <<decision, revisions, audit, call, seen>>

(* The backend process stops: every request it was serving is lost.         *)
Crash ==
    /\ \E r \in Request : pc[r] \in InFlight
    /\ pc' = [r \in Request |-> IF pc[r] \in InFlight THEN "lost" ELSE pc[r]]
    /\ UNCHANGED <<decision, revisions, audit, call, seen, reply>>

Step(r) ==
    \/ Create(r) \/ Update(r) \/ Transition(r) \/ Delete(r)
    \/ CreateWithRevision(r) \/ UpdateWithRevision(r) \/ SoftDelete(r)
    \/ AppendAudit(r) \/ AuditFails(r) \/ Reread(r) \/ StatementFails(r)

Next == (\E r \in Request : Step(r)) \/ Crash

Spec == Init /\ [][Next]_vars

-----------------------------------------------------------------------------
(* Invariants.                                                              *)

(* Every variable has its type; in particular no stored row or revision has *)
(* blank mandatory fields, and no row loses its preparer.                   *)
TypeOK ==
    /\ decision \in [Code -> Row \cup {NoRow}]
    /\ revisions \in [Code -> Seq(Revision)]
    /\ audit \subseteq Entry
    /\ pc \in [Request -> {"idle"} \cup InFlight \cup Finished]
    /\ call \in [Request -> Calls \cup {NoCall}]
    /\ seen \in [Request -> Row \cup {NoRow}]
    /\ reply \in [Request -> {"none", "ok", "error"} \cup Refusal]

(* The revisions of a decision are numbered 1, 2, ... up to its version,     *)
(* whatever requests raced, failed or were cut off: the evidence chain has   *)
(* no gap, no fork and no version without its revision.                      *)
RevisionChain ==
    \A c \in Code :
        /\ Len(revisions[c]) = decision[c].version
        /\ \A i \in DOMAIN revisions[c] : revisions[c][i].version = i

(* The newest revision of a decision says what its row says, although both   *)
(* are copies of a row that was read before the lock was taken.              *)
RowIsNewestRevision ==
    \A c \in Code : LET row == decision[c] IN
        row.version # 0 =>
            /\ revisions[c][row.version].status = row.status
            /\ revisions[c][row.version].content = row.content

(* A final status is decided by a reviewer or admin who is not the preparer  *)
(* of the decision that is stored, and every draft is the work of that       *)
(* preparer or of an admin.                                                  *)
SeparationOfDuty ==
    \A c \in Code : \A i \in DOMAIN revisions[c] :
        LET rev == revisions[c][i] IN
        IF rev.status \in Final
        THEN RoleOf[rev.actor] \in Reviewers /\ rev.actor # decision[c].preparedBy
        ELSE RoleOf[rev.actor] = "admin" \/ rev.actor = decision[c].preparedBy

(* A final revision confirms exactly the evidence of the draft revision      *)
(* before it: an edit that slips in between the reviewer's read and the      *)
(* reviewer's write makes the review fail instead of being signed unseen.    *)
ReviewedEvidence ==
    \A c \in Code : \A i \in DOMAIN revisions[c] :
        revisions[c][i].status \in Final =>
            /\ i > 1
            /\ revisions[c][i - 1].status = "draft"
            /\ revisions[c][i - 1].content = revisions[c][i].content

(* The revision r has written, if it has written one.                       *)
Wrote(r) == \E c \in Code : \E i \in DOMAIN revisions[c] : revisions[c][i].request = r

(* Every audit entry of a create, update or transition tells the truth: its  *)
(* request wrote a revision with the state after, on top of one with the     *)
(* state before.                                                             *)
AuditAgrees ==
    \A e \in audit : e.action # "delete" =>
        \E i \in DOMAIN revisions[e.code] : LET rev == revisions[e.code][i] IN
            /\ rev.request = e.request /\ rev.actor = e.user /\ rev.status = e.after
            /\ IF i = 1 THEN e.before = "none" ELSE revisions[e.code][i - 1].status = e.before

Audited(r) == \E e \in audit : e.request = r

(* What the client is told is true.  ok: the request took effect at exactly  *)
(* the version it named, and a transition or delete is audited.  A refusal   *)
(* other than not_found: the request changed nothing.                        *)
ReplyHonest ==
    \A r \in Request : pc[r] = "done" =>
        LET k == call[r] IN
        /\ reply[r] = "ok" =>
              /\ k.op \in {"update", "transition"} =>
                    /\ Len(revisions[k.code]) > k.expected
                    /\ revisions[k.code][k.expected + 1].request = r
              /\ k.op = "create" => revisions[k.code][1].request = r
              /\ k.op = "delete" => decision[k.code].deleted
              /\ k.op \in {"transition", "delete"} => Audited(r)
        /\ reply[r] \in {"conflict", "forbidden", "rejected"} => ~Wrote(r) /\ ~Audited(r)

(* Nobody loses to nobody: a request that is told of a version conflict lost *)
(* to another request that really wrote the next version, or to a delete.    *)
(* Holds for clients that send the version they were shown.                  *)
ConflictHasWinner ==
    \A r \in Request : reply[r] = "conflict" =>
        LET k == call[r] IN
        \/ decision[k.code].deleted
        \/ /\ Len(revisions[k.code]) > k.expected
           /\ revisions[k.code][k.expected + 1].request # r

(* Why the locking works, used to prove the others: a request about to write *)
(* read a draft whose preparer is still the row's, and if the row still has  *)
(* the version it read, it still has the status and content it read.         *)
SnapshotIsFaithful ==
    \A r \in Request : pc[r] = "write" /\ call[r].op # "create" =>
        LET row == decision[call[r].code] IN
        /\ seen[r].status = "draft"
        /\ seen[r].version \in 1..row.version
        /\ seen[r].preparedBy = row.preparedBy
        /\ seen[r].version = row.version =>
              seen[r].status = row.status /\ seen[r].content = row.content

-----------------------------------------------------------------------------
(* Action properties.                                                       *)

(* observe, restrict and urgent are terminal: once a decision has a final    *)
(* status no step changes its row (except for the soft-delete mark) and no   *)
(* step adds to, drops or rewrites its revisions.                            *)
FinalIsFrozen ==
    [][\A c \in Code : decision[c].status \in Final =>
          /\ decision'[c] = [decision[c] EXCEPT !.deleted = decision'[c].deleted]
          /\ revisions'[c] = revisions[c]]_vars

(* The ledger of c that the revisions amount to.                             *)
LedgerOf(c) ==
    [i \in DOMAIN revisions[c] |->
        [status |-> revisions[c][i].status, content |-> revisions[c][i].content,
         author |-> revisions[c][i].actor]]

Ledger == INSTANCE DecisionLedger WITH
              ledger <- [c \in Code |-> LedgerOf(c)],
              withdrawn <- [c \in Code |-> decision[c].deleted]

(* The service keeps the promise of DecisionLedger: every step, however the  *)
(* requests interleave, adds one allowed entry, withdraws, or stutters.      *)
LedgerSpec == Ledger!Spec

-----------------------------------------------------------------------------
(* Statements of the documentation that the code does not keep.             *)

(* service/errors.go: "final priority decisions are immutable"; deletion is  *)
(* refused for them.  Violated: Delete checks the status it read, and its    *)
(* UPDATE carries neither that status nor a version.                         *)
FinalNeverDeleted ==
    \A c \in Code : ~(decision[c].deleted /\ decision[c].status \in Final)

(* README.md: every state change is written to the audit log.  A service that *)
(* has been told that its decision is committed is at the audit statement,    *)
(* and leaves it with the entry stored.  Violated: the entry is a statement  *)
(* of its own; when it fails, or the process stops before it, nothing will   *)
(* ever mention the final decision.  (A commit of which the service is not   *)
(* told never gets to this statement, and is not what is meant.)             *)
FinalsAreAudited ==
    [][\A r \in Request :
          pc[r] = "audit" /\ call[r].op = "transition" /\ pc'[r] # "audit" => Audited(r)']_vars

=============================================================================
