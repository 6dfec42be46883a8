------------------------ MODULE DecisionAuditProofs ------------------------
(***************************************************************************)
(* More theorems about PriorityDecision: that audit entries and replies    *)
(* are true, however the requests interleave and wherever they fail.  The  *)
(* invariant KnownInv says, for each request and each statement it may be  *)
(* at, what it has written and what is recorded of it; it rests on IInv of *)
(* PriorityDecisionProofs.                                                 *)
(***************************************************************************)
EXTENDS PriorityDecisionProofs

Fresh(r) == ~Wrote(r) /\ ~Audited(r)

(* The entry e tells the truth (AuditAgrees). *)
Explained(e) ==
    \E i \in DOMAIN revisions[e.code] : LET rev == revisions[e.code][i] IN
        /\ rev.request = e.request /\ rev.actor = e.user /\ rev.status = e.after
        /\ IF i = 1 THEN e.before = "none" ELSE revisions[e.code][i - 1].status = e.before

(* The write of r took effect, at the version that r named. *)
Took(r) ==
    LET k == call[r] IN
    /\ k \in Calls
    /\ k.op = "create" => 1 \in DOMAIN revisions[k.code] /\ revisions[k.code][1].request = r
    /\ k.op \in {"update", "transition"} =>
         /\ k.expected + 1 \in DOMAIN revisions[k.code]
         /\ revisions[k.code][k.expected + 1].request = r
    /\ k.op = "delete" => decision[k.code].deleted

(* Somebody else was faster than r. *)
Overtaken(r) ==
    LET k == call[r] IN
    /\ k \in Calls
    /\ \/ decision[k.code].deleted
       \/ /\ k.expected + 1 \in DOMAIN revisions[k.code]
          /\ revisions[k.code][k.expected + 1].request # r

Known(r) ==
    /\ pc[r] # "done" => reply[r] = "none"
    /\ pc[r] \in {"idle", "write"} => Fresh(r)
    /\ pc[r] \in {"audit", "reread"} =>
         Took(r) /\ (Lookahead = 0 /\ call[r].op # "delete" => Explained(AuditEntry(r)))
    /\ pc[r] = "reread" =>
         call[r].op # "delete" /\ (call[r].op = "transition" => Audited(r))
    /\ pc[r] = "done" /\ reply[r] = "ok" =>
         Took(r) /\ (call[r].op \in {"transition", "delete"} => Audited(r))
    /\ pc[r] = "done" /\ reply[r] \in {"conflict", "forbidden", "rejected"} => Fresh(r)
    /\ Lookahead = 0 /\ reply[r] = "conflict" => Overtaken(r)

KnownInv == /\ \A r \in Request : Known(r)
            /\ Lookahead = 0 => AuditAgrees

-----------------------------------------------------------------------------
(* What is stored stays. *)

Grown ==
    /\ \A c \in Code : /\ decision[c].deleted => decision'[c].deleted
                       /\ \A i \in DOMAIN revisions[c] :
                             i \in DOMAIN revisions'[c] /\ revisions'[c][i] = revisions[c][i]
    /\ audit \subseteq audit'

LEMMA WritingGrows ==
    ASSUME IInv, NEW r \in Request, Writing(r), NEW c \in Code
    PROVE  /\ decision[c].deleted => decision'[c].deleted
           /\ \A i \in DOMAIN revisions[c] :
                 i \in DOMAIN revisions'[c] /\ revisions'[c][i] = revisions[c][i]
<1>. USE DEF IInv
<1>1. CASE c # call[r].code
  <2>1. \A d \in Code \ {call[r].code} : decision'[d] = decision[d] /\ revisions'[d] = revisions[d]
    BY WritingEffect
  <2>. QED
    BY <1>1, <2>1
<1>2. CASE c = call[r].code /\ Inserts(r)
  <2>1. decision[c].version = 0 /\ revisions[c] = <<>>
    BY <1>2, WritingEffect
  <2>2. decision[c] = NoRow
    BY <2>1 DEF TypeOK, Row
  <2>. QED
    BY <2>1, <2>2 DEF NoRow
<1>3. CASE c = call[r].code /\ Overwrites(r)
  <2>0. ~Withdraws(r)
    BY <1>3 DEF Overwrites, Withdraws
  <2>1. ~decision[c].deleted /\ revisions'[c] = Append(revisions[c], NewRevision(r))
    BY <1>3, <2>0, WritingEffect
  <2>2. NewRevision(r) \in Revision /\ revisions[c] \in Seq(Revision)
    BY <1>3, RowAndRevisionAgree DEF TypeOK
  <2>. QED
    BY <2>1, <2>2, AppendElements
<1>4. CASE c = call[r].code /\ Withdraws(r)
  <2>1. decision'[c] = [decision[c] EXCEPT !.deleted = TRUE] /\ decision[c] \in Row
        /\ revisions'[c] = revisions[c]
    BY <1>4, WritingEffect
  <2>. QED
    BY <2>1 DEF Row
<1>. QED
  BY <1>1, <1>2, <1>3, <1>4 DEF Writing

LEMMA TruthLasts ==
    ASSUME Grown, NEW e, e.code \in Code, DOMAIN revisions[e.code] \subseteq Nat \ {0},
           \A i \in DOMAIN revisions[e.code] : i # 1 => i - 1 \in DOMAIN revisions[e.code],
           Explained(e)
    PROVE  Explained(e)'
<1>1. PICK i \in DOMAIN revisions[e.code] : LET rev == revisions[e.code][i] IN
        /\ rev.request = e.request /\ rev.actor = e.user /\ rev.status = e.after
        /\ IF i = 1 THEN e.before = "none" ELSE revisions[e.code][i - 1].status = e.before
  BY DEF Explained
<1>2. i \in DOMAIN revisions'[e.code] /\ revisions'[e.code][i] = revisions[e.code][i]
  BY DEF Grown
<1>3. i # 1 => revisions'[e.code][i - 1] = revisions[e.code][i - 1]
  BY DEF Grown
<1>. QED
  BY <1>1, <1>2, <1>3 DEF Explained

LEMMA Positions ==
    ASSUME TypeOK, NEW c \in Code
    PROVE  /\ DOMAIN revisions[c] \subseteq Nat \ {0}
           /\ DOMAIN revisions[c] = 1..Len(revisions[c]) /\ Len(revisions[c]) \in Nat
           /\ \A i \in DOMAIN revisions[c] : i # 1 => i - 1 \in DOMAIN revisions[c]
<1>1. revisions[c] \in Seq(Revision)
  BY DEF TypeOK
<1>2. DOMAIN revisions[c] = 1..Len(revisions[c]) /\ Len(revisions[c]) \in Nat
  BY <1>1
<1>. QED
  BY <1>2

LEMMA TookLasts ==
    ASSUME Grown, NEW r \in Request, call'[r] = call[r], Took(r)
    PROVE  Took(r)'
<1>1. call[r] \in Calls /\ call[r].code \in Code
  BY DEF Took, Calls
<1>. QED
  BY <1>1 DEF Took, Grown

LEMMA OvertakenLasts ==
    ASSUME Grown, NEW r \in Request, call'[r] = call[r], Overtaken(r)
    PROVE  Overtaken(r)'
<1>1. call[r] \in Calls /\ call[r].code \in Code
  BY DEF Overtaken, Calls
<1>. QED
  BY <1>1 DEF Overtaken, Grown

(* Nobody writes in the name of q but q. *)
LEMMA FreshLasts ==
    ASSUME IInv, NEW q \in Request, Fresh(q),
           revisions' = revisions \/ \E r \in Request \ {q} : Writing(r),
           audit' = audit \/ \E r \in Request \ {q} : audit' \subseteq audit \cup {AuditEntry(r)}
    PROVE  Fresh(q)'
<1>1. ~Wrote(q)'
  <2>1. CASE revisions' = revisions
    BY <2>1 DEF Fresh, Wrote
  <2>2. ASSUME NEW r \in Request \ {q}, Writing(r), NEW c \in Code, NEW i \in DOMAIN revisions'[c]
        PROVE  revisions'[c][i].request # q
    <3>1. CASE c # call[r].code \/ Withdraws(r)
      BY <2>2, <3>1, WritingEffect DEF IInv, Fresh, Wrote, Withdraws
    <3>2. CASE c = call[r].code /\ ~Withdraws(r)
      <4>1. revisions'[c] = Append(revisions[c], NewRevision(r))
        BY <2>2, <3>2, WritingEffect DEF IInv
      <4>2. NewRevision(r) \in Revision /\ revisions[c] \in Seq(Revision)
        BY <2>2, <3>2, RowAndRevisionAgree DEF IInv, TypeOK, Writing
      <4>3. NewRevision(r).request = r
        BY DEF NewRevision
      <4>. QED
        BY <2>2, <4>1, <4>2, <4>3, AppendElements DEF Fresh, Wrote
    <3>. QED
      BY <3>1, <3>2
  <2>. QED
    BY <2>1, <2>2 DEF Wrote
<1>2. ~Audited(q)'
  BY DEF Fresh, Audited, AuditEntry
<1>. QED
  BY <1>1, <1>2 DEF Fresh

LEMMA StepGrows ==
    ASSUME IInv, [Next]_vars
    PROVE  Grown
<1>1. audit \subseteq audit'
  <2>1. CASE \E r \in Request : AppendAudit(r) \/ AuditFails(r)
    BY <2>1 DEF AppendAudit, AuditFails
  <2>. QED
    BY <2>1, Arrivals
       DEF IInv, Next, vars, db, Step, Arrive, Receive, Crash, CreateWithRevision,
           UpdateWithRevision, SoftDelete, Reread, StatementFails
<1>2. CASE UNCHANGED <<decision, revisions>>
  BY <1>1, <1>2 DEF Grown
<1>3. CASE \E r \in Request : Writing(r)
  BY <1>1, <1>3, WritingGrows DEF Grown
<1>. QED
  BY <1>2, <1>3, StoreSteps DEF IInv

(* What is known of a request that makes no step, or crashes. *)
LEMMA KnowledgeLasts ==
    ASSUME IInv, Grown, NEW q \in Request, Known(q),
           call'[q] = call[q], seen'[q] = seen[q], reply'[q] = reply[q],
           pc'[q] = pc[q] \/ (pc[q] \in InFlight /\ pc'[q] = "lost"),
           revisions' = revisions \/ \E r \in Request \ {q} : Writing(r),
           audit' = audit \/ \E r \in Request \ {q} : audit' \subseteq audit \cup {AuditEntry(r)}
    PROVE  Known(q)'
<1>1. Fresh(q) => Fresh(q)'
  BY FreshLasts
<1>2. Took(q) => Took(q)'
  BY TookLasts
<1>3. Overtaken(q) => Overtaken(q)'
  BY OvertakenLasts
<1>4. Audited(q) => Audited(q)'
  BY DEF Audited, Grown
<1>5. Took(q) /\ Explained(AuditEntry(q)) => Explained(AuditEntry(q))'
  <2>. SUFFICES ASSUME Took(q), Explained(AuditEntry(q)) PROVE Explained(AuditEntry(q))'
    OBVIOUS
  <2>1. PICK e : e = AuditEntry(q)
    OBVIOUS
  <2>2. e.code \in Code
    BY <2>1 DEF AuditEntry, Took, Calls
  <2>3. Explained(e)'
    BY <2>1, <2>2, Positions, TruthLasts DEF IInv
  <2>4. AuditEntry(q)' = e
    BY <2>1 DEF AuditEntry, StateAfter, Item, DraftRow, UpdatedRow, DecidedRow
  <2>. QED
    BY <2>3, <2>4
<1>. QED
  BY <1>1, <1>2, <1>3, <1>4, <1>5 DEF Known, InFlight

(* The entries that are stored stay true. *)
LEMMA AuditLasts ==
    ASSUME IInv, Grown, AuditAgrees, NEW e \in audit, e.action # "delete"
    PROVE  Explained(e)'
<1>1. e.code \in Code
  BY DEF IInv, TypeOK, Entry
<1>2. Explained(e)
  BY DEF AuditAgrees, Explained
<1>. QED
  BY <1>1, <1>2, Positions, TruthLasts DEF IInv

-----------------------------------------------------------------------------
(* What a request learns by its own steps. *)

(* Only a write is refused for its version. *)
LEMMA NoEarlyConflict ==
    ASSUME IInv, NEW r \in Request, Arrive(r), reply[r] = "none"
    PROVE  reply'[r] # "conflict"
<1>1. ASSUME NEW k, NEW row, NEW v \in {"accepted", "not_found", "forbidden", "rejected"},
             Receive(r, k, row, v)
      PROVE  reply'[r] # "conflict"
  BY <1>1 DEF Receive, IInv, TypeOK
<1>2. ASSUME NEW k, NEW row
      PROVE  /\ CreateVerdict(k) \in {"accepted", "not_found", "forbidden", "rejected"}
             /\ UpdateVerdict(k, row) \in {"accepted", "not_found", "forbidden", "rejected"}
             /\ TransitionVerdict(k, row) \in {"accepted", "not_found", "forbidden", "rejected"}
             /\ DeleteVerdict(k, row) \in {"accepted", "not_found", "forbidden", "rejected"}
  BY DEF CreateVerdict, UpdateVerdict, TransitionVerdict, DeleteVerdict
<1>3. CASE Create(r)
  <2>1. \E k : Receive(r, k, NoRow, CreateVerdict(k))
    BY <1>3 DEF Create
  <2>. QED
    BY <1>1, <1>2, <2>1
<1>4. CASE Update(r)
  <2>1. \E k, row : Receive(r, k, row, UpdateVerdict(k, row))
    BY <1>4 DEF Update
  <2>. QED
    BY <1>1, <1>2, <2>1
<1>5. CASE Transition(r)
  <2>1. \E k, row : Receive(r, k, row, TransitionVerdict(k, row))
    BY <1>5 DEF Transition
  <2>. QED
    BY <1>1, <1>2, <2>1
<1>6. CASE Delete(r)
  <2>1. \E k, row : Receive(r, k, row, DeleteVerdict(k, row))
    BY <1>6 DEF Delete
  <2>. QED
    BY <1>1, <1>2, <2>1
<1>. QED
  BY <1>3, <1>4, <1>5, <1>6 DEF Arrive

LEMMA ArriveKnown ==
    ASSUME IInv, KnownInv, NEW r \in Request, Arrive(r)
    PROVE  Known(r)'
<1>1. PICK k \in Calls, row \in Row \cup {NoRow}, v \in {"accepted"} \cup Refusal : Receive(r, k, row, v)
  BY Arrivals DEF IInv
<1>2. /\ pc[r] = "idle" /\ UNCHANGED <<decision, revisions, audit>>
      /\ \/ pc'[r] = "write" /\ reply'[r] = reply[r]
         \/ pc'[r] = "done" /\ v \in Refusal /\ reply'[r] = v
  BY <1>1 DEF Receive, db, IInv, TypeOK
<1>3. Fresh(r)' /\ reply[r] = "none"
  BY <1>2 DEF KnownInv, Known, Fresh, Wrote, Audited
<1>4. reply'[r] # "conflict"
  BY <1>3, NoEarlyConflict
<1>. QED
  BY <1>2, <1>3, <1>4 DEF Known, Refusal

(* Where the write of r puts its revision. *)
LEMMA WrittenAt ==
    ASSUME IInv, NEW r \in Request, Inserts(r) \/ Overwrites(r), NEW c, c = call[r].code
    PROVE  LET n == Len(revisions[c]) IN
           /\ n \in Nat /\ n = decision[c].version
           /\ DOMAIN revisions[c] = 1..n /\ DOMAIN revisions'[c] = 1..(n + 1)
           /\ revisions'[c][n + 1] = NewRevision(r)
           /\ \A i \in 1..n : revisions'[c][i] = revisions[c][i]
           /\ c \in Code
           /\ Inserts(r) => n = 0
           /\ Overwrites(r) => n = call[r].expected /\ n # 0
<1>1. Writing(r) /\ ~Withdraws(r)
  BY DEF Writing, Inserts, Overwrites, Withdraws
<1>2. c \in Code /\ revisions'[c] = Append(revisions[c], NewRevision(r))
  BY <1>1, WritingEffect DEF IInv
<1>3. NewRevision(r) \in Revision /\ revisions[c] \in Seq(Revision)
  BY <1>2, RowAndRevisionAgree DEF IInv, TypeOK
<1>4. Len(revisions[c]) = decision[c].version
  BY <1>2 DEF IInv, RevisionChain
<1>5. Inserts(r) => decision[c].version = 0
  BY DEF Inserts
<1>6. Overwrites(r) => decision[c].version = call[r].expected /\ decision[c].version # 0
  BY DEF Overwrites, RowMatches, Visible
<1>. QED
  BY <1>2, <1>3, <1>4, <1>5, <1>6, AppendElements

LEMMA CommittedKnown ==
    ASSUME IInv, NEW r \in Request, Known(r), Writing(r), Committed(r), UNCHANGED <<audit, call, seen>>
    PROVE  Known(r)'
<1>1. /\ pc[r] = "write" /\ Entitled(call[r], seen[r]) /\ reply[r] = "none"
      /\ call[r] \in Calls /\ call[r].code \in Code
  BY DEF Writing, Inserts, Overwrites, Withdraws, IInv, RequestOK, InFlight, Known, Entitled, Calls
<1>2. \/ pc'[r] = "audit" /\ reply'[r] = "none"
      \/ pc'[r] = "done" /\ reply'[r] = "error"
  BY <1>1 DEF Committed, Goto, Return, IInv, TypeOK
<1>. DEFINE c == call[r].code
            n == Len(revisions[c])
<1>3. CASE Inserts(r) \/ Overwrites(r)
  <2>1. /\ n \in Nat /\ n = decision[c].version
        /\ DOMAIN revisions[c] = 1..n /\ DOMAIN revisions'[c] = 1..(n + 1)
        /\ revisions'[c][n + 1] = NewRevision(r)
        /\ \A i \in 1..n : revisions'[c][i] = revisions[c][i]
        /\ Inserts(r) => n = 0
        /\ Overwrites(r) => n = call[r].expected /\ n # 0
    BY <1>3, WrittenAt
  <2>2. call[r].op # "delete" /\ (Inserts(r) <=> call[r].op = "create")
    BY <1>3 DEF Inserts, Overwrites
  <2>3. /\ NewRevision(r).request = r /\ NewRevision(r).actor = call[r].user
        /\ NewRevision(r).status = Item(r).status
    BY DEF NewRevision
  <2>4. Took(r)'
    BY <1>1, <1>3, <2>1, <2>2, <2>3 DEF Took, Overwrites
  <2>5. ASSUME Lookahead = 0 PROVE Explained(AuditEntry(r))'
    <3>1. PICK e : e = AuditEntry(r)
      OBVIOUS
    <3>2. AuditEntry(r)' = e
      BY <3>1 DEF AuditEntry, StateAfter, Item, DraftRow, UpdatedRow, DecidedRow
    <3>3. /\ e.code = c /\ e.request = r /\ e.user = call[r].user /\ e.after = Item(r).status
          /\ e.before = seen[r].status
      BY <2>2, <3>1 DEF AuditEntry, StateAfter
    <3>4. Inserts(r) => e.before = "none"
      BY <1>1, <2>2, <3>3 DEF Entitled, NoRow
    <3>5. Overwrites(r) => e.before = "draft" /\ revisions[c][n].status = "draft"
      <4>. SUFFICES ASSUME Overwrites(r) PROVE e.before = "draft" /\ revisions[c][n].status = "draft"
        OBVIOUS
      <4>1. decision[c].status = "draft"
        BY <2>5, OnlyDraftsAreOverwritten
      <4>2. revisions[c][n].status = decision[c].status
        BY <1>1, <2>1 DEF IInv, RowIsNewestRevision
      <4>3. e.before = "draft"
        BY <1>1, <3>3 DEF Entitled, Overwrites
      <4>. QED
        BY <4>1, <4>2, <4>3
    <3>6. Explained(e)'
      <4>1. n + 1 \in DOMAIN revisions'[e.code] /\ revisions'[e.code][n + 1] = NewRevision(r)
        BY <2>1, <3>3
      <4>2. CASE Inserts(r)
        BY <2>1, <2>3, <3>3, <3>4, <4>1, <4>2 DEF Explained
      <4>3. CASE Overwrites(r)
        <5>1. n \in Nat /\ n # 0
          BY <2>1, <4>3
        <5>2. n \in 1..n /\ n + 1 # 1 /\ (n + 1) - 1 = n
          <6>. HIDE DEF n
          <6>. QED
            BY <5>1
        <5>3. revisions'[e.code][(n + 1) - 1] = revisions[c][n]
          BY <2>1, <3>3, <5>2
        <5>. QED
          BY <2>3, <3>3, <3>5, <4>1, <4>3, <5>2, <5>3 DEF Explained
      <4>. QED
        BY <1>3, <4>2, <4>3
    <3>. QED
      BY <3>2, <3>6
  <2>. QED
    BY <1>2, <2>4, <2>5 DEF Known
<1>4. CASE Withdraws(r)
  <2>1. call[r].op = "delete" /\ decision'[c].deleted
    BY <1>1, <1>4 DEF Withdraws, IInv, TypeOK
  <2>2. Took(r)'
    BY <1>1, <2>1 DEF Took
  <2>. QED
    BY <1>2, <2>1, <2>2 DEF Known
<1>. QED
  BY <1>3, <1>4 DEF Writing

(* A write that is refused, or fails, leaves nothing behind. *)
LEMMA RefusedKnown ==
    ASSUME IInv, NEW r \in Request, Known(r), pc[r] = "write", UNCHANGED <<db, call, seen>>,
           NEW a \in {"error", "not_found", "conflict"}, Return(r, a),
           a = "conflict" => /\ call[r].op \in {"update", "transition"}
                             /\ ~RowMatches(decision[call[r].code], call[r].expected)
    PROVE  Known(r)'
<1>1. pc'[r] = "done" /\ reply'[r] = a
  BY DEF Return, IInv, TypeOK
<1>2. Fresh(r) /\ Fresh(r)'
  BY DEF Known, Fresh, Wrote, Audited, db
<1>3. ASSUME Lookahead = 0, a = "conflict" PROVE Overtaken(r)'
  <2>. DEFINE c == call[r].code
              v == call[r].expected
  <2>1. /\ call[r] \in Calls /\ c \in Code /\ v \in 1..(seen[r].version + Lookahead)
        /\ seen[r] \in Row
    BY <1>3 DEF IInv, RequestOK, InFlight, Entitled, Calls
  <2>2. seen[r].version \in 1..decision[c].version
    BY <1>3 DEF IInv, SnapshotIsFaithful
  <2>3. DOMAIN revisions[c] = 1..Len(revisions[c]) /\ Len(revisions[c]) = decision[c].version
        /\ Len(revisions[c]) \in Nat
    BY <2>1, Positions DEF IInv, RevisionChain
  <2>4. v \in Nat /\ v <= decision[c].version /\ decision[c].version # 0
    BY <1>3, <2>1, <2>2, <2>3 DEF Row
  <2>5. decision[c].deleted \/ decision[c].version # v
    BY <1>3, <2>4 DEF RowMatches, Visible
  <2>6. CASE decision[c].version # v
    <3>1. v + 1 \in DOMAIN revisions[c]
      BY <2>3, <2>4, <2>6
    <3>2. revisions[c][v + 1].request # r
      BY <1>2, <2>1, <3>1 DEF Fresh, Wrote
    <3>. QED
      BY <2>1, <3>1, <3>2 DEF Overtaken, db
  <2>7. CASE decision[c].deleted
    BY <2>1, <2>7 DEF Overtaken, db
  <2>. QED
    BY <2>5, <2>6, <2>7
<1>. QED
  BY <1>1, <1>2, <1>3 DEF Known

LEMMA AuditKnown ==
    ASSUME IInv, Grown, NEW r \in Request, Known(r), AppendAudit(r) \/ AuditFails(r)
    PROVE  Known(r)'
<1>1. /\ pc[r] = "audit" /\ UNCHANGED <<decision, revisions, call, seen>>
      /\ audit' \in {audit, audit \cup {AuditEntry(r)}}
      /\ reply[r] = "none" /\ Took(r)
      /\ Lookahead = 0 /\ call[r].op # "delete" => Explained(AuditEntry(r))
  BY DEF AppendAudit, AuditFails, Known
<1>2. /\ Took(r)'
      /\ Lookahead = 0 /\ call[r].op # "delete" => Explained(AuditEntry(r))'
  BY <1>1 DEF Took, Explained, AuditEntry, StateAfter, Item, DraftRow, UpdatedRow, DecidedRow
<1>3. AppendAudit(r) => Audited(r)'
  <2>1. AuditEntry(r).request = r
    BY DEF AuditEntry
  <2>2. AppendAudit(r) => AuditEntry(r) \in audit'
    BY DEF AppendAudit
  <2>. QED
    BY <2>1, <2>2 DEF Audited
<1>4. CASE AppendAudit(r)
  <2>1. \/ call[r].op = "delete" /\ pc'[r] = "done" /\ reply'[r] = "ok"
        \/ call[r].op # "delete" /\ pc'[r] = "reread" /\ reply'[r] = "none"
    BY <1>1, <1>4 DEF AppendAudit, Return, Goto, IInv, TypeOK
  <2>. QED
    BY <1>1, <1>2, <1>3, <1>4, <2>1 DEF Known
<1>5. CASE AuditFails(r)
  <2>1. \/ call[r].op \in {"create", "update"} /\ pc'[r] = "reread" /\ reply'[r] = "none"
        \/ pc'[r] = "done" /\ reply'[r] = "error"
    BY <1>1, <1>5 DEF AuditFails, BestEffortAudit, Return, Goto, IInv, TypeOK
  <2>. QED
    BY <1>1, <1>2, <1>5, <2>1 DEF Known
<1>. QED
  BY <1>4, <1>5

LEMMA LastKnown ==
    ASSUME IInv, NEW r \in Request, Known(r), Reread(r) \/ (pc[r] = "reread" /\ StatementFails(r))
    PROVE  Known(r)'
<1>1. /\ pc[r] = "reread" /\ UNCHANGED <<decision, revisions, audit, call, seen>>
      /\ Took(r) /\ call[r].op # "delete" /\ (call[r].op = "transition" => Audited(r))
  BY DEF Reread, StatementFails, Known
<1>2. Took(r)' /\ (Audited(r) => Audited(r)')
  BY <1>1 DEF Took, Audited
<1>3. pc'[r] = "done" /\ reply'[r] \in {"ok", "not_found", "error"}
  BY <1>1 DEF Reread, StatementFails, Return, IInv, TypeOK
<1>. QED
  BY <1>1, <1>2, <1>3 DEF Known

-----------------------------------------------------------------------------
(* All together. *)

(* A step of r changes nothing that is known of another request. *)
LEMMA OthersKnown ==
    ASSUME IInv, Grown, NEW r \in Request, Step(r), NEW q \in Request \ {r}, Known(q)
    PROVE  Known(q)'
<1>1. /\ call'[q] = call[q] /\ seen'[q] = seen[q]
      /\ pc'[q] = pc[q] /\ reply'[q] = reply[q]
  BY Arrivals DEF Step, Arrive, Receive, CreateWithRevision, UpdateWithRevision, SoftDelete,
                  AppendAudit, AuditFails, Reread, StatementFails, Committed, Return, Goto,
                  IInv, TypeOK
<1>2. revisions' = revisions \/ Writing(r)
  BY Arrivals DEF Step, Arrive, Receive, db, CreateWithRevision, UpdateWithRevision, SoftDelete,
                  AppendAudit, AuditFails, Reread, StatementFails, IInv,
                  Writing, Inserts, Overwrites
<1>3. audit' = audit \/ audit' \subseteq audit \cup {AuditEntry(r)}
  BY Arrivals DEF Step, Arrive, Receive, db, CreateWithRevision, UpdateWithRevision, SoftDelete,
                  AppendAudit, AuditFails, Reread, StatementFails, IInv
<1>. QED
  BY <1>1, <1>2, <1>3, KnowledgeLasts

LEMMA OwnStepKnown ==
    ASSUME IInv, Grown, KnownInv, NEW r \in Request, Step(r)
    PROVE  Known(r)'
<1>0. Known(r)
  BY DEF KnownInv
<1>1. CASE Arrive(r)
  BY <1>1, ArriveKnown
<1>2. CASE CreateWithRevision(r)
  <2>1. CASE Inserts(r) /\ Committed(r)
    BY <1>0, <1>2, <2>1, CommittedKnown DEF Writing, CreateWithRevision
  <2>2. CASE Return(r, "error") /\ UNCHANGED <<decision, revisions>>
    BY <1>0, <1>2, <2>2, RefusedKnown DEF CreateWithRevision, db
  <2>. QED
    BY <1>2, <2>1, <2>2 DEF CreateWithRevision, Inserts
<1>3. CASE UpdateWithRevision(r)
  <2>1. CASE Overwrites(r) /\ Committed(r)
    BY <1>0, <1>3, <2>1, CommittedKnown DEF Writing, UpdateWithRevision
  <2>2. CASE /\ Return(r, "conflict") /\ UNCHANGED <<decision, revisions>>
             /\ ~RowMatches(decision[call[r].code], call[r].expected)
    BY <1>0, <1>3, <2>2, RefusedKnown DEF UpdateWithRevision, db
  <2>. QED
    BY <1>3, <2>1, <2>2 DEF UpdateWithRevision, Overwrites
<1>4. CASE SoftDelete(r)
  <2>1. CASE Withdraws(r) /\ Committed(r)
    BY <1>0, <1>4, <2>1, CommittedKnown DEF Writing, SoftDelete
  <2>2. CASE Return(r, "not_found") /\ UNCHANGED decision
    BY <1>0, <1>4, <2>2, RefusedKnown DEF SoftDelete, db
  <2>. QED
    BY <1>4, <2>1, <2>2 DEF SoftDelete, Withdraws
<1>5. CASE AppendAudit(r) \/ AuditFails(r)
  BY <1>0, <1>5, AuditKnown
<1>6. CASE Reread(r)
  BY <1>0, <1>6, LastKnown
<1>7. CASE StatementFails(r)
  BY <1>0, <1>7, LastKnown, RefusedKnown DEF StatementFails, db
<1>. QED
  BY <1>1, <1>2, <1>3, <1>4, <1>5, <1>6, <1>7 DEF Step, Arrive

LEMMA KnownStep == IInv /\ KnownInv /\ [Next]_vars => KnownInv'
<1>. SUFFICES ASSUME IInv, KnownInv, [Next]_vars PROVE KnownInv'
  OBVIOUS
<1>1. Grown
  BY StepGrows
<1>2. ASSUME NEW q \in Request PROVE Known(q)'
  <2>0. Known(q)
    BY DEF KnownInv
  <2>1. CASE UNCHANGED vars
    BY <1>1, <2>0, <2>1, KnowledgeLasts DEF vars
  <2>2. CASE Crash
    <3>1. pc'[q] = pc[q] \/ (pc[q] \in InFlight /\ pc'[q] = "lost")
      BY <2>2 DEF Crash
    <3>. QED
      BY <1>1, <2>0, <2>2, <3>1, KnowledgeLasts DEF Crash
  <2>3. ASSUME NEW r \in Request, Step(r) PROVE Known(q)'
    BY <1>1, <2>0, <2>3, OthersKnown, OwnStepKnown
  <2>. QED
    BY <2>1, <2>2, <2>3 DEF Next
<1>3. ASSUME Lookahead = 0 PROVE AuditAgrees'
  <2>1. ASSUME NEW e \in audit', e.action # "delete" PROVE Explained(e)'
    <3>1. CASE e \in audit
      BY <1>1, <1>3, <2>1, <3>1, AuditLasts DEF KnownInv
    <3>2. CASE e \notin audit
      <4>1. PICK r \in Request : AppendAudit(r) \/ AuditFails(r)
        BY <3>2, Arrivals
           DEF IInv, Next, vars, db, Step, Arrive, Receive, Crash, CreateWithRevision,
               UpdateWithRevision, SoftDelete, Reread, StatementFails
      <4>2. e = AuditEntry(r)
        BY <3>2, <4>1 DEF AppendAudit, AuditFails
      <4>3. pc[r] = "audit" /\ UNCHANGED revisions /\ call[r].op = e.action
        BY <4>1, <4>2 DEF AppendAudit, AuditFails, AuditEntry
      <4>4. Explained(e)
        BY <1>3, <2>1, <4>2, <4>3 DEF KnownInv, Known
      <4>. QED
        BY <4>3, <4>4 DEF Explained
    <3>. QED
      BY <3>1, <3>2
  <2>. QED
    BY <2>1 DEF AuditAgrees, Explained
<1>. QED
  BY <1>2, <1>3 DEF KnownInv

LEMMA KnownInit == Init => KnownInv
<1>. SUFFICES ASSUME Init PROVE KnownInv
  OBVIOUS
<1>1. ASSUME NEW r \in Request, NEW c \in Code, NEW i \in DOMAIN revisions[c]
      PROVE  revisions[c][i].request = SeedRequest
  <2>1. PICK s, x : revisions[c] = SeedRevisions(s, x)
    BY <1>1 DEF Init
  <2>. QED
    BY <2>1 DEF SeedRevisions, SeedRevision
<1>2. ASSUME NEW r \in Request PROVE Known(r)
  BY <1>1, Sentinels DEF Init, Known, Fresh, Wrote, Audited
<1>. QED
  BY <1>2 DEF Init, KnownInv, AuditAgrees

LEMMA KnownAlways == Spec => []KnownInv
BY KnownInit, KnownStep, IInvInductive, PTL DEF Spec

(* Every audit entry of a create, update or transition tells the truth about *)
(* a revision and the one before it, in whatever order the entries were      *)
(* appended, for clients that send versions they were shown (service.Audit   *)
(* after the commit, priority_decision.go:104-137).                          *)
THEOREM AuditIsTrue ==
    ASSUME Lookahead = 0
    PROVE  Spec => []AuditAgrees
<1>1. KnownInv => AuditAgrees
  BY DEF KnownInv
<1>. QED
  BY <1>1, KnownAlways, PTL

(* What a client is told is true: ok means that its write took effect at the *)
(* version it named, and that a decision or a delete is audited; a refusal   *)
(* other than not_found means that it changed nothing.                       *)
THEOREM RepliesAreHonest == Spec => []ReplyHonest
<1>1. ASSUME IInv, KnownInv, NEW r \in Request, pc[r] = "done", reply[r] = "ok"
      PROVE  LET k == call[r] IN
             /\ k.op \in {"update", "transition"} =>
                   /\ Len(revisions[k.code]) > k.expected
                   /\ revisions[k.code][k.expected + 1].request = r
             /\ k.op = "create" => revisions[k.code][1].request = r
             /\ k.op = "delete" => decision[k.code].deleted
             /\ k.op \in {"transition", "delete"} => Audited(r)
  <2>1. Took(r) /\ (call[r].op \in {"transition", "delete"} => Audited(r))
    BY <1>1 DEF KnownInv, Known
  <2>2. call[r].code \in Code /\ call[r].expected \in Nat
    BY <2>1 DEF Took, Calls
  <2>3. /\ DOMAIN revisions[call[r].code] = 1..Len(revisions[call[r].code])
        /\ Len(revisions[call[r].code]) \in Nat
    BY <1>1, <2>2, Positions DEF IInv
  <2>. QED
    BY <2>1, <2>2, <2>3 DEF Took
<1>2. IInv /\ KnownInv => ReplyHonest
  BY <1>1 DEF ReplyHonest, KnownInv, Known, Fresh
<1>. QED
  BY <1>2, KnownAlways, IInvInductive, PTL

(* A client that is told of a version conflict did lose: to a delete, or to  *)
(* another request that wrote the next version.                              *)
THEOREM ConflictsHaveWinners ==
    ASSUME Lookahead = 0
    PROVE  Spec => []ConflictHasWinner
<1>1. ASSUME IInv, KnownInv, NEW r \in Request, reply[r] = "conflict"
      PROVE  LET k == call[r] IN
             \/ decision[k.code].deleted
             \/ /\ Len(revisions[k.code]) > k.expected
                /\ revisions[k.code][k.expected + 1].request # r
  <2>1. Overtaken(r)
    BY <1>1 DEF KnownInv, Known
  <2>2. call[r].code \in Code /\ call[r].expected \in Nat
    BY <2>1 DEF Overtaken, Calls
  <2>3. /\ DOMAIN revisions[call[r].code] = 1..Len(revisions[call[r].code])
        /\ Len(revisions[call[r].code]) \in Nat
    BY <1>1, <2>2, Positions DEF IInv
  <2>. QED
    BY <2>1, <2>2, <2>3 DEF Overtaken
<1>2. IInv /\ KnownInv => ConflictHasWinner
  BY <1>1 DEF ConflictHasWinner
<1>. QED
  BY <1>2, KnownAlways, IInvInductive, PTL

(* Whatever versions clients send, and wherever requests fail or are cut off, *)
(* no step takes back what is stored: revisions stay where they are, marks   *)
(* of deletion stay set, audit entries stay (UpdateWithRevision and Delete,  *)
(* repository/priority_decision.go; AppendAudit, security.go).              *)
THEOREM NothingIsForgotten == Spec => [][Grown]_vars
<1>1. IInv /\ [Next]_vars => [Grown]_vars
  BY StepGrows
<1>. QED
  BY <1>1, IInvInductive, PTL DEF Spec

=============================================================================
