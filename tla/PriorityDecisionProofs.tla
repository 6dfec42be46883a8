----------------------- MODULE PriorityDecisionProofs -----------------------
(***************************************************************************)
(* Theorems about PriorityDecision for every set of codes, requests, users *)
(* and contents.  The inductive invariant is IInv below: the types, what   *)
(* the checks of the service establish about a request in flight           *)
(* (RequestOK), the revision chain, and SnapshotIsFaithful, which relates  *)
(* what a request read to what the row has become since.                   *)
(***************************************************************************)
EXTENDS PriorityDecision, TLAPS

(* What the service has checked of call k against the row it read, when it  *)
(* goes on to write.                                                        *)
Entitled(k, row) ==
    /\ k \in Calls
    /\ k.op = "create" => row = NoRow /\ k.content \in Content
    /\ k.op # "create" => row \in Row /\ row.status = "draft"
    /\ k.op = "update" =>
         k.content \in Content /\ (k.user = row.preparedBy \/ RoleOf[k.user] = "admin")
    /\ k.op = "transition" =>
         k.target \in Final /\ RoleOf[k.user] \in Reviewers /\ k.user # row.preparedBy
    /\ k.op \in {"update", "transition"} => k.expected \in 1..(row.version + Lookahead)

RequestOK == \A r \in Request : pc[r] \in InFlight => Entitled(call[r], seen[r])

Arrive(r) == Create(r) \/ Update(r) \/ Transition(r) \/ Delete(r)

-----------------------------------------------------------------------------
(* Facts about single operators. *)

(* An arriving request is refused, or reads the current row (a create reads  *)
(* nothing) and is entitled to write what it asks for.                       *)
LEMMA Arrivals ==
    ASSUME TypeOK, NEW r \in Request, Arrive(r)
    PROVE  \E k \in Calls, row \in Row \cup {NoRow}, v \in {"accepted"} \cup Refusal :
              /\ Receive(r, k, row, v)
              /\ k.op # "create" => row = decision[k.code]
              /\ v = "accepted" => Entitled(k, row)
<1>1. CASE Create(r)
  <2>1. PICK u \in User, c \in Code, x \in Content \cup {NoContent} :
           LET k == Call("create", u, c, 0, x, "none") IN Receive(r, k, NoRow, CreateVerdict(k))
    BY <1>1 DEF Create
  <2>. DEFINE k == Call("create", u, c, 0, x, "none")
  <2>2. k \in Calls /\ k.op = "create" /\ k.content = x
    BY DEF Call, Calls, Op
  <2>3. CreateVerdict(k) \in {"accepted"} \cup Refusal
    BY DEF CreateVerdict, Refusal
  <2>4. CreateVerdict(k) = "accepted" => Entitled(k, NoRow)
    BY <2>2 DEF CreateVerdict, Entitled
  <2>. QED
    BY <2>1, <2>2, <2>3, <2>4
<1>2. CASE Update(r)
  <2>0. PICK u \in User, c \in Code, x \in Content \cup {NoContent} : \E w \in Shown(c) :
           LET k == Call("update", u, c, w, x, "none") IN
           Receive(r, k, decision[c], UpdateVerdict(k, decision[c]))
    BY <1>2 DEF Update
  <2>1. PICK w \in Shown(c) :
           LET k == Call("update", u, c, w, x, "none") IN
           Receive(r, k, decision[c], UpdateVerdict(k, decision[c]))
    BY <2>0
  <2>. DEFINE k == Call("update", u, c, w, x, "none")
  <2>2. decision[c] \in Row \cup {NoRow}
    BY DEF TypeOK
  <2>3. k \in Calls /\ k.op = "update" /\ k.content = x /\ k.code = c /\ k.expected = w
    BY <2>2, LookaheadIsNat DEF Call, Calls, Op, Shown, Row, NoRow
  <2>4. UpdateVerdict(k, decision[c]) \in {"accepted"} \cup Refusal
    BY DEF UpdateVerdict, Refusal
  <2>5. UpdateVerdict(k, decision[c]) = "accepted" => Entitled(k, decision[c])
    BY <2>2, <2>3, LookaheadIsNat DEF UpdateVerdict, Entitled, Visible, Shown, Row, NoRow
  <2>. QED
    BY <2>1, <2>2, <2>3, <2>4, <2>5
<1>3. CASE Transition(r)
  <2>0. PICK u \in User, c \in Code, s \in Status : \E w \in Shown(c) :
           LET k == Call("transition", u, c, w, NoContent, s) IN
           Receive(r, k, decision[c], TransitionVerdict(k, decision[c]))
    BY <1>3 DEF Transition
  <2>1. PICK w \in Shown(c) :
           LET k == Call("transition", u, c, w, NoContent, s) IN
           Receive(r, k, decision[c], TransitionVerdict(k, decision[c]))
    BY <2>0
  <2>. DEFINE k == Call("transition", u, c, w, NoContent, s)
  <2>2. decision[c] \in Row \cup {NoRow}
    BY DEF TypeOK
  <2>3. k \in Calls /\ k.op = "transition" /\ k.code = c /\ k.expected = w /\ k.target = s
    BY <2>2, LookaheadIsNat DEF Call, Calls, Op, Shown, Row, NoRow
  <2>4. TransitionVerdict(k, decision[c]) \in {"accepted"} \cup Refusal
    BY DEF TransitionVerdict, Refusal
  <2>5. TransitionVerdict(k, decision[c]) = "accepted" => Entitled(k, decision[c])
    BY <2>2, <2>3, LookaheadIsNat
       DEF TransitionVerdict, Entitled, Visible, Shown, Row, NoRow,
           CanTransition, PriorityDecisionTransitions
  <2>. QED
    BY <2>1, <2>2, <2>3, <2>4, <2>5
<1>4. CASE Delete(r)
  <2>1. PICK u \in User, c \in Code :
           LET k == Call("delete", u, c, 0, NoContent, "none") IN
           Receive(r, k, decision[c], DeleteVerdict(k, decision[c]))
    BY <1>4 DEF Delete
  <2>. DEFINE k == Call("delete", u, c, 0, NoContent, "none")
  <2>2. decision[c] \in Row \cup {NoRow}
    BY DEF TypeOK
  <2>3. k \in Calls /\ k.op = "delete" /\ k.code = c
    BY DEF Call, Calls, Op
  <2>4. DeleteVerdict(k, decision[c]) \in {"accepted"} \cup Refusal
    BY DEF DeleteVerdict, Refusal
  <2>5. DeleteVerdict(k, decision[c]) = "accepted" => Entitled(k, decision[c])
    BY <2>2, <2>3 DEF DeleteVerdict, Entitled, Visible, NoRow
  <2>. QED
    BY <2>1, <2>2, <2>3, <2>4, <2>5
<1>. QED
  BY <1>1, <1>2, <1>3, <1>4 DEF Arrive

(* What an entitled request writes is a well-formed row and revision, whose  *)
(* version is one above the version it named.                                *)
LEMMA Writes ==
    ASSUME NEW r \in Request, Entitled(call[r], seen[r]), call[r].op # "delete"
    PROVE  /\ Item(r) \in Row
           /\ NewRevision(r) \in Revision
           /\ NewRevision(r).version = Item(r).version
           /\ NewRevision(r).status = Item(r).status
           /\ NewRevision(r).content = Item(r).content
           /\ NewRevision(r).actor = call[r].user
           /\ NewRevision(r).request = r
           /\ call[r].op = "create" =>
                Item(r).version = 1 /\ Item(r).status = "draft" /\ Item(r).preparedBy = call[r].user
           /\ call[r].op \in {"update", "transition"} => Item(r).version = call[r].expected + 1
           /\ call[r].op = "update" => Item(r).status = "draft"
           /\ call[r].op = "transition" =>
                Item(r).status = call[r].target /\ Item(r).content = seen[r].content
<1>1. Item(r) \in Row
  <2>1. CASE call[r].op = "create"
    BY <2>1 DEF Item, Entitled, Calls, Row, DraftRow, Status
  <2>2. CASE call[r].op = "update"
    <3>1. seen[r] \in Row /\ call[r].content \in Content /\ call[r].expected + 1 \in Nat \ {0}
      BY <2>2 DEF Entitled, Calls
    <3>. QED
      BY <2>2, <3>1 DEF Item, UpdatedRow, Row
  <2>3. CASE call[r].op = "transition"
    <3>1. seen[r] \in Row /\ call[r].target \in Status /\ call[r].expected + 1 \in Nat \ {0}
      BY <2>3 DEF Entitled, Calls, Status
    <3>. QED
      BY <2>3, <3>1 DEF Item, DecidedRow, Row
  <2>. QED
    BY <2>1, <2>2, <2>3 DEF Entitled, Calls, Op
<1>2. NewRevision(r) \in Revision
  BY <1>1 DEF NewRevision, Row, Revision, Entitled, Calls
<1>3. call[r].op \in Op
  BY DEF Entitled, Calls
<1>. QED
  BY <1>1, <1>2, <1>3 DEF NewRevision, Item, Entitled, DraftRow, UpdatedRow, DecidedRow, Row, NoRow, Op

-----------------------------------------------------------------------------
(* The three ways in which a step changes the stored decisions. *)

Inserts(r) ==
    LET c == call[r].code IN
    /\ pc[r] = "write" /\ call[r].op = "create"
    /\ decision[c].version = 0
    /\ decision' = [decision EXCEPT ![c] = Item(r)]
    /\ revisions' = [revisions EXCEPT ![c] = Append(@, NewRevision(r))]

Overwrites(r) ==
    LET c == call[r].code IN
    /\ pc[r] = "write" /\ call[r].op \in {"update", "transition"}
    /\ RowMatches(decision[c], call[r].expected)
    /\ decision' = [decision EXCEPT ![c] = Overwrite(@, Item(r))]
    /\ revisions' = [revisions EXCEPT ![c] = Append(@, NewRevision(r))]

Withdraws(r) ==
    LET c == call[r].code IN
    /\ pc[r] = "write" /\ call[r].op = "delete"
    /\ Visible(decision[c])
    /\ decision' = [decision EXCEPT ![c].deleted = TRUE]
    /\ UNCHANGED revisions

Writing(r) == Inserts(r) \/ Overwrites(r) \/ Withdraws(r)

(* A step leaves the decisions alone, or is one of the three writes.         *)
LEMMA StoreSteps ==
    ASSUME TypeOK, [Next]_vars
    PROVE  UNCHANGED <<decision, revisions>> \/ \E r \in Request : Writing(r)
<1>1. CASE UNCHANGED vars
  BY <1>1 DEF vars
<1>2. CASE Crash
  BY <1>2 DEF Crash
<1>3. ASSUME NEW r \in Request, Step(r)
      PROVE  UNCHANGED <<decision, revisions>> \/ Writing(r)
  <2>1. CASE Arrive(r)
    BY <2>1, Arrivals DEF Receive, db
  <2>2. CASE CreateWithRevision(r)
    BY <2>2 DEF CreateWithRevision, Writing, Inserts
  <2>3. CASE UpdateWithRevision(r)
    BY <2>3 DEF UpdateWithRevision, Writing, Overwrites
  <2>4. CASE SoftDelete(r)
    BY <2>4 DEF SoftDelete, Writing, Withdraws
  <2>5. CASE AppendAudit(r) \/ AuditFails(r) \/ Reread(r) \/ StatementFails(r)
    BY <2>5 DEF AppendAudit, AuditFails, Reread, StatementFails
  <2>. QED
    BY <1>3, <2>1, <2>2, <2>3, <2>4, <2>5 DEF Step, Arrive
<1>. QED
  BY <1>1, <1>2, <1>3 DEF Next

(* A step that is not an arrival changes neither calls nor reads, and brings *)
(* no request in flight or back to its write.                                *)
LEMMA ProcessSteps ==
    ASSUME TypeOK, [Next]_vars, ~ \E r \in Request : Arrive(r)
    PROVE  /\ UNCHANGED <<call, seen>>
           /\ pc' \in [Request -> {"idle"} \cup InFlight \cup Finished]
           /\ reply' \in [Request -> {"none", "ok", "error"} \cup Refusal]
           /\ \A r \in Request :
                 /\ pc'[r] \in InFlight => pc[r] \in InFlight
                 /\ pc'[r] = "write" => pc[r] = "write"
<1>. USE DEF TypeOK, InFlight, Finished, Refusal
<1>1. CASE UNCHANGED vars
  BY <1>1 DEF vars
<1>2. CASE Crash
  BY <1>2 DEF Crash
<1>3. ASSUME NEW q \in Request, Step(q)
      PROVE  /\ UNCHANGED <<call, seen>>
             /\ \/ \E l \in {"audit", "reread"} : Goto(q, l)
                \/ \E a \in {"ok", "error"} \cup Refusal : Return(q, a)
             /\ pc[q] \in InFlight
  <2>1. CASE CreateWithRevision(q)
    BY <2>1 DEF CreateWithRevision, Committed
  <2>2. CASE UpdateWithRevision(q)
    BY <2>2 DEF UpdateWithRevision, Committed
  <2>3. CASE SoftDelete(q)
    BY <2>3 DEF SoftDelete, Committed
  <2>4. CASE AppendAudit(q)
    BY <2>4 DEF AppendAudit
  <2>5. CASE AuditFails(q)
    BY <2>5 DEF AuditFails
  <2>6. CASE Reread(q) \/ StatementFails(q)
    BY <2>6 DEF Reread, StatementFails
  <2>. QED
    BY <1>3, <2>1, <2>2, <2>3, <2>4, <2>5, <2>6 DEF Step, Arrive
<1>4. ASSUME NEW q \in Request, Step(q)
      PROVE  /\ pc' \in [Request -> {"idle"} \cup InFlight \cup Finished]
             /\ reply' \in [Request -> {"none", "ok", "error"} \cup Refusal]
             /\ \A r \in Request :
                   /\ pc'[r] \in InFlight => pc[r] \in InFlight
                   /\ pc'[r] = "write" => pc[r] = "write"
  <2>1. CASE \E l \in {"audit", "reread"} : Goto(q, l)
    BY <1>3, <1>4, <2>1 DEF Goto
  <2>2. CASE \E a \in {"ok", "error"} \cup Refusal : Return(q, a)
    BY <1>3, <1>4, <2>2 DEF Return
  <2>. QED
    BY <1>3, <1>4, <2>1, <2>2
<1>. QED
  BY <1>1, <1>2, <1>3, <1>4 DEF Next

-----------------------------------------------------------------------------
(* Types. *)

LEMMA SeedTypes ==
    \A s \in {"draft"} \cup SeedFinal, x \in Content :
        SeedRow(s, x) \in Row /\ SeedRevisions(s, x) \in Seq(Revision)
<1>. TAKE s \in {"draft"} \cup SeedFinal, x \in Content
<1>. USE SeedUsers
<1>1. SeedRow(s, x) \in Row
  BY DEF SeedRow, Row, SeedFinal, Status, Final
<1>2. /\ SeedRevision(1, "draft", x, SeedPreparer) \in Revision
      /\ s # "draft" => SeedRevision(2, s, x, SeedReviewer) \in Revision
  BY DEF SeedRevision, Revision, SeedFinal, Status, Final
<1>. QED
  BY <1>1, <1>2 DEF SeedRevisions

(* Only the row and the chain that is written change, and they stay typed.   *)
LEMMA WritingTypes ==
    ASSUME TypeOK, RequestOK, NEW r \in Request, Writing(r)
    PROVE  /\ decision' \in [Code -> Row \cup {NoRow}]
           /\ revisions' \in [Code -> Seq(Revision)]
<1>. DEFINE c == call[r].code
<1>1. Entitled(call[r], seen[r])
  BY DEF RequestOK, Writing, Inserts, Overwrites, Withdraws, InFlight
<1>2. c \in Code
  BY <1>1 DEF Entitled, Calls
<1>3. decision[c] \in Row \cup {NoRow} /\ revisions[c] \in Seq(Revision)
  BY <1>2 DEF TypeOK
<1>4. CASE Inserts(r)
  <2>1. Item(r) \in Row /\ NewRevision(r) \in Revision
    BY <1>1, <1>4, Writes DEF Inserts
  <2>. QED
    BY <1>2, <1>3, <1>4, <2>1 DEF Inserts, TypeOK
<1>5. CASE Overwrites(r)
  <2>1. Item(r) \in Row /\ NewRevision(r) \in Revision
    BY <1>1, <1>5, Writes DEF Overwrites
  <2>2. decision[c] \in Row
    BY <1>3, <1>5 DEF Overwrites, RowMatches, Visible, NoRow
  <2>3. Overwrite(decision[c], Item(r)) \in Row
    BY <2>1, <2>2 DEF Overwrite, Row
  <2>. QED
    BY <1>2, <1>3, <1>5, <2>1, <2>3 DEF Overwrites, TypeOK
<1>6. CASE Withdraws(r)
  <2>1. decision[c] \in Row
    BY <1>3, <1>6 DEF Withdraws, Visible, NoRow
  <2>2. [decision[c] EXCEPT !.deleted = TRUE] \in Row
    BY <2>1 DEF Row
  <2>. QED
    BY <1>2, <1>3, <1>6, <2>2 DEF Withdraws, TypeOK
<1>. QED
  BY <1>4, <1>5, <1>6 DEF Writing

(* An audit entry of an entitled request is well-formed.                     *)
LEMMA AuditTypes ==
    ASSUME NEW r \in Request, Entitled(call[r], seen[r])
    PROVE  AuditEntry(r) \in Entry
<1>1. StateAfter(r) \in Status \cup {"deleted"}
  <2>1. CASE call[r].op = "delete"
    BY <2>1 DEF StateAfter
  <2>2. CASE call[r].op # "delete"
    <3>1. Item(r) \in Row
      BY <2>2, Writes
    <3>. QED
      BY <2>2, <3>1 DEF StateAfter, Row
  <2>. QED
    BY <2>1, <2>2
<1>2. seen[r].status \in Status \cup {"none"}
  BY DEF Entitled, NoRow, Status
<1>. QED
  BY <1>1, <1>2 DEF AuditEntry, Entry, Entitled, Calls

(* Initially each decision is absent or seeded, with the seeded revisions.   *)
LEMMA SeedOnly ==
    ASSUME Init, NEW c \in Code, decision[c] # NoRow
    PROVE  \E s \in {"draft"} \cup SeedFinal, x \in Content :
              decision[c] = SeedRow(s, x) /\ revisions[c] = SeedRevisions(s, x)
<1>1. PICK s \in {"draft"} \cup SeedFinal, x \in Content : decision[c] = SeedRow(s, x)
  BY DEF Init, SeedRows
<1>2. decision[c].status = s /\ decision[c].content = x
  BY <1>1 DEF SeedRow
<1>. QED
  BY <1>1, <1>2 DEF Init

LEMMA InitTypes == Init => TypeOK /\ RequestOK
<1>. SUFFICES ASSUME Init PROVE TypeOK /\ RequestOK
  OBVIOUS
<1>1. decision \in [Code -> Row \cup {NoRow}]
  BY SeedTypes DEF Init, SeedRows
<1>2. ASSUME NEW c \in Code
      PROVE  (IF decision[c] = NoRow THEN <<>>
              ELSE SeedRevisions(decision[c].status, decision[c].content)) \in Seq(Revision)
  <2>1. CASE decision[c] # NoRow
    <3>1. revisions[c] \in Seq(Revision)
      BY <2>1, SeedOnly, SeedTypes
    <3>. QED
      BY <2>1, <3>1 DEF Init
  <2>. QED
    BY <2>1
<1>3. revisions \in [Code -> Seq(Revision)]
  BY <1>2 DEF Init
<1>. QED
  BY <1>1, <1>3 DEF Init, TypeOK, RequestOK, InFlight

LEMMA TypesStep == TypeOK /\ RequestOK /\ [Next]_vars => TypeOK' /\ RequestOK'
<1>. SUFFICES ASSUME TypeOK, RequestOK, [Next]_vars PROVE TypeOK' /\ RequestOK'
  OBVIOUS
<1>1. decision' \in [Code -> Row \cup {NoRow}] /\ revisions' \in [Code -> Seq(Revision)]
  BY StoreSteps, WritingTypes DEF TypeOK
<1>2. audit' \subseteq Entry
  <2>1. CASE UNCHANGED audit
    BY <2>1 DEF TypeOK
  <2>2. CASE \E r \in Request : AppendAudit(r) \/ AuditFails(r)
    <3>1. PICK r \in Request : AppendAudit(r) \/ AuditFails(r)
      BY <2>2
    <3>2. Entitled(call[r], seen[r])
      BY <3>1 DEF AppendAudit, AuditFails, RequestOK, InFlight
    <3>3. audit' \subseteq audit \cup {AuditEntry(r)}
      BY <3>1 DEF AppendAudit, AuditFails
    <3>. QED
      BY <3>2, <3>3, AuditTypes DEF TypeOK
  <2>. QED
    BY <2>1, <2>2, Arrivals
       DEF Next, vars, db, Step, Arrive, Receive, Crash, CreateWithRevision, UpdateWithRevision,
           SoftDelete, Reread, StatementFails
<1>3. CASE \E r \in Request : Arrive(r)
  <2>1. PICK r \in Request : Arrive(r)
    BY <1>3
  <2>2. PICK k \in Calls, row \in Row \cup {NoRow}, v \in {"accepted"} \cup Refusal :
           Receive(r, k, row, v) /\ (v = "accepted" => Entitled(k, row))
    BY <2>1, Arrivals
  <2>3. /\ call' \in [Request -> Calls \cup {NoCall}]
        /\ seen' \in [Request -> Row \cup {NoRow}]
        /\ pc' \in [Request -> {"idle"} \cup InFlight \cup Finished]
        /\ reply' \in [Request -> {"none", "ok", "error"} \cup Refusal]
    BY <2>2 DEF Receive, TypeOK, InFlight, Finished
  <2>4. RequestOK'
    <3>. SUFFICES ASSUME NEW q \in Request, pc'[q] \in InFlight
                  PROVE  Entitled(call'[q], seen'[q])
      BY DEF RequestOK, Entitled
    <3>1. CASE q = r
      BY <2>2, <3>1 DEF Receive, TypeOK, InFlight
    <3>2. CASE q # r
      BY <2>2, <3>2 DEF Receive, TypeOK, RequestOK
    <3>. QED
      BY <3>1, <3>2
  <2>. QED
    BY <1>1, <1>2, <2>3, <2>4 DEF TypeOK
<1>4. CASE ~ \E r \in Request : Arrive(r)
  <2>1. UNCHANGED <<call, seen>> /\ \A r \in Request : pc'[r] \in InFlight => pc[r] \in InFlight
    BY <1>4, ProcessSteps
  <2>2. RequestOK'
    BY <2>1 DEF RequestOK, Entitled
  <2>. QED
    BY <1>1, <1>2, <1>4, <2>1, <2>2, ProcessSteps DEF TypeOK
<1>. QED
  BY <1>3, <1>4

LEMMA TypesInvariant == Spec => [](TypeOK /\ RequestOK)
BY InitTypes, TypesStep, PTL DEF Spec

(* Every variable always has its type: in particular, no interleaving and no *)
(* failure stores a row or revision with blank mandatory fields, or a row    *)
(* without a preparer.                                                       *)
THEOREM TypeCorrect == Spec => []TypeOK
BY TypesInvariant, PTL

-----------------------------------------------------------------------------
(* The revision chain. *)

(* What one write does to the decision it concerns, given the chain so far.  *)
LEMMA WritingEffect ==
    ASSUME TypeOK, RequestOK, RevisionChain, NEW r \in Request, Writing(r),
           NEW c, c = call[r].code
    PROVE  /\ c \in Code
           /\ \A d \in Code \ {c} : decision'[d] = decision[d] /\ revisions'[d] = revisions[d]
           /\ decision'[c] \in Row
           /\ Inserts(r) => /\ decision'[c] = Item(r)
                            /\ decision[c].version = 0
                            /\ revisions[c] = <<>>
           /\ Overwrites(r) => /\ decision'[c] = Overwrite(decision[c], Item(r))
                               /\ decision[c] \in Row
                               /\ ~decision[c].deleted
                               /\ decision[c].version = call[r].expected
           /\ Withdraws(r) => /\ decision'[c] = [decision[c] EXCEPT !.deleted = TRUE]
                              /\ decision[c] \in Row
                              /\ revisions'[c] = revisions[c]
           /\ ~Withdraws(r) => revisions'[c] = Append(revisions[c], NewRevision(r))
<1>1. Entitled(call[r], seen[r])
  BY DEF RequestOK, Writing, Inserts, Overwrites, Withdraws, InFlight
<1>2. c \in Code
  BY <1>1 DEF Entitled, Calls
<1>3. decision[c] \in Row \cup {NoRow} /\ revisions[c] \in Seq(Revision)
  BY <1>2 DEF TypeOK
<1>4. decision'[c] \in Row \cup {NoRow}
  BY <1>2, WritingTypes
<1>5. CASE Inserts(r)
  <2>1. Len(revisions[c]) = 0
    BY <1>2, <1>5 DEF Inserts, RevisionChain
  <2>2. revisions[c] = <<>>
    BY <1>3, <2>1
  <2>3. Item(r) \in Row
    BY <1>1, <1>5, Writes DEF Inserts
  <2>. QED
    BY <1>2, <1>5, <2>2, <2>3 DEF Inserts, Overwrites, Withdraws, TypeOK
<1>6. CASE Overwrites(r)
  <2>1. decision[c] \in Row /\ ~decision[c].deleted /\ decision[c].version = call[r].expected
    BY <1>3, <1>6 DEF Overwrites, RowMatches, Visible, NoRow
  <2>2. Item(r) \in Row
    BY <1>1, <1>6, Writes DEF Overwrites
  <2>3. Overwrite(decision[c], Item(r)) \in Row
    BY <2>1, <2>2 DEF Overwrite, Row
  <2>. QED
    BY <1>2, <1>6, <2>1, <2>3 DEF Inserts, Overwrites, Withdraws, TypeOK
<1>7. CASE Withdraws(r)
  <2>1. decision[c] \in Row
    BY <1>3, <1>7 DEF Withdraws, Visible, NoRow
  <2>2. [decision[c] EXCEPT !.deleted = TRUE] \in Row
    BY <2>1 DEF Row
  <2>. QED
    BY <1>2, <1>7, <2>1, <2>2 DEF Inserts, Overwrites, Withdraws, TypeOK
<1>. QED
  BY <1>5, <1>6, <1>7 DEF Writing

LEMMA ChainInit == Init => RevisionChain /\ RowIsNewestRevision /\ SeparationOfDuty
<1>. SUFFICES ASSUME Init, NEW c \in Code
              PROVE  /\ Len(revisions[c]) = decision[c].version
                     /\ \A i \in DOMAIN revisions[c] : revisions[c][i].version = i
                     /\ decision[c].version # 0 =>
                          /\ revisions[c][decision[c].version].status = decision[c].status
                          /\ revisions[c][decision[c].version].content = decision[c].content
                     /\ \A i \in DOMAIN revisions[c] :
                          LET rev == revisions[c][i] IN
                          IF rev.status \in Final
                          THEN RoleOf[rev.actor] \in Reviewers /\ rev.actor # decision[c].preparedBy
                          ELSE RoleOf[rev.actor] = "admin" \/ rev.actor = decision[c].preparedBy
  BY DEF RevisionChain, RowIsNewestRevision, SeparationOfDuty
<1>1. CASE decision[c] = NoRow
  BY <1>1 DEF Init, NoRow
<1>2. CASE decision[c] # NoRow
  <2>1. PICK s \in {"draft"} \cup SeedFinal, x \in Content :
           decision[c] = SeedRow(s, x) /\ revisions[c] = SeedRevisions(s, x)
    BY <1>2, SeedOnly
  <2>2. decision[c].status = s /\ decision[c].content = x /\ decision[c].preparedBy = SeedPreparer
    BY <2>1 DEF SeedRow
  <2>3. revisions[c] = SeedRevisions(s, x)
    BY <2>1
  <2>4. CASE s = "draft"
    <3>. DEFINE a == SeedRevision(1, "draft", x, SeedPreparer)
    <3>1. decision[c].version = 1 /\ revisions[c] = <<a>>
      BY <2>1, <2>3, <2>4 DEF SeedRow, SeedRevisions
    <3>2. a.version = 1 /\ a.status = "draft" /\ a.content = x /\ a.actor = SeedPreparer
      BY DEF SeedRevision
    <3>. HIDE DEF a
    <3>. QED
      BY <2>2, <2>4, <3>1, <3>2 DEF Final
  <2>5. CASE s # "draft"
    <3>. DEFINE a == SeedRevision(1, "draft", x, SeedPreparer)
                b == SeedRevision(2, s, x, SeedReviewer)
    <3>1. decision[c].version = 2 /\ revisions[c] = <<a, b>>
      BY <2>1, <2>3, <2>5 DEF SeedRow, SeedRevisions
    <3>2. a.version = 1 /\ a.status = "draft" /\ a.content = x /\ a.actor = SeedPreparer
      BY DEF SeedRevision
    <3>3. b.version = 2 /\ b.status = s /\ b.content = x /\ b.actor = SeedReviewer
      BY DEF SeedRevision
    <3>. HIDE DEF a, b
    <3>4. DOMAIN revisions[c] = {1, 2} /\ Len(revisions[c]) = 2
          /\ revisions[c][1] = a /\ revisions[c][2] = b
      BY <3>1
    <3>. QED
      BY <2>2, <2>5, <3>1, <3>2, <3>3, <3>4, SeedUsers DEF Final, SeedFinal
  <2>. QED
    BY <2>4, <2>5
<1>. QED
  BY <1>1, <1>2

(* Appending an element numbered one above the last keeps the numbering.     *)
LEMMA AppendKeepsNumbering ==
    ASSUME NEW s \in Seq(Revision), NEW e \in Revision, e.version = Len(s) + 1,
           \A i \in DOMAIN s : s[i].version = i
    PROVE  /\ Len(Append(s, e)) = Len(s) + 1
           /\ \A i \in DOMAIN Append(s, e) : Append(s, e)[i].version = i
           /\ Append(s, e)[Len(s) + 1] = e
OBVIOUS

(* The new row and the new revision of an insert or an overwrite agree.      *)
LEMMA RowAndRevisionAgree ==
    ASSUME TypeOK, RequestOK, RevisionChain, NEW r \in Request,
           Inserts(r) \/ Overwrites(r), NEW c, c = call[r].code
    PROVE  /\ NewRevision(r) \in Revision
           /\ NewRevision(r).version = decision[c].version + 1
           /\ decision'[c].version = NewRevision(r).version
           /\ decision'[c].status = NewRevision(r).status
           /\ decision'[c].content = NewRevision(r).content
<1>1. Entitled(call[r], seen[r]) /\ call[r].op # "delete"
  BY DEF RequestOK, Inserts, Overwrites, InFlight
<1>2. /\ Item(r) \in Row
      /\ NewRevision(r) \in Revision
      /\ NewRevision(r).version = Item(r).version
      /\ NewRevision(r).status = Item(r).status
      /\ NewRevision(r).content = Item(r).content
  BY <1>1, Writes
<1>3. CASE Inserts(r)
  <2>1. Item(r).version = 1
    BY <1>1, <1>3, Writes DEF Inserts
  <2>2. decision'[c] = Item(r) /\ decision[c].version = 0
    BY <1>3, WritingEffect DEF Writing
  <2>. QED
    BY <1>2, <2>1, <2>2
<1>4. CASE Overwrites(r)
  <2>1. Item(r).version = call[r].expected + 1
    BY <1>1, <1>4, Writes DEF Overwrites
  <2>2. decision'[c] = Overwrite(decision[c], Item(r)) /\ decision[c].version = call[r].expected
    BY <1>4, WritingEffect DEF Writing
  <2>3. /\ Overwrite(decision[c], Item(r)).version = Item(r).version
        /\ Overwrite(decision[c], Item(r)).status = Item(r).status
        /\ Overwrite(decision[c], Item(r)).content = Item(r).content
    BY <1>2 DEF Overwrite, Row
  <2>. QED
    BY <1>2, <2>1, <2>2, <2>3
<1>. QED
  BY <1>3, <1>4

LEMMA ChainStep ==
    ASSUME TypeOK, RequestOK, RevisionChain, RowIsNewestRevision, [Next]_vars
    PROVE  RevisionChain' /\ RowIsNewestRevision'
<1>1. CASE UNCHANGED <<decision, revisions>>
  BY <1>1 DEF RevisionChain, RowIsNewestRevision
<1>2. ASSUME NEW r \in Request, Writing(r), NEW c \in Code
      PROVE  /\ Len(revisions'[c]) = decision'[c].version
             /\ \A i \in DOMAIN revisions'[c] : revisions'[c][i].version = i
             /\ decision'[c].version # 0 =>
                  /\ revisions'[c][decision'[c].version].status = decision'[c].status
                  /\ revisions'[c][decision'[c].version].content = decision'[c].content
  <2>1. /\ revisions[c] \in Seq(Revision)
        /\ Len(revisions[c]) = decision[c].version
        /\ \A i \in DOMAIN revisions[c] : revisions[c][i].version = i
        /\ decision[c].version # 0 =>
             /\ revisions[c][decision[c].version].status = decision[c].status
             /\ revisions[c][decision[c].version].content = decision[c].content
    BY DEF TypeOK, RevisionChain, RowIsNewestRevision
  <2>2. CASE c # call[r].code
    <3>1. \A d \in Code \ {call[r].code} : decision'[d] = decision[d] /\ revisions'[d] = revisions[d]
      BY <1>2, WritingEffect
    <3>. QED
      BY <2>1, <2>2, <3>1
  <2>3. CASE c = call[r].code /\ Withdraws(r)
    <3>1. /\ decision'[c] = [decision[c] EXCEPT !.deleted = TRUE]
          /\ decision[c] \in Row
          /\ revisions'[c] = revisions[c]
      BY <1>2, <2>3, WritingEffect
    <3>2. /\ decision'[c].version = decision[c].version
          /\ decision'[c].status = decision[c].status
          /\ decision'[c].content = decision[c].content
      BY <3>1 DEF Row
    <3>. QED
      BY <2>1, <3>1, <3>2
  <2>4. CASE c = call[r].code /\ ~Withdraws(r)
    <3>1. revisions'[c] = Append(revisions[c], NewRevision(r))
      BY <1>2, <2>4, WritingEffect
    <3>2. /\ NewRevision(r) \in Revision
          /\ NewRevision(r).version = decision[c].version + 1
          /\ decision'[c].version = NewRevision(r).version
          /\ decision'[c].status = NewRevision(r).status
          /\ decision'[c].content = NewRevision(r).content
      BY <1>2, <2>4, RowAndRevisionAgree DEF Writing
    <3>3. /\ Len(revisions'[c]) = Len(revisions[c]) + 1
          /\ \A i \in DOMAIN revisions'[c] : revisions'[c][i].version = i
          /\ revisions'[c][Len(revisions[c]) + 1] = NewRevision(r)
      BY <2>1, <3>1, <3>2, AppendKeepsNumbering
    <3>4. decision'[c].version = Len(revisions[c]) + 1
      BY <2>1, <3>2
    <3>5. revisions'[c][decision'[c].version] = NewRevision(r)
      BY <3>3, <3>4
    <3>. QED
      BY <3>2, <3>3, <3>4, <3>5, Zenon
  <2>. QED
    BY <2>2, <2>3, <2>4
<1>. QED
  BY <1>1, <1>2, StoreSteps DEF RevisionChain, RowIsNewestRevision

-----------------------------------------------------------------------------
(* What a request has read, against what the row has become. *)

(* A write keeps the preparer; it keeps version, status and content too, or  *)
(* it advances the version.                                                  *)
LEMMA RowsAdvance ==
    ASSUME TypeOK, RequestOK, RevisionChain, NEW r \in Request, Writing(r),
           NEW c \in Code, decision[c].version # 0
    PROVE  /\ decision'[c].preparedBy = decision[c].preparedBy
           /\ \/ /\ decision'[c].version = decision[c].version
                 /\ decision'[c].status = decision[c].status
                 /\ decision'[c].content = decision[c].content
              \/ decision'[c].version = decision[c].version + 1
<1>1. CASE c # call[r].code
  <2>1. \A d \in Code \ {call[r].code} : decision'[d] = decision[d]
    BY WritingEffect
  <2>. QED
    BY <1>1, <2>1
<1>2. CASE c = call[r].code /\ Inserts(r)
  BY <1>2, WritingEffect
<1>3. CASE c = call[r].code /\ Overwrites(r)
  <2>1. decision'[c] = Overwrite(decision[c], Item(r)) /\ decision[c] \in Row
    BY <1>3, WritingEffect
  <2>2. decision'[c].version = decision[c].version + 1
    BY <1>3, RowAndRevisionAgree
  <2>3. Item(r) \in Row
    BY <1>3, Writes DEF Overwrites, RequestOK, InFlight
  <2>4. Overwrite(decision[c], Item(r)).preparedBy = decision[c].preparedBy
    BY <2>1, <2>3 DEF Overwrite, Row
  <2>. QED
    BY <2>1, <2>2, <2>4
<1>4. CASE c = call[r].code /\ Withdraws(r)
  <2>1. decision'[c] = [decision[c] EXCEPT !.deleted = TRUE] /\ decision[c] \in Row
    BY <1>4, WritingEffect
  <2>. QED
    BY <2>1 DEF Row
<1>. QED
  BY <1>1, <1>2, <1>3, <1>4 DEF Writing

LEMMA SnapshotInit == Init => SnapshotIsFaithful
BY DEF Init, SnapshotIsFaithful

LEMMA SnapshotStep ==
    ASSUME TypeOK, RequestOK, RevisionChain, SnapshotIsFaithful, [Next]_vars
    PROVE  SnapshotIsFaithful'
<1>. SUFFICES ASSUME NEW q \in Request, pc'[q] = "write", call'[q].op # "create"
              PROVE  LET row == decision'[call'[q].code] IN
                     /\ seen'[q].status = "draft"
                     /\ seen'[q].version \in 1..row.version
                     /\ seen'[q].preparedBy = row.preparedBy
                     /\ seen'[q].version = row.version =>
                           seen'[q].status = row.status /\ seen'[q].content = row.content
  BY DEF SnapshotIsFaithful
<1>1. CASE \E r \in Request : Arrive(r)
  <2>1. PICK r \in Request : Arrive(r)
    BY <1>1
  <2>2. PICK k \in Calls, row \in Row \cup {NoRow}, v \in {"accepted"} \cup Refusal :
           /\ Receive(r, k, row, v)
           /\ k.op # "create" => row = decision[k.code]
           /\ v = "accepted" => Entitled(k, row)
    BY <2>1, Arrivals
  <2>3. decision' = decision
    BY <2>2 DEF Receive, db
  <2>4. CASE q = r
    <3>1. call'[q] = k /\ seen'[q] = row /\ Entitled(k, row)
      BY <2>2, <2>4 DEF Receive, TypeOK, Refusal
    <3>2. row \in Row /\ row.status = "draft" /\ row = decision[k.code]
      BY <2>2, <3>1 DEF Entitled
    <3>3. row.version \in 1..row.version
      BY <3>2 DEF Row
    <3>. QED
      BY <2>3, <3>1, <3>2, <3>3
  <2>5. CASE q # r
    <3>1. pc[q] = "write" /\ call'[q] = call[q] /\ seen'[q] = seen[q]
      BY <2>2, <2>5 DEF Receive, TypeOK
    <3>. QED
      BY <2>3, <3>1 DEF SnapshotIsFaithful
  <2>. QED
    BY <2>4, <2>5
<1>2. CASE ~ \E r \in Request : Arrive(r)
  <2>1. pc[q] = "write" /\ call' = call /\ seen' = seen
    BY <1>2, ProcessSteps
  <2>. DEFINE c == call[q].code
  <2>2. /\ seen[q].status = "draft"
        /\ seen[q].version \in 1..decision[c].version
        /\ seen[q].preparedBy = decision[c].preparedBy
        /\ seen[q].version = decision[c].version =>
              seen[q].status = decision[c].status /\ seen[q].content = decision[c].content
    BY <2>1 DEF SnapshotIsFaithful
  <2>3. c \in Code
    BY <2>1 DEF RequestOK, InFlight, Entitled, Calls
  <2>4. decision[c].version \in Nat
    BY <2>3 DEF TypeOK, Row, NoRow
  <2>5. CASE UNCHANGED <<decision, revisions>>
    BY <2>1, <2>2, <2>5
  <2>6. ASSUME NEW r \in Request, Writing(r)
        PROVE  /\ decision'[c].preparedBy = decision[c].preparedBy
               /\ \/ /\ decision'[c].version = decision[c].version
                     /\ decision'[c].status = decision[c].status
                     /\ decision'[c].content = decision[c].content
                  \/ decision'[c].version = decision[c].version + 1
    <3>1. decision[c].version # 0
      BY <2>2
    <3>. QED
      BY <2>3, <2>6, <3>1, RowsAdvance
  <2>7. CASE \E r \in Request : Writing(r)
    BY <2>1, <2>2, <2>4, <2>6, <2>7
  <2>. QED
    BY <2>5, <2>7, StoreSteps
<1>. QED
  BY <1>1, <1>2

(* The inductive invariant. *)
IInv == TypeOK /\ RequestOK /\ RevisionChain /\ RowIsNewestRevision /\ SnapshotIsFaithful

LEMMA IInvInductive == Spec => []IInv
<1>1. Init => IInv
  BY InitTypes, ChainInit, SnapshotInit DEF IInv
<1>2. IInv /\ [Next]_vars => IInv'
  BY TypesStep, ChainStep, SnapshotStep DEF IInv
<1>. QED
  BY <1>1, <1>2, PTL DEF Spec

(* The versions of a decision's revisions are 1, 2, ... up to the version of *)
(* its row, and the newest one says what the row says, whatever versions     *)
(* clients send: the append-only chain promised by PriorityDecisionRevision. *)
THEOREM ChainIsComplete == Spec => [](RevisionChain /\ RowIsNewestRevision)
BY IInvInductive, PTL DEF IInv

(* Whatever versions clients send, a write that the version comparison admits *)
(* is never refused by the unique index on (decision, version): the index is *)
(* a second barrier behind a lock that suffices (UpdateWithRevision).        *)
THEOREM IndexNeverRefuses ==
    Spec => [](\A r \in Request :
                  LET c == call[r].code
                  IN pc[r] = "write" /\ call[r].op \in {"update", "transition"}
                        /\ RowMatches(decision[c], call[r].expected) =>
                     IsUnique(c, NewRevision(r)))
<1>1. ASSUME IInv, NEW r \in Request, NEW c, c = call[r].code,
             pc[r] = "write", call[r].op \in {"update", "transition"},
             RowMatches(decision[c], call[r].expected)
      PROVE  IsUnique(c, NewRevision(r))
  <2>1. Entitled(call[r], seen[r])
    BY <1>1 DEF IInv, RequestOK, InFlight
  <2>2. c \in Code /\ call[r].expected \in Nat
    BY <1>1, <2>1 DEF Entitled, Calls
  <2>3. NewRevision(r).version = call[r].expected + 1
    BY <1>1, <2>1, Writes
  <2>4. revisions[c] \in Seq(Revision) /\ Len(revisions[c]) = call[r].expected
        /\ \A i \in DOMAIN revisions[c] : revisions[c][i].version = i
    BY <1>1, <2>2 DEF IInv, TypeOK, RevisionChain, RowMatches
  <2>. QED
    BY <2>2, <2>3, <2>4 DEF IsUnique
<1>2. IInv => \A r \in Request :
                 LET c == call[r].code
                 IN pc[r] = "write" /\ call[r].op \in {"update", "transition"}
                       /\ RowMatches(decision[c], call[r].expected) =>
                    IsUnique(c, NewRevision(r))
  BY <1>1
<1>. QED
  BY <1>2, IInvInductive, PTL

(* The newest revision of a decision says what its row says, although both    *)
(* are copies of a row that was read before the lock was taken.              *)
THEOREM NewestRevision == Spec => []RowIsNewestRevision
BY ChainIsComplete, PTL

(* A request about to write read a draft that has kept its preparer, and is  *)
(* still what the row holds unless the version moved on.                     *)
THEOREM SnapshotsAreFaithful == Spec => []SnapshotIsFaithful
BY IInvInductive, PTL DEF IInv

-----------------------------------------------------------------------------
(* Who decides, and who drafts. *)

LEMMA AppendElements ==
    ASSUME NEW s \in Seq(Revision), NEW e \in Revision
    PROVE  /\ DOMAIN Append(s, e) = 1..(Len(s) + 1)
           /\ DOMAIN s = 1..Len(s) /\ Len(s) \in Nat
           /\ \A i \in DOMAIN s : Append(s, e)[i] = s[i]
           /\ Append(s, e)[Len(s) + 1] = e
OBVIOUS

(* The actor of a new revision is entitled to it, judged by the preparer of  *)
(* the row that is stored.                                                   *)
LEMMA AuthorIsEntitled ==
    ASSUME IInv, NEW r \in Request, Inserts(r) \/ Overwrites(r), NEW c, c = call[r].code
    PROVE  IF NewRevision(r).status \in Final
           THEN /\ RoleOf[NewRevision(r).actor] \in Reviewers
                /\ NewRevision(r).actor # decision'[c].preparedBy
           ELSE \/ RoleOf[NewRevision(r).actor] = "admin"
                \/ NewRevision(r).actor = decision'[c].preparedBy
<1>. USE DEF IInv
<1>1. Entitled(call[r], seen[r]) /\ call[r].op # "delete"
  BY DEF RequestOK, Inserts, Overwrites, InFlight
<1>2. NewRevision(r).actor = call[r].user /\ NewRevision(r).status = Item(r).status
  BY <1>1, Writes
<1>3. CASE Inserts(r)
  <2>1. Item(r).status = "draft" /\ Item(r).preparedBy = call[r].user
    BY <1>1, <1>3, Writes DEF Inserts
  <2>2. decision'[c] = Item(r)
    BY <1>3, WritingEffect DEF Writing
  <2>. QED
    BY <1>2, <2>1, <2>2 DEF Final
<1>4. CASE Overwrites(r)
  <2>1. c \in Code /\ decision[c].version # 0
    BY <1>4, WritingEffect DEF Writing, Row
  <2>2. decision'[c].preparedBy = decision[c].preparedBy
    BY <1>4, <2>1, RowsAdvance DEF Writing
  <2>3. seen[r].preparedBy = decision[c].preparedBy
    BY <1>4 DEF Overwrites, SnapshotIsFaithful
  <2>4. CASE call[r].op = "update"
    <3>1. Item(r).status = "draft"
      BY <1>1, <2>4, Writes
    <3>2. call[r].user = seen[r].preparedBy \/ RoleOf[call[r].user] = "admin"
      BY <1>1, <2>4 DEF Entitled
    <3>. QED
      BY <1>2, <2>2, <2>3, <3>1, <3>2 DEF Final
  <2>5. CASE call[r].op = "transition"
    <3>1. Item(r).status = call[r].target
      BY <1>1, <2>5, Writes
    <3>2. /\ call[r].target \in Final
          /\ RoleOf[call[r].user] \in Reviewers
          /\ call[r].user # seen[r].preparedBy
      BY <1>1, <2>5 DEF Entitled
    <3>. QED
      BY <1>2, <2>2, <2>3, <3>1, <3>2
  <2>. QED
    BY <1>4, <2>4, <2>5 DEF Overwrites
<1>. QED
  BY <1>3, <1>4

LEMMA DutyStep ==
    ASSUME IInv, SeparationOfDuty, [Next]_vars
    PROVE  SeparationOfDuty'
<1>. USE DEF IInv
<1>. DEFINE Fits(rev, row) == IF rev.status \in Final
                              THEN RoleOf[rev.actor] \in Reviewers /\ rev.actor # row.preparedBy
                              ELSE RoleOf[rev.actor] = "admin" \/ rev.actor = row.preparedBy
<1>1. CASE UNCHANGED <<decision, revisions>>
  BY <1>1 DEF SeparationOfDuty
<1>2. ASSUME NEW r \in Request, Writing(r), NEW c \in Code, NEW i \in DOMAIN revisions'[c]
      PROVE  Fits(revisions'[c][i], decision'[c])
  <2>1. \A j \in DOMAIN revisions[c] : Fits(revisions[c][j], decision[c])
    BY DEF SeparationOfDuty
  <2>2. revisions[c] \in Seq(Revision) /\ Len(revisions[c]) = decision[c].version
    BY DEF TypeOK, RevisionChain
  <2>3. CASE i \in DOMAIN revisions[c] /\ revisions'[c][i] = revisions[c][i]
    <3>1. decision[c].version # 0
      BY <2>2, <2>3
    <3>2. decision'[c].preparedBy = decision[c].preparedBy
      BY <1>2, <3>1, RowsAdvance
    <3>. QED
      BY <2>1, <2>3, <3>2
  <2>4. CASE c # call[r].code \/ Withdraws(r)
    <3>1. revisions'[c] = revisions[c]
      <4>1. \A d \in Code \ {call[r].code} : revisions'[d] = revisions[d]
        BY <1>2, WritingEffect
      <4>. QED
        BY <2>4, <4>1 DEF Withdraws
    <3>. QED
      BY <1>2, <2>3, <3>1
  <2>5. CASE c = call[r].code /\ ~Withdraws(r)
    <3>1. revisions'[c] = Append(revisions[c], NewRevision(r))
      BY <1>2, <2>5, WritingEffect
    <3>2. NewRevision(r) \in Revision
      BY <1>2, <2>5, RowAndRevisionAgree DEF Writing
    <3>3. (i \in DOMAIN revisions[c] /\ revisions'[c][i] = revisions[c][i])
            \/ revisions'[c][i] = NewRevision(r)
      BY <1>2, <2>2, <3>1, <3>2, AppendElements
    <3>4. Fits(NewRevision(r), decision'[c])
      BY <1>2, <2>5, AuthorIsEntitled DEF Writing
    <3>. QED
      BY <2>3, <3>3, <3>4
  <2>. QED
    BY <2>4, <2>5
<1>. QED
  BY <1>1, <1>2, StoreSteps DEF SeparationOfDuty

(* A final status is always the decision of a reviewer or admin other than   *)
(* the preparer, and a draft the work of the preparer or an admin, for any   *)
(* requests, users and versions that clients send.                           *)
THEOREM DutiesAreSeparated == Spec => []SeparationOfDuty
<1>1. Init => SeparationOfDuty
  BY ChainInit
<1>2. IInv /\ SeparationOfDuty /\ [Next]_vars => SeparationOfDuty'
  BY DutyStep
<1>. QED
  BY <1>1, <1>2, IInvInductive, PTL DEF Spec

-----------------------------------------------------------------------------
(* Final decisions.                                                         *)

(* r names a version later than the one it was checked on. *)
Guesses(r) == call[r].expected > seen[r].version

(* The optimistic lock works, but for guesses: what is overwritten is what    *)
(* was read.                                                                *)
LEMMA ReadIsOverwritten ==
    ASSUME IInv, NEW r \in Request, Overwrites(r), ~Guesses(r), NEW c, c = call[r].code
    PROVE  decision[c].status = "draft" /\ decision[c].content = seen[r].content
<1>. USE DEF IInv
<1>1. seen[r].version \in 1..decision[c].version /\ decision[c].version = call[r].expected
  BY WritingEffect DEF Overwrites, SnapshotIsFaithful, Writing
<1>2. c \in Code /\ decision[c].version \in Nat
  BY WritingEffect DEF Writing, Row
<1>3. seen[r].version = decision[c].version
  BY <1>1, <1>2 DEF Guesses
<1>. QED
  BY <1>3 DEF Overwrites, SnapshotIsFaithful

LEMMA NobodyGuesses ==
    ASSUME Lookahead = 0, IInv, NEW r \in Request, Overwrites(r)
    PROVE  ~Guesses(r)
<1>1. call[r].expected \in 1..(seen[r].version + Lookahead) /\ seen[r] \in Row
  BY DEF IInv, Overwrites, RequestOK, InFlight, Entitled
<1>. QED
  BY <1>1 DEF Guesses, Row

LEMMA OnlyDraftsAreOverwritten ==
    ASSUME Lookahead = 0, IInv, NEW r \in Request, Overwrites(r), NEW c, c = call[r].code
    PROVE  decision[c].status = "draft" /\ decision[c].content = seen[r].content
BY ReadIsOverwritten, NobodyGuesses

Frozen(c) ==
    decision[c].status \in Final =>
        /\ decision'[c] = [decision[c] EXCEPT !.deleted = decision'[c].deleted]
        /\ revisions'[c] = revisions[c]

Guessed(c) == \E r \in Request : Overwrites(r) /\ Guesses(r) /\ call[r].code = c

LEMMA FinalStep ==
    ASSUME IInv, [Next]_vars, NEW c \in Code
    PROVE  Frozen(c) \/ Guessed(c)
<1>. SUFFICES ASSUME decision[c].status \in Final PROVE Frozen(c) \/ Guessed(c)
  BY DEF Frozen
<1>. USE DEF IInv
<1>1. decision[c] \in Row
  BY DEF TypeOK, NoRow, Final
<1>2. decision[c] = [decision[c] EXCEPT !.deleted = decision[c].deleted]
  BY <1>1 DEF Row
<1>3. CASE decision'[c] = decision[c] /\ revisions'[c] = revisions[c]
  BY <1>2, <1>3 DEF Frozen
<1>4. ASSUME NEW r \in Request, Writing(r)
      PROVE  Frozen(c) \/ Guessed(c)
  <2>1. CASE c # call[r].code
    <3>1. \A d \in Code \ {call[r].code} : decision'[d] = decision[d] /\ revisions'[d] = revisions[d]
      BY <1>4, WritingEffect
    <3>. QED
      BY <1>3, <2>1, <3>1
  <2>2. CASE c = call[r].code /\ Inserts(r)
    <3>1. decision[c].version = 0
      BY <2>2 DEF Inserts
    <3>. QED
      BY <1>1, <3>1 DEF Row
  <2>3. CASE c = call[r].code /\ Overwrites(r)
    <3>1. ~Guesses(r) => decision[c].status = "draft"
      BY <2>3, ReadIsOverwritten
    <3>. QED
      BY <2>3, <3>1 DEF Final, Guessed
  <2>4. CASE c = call[r].code /\ Withdraws(r)
    <3>1. decision'[c] = [decision[c] EXCEPT !.deleted = TRUE] /\ revisions'[c] = revisions[c]
      BY <1>4, <2>4, WritingEffect
    <3>2. decision'[c].deleted = TRUE
      BY <1>1, <3>1 DEF Row
    <3>. QED
      BY <3>1, <3>2 DEF Frozen
  <2>. QED
    BY <1>4, <2>1, <2>2, <2>3, <2>4 DEF Writing
<1>. QED
  BY <1>3, <1>4, StoreSteps

(* Once a decision is observe, restrict or urgent, no step of any number of  *)
(* concurrent requests changes its row (but for the soft-delete mark) or its *)
(* revisions, when clients send versions they were shown.                    *)
THEOREM FinalDecisionsAreFrozen ==
    ASSUME Lookahead = 0
    PROVE  Spec => FinalIsFrozen
<1>1. IInv /\ [Next]_vars => [\A c \in Code : Frozen(c)]_vars
  BY FinalStep, NobodyGuesses DEF Guessed
<1>. QED
  BY <1>1, IInvInductive, PTL DEF Spec, FinalIsFrozen, Frozen

(* Whatever clients send, a final decision is changed in one way only: by a   *)
(* request that names the version the row has now and was checked on an      *)
(* earlier one.  What overwrites final decisions for clients that name the   *)
(* next version has no other cause (Update and Transition,                   *)
(* service/priority_decision.go:70-138).                                    *)
THEOREM OnlyGuessesUnfreeze == Spec => [][\A c \in Code : Frozen(c) \/ Guessed(c)]_vars
<1>1. IInv /\ [Next]_vars => [\A c \in Code : Frozen(c) \/ Guessed(c)]_vars
  BY FinalStep
<1>. QED
  BY <1>1, IInvInductive, PTL DEF Spec

LEMMA EvidenceInit == Init => ReviewedEvidence
<1>. SUFFICES ASSUME Init, NEW c \in Code, NEW i \in DOMAIN revisions[c],
                     revisions[c][i].status \in Final
              PROVE  /\ i > 1
                     /\ revisions[c][i - 1].status = "draft"
                     /\ revisions[c][i - 1].content = revisions[c][i].content
  BY DEF ReviewedEvidence
<1>1. decision[c] # NoRow
  BY DEF Init
<1>2. PICK s \in {"draft"} \cup SeedFinal, x \in Content :
         decision[c] = SeedRow(s, x) /\ revisions[c] = SeedRevisions(s, x)
  BY <1>1, SeedOnly
<1>3. revisions[c] = SeedRevisions(s, x)
  BY <1>2
<1>. DEFINE a == SeedRevision(1, "draft", x, SeedPreparer)
            b == SeedRevision(2, s, x, SeedReviewer)
<1>4. a.status = "draft" /\ a.content = x /\ b.content = x
  BY DEF SeedRevision
<1>5. IF s = "draft" THEN revisions[c] = <<a>> ELSE revisions[c] = <<a, b>>
  BY <1>3 DEF SeedRevisions
<1>. HIDE DEF a, b
<1>. QED
  BY <1>4, <1>5 DEF Final

LEMMA EvidenceStep ==
    ASSUME Lookahead = 0, IInv, ReviewedEvidence, [Next]_vars
    PROVE  ReviewedEvidence'
<1>. USE DEF IInv
<1>. DEFINE Reviewed(chain, i) ==
       chain[i].status \in Final =>
          /\ i > 1
          /\ chain[i - 1].status = "draft"
          /\ chain[i - 1].content = chain[i].content
<1>1. CASE UNCHANGED <<decision, revisions>>
  BY <1>1 DEF ReviewedEvidence
<1>2. ASSUME NEW r \in Request, Writing(r), NEW c \in Code, NEW i \in DOMAIN revisions'[c]
      PROVE  Reviewed(revisions'[c], i)
  <2>1. \A j \in DOMAIN revisions[c] : Reviewed(revisions[c], j)
    BY DEF ReviewedEvidence
  <2>2. revisions[c] \in Seq(Revision) /\ Len(revisions[c]) = decision[c].version
    BY DEF TypeOK, RevisionChain
  <2>3. CASE c # call[r].code \/ Withdraws(r)
    <3>1. revisions'[c] = revisions[c]
      <4>1. \A d \in Code \ {call[r].code} : revisions'[d] = revisions[d]
        BY <1>2, WritingEffect
      <4>. QED
        BY <2>3, <4>1 DEF Withdraws
    <3>. QED
      BY <1>2, <2>1, <3>1
  <2>4. CASE c = call[r].code /\ ~Withdraws(r)
    <3>. DEFINE n == Len(revisions[c])
    <3>1. revisions'[c] = Append(revisions[c], NewRevision(r)) /\ NewRevision(r) \in Revision
      BY <1>2, <2>4, WritingEffect, RowAndRevisionAgree DEF Writing
    <3>2. /\ i \in 1..(n + 1) /\ n \in Nat /\ DOMAIN revisions[c] = 1..n
          /\ \A j \in 1..n : revisions'[c][j] = revisions[c][j]
          /\ revisions'[c][n + 1] = NewRevision(r)
      BY <1>2, <2>2, <3>1, AppendElements
    <3>3. CASE i \in 1..n
      <4>1. Reviewed(revisions[c], i) /\ revisions'[c][i] = revisions[c][i]
        BY <2>1, <3>2, <3>3
      <4>2. i > 1 => i - 1 \in 1..n /\ revisions'[c][i - 1] = revisions[c][i - 1]
        BY <3>2, <3>3
      <4>. QED
        BY <4>1, <4>2
    <3>4. CASE i = n + 1 /\ call[r].op = "transition"
      <4>1. Overwrites(r)
        BY <1>2, <2>4, <3>4 DEF Writing, Inserts
      <4>2. decision[c].status = "draft" /\ decision[c].content = seen[r].content
        BY <2>4, <4>1, OnlyDraftsAreOverwritten
      <4>3. decision[c] \in Row
        BY <2>4, <4>1, WritingEffect DEF Writing
      <4>4. n > 0 /\ revisions[c][n].status = "draft" /\ revisions[c][n].content = seen[r].content
        BY <2>2, <4>2, <4>3 DEF RowIsNewestRevision, Row
      <4>5. NewRevision(r).content = seen[r].content
        BY <3>4, <4>1, Writes DEF Overwrites, RequestOK, InFlight
      <4>6. revisions'[c][n] = revisions[c][n] /\ (n + 1) - 1 = n
        BY <3>2, <4>4
      <4>7. revisions'[c][(n + 1) - 1] = revisions[c][n] /\ n + 1 > 1
        BY <3>2, <4>4, <4>6
      <4>. QED
        BY <3>2, <3>4, <4>4, <4>5, <4>7
    <3>5. CASE i = n + 1 /\ call[r].op # "transition"
      <4>1. NewRevision(r).status = "draft"
        BY <1>2, <2>4, <3>5, Writes DEF Writing, Inserts, Overwrites, RequestOK, InFlight
      <4>. QED
        BY <3>2, <3>5, <4>1 DEF Final
    <3>. QED
      BY <3>2, <3>3, <3>4, <3>5
  <2>. QED
    BY <2>3, <2>4
<1>3. CASE \E r \in Request : Writing(r)
  <2>1. \A c \in Code : \A i \in DOMAIN revisions'[c] : Reviewed(revisions'[c], i)
    BY <1>2, <1>3
  <2>. QED
    BY <2>1, Zenon DEF ReviewedEvidence
<1>. QED
  BY <1>1, <1>3, StoreSteps

(* What a reviewer signs is exactly the evidence of the draft revision just  *)
(* before, however many edits race with the review.                          *)
THEOREM EvidenceIsReviewed ==
    ASSUME Lookahead = 0
    PROVE  Spec => []ReviewedEvidence
<1>1. Init => ReviewedEvidence
  BY EvidenceInit
<1>2. IInv /\ ReviewedEvidence /\ [Next]_vars => ReviewedEvidence'
  BY EvidenceStep
<1>. QED
  BY <1>1, <1>2, IInvInductive, PTL DEF Spec

=============================================================================
