----------------------- MODULE VersionedRecordProofs -----------------------
(***************************************************************************)
(* Proofs about VersionedRecord, for any number of requests, users,        *)
(* records and contents: types, what the lock guarantees, and, for clients *)
(* that send versions they were shown, that the services implement         *)
(* RecordWalk.                                                             *)
(***************************************************************************)
EXTENDS VersionedRecord, FiniteSetTheorems, TLAPS

(* What the checks before the write have established of a request that is    *)
(* about to write k, having read row.                                       *)
Checked(k, row) ==
    /\ k \in Calls
    /\ k.op \in {"create", "update"} => k.content \in Content
    /\ k.op # "create" =>
          row \in Row /\ row.status \in StatusOf(KindOf[k.code])
    /\ k.op = "transition" => CanTransition(KindOf[k.code], row.status, k.status)
    /\ k.op \in {"update", "transition"} => k.expected <= row.version + Lookahead

RequestOK ==
    \A r \in Request : pc[r] \in InFlight =>
        Checked(call[r], seen[r]) /\ (call[r].op = "create" => seen[r] = NoRow)

IInv == TypeOK /\ RequestOK /\ SnapshotIsFaithful

-----------------------------------------------------------------------------
(* The graphs lead to statuses of their own kind. *)
LEMMA GraphsAreClosed ==
    ASSUME NEW kind \in Kind, NEW s, NEW t, CanTransition(kind, s, t)
    PROVE  s \in StatusOf(kind) /\ t \in StatusOf(kind)
<1>1. CASE kind = "BridgeAsset"
  BY <1>1 DEF CanTransition, StatusOf, Graph, BridgeAssetTransitions
<1>2. CASE kind = "InspectionRound"
  BY <1>2 DEF CanTransition, StatusOf, Graph, InspectionRoundTransitions
<1>3. CASE kind = "DefectFinding"
  BY <1>3 DEF CanTransition, StatusOf, Graph, DefectFindingTransitions
<1>. QED
  BY <1>1, <1>2, <1>3 DEF Kind, Graph

LEMMA StatusesOfKinds ==
    ASSUME NEW kind \in Kind
    PROVE  /\ StatusOf(kind) \subseteq Status
           /\ InitialStatus[kind] \in StatusOf(kind)
           /\ SeedStatus[kind] \subseteq StatusOf(kind)
<1>1. StatusOf(kind) \subseteq Status
  BY DEF Status
<1>2. CASE kind = "BridgeAsset"
  BY <1>1, <1>2 DEF StatusOf, Graph, BridgeAssetTransitions, InitialStatus, SeedStatus
<1>3. CASE kind = "InspectionRound"
  BY <1>1, <1>3 DEF StatusOf, Graph, InspectionRoundTransitions, InitialStatus, SeedStatus
<1>4. CASE kind = "DefectFinding"
  BY <1>1, <1>4 DEF StatusOf, Graph, DefectFindingTransitions, InitialStatus, SeedStatus
<1>. QED
  BY <1>2, <1>3, <1>4 DEF Kind, Graph

(* A request that arrives is refused and forgotten, or has been checked       *)
(* against the row as it is.                                                *)
Arrived(r) ==
    /\ UNCHANGED db
    /\ \A q \in Request \ {r} : UNCHANGED <<pc[q], call[q], seen[q], reply[q]>>
    /\ pc' \in [Request -> {"idle", "done", "lost"} \cup InFlight]
    /\ reply' \in [Request -> {"none", "ok", "error"} \cup Refusal]
    /\ call' \in [Request -> Calls \cup {NoCall}]
    /\ seen' \in [Request -> Row \cup {NoRow}]
    /\ \/ pc'[r] = "done"
       \/ /\ pc'[r] = "write"
          /\ Checked(call'[r], seen'[r])
          /\ IF call'[r].op = "create" THEN seen'[r] = NoRow
             ELSE seen'[r] = record[call'[r].code] /\ Visible(seen'[r])

LEMMA Receives ==
    ASSUME TypeOK, NEW r \in Request, NEW k \in Calls, NEW row \in Row \cup {NoRow},
           NEW verdict \in Refusal \cup {"accepted"}, Receive(r, k, row, verdict),
           verdict = "accepted" =>
              /\ Checked(k, row)
              /\ IF k.op = "create" THEN row = NoRow ELSE row = record[k.code] /\ Visible(row)
    PROVE  Arrived(r)
<1>1. CASE verdict = "accepted"
  BY <1>1 DEF Receive, Arrived, TypeOK, InFlight, Refusal, db
<1>2. CASE verdict \in Refusal
  BY <1>2 DEF Receive, Arrived, TypeOK, InFlight, Refusal, db
<1>. QED
  BY <1>1, <1>2

LEMMA Arrivals ==
    ASSUME TypeOK, NEW r \in Request,
           Create(r) \/ Update(r) \/ Transition(r) \/ Delete(r)
    PROVE  Arrived(r)
<1>. USE DEF Refusal
<1>0. ASSUME NEW c \in Code, Visible(record[c])
      PROVE  record[c] \in Row /\ record[c].status \in StatusOf(KindOf[c])
  BY <1>0 DEF Visible, TypeOK, NoRow
<1>1. CASE Create(r)
  <2>1. PICK u \in User, c \in Code, x \in Content \cup {NoContent} :
          Receive(r, Call("create", c, 0, x, "none"), NoRow,
                  CreateVerdict(u, Call("create", c, 0, x, "none")))
    BY <1>1 DEF Create
  <2>. DEFINE k == Call("create", c, 0, x, "none")
  <2>2. k \in Calls /\ k.op = "create" /\ k.content = x
    BY DEF Call, Calls, Op
  <2>3. CreateVerdict(u, k) = "accepted" => x \in Content
    BY <2>2 DEF CreateVerdict
  <2>4. CreateVerdict(u, k) \in Refusal \cup {"accepted"}
    BY DEF CreateVerdict
  <2>5. CreateVerdict(u, k) = "accepted" => Checked(k, NoRow)
    BY <2>2, <2>3 DEF Checked
  <2>. HIDE DEF k
  <2>. QED
    BY <2>1, <2>2, <2>4, <2>5, Receives DEF k
<1>2. CASE Update(r)
  <2>9. PICK u \in User, c \in Code, x \in Content \cup {NoContent} : \E v \in Shown(c) :
          Receive(r, Call("update", c, v, x, "none"), record[c],
                  UpdateVerdict(u, Call("update", c, v, x, "none"), record[c]))
    BY <1>2 DEF Update
  <2>1. PICK v \in Shown(c) :
          Receive(r, Call("update", c, v, x, "none"), record[c],
                  UpdateVerdict(u, Call("update", c, v, x, "none"), record[c]))
    BY <2>9
  <2>. DEFINE k == Call("update", c, v, x, "none")
  <2>0. record[c] \in Row \cup {NoRow}
    BY DEF TypeOK
  <2>6. record[c].version \in Nat
    BY <2>0 DEF Row, NoRow
  <2>7. v \in Nat /\ (v <= record[c].version + Lookahead \/ v = 1)
    BY <2>6, LookaheadIsNat DEF Shown
  <2>2. /\ k \in Calls /\ k.op = "update" /\ k.content = x /\ k.code = c
        /\ k.expected = v
    BY <2>7 DEF Call, Calls, Op
  <2>3. UpdateVerdict(u, k, record[c]) = "accepted" => x \in Content /\ Visible(record[c])
    BY <2>2 DEF UpdateVerdict
  <2>4. UpdateVerdict(u, k, record[c]) \in Refusal \cup {"accepted"}
    BY DEF UpdateVerdict
  <2>8. Visible(record[c]) => v <= record[c].version + Lookahead
    BY <2>6, <2>7, LookaheadIsNat DEF Visible
  <2>5. UpdateVerdict(u, k, record[c]) = "accepted" => Checked(k, record[c])
    BY <1>0, <2>2, <2>3, <2>8 DEF Checked
  <2>. HIDE DEF k
  <2>. QED
    BY <2>0, <2>1, <2>2, <2>3, <2>4, <2>5, Receives DEF k
<1>3. CASE Transition(r)
  <2>9. PICK u \in User, c \in Code, s \in Status : \E v \in Shown(c) :
          Receive(r, Call("transition", c, v, NoContent, s), record[c],
                  TransitionVerdict(u, Call("transition", c, v, NoContent, s), record[c]))
    BY <1>3 DEF Transition
  <2>1. PICK v \in Shown(c) :
          Receive(r, Call("transition", c, v, NoContent, s), record[c],
                  TransitionVerdict(u, Call("transition", c, v, NoContent, s), record[c]))
    BY <2>9
  <2>. DEFINE k == Call("transition", c, v, NoContent, s)
  <2>0. record[c] \in Row \cup {NoRow}
    BY DEF TypeOK
  <2>6. record[c].version \in Nat
    BY <2>0 DEF Row, NoRow
  <2>7. v \in Nat /\ (v <= record[c].version + Lookahead \/ v = 1)
    BY <2>6, LookaheadIsNat DEF Shown
  <2>2. /\ k \in Calls /\ k.op = "transition" /\ k.status = s /\ k.code = c
        /\ k.expected = v
    BY <2>7 DEF Call, Calls, Op
  <2>3. TransitionVerdict(u, k, record[c]) = "accepted" =>
           Visible(record[c]) /\ CanTransition(KindOf[c], record[c].status, s)
    BY <2>2 DEF TransitionVerdict
  <2>4. TransitionVerdict(u, k, record[c]) \in Refusal \cup {"accepted"}
    BY DEF TransitionVerdict
  <2>8. Visible(record[c]) => v <= record[c].version + Lookahead
    BY <2>6, <2>7, LookaheadIsNat DEF Visible
  <2>5. TransitionVerdict(u, k, record[c]) = "accepted" => Checked(k, record[c])
    BY <1>0, <2>2, <2>3, <2>8 DEF Checked
  <2>. HIDE DEF k
  <2>. QED
    BY <2>0, <2>1, <2>2, <2>3, <2>4, <2>5, Receives DEF k
<1>4. CASE Delete(r)
  <2>1. PICK u \in User, c \in Code :
          Receive(r, Call("delete", c, 0, NoContent, "none"), record[c],
                  DeleteVerdict(u, record[c]))
    BY <1>4 DEF Delete
  <2>. DEFINE k == Call("delete", c, 0, NoContent, "none")
  <2>0. record[c] \in Row \cup {NoRow}
    BY DEF TypeOK
  <2>2. k \in Calls /\ k.op = "delete" /\ k.code = c
    BY DEF Call, Calls, Op
  <2>3. DeleteVerdict(u, record[c]) = "accepted" => Visible(record[c])
    BY DEF DeleteVerdict
  <2>4. DeleteVerdict(u, record[c]) \in Refusal \cup {"accepted"}
    BY DEF DeleteVerdict
  <2>5. DeleteVerdict(u, record[c]) = "accepted" => Checked(k, record[c])
    BY <1>0, <2>2, <2>3 DEF Checked
  <2>. HIDE DEF k
  <2>. QED
    BY <2>0, <2>1, <2>2, <2>3, <2>4, <2>5, Receives DEF k
<1>. QED
  BY <1>1, <1>2, <1>3, <1>4

-----------------------------------------------------------------------------
(* The three writes. *)

Inserts(r) ==
    /\ pc[r] = "write" /\ call[r].op = "create"
    /\ record[call[r].code].version = 0
    /\ record' = [record EXCEPT ![call[r].code] = Item(r)]

Overwrites(r) ==
    /\ pc[r] = "write" /\ call[r].op \in {"update", "transition"}
    /\ Visible(record[call[r].code]) /\ record[call[r].code].version = call[r].expected
    /\ record' = [record EXCEPT ![call[r].code] = Overwrite(@, Item(r))]

Withdraws(r) ==
    /\ pc[r] = "write" /\ call[r].op = "delete"
    /\ Visible(record[call[r].code])
    /\ record' = [record EXCEPT ![call[r].code].deleted = TRUE]

Writing(r) == Inserts(r) \/ Overwrites(r) \/ Withdraws(r)

(* A step after the arrival: no call or read changes, and no request comes    *)
(* back to its write.                                                       *)
Proceeds ==
    /\ UNCHANGED <<call, seen>>
    /\ pc' \in [Request -> {"idle", "done", "lost"} \cup InFlight]
    /\ reply' \in [Request -> {"none", "ok", "error"} \cup Refusal]
    /\ \A q \in Request : pc'[q] \in InFlight => pc[q] \in InFlight
    /\ \A q \in Request : pc'[q] = "write" => pc[q] = "write"

LEMMA Proceeding ==
    ASSUME TypeOK, NEW r \in Request, pc[r] \in InFlight, UNCHANGED <<call, seen>>,
           NEW l \in {"audit", "reread", "done"}, NEW a \in {"ok", "error"} \cup Refusal,
           pc' = [pc EXCEPT ![r] = l],
           reply' = reply \/ reply' = [reply EXCEPT ![r] = a]
    PROVE  Proceeds
BY DEF Proceeds, TypeOK, InFlight

(* Every step is an arrival, or proceeds and leaves the records alone or      *)
(* makes one of the writes.                                                 *)
LEMMA StepKinds ==
    ASSUME TypeOK, [Next]_vars
    PROVE  \/ \E r \in Request : Arrived(r) /\ UNCHANGED record
           \/ Proceeds /\ (UNCHANGED record \/ \E r \in Request : Writing(r))
<1>1. CASE UNCHANGED vars
  BY <1>1 DEF vars, Proceeds, TypeOK
<1>2. CASE Crash
  BY <1>2 DEF Crash, Proceeds, TypeOK, InFlight
<1>3. ASSUME NEW r \in Request, Create(r) \/ Update(r) \/ Transition(r) \/ Delete(r)
      PROVE  Arrived(r) /\ UNCHANGED record
  BY <1>3, Arrivals DEF Arrived, db
<1>4. ASSUME NEW r \in Request, Insert(r) \/ WriteUpdate(r) \/ SoftDelete(r)
      PROVE  Proceeds /\ (UNCHANGED record \/ Writing(r))
  <2>1. pc[r] = "write" /\ UNCHANGED <<call, seen>>
    BY <1>4 DEF Insert, WriteUpdate, SoftDelete
  <2>2. Proceeds
    <3>1. \/ Committed(r)
          \/ \E a \in {"error", "conflict", "not_found"} : Return(r, a)
      BY <1>4 DEF Insert, WriteUpdate, SoftDelete
    <3>. QED
      BY <2>1, <3>1, Proceeding DEF Committed, Return, Goto, InFlight, Refusal
  <2>3. UNCHANGED record \/ Writing(r)
    BY <1>4 DEF Insert, WriteUpdate, SoftDelete, Writing, Inserts, Overwrites, Withdraws,
                RowMatches
  <2>. QED
    BY <2>2, <2>3
<1>5. ASSUME NEW r \in Request, AppendAudit(r) \/ AuditFails(r)
      PROVE  Proceeds /\ UNCHANGED record
  BY <1>5, Proceeding DEF AppendAudit, AuditFails, Audited, Return, Goto, InFlight, Refusal
<1>6. ASSUME NEW r \in Request, Reread(r) \/ StatementFails(r)
      PROVE  Proceeds /\ UNCHANGED record
  BY <1>6, Proceeding DEF Reread, StatementFails, Return, InFlight, Refusal
<1>. QED
  BY <1>1, <1>2, <1>3, <1>4, <1>5, <1>6 DEF Next, Step

(* What a checked request writes is a well-formed row. *)
LEMMA Writes ==
    ASSUME TypeOK, RequestOK, NEW r \in Request, pc[r] \in InFlight, call[r].op # "delete"
    PROVE  /\ call[r].code \in Code /\ Item(r) \in Row
           /\ Item(r).status \in StatusOf(KindOf[call[r].code])
           /\ call[r].op # "create" => Item(r).version = call[r].expected + 1
<1>. DEFINE k == call[r]
<1>1. Checked(k, seen[r]) /\ k \in Calls /\ k.op \in Op /\ k.code \in Code
  BY DEF RequestOK, Checked, Calls
<1>2. KindOf[k.code] \in Kind /\ k.expected + 1 \in Nat \ {0}
  BY <1>1, KindsAssigned DEF Calls
<1>3. CASE k.op = "create"
  BY <1>1, <1>2, <1>3, StatusesOfKinds DEF Checked, Item, OpenedRow, Row
<1>4. CASE k.op = "update"
  <2>1. Item(r) = [seen[r] EXCEPT !.content = k.content, !.version = k.expected + 1]
    BY <1>4 DEF Item, EditedRow
  <2>2. seen[r] \in Row /\ seen[r].status \in StatusOf(KindOf[k.code]) /\ k.content \in Content
    BY <1>1, <1>4 DEF Checked
  <2>. HIDE DEF k
  <2>. QED
    BY <1>1, <1>2, <2>1, <2>2 DEF Row, k
<1>5. CASE k.op = "transition"
  <2>1. Item(r) = [seen[r] EXCEPT !.status = k.status, !.version = k.expected + 1]
    BY <1>5 DEF Item, MovedRow
  <2>2. seen[r] \in Row /\ CanTransition(KindOf[k.code], seen[r].status, k.status)
    BY <1>1, <1>5 DEF Checked
  <2>3. k.status \in StatusOf(KindOf[k.code]) /\ k.status \in Status
    BY <1>2, <2>2, GraphsAreClosed, StatusesOfKinds
  <2>. HIDE DEF k
  <2>. QED
    BY <1>1, <1>2, <2>1, <2>2, <2>3 DEF Row, k
<1>. QED
  BY <1>1, <1>3, <1>4, <1>5 DEF Op

(* The record that a write concerns stays well-formed, keeps its status or    *)
(* advances its version, and the other records do not change.               *)
LEMMA WritingEffect ==
    ASSUME TypeOK, RequestOK, NEW r \in Request, Writing(r)
    PROVE  LET c == call[r].code IN
           /\ c \in Code
           /\ record'[c] \in Row /\ record'[c].status \in StatusOf(KindOf[c])
           /\ \A d \in Code \ {c} : record'[d] = record[d]
           /\ record' \in [Code -> Row \cup {NoRow}]
           /\ record[c].version < record'[c].version \/
                 /\ record[c].version = record'[c].version
                 /\ record[c].status = record'[c].status
                 /\ record[c].content = record'[c].content
<1>. DEFINE c == call[r].code
<1>1. pc[r] \in InFlight /\ Checked(call[r], seen[r]) /\ call[r] \in Calls /\ c \in Code
  BY DEF Writing, Inserts, Overwrites, Withdraws, InFlight, RequestOK, Checked, Calls
<1>2. record \in [Code -> Row \cup {NoRow}] /\ record[c] \in Row \cup {NoRow}
  BY <1>1 DEF TypeOK
<1>3. CASE Inserts(r)
  <2>1. record'[c] = Item(r) /\ record' = [record EXCEPT ![c] = Item(r)]
    BY <1>1, <1>2, <1>3 DEF Inserts
  <2>2. Item(r) \in Row /\ Item(r).status \in StatusOf(KindOf[c])
    BY <1>1, <1>3, Writes DEF Inserts
  <2>3. record[c].version = 0 /\ record[c].version < record'[c].version
    BY <1>3, <2>1, <2>2 DEF Inserts, Row
  <2>. QED
    BY <1>1, <1>2, <2>1, <2>2, <2>3
<1>4. CASE Overwrites(r)
  <2>1. Item(r) \in Row /\ Item(r).status \in StatusOf(KindOf[c])
        /\ Item(r).version = call[r].expected + 1
    BY <1>1, <1>4, Writes DEF Overwrites
  <2>2. record[c] \in Row /\ record[c].version = call[r].expected
    BY <1>2, <1>4 DEF Overwrites, Visible, NoRow
  <2>3. record' = [record EXCEPT ![c] = Overwrite(record[c], Item(r))]
    BY <1>2, <1>4 DEF Overwrites
  <2>4. /\ Overwrite(record[c], Item(r)) \in Row
        /\ Overwrite(record[c], Item(r)).status = Item(r).status
        /\ Overwrite(record[c], Item(r)).version = record[c].version + 1
    BY <2>1, <2>2 DEF Overwrite, Row
  <2>5. record[c].version < record[c].version + 1
    BY <2>2 DEF Row
  <2>. QED
    BY <1>1, <1>2, <2>1, <2>3, <2>4, <2>5
<1>5. CASE Withdraws(r)
  <2>1. record[c] \in Row /\ record[c].status \in StatusOf(KindOf[c])
    BY <1>1, <1>2, <1>5 DEF Withdraws, Visible, NoRow, TypeOK
  <2>2. record' = [record EXCEPT ![c] = [record[c] EXCEPT !.deleted = TRUE]]
    BY <1>5 DEF Withdraws
  <2>3. [record[c] EXCEPT !.deleted = TRUE] \in Row
    BY <2>1 DEF Row
  <2>4. /\ [record[c] EXCEPT !.deleted = TRUE].status = record[c].status
        /\ [record[c] EXCEPT !.deleted = TRUE].version = record[c].version
        /\ [record[c] EXCEPT !.deleted = TRUE].content = record[c].content
    BY <2>1 DEF Row
  <2>. QED
    BY <1>1, <1>2, <2>1, <2>2, <2>3, <2>4
<1>. QED
  BY <1>3, <1>4, <1>5 DEF Writing

-----------------------------------------------------------------------------
(* Types. *)

LEMMA InitInvariant == Init => IInv
<1>. SUFFICES ASSUME Init PROVE IInv
  OBVIOUS
<1>1. TypeOK
  <2>0. \A s \in Status, x \in Content : OpenedRow(s, x) \in Row
    BY DEF OpenedRow, Row
  <2>1. record \in [Code -> Row \cup {NoRow}]
    BY <2>0 DEF Init
  <2>2. \A c \in Code : record[c] # NoRow => record[c].status \in StatusOf(KindOf[c])
    BY StatusesOfKinds, KindsAssigned DEF Init
  <2>. QED
    BY <2>1, <2>2 DEF Init, TypeOK
<1>2. RequestOK /\ SnapshotIsFaithful
  BY DEF Init, RequestOK, SnapshotIsFaithful, InFlight
<1>. QED
  BY <1>1, <1>2 DEF IInv

(* The audit stays typed. *)
LEMMA AuditStep ==
    ASSUME TypeOK, RequestOK, [Next]_vars
    PROVE  audit' \subseteq Entry
<1>1. ASSUME NEW r \in Request, AppendAudit(r) \/ AuditFails(r)
      PROVE  audit' \subseteq Entry
  <2>1. /\ pc[r] \in InFlight /\ Checked(call[r], seen[r]) /\ call[r] \in Calls
        /\ audit' \subseteq audit \cup {AuditEntry(r)}
    BY <1>1 DEF AppendAudit, AuditFails, InFlight, RequestOK, Checked
  <2>2. seen[r].status \in Status \cup {"none"}
    BY DEF TypeOK, Row, NoRow
  <2>3. StateAfter(r) \in Status \cup {"deleted"}
    BY <2>1, Writes DEF StateAfter, Row
  <2>4. AuditEntry(r) \in Entry
    BY <2>1, <2>2, <2>3 DEF AuditEntry, Entry, StateBefore, Calls
  <2>. QED
    BY <2>1, <2>4 DEF TypeOK
<1>2. CASE UNCHANGED audit
  BY <1>2 DEF TypeOK
<1>3. ASSUME NEW r \in Request, Create(r) \/ Update(r) \/ Transition(r) \/ Delete(r)
      PROVE  UNCHANGED audit
  BY <1>3, Arrivals DEF Arrived, db
<1>4. ASSUME NEW r \in Request, Insert(r) \/ WriteUpdate(r) \/ SoftDelete(r)
                                 \/ Reread(r) \/ StatementFails(r)
      PROVE  UNCHANGED audit
  BY <1>4 DEF Insert, WriteUpdate, SoftDelete, Reread, StatementFails
<1>5. CASE Crash \/ UNCHANGED vars
  BY <1>2, <1>5 DEF Crash, vars
<1>. QED
  BY <1>1, <1>2, <1>3, <1>4, <1>5 DEF Next, Step

LEMMA TypesStep == TypeOK /\ RequestOK /\ [Next]_vars => TypeOK' /\ RequestOK'
<1>. SUFFICES ASSUME TypeOK, RequestOK, [Next]_vars PROVE TypeOK' /\ RequestOK'
  OBVIOUS
<1>1. ASSUME NEW r \in Request, Arrived(r), UNCHANGED record
      PROVE  TypeOK' /\ RequestOK'
  <2>1. TypeOK'
    BY <1>1, AuditStep DEF Arrived, TypeOK
  <2>2. ASSUME NEW q \in Request, pc'[q] \in InFlight
        PROVE  Checked(call'[q], seen'[q]) /\ (call'[q].op = "create" => seen'[q] = NoRow)
    <3>1. CASE q = r
      BY <1>1, <2>2, <3>1 DEF Arrived, InFlight
    <3>2. CASE q # r
      BY <1>1, <2>2, <3>2 DEF Arrived, RequestOK
    <3>. QED
      BY <3>1, <3>2
  <2>. QED
    BY <2>1, <2>2 DEF RequestOK, Checked
<1>2. ASSUME Proceeds
      PROVE  RequestOK'
  BY <1>2 DEF Proceeds, RequestOK, Checked
<1>3. ASSUME Proceeds, UNCHANGED record
      PROVE  TypeOK'
  BY <1>3, AuditStep DEF Proceeds, TypeOK
<1>4. ASSUME Proceeds, NEW r \in Request, Writing(r)
      PROVE  TypeOK'
  <2>1. /\ record' \in [Code -> Row \cup {NoRow}]
        /\ \A c \in Code : record'[c] # NoRow => record'[c].status \in StatusOf(KindOf[c])
    BY <1>4, WritingEffect DEF TypeOK
  <2>. QED
    BY <1>4, <2>1, AuditStep DEF Proceeds, TypeOK
<1>. QED
  BY <1>1, <1>2, <1>3, <1>4, StepKinds

-----------------------------------------------------------------------------
(* What a request has read, against what the row has become. *)

LEMMA SnapshotStep == IInv /\ [Next]_vars => SnapshotIsFaithful'
<1>. SUFFICES ASSUME IInv, [Next]_vars, NEW q \in Request,
                     pc'[q] = "write", call'[q].op # "create"
              PROVE  /\ seen'[q].version \in 1..record'[call'[q].code].version
                     /\ seen'[q].version = record'[call'[q].code].version =>
                           /\ seen'[q].status = record'[call'[q].code].status
                           /\ seen'[q].content = record'[call'[q].code].content
  BY DEF SnapshotIsFaithful
<1>. USE DEF IInv
<1>1. CASE pc[q] = "write" /\ call'[q] = call[q] /\ seen'[q] = seen[q]
  <2>. DEFINE c == call[q].code
  <2>1. /\ call[q].op # "create" /\ c \in Code
        /\ seen[q].version \in 1..record[c].version
        /\ seen[q].version = record[c].version =>
              seen[q].status = record[c].status /\ seen[q].content = record[c].content
    BY <1>1 DEF SnapshotIsFaithful, RequestOK, InFlight, Checked, Calls
  <2>2. /\ record[c].version \in Nat /\ record'[c].version \in Nat
        /\ \/ record'[c].version > record[c].version
           \/ /\ record'[c].version = record[c].version
              /\ record'[c].status = record[c].status
              /\ record'[c].content = record[c].content
    <3>1. record[c].version \in Nat /\ record'[c].version \in Nat
      BY <2>1, TypesStep DEF TypeOK, Row, NoRow
    <3>2. CASE UNCHANGED record
      BY <3>1, <3>2
    <3>3. ASSUME NEW r \in Request, Writing(r)
          PROVE  \/ record'[c].version > record[c].version
                 \/ /\ record'[c].version = record[c].version
                    /\ record'[c].status = record[c].status
                    /\ record'[c].content = record[c].content
      BY <2>1, <3>1, <3>3, WritingEffect
    <3>. QED
      BY <3>1, <3>2, <3>3, StepKinds
  <2>. HIDE DEF c
  <2>3. seen[q].version \in 1..record'[c].version
    BY <2>1, <2>2
  <2>4. seen[q].version = record'[c].version =>
          seen[q].status = record'[c].status /\ seen[q].content = record'[c].content
    BY <2>1, <2>2
  <2>. QED
    BY <1>1, <2>3, <2>4 DEF c
<1>2. CASE Arrived(q) /\ UNCHANGED record
  <2>1. seen'[q] = record[call'[q].code] /\ Visible(seen'[q]) /\ Checked(call'[q], seen'[q])
    BY <1>2 DEF Arrived
  <2>2. seen'[q].version \in Nat \ {0}
    BY <2>1 DEF Checked, Row
  <2>. QED
    BY <1>2, <2>1, <2>2
<1>. QED
  BY <1>1, <1>2, StepKinds DEF Arrived, Proceeds

LEMMA AlwaysIInv == Spec => []IInv
<1>1. IInv /\ [Next]_vars => IInv'
  BY TypesStep, SnapshotStep DEF IInv
<1>. QED
  BY <1>1, InitInvariant, PTL DEF Spec

(* Every variable always has its type: no interleaving and no failure gives a *)
(* record a status of another kind, or blank mandatory fields, whatever      *)
(* versions clients send.                                                   *)
THEOREM RecordTypes == Spec => []TypeOK
<1>1. IInv => TypeOK
  BY DEF IInv
<1>. QED
  BY <1>1, AlwaysIInv, PTL

(* A request about to write has read the row as it is, unless the version     *)
(* has moved on since.                                                      *)
THEOREM RecordSnapshots == Spec => []SnapshotIsFaithful
<1>1. IInv => SnapshotIsFaithful
  BY DEF IInv
<1>. QED
  BY <1>1, AlwaysIInv, PTL

-----------------------------------------------------------------------------
(* The services implement RecordWalk, for clients that send versions they     *)
(* were shown.                                                              *)

(* Both modules mean the same graphs. *)
LEMMA SameGraphs ==
    /\ Walk!Graph = Graph
    /\ Walk!Status = Status
    /\ Walk!SeedStatus = SeedStatus
    /\ \A kind, s, t : CanTransition(kind, s, t) => Walk!CanTransition(kind, s, t)
<1>1. Walk!Graph = Graph
  BY DEF Graph, Walk!Graph, BridgeAssetTransitions, Walk!BridgeAssetTransitions,
         InspectionRoundTransitions, Walk!InspectionRoundTransitions,
         DefectFindingTransitions, Walk!DefectFindingTransitions
<1>. QED
  BY <1>1 DEF Status, Walk!Status, Kind, Walk!Kind, StatusOf, Walk!StatusOf,
              SeedStatus, Walk!SeedStatus, CanTransition, Walk!CanTransition

LEMMA WalkInit == Init => Walk!Init
BY SameGraphs DEF Init, Walk!Init, OpenedRow, Walk!Opened

(* r names a version later than the one it was checked on. *)
Guesses(r) == call[r].expected > seen[r].version

LEMMA NobodyGuesses ==
    ASSUME Lookahead = 0, IInv, NEW r \in Request, Overwrites(r)
    PROVE  ~Guesses(r)
<1>1. /\ call[r].expected \in Nat /\ seen[r] \in Row
      /\ call[r].expected <= seen[r].version + Lookahead
  BY DEF IInv, RequestOK, Overwrites, InFlight, Checked, Calls
<1>. QED
  BY <1>1 DEF Guesses, Row

(* The lock works, but for guesses: what is overwritten is what was read. *)
LEMMA OverwritesWhatWasRead ==
    ASSUME IInv, NEW r \in Request, Overwrites(r), ~Guesses(r)
    PROVE  LET row == record[call[r].code] IN
           /\ call[r].code \in Code /\ row \in Row /\ ~row.deleted
           /\ call[r].expected = row.version
           /\ seen[r].status = row.status /\ seen[r].content = row.content
           /\ seen[r] \in Row
<1>. DEFINE row == record[call[r].code]
<1>1. /\ Checked(call[r], seen[r]) /\ call[r].code \in Code /\ seen[r] \in Row
      /\ call[r].expected \in Nat /\ ~(call[r].expected > seen[r].version)
  BY DEF IInv, RequestOK, Overwrites, InFlight, Checked, Calls, Guesses
<1>2. row \in Row /\ ~row.deleted /\ row.version = call[r].expected
  BY <1>1 DEF IInv, TypeOK, Overwrites, Visible, NoRow
<1>3. /\ seen[r].version \in 1..row.version
      /\ seen[r].version = row.version => seen[r].status = row.status /\ seen[r].content = row.content
  BY DEF IInv, SnapshotIsFaithful, Overwrites
<1>4. seen[r].version = row.version
  BY <1>1, <1>2, <1>3 DEF Row
<1>. QED
  BY <1>1, <1>2, <1>3, <1>4

(* A write is a step of the walk. *)
LEMMA WriteWalks ==
    ASSUME IInv, NEW r \in Request, Writing(r), Overwrites(r) => ~Guesses(r)
    PROVE  Walk!Next
<1>. DEFINE c == call[r].code
            k == call[r]
<1>0. /\ pc[r] \in InFlight /\ Checked(k, seen[r]) /\ c \in Code
      /\ record \in [Code -> Row \cup {NoRow}]
  BY DEF Writing, Inserts, Overwrites, Withdraws, InFlight, IInv, RequestOK, Checked, Calls, TypeOK
<1>1. CASE Inserts(r)
  <2>1. record[c] = NoRow
    BY <1>0, <1>1 DEF Inserts, Row
  <2>2. Item(r) = Walk!Opened(InitialStatus[KindOf[c]], k.content) /\ k.content \in Content
    BY <1>0, <1>1 DEF Inserts, Item, OpenedRow, Walk!Opened, Checked
  <2>3. Walk!Open(c, k.content)
    BY <1>1, <2>1, <2>2 DEF Inserts, Walk!Open, Walk!InitialStatus, InitialStatus
  <2>. QED
    BY <1>0, <2>2, <2>3 DEF Walk!Next
<1>2. CASE Overwrites(r)
  <2>. DEFINE row == record[c]
  <2>1. /\ row \in Row /\ ~row.deleted /\ k.expected = row.version
        /\ seen[r].status = row.status /\ seen[r].content = row.content /\ seen[r] \in Row
    BY <1>2, OverwritesWhatWasRead DEF IInv
  <2>2. record' = [record EXCEPT ![c] = Overwrite(row, Item(r))]
    BY <1>0, <1>2 DEF Overwrites
  <2>3. Walk!Alive(c)
    BY <2>1 DEF Walk!Alive, NoRow, Row
  <2>4. CASE k.op = "update"
    <3>1. Overwrite(row, Item(r)) = [row EXCEPT !.content = k.content, !.version = row.version + 1]
      BY <2>1, <2>4 DEF Overwrite, Item, EditedRow, Row
    <3>2. Walk!Edit(c, k.content)
      BY <2>2, <2>3, <3>1 DEF Walk!Edit
    <3>3. k.content \in Content
      BY <1>0, <2>4 DEF Checked
    <3>. QED
      BY <1>0, <3>2, <3>3 DEF Walk!Next
  <2>5. CASE k.op = "transition"
    <3>1. Overwrite(row, Item(r)) = [row EXCEPT !.status = k.status, !.version = row.version + 1]
      BY <2>1, <2>5 DEF Overwrite, Item, MovedRow, Row
    <3>2. CanTransition(KindOf[c], row.status, k.status)
      BY <1>0, <2>1, <2>5 DEF Checked
    <3>3. k.status \in Status
      BY <1>0, <3>2, GraphsAreClosed, StatusesOfKinds, KindsAssigned
    <3>4. Walk!Move(c, k.status)
      BY <2>2, <2>3, <3>1, <3>2, SameGraphs DEF Walk!Move
    <3>. QED
      BY <1>0, <3>3, <3>4, SameGraphs DEF Walk!Next
  <2>. QED
    BY <1>2, <2>4, <2>5 DEF Overwrites
<1>3. CASE Withdraws(r)
  <2>1. Walk!Remove(c)
    BY <1>0, <1>3 DEF Withdraws, Walk!Remove, Walk!Alive, Visible, NoRow
  <2>. QED
    BY <1>0, <2>1 DEF Walk!Next
<1>. QED
  BY <1>1, <1>2, <1>3 DEF Writing

(* For clients that send versions they were shown, every version of a bridge, *)
(* inspection or defect is one edit or one legal move: no interleaving and no *)
(* failure loses an update, joins two or bypasses the graph.                *)
THEOREM RecordsWalk == Lookahead = 0 /\ Spec => WalkSpec
<1>. SUFFICES ASSUME Lookahead = 0 PROVE Spec => WalkSpec
  OBVIOUS
<1>1. IInv /\ [Next]_vars => [Walk!Next]_record
  <2>. SUFFICES ASSUME IInv, [Next]_vars PROVE UNCHANGED record \/ Walk!Next
    OBVIOUS
  <2>. QED
    BY StepKinds, WriteWalks, NobodyGuesses DEF IInv
<1>. QED
  BY <1>1, WalkInit, AlwaysIInv, PTL DEF Spec, WalkSpec, Walk!Spec

Guessed == \E r \in Request : Overwrites(r) /\ Guesses(r)

(* Whatever clients send, one kind of step alone leaves the walk: an overwrite *)
(* by a request that was checked on an earlier version than the one it names *)
(* (Update and Transition, such as service/defect_finding.go:64-112).       *)
THEOREM OnlyGuessesLeaveTheWalk == Spec => [][Walk!Next \/ Guessed]_record
<1>1. IInv /\ [Next]_vars => [Walk!Next \/ Guessed]_record
  BY StepKinds, WriteWalks DEF IInv, Guessed
<1>. QED
  BY <1>1, AlwaysIInv, PTL DEF Spec

-----------------------------------------------------------------------------
(* Whatever versions clients send.                                          *)

(* A code is opened at version 1; a live record takes one version more or the *)
(* deletion mark and nothing else; a deleted one rests.                      *)
Advances(c) ==
    LET old == record[c]
        new == record'[c]
    IN \/ new = old
       \/ old = NoRow /\ new.version = 1 /\ ~new.deleted
       \/ /\ old # NoRow /\ ~old.deleted
          /\ \/ new = [old EXCEPT !.deleted = TRUE]
             \/ new.version = old.version + 1 /\ ~new.deleted

LEMMA WriteAdvances ==
    ASSUME IInv, NEW r \in Request, Writing(r), NEW c, c = call[r].code
    PROVE  Advances(c)
<1>1. pc[r] \in InFlight /\ c \in Code /\ Checked(call[r], seen[r])
  BY DEF Writing, Inserts, Overwrites, Withdraws, InFlight, IInv, RequestOK, Checked, Calls
<1>2. record \in [Code -> Row \cup {NoRow}]
  BY DEF IInv, TypeOK
<1>3. CASE Inserts(r)
  <2>1. record[c] = NoRow /\ record'[c] = Item(r)
    BY <1>1, <1>2, <1>3 DEF Inserts, Row
  <2>2. Item(r).version = 1 /\ ~Item(r).deleted
    BY <1>3 DEF Inserts, Item, OpenedRow
  <2>. QED
    BY <2>1, <2>2 DEF Advances
<1>4. CASE Overwrites(r)
  <2>1. record[c] \in Row /\ ~record[c].deleted /\ record[c].version = call[r].expected
    BY <1>1, <1>2, <1>4 DEF Overwrites, Visible, NoRow
  <2>2. Item(r) \in Row /\ Item(r).version = call[r].expected + 1
    BY <1>1, <1>4, Writes DEF IInv, Overwrites
  <2>3. record'[c] = Overwrite(record[c], Item(r))
    BY <1>1, <1>2, <1>4 DEF Overwrites
  <2>4. /\ Overwrite(record[c], Item(r)).version = record[c].version + 1
        /\ Overwrite(record[c], Item(r)).deleted = record[c].deleted
    BY <2>1, <2>2 DEF Overwrite, Row
  <2>5. record[c] # NoRow
    BY <2>1 DEF Row, NoRow
  <2>. QED
    BY <2>1, <2>3, <2>4, <2>5 DEF Advances
<1>5. CASE Withdraws(r)
  <2>1. record[c] # NoRow /\ ~record[c].deleted
    BY <1>1, <1>5 DEF Withdraws, Visible, NoRow
  <2>2. record'[c] = [record[c] EXCEPT !.deleted = TRUE]
    BY <1>1, <1>2, <1>5 DEF Withdraws
  <2>. QED
    BY <2>1, <2>2 DEF Advances
<1>. QED
  BY <1>3, <1>4, <1>5 DEF Writing

(* Also for clients that name versions nobody showed them: no step skips or   *)
(* repeats a version or changes a deleted record, so that of all requests    *)
(* that name the same version of a record at most one overwrites it          *)
(* (Store.Update and Delete, repository/base.go:59-82).                     *)
THEOREM VersionsAdvanceByOne == Spec => [][\A c \in Code : Advances(c)]_record
<1>1. IInv /\ [Next]_vars => [\A c \in Code : Advances(c)]_record
  <2>. SUFFICES ASSUME IInv, [Next]_vars, NEW r \in Request, Writing(r), NEW c \in Code
                PROVE  Advances(c)
    BY StepKinds DEF IInv
  <2>1. \A d \in Code \ {call[r].code} : record'[d] = record[d]
    BY WritingEffect DEF IInv
  <2>. QED
    BY <2>1, WriteAdvances DEF Advances
<1>. QED
  BY <1>1, AlwaysIInv, PTL DEF Spec

-----------------------------------------------------------------------------
(* What the audit log says of the moves. *)

(* The entries that are stored, or that a request is about to store.         *)
Known == audit \cup {AuditEntry(r) : r \in {q \in Request : pc[q] = "audit"}}

Told(c) == {e \in Known : e.code = c /\ e.action = "transition"}

(* r may have moved c, and will not say so any more. *)
Missing(r, c) ==
    /\ call[r].op = "transition" /\ call[r].code = c
    /\ pc[r] = "lost" \/ reply[r] = "error"

(* The entries lead from start to the status of the row. *)
LeadsFrom(start, entries, status, s) ==
    Cardinality({e \in entries : e.after = s}) + One(s = start)
    = Cardinality({e \in entries : e.before = s}) + One(s = status)

Balanced(c) ==
    \E start \in SeedStatus[KindOf[c]] : \A s \in StatusOf(KindOf[c]) :
        LeadsFrom(start, Told(c), record[c].status, s)

RequestsKnown ==
    \A r \in Request :
        /\ pc[r] \in {"idle", "write"} => \A e \in audit : e.request # r
        /\ pc[r] # "done" => reply[r] = "none"

MovesInv ==
    /\ IsFiniteSet(Known)
    /\ RequestsKnown
    /\ \A e \in Known : e.action = "transition" => CanTransition(KindOf[e.code], e.before, e.after)
    /\ \A c \in Code : record[c] = NoRow => Told(c) = {}
    /\ Lookahead = 0 =>
         \A c \in Code : record[c] # NoRow /\ (\A r \in Request : ~Missing(r, c)) => Balanced(c)

LEMMA MovesInit == Init => MovesInv
<1>. SUFFICES ASSUME Init PROVE MovesInv
  OBVIOUS
<1>1. Known = {} /\ \A c : Told(c) = {}
  BY DEF Init, Known, Told
<1>2. IsFiniteSet(Known)
  BY <1>1, FS_EmptySet
<1>3. ASSUME NEW c \in Code, record[c] # NoRow PROVE Balanced(c)
  <2>1. record[c].status \in SeedStatus[KindOf[c]]
    BY <1>3 DEF Init
  <2>2. ASSUME NEW s PROVE LeadsFrom(record[c].status, Told(c), record[c].status, s)
    <3>1. {e \in Told(c) : e.after = s} = {} /\ {e \in Told(c) : e.before = s} = {}
      BY <1>1
    <3>. QED
      BY <3>1 DEF LeadsFrom
  <2>. QED
    BY <2>1, <2>2 DEF Balanced
<1>. QED
  BY <1>1, <1>2, <1>3 DEF MovesInv, RequestsKnown, Init

(* A step that makes no new entry. *)
LEMMA QuietStep ==
    ASSUME MovesInv, RequestsKnown', Known' \subseteq Known,
           \A e \in Known \ Known' : e.action = "transition" =>
               \E r \in Request : Missing(r, e.code)',
           \A r \in Request, c \in Code : Missing(r, c) => Missing(r, c)',
           \A c \in Code : \/ record'[c] = record[c]
                           \/ /\ record'[c] # NoRow /\ record[c] # NoRow
                              /\ \/ record'[c].status = record[c].status
                                 \/ \E r \in Request : Missing(r, c)'
                           \/ Lookahead # 0 /\ record'[c] # NoRow
                           \/ /\ record[c] = NoRow /\ record'[c] # NoRow
                              /\ record'[c].status \in SeedStatus[KindOf[c]]
    PROVE  MovesInv'
<1>1. IsFiniteSet(Known)'
  BY FS_Subset DEF MovesInv
<1>2. \A e \in Known' : e.action = "transition" => CanTransition(KindOf[e.code], e.before, e.after)
  BY DEF MovesInv
<1>3. \A c : Told(c)' \subseteq Told(c)
  BY DEF Told
<1>4. \A c \in Code : record'[c] = NoRow => Told(c)' = {}
  BY <1>3 DEF MovesInv
<1>5. ASSUME Lookahead = 0, NEW c \in Code, record'[c] # NoRow, \A r \in Request : ~Missing(r, c)'
      PROVE  Balanced(c)'
  <2>1. Told(c)' = Told(c)
    BY <1>5 DEF Told
  <2>2. CASE record[c] # NoRow
    <3>1. record'[c].status = record[c].status
      BY <1>5, <2>2
    <3>2. Balanced(c)
      BY <1>5, <2>2 DEF MovesInv
    <3>. QED
      BY <2>1, <3>1, <3>2 DEF Balanced
  <2>3. CASE record[c] = NoRow
    <3>1. record'[c].status \in SeedStatus[KindOf[c]] /\ Told(c)' = {}
      BY <1>5, <2>1, <2>3 DEF MovesInv
    <3>2. ASSUME NEW s PROVE LeadsFrom(record'[c].status, Told(c)', record'[c].status, s)
      <4>1. {e \in Told(c)' : e.after = s} = {} /\ {e \in Told(c)' : e.before = s} = {}
        BY <3>1
      <4>. QED
        BY <4>1 DEF LeadsFrom
    <3>. QED
      BY <3>1, <3>2 DEF Balanced
  <2>. QED
    BY <2>2, <2>3
<1>. QED
  BY <1>1, <1>2, <1>4, <1>5 DEF MovesInv

(* A step that makes the entry of a move. *)
LEMMA MovingStep ==
    ASSUME MovesInv, RequestsKnown', NEW E, E \notin Known, Known' = Known \cup {E},
           E.action = "transition", NEW c \in Code, E.code = c,
           CanTransition(KindOf[c], E.before, E.after),
           \A r \in Request, d \in Code : Missing(r, d) => Missing(r, d)',
           \A d \in Code \ {c} : record'[d] = record[d],
           record[c] # NoRow, record'[c] # NoRow,
           Lookahead = 0 => record[c].status = E.before /\ record'[c].status = E.after
    PROVE  MovesInv'
<1>1. IsFiniteSet(Known)'
  BY FS_AddElement DEF MovesInv
<1>2. \A e \in Known' : e.action = "transition" => CanTransition(KindOf[e.code], e.before, e.after)
  BY DEF MovesInv
<1>3. Told(c)' = Told(c) \cup {E} /\ E \notin Told(c)
  BY DEF Told
<1>4. \A d \in Code \ {c} : Told(d)' = Told(d)
  BY DEF Told
<1>5. \A d \in Code : record'[d] = NoRow => Told(d)' = {}
  BY <1>4 DEF MovesInv
<1>6. ASSUME Lookahead = 0, \A r \in Request : ~Missing(r, c)'
      PROVE  Balanced(c)'
  <2>1. PICK start \in SeedStatus[KindOf[c]] : \A s \in StatusOf(KindOf[c]) :
           LeadsFrom(start, Told(c), record[c].status, s)
    BY <1>6 DEF MovesInv, Balanced
  <2>2. ASSUME NEW s \in StatusOf(KindOf[c])
        PROVE  LeadsFrom(start, Told(c)', record'[c].status, s)
    <3>. DEFINE A == {e \in Told(c) : e.after = s}
                B == {e \in Told(c) : e.before = s}
    <3>1. IsFiniteSet(Told(c))
      BY FS_Subset DEF Told, MovesInv
    <3>2. IsFiniteSet(A) /\ IsFiniteSet(B) /\ E \notin A /\ E \notin B
      BY <1>3, <3>1, FS_Subset
    <3>3. /\ {e \in Told(c)' : e.after = s} = IF E.after = s THEN A \cup {E} ELSE A
          /\ {e \in Told(c)' : e.before = s} = IF E.before = s THEN B \cup {E} ELSE B
      BY <1>3
    <3>4. Cardinality(A) + One(s = start) = Cardinality(B) + One(s = E.before)
      <4>1. LeadsFrom(start, Told(c), E.before, s)
        BY <1>6, <2>1, <2>2
      <4>. QED
        BY <4>1 DEF LeadsFrom
    <3>. HIDE DEF A, B
    <3>5. /\ Cardinality(A \cup {E}) = Cardinality(A) + 1 /\ Cardinality(A) \in Nat
          /\ Cardinality(B \cup {E}) = Cardinality(B) + 1 /\ Cardinality(B) \in Nat
      BY <3>2, FS_AddElement, FS_CardinalityType
    <3>6. /\ Cardinality({e \in Told(c)' : e.after = s}) = Cardinality(A) + One(s = E.after)
          /\ Cardinality({e \in Told(c)' : e.before = s}) = Cardinality(B) + One(s = E.before)
      <4>1. Cardinality({e \in Told(c)' : e.after = s}) = Cardinality(A) + One(s = E.after)
        <5>1. CASE E.after = s
          BY <3>3, <3>5, <5>1 DEF One
        <5>2. CASE E.after # s
          <6>1. {e \in Told(c)' : e.after = s} = A /\ One(s = E.after) = 0
            BY <3>3, <5>2 DEF One
          <6>2. Cardinality({e \in Told(c)' : e.after = s}) = Cardinality(A)
            BY <6>1
          <6>. QED
            BY <3>5, <6>1, <6>2
        <5>. QED
          BY <5>1, <5>2
      <4>2. Cardinality({e \in Told(c)' : e.before = s}) = Cardinality(B) + One(s = E.before)
        <5>1. CASE E.before = s
          BY <3>3, <3>5, <5>1 DEF One
        <5>2. CASE E.before # s
          <6>1. {e \in Told(c)' : e.before = s} = B /\ One(s = E.before) = 0
            BY <3>3, <5>2 DEF One
          <6>2. Cardinality({e \in Told(c)' : e.before = s}) = Cardinality(B)
            BY <6>1
          <6>. QED
            BY <3>5, <6>1, <6>2
        <5>. QED
          BY <5>1, <5>2
      <4>. QED
        BY <4>1, <4>2
    <3>7. /\ One(s = start) \in Nat /\ One(s = E.before) \in Nat /\ One(s = E.after) \in Nat
      BY DEF One
    <3>8. (Cardinality(A) + One(s = E.after)) + One(s = start)
             = (Cardinality(B) + One(s = E.before)) + One(s = E.after)
      BY <3>4, <3>5, <3>7
    <3>. QED
      BY <1>6, <3>6, <3>8 DEF LeadsFrom
  <2>. QED
    BY <2>1, <2>2 DEF Balanced
<1>7. ASSUME Lookahead = 0, NEW d \in Code \ {c}, record'[d] # NoRow,
             \A r \in Request : ~Missing(r, d)'
      PROVE  Balanced(d)'
  <2>1. Balanced(d)
    BY <1>7 DEF MovesInv
  <2>2. Told(d)' = Told(d) /\ record'[d] = record[d]
    BY <1>4
  <2>. QED
    BY <2>1, <2>2 DEF Balanced
<1>. QED
  BY <1>1, <1>2, <1>5, <1>6, <1>7 DEF MovesInv

(* A step that makes the entry of something else. *)
LEMMA OtherStep ==
    ASSUME MovesInv, RequestsKnown', NEW E, Known' = Known \cup {E}, E.action # "transition",
           \A r \in Request, c \in Code : Missing(r, c) => Missing(r, c)',
           \A c \in Code : \/ record'[c] = record[c]
                           \/ /\ record'[c] # NoRow /\ record[c] # NoRow
                              /\ record'[c].status = record[c].status
                           \/ Lookahead # 0 /\ record'[c] # NoRow
                           \/ /\ record[c] = NoRow /\ record'[c] # NoRow
                              /\ record'[c].status \in SeedStatus[KindOf[c]]
    PROVE  MovesInv'
<1>1. IsFiniteSet(Known)'
  BY FS_AddElement DEF MovesInv
<1>2. \A e \in Known' : e.action = "transition" => CanTransition(KindOf[e.code], e.before, e.after)
  BY DEF MovesInv
<1>3. \A c : Told(c)' = Told(c)
  BY DEF Told
<1>4. \A c \in Code : record'[c] = NoRow => Told(c)' = {}
  BY <1>3 DEF MovesInv
<1>5. ASSUME Lookahead = 0, NEW c \in Code, record'[c] # NoRow, \A r \in Request : ~Missing(r, c)'
      PROVE  Balanced(c)'
  <2>1. CASE record[c] # NoRow
    <3>1. record'[c].status = record[c].status /\ Balanced(c)
      BY <1>5, <2>1 DEF MovesInv
    <3>. QED
      BY <1>3, <3>1 DEF Balanced
  <2>2. CASE record[c] = NoRow
    <3>1. record'[c].status \in SeedStatus[KindOf[c]] /\ Told(c)' = {}
      BY <1>3, <1>5, <2>2 DEF MovesInv
    <3>2. ASSUME NEW s PROVE LeadsFrom(record'[c].status, Told(c)', record'[c].status, s)
      <4>1. {e \in Told(c)' : e.after = s} = {} /\ {e \in Told(c)' : e.before = s} = {}
        BY <3>1
      <4>. QED
        BY <4>1 DEF LeadsFrom
    <3>. QED
      BY <3>1, <3>2 DEF Balanced
  <2>. QED
    BY <2>1, <2>2
<1>. QED
  BY <1>1, <1>2, <1>4, <1>5 DEF MovesInv

(* A request that arrives was idle, and is refused, or goes on to write.     *)
LEMMA ArrivesIdle ==
    ASSUME TypeOK, NEW r \in Request, Create(r) \/ Update(r) \/ Transition(r) \/ Delete(r)
    PROVE  /\ pc[r] = "idle" /\ UNCHANGED db
           /\ \A q \in Request \ {r} : /\ pc'[q] = pc[q] /\ reply'[q] = reply[q]
                                       /\ call'[q] = call[q] /\ seen'[q] = seen[q]
           /\ \/ pc'[r] = "write" /\ reply'[r] = reply[r]
              \/ pc'[r] = "done" /\ reply'[r] \in Refusal
<1>1. \E k, row, v : Receive(r, k, row, v)
  BY DEF Create, Update, Transition, Delete
<1>. QED
  BY <1>1 DEF Receive, TypeOK

LEMMA ArriveMoves ==
    ASSUME IInv, MovesInv, NEW r \in Request,
           Create(r) \/ Update(r) \/ Transition(r) \/ Delete(r)
    PROVE  MovesInv'
<1>1. /\ pc[r] = "idle" /\ UNCHANGED db
      /\ \A q \in Request \ {r} : /\ pc'[q] = pc[q] /\ reply'[q] = reply[q]
                                  /\ call'[q] = call[q] /\ seen'[q] = seen[q]
      /\ \/ pc'[r] = "write" /\ reply'[r] = reply[r]
         \/ pc'[r] = "done" /\ reply'[r] \in Refusal
  BY ArrivesIdle DEF IInv
<1>2. reply[r] = "none"
  BY <1>1 DEF MovesInv, RequestsKnown
<1>3. ASSUME NEW q \in Request, pc[q] = "audit" \/ pc'[q] = "audit"
      PROVE  AuditEntry(q)' = AuditEntry(q) /\ pc'[q] = pc[q]
  BY <1>1, <1>3 DEF AuditEntry, StateBefore, StateAfter, Item, OpenedRow, EditedRow, MovedRow
<1>4. Known' = Known
  BY <1>1, <1>3 DEF Known, db
<1>5. RequestsKnown'
  BY <1>1, <1>2 DEF MovesInv, RequestsKnown, db
<1>6. \A q \in Request, c \in Code : Missing(q, c) => Missing(q, c)'
  BY <1>1, <1>2 DEF Missing
<1>7. \A c \in Code : record'[c] = record[c]
  BY <1>1 DEF db
<1>. QED
  BY <1>4, <1>5, <1>6, <1>7, QuietStep

(* Facts about a step after the arrival, of a request r that goes to l and    *)
(* may be told a.                                                           *)
Moves1(r, l, a) ==
    /\ UNCHANGED <<call, seen>> /\ pc[r] \in InFlight
    /\ pc' = [pc EXCEPT ![r] = l]
    /\ \/ l # "done" /\ reply' = reply
       \/ l = "done" /\ reply' = [reply EXCEPT ![r] = a]

LEMMA OneProceeds ==
    ASSUME IInv, MovesInv, NEW r \in Request, NEW l \in {"audit", "reread", "done"},
           NEW a \in {"ok", "error"} \cup Refusal, Moves1(r, l, a)
    PROVE  /\ \A q \in Request, c \in Code : Missing(q, c) => Missing(q, c)'
           /\ audit' \subseteq audit \cup {AuditEntry(r)} => RequestsKnown'
           /\ \A q \in Request : AuditEntry(q)' = AuditEntry(q)
           /\ \A q \in Request \ {r} : pc'[q] = pc[q]
           /\ pc'[r] = l
           /\ l = "done" /\ a = "error" /\ call[r].op = "transition" =>
                 Missing(r, call[r].code)'
<1>0. pc[r] \in InFlight /\ pc[r] # "done" /\ pc[r] # "lost" /\ reply[r] = "none"
  BY DEF MovesInv, RequestsKnown, InFlight, Moves1
<1>1. /\ \A q \in Request \ {r} : pc'[q] = pc[q] /\ reply'[q] = reply[q]
      /\ pc'[r] = l /\ (l = "done" => reply'[r] = a) /\ (l # "done" => reply'[r] = reply[r])
      /\ UNCHANGED <<call, seen>>
  BY DEF Moves1, IInv, TypeOK
<1>2. \A q \in Request, c \in Code : Missing(q, c) => Missing(q, c)'
  BY <1>0, <1>1 DEF Missing
<1>3. \A q \in Request : AuditEntry(q)' = AuditEntry(q)
  BY <1>1 DEF AuditEntry, StateBefore, StateAfter, Item, OpenedRow, EditedRow, MovedRow
<1>4. AuditEntry(r).request = r
  BY DEF AuditEntry
<1>5. audit' \subseteq audit \cup {AuditEntry(r)} => RequestsKnown'
  <2>. SUFFICES ASSUME audit' \subseteq audit \cup {AuditEntry(r)} PROVE RequestsKnown'
    OBVIOUS
  <2>1. ASSUME NEW q \in Request, pc'[q] \in {"idle", "write"}, NEW e \in audit'
        PROVE  e.request # q
    BY <1>1, <1>4, <2>1 DEF MovesInv, RequestsKnown
  <2>2. ASSUME NEW q \in Request, pc'[q] # "done" PROVE reply'[q] = "none"
    BY <1>0, <1>1, <2>2 DEF MovesInv, RequestsKnown
  <2>. QED
    BY <2>1, <2>2 DEF RequestsKnown
<1>6. l = "done" /\ a = "error" /\ call[r].op = "transition" => Missing(r, call[r].code)'
  BY <1>1 DEF Missing
<1>. QED
  BY <1>1, <1>2, <1>3, <1>5, <1>6

(* What the write of r does to the row it concerns. *)
LEMMA WriteMoves ==
    ASSUME IInv, MovesInv, NEW r \in Request, Writing(r), NEW l \in {"audit", "done"},
           Moves1(r, l, "error"), UNCHANGED audit
    PROVE  MovesInv'
<1>. USE DEF IInv
<1>1. /\ \A q \in Request, c \in Code : Missing(q, c) => Missing(q, c)'
      /\ RequestsKnown'
      /\ \A q \in Request : AuditEntry(q)' = AuditEntry(q)
      /\ \A q \in Request \ {r} : pc'[q] = pc[q]
      /\ pc'[r] = l
      /\ l = "done" /\ call[r].op = "transition" => Missing(r, call[r].code)'
  BY OneProceeds
<1>2. pc[r] = "write" /\ Checked(call[r], seen[r])
  BY DEF Writing, Inserts, Overwrites, Withdraws, RequestOK, InFlight
<1>3. PICK E, c : E = AuditEntry(r) /\ c = call[r].code
  OBVIOUS
<1>4. Known' = IF l = "audit" THEN Known \cup {E} ELSE Known
  BY <1>1, <1>2, <1>3 DEF Known
<1>5. E \notin Known
  <2>1. E.request = r
    BY <1>3 DEF AuditEntry
  <2>2. \A e \in audit : e.request # r
    BY <1>2 DEF MovesInv, RequestsKnown
  <2>3. \A q \in Request : pc[q] = "audit" => q # r /\ AuditEntry(q).request = q
    BY <1>2 DEF AuditEntry
  <2>. QED
    BY <2>1, <2>2, <2>3 DEF Known
<1>6. c \in Code /\ (\A d \in Code \ {c} : record'[d] = record[d]) /\ record'[c] \in Row
  BY <1>3, WritingEffect
<1>7. record'[c] # NoRow
  BY <1>6 DEF Row, NoRow
<1>8. CASE Overwrites(r) /\ call[r].op = "transition"
  <2>1. record[c] # NoRow
    BY <1>3, <1>8 DEF Overwrites, Visible, NoRow
  <2>2. E.action = "transition" /\ E.code = c /\ E.before = seen[r].status /\ E.after = call[r].status
    <3>1. seen[r] \in Row
      BY <1>2, <1>8 DEF Checked
    <3>2. Item(r).status = call[r].status
      BY <1>8, <3>1 DEF Item, MovedRow, Row
    <3>. QED
      BY <1>3, <1>8, <3>2 DEF AuditEntry, StateBefore, StateAfter
  <2>3. CanTransition(KindOf[c], E.before, E.after)
    BY <1>2, <1>3, <1>8, <2>2 DEF Checked
  <2>4. Lookahead = 0 => record[c].status = E.before /\ record'[c].status = E.after
    <3>. SUFFICES ASSUME Lookahead = 0
                  PROVE  record[c].status = E.before /\ record'[c].status = E.after
      OBVIOUS
    <3>1. seen[r].status = record[c].status /\ seen[r] \in Row
      BY <1>3, <1>8, OverwritesWhatWasRead, NobodyGuesses
    <3>2. record'[c] = Overwrite(record[c], Item(r)) /\ Item(r) \in Row
      BY <1>2, <1>3, <1>6, <1>8, Writes DEF Overwrites, TypeOK, InFlight
    <3>3. Item(r).status = call[r].status
      BY <1>8, <3>1 DEF Item, MovedRow, Row
    <3>. QED
      BY <2>2, <3>1, <3>2, <3>3 DEF Overwrite, Row
  <2>5. CASE l = "audit"
    BY <1>1, <1>4, <1>5, <1>6, <1>7, <2>1, <2>2, <2>3, <2>4, <2>5, MovingStep
  <2>6. CASE l = "done"
    <3>1. Known' = Known
      BY <1>4, <2>6
    <3>2. \E q \in Request : Missing(q, c)'
      BY <1>1, <1>3, <1>8, <2>6 DEF Missing, Moves1
    <3>3. \A d \in Code : \/ record'[d] = record[d]
                         \/ /\ record'[d] # NoRow /\ record[d] # NoRow
                            /\ \E q \in Request : Missing(q, d)'
      BY <1>6, <1>7, <2>1, <3>2
    <3>. QED
      BY <1>1, <3>1, <3>3, QuietStep
  <2>. QED
    BY <2>5, <2>6
<1>9. CASE call[r].op # "transition"
  <2>1. E.action # "transition"
    BY <1>3, <1>9 DEF AuditEntry
  <2>2. \/ record'[c] # NoRow /\ record[c] # NoRow /\ record'[c].status = record[c].status
        \/ Lookahead # 0
        \/ record[c] = NoRow /\ record'[c].status \in SeedStatus[KindOf[c]]
    <3>1. CASE Inserts(r)
      <4>1. record[c] = NoRow
        BY <1>3, <1>6, <3>1 DEF Inserts, TypeOK, Row
      <4>2. record'[c] = Item(r)
        BY <1>3, <1>6, <3>1 DEF Inserts, TypeOK
      <4>3. Item(r).status = InitialStatus[KindOf[c]]
        BY <1>3, <3>1 DEF Inserts, Item, OpenedRow
      <4>4. InitialStatus[KindOf[c]] \in SeedStatus[KindOf[c]]
        BY <1>6, KindsAssigned DEF InitialStatus, SeedStatus, Kind, Graph
      <4>. QED
        BY <4>1, <4>2, <4>3, <4>4
    <3>2. CASE Overwrites(r)
      <4>. SUFFICES ASSUME Lookahead = 0
                    PROVE  record[c] # NoRow /\ record'[c].status = record[c].status
        BY <1>7
      <4>1. seen[r].status = record[c].status /\ seen[r] \in Row
        BY <1>3, <3>2, OverwritesWhatWasRead, NobodyGuesses
      <4>2. record'[c] = Overwrite(record[c], Item(r)) /\ Item(r) \in Row
        BY <1>2, <1>3, <1>6, <3>2, Writes DEF Overwrites, TypeOK, InFlight
      <4>3. Item(r).status = seen[r].status
        BY <1>9, <3>2, <4>1 DEF Overwrites, Item, EditedRow, Row
      <4>4. record[c] # NoRow
        BY <1>3, <3>2 DEF Overwrites, Visible, NoRow
      <4>. QED
        BY <4>1, <4>2, <4>3, <4>4 DEF Overwrite, Row
    <3>3. CASE Withdraws(r)
      <4>1. record[c] # NoRow /\ record[c] \in Row
        BY <1>3, <1>6, <3>3 DEF Withdraws, Visible, NoRow, TypeOK
      <4>2. record'[c] = [record[c] EXCEPT !.deleted = TRUE]
        BY <1>3, <1>6, <3>3 DEF Withdraws, TypeOK
      <4>. QED
        BY <1>7, <4>1, <4>2 DEF Row
    <3>. QED
      BY <3>1, <3>2, <3>3 DEF Writing
  <2>3. CASE l = "done"
    BY <1>1, <1>4, <1>6, <1>7, <2>2, <2>3, QuietStep
  <2>4. CASE l = "audit"
    BY <1>1, <1>4, <1>5, <1>6, <1>7, <2>1, <2>2, <2>4, OtherStep
  <2>. QED
    BY <2>3, <2>4
<1>. QED
  BY <1>8, <1>9 DEF Writing, Inserts, Withdraws
(* A step that ends the request of r, or passes its audit, without a write. *)
LEMMA QuietMoves ==
    ASSUME IInv, MovesInv, NEW r \in Request, NEW l \in {"reread", "done"},
           NEW a \in {"ok", "error"} \cup Refusal, Moves1(r, l, a), UNCHANGED record,
           \/ pc[r] # "audit" /\ UNCHANGED audit
           \/ pc[r] = "audit" /\ audit' = audit \cup {AuditEntry(r)}
           \/ /\ pc[r] = "audit" /\ UNCHANGED audit
              /\ call[r].op = "transition" => l = "done" /\ a = "error"
    PROVE  MovesInv'
<1>1. /\ \A q \in Request, c \in Code : Missing(q, c) => Missing(q, c)'
      /\ RequestsKnown'
      /\ \A q \in Request : AuditEntry(q)' = AuditEntry(q)
      /\ \A q \in Request \ {r} : pc'[q] = pc[q]
      /\ pc'[r] = l
      /\ l = "done" /\ a = "error" /\ call[r].op = "transition" =>
            Missing(r, call[r].code)'
  BY OneProceeds
<1>2. PICK E, c : E = AuditEntry(r) /\ c = call[r].code
  OBVIOUS
<1>3. CASE pc[r] # "audit" /\ UNCHANGED audit
  <2>1. Known' = Known
    BY <1>1, <1>3 DEF Known
  <2>. QED
    BY <1>1, <2>1, QuietStep
<1>4. CASE pc[r] = "audit" /\ audit' = audit \cup {AuditEntry(r)}
  <2>1. Known' = Known
    BY <1>1, <1>4 DEF Known
  <2>. QED
    BY <1>1, <2>1, QuietStep
<1>5. CASE /\ pc[r] = "audit" /\ UNCHANGED audit
           /\ call[r].op = "transition" => l = "done" /\ a = "error"
  <2>1. Known' \subseteq Known /\ \A e \in Known \ Known' : e = E
    BY <1>1, <1>2, <1>5 DEF Known
  <2>2. E.action = call[r].op /\ E.code = c
    BY <1>2 DEF AuditEntry
  <2>3. call[r].op = "transition" => Missing(r, c)'
    BY <1>1, <1>2, <1>5 DEF Missing, Moves1
  <2>4. \A e \in Known \ Known' : e.action = "transition" =>
            \E q \in Request : Missing(q, e.code)'
    BY <2>1, <2>2, <2>3
  <2>. QED
    BY <1>1, <2>1, <2>4, QuietStep
<1>. QED
  BY <1>3, <1>4, <1>5

(* A crash loses the entries that were still to be stored, and the requests   *)
(* that made the moves with them.                                           *)
LEMMA CrashMoves ==
    ASSUME IInv, MovesInv, Crash
    PROVE  MovesInv'
<1>1. /\ UNCHANGED <<record, audit, call, seen, reply>>
      /\ \A q \in Request : \/ pc[q] \in InFlight /\ pc'[q] = "lost"
                            \/ pc[q] \notin InFlight /\ pc'[q] = pc[q]
  BY DEF Crash
<1>2. Known' \subseteq Known
  BY <1>1 DEF Known, InFlight
<1>3. \A e \in Known \ Known' : \E q \in Request : pc'[q] = "lost" /\ e = AuditEntry(q)
  BY <1>1 DEF Known, InFlight
<1>4. ASSUME NEW e \in Known \ Known', e.action = "transition"
      PROVE  \E q \in Request : Missing(q, e.code)'
  <2>1. PICK q \in Request : pc'[q] = "lost" /\ e = AuditEntry(q)
    BY <1>3, <1>4
  <2>2. call[q].op = "transition" /\ e.code = call[q].code
    BY <1>4, <2>1 DEF AuditEntry
  <2>. QED
    BY <1>1, <2>1, <2>2 DEF Missing
<1>5. RequestsKnown'
  BY <1>1 DEF MovesInv, RequestsKnown, InFlight
<1>6. \A q \in Request, c \in Code : Missing(q, c) => Missing(q, c)'
  BY <1>1 DEF Missing, InFlight
<1>. QED
  BY <1>1, <1>2, <1>4, <1>5, <1>6, QuietStep

LEMMA MovesStep == IInv /\ MovesInv /\ [Next]_vars => MovesInv'
<1>. SUFFICES ASSUME IInv, MovesInv, [Next]_vars PROVE MovesInv'
  OBVIOUS
<1>1. CASE UNCHANGED vars
  <2>1. UNCHANGED <<record, audit, pc, call, seen, reply>>
    BY <1>1 DEF vars
  <2>2. \A q \in Request : AuditEntry(q)' = AuditEntry(q)
    BY <2>1 DEF AuditEntry, StateBefore, StateAfter, Item, OpenedRow, EditedRow, MovedRow
  <2>3. Known' = Known
    BY <2>1, <2>2 DEF Known
  <2>4. RequestsKnown' /\ \A q \in Request, c \in Code : Missing(q, c) => Missing(q, c)'
    BY <2>1 DEF MovesInv, RequestsKnown, Missing
  <2>. QED
    BY <2>1, <2>3, <2>4, QuietStep
<1>2. ASSUME NEW r \in Request, Insert(r) \/ WriteUpdate(r) \/ SoftDelete(r)
      PROVE  MovesInv'
  <2>1. UNCHANGED <<audit, call, seen>> /\ pc[r] \in InFlight /\ pc[r] # "audit"
    BY <1>2 DEF Insert, WriteUpdate, SoftDelete, InFlight
  <2>2. CASE UNCHANGED record /\ \E a \in {"error", "conflict", "not_found"} : Return(r, a)
    BY <2>1, <2>2, QuietMoves DEF Return, Moves1, Refusal
  <2>3. CASE Writing(r) /\ Committed(r)
    BY <2>1, <2>3, WriteMoves DEF Committed, Return, Goto, Moves1
  <2>. QED
    BY <1>2, <2>2, <2>3 DEF Insert, WriteUpdate, SoftDelete, Writing, Inserts, Overwrites,
                           Withdraws, RowMatches
<1>3. ASSUME NEW r \in Request, AppendAudit(r) \/ AuditFails(r)
      PROVE  MovesInv'
  <2>1. UNCHANGED <<record, call, seen>> /\ pc[r] = "audit" /\ pc[r] \in InFlight
    BY <1>3 DEF AppendAudit, AuditFails, InFlight
  <2>2. CASE audit' = audit \cup {AuditEntry(r)}
    <3>1. \E l \in {"reread", "done"}, a \in {"ok", "error"} : Moves1(r, l, a)
      BY <1>3, <2>1 DEF AppendAudit, AuditFails, Audited, Return, Goto, Moves1
    <3>. QED
      BY <2>1, <2>2, <3>1, QuietMoves
  <2>3. CASE UNCHANGED audit /\ AuditFails(r)
    <3>1. \E l \in {"reread", "done"}, a \in {"ok", "error"} :
             Moves1(r, l, a) /\ (call[r].op = "transition" => l = "done" /\ a = "error")
      BY <2>1, <2>3 DEF AuditFails, Audited, BestEffortAudit, Return, Goto, Moves1
    <3>. QED
      BY <2>1, <2>3, <3>1, QuietMoves
  <2>. QED
    BY <1>3, <2>2, <2>3 DEF AppendAudit, AuditFails
<1>4. ASSUME NEW r \in Request, Reread(r) \/ StatementFails(r)
      PROVE  MovesInv'
  BY <1>4, QuietMoves DEF Reread, StatementFails, Return, Moves1, InFlight, Refusal
<1>. QED
  BY <1>1, <1>2, <1>3, <1>4, ArriveMoves, CrashMoves DEF Next, Step

LEMMA AlwaysMovesInv == Spec => []MovesInv
<1>1. Init => IInv /\ MovesInv
  BY InitInvariant, MovesInit
<1>2. IInv /\ MovesInv /\ [Next]_vars => MovesInv'
  BY MovesStep
<1>. QED
  BY <1>1, <1>2, AlwaysIInv, PTL DEF Spec

(* For clients that send versions they were shown, the audit log explains     *)
(* the status of every record: the entries of its moves are legal moves that  *)
(* lead from a status it may start in to the one it has, unless a move is    *)
(* still to be audited or the request that made it failed or was lost.       *)
THEOREM LogExplainsStatus ==
    ASSUME Lookahead = 0
    PROVE  Spec => []AuditExplainsStatus
<1>1. IInv /\ MovesInv => AuditExplainsStatus
  <2>. SUFFICES ASSUME IInv, MovesInv, NEW c \in Code, record[c] # NoRow,
                       \A r \in Request : ~Unrecorded(r, c)
                PROVE  /\ \A e \in Moves(c) : CanTransition(KindOf[c], e.before, e.after)
                       /\ \E start \in SeedStatus[KindOf[c]] : \A s \in StatusOf(KindOf[c]) :
                             LeadsFrom(start, Moves(c), record[c].status, s)
    BY DEF AuditExplainsStatus, Number, LeadsFrom
  <2>1. \A r \in Request : ~Missing(r, c)
    BY DEF Missing, Unrecorded
  <2>2. Told(c) = Moves(c)
    <3>1. ASSUME NEW r \in Request, pc[r] = "audit",
                 AuditEntry(r).code = c, AuditEntry(r).action = "transition"
          PROVE  FALSE
      BY <3>1 DEF AuditEntry, Unrecorded
    <3>. QED
      BY <3>1 DEF Told, Moves, Known
  <2>3. \A e \in Moves(c) : CanTransition(KindOf[c], e.before, e.after)
    BY DEF MovesInv, Moves, Known
  <2>4. Balanced(c)
    BY <2>1 DEF MovesInv
  <2>. QED
    BY <2>2, <2>3, <2>4 DEF Balanced
<1>. QED
  BY <1>1, AlwaysIInv, AlwaysMovesInv, PTL

=============================================================================
