------------------------ MODULE DecisionLedgerProofs ------------------------
(***************************************************************************)
(* PriorityDecision implements DecisionLedger, for clients that send       *)
(* versions they were shown: every step of the service adds one allowed    *)
(* entry to the ledger that the revisions amount to, withdraws a ledger,   *)
(* or changes nothing of it.  Beyond IInv of PriorityDecisionProofs the    *)
(* mapping needs that the first revision of a decision is its preparer's   *)
(* (FirstIsPreparers) and that whoever is about to insert passed the role  *)
(* guard of the route (CreatorsMayWrite).                                  *)
(***************************************************************************)
EXTENDS PriorityDecisionProofs, SequenceTheorems

Ledgers == [c \in Code |-> LedgerOf(c)]
Withdrawn == [c \in Code |-> decision[c].deleted]

FirstIsPreparers ==
    \A c \in Code : decision[c].version # 0 => revisions[c][1].actor = decision[c].preparedBy

CreatorsMayWrite ==
    \A r \in Request : pc[r] = "write" /\ call[r].op = "create" =>
        RequireMinimumRole(call[r].user, "operator")

LedgerInv == IInv /\ FirstIsPreparers /\ CreatorsMayWrite

-----------------------------------------------------------------------------
(* The ledger of a chain of revisions. *)

EntryOf(rev) == [status |-> rev.status, content |-> rev.content, author |-> rev.actor]

EntriesOf(chain) == [i \in DOMAIN chain |-> EntryOf(chain[i])]

LEMMA LedgerIsEntries == \A c : LedgerOf(c) = EntriesOf(revisions[c])
BY DEF LedgerOf, EntriesOf, EntryOf

LEMMA EntriesOfSeq ==
    ASSUME NEW s \in Seq(Revision)
    PROVE  /\ EntriesOf(s) \in Seq({EntryOf(rev) : rev \in Revision})
           /\ Len(EntriesOf(s)) = Len(s)
           /\ \A i \in 1..Len(s) : EntriesOf(s)[i] = EntryOf(s[i])
           /\ Len(s) \in Nat /\ DOMAIN s = 1..Len(s)
<1>1. Len(s) \in Nat /\ DOMAIN s = 1..Len(s) /\ \A i \in 1..Len(s) : s[i] \in Revision
  OBVIOUS
<1>2. /\ DOMAIN EntriesOf(s) = 1..Len(s)
      /\ \A i \in 1..Len(s) : EntriesOf(s)[i] = EntryOf(s[i])
  BY <1>1 DEF EntriesOf
<1>3. EntriesOf(s) \in [1..Len(s) -> {EntryOf(rev) : rev \in Revision}]
  BY <1>1 DEF EntriesOf
<1>4. EntriesOf(s) \in Seq({EntryOf(rev) : rev \in Revision})
  BY <1>1, <1>3, IsASeq
<1>5. Len(EntriesOf(s)) = Len(s)
  BY <1>1, <1>2, <1>4, LenProperties
<1>. QED
  BY <1>1, <1>2, <1>4, <1>5

(* A further revision is a further entry. *)
LEMMA EntriesAppend ==
    ASSUME NEW s \in Seq(Revision), NEW rev \in Revision
    PROVE  EntriesOf(Append(s, rev)) = Append(EntriesOf(s), EntryOf(rev))
<1>. DEFINE E == {EntryOf(x) : x \in Revision}
            a == EntriesOf(Append(s, rev))
            b == Append(EntriesOf(s), EntryOf(rev))
<1>1. Append(s, rev) \in Seq(Revision) /\ EntryOf(rev) \in E /\ Len(Append(s, rev)) = Len(s) + 1
  OBVIOUS
<1>2. /\ EntriesOf(s) \in Seq(E) /\ Len(EntriesOf(s)) = Len(s) /\ Len(s) \in Nat
      /\ \A i \in 1..Len(s) : EntriesOf(s)[i] = EntryOf(s[i])
  BY EntriesOfSeq
<1>3. /\ a \in Seq(E) /\ Len(a) = Len(s) + 1
      /\ \A i \in 1..(Len(s) + 1) : a[i] = EntryOf(Append(s, rev)[i])
  BY <1>1, EntriesOfSeq
<1>. HIDE DEF E, a
<1>4. /\ b \in Seq(E) /\ Len(b) = Len(s) + 1
      /\ \A i \in 1..Len(s) : b[i] = EntriesOf(s)[i]
      /\ b[Len(s) + 1] = EntryOf(rev)
  BY <1>1, <1>2, AppendProperties
<1>. HIDE DEF b
<1>5. ASSUME NEW i \in 1..(Len(s) + 1) PROVE a[i] = b[i]
  <2>1. CASE i \in 1..Len(s)
    BY <1>2, <1>3, <1>4, <2>1, AppendElements
  <2>2. CASE i = Len(s) + 1
    BY <1>2, <1>3, <1>4, <2>2, AppendElements
  <2>. QED
    BY <1>2, <2>1, <2>2
<1>6. a = b
  BY <1>3, <1>4, <1>5, SeqEqual
<1>. QED
  BY <1>6 DEF a, b

-----------------------------------------------------------------------------
(* The two further invariants. *)

LEMMA LedgerInvInit == Init => FirstIsPreparers /\ CreatorsMayWrite
<1>. SUFFICES ASSUME Init PROVE FirstIsPreparers /\ CreatorsMayWrite
  OBVIOUS
<1>1. ASSUME NEW c \in Code, decision[c].version # 0
      PROVE  revisions[c][1].actor = decision[c].preparedBy
  <2>1. decision[c] # NoRow
    BY <1>1 DEF NoRow
  <2>2. PICK s \in {"draft"} \cup SeedFinal, x \in Content :
           decision[c] = SeedRow(s, x) /\ revisions[c] = SeedRevisions(s, x)
    BY <2>1, SeedOnly
  <2>3. revisions[c][1] = SeedRevision(1, "draft", x, SeedPreparer)
    BY <2>2 DEF SeedRevisions
  <2>. QED
    BY <2>2, <2>3 DEF SeedRow, SeedRevision
<1>. QED
  BY <1>1 DEF Init, FirstIsPreparers, CreatorsMayWrite

LEMMA FirstStep ==
    ASSUME IInv, FirstIsPreparers, [Next]_vars
    PROVE  FirstIsPreparers'
<1>. USE DEF IInv
<1>1. CASE UNCHANGED <<decision, revisions>>
  BY <1>1 DEF FirstIsPreparers
<1>2. ASSUME NEW r \in Request, Writing(r), NEW c \in Code, decision'[c].version # 0
      PROVE  revisions'[c][1].actor = decision'[c].preparedBy
  <2>0. revisions[c] \in Seq(Revision) /\ Len(revisions[c]) = decision[c].version
    BY DEF TypeOK, RevisionChain
  <2>1. CASE c # call[r].code
    <3>1. \A d \in Code \ {call[r].code} : decision'[d] = decision[d] /\ revisions'[d] = revisions[d]
      BY <1>2, WritingEffect
    <3>. QED
      BY <1>2, <2>1, <3>1 DEF FirstIsPreparers
  <2>2. CASE c = call[r].code /\ Inserts(r)
    <3>1. decision'[c] = Item(r) /\ revisions[c] = <<>>
      BY <1>2, <2>2, WritingEffect
    <3>2. ~Withdraws(r) /\ Entitled(call[r], seen[r]) /\ call[r].op = "create"
      BY <2>2 DEF Inserts, Withdraws, RequestOK, InFlight
    <3>3. revisions'[c] = Append(revisions[c], NewRevision(r))
      BY <1>2, <2>2, <3>2, WritingEffect
    <3>4. NewRevision(r).actor = call[r].user /\ Item(r).preparedBy = call[r].user
      BY <3>2, Writes
    <3>. QED
      BY <3>1, <3>3, <3>4
  <2>3. CASE c = call[r].code /\ Overwrites(r)
    <3>1. ~Withdraws(r) /\ decision[c].version # 0
      BY <2>3 DEF Overwrites, Withdraws, RowMatches, Visible
    <3>2. decision'[c].preparedBy = decision[c].preparedBy
      BY <1>2, <3>1, RowsAdvance
    <3>3. revisions'[c] = Append(revisions[c], NewRevision(r)) /\ NewRevision(r) \in Revision
      BY <1>2, <2>3, <3>1, WritingEffect, RowAndRevisionAgree
    <3>4. 1 \in DOMAIN revisions[c]
      BY <2>0, <3>1
    <3>5. revisions'[c][1] = revisions[c][1]
      BY <2>0, <3>3, <3>4, AppendElements
    <3>. QED
      BY <3>1, <3>2, <3>5 DEF FirstIsPreparers
  <2>4. CASE c = call[r].code /\ Withdraws(r)
    <3>1. decision[c] \in Row /\ revisions'[c] = revisions[c]
      BY <1>2, <2>4, WritingEffect
    <3>2. decision[c].version # 0
      BY <3>1 DEF Row
    <3>3. decision'[c].preparedBy = decision[c].preparedBy
      BY <1>2, <3>2, RowsAdvance
    <3>. QED
      BY <3>1, <3>2, <3>3 DEF FirstIsPreparers
  <2>. QED
    BY <1>2, <2>1, <2>2, <2>3, <2>4 DEF Writing
<1>. QED
  BY <1>1, <1>2, StoreSteps DEF FirstIsPreparers

LEMMA CreatorsStep ==
    ASSUME TypeOK, CreatorsMayWrite, [Next]_vars
    PROVE  CreatorsMayWrite'
<1>1. CASE ~ \E r \in Request : Arrive(r)
  BY <1>1, ProcessSteps DEF CreatorsMayWrite
<1>2. ASSUME NEW r \in Request, Arrive(r), NEW q \in Request, pc'[q] = "write", call'[q].op = "create"
      PROVE  RequireMinimumRole(call'[q].user, "operator")
  <2>1. CASE q # r
    <3>1. PICK k \in Calls, row \in Row \cup {NoRow}, v \in {"accepted"} \cup Refusal :
             Receive(r, k, row, v)
      BY <1>2, Arrivals
    <3>2. pc'[q] = pc[q] /\ call'[q] = call[q]
      BY <2>1, <3>1 DEF Receive, TypeOK
    <3>. QED
      BY <1>2, <3>2 DEF CreatorsMayWrite
  <2>2. CASE q = r
    <3>1. CASE Create(r)
      <4>1. PICK k : k.op = "create" /\ Receive(r, k, NoRow, CreateVerdict(k))
        BY <3>1 DEF Create, Call
      <4>2. CreateVerdict(k) = "accepted" /\ call'[q] = k
        BY <1>2, <2>2, <4>1 DEF Receive, TypeOK, Refusal
      <4>. QED
        BY <4>2 DEF CreateVerdict
    <3>2. CASE ~Create(r)
      <4>1. \E k, row, v : k.op # "create" /\ Receive(r, k, row, v)
        BY <1>2, <3>2 DEF Arrive, Update, Transition, Delete, Call
      <4>2. call'[r].op # "create"
        BY <4>1 DEF Receive, TypeOK
      <4>. QED
        BY <1>2, <2>2, <4>2
    <3>. QED
      BY <3>1, <3>2
  <2>. QED
    BY <2>1, <2>2
<1>. QED
  BY <1>1, <1>2 DEF CreatorsMayWrite

LEMMA LedgerInvAlways == Spec => []LedgerInv
<1>1. Init => FirstIsPreparers /\ CreatorsMayWrite
  BY LedgerInvInit
<1>2. IInv /\ FirstIsPreparers /\ CreatorsMayWrite /\ [Next]_vars
         => FirstIsPreparers' /\ CreatorsMayWrite'
  BY FirstStep, CreatorsStep DEF IInv
<1>. QED
  BY <1>1, <1>2, IInvInductive, PTL DEF Spec, LedgerInv
-----------------------------------------------------------------------------
(* The mapping: one lemma per action of the ledger. *)

(* The roles, guards and statuses mean the same in both modules. *)
LEMMA SameAccess ==
    /\ \A u, m : Ledger!RequireMinimumRole(u, m) = RequireMinimumRole(u, m)
    /\ Ledger!Decided = Final
BY DEF Ledger!RequireMinimumRole, RequireMinimumRole, Ledger!roleRank, roleRank,
       Ledger!Decided, Final

(* What the ledger says of a decision that exists. *)
LEMMA LedgerOfRow ==
    ASSUME LedgerInv, NEW c \in Code, decision[c] \in Row
    PROVE  LET n == Len(Ledgers[c]) IN
           /\ n \in Nat \ {0} /\ n = decision[c].version
           /\ Ledgers[c] # <<>>
           /\ Ledgers[c][n].status = decision[c].status
           /\ Ledgers[c][n].content = decision[c].content
           /\ Ledgers[c][1].author = decision[c].preparedBy
<1>1. /\ revisions[c] \in Seq(Revision) /\ Len(revisions[c]) = decision[c].version
      /\ decision[c].version \in Nat \ {0}
  BY DEF LedgerInv, IInv, TypeOK, RevisionChain, Row
<1>2. Ledgers[c] = EntriesOf(revisions[c])
  BY LedgerIsEntries DEF Ledgers
<1>3. /\ Len(Ledgers[c]) = decision[c].version
      /\ \A i \in 1..decision[c].version : Ledgers[c][i] = EntryOf(revisions[c][i])
  BY <1>1, <1>2, EntriesOfSeq
<1>4. 1 \in 1..decision[c].version /\ decision[c].version \in 1..decision[c].version
  BY <1>1
<1>5. /\ revisions[c][decision[c].version].status = decision[c].status
      /\ revisions[c][decision[c].version].content = decision[c].content
      /\ revisions[c][1].actor = decision[c].preparedBy
  BY <1>1 DEF LedgerInv, IInv, RowIsNewestRevision, FirstIsPreparers
<1>6. Ledgers[c] # <<>>
  BY <1>1, <1>3
<1>7. /\ Ledgers[c][decision[c].version] = EntryOf(revisions[c][decision[c].version])
      /\ Ledgers[c][1] = EntryOf(revisions[c][1])
  BY <1>3, <1>4
<1>8. /\ Ledgers[c][decision[c].version].status = decision[c].status
      /\ Ledgers[c][decision[c].version].content = decision[c].content
      /\ Ledgers[c][1].author = decision[c].preparedBy
  BY <1>5, <1>7 DEF EntryOf
<1>. QED
  BY <1>1, <1>3, <1>6, <1>8

(* A write of a revision adds its entry and withdraws nothing. *)
LEMMA WriteAdds ==
    ASSUME LedgerInv, NEW r \in Request, Inserts(r) \/ Overwrites(r), NEW c, c = call[r].code
    PROVE  /\ Ledgers' = [Ledgers EXCEPT ![c] = Append(@, EntryOf(NewRevision(r)))]
           /\ Withdrawn' = Withdrawn
<1>. USE DEF LedgerInv, IInv
<1>1. Writing(r) /\ ~Withdraws(r)
  BY DEF Writing, Inserts, Overwrites, Withdraws
<1>2. /\ c \in Code
      /\ \A d \in Code \ {c} : decision'[d] = decision[d] /\ revisions'[d] = revisions[d]
      /\ revisions'[c] = Append(revisions[c], NewRevision(r))
  BY <1>1, WritingEffect
<1>3. NewRevision(r) \in Revision /\ revisions[c] \in Seq(Revision)
  BY <1>2, RowAndRevisionAgree DEF TypeOK
<1>4. EntriesOf(revisions'[c]) = Append(EntriesOf(revisions[c]), EntryOf(NewRevision(r)))
  BY <1>2, <1>3, EntriesAppend
<1>5. /\ Ledgers = [d \in Code |-> EntriesOf(revisions[d])]
      /\ Ledgers' = [d \in Code |-> EntriesOf(revisions'[d])]
  BY DEF Ledgers, LedgerOf, EntriesOf, EntryOf
<1>6. Ledgers' = [Ledgers EXCEPT ![c] = Append(@, EntryOf(NewRevision(r)))]
  BY <1>2, <1>4, <1>5
<1>7. decision'[c].deleted = decision[c].deleted
  <2>1. CASE Inserts(r)
    <3>0. decision'[c] = Item(r) /\ decision[c].version = 0
      BY <1>1, <2>1, WritingEffect
    <3>1. decision'[c] = Item(r) /\ call[r].op = "create" /\ decision[c].version = 0
      BY <2>1, <3>0 DEF Inserts
    <3>2. decision[c] = NoRow
      BY <1>2, <3>1 DEF TypeOK, Row
    <3>. QED
      BY <3>1, <3>2 DEF Item, DraftRow, NoRow
  <2>2. CASE Overwrites(r)
    <3>1. /\ decision'[c] = Overwrite(decision[c], Item(r)) /\ decision'[c] \in Row
          /\ Item(r) \in Row
      <4>1. Entitled(call[r], seen[r]) /\ call[r].op # "delete"
        BY <2>2 DEF RequestOK, Overwrites, InFlight
      <4>. QED
        BY <1>1, <2>2, <4>1, WritingEffect, Writes
    <3>. QED
      BY <3>1 DEF Overwrite, Row
  <2>. QED
    BY <2>1, <2>2
<1>8. Withdrawn' = Withdrawn
  BY <1>2, <1>7 DEF Withdrawn
<1>. QED
  BY <1>6, <1>8

LEMMA InsertOpens ==
    ASSUME LedgerInv, NEW r \in Request, Inserts(r)
    PROVE  Ledger!Next
<1>. USE DEF LedgerInv, IInv
<1>. DEFINE c == call[r].code
            u == call[r].user
            x == call[r].content
<1>1. /\ Entitled(call[r], seen[r]) /\ call[r].op = "create"
      /\ RequireMinimumRole(u, "operator")
  BY DEF RequestOK, Inserts, InFlight, CreatorsMayWrite
<1>2. c \in Code /\ u \in User /\ x \in Content
  BY <1>1 DEF Entitled, Calls
<1>3. revisions[c] = <<>>
  BY WritingEffect DEF Writing
<1>4. EntryOf(NewRevision(r)) = Ledger!Entry("draft", x, u)
  BY <1>1 DEF EntryOf, NewRevision, Item, DraftRow, Ledger!Entry
<1>5. Ledgers[c] = <<>>
  <2>1. EntriesOf(<<>>) = <<>>
    BY DEF EntriesOf
  <2>. QED
    BY <1>2, <1>3, <2>1, LedgerIsEntries DEF Ledgers
<1>6. /\ Ledgers' = [Ledgers EXCEPT ![c] = Append(@, Ledger!Entry("draft", x, u))]
      /\ Withdrawn' = Withdrawn
  BY <1>4, WriteAdds
<1>7. Ledger!Open(c, u, x)
  BY <1>1, <1>5, <1>6, SameAccess DEF Ledger!Open, Ledger!Add, Ledgers, Withdrawn
<1>. QED
  BY <1>2, <1>7 DEF Ledger!Next

LEMMA OverwriteAdds ==
    ASSUME LedgerInv, NEW r \in Request, Overwrites(r), ~Guesses(r)
    PROVE  Ledger!Next
<1>. USE DEF LedgerInv, IInv
<1>. DEFINE c == call[r].code
            u == call[r].user
<1>1. /\ Entitled(call[r], seen[r]) /\ call[r].op \in {"update", "transition"}
      /\ c \in Code /\ u \in User
  BY DEF RequestOK, Overwrites, InFlight, Entitled, Calls
<1>2. decision[c] \in Row /\ ~decision[c].deleted
  BY WritingEffect DEF Writing
<1>3. decision[c].status = "draft" /\ decision[c].content = seen[r].content
  BY ReadIsOverwritten
<1>4. seen[r].preparedBy = decision[c].preparedBy
  BY <1>1 DEF Overwrites, SnapshotIsFaithful
<1>5. LET n == Len(Ledgers[c]) IN
      /\ Ledgers[c] # <<>>
      /\ Ledgers[c][n].status = "draft"
      /\ Ledgers[c][n].content = seen[r].content
      /\ Ledgers[c][1].author = seen[r].preparedBy
  BY <1>1, <1>2, <1>3, <1>4, LedgerOfRow
<1>6. Ledger!IsDraft(c)
  BY <1>1, <1>2, <1>5 DEF Ledger!IsDraft, Ledger!LastEntry, Ledgers
<1>7. /\ Ledgers' = [Ledgers EXCEPT ![c] = Append(@, EntryOf(NewRevision(r)))]
      /\ Withdrawn' = Withdrawn
  BY WriteAdds
<1>8. Ledger!Preparer(c) = seen[r].preparedBy
  BY <1>1, <1>5 DEF Ledger!Preparer, Ledgers
<1>9. Ledger!LastEntry(c).content = seen[r].content
  BY <1>1, <1>5 DEF Ledger!LastEntry, Ledgers
<1>10. CASE call[r].op = "update"
  <2>. DEFINE x == call[r].content
  <2>1. x \in Content /\ (u = seen[r].preparedBy \/ RoleOf[u] = "admin")
    BY <1>1, <1>10 DEF Entitled
  <2>2. EntryOf(NewRevision(r)) = Ledger!Entry("draft", x, u)
    <3>1. NewRevision(r).status = "draft" /\ NewRevision(r).actor = u
      BY <1>1, <1>10, Writes
    <3>2. NewRevision(r).content = x
      BY <1>1, <1>10 DEF NewRevision, Item, UpdatedRow, Entitled, Row
    <3>. QED
      BY <3>1, <3>2 DEF EntryOf, Ledger!Entry
  <2>3. Ledger!Amend(c, u, x)
    BY <1>6, <1>7, <1>8, <2>1, <2>2 DEF Ledger!Amend, Ledger!Add, Ledgers, Withdrawn
  <2>. QED
    BY <1>1, <2>1, <2>3 DEF Ledger!Next
<1>11. CASE call[r].op = "transition"
  <2>. DEFINE s == call[r].target
  <2>1. s \in Final /\ RoleOf[u] \in {"reviewer", "admin"} /\ u # seen[r].preparedBy
    BY <1>1, <1>11 DEF Entitled, Reviewers
  <2>2. EntryOf(NewRevision(r)) = Ledger!Entry(s, seen[r].content, u)
    <3>1. /\ NewRevision(r).status = s /\ NewRevision(r).actor = u
          /\ NewRevision(r).content = seen[r].content
      BY <1>1, <1>11, Writes
    <3>. QED
      BY <3>1 DEF EntryOf, Ledger!Entry
  <2>3. Ledger!Decide(c, u, s)
    BY <1>6, <1>7, <1>8, <1>9, <2>1, <2>2 DEF Ledger!Decide, Ledger!Add, Ledgers, Withdrawn
  <2>. QED
    BY <1>1, <2>1, <2>3, SameAccess DEF Ledger!Next
<1>. QED
  BY <1>1, <1>10, <1>11

LEMMA DeleteWithdraws ==
    ASSUME LedgerInv, NEW r \in Request, Withdraws(r)
    PROVE  Ledger!Next
<1>. USE DEF LedgerInv, IInv
<1>0. PICK c : c = call[r].code
  OBVIOUS
<1>1. /\ c \in Code /\ decision[c] \in Row /\ ~decision[c].deleted
      /\ decision'[c] = [decision[c] EXCEPT !.deleted = TRUE]
      /\ \A d \in Code \ {c} : decision'[d] = decision[d]
      /\ revisions' = revisions
  BY <1>0, WritingEffect DEF Writing, Withdraws, Visible
<1>2. Ledgers[c] # <<>>
  BY <1>1, LedgerOfRow
<1>3. Ledgers' = Ledgers
  BY <1>1 DEF Ledgers, LedgerOf
<1>4. decision'[c].deleted = TRUE
  BY <1>1 DEF Row
<1>5. Withdrawn' = [Withdrawn EXCEPT ![c] = TRUE]
  BY <1>1, <1>4 DEF Withdrawn
<1>6. Ledger!Withdraw(c)
  BY <1>1, <1>2, <1>3, <1>5 DEF Ledger!Withdraw, Ledgers, Withdrawn
<1>. QED
  BY <1>1, <1>6 DEF Ledger!Next

LEMMA LedgerInit == Init => Ledger!Init
<1>. SUFFICES ASSUME Init PROVE Ledger!Init
  OBVIOUS
<1>1. ASSUME NEW c \in Code
      PROVE  Ledgers[c] \in Ledger!SeedLedgers /\ Withdrawn[c] = FALSE
  <2>1. Ledgers[c] = EntriesOf(revisions[c])
    BY LedgerIsEntries DEF Ledgers
  <2>2. CASE decision[c] = NoRow
    <3>1. revisions[c] = <<>> /\ EntriesOf(<<>>) = <<>>
      BY <2>2 DEF Init, EntriesOf
    <3>. QED
      BY <2>1, <2>2, <3>1 DEF NoRow, Withdrawn, Ledger!SeedLedgers
  <2>3. CASE decision[c] # NoRow
    <3>1. PICK s \in {"draft"} \cup SeedFinal, x \in Content :
             decision[c] = SeedRow(s, x) /\ revisions[c] = SeedRevisions(s, x)
      BY <2>3, SeedOnly
    <3>. DEFINE a == SeedRevision(1, "draft", x, SeedPreparer)
                b == SeedRevision(2, s, x, SeedReviewer)
    <3>2. /\ EntryOf(a) = Ledger!Entry("draft", x, SeedPreparer)
          /\ EntryOf(b) = Ledger!Entry(s, x, SeedReviewer)
      BY DEF EntryOf, SeedRevision, Ledger!Entry
    <3>3. revisions[c] = IF s = "draft" THEN <<a>> ELSE <<a, b>>
      BY <3>1 DEF SeedRevisions
    <3>. HIDE DEF a, b
    <3>4. EntriesOf(<<a>>) = <<EntryOf(a)>> /\ EntriesOf(<<a, b>>) = <<EntryOf(a), EntryOf(b)>>
      BY DEF EntriesOf
    <3>5. Withdrawn[c] = FALSE
      BY <3>1 DEF Withdrawn, SeedRow
    <3>6. CASE s = "draft"
      BY <2>1, <3>2, <3>3, <3>4, <3>5, <3>6 DEF Ledger!SeedLedgers
    <3>7. CASE s # "draft"
      <4>1. s \in Ledger!SeedDecided
        BY <3>7 DEF SeedFinal, Ledger!SeedDecided
      <4>2. PICK p : p = <<x, s>>
        OBVIOUS
      <4>3. Ledgers[c] = <<Ledger!Entry("draft", p[1], SeedPreparer),
                           Ledger!Entry(p[2], p[1], SeedReviewer)>>
        BY <2>1, <3>2, <3>3, <3>4, <3>7, <4>2
      <4>4. p \in Content \X Ledger!SeedDecided
        BY <4>1, <4>2
      <4>. QED
        BY <3>5, <4>3, <4>4 DEF Ledger!SeedLedgers
    <3>. QED
      BY <3>6, <3>7
  <2>. QED
    BY <2>2, <2>3
<1>. QED
  BY <1>1 DEF Ledger!Init, Ledgers, Withdrawn

LEMMA LedgerStep ==
    ASSUME LedgerInv, [Next]_vars
    PROVE  Ledger!Next \/ UNCHANGED Ledger!vars \/ \E c \in Code : Guessed(c)
<1>1. CASE UNCHANGED <<decision, revisions>>
  BY <1>1 DEF Ledger!vars, LedgerOf
<1>2. ASSUME NEW r \in Request, Writing(r) PROVE Ledger!Next \/ \E c \in Code : Guessed(c)
  <2>1. call[r].code \in Code
    BY <1>2, WritingEffect DEF LedgerInv, IInv
  <2>. QED
    BY <1>2, <2>1, InsertOpens, OverwriteAdds, DeleteWithdraws DEF Writing, Guessed
<1>. QED
  BY <1>1, <1>2, StoreSteps DEF LedgerInv, IInv

(* For clients that send versions they were shown, the service keeps the     *)
(* promise of DecisionLedger whatever races, fails or crashes: a preparer    *)
(* opens, the preparer or an admin amends a draft, and one other entitled    *)
(* person decides on the evidence of the last draft, once.                   *)
THEOREM ServiceKeepsLedger ==
    ASSUME Lookahead = 0
    PROVE  Spec => LedgerSpec
<1>1. LedgerInv /\ [Next]_vars => [Ledger!Next]_(Ledger!vars)
  BY LedgerStep, NobodyGuesses DEF Guessed, LedgerInv
<1>. QED
  BY <1>1, LedgerInit, LedgerInvAlways, PTL DEF Spec, LedgerSpec, Ledger!Spec

(* Whatever clients send, one kind of step alone leaves the promise: an        *)
(* overwrite by a request that was checked on an earlier version than the    *)
(* one it names (Update and Transition, service/priority_decision.go:70-138). *)
THEOREM OnlyGuessesLeaveTheLedger ==
    Spec => [][Ledger!Next \/ UNCHANGED Ledger!vars \/ \E c \in Code : Guessed(c)]_vars
<1>1. LedgerInv /\ [Next]_vars =>
        [Ledger!Next \/ UNCHANGED Ledger!vars \/ \E c \in Code : Guessed(c)]_vars
  BY LedgerStep
<1>. QED
  BY <1>1, LedgerInvAlways, PTL DEF Spec

=============================================================================
