-------------------------- MODULE ReadRoutesProofs --------------------------
(***************************************************************************)
(* Proofs about ReadRoutes, for any number of requests, accounts, codes    *)
(* and contents and any windows and limits: what the read routes return.   *)
(***************************************************************************)
EXTENDS ReadRoutes, FiniteSetTheorems, TLAPS

LedgerEntry == [status : Ledger!Decided \cup {"draft"}, content : Content, author : User]
LedgerOK == ledger \in [Code -> Seq(LedgerEntry)]

(* What Preload is about to read explains the rows. *)
RowsExplained ==
    reader.pc = "preload" =>
        \A c \in DOMAIN reader.rows : c \in Code /\ Explains(ledger[c], reader.rows[c])

(* What a statement of the summary counted is counted by the later ones. *)
Kept(name, S) == {e \in S : name = "transitions" => e.action = "transition"}

FiguresGrow ==
    reader.pc = "summary" =>
        \A j \in DOMAIN reader.counted :
            /\ reader.counted[j] \subseteq Counted(Statement[j], reader.since)
            /\ \A i \in 1..j : Kept(Statement[j], reader.counted[i]) \subseteq reader.counted[j]

(* Stamps respect the order in which requests were answered: those of the     *)
(* entries, and those about to be inserted.                                 *)
EntriesInRealTime ==
    /\ \A e \in audit :
         /\ writer[e.request].pc = "done" /\ e.stamp < clock
         /\ \A f \in audit : f.request \in e.earlier => f.stamp < e.stamp
         /\ e.earlier \subseteq Answered
    /\ \A r \in Request : writer[r].pc \in {"audit", "insert"} =>
         writer[r].earlier \subseteq Answered
    /\ \A r \in Request : writer[r].pc = "insert" =>
         /\ writer[r].stamp <= clock
         /\ \A f \in audit : f.request \in writer[r].earlier => f.stamp < writer[r].stamp

IInv == TypeOK /\ LedgerOK /\ IsFiniteSet(audit) /\ RowsExplained /\ GetExplainsItself
        /\ FiguresGrow /\ EntriesInRealTime

-----------------------------------------------------------------------------
(* A ledger grows by one entry at a time, and only while it is a draft. *)
Extended(c) ==
    \/ ledger'[c] = ledger[c]
    \/ \E e \in LedgerEntry :
          /\ ledger'[c] = Append(ledger[c], e)
          /\ ledger[c] # <<>> => Ledger!LastEntry(c).status = "draft"

LEMMA Adding ==
    ASSUME LedgerOK, NEW c \in Code, NEW e \in LedgerEntry, Ledger!Add(c, e),
           ledger[c] # <<>> => Ledger!LastEntry(c).status = "draft"
    PROVE  LedgerOK' /\ \A d \in Code : Extended(d)
<1>1. ledger' = [ledger EXCEPT ![c] = Append(@, e)]
  BY DEF Ledger!Add
<1>2. ledger[c] \in Seq(LedgerEntry) /\ Append(ledger[c], e) \in Seq(LedgerEntry)
  BY DEF LedgerOK
<1>3. LedgerOK'
  BY <1>1, <1>2 DEF LedgerOK
<1>4. ASSUME NEW d \in Code PROVE Extended(d)
  <2>1. CASE d = c
    BY <2>1, <1>1 DEF Extended, LedgerOK
  <2>2. CASE d # c
    BY <2>2, <1>1 DEF Extended, LedgerOK
  <2>. QED
    BY <2>1, <2>2
<1>. QED
  BY <1>3, <1>4

(* A request that writes goes on to its audit entry. *)
Wrote(r) ==
    \E u \in User, a \in Op, c \in Code : Committed(r, u, a, c)

LEMMA Writing ==
    ASSUME TypeOK, LedgerOK, NEW r \in Request, Write(r)
    PROVE  LedgerOK' /\ (\A d \in Code : Extended(d)) /\ Wrote(r)
<1>1. PICK c \in Code, u \in User :
          \/ \E x \in Content : Ledger!Open(c, u, x) /\ Committed(r, u, "create", c)
          \/ \E x \in Content : Ledger!Amend(c, u, x) /\ Committed(r, u, "update", c)
          \/ \E s \in Ledger!Decided : Ledger!Decide(c, u, s) /\ Committed(r, u, "transition", c)
          \/ RequireRoles(u, {"admin"}) /\ Ledger!Withdraw(c) /\ Committed(r, u, "delete", c)
  BY DEF Write
<1>2. CASE \E x \in Content : Ledger!Open(c, u, x) /\ Committed(r, u, "create", c)
  <2>1. PICK x \in Content : Ledger!Open(c, u, x) /\ Committed(r, u, "create", c)
    BY <1>2
  <2>2. Ledger!Entry("draft", x, u) \in LedgerEntry
    BY DEF Ledger!Entry, LedgerEntry
  <2>3. ledger[c] = <<>> /\ Ledger!Add(c, Ledger!Entry("draft", x, u))
    BY <2>1 DEF Ledger!Open
  <2>. QED
    BY <2>1, <2>2, <2>3, Adding DEF Wrote, Op
<1>3. CASE \E x \in Content : Ledger!Amend(c, u, x) /\ Committed(r, u, "update", c)
  <2>1. PICK x \in Content : Ledger!Amend(c, u, x) /\ Committed(r, u, "update", c)
    BY <1>3
  <2>2. Ledger!Entry("draft", x, u) \in LedgerEntry
    BY DEF Ledger!Entry, LedgerEntry
  <2>3. Ledger!LastEntry(c).status = "draft" /\ Ledger!Add(c, Ledger!Entry("draft", x, u))
    BY <2>1 DEF Ledger!Amend, Ledger!IsDraft
  <2>. QED
    BY <2>1, <2>2, <2>3, Adding DEF Wrote, Op
<1>4. CASE \E s \in Ledger!Decided : Ledger!Decide(c, u, s) /\ Committed(r, u, "transition", c)
  <2>1. PICK s \in Ledger!Decided : Ledger!Decide(c, u, s) /\ Committed(r, u, "transition", c)
    BY <1>4
  <2>2. ledger[c] # <<>> /\ Ledger!LastEntry(c).status = "draft"
        /\ Ledger!Add(c, Ledger!Entry(s, Ledger!LastEntry(c).content, u))
    BY <2>1 DEF Ledger!Decide, Ledger!IsDraft
  <2>3. Ledger!LastEntry(c) \in LedgerEntry
    BY <2>2 DEF Ledger!LastEntry, LedgerOK
  <2>4. Ledger!Entry(s, Ledger!LastEntry(c).content, u) \in LedgerEntry
    BY <2>3 DEF Ledger!Entry, LedgerEntry
  <2>. QED
    BY <2>1, <2>2, <2>4, Adding DEF Wrote, Op
<1>5. CASE RequireRoles(u, {"admin"}) /\ Ledger!Withdraw(c) /\ Committed(r, u, "delete", c)
  BY <1>5 DEF Ledger!Withdraw, LedgerOK, Extended, Wrote, Op
<1>. QED
  BY <1>1, <1>2, <1>3, <1>4, <1>5

(* What explains a row goes on explaining it. *)
LEMMA ExplainedForGood ==
    ASSUME LedgerOK, NEW c \in Code, Extended(c), NEW row, Explains(ledger[c], row)
    PROVE  Explains(ledger'[c], row)
<1>1. CASE ledger'[c] = ledger[c]
  BY <1>1 DEF Explains
<1>2. ASSUME NEW e \in LedgerEntry, ledger'[c] = Append(ledger[c], e),
             ledger[c] # <<>> => Ledger!LastEntry(c).status = "draft"
      PROVE  Explains(ledger'[c], row)
  <2>1. ledger[c] \in Seq(LedgerEntry) /\ row.version \in DOMAIN ledger[c]
    BY DEF LedgerOK, Explains
  <2>2. /\ Len(ledger[c]) \in Nat /\ row.version \in 1..Len(ledger[c])
        /\ Len(ledger'[c]) = Len(ledger[c]) + 1
        /\ \A i \in 1..Len(ledger[c]) : ledger'[c][i] = ledger[c][i]
    BY <2>1, <1>2
  <2>3. ledger[c] # <<>> /\ 1 \in 1..Len(ledger[c])
    BY <2>2
  <2>4. row.status \notin Ledger!Decided
    BY <2>3, <1>2, <2>2 DEF Explains, Ledger!LastEntry, Ledger!Decided
  <2>5. ledger'[c] \in Seq(LedgerEntry) /\ row.version \in DOMAIN ledger'[c]
    BY <2>1, <2>2, <1>2
  <2>. QED
    BY <2>2, <2>3, <2>4, <2>5 DEF Explains
<1>. QED
  BY <1>1, <1>2 DEF Extended

(* The row of a decision is explained by the revisions it has. *)
LEMMA RowsAreExplained ==
    ASSUME LedgerOK, NEW c \in Code, Visible(c)
    PROVE  RowOf(c) \in RowShown /\ Explains(ledger[c], RowOf(c))
<1>1. ledger[c] \in Seq(LedgerEntry) /\ ledger[c] # <<>>
  BY DEF LedgerOK, Visible
<1>2. Len(ledger[c]) \in Nat \ {0} /\ Len(ledger[c]) \in DOMAIN ledger[c] /\ 1 \in DOMAIN ledger[c]
  BY <1>1
<1>3. ledger[c][Len(ledger[c])] \in LedgerEntry /\ ledger[c][1] \in LedgerEntry
  BY <1>1, <1>2
<1>. QED
  BY <1>2, <1>3 DEF RowOf, RowShown, Explains, Version, Ledger!LastEntry, Ledger!Preparer, LedgerEntry

-----------------------------------------------------------------------------
(* Writers.                                                                 *)

WriterStep == (\E r \in Request : Write(r) \/ Stamp(r) \/ AppendAudit(r) \/ AuditFails(r)) \/ Tick

(* What the steps of writers leave to be true of a read. *)
LEMMA WritersKeepReads ==
    ASSUME IInv, WriterStep
    PROVE  /\ LedgerOK' /\ (\A c \in Code : Extended(c)) /\ UNCHANGED reader
           /\ audit \subseteq audit' /\ IsFiniteSet(audit') /\ (clock' = clock \/ clock' = clock + 1)
<1>1. ASSUME NEW r \in Request, Write(r)
      PROVE  LedgerOK' /\ (\A c \in Code : Extended(c)) /\ UNCHANGED <<audit, clock, reader>>
  BY <1>1, Writing DEF Write, IInv
<1>2. ASSUME NEW r \in Request, Stamp(r) \/ AuditFails(r)
      PROVE  UNCHANGED <<ledger, audit, clock, reader>>
  BY <1>2 DEF Stamp, AuditFails
<1>3. ASSUME NEW r \in Request, AppendAudit(r)
      PROVE  UNCHANGED <<ledger, clock, reader>> /\ audit' = audit \cup {EntryOf(r)}
  BY <1>3 DEF AppendAudit
<1>4. ASSUME Tick PROVE UNCHANGED <<ledger, audit, reader>> /\ clock' = clock + 1
  BY <1>4 DEF Tick
<1>5. ASSUME UNCHANGED ledger PROVE LedgerOK' /\ \A c \in Code : Extended(c)
  BY <1>5 DEF LedgerOK, Extended, IInv
<1>6. IsFiniteSet(audit)
  BY DEF IInv
<1>. QED
  BY <1>1, <1>2, <1>3, <1>4, <1>5, <1>6, FS_AddElement DEF WriterStep

LEMMA WritersKeepRows ==
    ASSUME IInv, WriterStep
    PROVE  RowsExplained' /\ GetExplainsItself' /\ FiguresGrow'
<1>1. LedgerOK /\ RowsExplained /\ GetExplainsItself /\ FiguresGrow
  BY DEF IInv
<1>2. RowsExplained'
  BY <1>1, WritersKeepReads, ExplainedForGood DEF RowsExplained
<1>3. GetExplainsItself'
  BY <1>1, WritersKeepReads DEF GetExplainsItself, Explains
<1>4. FiguresGrow'
  BY <1>1, WritersKeepReads DEF FiguresGrow, Counted, Kept
<1>. QED
  BY <1>2, <1>3, <1>4

(* The steps of a writer, field by field. *)
LEMMA WriterSteps ==
    ASSUME IInv, NEW r \in Request
    PROVE  /\ Wrote(r) => /\ writer' \in [Request -> Writer]
                          /\ writer'[r].pc = "audit" /\ writer'[r].earlier = Answered
           /\ Stamp(r) => /\ writer' \in [Request -> Writer]
                          /\ writer'[r].pc = "insert" /\ writer'[r].stamp = clock
                          /\ writer'[r].earlier = writer[r].earlier
           /\ AppendAudit(r) \/ AuditFails(r) =>
                 writer' \in [Request -> Writer] /\ writer'[r].pc = "done"
           /\ AppendAudit(r) => EntryOf(r) \in Entry
<1>. USE Ranges
<1>1. writer \in [Request -> Writer] /\ clock \in 0..MaxClock
  BY DEF IInv, TypeOK
<1>2. ASSUME Wrote(r)
      PROVE  /\ writer' \in [Request -> Writer]
             /\ writer'[r].pc = "audit" /\ writer'[r].earlier = Answered
  <2>1. PICK u \in User, a \in Op, c \in Code : Committed(r, u, a, c)
    BY <1>2 DEF Wrote
  <2>. DEFINE w == [pc |-> "audit", action |-> a, actor |-> u, code |-> c,
                    stamp |-> 0, earlier |-> Answered]
  <2>2. w \in Writer
    BY DEF Writer, Answered
  <2>3. writer' = [writer EXCEPT ![r] = w]
    BY <2>1 DEF Committed
  <2>. QED
    BY <1>1, <2>2, <2>3
<1>3. ASSUME Stamp(r)
      PROVE  /\ writer' \in [Request -> Writer]
             /\ writer'[r].pc = "insert" /\ writer'[r].stamp = clock
             /\ writer'[r].earlier = writer[r].earlier
  <2>. DEFINE w == [writer[r] EXCEPT !.pc = "insert", !.stamp = clock]
  <2>1. writer[r] \in [pc : {"audit", "insert"}, action : Op, actor : User, code : Code,
                       stamp : 0..MaxClock, earlier : SUBSET Request]
    BY <1>1, <1>3 DEF Stamp, Writer
  <2>2. w \in Writer /\ w.pc = "insert" /\ w.stamp = clock /\ w.earlier = writer[r].earlier
    BY <2>1, <1>1 DEF Writer
  <2>3. writer' = [writer EXCEPT ![r] = w]
    BY <1>3 DEF Stamp
  <2>. QED
    BY <1>1, <2>2, <2>3
<1>4. ASSUME AppendAudit(r) \/ AuditFails(r)
      PROVE  writer' \in [Request -> Writer] /\ writer'[r].pc = "done"
  BY <1>1, <1>4 DEF AppendAudit, AuditFails, Done, Writer
<1>5. ASSUME AppendAudit(r) PROVE EntryOf(r) \in Entry
  BY <1>1, <1>5 DEF AppendAudit, EntryOf, Entry, Writer
<1>. QED
  BY <1>2, <1>3, <1>4, <1>5

LEMMA WritersKeepTypes ==
    ASSUME IInv, WriterStep
    PROVE  TypeOK'
<1>. USE Ranges
<1>1. TypeOK
  BY DEF IInv
<1>2. audit' \in SUBSET Entry /\ clock' \in 0..MaxClock /\ writer' \in [Request -> Writer]
  <2>1. ASSUME NEW r \in Request, Write(r) \/ Stamp(r) \/ AuditFails(r)
        PROVE  audit' = audit /\ clock' = clock /\ writer' \in [Request -> Writer]
    BY <2>1, WriterSteps, Writing DEF IInv, Write, Stamp, AuditFails
  <2>2. ASSUME NEW r \in Request, AppendAudit(r)
        PROVE  audit' = audit \cup {EntryOf(r)} /\ clock' = clock /\ writer' \in [Request -> Writer]
               /\ EntryOf(r) \in Entry
    BY <2>2, WriterSteps DEF AppendAudit
  <2>3. ASSUME Tick
        PROVE  audit' = audit /\ clock' \in 0..MaxClock /\ writer' = writer
    BY <2>3, <1>1 DEF Tick, TypeOK
  <2>. QED
    BY <1>1, <2>1, <2>2, <2>3 DEF TypeOK, WriterStep
<1>3. reader' = reader /\ audit \subseteq audit'
  BY WritersKeepReads
<1>4. Seq(SUBSET audit) \subseteq Seq(SUBSET audit')
  BY <1>3
<1>. QED
  BY <1>1, <1>2, <1>3, <1>4 DEF TypeOK

(* Stamps are in real time because a request is stamped after it has written, *)
(* and answered no sooner than the clock has passed its stamp.              *)
LEMMA WritersKeepTime ==
    ASSUME IInv, WriterStep
    PROVE  EntriesInRealTime'
<1>. USE Ranges
<1>1. /\ EntriesInRealTime /\ writer \in [Request -> Writer] /\ clock \in 0..MaxClock
      /\ audit \in SUBSET Entry
  BY DEF IInv, TypeOK
<1>2. ASSUME NEW r \in Request, Write(r) PROVE EntriesInRealTime'
  <2>1. /\ writer' = [writer EXCEPT ![r] = writer'[r]] /\ writer[r].pc = "idle"
        /\ writer'[r].pc = "audit" /\ writer'[r].earlier = Answered
        /\ UNCHANGED <<audit, clock>>
    BY <1>2, <1>1, WriterSteps, Writing DEF Write, IInv, Wrote, Committed
  <2>2. Answered' = Answered
    BY <2>1, <1>1 DEF Answered
  <2>. QED
    BY <2>1, <2>2, <1>1 DEF EntriesInRealTime, Entry
<1>3. ASSUME NEW r \in Request, Stamp(r) PROVE EntriesInRealTime'
  <2>1. /\ writer' = [writer EXCEPT ![r] = writer'[r]] /\ writer[r].pc = "audit"
        /\ writer'[r].pc = "insert" /\ writer'[r].stamp = clock
        /\ writer'[r].earlier = writer[r].earlier
        /\ UNCHANGED <<audit, clock>>
    BY <1>3, <1>1, WriterSteps DEF Stamp
  <2>2. Answered' = Answered
    BY <2>1, <1>1 DEF Answered
  <2>. QED
    BY <2>1, <2>2, <1>1 DEF EntriesInRealTime, Entry
<1>4. ASSUME NEW r \in Request, AuditFails(r) PROVE EntriesInRealTime'
  <2>1. /\ writer' = [writer EXCEPT ![r] = writer'[r]] /\ writer'[r].pc = "done"
        /\ UNCHANGED <<audit, clock>>
    BY <1>4, <1>1, WriterSteps DEF AuditFails, Done
  <2>2. Answered \subseteq Answered'
    BY <2>1, <1>1 DEF Answered
  <2>. QED
    BY <2>1, <2>2, <1>1 DEF EntriesInRealTime, Entry
<1>5. ASSUME NEW r \in Request, AppendAudit(r) PROVE EntriesInRealTime'
  <2>. DEFINE e == EntryOf(r)
  <2>1. /\ writer' = [writer EXCEPT ![r] = writer'[r]] /\ writer'[r].pc = "done"
        /\ writer[r].pc = "insert" /\ writer[r].stamp < clock
        /\ audit' = audit \cup {e} /\ clock' = clock /\ e \in Entry
    BY <1>5, <1>1, WriterSteps DEF AppendAudit, Done
  <2>2. e.request = r /\ e.stamp = writer[r].stamp /\ e.earlier = writer[r].earlier
    BY DEF EntryOf
  <2>. HIDE DEF e
  <2>3. Answered \subseteq Answered' /\ r \notin Answered
    BY <2>1, <1>1 DEF Answered
  <2>4. ASSUME NEW f \in audit'
        PROVE  /\ writer'[f.request].pc = "done" /\ f.stamp < clock'
               /\ f.earlier \subseteq Answered /\ f.earlier \subseteq Answered'
    BY <2>1, <2>2, <2>3, <1>1 DEF EntriesInRealTime, Entry
  <2>5. ASSUME NEW f \in audit', NEW g \in audit', g.request \in f.earlier
        PROVE  g.stamp < f.stamp
    BY <2>1, <2>2, <2>3, <2>4, <2>5, <1>1 DEF EntriesInRealTime
  <2>6. ASSUME NEW q \in Request, writer'[q].pc \in {"audit", "insert"}
        PROVE  q # r /\ writer'[q] = writer[q] /\ writer'[q].earlier \subseteq Answered
    BY <2>1, <2>6, <1>1 DEF EntriesInRealTime
  <2>7. ASSUME NEW q \in Request, writer'[q].pc = "insert"
        PROVE  /\ writer'[q].stamp <= clock'
               /\ \A f \in audit' : f.request \in writer'[q].earlier => f.stamp < writer'[q].stamp
    BY <2>1, <2>2, <2>3, <2>6, <2>7, <1>1 DEF EntriesInRealTime
  <2>. QED
    BY <2>3, <2>4, <2>5, <2>6, <2>7 DEF EntriesInRealTime
<1>6. ASSUME Tick PROVE EntriesInRealTime'
  <2>1. clock' = clock + 1 /\ UNCHANGED <<audit, writer>> /\ Answered' = Answered
    BY <1>6 DEF Tick, Answered
  <2>2. \A e \in audit : e.stamp \in Nat
    BY <1>1 DEF Entry
  <2>3. \A r \in Request : writer[r].pc = "insert" => writer[r].stamp \in Nat
    BY <1>1 DEF Writer
  <2>. QED
    BY <2>1, <2>2, <2>3, <1>1 DEF EntriesInRealTime
<1>. QED
  BY <1>2, <1>3, <1>4, <1>5, <1>6 DEF WriterStep

-----------------------------------------------------------------------------
(* Reads.                                                                   *)

LEMMA ReadsKeepTheRest ==
    ASSUME IInv, Read
    PROVE  LedgerOK' /\ IsFiniteSet(audit') /\ EntriesInRealTime'
<1>1. UNCHANGED <<ledger, withdrawn, audit, clock, writer>>
  BY DEF Read, FindRows, PreloadRevisions, StartSummary, NextStatement, ReadFails, EntityHistory
<1>2. Answered' = Answered
  BY <1>1 DEF Answered
<1>3. LedgerOK /\ IsFiniteSet(audit) /\ EntriesInRealTime
  BY DEF IInv
<1>. QED
  BY <1>1, <1>2, <1>3 DEF LedgerOK, EntriesInRealTime

LEMMA Limits ==
    ASSUME NEW n \in Nat, clock \in 0..MaxClock
    PROVE  /\ NormalizedLimit(n) \in Nat \ {0} /\ NormalizedLimit(n) <= MaxLimit
           /\ Since(n) \in 0..MaxClock
<1>1. MaxLimit \in Nat \ {0} /\ DefaultLimit \in Nat \ {0} /\ DefaultLimit <= MaxLimit /\ MaxClock \in Nat
  BY Ranges
<1>2. MaxWindow \in Nat /\ DefaultWindow \in Nat
  BY Ranges
<1>. QED
  BY <1>1, <1>2 DEF NormalizedLimit, Since, Window

LEMMA HistoriesAreBounded ==
    ASSUME NEW S, IsFiniteSet(S), NEW n \in Nat, NEW h \in Listings(S, n)
    PROVE  /\ h \in [1..Least(n, Cardinality(S)) -> S] /\ DOMAIN h = 1..Len(h)
           /\ Len(h) = Least(n, Cardinality(S))
           /\ Len(h) \in Nat /\ Len(h) <= n /\ \A i \in DOMAIN h : h[i] \in S
<1>. DEFINE k == Least(n, Cardinality(S))
<1>1. k \in Nat /\ k <= n
  BY FS_CardinalityType DEF Least
<1>2. h \in [1..k -> S]
  BY DEF Listings
<1>. HIDE DEF k
<1>3. h \in Seq(S) /\ Len(h) = k
  BY <1>1, <1>2
<1>. QED
  BY <1>1, <1>2, <1>3 DEF k

LEMMA ReadsKeepReads ==
    ASSUME IInv, Read
    PROVE  TypeOK' /\ RowsExplained' /\ GetExplainsItself' /\ FiguresGrow'
<1>. USE Ranges
<1>0. TypeOK /\ LedgerOK /\ RowsExplained /\ FiguresGrow /\ IsFiniteSet(audit)
  BY DEF IInv
<1>1. UNCHANGED <<ledger, withdrawn, audit, clock, writer>>
  BY DEF Read, FindRows, PreloadRevisions, StartSummary, NextStatement, ReadFails, EntityHistory
<1>2. ASSUME NEW S \in SUBSET Code, FindRows(S)
      PROVE  TypeOK' /\ RowsExplained' /\ GetExplainsItself' /\ FiguresGrow'
  <2>1. reader'.pc = "preload" /\ DOMAIN reader'.rows = {d \in S : Visible(d)}
        /\ \A c \in DOMAIN reader'.rows : reader'.rows[c] = RowOf(c)
    BY <1>2 DEF FindRows
  <2>2. \A c \in DOMAIN reader'.rows :
           c \in Code /\ RowOf(c) \in RowShown /\ Explains(ledger[c], RowOf(c))
    BY <2>1, <1>0, RowsAreExplained
  <2>3. TypeOK'
    BY <2>1, <2>2, <1>0, <1>1 DEF TypeOK
  <2>. QED
    BY <2>1, <2>2, <2>3, <1>1 DEF RowsExplained, GetExplainsItself, FiguresGrow
<1>3. ASSUME PreloadRevisions
      PROVE  TypeOK' /\ RowsExplained' /\ GetExplainsItself' /\ FiguresGrow'
  <2>1. reader.pc = "preload" /\ reader'.pc = "shown" /\ reader'.rows = reader.rows
        /\ \A c \in DOMAIN reader.rows : reader'.revisions[c] = ledger[c]
    BY <1>3 DEF PreloadRevisions, RevisionsOf
  <2>2. TypeOK'
    BY <2>1, <1>0, <1>1 DEF TypeOK
  <2>3. GetExplainsItself'
    BY <2>1, <1>0 DEF GetExplainsItself, RowsExplained, Explains
  <2>. QED
    BY <2>1, <2>2, <2>3 DEF RowsExplained, FiguresGrow
<1>4. ASSUME NEW n \in Asked, StartSummary(n)
      PROVE  TypeOK' /\ RowsExplained' /\ GetExplainsItself' /\ FiguresGrow'
  <2>1. reader'.pc = "summary" /\ reader'.since = Since(n) /\ reader'.counted = <<>>
    BY <1>4 DEF StartSummary
  <2>2. n \in Nat /\ Since(n) \in 0..MaxClock
    BY <1>0, Limits DEF TypeOK
  <2>3. TypeOK'
    BY <2>1, <2>2, <1>0, <1>1 DEF TypeOK, Statement
  <2>. QED
    BY <2>1, <2>3 DEF RowsExplained, GetExplainsItself, FiguresGrow
<1>5. ASSUME NextStatement
      PROVE  TypeOK' /\ RowsExplained' /\ GetExplainsItself' /\ FiguresGrow'
  <2>. DEFINE C == reader.counted
              n == Len(C) + 1
              new == Counted(Statement[n], reader.since)
  <2>1. reader.pc = "summary" /\ reader'.pc = "summary" /\ reader'.since = reader.since
        /\ reader'.counted = Append(C, new) /\ Len(C) < Len(Statement)
    BY <1>5 DEF NextStatement
  <2>2. C \in Seq(SUBSET audit) /\ new \in SUBSET audit /\ reader.since \in 0..MaxClock
    BY <2>1, <1>0 DEF TypeOK, Counted
  <2>3. TypeOK'
    BY <2>1, <2>2, <1>0, <1>1 DEF TypeOK, Statement
  <2>4. \A j \in DOMAIN C :
           /\ C[j] \subseteq Counted(Statement[j], reader.since)
           /\ \A i \in 1..j : Kept(Statement[j], C[i]) \subseteq C[j]
    BY <2>1, <1>0 DEF FiguresGrow
  <2>5. \A i \in DOMAIN C : Kept(Statement[n], C[i]) \subseteq new
    BY <2>4 DEF Kept, Counted
  <2>6. Kept(Statement[n], new) \subseteq new
    BY DEF Kept
  <2>7. \A name : Counted(name, reader.since)' = Counted(name, reader.since)
    BY <1>1, <2>1 DEF Counted
  <2>. HIDE DEF C, n, new
  <2>8. /\ DOMAIN Append(C, new) = 1..n /\ n \in Nat /\ DOMAIN C = 1..n-1
        /\ Append(C, new)[n] = new /\ \A i \in 1..n-1 : Append(C, new)[i] = C[i]
    BY <2>2 DEF n
  <2>9. FiguresGrow'
    <3>1. SUFFICES ASSUME NEW j \in 1..n
                   PROVE  /\ Append(C, new)[j] \subseteq Counted(Statement[j], reader.since)
                          /\ \A i \in 1..j : Kept(Statement[j], Append(C, new)[i]) \subseteq Append(C, new)[j]
      BY <2>1, <2>8, <1>1 DEF FiguresGrow, Kept, Counted
    <3>2. CASE j = n
      BY <3>2, <2>5, <2>6, <2>8 DEF new
    <3>3. CASE j # n
      BY <3>3, <2>4, <2>8
    <3>. QED
      BY <3>2, <3>3
  <2>. QED
    BY <2>1, <2>3, <2>9 DEF RowsExplained, GetExplainsItself
<1>6. ASSUME ReadFails
      PROVE  TypeOK' /\ RowsExplained' /\ GetExplainsItself' /\ FiguresGrow'
  <2>1. reader'.pc = "failed"
    BY <1>6 DEF ReadFails
  <2>. QED
    BY <2>1, <1>0, <1>1 DEF TypeOK, RowsExplained, GetExplainsItself, FiguresGrow
<1>7. ASSUME NEW c \in Code, NEW m \in Asked, EntityHistory(c, m)
      PROVE  TypeOK' /\ RowsExplained' /\ GetExplainsItself' /\ FiguresGrow'
  <2>. DEFINE S == {e \in audit : e.code = c}
  <2>1. PICK h \in Listings(S, NormalizedLimit(m)) :
           reader' = [pc |-> "history", code |-> c, listed |-> h]
    BY <1>7 DEF EntityHistory
  <2>2. IsFiniteSet(S)
    BY <1>0, FS_Subset
  <2>3. NormalizedLimit(m) \in Nat /\ NormalizedLimit(m) <= MaxLimit
    BY <1>0, Limits DEF TypeOK
  <2>. HIDE DEF S
  <2>. DEFINE n == NormalizedLimit(m)
  <2>. HIDE DEF n
  <2>4. Len(h) <= n /\ Len(h) \in Nat /\ \A i \in DOMAIN h : h[i] \in S
    <3>1. n \in Nat /\ h \in Listings(S, n)
      BY <2>3 DEF n
    <3>. QED
      BY <3>1, <2>2, HistoriesAreBounded
  <2>5. Len(h) <= MaxLimit /\ \A i \in DOMAIN h : h[i] \in audit
    BY <2>3, <2>4, <1>1 DEF S, n
  <2>6. TypeOK'
    BY <2>1, <2>5, <1>0, <1>1 DEF TypeOK
  <2>. QED
    BY <2>1, <2>6 DEF RowsExplained, GetExplainsItself, FiguresGrow
<1>. QED
  BY <1>2, <1>3, <1>4, <1>5, <1>6, <1>7 DEF Read

-----------------------------------------------------------------------------
(* The invariant.                                                           *)

LEMMA Initially == Init => IInv
<1>. SUFFICES ASSUME Init PROVE IInv
  OBVIOUS
<1>. USE Ranges, SeedAccounts
<1>1. audit = {} /\ clock = 0 /\ reader.pc = "idle" /\ \A r \in Request : writer[r].pc = "idle"
  BY DEF Init, Idle
<1>2. TypeOK
  BY <1>1 DEF Init, TypeOK, Writer
<1>3. LedgerOK
  <2>1. ledger \in [Code -> Ledger!SeedLedgers]
    BY DEF Init, Ledger!Init
  <2>2. ASSUME NEW l \in Ledger!SeedLedgers PROVE l \in Seq(LedgerEntry)
    <3>1. CASE l = <<>>
      BY <3>1
    <3>2. CASE \E x \in Content : l = <<Ledger!Entry("draft", x, SeedPreparer)>>
      BY <3>2 DEF Ledger!Entry, LedgerEntry
    <3>3. CASE \E p \in Content \X Ledger!SeedDecided :
                 l = <<Ledger!Entry("draft", p[1], SeedPreparer),
                       Ledger!Entry(p[2], p[1], SeedReviewer)>>
      <4>1. PICK p \in Content \X Ledger!SeedDecided :
                   l = <<Ledger!Entry("draft", p[1], SeedPreparer),
                         Ledger!Entry(p[2], p[1], SeedReviewer)>>
        BY <3>3
      <4>2. /\ Ledger!Entry("draft", p[1], SeedPreparer) \in LedgerEntry
            /\ Ledger!Entry(p[2], p[1], SeedReviewer) \in LedgerEntry
        BY DEF Ledger!Entry, LedgerEntry, Ledger!SeedDecided, Ledger!Decided
      <4>. QED
        BY <4>1, <4>2
    <3>. QED
      BY <3>1, <3>2, <3>3 DEF Ledger!SeedLedgers
  <2>. QED
    BY <2>1, <2>2 DEF LedgerOK
<1>4. IsFiniteSet(audit)
  BY <1>1, FS_EmptySet
<1>. QED
  BY <1>1, <1>2, <1>3, <1>4
     DEF IInv, RowsExplained, GetExplainsItself, FiguresGrow, EntriesInRealTime

LEMMA Steps == IInv /\ [Next]_vars => IInv'
<1>. SUFFICES ASSUME IInv, [Next]_vars PROVE IInv'
  OBVIOUS
<1>1. CASE WriterStep
  BY <1>1, WritersKeepReads, WritersKeepRows, WritersKeepTypes, WritersKeepTime DEF IInv
<1>2. CASE Read
  BY <1>2, ReadsKeepTheRest, ReadsKeepReads DEF IInv
<1>3. CASE UNCHANGED vars
  BY <1>3 DEF vars, IInv, TypeOK, LedgerOK, RowsExplained, GetExplainsItself, FiguresGrow,
              EntriesInRealTime, Counted, Answered
<1>. QED
  BY <1>1, <1>2, <1>3 DEF Next, WriterStep

LEMMA Invariance == Spec => []IInv
BY Initially, Steps, PTL DEF Spec

(* Types, and the limits of the history: of every reachable state, for any    *)
(* windows, limits, numbers asked for and clock.                            *)
THEOREM ReadTypes == Spec => []TypeOK
BY Invariance, PTL DEF IInv

(* Whatever commits between the two statements of Get or List, the revisions  *)
(* shown explain the row shown; a final row comes with all of its revisions. *)
THEOREM GetsExplainThemselves == Spec => []GetExplainsItself
BY Invariance, PTL DEF IInv

LEMMA FiguresAgree == IInv => SummaryFigures
<1>. SUFFICES ASSUME IInv, reader.pc = "summary", Len(reader.counted) = Len(Statement)
              PROVE  SummaryFigures
  BY DEF SummaryFigures
<1>. DEFINE C == reader.counted
<1>1. C \in Seq(SUBSET audit) /\ DOMAIN C = 1..5 /\ IsFiniteSet(audit)
  BY DEF IInv, TypeOK, Statement
<1>2. \A i \in 1..5 : C[i] \in SUBSET audit
  BY <1>1
<1>3. \A i \in 1..5 : IsFiniteSet(C[i])
  BY <1>1, <1>2, FS_Subset
<1>4. \A j \in 1..5 : /\ \A i \in 1..j : Kept(Statement[j], C[i]) \subseteq C[j]
                      /\ C[j] \subseteq Counted(Statement[j], reader.since)
  BY <1>1 DEF IInv, FiguresGrow
<1>5. C[1] \subseteq C[3] /\ C[1] \subseteq C[4] /\ C[3] \subseteq C[4] /\ C[4] \subseteq C[5]
      /\ C[2] \subseteq {e \in C[4] : e.action = "transition"}
  BY <1>4 DEF Kept, Statement, Counted
<1>. DEFINE T == {e \in C[4] : e.action = "transition"}
            A == {e.actor : e \in C[3]}
            f == [e \in C[3] |-> e.actor]
<1>6. IsFiniteSet(T)
  BY <1>3, FS_Subset
<1>7. f \in Surjection(C[3], A)
  BY DEF Surjection
<1>. HIDE DEF C, T, A, f
<1>8. /\ Cardinality(C[1]) <= Cardinality(C[4]) /\ Cardinality(C[4]) <= Cardinality(C[5])
      /\ Cardinality(C[2]) <= Cardinality(T) /\ Cardinality(C[3]) <= Cardinality(C[4])
  BY <1>3, <1>5, <1>6, FS_Subset DEF T
<1>9. IsFiniteSet(A) /\ Cardinality(A) <= Cardinality(C[3])
  BY <1>3, <1>7, FS_Surjection
<1>10. \A i \in 1..5 : Cardinality(C[i]) \in Nat
  BY <1>3, FS_CardinalityType
<1>11. Cardinality(A) \in Nat
  BY <1>9, FS_CardinalityType
<1>12. Cardinality(A) = 0 => Cardinality(C[1]) = 0
  <2>1. ASSUME Cardinality(A) = 0 PROVE C[1] = {}
    <3>1. A = {}
      BY <2>1, <1>9, FS_EmptySet
    <3>. QED
      BY <3>1, <1>5 DEF A
  <2>. QED
    BY <2>1, FS_EmptySet
<1>13. Cardinality(A) <= Cardinality(C[4])
  BY <1>8, <1>9, <1>10, <1>11
<1>. QED
  BY <1>8, <1>12, <1>13 DEF SummaryFigures, CountOf, C, T, A

(* The figures of a summary err in one direction, for any log and writers.    *)
THEOREM FiguresAreOrdered == Spec => []SummaryFigures
BY Invariance, FiguresAgree, PTL

(* What is stamped earlier is not listed above, nor in place of, what is      *)
(* stamped later.                                                           *)
LEMMA ListedInOrder ==
    ASSUME NEW S, IsFiniteSet(S), \A e \in S : e.stamp \in Nat,
           NEW n \in Nat, NEW h \in Listings(S, n),
           NEW e \in S, NEW i \in DOMAIN h, h[i].stamp < e.stamp
    PROVE  \E j \in 1..i - 1 : h[j] = e
<1>1. h \in [1..Least(n, Cardinality(S)) -> S] /\ DOMAIN h = 1..Len(h) /\ Len(h) \in Nat
      /\ \A j \in DOMAIN h : h[j] \in S
  BY HistoriesAreBounded
<1>2. \E j \in DOMAIN h : h[j] = e
  <2>1. ~Precedes(h[i], e)
    BY <1>1 DEF Precedes
  <2>. QED
    BY <2>1 DEF Listings
<1>3. PICK j \in DOMAIN h : h[j] = e
  BY <1>2
<1>4. ASSUME i < j PROVE FALSE
  <2>1. Precedes(h[i], h[j])
    BY <1>4 DEF Listings
  <2>. QED
    BY <2>1, <1>1, <1>3 DEF Precedes
<1>5. j # i
  BY <1>1, <1>3
<1>. QED
  BY <1>1, <1>3, <1>4, <1>5

(* Histories come from one statement. *)
LEMMA HistoryStep ==
    ASSUME IInv, Next, reader' # reader, reader'.pc = "history"
    PROVE  \E c \in Code, m \in Asked : EntityHistory(c, m)
<1>1. Read
  BY WritersKeepReads DEF Next, WriterStep
<1>2. ASSUME NEW T, FindRows(T) PROVE FALSE
  BY <1>2 DEF FindRows
<1>3. ASSUME NEW k, StartSummary(k) PROVE FALSE
  BY <1>3 DEF StartSummary
<1>4. ~PreloadRevisions /\ ~NextStatement /\ ~ReadFails
  BY DEF PreloadRevisions, NextStatement, ReadFails
<1>. QED
  BY <1>1, <1>2, <1>3, <1>4 DEF Read

(* The audit history respects real time, for any writers, stamps and limits:   *)
(* newest first by stamp is newest first for those who waited for answers.  *)
THEOREM HistoriesAreInRealTime == Spec => HistoryInRealTime
<1>. DEFINE Ordered ==
       reader'.pc = "history" =>
         \A e \in audit : \A i \in DOMAIN reader'.listed :
            e.code = reader'.code /\ reader'.listed[i].request \in e.earlier =>
                \E j \in 1..i - 1 : reader'.listed[j] = e
<1>1. IInv /\ [Next]_vars => [Ordered]_reader
  <2>. SUFFICES ASSUME IInv, Next, reader' # reader, reader'.pc = "history"
                PROVE  Ordered
    BY DEF vars
  <2>1. PICK c \in Code, m \in Asked : EntityHistory(c, m)
    BY HistoryStep
  <2>. DEFINE S == {e \in audit : e.code = c}
              n == NormalizedLimit(m)
  <2>2. PICK h \in Listings(S, n) : reader' = [pc |-> "history", code |-> c, listed |-> h]
    BY <2>1 DEF EntityHistory
  <2>3. IsFiniteSet(S) /\ n \in Nat /\ S \subseteq audit
    BY Ranges, Limits, FS_Subset DEF IInv, TypeOK
  <2>4. \A e \in audit : e.stamp \in Nat /\ \A f \in audit : f.request \in e.earlier => f.stamp < e.stamp
    BY Ranges DEF IInv, TypeOK, Entry, EntriesInRealTime
  <2>. SUFFICES ASSUME NEW e \in audit, NEW i \in DOMAIN h, e.code = c, h[i].request \in e.earlier
                PROVE  \E j \in 1..i - 1 : h[j] = e
    BY <2>2
  <2>5. e \in S
    OBVIOUS
  <2>. HIDE DEF S, n
  <2>6. h[i] \in S
    BY <2>2, <2>3, HistoriesAreBounded
  <2>7. h[i].stamp < e.stamp
    BY <2>3, <2>4, <2>6
  <2>. QED
    BY <2>2, <2>3, <2>4, <2>5, <2>7, ListedInOrder
<1>. QED
  BY <1>1, Invariance, PTL DEF Spec, HistoryInRealTime

(* Whatever number is asked for, a history is neither empty without cause nor *)
(* longer than MaxLimit, and its limit cuts off the oldest entries           *)
(* (NormalizedLimit, dto/common.go:50-58; EntityHistory, security.go:92-103). *)
THEOREM HistoriesHaveLimits == Spec => HistoryIsBounded
<1>. DEFINE Bounded ==
       reader'.pc = "history" =>
         LET own == {e \in audit : e.code = reader'.code}
         IN /\ Len(reader'.listed) \in Least(1, Cardinality(own))..MaxLimit
            /\ \A e \in own : \A i \in DOMAIN reader'.listed :
                  (\A j \in DOMAIN reader'.listed : reader'.listed[j] # e) =>
                     e.stamp <= reader'.listed[i].stamp
<1>1. IInv /\ [Next]_vars => [Bounded]_reader
  <2>. SUFFICES ASSUME IInv, Next, reader' # reader, reader'.pc = "history"
                PROVE  Bounded
    BY DEF vars
  <2>1. PICK c \in Code, m \in Asked : EntityHistory(c, m)
    BY HistoryStep
  <2>. DEFINE S == {e \in audit : e.code = c}
              n == NormalizedLimit(m)
  <2>2. PICK h \in Listings(S, n) : reader' = [pc |-> "history", code |-> c, listed |-> h]
    BY <2>1 DEF EntityHistory
  <2>3. IsFiniteSet(S) /\ Cardinality(S) \in Nat /\ S \subseteq audit
    BY FS_Subset, FS_CardinalityType DEF IInv
  <2>4. n \in Nat \ {0} /\ n <= MaxLimit
    BY Ranges, Limits DEF IInv, TypeOK
  <2>5. \A e \in audit : e.stamp \in Nat
    BY Ranges DEF IInv, TypeOK, Entry
  <2>. HIDE DEF S, n
  <2>6. /\ Len(h) = Least(n, Cardinality(S)) /\ Len(h) \in Nat /\ Len(h) <= n
        /\ \A i \in DOMAIN h : h[i] \in S
    BY <2>2, <2>3, <2>4, Ranges, HistoriesAreBounded
  <2>7. Len(h) \in Least(1, Cardinality(S))..MaxLimit
    BY <2>3, <2>4, <2>6, Ranges DEF Least
  <2>8. \A e \in S : \A i \in DOMAIN h : (\A j \in DOMAIN h : h[j] # e) => e.stamp <= h[i].stamp
    BY <2>2, <2>3, <2>5, <2>6 DEF Listings, Precedes
  <2>. QED
    BY <2>2, <2>7, <2>8 DEF S
<1>. QED
  BY <1>1, Invariance, PTL DEF Spec, HistoryIsBounded
-----------------------------------------------------------------------------
(* The rules in what is shown.                                              *)

LedgersLawful ==
    \A c \in Code : ledger[c] # <<>> => Lawful(ledger[c], Ledger!Preparer(c))

(* The rows on their way name the first author of their ledger. *)
RowsNamePreparers ==
    reader.pc = "preload" =>
        \A c \in DOMAIN reader.rows :
            c \in Code /\ ledger[c] # <<>> /\ reader.rows[c].preparedBy = Ledger!Preparer(c)

LawInv == IInv /\ LedgersLawful /\ RowsNamePreparers /\ ShownIsLawful

(* A draft of the preparer or an admin, or the decision of another. *)
MayFollow(l, e) ==
    LET last == l[Len(l)]
    IN /\ last.status = "draft"
       /\ \/ e.status = "draft" /\ (e.author = l[1].author \/ RoleOf[e.author] = "admin")
          \/ /\ e.status # "draft" /\ e.author # l[1].author
             /\ RoleOf[e.author] \in {"reviewer", "admin"} /\ e.content = last.content

LEMMA LawfulAppend ==
    ASSUME NEW l \in Seq(LedgerEntry), l # <<>>, Lawful(l, l[1].author),
           NEW e \in LedgerEntry, MayFollow(l, e)
    PROVE  LET m == Append(l, e) IN m # <<>> /\ Lawful(m, m[1].author) /\ m[1] = l[1]
<1>. DEFINE m == Append(l, e)
            n == Len(l)
<1>1. /\ n \in Nat \ {0} /\ DOMAIN l = 1..n /\ DOMAIN m = 1..n+1 /\ Len(m) = n + 1
      /\ m[n + 1] = e /\ \A i \in 1..n : m[i] = l[i]
  OBVIOUS
<1>2. l[n].status = "draft" /\ m[n] = l[n] /\ m[1] = l[1] /\ m # <<>>
  <2>1. l[n].status = "draft"
    BY DEF MayFollow
  <2>2. n \in 1..n /\ 1 \in 1..n
    BY <1>1
  <2>. QED
    BY <1>1, <2>1, <2>2
<1>. HIDE DEF m
<1>3. ASSUME NEW k \in 1..n
      PROVE  m[k].status = "draft" /\ (m[k].author = l[1].author \/ RoleOf[m[k].author] = "admin")
  BY <1>1, <1>2 DEF Lawful
<1>4. \/ m[n + 1].status = "draft"
         /\ (m[n + 1].author = l[1].author \/ RoleOf[m[n + 1].author] = "admin")
      \/ /\ m[n + 1].status # "draft" /\ n + 1 = Len(m) /\ n + 1 > 1
         /\ m[n + 1].author # l[1].author /\ RoleOf[m[n + 1].author] \in {"reviewer", "admin"}
         /\ m[n + 1].content = m[n].content
  BY <1>1, <1>2 DEF MayFollow
<1>5. Lawful(m, l[1].author)
  <2>. SUFFICES ASSUME NEW k \in 1..n+1
                PROVE  \/ /\ m[k].status = "draft"
                          /\ m[k].author = l[1].author \/ RoleOf[m[k].author] = "admin"
                       \/ /\ m[k].status # "draft" /\ k = Len(m) /\ k > 1
                          /\ m[k].author # l[1].author
                          /\ RoleOf[m[k].author] \in {"reviewer", "admin"}
                          /\ m[k].content = m[k - 1].content
    BY <1>1 DEF Lawful
  <2>1. CASE k \in 1..n
    BY <2>1, <1>3
  <2>2. CASE k = n + 1
    <3>1. k - 1 = n
      BY <2>2, <1>1
    <3>. QED
      BY <2>2, <3>1, <1>4
  <2>. QED
    BY <2>1, <2>2, <1>1
<1>. QED
  BY <1>1, <1>2, <1>5 DEF m

LEMMA LawfulOpening ==
    ASSUME NEW e \in LedgerEntry, e.status = "draft"
    PROVE  LET m == Append(<<>>, e) IN m # <<>> /\ Lawful(m, m[1].author)
BY DEF Lawful

(* A lawful entry is added to one ledger; whoever has begun it stays.         *)
Preserves == LedgersLawful' /\ \A c \in Code :
    ledger[c] # <<>> => ledger'[c] # <<>> /\ ledger'[c][1] = ledger[c][1]

LEMMA AddingIsLawful ==
    ASSUME LedgerOK, LedgersLawful, NEW c \in Code, NEW e \in LedgerEntry, Ledger!Add(c, e),
           IF ledger[c] = <<>> THEN e.status = "draft" ELSE MayFollow(ledger[c], e)
    PROVE  Preserves
<1>1. ledger' = [ledger EXCEPT ![c] = Append(@, e)]
  BY DEF Ledger!Add
<1>2. ledger[c] \in Seq(LedgerEntry) /\ ledger'[c] = Append(ledger[c], e)
      /\ \A d \in Code \ {c} : ledger'[d] = ledger[d]
  BY <1>1 DEF LedgerOK
<1>3. ledger[c] # <<>> => Lawful(ledger[c], ledger[c][1].author)
  BY DEF LedgersLawful, Ledger!Preparer
<1>4. /\ ledger'[c] # <<>> /\ Lawful(ledger'[c], ledger'[c][1].author)
      /\ ledger[c] # <<>> => ledger'[c][1] = ledger[c][1]
  <2>1. CASE ledger[c] = <<>>
    BY <2>1, <1>2, LawfulOpening
  <2>2. CASE ledger[c] # <<>>
    BY <2>2, <1>2, <1>3, LawfulAppend
  <2>. QED
    BY <2>1, <2>2
<1>5. ASSUME NEW d \in Code \ {c}, ledger'[d] # <<>>
      PROVE  Lawful(ledger'[d], ledger'[d][1].author)
  BY <1>5, <1>2 DEF LedgersLawful, Ledger!Preparer
<1>. QED
  BY <1>2, <1>4, <1>5 DEF Preserves, LedgersLawful, Ledger!Preparer

LEMMA WritingIsLawful ==
    ASSUME TypeOK, LedgerOK, LedgersLawful, NEW r \in Request, Write(r)
    PROVE  Preserves
<1>1. PICK c \in Code, u \in User :
          \/ \E x \in Content : Ledger!Open(c, u, x)
          \/ \E x \in Content : Ledger!Amend(c, u, x)
          \/ \E s \in Ledger!Decided : Ledger!Decide(c, u, s)
          \/ Ledger!Withdraw(c)
  BY DEF Write
<1>2. ASSUME NEW x \in Content, Ledger!Open(c, u, x) PROVE Preserves
  <2>. DEFINE e == Ledger!Entry("draft", x, u)
  <2>1. e \in LedgerEntry /\ e.status = "draft"
    BY DEF Ledger!Entry, LedgerEntry
  <2>2. ledger[c] = <<>> /\ Ledger!Add(c, e)
    BY <1>2 DEF Ledger!Open
  <2>. HIDE DEF e
  <2>. QED
    BY <2>1, <2>2, AddingIsLawful
<1>3. ASSUME NEW x \in Content, Ledger!Amend(c, u, x) PROVE Preserves
  <2>. DEFINE e == Ledger!Entry("draft", x, u)
  <2>1. e \in LedgerEntry /\ e.status = "draft" /\ e.author = u
    BY DEF Ledger!Entry, LedgerEntry
  <2>2. /\ ledger[c] # <<>> /\ Ledger!Add(c, e) /\ ledger[c][Len(ledger[c])].status = "draft"
        /\ u = ledger[c][1].author \/ RoleOf[u] = "admin"
    BY <1>3 DEF Ledger!Amend, Ledger!IsDraft, Ledger!LastEntry, Ledger!Preparer
  <2>. HIDE DEF e
  <2>3. MayFollow(ledger[c], e)
    BY <2>1, <2>2 DEF MayFollow
  <2>. QED
    BY <2>1, <2>2, <2>3, AddingIsLawful
<1>4. ASSUME NEW s \in Ledger!Decided, Ledger!Decide(c, u, s) PROVE Preserves
  <2>. DEFINE e == Ledger!Entry(s, Ledger!LastEntry(c).content, u)
  <2>1. /\ ledger[c] # <<>> /\ Ledger!Add(c, e) /\ ledger[c][Len(ledger[c])].status = "draft"
        /\ u # ledger[c][1].author /\ RoleOf[u] \in {"reviewer", "admin"}
    BY <1>4 DEF Ledger!Decide, Ledger!IsDraft, Ledger!LastEntry, Ledger!Preparer
  <2>2. Ledger!LastEntry(c) \in LedgerEntry
    BY <2>1 DEF Ledger!LastEntry, LedgerOK
  <2>3. /\ e \in LedgerEntry /\ e.status # "draft" /\ e.author = u
        /\ e.content = ledger[c][Len(ledger[c])].content
    BY <2>2 DEF Ledger!Entry, LedgerEntry, Ledger!Decided, Ledger!LastEntry
  <2>. HIDE DEF e
  <2>4. MayFollow(ledger[c], e)
    BY <2>1, <2>3 DEF MayFollow
  <2>. QED
    BY <2>1, <2>3, <2>4, AddingIsLawful
<1>5. ASSUME Ledger!Withdraw(c) PROVE Preserves
  BY <1>5 DEF Ledger!Withdraw, Preserves, LedgersLawful, Ledger!Preparer
<1>. QED
  BY <1>1, <1>2, <1>3, <1>4, <1>5

LEMMA LawInitially == Init => LawInv
<1>. SUFFICES ASSUME Init PROVE LawInv
  OBVIOUS
<1>1. reader.pc = "idle" /\ ledger \in [Code -> Ledger!SeedLedgers]
  BY DEF Init, Idle, Ledger!Init
<1>2. ASSUME NEW c \in Code, ledger[c] # <<>> PROVE Lawful(ledger[c], ledger[c][1].author)
  <2>1. CASE \E x \in Content : ledger[c] = <<Ledger!Entry("draft", x, SeedPreparer)>>
    BY <2>1 DEF Lawful, Ledger!Entry
  <2>2. CASE \E p \in Content \X Ledger!SeedDecided :
               ledger[c] = <<Ledger!Entry("draft", p[1], SeedPreparer),
                             Ledger!Entry(p[2], p[1], SeedReviewer)>>
    <3>1. PICK p \in Content \X Ledger!SeedDecided :
                 ledger[c] = <<Ledger!Entry("draft", p[1], SeedPreparer),
                               Ledger!Entry(p[2], p[1], SeedReviewer)>>
      BY <2>2
    <3>2. p[2] # "draft" /\ SeedReviewer # SeedPreparer
          /\ RoleOf[SeedReviewer] \in {"reviewer", "admin"}
      BY SeedAccounts DEF Ledger!SeedDecided
    <3>. DEFINE a == Ledger!Entry("draft", p[1], SeedPreparer)
                b == Ledger!Entry(p[2], p[1], SeedReviewer)
    <3>3. /\ a.status = "draft" /\ a.author = SeedPreparer /\ a.content = p[1]
          /\ b.status = p[2] /\ b.author = SeedReviewer /\ b.content = p[1]
      BY DEF Ledger!Entry
    <3>4. ledger[c] = <<a, b>>
      BY <3>1
    <3>. HIDE DEF a, b
    <3>. QED
      BY <3>2, <3>3, <3>4 DEF Lawful
  <2>. QED
    BY <1>1, <1>2, <2>1, <2>2 DEF Ledger!SeedLedgers
<1>. QED
  BY <1>1, <1>2, Initially
     DEF LawInv, LedgersLawful, RowsNamePreparers, ShownIsLawful, Ledger!Preparer

LEMMA LawSteps == LawInv /\ [Next]_vars => LawInv'
<1>. SUFFICES ASSUME LawInv, [Next]_vars PROVE LawInv'
  OBVIOUS
<1>0. IInv /\ IInv' /\ LedgersLawful /\ RowsNamePreparers /\ ShownIsLawful
  BY Steps DEF LawInv
<1>1. CASE WriterStep
  <2>1. Preserves
    <3>1. ASSUME NEW r \in Request, Write(r) PROVE Preserves
      BY <3>1, <1>0, WritingIsLawful DEF IInv
    <3>2. ASSUME UNCHANGED ledger PROVE Preserves
      BY <3>2, <1>0 DEF Preserves, LedgersLawful, Ledger!Preparer
    <3>. QED
      BY <1>1, <3>1, <3>2 DEF WriterStep, Stamp, AppendAudit, AuditFails, Tick
  <2>2. reader' = reader
    BY <1>0, <1>1, WritersKeepReads
  <2>3. RowsNamePreparers' /\ ShownIsLawful'
    BY <1>0, <2>1, <2>2
       DEF RowsNamePreparers, ShownIsLawful, Lawful, Preserves, Ledger!Preparer
  <2>. QED
    BY <1>0, <2>1, <2>3 DEF LawInv, Preserves
<1>2. CASE Read
  <2>1. ledger' = ledger
    BY <1>2 DEF Read, FindRows, PreloadRevisions, StartSummary, NextStatement, ReadFails,
                EntityHistory
  <2>2. LedgersLawful'
    BY <1>0, <2>1 DEF LedgersLawful, Ledger!Preparer
  <2>3. ASSUME NEW S \in SUBSET Code, FindRows(S) PROVE RowsNamePreparers' /\ ShownIsLawful'
    <3>1. reader'.pc = "preload" /\ DOMAIN reader'.rows = {d \in S : Visible(d)}
          /\ \A c \in DOMAIN reader'.rows : reader'.rows[c] = RowOf(c)
      BY <2>3 DEF FindRows
    <3>2. ASSUME NEW c \in DOMAIN reader'.rows
          PROVE  c \in Code /\ ledger[c] # <<>> /\ reader'.rows[c].preparedBy = ledger[c][1].author
      <4>1. c \in Code /\ ledger[c] # <<>> /\ reader'.rows[c] = RowOf(c)
        BY <3>1 DEF Visible
      <4>2. RowOf(c).preparedBy = ledger[c][1].author
        BY DEF RowOf, Ledger!Preparer
      <4>. QED
        BY <4>1, <4>2
    <3>. QED
      BY <3>1, <3>2, <2>1 DEF RowsNamePreparers, ShownIsLawful, Ledger!Preparer
  <2>4. ASSUME PreloadRevisions PROVE RowsNamePreparers' /\ ShownIsLawful'
    <3>1. reader.pc = "preload" /\ reader'.pc = "shown" /\ reader'.rows = reader.rows
          /\ \A c \in DOMAIN reader.rows : reader'.revisions[c] = ledger[c]
      BY <2>4 DEF PreloadRevisions, RevisionsOf
    <3>2. ASSUME NEW c \in DOMAIN reader.rows
          PROVE  Lawful(reader'.revisions[c], reader'.rows[c].preparedBy)
      BY <3>1, <1>0 DEF RowsNamePreparers, LedgersLawful
    <3>. QED
      BY <3>1, <3>2 DEF RowsNamePreparers, ShownIsLawful, Lawful
  <2>5. ASSUME reader'.pc \notin {"preload", "shown"} PROVE RowsNamePreparers' /\ ShownIsLawful'
    BY <2>5 DEF RowsNamePreparers, ShownIsLawful
  <2>6. ASSUME NEW n, NEW c, StartSummary(n) \/ NextStatement \/ ReadFails \/ EntityHistory(c, n)
        PROVE  reader'.pc \notin {"preload", "shown"}
    <3>1. CASE StartSummary(n)
      BY <3>1 DEF StartSummary
    <3>2. CASE NextStatement
      BY <3>2 DEF NextStatement
    <3>3. CASE ReadFails
      BY <3>3 DEF ReadFails
    <3>4. CASE EntityHistory(c, n)
      BY <3>4 DEF EntityHistory
    <3>. QED
      BY <2>6, <3>1, <3>2, <3>3, <3>4
  <2>7. RowsNamePreparers' /\ ShownIsLawful'
    BY <1>2, <2>3, <2>4, <2>5, <2>6 DEF Read
  <2>. QED
    BY <1>0, <2>2, <2>7 DEF LawInv
<1>3. CASE UNCHANGED vars
  BY <1>0, <1>3 DEF vars, LawInv, LedgersLawful, RowsNamePreparers, ShownIsLawful, Lawful,
                    Ledger!Preparer
<1>. QED
  BY <1>1, <1>2, <1>3 DEF Next, WriterStep

(* Whatever requests write between the statements of a read, the revisions    *)
(* shown of a decision prove by themselves that its drafts are those of the  *)
(* preparer or of admins and that one decision closed it, by another who may *)
(* review and on the evidence of the last draft, for any accounts and codes. *)
THEOREM ShownDecisionsAreLawful == Spec => []ShownIsLawful
<1>1. Spec => []LawInv
  BY LawInitially, LawSteps, PTL DEF Spec
<1>2. LawInv => ShownIsLawful
  BY DEF LawInv
<1>. QED
  BY <1>1, <1>2, PTL

=============================================================================
