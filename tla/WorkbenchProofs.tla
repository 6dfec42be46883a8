-------------------------- MODULE WorkbenchProofs --------------------------
(***************************************************************************)
(* Proofs about Workbench, for any number of records, users and requests   *)
(* in flight: what a page shows, offers and sends, against what the        *)
(* backend then holds.                                                     *)
(***************************************************************************)
EXTENDS Workbench, TLAPS

Decisive == Ledger!Decided \cup {"draft"}
Rec == [status : Walk!Status, version : Nat \ {0}, content : Content, deleted : BOOLEAN]
LedgerEntry == [status : Decisive, content : Content, author : User]

ServerOK ==
    /\ record \in [RecordCode -> {NoRow} \cup Rec]
    /\ ledger \in [DecisionCode -> Seq(LedgerEntry)]

-----------------------------------------------------------------------------
(* The backend only moves on.                                               *)

LEMMA GraphsLeadToStatuses ==
    ASSUME NEW kind \in Walk!Kind, NEW s, NEW t, Walk!CanTransition(kind, s, t)
    PROVE  t \in Walk!Status
<1>1. CASE kind = "BridgeAsset"
  BY <1>1 DEF Walk!CanTransition, Walk!Status, Walk!StatusOf, Walk!Kind, Walk!Graph,
              Walk!BridgeAssetTransitions
<1>2. CASE kind = "InspectionRound"
  BY <1>2 DEF Walk!CanTransition, Walk!Status, Walk!StatusOf, Walk!Kind, Walk!Graph,
              Walk!InspectionRoundTransitions
<1>3. CASE kind = "DefectFinding"
  BY <1>3 DEF Walk!CanTransition, Walk!Status, Walk!StatusOf, Walk!Kind, Walk!Graph,
              Walk!DefectFindingTransitions
<1>. QED
  BY <1>1, <1>2, <1>3 DEF Walk!Kind, Walk!Graph

LEMMA InitialStatuses ==
    ASSUME NEW kind \in Walk!Kind
    PROVE  Walk!InitialStatus[kind] \in Walk!Status
<1>1. CASE kind = "BridgeAsset"
  BY <1>1 DEF Walk!InitialStatus, Walk!Status, Walk!StatusOf, Walk!Kind, Walk!Graph,
              Walk!BridgeAssetTransitions
<1>2. CASE kind = "InspectionRound"
  BY <1>2 DEF Walk!InitialStatus, Walk!Status, Walk!StatusOf, Walk!Kind, Walk!Graph,
              Walk!InspectionRoundTransitions
<1>3. CASE kind = "DefectFinding"
  BY <1>3 DEF Walk!InitialStatus, Walk!Status, Walk!StatusOf, Walk!Kind, Walk!Graph,
              Walk!DefectFindingTransitions
<1>. QED
  BY <1>1, <1>2, <1>3 DEF Walk!Kind, Walk!Graph

(* A code keeps its row or gets one of a later version. *)
Advances(c) ==
    ~Unused(c) => /\ ~Unused(c)'
                  /\ RowOf(c)' = RowOf(c) \/ RowOf(c)'.version > RowOf(c).version

LEMMA Versions ==
    ASSUME ServerOK, NEW c \in Code, ~Unused(c)
    PROVE  RowOf(c) \in Row /\ (RowOf(c).preparedBy = NoOne <=> c \in RecordCode)
<1>1. CASE c \in RecordCode
  <2>1. record[c] \in Rec /\ PreparerOf(c) = NoOne
    BY <1>1 DEF ServerOK, Unused, PreparerOf
  <2>. QED
    BY <1>1, <2>1 DEF RowOf, Row, Rec, Decisive
<1>2. CASE c \in DecisionCode
  <2>1. ledger[c] \in Seq(LedgerEntry) /\ ledger[c] # <<>> /\ c \notin RecordCode
    BY <1>2 DEF ServerOK, Unused, DecisionCode
  <2>2. Len(ledger[c]) \in Nat \ {0} /\ ledger[c][Len(ledger[c])] \in LedgerEntry
        /\ ledger[c][1] \in LedgerEntry
    BY <2>1
  <2>3. PreparerOf(c) \in User
    BY <2>1, <2>2 DEF PreparerOf, Ledger!Preparer, LedgerEntry
  <2>. QED
    BY <2>1, <2>2, <2>3, Nobody DEF RowOf, Row, LedgerEntry, Decisive, Ledger!LastEntry
<1>. QED
  BY <1>1, <1>2 DEF DecisionCode

(* The step of a record. *)
WalkStep(c) ==
    \/ \E x \in Content : Walk!Open(c, x) \/ Walk!Edit(c, x)
    \/ \E s \in Walk!Status : Walk!Move(c, s)
    \/ Walk!Remove(c)

LEMMA RecordsAdvance ==
    ASSUME ServerOK, NEW c \in RecordCode, WalkStep(c), UNCHANGED <<ledger, withdrawn>>
    PROVE  ServerOK' /\ \A d \in Code : Advances(d)
<1>0. c \in Code /\ record \in [RecordCode -> {NoRow} \cup Rec]
  BY DEF RecordCode, ServerOK
<1>. DEFINE Later == \/ record'[c].version = record[c].version + 1
                    \/ /\ record'[c].version = record[c].version
                       /\ record'[c].status = record[c].status
                       /\ record'[c].content = record[c].content
            Stepped == /\ record' = [d \in RecordCode |-> record'[d]]
                       /\ \A d \in RecordCode \ {c} : record'[d] = record[d]
                       /\ record'[c] \in Rec /\ (record[c] # NoRow => Later)
<1>1. ASSUME NEW x \in Content, Walk!Open(c, x) PROVE Stepped
  <2>. DEFINE new == Walk!Opened(Walk!InitialStatus[KindOf[c]], x)
  <2>1. KindOf[c] \in Walk!Kind
    BY Kinds, <1>0 DEF RecordCode
  <2>2. new \in Rec
    BY <2>1, InitialStatuses DEF Walk!Opened, Rec
  <2>3. record[c] = NoRow /\ record' = [record EXCEPT ![c] = new]
    BY <1>1 DEF Walk!Open
  <2>. HIDE DEF new
  <2>. QED
    BY <1>0, <2>2, <2>3
<1>2. ASSUME Walk!Alive(c) PROVE record[c] \in Rec /\ record[c].version + 1 \in Nat \ {0}
  BY <1>2, <1>0 DEF Walk!Alive, Rec
<1>3. ASSUME NEW x \in Content, Walk!Edit(c, x) PROVE Stepped
  <2>1. record[c] \in Rec /\ record[c].version + 1 \in Nat \ {0}
    BY <1>2, <1>3 DEF Walk!Edit
  <2>2. record' = [record EXCEPT ![c].content = x, ![c].version = @ + 1]
    BY <1>3 DEF Walk!Edit
  <2>. QED
    BY <1>0, <2>1, <2>2 DEF Rec
<1>4. ASSUME NEW s \in Walk!Status, Walk!Move(c, s) PROVE Stepped
  <2>1. record[c] \in Rec /\ record[c].version + 1 \in Nat \ {0}
    BY <1>2, <1>4 DEF Walk!Move
  <2>2. record' = [record EXCEPT ![c].status = s, ![c].version = @ + 1]
    BY <1>4 DEF Walk!Move
  <2>. QED
    BY <1>0, <2>1, <2>2 DEF Rec
<1>5. ASSUME Walk!Remove(c) PROVE Stepped
  <2>1. record[c] \in Rec
    BY <1>2, <1>5 DEF Walk!Remove
  <2>2. record' = [record EXCEPT ![c].deleted = TRUE]
    BY <1>5 DEF Walk!Remove
  <2>. QED
    BY <1>0, <2>1, <2>2 DEF Rec
<1>6. Stepped
  BY <1>1, <1>3, <1>4, <1>5 DEF WalkStep
<1>7. ServerOK'
  <2>1. \A d \in RecordCode : record'[d] \in {NoRow} \cup Rec
    BY <1>0, <1>6
  <2>. QED
    BY <1>6, <2>1 DEF ServerOK
<1>8. ASSUME NEW d \in Code PROVE Advances(d)
  <2>1. CASE d # c
    BY <1>6, <2>1 DEF Advances, Unused, RowOf, PreparerOf, Ledger!Preparer, Ledger!LastEntry
  <2>2. CASE d = c
    <3>1. ASSUME record[c] # NoRow PROVE record[c] \in Rec
      BY <3>1, <1>0
    <3>. QED
      BY <1>6, <2>2, <3>1, Nothing DEF Advances, Unused, RowOf, PreparerOf, Rec
  <2>. QED
    BY <2>1, <2>2
<1>. QED
  BY <1>7, <1>8
(* The step of a decision. *)
LedgerStep(c) ==
    \/ \E u \in User, x \in Content : Ledger!Open(c, u, x) \/ Ledger!Amend(c, u, x)
    \/ \E u \in User, s \in Ledger!Decided : Ledger!Decide(c, u, s)
    \/ Ledger!Withdraw(c)

LEMMA DecisionsAdvance ==
    ASSUME ServerOK, NEW c \in DecisionCode, LedgerStep(c), UNCHANGED record
    PROVE  ServerOK' /\ \A d \in Code : Advances(d)
<1>0. c \in Code /\ c \notin RecordCode /\ ledger \in [DecisionCode -> Seq(LedgerEntry)]
  BY DEF DecisionCode, ServerOK
<1>. DEFINE Stepped == \/ ledger' = ledger
                       \/ \E e \in LedgerEntry : ledger' = [ledger EXCEPT ![c] = Append(@, e)]
<1>1. ASSUME NEW u \in User, NEW x \in Content, Ledger!Open(c, u, x) \/ Ledger!Amend(c, u, x)
      PROVE  Stepped
  BY <1>1 DEF Ledger!Open, Ledger!Amend, Ledger!Add, Ledger!Entry, LedgerEntry, Decisive
<1>2. ASSUME NEW u \in User, NEW s \in Ledger!Decided, Ledger!Decide(c, u, s) PROVE Stepped
  <2>1. ledger[c] \in Seq(LedgerEntry) /\ ledger[c] # <<>>
    BY <1>0, <1>2 DEF Ledger!Decide, Ledger!IsDraft
  <2>2. Ledger!LastEntry(c) \in LedgerEntry
    BY <2>1 DEF Ledger!LastEntry
  <2>. QED
    BY <1>2, <2>2 DEF Ledger!Decide, Ledger!Add, Ledger!Entry, LedgerEntry, Decisive
<1>3. Stepped
  BY <1>1, <1>2 DEF LedgerStep, Ledger!Withdraw
<1>4. CASE ledger' = ledger
  BY <1>4 DEF ServerOK, Advances, Unused, RowOf, PreparerOf, Ledger!Preparer, Ledger!LastEntry
<1>5. ASSUME NEW e \in LedgerEntry, ledger' = [ledger EXCEPT ![c] = Append(@, e)]
      PROVE  ServerOK' /\ \A d \in Code : Advances(d)
  <2>1. ledger[c] \in Seq(LedgerEntry) /\ ledger'[c] = Append(ledger[c], e)
    BY <1>0, <1>5
  <2>2. ledger'[c] \in Seq(LedgerEntry) /\ Len(ledger'[c]) = Len(ledger[c]) + 1
        /\ Len(ledger[c]) \in Nat /\ ledger'[c] # <<>>
    BY <2>1
  <2>3. ServerOK'
    BY <1>0, <1>5, <2>2 DEF ServerOK
  <2>4. ASSUME NEW d \in Code PROVE Advances(d)
    <3>1. CASE d # c
      BY <1>5, <1>0, <3>1
         DEF Advances, Unused, RowOf, PreparerOf, Ledger!Preparer, Ledger!LastEntry, DecisionCode
    <3>2. CASE d = c
      BY <1>0, <2>2, <3>2 DEF Advances, Unused, RowOf
    <3>. QED
      BY <3>1, <3>2
  <2>. QED
    BY <2>3, <2>4
<1>. QED
  BY <1>3, <1>4, <1>5

(* An accepted move ends the version that it started from. *)
Outrun(c, v) == ~Unused(c) /\ RowOf(c).version > v

LEMMA EffectsOutrun ==
    ASSUME ServerOK, NEW token, NEW item, item.code \in Code,
           Accepts(token, item), Effect(token, item)
    PROVE  /\ ServerOK' /\ \A d \in Code : Advances(d)
           /\ Outrun(item.code, item.row.version)'
<1>. DEFINE c == item.code
<1>1. CASE c \in RecordCode
  <2>1. KindOf[c] \in Walk!Kind
    BY <1>1, Kinds DEF RecordCode
  <2>2. /\ Walk!Move(c, item.target) /\ UNCHANGED <<ledger, withdrawn>>
        /\ item.target \in Walk!Status
    BY <1>1, <2>1, GraphsLeadToStatuses DEF Accepts, Effect
  <2>3. WalkStep(c)
    BY <2>2 DEF WalkStep
  <2>4. ServerOK' /\ \A d \in Code : Advances(d)
    BY <1>1, <2>2, <2>3, RecordsAdvance
  <2>5. record[c] \in Rec /\ record[c] # NoRow
    BY <1>1, <2>2 DEF ServerOK, Walk!Move, Walk!Alive
  <2>6. /\ record'[c].version = record[c].version + 1 /\ record'[c] # NoRow
        /\ record[c].version \in Nat
    <3>1. record'[c] = [record[c] EXCEPT !.status = item.target, !.version = @ + 1]
      BY <1>1, <2>2 DEF ServerOK, Walk!Move
    <3>2. record[c].version + 1 \in Nat \ {0} /\ record[c].version \in Nat
      BY <2>5 DEF Rec
    <3>3. record'[c] \in Rec /\ record'[c].version = record[c].version + 1
      BY <3>1, <3>2, <2>2, <2>5 DEF Rec
    <3>. QED
      BY <3>2, <3>3, Nothing DEF Rec
  <2>7. RowOf(c).version = item.row.version
    BY <1>1 DEF Accepts
  <2>8. Outrun(c, item.row.version)'
    BY <1>1, <2>6, <2>7 DEF Outrun, Unused, RowOf
  <2>. QED
    BY <2>4, <2>8
<1>2. CASE c \in DecisionCode
  <2>1. /\ Ledger!Decide(c, token, item.target) /\ UNCHANGED record
        /\ token \in User /\ item.target \in Ledger!Decided /\ c \notin RecordCode
    BY <1>2 DEF Accepts, Effect, DecisionCode
  <2>2. LedgerStep(c)
    BY <2>1 DEF LedgerStep
  <2>3. ServerOK' /\ \A d \in Code : Advances(d)
    BY <1>2, <2>1, <2>2, DecisionsAdvance
  <2>4. ledger[c] \in Seq(LedgerEntry)
    BY <1>2 DEF ServerOK
  <2>5. Ledger!LastEntry(c) \in LedgerEntry
    BY <2>1, <2>4 DEF Ledger!Decide, Ledger!IsDraft, Ledger!LastEntry
  <2>6. Len(ledger'[c]) = Len(ledger[c]) + 1 /\ Len(ledger[c]) \in Nat /\ ledger'[c] # <<>>
    <3>. DEFINE e == Ledger!Entry(item.target, Ledger!LastEntry(c).content, token)
    <3>1. e \in LedgerEntry
      BY <2>1, <2>5 DEF Ledger!Entry, LedgerEntry, Decisive
    <3>2. ledger'[c] = Append(ledger[c], e)
      BY <1>2, <2>1 DEF Ledger!Decide, Ledger!Add, ServerOK
    <3>3. \E x \in LedgerEntry : ledger'[c] = Append(ledger[c], x)
      BY <3>1, <3>2
    <3>. HIDE DEF e, c
    <3>. QED
      BY <3>3, <2>4
  <2>7. Len(ledger[c]) = item.row.version
    BY <1>2, <2>1 DEF Accepts, RowOf
  <2>8. Outrun(c, item.row.version)'
    BY <2>1, <2>6, <2>7 DEF Outrun, Unused, RowOf
  <2>. QED
    BY <2>3, <2>8
<1>. QED
  BY <1>1, <1>2 DEF DecisionCode

-----------------------------------------------------------------------------
(* What the page, its dialog and its requests know stays true.              *)

Seen(c, row) == IsRow(c, row) /\ IsPastOrPresent(c, row)

Offered(item) == Seen(item.code, item.row) /\ item.target \in targetsFor(item.row)

Ended(after) ==
    \A i \in DOMAIN after : /\ after[i].code \in Code /\ after[i].version \in Nat
                            /\ Outrun(after[i].code, after[i].version)

Shows(rows, after) ==
    /\ \A c \in DOMAIN rows : Seen(c, rows[c])
    /\ \A i \in DOMAIN after :
          after[i].code \in DOMAIN rows => rows[after[i].code].version > after[i].version

(* The request r, by how far it has come. *)
SentLoad(r) == r.what = "load" /\ Ended(r.after)
SentMove(r) == r.what = "move" /\ Offered(r.item)
SentCreate(r) == r.what = "create" /\ r.code \in OnPage /\ canAtLeast("operator")

Asked(r) == /\ r.pc = "sent" /\ r.token \in User \cup {NoOne}
            /\ SentLoad(r) \/ SentMove(r) \/ SentCreate(r)

LoadDone(r) == r.what = "load" /\ Ended(r.after) /\ Shows(r.rows, r.after)
MoveDone(r) == /\ r.what = "move" /\ Offered(r.item)
               /\ Outrun(r.item.code, r.item.row.version)
CreateDone(r) == r.what = "create"

Answered(r) == r.pc = "answered" /\ (LoadDone(r) \/ MoveDone(r) \/ CreateDone(r))

IsRequest(r) == r = Free \/ Asked(r) \/ Answered(r) \/ r.pc = "failed"

(* The backend has moved on, and the page is who it was. *)
MovesOn == /\ ServerOK /\ ServerOK' /\ UNCHANGED local
           /\ \A c \in Code : Advances(c)

LEMMA VersionsNext ==
    \A c \in Code : ServerOK' /\ ~Unused(c)' => RowOf(c)' \in Row
<1>. DEFINE P == \A c \in Code : ServerOK /\ ~Unused(c) => RowOf(c) \in Row
<1>1. P
  BY Versions
<1>. HIDE DEF P
<1>2. P'
  BY <1>1, PTL
<1>. QED
  BY <1>2 DEF P

LEMMA OutrunLasts ==
    ASSUME MovesOn, NEW c \in Code, NEW v \in Nat, Outrun(c, v)
    PROVE  Outrun(c, v)'
<1>1. ~Unused(c)' /\ (RowOf(c)' = RowOf(c) \/ RowOf(c)'.version > RowOf(c).version)
  BY DEF MovesOn, Outrun, Advances
<1>2. RowOf(c).version \in Nat
  BY Versions DEF MovesOn, Outrun, Row
<1>3. RowOf(c)'.version \in Nat
  BY <1>1, VersionsNext DEF MovesOn, Row
<1>. QED
  BY <1>1, <1>2, <1>3 DEF Outrun

LEMMA SeenLasts ==
    ASSUME MovesOn, NEW c \in Code, NEW row, Seen(c, row)
    PROVE  Seen(c, row)'
<1>1. ~Unused(c)' /\ (RowOf(c)' = RowOf(c) \/ RowOf(c)'.version > RowOf(c).version)
  BY DEF MovesOn, Seen, IsPastOrPresent, Advances
<1>2. row.version \in Nat /\ RowOf(c).version \in Nat /\ RowOf(c)'.version \in Nat
  BY <1>1, Versions, VersionsNext DEF MovesOn, Seen, IsPastOrPresent, IsRow, Row
<1>3. IsRow(c, row)'
  BY DEF MovesOn, Seen, IsRow, OnPage, local
<1>4. IsPastOrPresent(c, row)'
  BY <1>1, <1>2 DEF Seen, IsPastOrPresent
<1>. QED
  BY <1>3, <1>4 DEF Seen

LEMMA OfferedLasts ==
    ASSUME MovesOn, NEW item, Offered(item)
    PROVE  Offered(item)'
<1>1. item.code \in Code /\ Seen(item.code, item.row)
  BY DEF Offered, Seen, IsRow, OnPage
<1>2. Seen(item.code, item.row)'
  BY <1>1, SeenLasts
<1>3. targetsFor(item.row)' = targetsFor(item.row)
  BY DEF MovesOn, targetsFor, offeredTo, local
<1>. QED
  BY <1>2, <1>3 DEF Offered

LEMMA EndedLasts ==
    ASSUME MovesOn, NEW after, Ended(after)
    PROVE  Ended(after)'
BY OutrunLasts DEF Ended

LEMMA ShowsLasts ==
    ASSUME MovesOn, NEW rows, NEW after, Shows(rows, after)
    PROVE  Shows(rows, after)'
<1>1. ASSUME NEW c \in DOMAIN rows PROVE Seen(c, rows[c])'
  <2>1. c \in Code /\ Seen(c, rows[c])
    BY <1>1 DEF Shows, Seen, IsRow, OnPage
  <2>. QED
    BY <2>1, SeenLasts
<1>. QED
  BY <1>1 DEF Shows

LEMMA RequestLasts ==
    ASSUME MovesOn, NEW r, IsRequest(r)
    PROVE  IsRequest(r)'
<1>1. CASE Asked(r)
  <2>1. SentLoad(r) => SentLoad(r)'
    BY EndedLasts DEF SentLoad
  <2>2. SentMove(r) => SentMove(r)'
    BY OfferedLasts DEF SentMove
  <2>3. SentCreate(r) => SentCreate(r)'
    BY DEF SentCreate, MovesOn, OnPage, canAtLeast, local
  <2>. QED
    BY <1>1, <2>1, <2>2, <2>3 DEF Asked, IsRequest
<1>2. CASE Answered(r)
  <2>1. LoadDone(r) => LoadDone(r)'
    BY EndedLasts, ShowsLasts DEF LoadDone
  <2>2. MoveDone(r) => MoveDone(r)'
    <3>. SUFFICES ASSUME MoveDone(r) PROVE MoveDone(r)'
      OBVIOUS
    <3>1. /\ Offered(r.item) /\ r.what = "move" /\ Outrun(r.item.code, r.item.row.version)
          /\ r.item.code \in Code /\ r.item.row.version \in Nat
      BY DEF MoveDone, Offered, Seen, IsRow, OnPage, Row
    <3>2. Offered(r.item)' /\ Outrun(r.item.code, r.item.row.version)'
      BY <3>1, OfferedLasts, OutrunLasts
    <3>. QED
      BY <3>1, <3>2 DEF MoveDone
  <2>3. CreateDone(r) => CreateDone(r)'
    BY DEF CreateDone
  <2>. QED
    BY <1>2, <2>1, <2>2, <2>3 DEF Answered, IsRequest
<1>. QED
  BY <1>1, <1>2 DEF IsRequest, Free

-----------------------------------------------------------------------------
(* The inductive invariant.                                                 *)

PageOK == /\ page \in DOMAIN transitions /\ session \in User
          /\ stored \in User \cup {NoOne} /\ loading \in BOOLEAN

ItemsOK == \A c \in DOMAIN items : Seen(c, items[c])

DialogOK == pending = <<>> \/ (pending = <<pending[1]>> /\ Offered(pending[1]))

CallsOK == /\ call = [k \in Call |-> call[k]]
           /\ \A k \in Call : IsRequest(call[k])

(* A list that none has overtaken is not older than the one on the page. *)
FreshLists ==
    \A k \in Call : HasRows(k) /\ ~call[k].overtaken =>
        \A c \in DOMAIN call[k].rows \cap DOMAIN items :
            call[k].rows[c].version >= items[c].version

IInv == ServerOK /\ PageOK /\ ItemsOK /\ DialogOK /\ CallsOK /\ FreshLists

LEMMA StandsStill ==
    ASSUME ServerOK, UNCHANGED <<server, local>>
    PROVE  MovesOn
<1>1. UNCHANGED <<record, ledger, withdrawn>>
  BY DEF server
<1>2. ASSUME NEW c \in Code PROVE Advances(c)
  BY <1>1 DEF Advances, Unused, RowOf, PreparerOf, Ledger!Preparer, Ledger!LastEntry
<1>3. ServerOK'
  BY <1>1 DEF ServerOK
<1>. QED
  BY <1>2, <1>3 DEF MovesOn

LEMMA KnowledgeLasts ==
    ASSUME IInv, MovesOn
    PROVE  /\ items' = items => ItemsOK'
           /\ pending' = pending => DialogOK'
           /\ \A k \in Call : call'[k] = call[k] => IsRequest(call[k])'
<1>1. ASSUME items' = items PROVE ItemsOK'
  <2>1. ASSUME NEW c \in DOMAIN items PROVE Seen(c, items[c])'
    <3>1. c \in Code /\ Seen(c, items[c])
      BY DEF IInv, ItemsOK, Seen, IsRow, OnPage
    <3>. QED
      BY <1>1, <3>1, SeenLasts
  <2>. QED
    BY <1>1, <2>1 DEF ItemsOK
<1>2. ASSUME pending' = pending PROVE DialogOK'
  BY <1>2, OfferedLasts DEF IInv, DialogOK
<1>3. ASSUME NEW k \in Call, call'[k] = call[k] PROVE IsRequest(call[k])'
  BY <1>3, RequestLasts DEF IInv, CallsOK
<1>. QED
  BY <1>1, <1>2, <1>3

(* One request takes a step, and shows nothing. *)
LEMMA OneRequest ==
    ASSUME IInv, MovesOn, NEW k \in Call, NEW r, call' = [call EXCEPT ![k] = r],
           IsRequest(call[k])', items' = items,
           ~HasRows(k)' \/ \A c \in DOMAIN r.rows \cap DOMAIN items : r.rows[c].version >= items[c].version
    PROVE  CallsOK' /\ FreshLists' /\ ItemsOK'
<1>1. call' = [l \in Call |-> call'[l]] /\ \A l \in Call \ {k} : call'[l] = call[l]
  BY DEF IInv, CallsOK
<1>2. call'[k] = r
  BY DEF IInv, CallsOK
<1>3. CallsOK'
  <2>1. ASSUME NEW l \in Call PROVE IsRequest(call[l])'
    BY <1>1, KnowledgeLasts
  <2>. QED
    BY <1>1, <2>1 DEF CallsOK
<1>4. FreshLists'
  BY <1>1, <1>2 DEF IInv, FreshLists, HasRows
<1>. QED
  BY <1>3, <1>4, KnowledgeLasts

-----------------------------------------------------------------------------
(* Each action preserves it.                                                *)

(* What a click sends is a request. *)
LEMMA Sending ==
    ASSUME IInv, NEW k \in Call, NEW r, Send(k, r), Asked(r)',
           UNCHANGED <<server, local, stored, items, pending>>
    PROVE  IInv'
<1>1. MovesOn
  BY StandsStill DEF IInv
<1>2. call' = [call EXCEPT ![k] = r] /\ loading' = TRUE
  BY DEF Send
<1>3. call'[k] = r
  BY <1>2 DEF IInv, CallsOK
<1>4. IsRequest(call[k])' /\ ~HasRows(k)'
  BY <1>3 DEF IsRequest, Asked, HasRows
<1>5. CallsOK' /\ FreshLists' /\ ItemsOK'
  BY <1>1, <1>2, <1>4, OneRequest
<1>6. DialogOK' /\ PageOK'
  BY <1>1, <1>2, KnowledgeLasts DEF IInv, PageOK, local
<1>. QED
  BY <1>1, <1>5, <1>6 DEF IInv, MovesOn

LEMMA LoadStep ==
    ASSUME IInv, NEW k \in Call, Load(k) PROVE IInv'
<1>1. Asked(LoadCall(<<>>))'
  BY DEF Load, LoadCall, Asked, SentLoad, Ended, IInv, PageOK
<1>. QED
  BY <1>1, Sending DEF Load, LoadCall

LEMMA OpenStep ==
    ASSUME IInv, NEW c \in DOMAIN items, OpenDialog(c) PROVE IInv'
<1>1. MovesOn
  BY StandsStill DEF IInv, OpenDialog
<1>2. PICK item : pending' = <<item>> /\ Offered(item)
  <2>1. PICK s \in targetsFor(items[c]) :
           pending' = <<[code |-> c, row |-> items[c], target |-> s]>>
    BY DEF OpenDialog
  <2>2. Offered([code |-> c, row |-> items[c], target |-> s])
    BY DEF Offered, IInv, ItemsOK
  <2>. QED
    BY <2>1, <2>2
<1>4. Offered(item)'
  BY <1>1, <1>2, OfferedLasts
<1>5. DialogOK'
  BY <1>2, <1>4 DEF DialogOK
<1>6. ItemsOK' /\ CallsOK'
  BY <1>1, KnowledgeLasts DEF IInv, CallsOK, OpenDialog
<1>7. FreshLists' /\ PageOK'
  BY DEF IInv, FreshLists, HasRows, PageOK, OpenDialog, local
<1>. QED
  BY <1>1, <1>5, <1>6, <1>7 DEF IInv, MovesOn

LEMMA CloseStep ==
    ASSUME IInv, CloseDialog PROVE IInv'
<1>1. MovesOn
  BY StandsStill DEF IInv, CloseDialog
<1>2. ItemsOK' /\ CallsOK'
  BY <1>1, KnowledgeLasts DEF IInv, CallsOK, CloseDialog
<1>3. FreshLists' /\ PageOK' /\ DialogOK'
  BY DEF IInv, FreshLists, HasRows, PageOK, CloseDialog, local, DialogOK
<1>. QED
  BY <1>1, <1>2, <1>3 DEF IInv, MovesOn

LEMMA ConfirmStep ==
    ASSUME IInv, NEW k \in Call, confirmTransition(k) PROVE IInv'
<1>1. MovesOn /\ UNCHANGED <<server, local, stored, items, pending>>
  BY StandsStill DEF IInv, confirmTransition
<1>2. PICK item : item = pending[1]
  OBVIOUS
<1>3. PICK r : r = [pc |-> "sent", what |-> "move", token |-> stored, item |-> item]
  OBVIOUS
<1>4. Send(k, r) /\ Offered(item)
  BY <1>2, <1>3 DEF IInv, DialogOK, confirmTransition, Confirmed
<1>5. Offered(item)'
  BY <1>1, <1>4, OfferedLasts
<1>6. Asked(r)'
  BY <1>1, <1>3, <1>5 DEF Asked, SentMove, IInv, PageOK
<1>. QED
  BY <1>1, <1>4, <1>6, Sending

LEMMA CreateStep ==
    ASSUME IInv, NEW k \in Call, NEW c \in OnPage, createDemo(k, c) PROVE IInv'
<1>1. UNCHANGED <<server, local, stored, items, pending>>
  BY DEF createDemo
<1>2. PICK r : r = [pc |-> "sent", what |-> "create", token |-> stored, code |-> c]
  OBVIOUS
<1>3. Send(k, r)
  BY <1>2 DEF createDemo
<1>4. Asked(r)'
  BY <1>1, <1>2 DEF createDemo, Asked, SentCreate, IInv, PageOK, OnPage, canAtLeast, local
<1>. QED
  BY <1>1, <1>3, <1>4, Sending

(* The backend has moved on and one request has come further. *)
LEMMA Answering ==
    ASSUME IInv, MovesOn, NEW k \in Call, NEW r, Answer(k, r), IsRequest(r)',
           r.pc = "answered" /\ r.what = "load" =>
               \A c \in DOMAIN r.rows \cap DOMAIN items : r.rows[c].version >= items[c].version,
           UNCHANGED <<local, stored, items, loading, pending>>
    PROVE  IInv'
<1>1. call' = [call EXCEPT ![k] = r] /\ call'[k] = r
  BY DEF IInv, CallsOK, Answer
<1>2. CallsOK' /\ FreshLists' /\ ItemsOK'
  BY <1>1, OneRequest DEF HasRows
<1>3. DialogOK' /\ PageOK'
  BY KnowledgeLasts DEF IInv, PageOK, local
<1>. QED
  BY <1>2, <1>3 DEF IInv, MovesOn

LEMMA Failing ==
    ASSUME IInv, MovesOn, NEW k \in Call, Fail(k),
           UNCHANGED <<local, stored, items, loading, pending>>
    PROVE  IInv'
<1>1. PICK r : Answer(k, r) /\ r.pc = "failed"
  BY DEF Fail
<1>2. IsRequest(r)'
  BY <1>1 DEF IsRequest
<1>. QED
  BY <1>1, <1>2, Answering

LEMMA MoveStep ==
    ASSUME IInv, NEW k \in Call, call[k].pc = "sent", ServeMove(k),
           UNCHANGED <<local, stored, items, loading, pending>>
    PROVE  IInv'
<1>1. PICK r : r = call[k]
  OBVIOUS
<1>2. Offered(r.item) /\ r.item.code \in Code
  BY <1>1 DEF ServeMove, IInv, CallsOK, IsRequest, Free, Asked, SentLoad, SentMove, SentCreate,
              Answered, Offered, Seen, IsRow, OnPage
<1>3. CASE Accepts(r.token, r.item)
  <2>1. Effect(r.token, r.item)
    BY <1>1, <1>3 DEF ServeMove
  <2>2. MovesOn /\ Outrun(r.item.code, r.item.row.version)'
    BY <1>2, <1>3, <2>1, EffectsOutrun DEF MovesOn, IInv
  <2>3. Offered(r.item)'
    BY <1>2, <2>2, OfferedLasts
  <2>4. PICK s : s = [pc |-> "answered", what |-> "move", item |-> r.item]
    OBVIOUS
  <2>5. Answer(k, s)
    BY <1>1, <1>3, <2>4 DEF ServeMove
  <2>6. IsRequest(s)'
    BY <2>2, <2>3, <2>4 DEF IsRequest, Answered, MoveDone
  <2>. QED
    BY <2>2, <2>4, <2>5, <2>6, Answering
<1>4. CASE ~Accepts(r.token, r.item)
  BY <1>1, <1>4, StandsStill, Failing DEF ServeMove, IInv
<1>. QED
  BY <1>3, <1>4

LEMMA CreatedStep ==
    ASSUME IInv, NEW k \in Call, call[k].pc = "sent", ServeCreate(k),
           UNCHANGED <<local, stored, items, loading, pending>>
    PROVE  IInv'
<1>1. PICK r : r = call[k]
  OBVIOUS
<1>2. r.code \in Code
  BY <1>1 DEF ServeCreate, IInv, CallsOK, IsRequest, Free, Asked, SentLoad, SentMove, SentCreate,
              Answered, OnPage
<1>3. CASE AcceptsNew(r.token, r.code)
  <2>1. r.token \in User
    BY <1>3 DEF AcceptsNew
  <2>2. PICK x \in Content :
           IF r.code \in RecordCode
           THEN Walk!Open(r.code, x) /\ UNCHANGED <<ledger, withdrawn>>
           ELSE Ledger!Open(r.code, r.token, x) /\ UNCHANGED record
    BY <1>1, <1>3 DEF ServeCreate
  <2>3. MovesOn
    <3>1. CASE r.code \in RecordCode
      <4>1. WalkStep(r.code)
        BY <2>2, <3>1 DEF WalkStep
      <4>. QED
        BY <2>2, <3>1, <4>1, RecordsAdvance DEF IInv, MovesOn
    <3>2. CASE r.code \in DecisionCode
      <4>1. LedgerStep(r.code) /\ UNCHANGED record
        BY <2>1, <2>2, <3>2 DEF LedgerStep, DecisionCode
      <4>. QED
        BY <3>2, <4>1, DecisionsAdvance DEF IInv, MovesOn
    <3>. QED
      BY <1>2, <3>1, <3>2 DEF DecisionCode
  <2>4. PICK s : s = [pc |-> "answered", what |-> "create"]
    OBVIOUS
  <2>5. Answer(k, s)
    BY <1>1, <1>3, <2>4 DEF ServeCreate
  <2>6. IsRequest(s)'
    BY <2>4 DEF IsRequest, Answered, CreateDone
  <2>. QED
    BY <2>3, <2>4, <2>5, <2>6, Answering
<1>4. CASE ~AcceptsNew(r.token, r.code)
  BY <1>1, <1>4, StandsStill, Failing DEF ServeCreate, IInv
<1>. QED
  BY <1>3, <1>4

LEMMA LoadedStep ==
    ASSUME IInv, NEW k \in Call, call[k].pc = "sent", ServeLoad(k),
           UNCHANGED <<local, stored, items, loading, pending>>
    PROVE  IInv'
<1>1. MovesOn
  BY StandsStill DEF IInv, ServeLoad
<1>2. PICK after : after = call[k].after
  OBVIOUS
<1>3. PICK found \in SUBSET Listed : Answer(k, Loaded(after, [c \in found |-> RowOf(c)], FALSE))
  BY <1>2 DEF ServeLoad
<1>4. PICK rows : rows = [c \in found |-> RowOf(c)]
  OBVIOUS
<1>5. Ended(after)
  BY <1>2 DEF ServeLoad, IInv, CallsOK, IsRequest, Free, Asked, SentLoad, SentMove, SentCreate,
              Answered
<1>6. ASSUME NEW c \in found PROVE /\ c \in OnPage /\ c \in Code /\ ~Unused(c)
                                   /\ RowOf(c) \in Row /\ Seen(c, RowOf(c))
  <2>1. c \in OnPage /\ c \in Code /\ Exists(c)
    BY <1>6 DEF Listed, OnPage
  <2>2. ~Unused(c)
    BY <2>1 DEF Exists, Unused, Walk!Alive
  <2>3. RowOf(c) \in Row /\ (RowOf(c).preparedBy = NoOne <=> c \in RecordCode)
    BY <2>1, <2>2, Versions DEF IInv
  <2>4. RowOf(c).version <= RowOf(c).version
    BY <2>3 DEF Row
  <2>. QED
    BY <2>1, <2>2, <2>3, <2>4 DEF Seen, IsRow, IsPastOrPresent
<1>7. Shows(rows, after)
  BY <1>4, <1>5, <1>6 DEF Shows, Ended, Outrun
<1>8. Ended(after)' /\ Shows(rows, after)'
  BY <1>1, <1>5, <1>7, EndedLasts, ShowsLasts
<1>9. PICK r : r = Loaded(after, rows, FALSE)
  OBVIOUS
<1>10. Answer(k, r)
  BY <1>3, <1>4, <1>9
<1>11. IsRequest(r)'
  BY <1>8, <1>9 DEF IsRequest, Answered, LoadDone, Loaded
<1>12. \A c \in DOMAIN r.rows \cap DOMAIN items : r.rows[c].version >= items[c].version
  BY <1>4, <1>6, <1>9 DEF Loaded, IInv, ItemsOK, Seen, IsRow, IsPastOrPresent, Row
<1>. QED
  BY <1>1, <1>10, <1>11, <1>12, Answering

LEMMA FailStep ==
    ASSUME IInv, NEW k \in Call, CallFails(k) PROVE IInv'
BY StandsStill, Failing DEF CallFails, IInv

LEMMA ShowStep ==
    ASSUME IInv, NEW k \in Call, ShowRows(k) PROVE IInv'
<1>1. MovesOn
  BY StandsStill DEF IInv, ShowRows
<1>2. /\ call[k].pc = "answered" /\ call[k].what = "load" /\ IsRequest(call[k])
      /\ call = [l \in Call |-> call[l]]
  BY DEF ShowRows, HasRows, IInv, CallsOK
<1>3. PICK rows : rows = call[k].rows
  OBVIOUS
<1>4. PICK after : after = call[k].after
  OBVIOUS
<1>5. Shows(rows, after)
  BY <1>2, <1>3, <1>4
     DEF IsRequest, Free, Asked, Answered, LoadDone, MoveDone, CreateDone
<1>6. items' = rows /\ Shows(rows, after)'
  BY <1>1, <1>3, <1>5, ShowsLasts DEF ShowRows
<1>7. ItemsOK'
  BY <1>6 DEF ItemsOK, Shows
<1>8. call' = [[l \in Call |-> IF HasRows(l) THEN Loaded(call[l].after, call[l].rows, TRUE)
                               ELSE call[l]] EXCEPT ![k] = Free]
  BY DEF ShowRows, Finish
<1>9. ASSUME NEW l \in Call PROVE IsRequest(call[l])' /\ (HasRows(l)' => call'[l].overtaken)
  <2>1. CASE l = k
    BY <1>8, <2>1 DEF IsRequest, Free, HasRows
  <2>2. CASE l # k /\ ~HasRows(l)
    <3>1. call'[l] = call[l]
      BY <1>8, <2>2
    <3>. QED
      BY <1>1, <2>2, <3>1, KnowledgeLasts DEF HasRows
  <2>3. CASE l # k /\ HasRows(l)
    <3>1. PICK r : r = call[l]
      OBVIOUS
    <3>2. PICK s : s = Loaded(r.after, r.rows, TRUE)
      OBVIOUS
    <3>3. call'[l] = s
      BY <1>8, <2>3, <3>1, <3>2
    <3>4. IsRequest(r)' /\ r.pc = "answered" /\ r.what = "load"
      BY <1>1, <2>3, <3>1, RequestLasts DEF HasRows, IInv, CallsOK
    <3>5. LoadDone(r)'
      BY <3>4 DEF IsRequest, Free, Asked, Answered, LoadDone, MoveDone, CreateDone
    <3>6. IsRequest(s)' /\ s.overtaken
      BY <3>2, <3>5 DEF IsRequest, Answered, LoadDone, Loaded
    <3>. QED
      BY <3>3, <3>6
  <2>. QED
    BY <2>1, <2>2, <2>3
<1>10. CallsOK' /\ FreshLists'
  BY <1>8, <1>9 DEF CallsOK, FreshLists
<1>11. DialogOK'
  BY <1>1, KnowledgeLasts DEF ShowRows, DialogOK
<1>12. PageOK'
  BY DEF IInv, PageOK, ShowRows, local
<1>. QED
  BY <1>1, <1>7, <1>10, <1>11, <1>12 DEF IInv, MovesOn

LEMMA AgainStep ==
    ASSUME IInv, NEW k \in Call, LoadAgain(k) PROVE IInv'
<1>1. MovesOn
  BY StandsStill DEF IInv, LoadAgain
<1>2. PICK r : r = call[k]
  OBVIOUS
<1>3. IsRequest(r)' /\ r.pc = "answered" /\ r.what # "load"
  BY <1>1, <1>2, RequestLasts DEF IInv, CallsOK, LoadAgain
<1>4. PICK moved : moved = IF r.what = "move"
                           THEN <<[code |-> r.item.code, version |-> r.item.row.version]>>
                           ELSE <<>>
  OBVIOUS
<1>5. Ended(moved)'
  <2>1. CASE r.what = "move"
    <3>1. MoveDone(r)'
      BY <1>3, <2>1 DEF IsRequest, Free, Asked, Answered, LoadDone, CreateDone
    <3>2. /\ r.item.code \in Code /\ r.item.row.version \in Nat
          /\ Outrun(r.item.code, r.item.row.version)'
      BY <3>1 DEF MoveDone, Offered, Seen, IsRow, OnPage, Row
    <3>. QED
      BY <1>4, <2>1, <3>2 DEF Ended
  <2>2. CASE r.what # "move"
    BY <1>4, <2>2 DEF Ended
  <2>. QED
    BY <2>1, <2>2
<1>6. PICK s : s = LoadCall(moved)
  OBVIOUS
<1>7. call' = [call EXCEPT ![k] = s]
  BY <1>2, <1>4, <1>6 DEF LoadAgain, Reload
<1>8. IsRequest(s)' /\ s.pc = "sent"
  BY <1>5, <1>6 DEF IsRequest, Asked, SentLoad, LoadCall, IInv, PageOK, LoadAgain
<1>9. call'[k] = s
  BY <1>7 DEF IInv, CallsOK
<1>10. CallsOK' /\ FreshLists' /\ ItemsOK'
  BY <1>1, <1>7, <1>8, <1>9, OneRequest DEF LoadAgain, HasRows
<1>11. DialogOK' /\ PageOK'
  BY <1>1, KnowledgeLasts DEF LoadAgain, IInv, PageOK, local
<1>. QED
  BY <1>1, <1>10, <1>11 DEF IInv, MovesOn

LEMMA ErrorStep ==
    ASSUME IInv, NEW k \in Call, ShowError(k) PROVE IInv'
<1>1. MovesOn
  BY StandsStill DEF IInv, ShowError
<1>2. call' = [call EXCEPT ![k] = Free]
  BY DEF ShowError, Finish
<1>3. call'[k] = Free
  BY <1>2 DEF IInv, CallsOK
<1>4. CallsOK' /\ FreshLists' /\ ItemsOK'
  <2>1. IsRequest(call[k])' /\ ~HasRows(k)' /\ items' = items
    BY <1>3 DEF ShowError, HasRows, IsRequest, Free
  <2>. QED
    BY <1>1, <1>2, <2>1, OneRequest
<1>5. DialogOK'
  BY <1>1, KnowledgeLasts DEF ShowError, DialogOK
<1>6. PageOK'
  BY DEF IInv, PageOK, ShowError, LoadingAfterError, local
<1>. QED
  BY <1>1, <1>4, <1>5, <1>6 DEF IInv, MovesOn

LEMMA TabStep ==
    ASSUME IInv, OtherTab PROVE IInv'
<1>1. MovesOn
  BY StandsStill DEF IInv, OtherTab
<1>2. ItemsOK' /\ DialogOK' /\ CallsOK'
  BY <1>1, KnowledgeLasts DEF IInv, CallsOK, OtherTab
<1>3. FreshLists' /\ PageOK'
  BY DEF IInv, FreshLists, HasRows, PageOK, OtherTab, local
<1>. QED
  BY <1>1, <1>2, <1>3 DEF IInv, MovesOn

LEMMA ElsewhereStep ==
    ASSUME IInv, Elsewhere PROVE IInv'
<1>1. MovesOn
  <2>1. CASE Walk!Next /\ UNCHANGED <<ledger, withdrawn>>
    <3>1. PICK c \in RecordCode : WalkStep(c)
      BY <2>1 DEF Walk!Next, WalkStep
    <3>. QED
      BY <2>1, <3>1, RecordsAdvance DEF IInv, MovesOn, Elsewhere
  <2>2. CASE Ledger!Next /\ UNCHANGED record
    <3>1. PICK c \in DecisionCode : LedgerStep(c)
      BY <2>2 DEF Ledger!Next, LedgerStep
    <3>. QED
      BY <2>2, <3>1, DecisionsAdvance DEF IInv, MovesOn, Elsewhere
  <2>. QED
    BY <2>1, <2>2 DEF Elsewhere
<1>2. ItemsOK' /\ DialogOK' /\ CallsOK'
  BY <1>1, KnowledgeLasts DEF IInv, CallsOK, Elsewhere
<1>3. FreshLists' /\ PageOK'
  BY DEF IInv, FreshLists, HasRows, PageOK, Elsewhere, local
<1>. QED
  BY <1>1, <1>2, <1>3 DEF IInv, MovesOn

LEMMA InitOK ==
    ASSUME Init PROVE IInv
<1>1. ServerOK
  <2>1. record \in [RecordCode -> {NoRow} \cup Rec]
    <3>1. ASSUME NEW s \in Walk!Status, NEW x \in Content PROVE Walk!Opened(s, x) \in Rec
      BY DEF Walk!Opened, Rec
    <3>2. record \in [RecordCode -> {NoRow} \cup
                          {Walk!Opened(s, x) : s \in Walk!Status, x \in Content}]
      BY DEF Init, Walk!Init
    <3>. QED
      BY <3>1, <3>2
  <2>2. ASSUME NEW l \in Ledger!SeedLedgers PROVE l \in Seq(LedgerEntry)
    <3>1. ASSUME NEW x \in Content PROVE Ledger!Entry("draft", x, SeedPreparer) \in LedgerEntry
      BY SeedAccounts DEF Ledger!Entry, LedgerEntry, Decisive
    <3>2. ASSUME NEW p \in Content \X Ledger!SeedDecided
          PROVE  /\ Ledger!Entry("draft", p[1], SeedPreparer) \in LedgerEntry
                 /\ Ledger!Entry(p[2], p[1], SeedReviewer) \in LedgerEntry
      BY SeedAccounts
         DEF Ledger!Entry, LedgerEntry, Decisive, Ledger!SeedDecided, Ledger!Decided
    <3>3. \A e \in LedgerEntry, f \in LedgerEntry :
             <<e>> \in Seq(LedgerEntry) /\ <<e, f>> \in Seq(LedgerEntry)
      OBVIOUS
    <3>4. <<>> \in Seq(LedgerEntry)
      OBVIOUS
    <3>5. CASE l = <<>>
      BY <3>4, <3>5
    <3>6. ASSUME NEW x \in Content, l = <<Ledger!Entry("draft", x, SeedPreparer)>>
          PROVE  l \in Seq(LedgerEntry)
      BY <3>1, <3>3, <3>6
    <3>7. ASSUME NEW p \in Content \X Ledger!SeedDecided,
                 l = <<Ledger!Entry("draft", p[1], SeedPreparer),
                       Ledger!Entry(p[2], p[1], SeedReviewer)>>
          PROVE  l \in Seq(LedgerEntry)
      BY <3>2, <3>3, <3>7
    <3>. QED
      BY <3>5, <3>6, <3>7 DEF Ledger!SeedLedgers
  <2>3. ledger \in [DecisionCode -> Seq(LedgerEntry)]
    BY <2>2 DEF Init, Ledger!Init
  <2>. QED
    BY <2>1, <2>3 DEF ServerOK
<1>2. PageOK
  <2>1. page \in Walk!Kind \cup {"PriorityDecision"}
    BY Kinds DEF Init
  <2>2. DOMAIN transitions =
           {"BridgeAsset", "InspectionRound", "DefectFinding", "PriorityDecision"}
    BY DEF transitions
  <2>3. Walk!Kind \subseteq {"BridgeAsset", "InspectionRound", "DefectFinding"}
    BY DEF Walk!Kind, Walk!Graph
  <2>. QED
    BY <2>1, <2>2, <2>3 DEF Init, PageOK
<1>3. ItemsOK /\ DialogOK
  BY DEF Init, ItemsOK, DialogOK
<1>4. CallsOK /\ FreshLists
  <2>1. ASSUME NEW k \in Call PROVE IsRequest(call[k]) /\ ~HasRows(k)
    BY DEF Init, IsRequest, Free, Asked, SentLoad, LoadCall, Ended, HasRows
  <2>. QED
    BY <2>1 DEF Init, CallsOK, FreshLists
<1>. QED
  BY <1>1, <1>2, <1>3, <1>4 DEF IInv

(* The invariant holds of every behaviour, with any number of requests in   *)
(* flight and any number of other users.                                    *)
THEOREM Invariant == Spec => []IInv
<1>1. Init => IInv
  BY InitOK
<1>2. IInv /\ [Next]_vars => IInv'
  <2>. SUFFICES ASSUME IInv, [Next]_vars PROVE IInv'
    OBVIOUS
  <2>1. ASSUME Act PROVE IInv'
    BY <2>1, LoadStep, ConfirmStep, CreateStep, OpenStep, CloseStep DEF Act
  <2>2. ASSUME NEW k \in Call, Serve(k) PROVE IInv'
    BY <2>2, MoveStep, CreatedStep, LoadedStep DEF Serve
  <2>3. ASSUME NEW k \in Call, Deliver(k) PROVE IInv'
    BY <2>3, ShowStep, AgainStep, ErrorStep DEF Deliver
  <2>4. CASE UNCHANGED vars
    <3>1. MovesOn
      BY <2>4, StandsStill DEF IInv, vars
    <3>2. ItemsOK' /\ DialogOK' /\ CallsOK'
      BY <2>4, <3>1, KnowledgeLasts DEF IInv, CallsOK, vars
    <3>3. FreshLists' /\ PageOK'
      BY <2>4 DEF IInv, FreshLists, HasRows, PageOK, vars, local
    <3>. QED
      BY <3>1, <3>2, <3>3 DEF IInv, MovesOn
  <2>. QED
    BY <2>1, <2>2, <2>3, <2>4, FailStep, TabStep, ElsewhereStep DEF Next
<1>. QED
  BY <1>1, <1>2, PTL DEF Spec

-----------------------------------------------------------------------------
(* The theorems.                                                            *)

(* What a request in flight is. *)
LEMMA SentMoveIsOffered ==
    ASSUME IInv, NEW k \in Call, call[k].pc = "sent", InFlight(k, "move")
    PROVE  Offered(call[k].item)
BY DEF IInv, CallsOK, IsRequest, Free, Asked, SentLoad, SentMove, SentCreate, Answered, InFlight

(* However old the list, the dialog or the request, a version names what was *)
(* shown under it: a move that passes the lock of the backend starts from   *)
(* the row that the dialog showed (store.transition, factory.ts:16-22).     *)
THEOREM MovesStartFromWhatWasSeen == Spec => []ConfirmedAsSeen
<1>1. ASSUME IInv PROVE ConfirmedAsSeen
  <2>1. \A c \in DOMAIN items : IsPastOrPresent(c, items[c])
    BY <1>1 DEF IInv, ItemsOK, Seen
  <2>2. \A i \in DOMAIN pending : IsPastOrPresent(pending[i].code, pending[i].row)
    BY <1>1 DEF IInv, DialogOK, Offered, Seen
  <2>3. ASSUME NEW k \in Call, call[k].pc = "sent" /\ InFlight(k, "move")
        PROVE  IsPastOrPresent(call[k].item.code, call[k].item.row)
    BY <1>1, <2>3, SentMoveIsOffered DEF Offered, Seen
  <2>. QED
    BY <2>1, <2>2, <2>3 DEF ConfirmedAsSeen
<1>. QED
  BY <1>1, Invariant, PTL

(* The reload that follows a move shows the record moved, or gone, and an    *)
(* older list is shown over a newer one only when a third was shown between *)
(* (store.load and store.transition, factory.ts:9-22).                      *)
THEOREM ReloadsShowMoves == Spec => []ReloadShowsMove
<1>1. ASSUME IInv PROVE ReloadShowsMove
  <2>1. ASSUME NEW k \in Call, HasRows(k) PROVE Shows(call[k].rows, call[k].after)
    BY <1>1, <2>1 DEF IInv, CallsOK, IsRequest, Free, Asked, Answered, LoadDone, MoveDone,
                      CreateDone, HasRows
  <2>. QED
    BY <1>1, <2>1 DEF ReloadShowsMove, Shows, IInv, FreshLists
<1>. QED
  BY <1>1, Invariant, PTL

(* The graphs of utils/format.ts are those of the backend. *)
LEMMA GraphsAgree ==
    ASSUME NEW kind \in Walk!Kind, NEW s, NEW t \in allowedTargets(kind, s)
    PROVE  Walk!CanTransition(kind, s, t)
<1>1. CASE kind = "BridgeAsset"
  BY <1>1 DEF Walk!CanTransition, Walk!StatusOf, Walk!Graph, Walk!BridgeAssetTransitions,
              allowedTargets, transitions
<1>2. CASE kind = "InspectionRound"
  BY <1>2 DEF Walk!CanTransition, Walk!StatusOf, Walk!Graph, Walk!InspectionRoundTransitions,
              allowedTargets, transitions
<1>3. CASE kind = "DefectFinding"
  BY <1>3 DEF Walk!CanTransition, Walk!StatusOf, Walk!Graph, Walk!DefectFindingTransitions,
              allowedTargets, transitions
<1>. QED
  BY <1>1, <1>2, <1>3 DEF Walk!Kind, Walk!Graph

LEMMA OnlyDraftsAreDecided ==
    ASSUME NEW s, NEW t \in allowedTargets("PriorityDecision", s)
    PROVE  s = "draft" /\ t \in Ledger!Decided
BY DEF allowedTargets, transitions, Ledger!Decided

(* What the page offers, the backend accepts, unless the record has changed  *)
(* since it was listed or another tab has changed the session (targetsFor,  *)
(* EntityPage.vue:23-28).                                                   *)
THEOREM OffersAreAccepted == Spec => []OfferedIsAccepted
<1>1. ASSUME IInv, NEW k \in Call, call[k].pc = "sent", call[k].token = session,
             InFlight(k, "move"), NEW item, item = call[k].item,
             Exists(item.code), RowOf(item.code).version = item.row.version
      PROVE  Accepts(session, item)
  <2>. DEFINE c == item.code
  <2>1. Offered(item)
    BY <1>1, SentMoveIsOffered
  <2>2. RowOf(c) = item.row /\ c \in Code /\ KindOf[c] = page /\ session \in User
    BY <1>1, <2>1 DEF Offered, Seen, IsRow, OnPage, IsPastOrPresent, IInv, PageOK
  <2>3. CASE c \in RecordCode
    <3>1. page \in Walk!Kind /\ page # "PriorityDecision"
      BY <2>2, <2>3, Kinds DEF RecordCode
    <3>2. /\ canAtLeast("operator")
          /\ item.target \in allowedTargets(page, record[c].status)
      BY <2>1, <2>2, <2>3, <3>1 DEF Offered, targetsFor, offeredTo, canAtLeast, RowOf
    <3>3. Walk!CanTransition(KindOf[c], record[c].status, item.target)
      BY <2>2, <3>1, <3>2, GraphsAgree
    <3>. QED
      BY <1>1, <2>2, <2>3, <3>2, <3>3 DEF Accepts, canAtLeast
  <2>4. CASE c \in DecisionCode
    <3>1. page = "PriorityDecision" /\ c \notin RecordCode
      BY <2>2, <2>4 DEF DecisionCode, RecordCode
    <3>2. /\ canAtLeast("reviewer") /\ Ledger!Preparer(c) # session
          /\ item.target \in allowedTargets("PriorityDecision", Ledger!LastEntry(c).status)
      BY <2>1, <2>2, <3>1 DEF Offered, targetsFor, offeredTo, canAtLeast, RowOf, PreparerOf
    <3>3. Ledger!LastEntry(c).status = "draft" /\ item.target \in Ledger!Decided
      BY <3>2, OnlyDraftsAreDecided
    <3>4. RoleOf[session] \in {"reviewer", "admin"}
      BY <2>2, <3>2, RolesAssigned
         DEF canAtLeast, RequireMinimumRole, roleRank, Role
    <3>5. Ledger!IsDraft(c)
      BY <1>1, <3>1, <3>3 DEF Exists, Ledger!IsDraft
    <3>. QED
      BY <1>1, <2>2, <3>1, <3>2, <3>3, <3>4, <3>5 DEF Accepts
  <2>. QED
    BY <2>2, <2>3, <2>4 DEF DecisionCode
<1>2. ASSUME IInv, NEW k \in Call, call[k].pc = "sent", call[k].token = session,
             InFlight(k, "create"), Unused(call[k].code)
      PROVE  AcceptsNew(session, call[k].code)
  BY <1>2 DEF IInv, CallsOK, IsRequest, Free, Asked, SentLoad, SentMove, SentCreate, Answered,
              InFlight, AcceptsNew, canAtLeast, PageOK
<1>3. IInv => OfferedIsAccepted
  BY <1>1, <1>2 DEF OfferedIsAccepted
<1>. QED
  BY <1>3, Invariant, PTL

LEMMA GraphsAreClosed ==
    ASSUME NEW kind \in DOMAIN transitions, NEW s, NEW t \in allowedTargets(kind, s)
    PROVE  t \in DOMAIN transitions[kind]
<1>1. CASE kind = "BridgeAsset"
  BY <1>1 DEF allowedTargets, transitions
<1>2. CASE kind = "InspectionRound"
  BY <1>2 DEF allowedTargets, transitions
<1>3. CASE kind = "DefectFinding"
  BY <1>3 DEF allowedTargets, transitions
<1>4. CASE kind = "PriorityDecision"
  BY <1>4 DEF allowedTargets, transitions
<1>. QED
  BY <1>1, <1>2, <1>3, <1>4 DEF transitions

(* Every reachable state of the page is well typed. *)
THEOREM PageTypes == Spec => []TypeOK
<1>1. ASSUME IInv PROVE TypeOK
  <2>1. ASSUME NEW item, Offered(item) PROVE IsMove(item)
    <3>1. item.target \in allowedTargets(page, item.row.status)
      BY <2>1 DEF Offered, targetsFor, offeredTo
    <3>2. item.target \in DOMAIN transitions[page]
      BY <1>1, <3>1, GraphsAreClosed DEF IInv, PageOK
    <3>. QED
      BY <2>1, <3>2 DEF IsMove, Offered, Seen
  <2>2. IsList(items)
    BY <1>1 DEF IInv, ItemsOK, IsList, Seen
  <2>3. Len(pending) <= 1 /\ \A i \in DOMAIN pending : IsMove(pending[i])
    <3>1. PICK item : item = pending[1]
      OBVIOUS
    <3>2. CASE pending = <<>>
      BY <3>2
    <3>3. CASE pending = <<item>> /\ Offered(item)
      BY <2>1, <3>3
    <3>. QED
      BY <1>1, <3>1, <3>2, <3>3 DEF IInv, DialogOK
  <2>4. ASSUME NEW k \in Call
        PROVE  /\ call[k].pc \in {"free", "sent", "answered", "failed"}
               /\ call[k].pc = "sent" => call[k].token \in User \cup {NoOne}
               /\ InFlight(k, "move") => IsMove(call[k].item)
               /\ HasRows(k) => IsList(call[k].rows)
    <3>1. PICK r : r = call[k]
      OBVIOUS
    <3>2. IsRequest(r)
      BY <1>1, <3>1 DEF IInv, CallsOK
    <3>3. r.pc \in {"free", "sent", "answered", "failed"}
      BY <3>2 DEF IsRequest, Free, Asked, Answered
    <3>4. r.pc = "sent" => r.token \in User \cup {NoOne}
      BY <3>2 DEF IsRequest, Free, Asked, Answered
    <3>5. r.pc \in {"sent", "answered"} /\ r.what = "move" => IsMove(r.item)
      BY <2>1, <3>2 DEF IsRequest, Free, Asked, Answered, SentLoad, SentMove, SentCreate,
                        LoadDone, MoveDone, CreateDone
    <3>6. r.pc = "answered" /\ r.what = "load" => IsList(r.rows)
      BY <3>2 DEF IsRequest, Free, Asked, Answered, LoadDone, MoveDone, CreateDone,
                  Shows, IsList, Seen
    <3>. QED
      BY <3>1, <3>3, <3>4, <3>5, <3>6 DEF InFlight, HasRows
  <2>. QED
    BY <1>1, <2>2, <2>3, <2>4 DEF TypeOK, IInv, PageOK
<1>. QED
  BY <1>1, Invariant, PTL
-----------------------------------------------------------------------------
(* What the backend does behind the page.                                   *)

(* A move is answered in one step only: when the backend serves it.          *)
LEMMA OnlyServedMovesAreAnswered ==
    ASSUME IInv, [Next]_vars, NEW k \in Call, InFlight(k, "move"),
           call[k].pc = "sent", call'[k].pc = "answered"
    PROVE  ServeMove(k) /\ Accepts(call[k].token, call[k].item) /\ UNCHANGED local
<1>. DEFINE Kept == call'[k] = call[k]
<1>0. call = [l \in Call |-> call[l]]
  BY DEF IInv, CallsOK
<1>1. ASSUME NEW l \in Call, NEW r, Send(l, r) PROVE Kept
  BY <1>0, <1>1 DEF Send, Free
<1>2. ASSUME NEW l \in Call, NEW r, Answer(l, r), l # k PROVE Kept
  BY <1>0, <1>2 DEF Answer
<1>3. ASSUME NEW l \in Call, Fail(l), l = k PROVE call'[k].pc = "failed"
  BY <1>0, <1>3 DEF Fail, Answer
<1>4. ASSUME Act PROVE Kept
  BY <1>1, <1>4 DEF Act, Load, confirmTransition, createDemo, OpenDialog, CloseDialog
<1>5. ASSUME NEW l \in Call, CallFails(l) PROVE Kept
  BY <1>2, <1>3, <1>5 DEF CallFails, Fail
<1>6. ASSUME NEW l \in Call, Deliver(l) PROVE Kept
  BY <1>0, <1>6 DEF Deliver, ShowRows, LoadAgain, ShowError, Finish, HasRows, InFlight
<1>7. ASSUME NEW l \in Call, Serve(l), l # k PROVE Kept
  BY <1>2, <1>7 DEF Serve, ServeMove, ServeCreate, ServeLoad, Fail
<1>8. ASSUME Serve(k)
      PROVE  ServeMove(k) /\ Accepts(call[k].token, call[k].item) /\ UNCHANGED local
  BY <1>3, <1>8 DEF Serve, ServeMove, ServeCreate, ServeLoad, InFlight
<1>9. CASE OtherTab \/ Elsewhere \/ UNCHANGED vars
  BY <1>9 DEF OtherTab, Elsewhere, vars
<1>. QED
  BY <1>4, <1>5, <1>6, <1>7, <1>8, <1>9 DEF Next

LEMMA MovedRow ==
    ASSUME NEW v, NEW s, NEW x, NEW p, NEW t, NEW row,
           row = [version |-> v, status |-> s, content |-> x, preparedBy |-> p]
    PROVE  MovedTo(row, t) = [version |-> v + 1, status |-> t, content |-> x, preparedBy |-> p]
<1>1. PICK w, r : w = v + 1 /\ r = [version |-> v, status |-> t, content |-> x, preparedBy |-> p]
  OBVIOUS
<1>2. MovedTo(row, t) = [[row EXCEPT !.status = t] EXCEPT !.version = w]
  BY <1>1 DEF MovedTo
<1>3. [row EXCEPT !.status = t] = r
  BY <1>1
<1>4. [r EXCEPT !.version = w] = [version |-> w, status |-> t, content |-> x, preparedBy |-> p]
  BY <1>1
<1>. QED
  BY <1>1, <1>2, <1>3, <1>4

(* The effect of a move on the row that the backend shows. *)
LEMMA MoveIsShown ==
    ASSUME ServerOK, NEW c \in Code, NEW item, item.code = c, NEW u, Accepts(u, item),
           Effect(u, item)
    PROVE  RowOf(c)' = MovedTo(RowOf(c), item.target)
<1>1. CASE c \in RecordCode
  <2>1. record[c] \in Rec /\ record' = [record EXCEPT ![c].status = item.target, ![c].version = @ + 1]
    BY <1>1 DEF Accepts, Effect, Exists, Walk!Alive, Walk!Move, ServerOK
  <2>2. /\ record'[c].status = item.target /\ record'[c].version = record[c].version + 1
        /\ record'[c].content = record[c].content
    BY <1>1, <2>1 DEF ServerOK, Rec
  <2>3. /\ RowOf(c) = [version |-> record[c].version, status |-> record[c].status,
                       content |-> record[c].content, preparedBy |-> NoOne]
        /\ RowOf(c)' = [version |-> record'[c].version, status |-> record'[c].status,
                        content |-> record'[c].content, preparedBy |-> NoOne]
    BY <1>1 DEF RowOf, PreparerOf
  <2>. QED
    BY <2>2, <2>3, MovedRow
<1>2. CASE c \in DecisionCode
  <2>1. c \notin RecordCode /\ ledger[c] \in Seq(LedgerEntry) /\ ledger[c] # <<>>
    BY <1>2 DEF DecisionCode, ServerOK, Accepts, Ledger!IsDraft
  <2>2. PICK l, e : /\ l = ledger[c]
                    /\ e = [status |-> item.target, content |-> l[Len(l)].content, author |-> u]
    OBVIOUS
  <2>3. ledger' = [ledger EXCEPT ![c] = Append(l, e)]
    BY <2>1, <2>2 DEF Effect, Ledger!Decide, Ledger!Add, Ledger!Entry, Ledger!LastEntry
  <2>4. ledger'[c] = Append(l, e)
    BY <1>2, <2>3 DEF ServerOK
  <2>5. /\ Len(Append(l, e)) = Len(l) + 1 /\ Append(l, e)[Len(l) + 1] = e
        /\ Append(l, e)[1] = l[1]
    BY <2>1, <2>2
  <2>6. /\ Len(ledger'[c]) = Len(l) + 1
        /\ ledger'[c][Len(ledger'[c])] = e /\ ledger'[c][1] = l[1]
    BY <2>4, <2>5
  <2>7. /\ RowOf(c) = [version |-> Len(ledger[c]), status |-> ledger[c][Len(ledger[c])].status,
                       content |-> ledger[c][Len(ledger[c])].content,
                       preparedBy |-> ledger[c][1].author]
        /\ RowOf(c)' = [version |-> Len(ledger'[c]),
                        status |-> ledger'[c][Len(ledger'[c])].status,
                        content |-> ledger'[c][Len(ledger'[c])].content,
                        preparedBy |-> ledger'[c][1].author]
    BY <2>1 DEF RowOf, PreparerOf, Ledger!Preparer, Ledger!LastEntry
  <2>. QED
    BY <2>2, <2>6, <2>7, MovedRow
<1>. QED
  BY <1>1, <1>2 DEF DecisionCode

(* Whatever happens between the click that opens a dialog and the answer, a  *)
(* move that is accepted changes the row the dialog showed into the target   *)
(* it offered, and nothing else, and the page would have offered it to the   *)
(* user who signs it as well (EntityPage.vue:22-27 and 44-48, useAuth.ts).  *)
THEOREM MovesDoAsConfirmed == Spec => MovesAsConfirmed
<1>1. ASSUME IInv, [Next]_vars, NEW k \in Call, NEW c \in OnPage,
             InFlight(k, "move"), call[k].item.code = c,
             call[k].pc = "sent", call'[k].pc = "answered"
      PROVE  LET row == call[k].item.row
                 target == call[k].item.target
             IN /\ RowOf(c) = row
                /\ target \in offeredTo(call[k].token, row)
                /\ RowOf(c)' = MovedTo(row, target)
  <2>1. PICK item, u : item = call[k].item /\ u = call[k].token
    OBVIOUS
  <2>2. /\ Accepts(u, item) /\ Effect(u, item) /\ Offered(item)
        /\ c \in Code /\ item.code = c
    BY <1>1, <2>1, OnlyServedMovesAreAnswered, SentMoveIsOffered DEF ServeMove, OnPage
  <2>3. RowOf(c) = item.row
    BY <2>2 DEF Accepts, Offered, Seen, IsPastOrPresent
  <2>4. item.target \in allowedTargets(page, item.row.status)
    BY <2>2 DEF Offered, targetsFor, offeredTo
  <2>5. item.target \in offeredTo(u, item.row)
    <3>1. KindOf[c] = page
      BY <1>1 DEF OnPage
    <3>2. CASE c \in RecordCode
      <4>1. page # "PriorityDecision" /\ RequireMinimumRole(u, "operator")
        BY <2>2, <3>1, <3>2 DEF Accepts, RecordCode
      <4>. QED
        BY <2>4, <4>1 DEF offeredTo
    <3>3. CASE c \notin RecordCode
      <4>1. page = "PriorityDecision"
        BY <2>2, <3>1, <3>3 DEF RecordCode
      <4>2. item.row.preparedBy # u
        BY <2>2, <2>3, <3>3 DEF Accepts, RowOf, PreparerOf
      <4>3. RoleOf[u] \in {"reviewer", "admin"}
        BY <2>2, <3>3 DEF Accepts
      <4>4. RequireMinimumRole(u, "reviewer")
        BY <4>3 DEF RequireMinimumRole, roleRank
      <4>. QED
        BY <2>4, <4>1, <4>2, <4>4 DEF offeredTo
    <3>. QED
      BY <3>2, <3>3
  <2>6. RowOf(c)' = MovedTo(item.row, item.target)
    BY <1>1, <2>2, <2>3, MoveIsShown DEF IInv
  <2>. QED
    BY <2>1, <2>3, <2>5, <2>6
<1>2. IInv /\ [Next]_vars =>
         \A k \in Call, c \in OnPage :
            InFlight(k, "move") /\ call[k].item.code = c
              /\ call[k].pc = "sent" /\ call'[k].pc = "answered" =>
                 LET row == call[k].item.row
                     target == call[k].item.target
                 IN /\ RowOf(c) = row
                    /\ target \in offeredTo(call[k].token, row)
                    /\ RowOf(c)' = MovedTo(row, target)
  BY <1>1
<1>. QED
  BY <1>2, Invariant, PTL DEF Spec, MovesAsConfirmed

(* The spinner turns only while a request is in flight, so that when the      *)
(* requests end, it has stopped (the finally blocks of factory.ts:9-22).    *)
THEOREM SpinnerWaitsForSomething == Spec => []SpinnerHasReason
<1>1. Init => SpinnerHasReason
  BY Bounds DEF Init, SpinnerHasReason, Call, LoadCall, Free
<1>2. ASSUME IInv, SpinnerHasReason, [Next]_vars
      PROVE  SpinnerHasReason'
  <2>0. call = [k \in Call |-> call[k]]
    BY <1>2 DEF IInv, CallsOK
  <2>1. ASSUME NEW k \in Call, NEW r, call' = [call EXCEPT ![k] = r], r.pc # "free"
        PROVE  SpinnerHasReason'
    BY <2>0, <2>1 DEF SpinnerHasReason, Free
  <2>2. CASE UNCHANGED <<loading, call>>
    BY <1>2, <2>2 DEF SpinnerHasReason, Free
  <2>3. CASE Act
    BY <2>1, <2>2, <2>3
       DEF Act, Load, confirmTransition, createDemo, OpenDialog, CloseDialog, Send, LoadCall, Free
  <2>4. ASSUME NEW k \in Call, Fail(k)
        PROVE  SpinnerHasReason'
    <3>1. PICK r : Answer(k, r) /\ r.pc = "failed"
      BY <2>4 DEF Fail
    <3>. QED
      BY <2>1, <3>1 DEF Answer
  <2>5. ASSUME NEW k \in Call, Serve(k)
        PROVE  SpinnerHasReason'
    <3>1. ASSUME NEW r, Answer(k, r), r.pc = "answered"
          PROVE  SpinnerHasReason'
      BY <2>1, <3>1 DEF Answer
    <3>2. CASE ServeMove(k) \/ ServeCreate(k)
      BY <2>4, <3>1, <3>2 DEF ServeMove, ServeCreate
    <3>3. CASE ServeLoad(k)
      <4>1. PICK found \in SUBSET Listed :
               Answer(k, Loaded(call[k].after, [c \in found |-> RowOf(c)], FALSE))
        BY <3>3 DEF ServeLoad
      <4>. QED
        BY <3>1, <4>1 DEF Loaded
    <3>. QED
      BY <2>5, <3>2, <3>3 DEF Serve
  <2>6. ASSUME NEW k \in Call, Deliver(k)
        PROVE  SpinnerHasReason'
    <3>1. CASE LoadAgain(k)
      <4>1. PICK moved : call' = [call EXCEPT ![k] = LoadCall(moved)]
        BY <3>1, Zenon DEF LoadAgain, Reload
      <4>2. PICK r : r = LoadCall(moved)
        OBVIOUS
      <4>3. r.pc = "sent"
        BY <4>2 DEF LoadCall
      <4>. QED
        BY <2>1, <4>1, <4>2, <4>3
    <3>2. CASE ShowRows(k) \/ ShowError(k)
      BY <3>2 DEF ShowRows, ShowError, LoadingAfterError, SpinnerHasReason
    <3>. QED
      BY <2>6, <3>1, <3>2 DEF Deliver
  <2>. QED
    BY <1>2, <2>2, <2>3, <2>4, <2>5, <2>6 DEF Next, CallFails, OtherTab, Elsewhere, vars
<1>. QED
  BY <1>1, <1>2, Invariant, PTL DEF Spec

=============================================================================
