------------------------------ MODULE Workbench ------------------------------
(***************************************************************************)
(* One page of the frontend, from the moment it is mounted: the store with *)
(* the rows it shows, the dialog that confirms a move, the requests in     *)
(* flight, and the session, of which the page keeps a copy while another   *)
(* tab may change the stored one.  Behind it the backend takes the steps   *)
(* that RecordWalk and DecisionLedger promise, on its own and for others.  *)
(*                                                                         *)
(* Sources, under frontend/src: stores/factory.ts, components/EntityPage,  *)
(* utils/format.ts, hooks/useAuth.ts, api/client.ts.                       *)
(***************************************************************************)
EXTENDS Access, Naturals, Sequences

CONSTANTS
    Code,                       \* the codes of records and decisions
    KindOf,                     \* the kind of each, and so the page it is on
    Content, SeedPreparer, SeedReviewer,
    NoRow,                      \* a record that does not exist
    NoOne,                      \* no session; no preparer
    MaxCalls,                   \* bounds the requests in flight together
    MaxVersion                  \* bounds what others do to a record

RecordCode == {c \in Code : KindOf[c] # "PriorityDecision"}
DecisionCode == Code \ RecordCode

Call == 1..MaxCalls

ASSUME Nobody == NoOne \notin User
ASSUME SeedAccounts == SeedPreparer \in User /\ SeedReviewer \in User
ASSUME Bounds == MaxCalls \in Nat \ {0} /\ MaxVersion \in Nat

VARIABLES
    record,             \* of RecordWalk: bridges, inspections, defects
    ledger, withdrawn,  \* of DecisionLedger
    page,               \* the kind that the page shows
    session,            \* whose session the page holds
    stored,             \* whose session localStorage holds
    items,              \* the rows shown, by code
    loading,            \* whether the table shows a spinner
    pending,            \* the move in the dialog: a sequence of at most one
    call                \* call[k]: how far request k has come

Walk == INSTANCE RecordWalk WITH Code <- RecordCode
Ledger == INSTANCE DecisionLedger WITH Code <- DecisionCode

ASSUME Kinds == KindOf \in [Code -> Walk!Kind \cup {"PriorityDecision"}]
ASSUME Nothing == NoRow \notin [status : Walk!Status, version : Nat \ {0},
                                content : Content, deleted : BOOLEAN]

server == <<record, ledger, withdrawn>>
local == <<page, session>>
vars == <<server, local, stored, items, loading, pending, call>>

-----------------------------------------------------------------------------
(* What the backend shows of a code.                                        *)

OnPage == {c \in Code : KindOf[c] = page}

Exists(c) == IF c \in RecordCode THEN Walk!Alive(c)
             ELSE ledger[c] # <<>> /\ ~withdrawn[c]

Unused(c) == IF c \in RecordCode THEN record[c] = NoRow ELSE ledger[c] = <<>>

(* Slip: preparedBy is not in the response. *)
PreparerOf_Unsent(c) == NoOne

PreparerOf(c) == IF c \in RecordCode THEN NoOne ELSE Ledger!Preparer(c)

RowOf(c) ==
    LET row(v, s, x) == [version |-> v, status |-> s, content |-> x,
                         preparedBy |-> PreparerOf(c)]
    IN IF c \in RecordCode
       THEN row(record[c].version, record[c].status, record[c].content)
       ELSE row(Len(ledger[c]), Ledger!LastEntry(c).status, Ledger!LastEntry(c).content)

Listed == {c \in OnPage : Exists(c)}

-----------------------------------------------------------------------------
(* The buttons of a row.                                                    *)

(* The copy of the status graphs in utils/format.ts. *)
transitions ==
    [BridgeAsset |->
        [active     |-> {"restricted", "closed"},
         restricted |-> {"closed", "retired", "active"},
         closed     |-> {"retired", "restricted"},
         retired    |-> {"closed"}],
     InspectionRound |->
        [planned    |-> {"running", "review"},
         running    |-> {"review", "completed", "planned"},
         review     |-> {"completed", "running"},
         completed  |-> {"review"}],
     DefectFinding |->
        [new        |-> {"verified", "monitoring"},
         verified   |-> {"monitoring", "mitigated", "new"},
         monitoring |-> {"mitigated", "closed", "verified"},
         mitigated  |-> {"closed", "monitoring"},
         closed     |-> {"mitigated"}],
     PriorityDecision |->
        [draft      |-> {"observe", "restrict", "urgent"},
         observe    |-> {}, restrict |-> {}, urgent |-> {}]]

allowedTargets(kind, s) == IF s \in DOMAIN transitions[kind] THEN transitions[kind][s] ELSE {}

(* Slip: a preparer is offered the review of their own decision. *)
offeredTo_OwnReview(user, row) ==
    IF RequireMinimumRole(user, IF page = "PriorityDecision" THEN "reviewer" ELSE "operator")
    THEN allowedTargets(page, row.status) ELSE {}

(* The moves of row for which the page shows buttons to user. *)
offeredTo(user, row) ==
    IF IF page = "PriorityDecision"
       THEN RequireMinimumRole(user, "reviewer") /\ row.preparedBy # user
       ELSE RequireMinimumRole(user, "operator")
    THEN allowedTargets(page, row.status) ELSE {}

(* The page knows one user, that of its own session. *)
canAtLeast(minimum) == RequireMinimumRole(session, minimum)
targetsFor(row) == offeredTo(session, row)

-----------------------------------------------------------------------------
(* Requests.  Each carries the session stored when it is sent.              *)

Free == [pc |-> "free"]

(* `after` names the moved row whose reload this is, if any. *)
LoadCall(after) == [pc |-> "sent", what |-> "load", token |-> stored, after |-> after]

Send(k, request) ==
    /\ call[k] = Free /\ \A l \in 1..k - 1 : call[l] # Free
    /\ call' = [call EXCEPT ![k] = request]
    /\ loading' = TRUE

(* store.load: the buttons of the toolbar. *)
Load(k) ==
    /\ Send(k, LoadCall(<<>>))
    /\ UNCHANGED <<server, local, stored, items, pending>>

(* A button of a row opens the dialog on that row as it is shown now. *)
OpenDialog(c) ==
    /\ pending = <<>>
    /\ \E s \in targetsFor(items[c]) :
          pending' = <<[code |-> c, row |-> items[c], target |-> s]>>
    /\ UNCHANGED <<server, local, stored, items, loading, call>>

CloseDialog ==
    /\ pending # <<>>
    /\ pending' = <<>>
    /\ UNCHANGED <<server, local, stored, items, loading, call>>

(* Slip: the version is looked up in the list when the dialog is confirmed. *)
Confirmed_Looked(item) ==
    IF item.code \in DOMAIN items THEN [item EXCEPT !.row.version = items[item.code].version]
    ELSE item

(* The move that is sent: expectedVersion is that of the row in the dialog. *)
Confirmed(item) == item

(* store.transition; the dialog stays open until the list is loaded again. *)
confirmTransition(k) ==
    /\ pending # <<>> /\ pending[1].row.version < MaxVersion
    /\ Send(k, [pc |-> "sent", what |-> "move", token |-> stored, item |-> Confirmed(pending[1])])
    /\ UNCHANGED <<server, local, stored, items, pending>>

(* store.createRecord: the code is made of the time and may be taken. *)
createDemo(k, c) ==
    /\ canAtLeast("operator")
    /\ Send(k, [pc |-> "sent", what |-> "create", token |-> stored, code |-> c])
    /\ UNCHANGED <<server, local, stored, items, pending>>

-----------------------------------------------------------------------------
(* The backend answers.                                                     *)

Answer(k, answer) == call' = [call EXCEPT ![k] = answer]

(* A failed reload lets its move stand: `after` is kept, the rest is not. *)
Fail(k) ==
    Answer(k, [pc |-> "failed", after |-> IF call[k].what = "load" THEN call[k].after ELSE <<>>])

(* Slip: the role is left to the page to check, on the routes of records. *)
Accepts_NoGuard(token, item) ==
    LET c == item.code
    IN /\ token \in User
       /\ Exists(c) /\ RowOf(c).version = item.row.version
       /\ IF c \in RecordCode
          THEN Walk!CanTransition(KindOf[c], record[c].status, item.target)
          ELSE /\ RoleOf[token] \in {"reviewer", "admin"} /\ token # Ledger!Preparer(c)
               /\ Ledger!IsDraft(c) /\ item.target \in Ledger!Decided

(* Whether the backend accepts the move of item for the holder of token. *)
Accepts(token, item) ==
    LET c == item.code
    IN /\ token \in User
       /\ Exists(c) /\ RowOf(c).version = item.row.version
       /\ IF c \in RecordCode
          THEN /\ RequireMinimumRole(token, "operator")
               /\ Walk!CanTransition(KindOf[c], record[c].status, item.target)
          ELSE /\ RoleOf[token] \in {"reviewer", "admin"} /\ token # Ledger!Preparer(c)
               /\ Ledger!IsDraft(c) /\ item.target \in Ledger!Decided

AcceptsNew(token, c) ==
    token \in User /\ RequireMinimumRole(token, "operator") /\ Unused(c)

Effect(token, item) ==
    IF item.code \in RecordCode
    THEN Walk!Move(item.code, item.target) /\ UNCHANGED <<ledger, withdrawn>>
    ELSE Ledger!Decide(item.code, token, item.target) /\ UNCHANGED record

ServeMove(k) ==
    /\ call[k].what = "move"
    /\ IF Accepts(call[k].token, call[k].item)
       THEN /\ Effect(call[k].token, call[k].item)
            /\ Answer(k, [pc |-> "answered", what |-> "move", item |-> call[k].item])
       ELSE Fail(k) /\ UNCHANGED server

ServeCreate(k) ==
    LET c == call[k].code
        u == call[k].token
    IN /\ call[k].what = "create"
       /\ IF AcceptsNew(u, c)
          THEN /\ \E x \in Content :
                     IF c \in RecordCode
                     THEN Walk!Open(c, x) /\ UNCHANGED <<ledger, withdrawn>>
                     ELSE Ledger!Open(c, u, x) /\ UNCHANGED record
               /\ Answer(k, [pc |-> "answered", what |-> "create"])
          ELSE Fail(k) /\ UNCHANGED server

(* The rows have been read.  `overtaken`, which no variable of the page holds, *)
(* tells that another list has been shown since.                            *)
Loaded(after, rows, overtaken) ==
    [pc |-> "answered", what |-> "load", after |-> after, rows |-> rows, overtaken |-> overtaken]

(* A search may find fewer rows; a reload does not search.                   *)
ServeLoad(k) ==
    /\ call[k].what = "load" /\ call[k].token \in User
    /\ \E found \in SUBSET Listed :
          /\ call[k].after = <<>> \/ found = Listed
          /\ Answer(k, Loaded(call[k].after, [c \in found |-> RowOf(c)], FALSE))
    /\ UNCHANGED server

Serve(k) ==
    /\ call[k].pc = "sent"
    /\ ServeMove(k) \/ ServeCreate(k) \/ ServeLoad(k)
    /\ UNCHANGED <<local, stored, items, loading, pending>>

(* The request or its answer is lost, or refused: no session, too many. *)
CallFails(k) ==
    /\ call[k].pc \in {"sent", "answered"}
    /\ Fail(k)
    /\ UNCHANGED <<server, local, stored, items, loading, pending>>

-----------------------------------------------------------------------------
(* The page takes the answer.                                               *)

HasRows(k) == call[k].pc = "answered" /\ call[k].what = "load"

Finish(k, others) == call' = [others EXCEPT ![k] = Free]

(* The list is shown; the calls it overtakes are noted. *)
ShowRows(k) ==
    /\ HasRows(k)
    /\ items' = call[k].rows
    /\ loading' = FALSE
    /\ pending' = IF call[k].after = <<>> THEN pending ELSE <<>>
    /\ Finish(k, [l \in Call |-> IF HasRows(l) THEN Loaded(call[l].after, call[l].rows, TRUE)
                                 ELSE call[l]])
    /\ UNCHANGED <<server, local, stored>>

(* Slip: the rows at hand are shown instead of being loaded again. *)
Reload_AtHand(after) == Loaded(after, items, FALSE)

Reload(after) == LoadCall(after)

(* A move or create was accepted: the list is loaded again. *)
LoadAgain(k) ==
    /\ call[k].pc = "answered" /\ call[k].what # "load"
    /\ LET moved == IF call[k].what = "move"
                    THEN <<[code |-> call[k].item.code, version |-> call[k].item.row.version]>>
                    ELSE <<>>
       IN call' = [call EXCEPT ![k] = Reload(moved)]
    /\ loading' = TRUE
    /\ UNCHANGED <<server, local, stored, items, pending>>

(* Slip: the spinner is stopped only when all went well. *)
LoadingAfterError_Kept == loading

(* finally *)
LoadingAfterError == FALSE

(* A failed reload does not undo the move: its dialog closes. *)
ShowError(k) ==
    /\ call[k].pc = "failed"
    /\ loading' = LoadingAfterError
    /\ pending' = IF call[k].after = <<>> THEN pending ELSE <<>>
    /\ Finish(k, call)
    /\ UNCHANGED <<server, local, stored, items>>

Deliver(k) == ShowRows(k) \/ LoadAgain(k) \/ ShowError(k)

-----------------------------------------------------------------------------
(* Everybody else.                                                          *)

(* Another tab signs in or out; once, to bound the model. *)
OtherTab ==
    /\ stored = session
    /\ stored' \in (User \cup {NoOne}) \ {stored}
    /\ UNCHANGED <<server, local, items, loading, pending, call>>

(* Others write to the records of the page. *)
Elsewhere ==
    /\ \/ Walk!Next /\ UNCHANGED <<ledger, withdrawn>>
       \/ Ledger!Next /\ UNCHANGED record
    /\ \A c \in RecordCode : record'[c] # record[c] =>
          c \in OnPage /\ record'[c].version <= MaxVersion
    /\ \A c \in DecisionCode : ledger'[c] # ledger[c] \/ withdrawn'[c] # withdrawn[c] =>
          c \in OnPage /\ Len(ledger'[c]) <= MaxVersion
    /\ UNCHANGED <<local, stored, items, loading, pending, call>>

(* The page is mounted and loads its list; what is on no page shown is left  *)
(* out.                                                                     *)
Init ==
    /\ Walk!Init /\ Ledger!Init
    /\ page \in {KindOf[c] : c \in Code}
    /\ \A c \in Code \ OnPage : Unused(c)
    /\ session \in User /\ stored = session
    /\ items = <<>> /\ pending = <<>>
    /\ loading = TRUE
    /\ call = [k \in Call |-> IF k = 1 THEN LoadCall(<<>>) ELSE Free]

Act ==
    \/ \E k \in Call : Load(k) \/ confirmTransition(k) \/ \E c \in OnPage : createDemo(k, c)
    \/ \E c \in DOMAIN items : OpenDialog(c)
    \/ CloseDialog

Next ==
    \/ Act
    \/ \E k \in Call : Serve(k) \/ CallFails(k) \/ Deliver(k)
    \/ OtherTab
    \/ Elsewhere

Spec == Init /\ [][Next]_vars

(* Every request is answered or fails in the end (the server has read and    *)
(* write timeouts), and the event loop takes every answer.                  *)
Fairness == \A k \in Call : /\ WF_vars(Serve(k) \/ CallFails(k))
                           /\ WF_vars(Deliver(k))

FairSpec == Spec /\ Fairness

-----------------------------------------------------------------------------
(* Properties.                                                              *)

Row == [version : Nat \ {0}, status : Walk!Status \cup Ledger!Decided \cup {"draft"},
        content : Content, preparedBy : User \cup {NoOne}]

IsRow(c, row) == c \in OnPage /\ row \in Row /\ (row.preparedBy = NoOne <=> c \in RecordCode)
IsList(rows) == \A c \in DOMAIN rows : IsRow(c, rows[c])
IsMove(item) == IsRow(item.code, item.row) /\ item.target \in DOMAIN transitions[page]

InFlight(k, what) == call[k].pc \in {"sent", "answered"} /\ call[k].what = what

TypeOK ==
    /\ session \in User /\ stored \in User \cup {NoOne}
    /\ loading \in BOOLEAN
    /\ IsList(items)
    /\ Len(pending) <= 1 /\ \A i \in DOMAIN pending : IsMove(pending[i])
    /\ \A k \in Call :
         /\ call[k].pc \in {"free", "sent", "answered", "failed"}
         /\ call[k].pc = "sent" => call[k].token \in User \cup {NoOne}
         /\ InFlight(k, "move") => IsMove(call[k].item)
         /\ HasRows(k) => IsList(call[k].rows)

(* A row as it has been, or as it is. *)
IsPastOrPresent(c, row) ==
    /\ ~Unused(c)
    /\ row.version <= RowOf(c).version
    /\ row.version = RowOf(c).version => row = RowOf(c)

(* However old the list is, a version names what was shown under it: a move   *)
(* that passes the lock of the backend starts from the very row, status and  *)
(* evidence, that the dialog showed, and no request names a version that is  *)
(* yet to come (store.transition, factory.ts:16-22).                        *)
ConfirmedAsSeen ==
    /\ \A c \in DOMAIN items : IsPastOrPresent(c, items[c])
    /\ \A i \in DOMAIN pending : IsPastOrPresent(pending[i].code, pending[i].row)
    /\ \A k \in Call : call[k].pc = "sent" /\ InFlight(k, "move") =>
          IsPastOrPresent(call[k].item.code, call[k].item.row)

(* What the page offers, the backend accepts, unless the record has changed  *)
(* since it was listed or another tab has changed the session: the roles,    *)
(* the preparer and the graphs that the frontend keeps for itself agree with *)
(* those of the backend (targetsFor, EntityPage.vue:22-27).                 *)
OfferedIsAccepted ==
    \A k \in Call : call[k].pc = "sent" /\ call[k].token = session =>
        /\ InFlight(k, "move") =>
              LET item == call[k].item
              IN Exists(item.code) /\ RowOf(item.code).version = item.row.version =>
                    Accepts(session, item)
        /\ InFlight(k, "create") /\ Unused(call[k].code) => AcceptsNew(session, call[k].code)

(* The reload that follows a move shows the record moved, or gone; and a list *)
(* is older than the one it replaces only when another was shown after the   *)
(* backend had answered (store.load, factory.ts:9; store.transition, line 19).     *)
ReloadShowsMove ==
    \A k \in Call : HasRows(k) =>
        LET rows == call[k].rows
        IN /\ \A i \in DOMAIN call[k].after : LET moved == call[k].after[i] IN
                 moved.code \in DOMAIN rows => rows[moved.code].version > moved.version
           /\ ~call[k].overtaken =>
                 \A c \in DOMAIN rows \cap DOMAIN items : rows[c].version >= items[c].version

(* The row one version later in status s, and otherwise as it was. *)
MovedTo(row, s) == [row EXCEPT !.status = s, !.version = @ + 1]

(* A move that the backend accepts does what its dialog said: it meets the    *)
(* row that was shown and leaves that row in the target that was chosen, one *)
(* version later and otherwise as it was.  And it is a move that the page    *)
(* would have offered the user whose session the request carries, even when  *)
(* the button was that of another, whose session another tab has replaced    *)
(* meanwhile (EntityPage.vue:22-27 and 44-48, store.transition, useAuth.ts). *)
MovesAsConfirmed ==
    [][\A k \in Call, c \in OnPage :
          InFlight(k, "move") /\ call[k].item.code = c
              /\ call[k].pc = "sent" /\ call'[k].pc = "answered" =>
                 LET row == call[k].item.row
                     target == call[k].item.target
                 IN /\ RowOf(c) = row
                    /\ target \in offeredTo(call[k].token, row)
                    /\ RowOf(c)' = MovedTo(row, target)]_vars

(* The spinner turns only while something is awaited (the finally blocks of   *)
(* factory.ts:9-22): the part of SpinnerStops that does not rest on fairness. *)
SpinnerHasReason == loading => \E k \in Call : call[k] # Free

(* The spinner stops, whatever fails and however many calls overlap (the     *)
(* finally blocks of factory.ts:9-22).                                      *)
SpinnerStops == loading ~> ~loading

=============================================================================
