----------------------------- MODULE RecordWalk -----------------------------
(***************************************************************************)
(* What the services of bridges, inspections and defects promise, without  *)
(* requests, reads and locks: a record is opened in the initial status of  *)
(* its kind; each version either edits its content and keeps its status,   *)
(* or moves its status along one edge of the graph and keeps its content;  *)
(* a deleted record rests.  model/base.go states the lock for every        *)
(* aggregate, dto/*.go that callers cannot bypass the state machine;       *)
(* VersionedRecord is shown to keep this promise.                          *)
(***************************************************************************)
EXTENDS TransitionGraphs, Naturals

CONSTANTS
    Code,       \* the codes of records
    KindOf,     \* the kind of the record that a code names
    Content,    \* the business fields of a record
    NoRow       \* a code that names no record yet

VARIABLE record

Opened(s, x) == [status |-> s, version |-> 1, content |-> x, deleted |-> FALSE]

Init == record \in [Code -> {NoRow} \cup {Opened(s, x) : s \in Status, x \in Content}]
     /\ \A c \in Code : record[c] # NoRow => record[c].status \in SeedStatus[KindOf[c]]

Alive(c) == record[c] # NoRow /\ ~record[c].deleted

Open(c, x) ==
    /\ record[c] = NoRow
    /\ record' = [record EXCEPT ![c] = Opened(InitialStatus[KindOf[c]], x)]

Edit(c, x) ==
    /\ Alive(c)
    /\ record' = [record EXCEPT ![c].content = x, ![c].version = @ + 1]

Move(c, s) ==
    /\ Alive(c)
    /\ CanTransition(KindOf[c], record[c].status, s)
    /\ record' = [record EXCEPT ![c].status = s, ![c].version = @ + 1]

Remove(c) ==
    /\ Alive(c)
    /\ record' = [record EXCEPT ![c].deleted = TRUE]

Next ==
    \E c \in Code :
        \/ \E x \in Content : Open(c, x) \/ Edit(c, x)
        \/ \E s \in Status : Move(c, s)
        \/ Remove(c)

Spec == Init /\ [][Next]_record

=============================================================================
