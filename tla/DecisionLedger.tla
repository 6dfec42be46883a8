--------------------------- MODULE DecisionLedger ---------------------------
(***************************************************************************)
(* What the priority decision service promises, without requests, versions *)
(* or races: each code owns an append-only ledger that is opened by a      *)
(* preparer, amended by the preparer or an admin while it is a draft, and  *)
(* closed by ONE decision of somebody else who is entitled to review, on   *)
(* the evidence that the last draft holds.  A withdrawn ledger takes no    *)
(* further entry.  README.md lines 42-44 and the comment on                *)
(* PriorityDecisionRevision state this promise; PriorityDecision.tla is    *)
(* shown to keep it.                                                       *)
(***************************************************************************)
EXTENDS Access, Sequences

CONSTANTS
    Code,            \* the codes of decisions
    Content,         \* the evidence (with the other fields) of an entry
    SeedPreparer,    \* who prepared the decisions the seed inserts
    SeedReviewer     \* who decided the decisions the seed inserts as final

VARIABLES
    ledger,          \* ledger[c]: the entries of c, oldest first
    withdrawn        \* withdrawn[c]: c has been deleted

vars == <<ledger, withdrawn>>

Decided == {"observe", "restrict", "urgent"}
SeedDecided == {"observe", "restrict"}

Entry(s, x, u) == [status |-> s, content |-> x, author |-> u]

LastEntry(c) == ledger[c][Len(ledger[c])]
Preparer(c) == ledger[c][1].author

(* A ledger that somebody may still add to. *)
IsDraft(c) ==
    /\ ledger[c] # <<>>
    /\ LastEntry(c).status = "draft"
    /\ ~withdrawn[c]

(* Either nothing, or what the seed inserts: a draft, or a reviewed draft. *)
SeedLedgers ==
    {<<>>}
      \cup {<<Entry("draft", x, SeedPreparer)>> : x \in Content}
      \cup {<<Entry("draft", p[1], SeedPreparer), Entry(p[2], p[1], SeedReviewer)>> :
                p \in Content \X SeedDecided}

Init ==
    /\ ledger \in [Code -> SeedLedgers]
    /\ withdrawn = [c \in Code |-> FALSE]

Add(c, e) == ledger' = [ledger EXCEPT ![c] = Append(@, e)]

Open(c, u, x) ==
    /\ ledger[c] = <<>>
    /\ RequireMinimumRole(u, "operator")
    /\ Add(c, Entry("draft", x, u))
    /\ UNCHANGED withdrawn

Amend(c, u, x) ==
    /\ IsDraft(c)
    /\ u = Preparer(c) \/ RoleOf[u] = "admin"
    /\ Add(c, Entry("draft", x, u))
    /\ UNCHANGED withdrawn

Decide(c, u, s) ==
    /\ IsDraft(c)
    /\ RoleOf[u] \in {"reviewer", "admin"}
    /\ u # Preparer(c)
    /\ Add(c, Entry(s, LastEntry(c).content, u))
    /\ UNCHANGED withdrawn

(* Any ledger may be withdrawn.  The documented promise is narrower: only   *)
(* drafts; PriorityDecision!FinalNeverDeleted is about that difference.     *)
Withdraw(c) ==
    /\ ledger[c] # <<>>
    /\ ~withdrawn[c]
    /\ withdrawn' = [withdrawn EXCEPT ![c] = TRUE]
    /\ UNCHANGED ledger

Next ==
    \E c \in Code :
        \/ \E u \in User, x \in Content : Open(c, u, x)
        \/ \E u \in User, x \in Content : Amend(c, u, x)
        \/ \E u \in User, s \in Decided : Decide(c, u, s)
        \/ Withdraw(c)

Spec == Init /\ [][Next]_vars

=============================================================================
