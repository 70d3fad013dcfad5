----------------------------- MODULE BudgetBook ------------------------------
(***************************************************************************)
(* What the budget ledger promises: a book in which every call is posted   *)
(* at once or not at all, after it was announced in the outbox.            *)
(*                                                                         *)
(* There is no sufficient-funds guard on a posting.  The service verifies  *)
(* funds at one moment and posts at a later one, so the book only promises *)
(* that the amounts and the records change together; how far a budget may  *)
(* be overdrawn is OverdraftBounded of BudgetLedger.                       *)
(***************************************************************************)
EXTENDS BudgetOps

VARIABLES rows,        \* budgets that exist
          total,       \* Budget.totalAmount
          avail,       \* Budget.availableAmount
          allocated,   \* sum of the BudgetAllocation rows drawn on a budget
          sent,        \* sum of the BudgetTransfer rows out of a budget
          received,    \* sum of the BudgetTransfer rows into a budget
          deducted,    \* sum of the deductions that succeeded
          announced,   \* request announced by each call, or NoOp
          posted       \* calls whose request is posted

vars == <<rows, total, avail, allocated, sent, received, deducted,
          announced, posted>>

records == <<allocated, sent, received, deducted>>

Init ==
    /\ rows = DOMAIN Opening
    /\ total = [b \in Budgets |-> IF b \in rows THEN Opening[b] ELSE 0]
    /\ avail = total
    /\ allocated = [b \in Budgets |-> 0]
    /\ sent = [b \in Budgets |-> 0]
    /\ received = [b \in Budgets |-> 0]
    /\ deducted = [b \in Budgets |-> 0]
    /\ announced = [c \in Calls |-> NoOp]
    /\ posted = {}

\* A budget is opened once, with all of its total available.
OpenBudget(o) ==
    /\ o.kind = "create"
    /\ o.src \notin rows
    /\ rows' = rows \cup {o.src}
    /\ total' = [total EXCEPT ![o.src] = Total(o)]
    /\ avail' = [avail EXCEPT ![o.src] = Total(o)]
    /\ UNCHANGED <<records, announced, posted>>

Announce(c, o) ==
    /\ announced[c] = NoOp
    /\ announced' = [announced EXCEPT ![c] = o]
    /\ UNCHANGED <<rows, total, avail, records, posted>>

\* Amounts that leave src in full, and reach dst when the call is a transfer.
Post(c) ==
    LET o == announced[c]
        a == Total(o)
    IN
    /\ o \in Ops
    /\ c \notin posted
    /\ o.src \in rows
    /\ posted' = posted \cup {c}
    /\ \/ /\ o.kind = "allocate"
          /\ avail' = [avail EXCEPT ![o.src] = @ - a]
          /\ allocated' = [allocated EXCEPT ![o.src] = @ + a]
          /\ UNCHANGED <<sent, received, deducted>>
       \/ /\ o.kind = "transfer"
          /\ o.dst \in rows
          /\ SameYear(o)
          /\ avail' = [[avail EXCEPT ![o.src] = @ - a] EXCEPT ![o.dst] = @ + a]
          /\ sent' = [sent EXCEPT ![o.src] = @ + a]
          /\ received' = [received EXCEPT ![o.dst] = @ + a]
          /\ UNCHANGED <<allocated, deducted>>
       \/ /\ o.kind = "deduct"
          /\ avail' = [avail EXCEPT ![o.src] = @ - a]
          /\ deducted' = [deducted EXCEPT ![o.src] = @ + a]
          /\ UNCHANGED <<allocated, sent, received>>
    /\ UNCHANGED <<rows, total, announced>>

Next ==
    \/ \E o \in Ops : OpenBudget(o)
    \/ \E c \in Calls, o \in Ops : Announce(c, o)
    \/ \E c \in Calls : Post(c)

Spec == Init /\ [][Next]_vars
=============================================================================
