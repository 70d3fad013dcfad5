------------------------ MODULE BudgetLedgerInvariant ------------------------
(***************************************************************************)
(* The inductive invariant of BudgetLedger.  Conservation alone is not     *)
(* inductive: a commit keeps it only if what the transaction staged agrees *)
(* with the rows it inserted, and OverdraftBounded needs to know how much  *)
(* the calls that are past their check may still draw.                     *)
(***************************************************************************)
EXTENDS BudgetLedgerProperties

\* Program points after the funds check, inside the transaction.
PastCheck == {"row", "debit", "credit", "emit", "commit"}

\* The program points of each kind of call.
PointsMatchOps ==
    \A c \in Calls :
        /\ pc[c] = "idle" => op[c] = NoOp /\ c \notin tx /\ c \notin outbox
        /\ pc[c] # "idle" => op[c] \in Ops
        /\ pc[c] = "done" => c \notin tx
        /\ result[c] = "none" <=> pc[c] # "done"
        /\ pc[c] \in {"check", "insert"} => op[c].kind = "create" /\ c \notin tx
        /\ pc[c] \in {"read", "row", "debit", "credit", "commit"} =>
               op[c].kind # "create"
        /\ pc[c] = "credit" => op[c].kind = "transfer"
        /\ c \in tx => op[c].kind # "create"

\* The event is recorded between the emit and the return.
EventsMatchPoints ==
    \A c \in Calls :
        /\ pc[c] = "commit" \/ result[c] = "ok" => c \in outbox
        /\ c \in outbox => pc[c] \in {"commit", "done"}

\* What an open transaction has staged at each point.
DebitStaged(o) == [NoChange EXCEPT ![o.src] = -Total(o)]
CreditStaged(o) == [DebitStaged(o) EXCEPT ![o.dst] = @ + Total(o)]

StagedAt(step, o) ==
    IF step \in {"read", "row", "debit"} THEN NoChange
    ELSE IF step # "credit" /\ o.kind = "transfer" THEN CreditStaged(o)
    ELSE DebitStaged(o)

StagingMatchesPoints ==
    \A c \in Calls :
        /\ c \notin tx => staged[c] = NoChange /\ inserted[c] = 0
        /\ c \in tx =>
             /\ staged[c] = StagedAt(pc[c], op[c])
             /\ op[c].kind = "deduct" => pc[c] # "row"
             /\ pc[c] = "read" => inserted[c] = 0
             /\ pc[c] = "row" => inserted[c] < Len(op[c].run)
             /\ pc[c] \in {"debit", "credit", "emit", "commit"}
                  /\ op[c].kind # "deduct" => inserted[c] = Len(op[c].run)

\* The budgets of a call that passed its check exist.
CheckedBudgetsExist ==
    \A c \in tx :
        pc[c] \in PastCheck =>
            /\ op[c].src \in rows
            /\ op[c].kind = "transfer" => op[c].dst \in rows /\ SameYear(op[c])

\* Nothing is recorded on a budget that does not exist yet.
UnopenedEmpty ==
    \A b \in Budgets \ rows :
        /\ total[b] = 0 /\ avail[b] = 0 /\ allocated[b] = 0
        /\ sent[b] = 0 /\ received[b] = 0 /\ deducted[b] = 0

PoolRespected == IsFiniteSet(tx) /\ Cardinality(tx) <= PoolSize

\* The calls that are past their check on b and may still draw on it.
Drawing(b) == {c \in tx : pc[c] \in PastCheck /\ op[c].src = b}

\* amount leaves room for the calls of S, the last of which saw enough for its
\* own draw: each other one takes MaxAmount at most.
Covers(amount, S) ==
    \/ amount >= (Cardinality(S) - (PoolSize - 1)) * MaxAmount
    \/ \E c \in S :
         amount >= Total(op[c]) + (Cardinality(S) - PoolSize) * MaxAmount

DrawsCovered == \A b \in Budgets : Covers(avail[b], Drawing(b))

\* The inductive invariant.
IInv ==
    /\ TypeOK
    /\ PointsMatchOps
    /\ EventsMatchPoints
    /\ StagingMatchesPoints
    /\ CheckedBudgetsExist
    /\ UnopenedEmpty
    /\ PoolRespected
    /\ Conservation
    /\ DrawsCovered
=============================================================================
