----------------------- MODULE PurchaseOrderProperties -----------------------
(***************************************************************************)
(* What purchase orders promise, whatever requests race.                   *)
(***************************************************************************)
EXTENDS PurchaseOrder

\* No order skips a stage.  Requests decide on an order they read earlier, so
\* an order may well go back or leave a final state, but each
\* status it ever had was reached from one it also had, by a transition that
\* isValidStatusTransition allows: an order in COMPLETED was DELIVERED once,
\* one in DELIVERED was APPROVED once, whatever raced.
PathRespected ==
    \A p \in POs : \A st \in visited[p] \ {"DRAFT"} :
        \E before \in visited[p] : ValidTransition(before, st)

\* What a request that was answered with success has done (create, approve,
\* delete, WorkflowService.approvePO and createGoodsReceipt): none of the
\* awaits behind it failed unnoticed.
OkMeansDone ==
    \A s \in Slots : answer[s] = "ok" =>
        LET j == job[s]
            p == target[s]
        IN
        /\ j.kind = "create" => "DRAFT" \in visited[p] /\ deducted[p] = committed[p]
        /\ j.kind = "approve" => j.to \in visited[p] /\ approver[p] # NoUser
        /\ j.kind = "wfApprove" /\ j.to = "APPROVED" => "IN_PROGRESS" \in visited[p]
        /\ j.kind = "delete" => p \in deleted
        /\ j.kind = "receipt" => p \in received /\ "DELIVERED" \in visited[p]

\* What the orders do to the budget: each order is announced to the ledger when
\* it is inserted, with the amount it commits, and that amount is deducted at
\* most once and never another one.
DeductionOf(p) ==
    [kind |-> "deduct", src |-> "budget", dst |-> "budget",
     run |-> <<committed[p]>>]

\* The units of money each order took; all of them together.
Units == UNION {{p} \X (1..deducted[p]) : p \in POs}
TakenByAll == Cardinality(Units)

Ledger == INSTANCE BudgetBook WITH
    Calls <- POs,
    Budgets <- {"budget"},
    Ops <- {[kind |-> "deduct", src |-> "budget", dst |-> "budget",
             run |-> <<j.amount>>] : j \in Jobs},
    NoOp <- NoJob,
    FiscalYear <- [b \in {"budget"} |-> 1],
    MaxAmount <- Funds,
    Opening <- [b \in {"budget"} |-> Funds],
    rows <- {"budget"},
    total <- [b \in {"budget"} |-> Funds],
    avail <- [b \in {"budget"} |-> avail],
    allocated <- [b \in {"budget"} |-> 0],
    sent <- [b \in {"budget"} |-> 0],
    received <- [b \in {"budget"} |-> 0],
    deducted <- [b \in {"budget"} |-> TakenByAll],
    announced <- [p \in POs |-> IF status[p] = Absent THEN NoJob ELSE DeductionOf(p)],
    posted <- {p \in POs : deducted[p] > 0}

DeductsByTheBook == Ledger!Spec

\* What invoices, payments and goods receipts may rely on when they look at an
\* order: whatever requests race, it is inserted once, takes only statuses
\* that follow one it had, and is deleted only after it was inserted.
Path == INSTANCE OrderPath WITH Orders <- POs

KeepsPath == Path!Spec
=============================================================================
