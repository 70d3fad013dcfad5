----------------------- MODULE BudgetLedgerProperties ------------------------
(***************************************************************************)
(* What the budget ledger must, and must not, do.                          *)
(***************************************************************************)
EXTENDS BudgetLedger

\* Conservation.  At every moment the available amount of a budget is its
\* total less every allocation row, transfer row out of it and successful
\* deduction, plus every transfer row into it: no interleaving, rollback or
\* crash loses or invents money (allocate, transfer, deduct and create of
\* budget.service.ts, whose amounts and record rows are separate writes).
Conservation ==
    \A b \in Budgets :
        avail[b] = total[b] - allocated[b] - sent[b] + received[b] - deducted[b]

\* The funds check of each call is not repeated at its update, so several
\* calls may pass it on the same money; but only calls that hold a connection
\* are past the check, so a budget is never overdrawn by more than the
\* largest call for each connection of the pool but one.
OverdraftBounded ==
    \A b \in Budgets : avail[b] >= -(PoolSize - 1) * MaxAmount

\* A posted change always has its event: emit comes before the commit and its
\* failure rolls the change back.
PostedHasEvent == \A c \in Calls : result[c] = "ok" => c \in outbox

\* A budget is created once: the total of a budget that exists never changes
\* and the budget never goes away, whatever calls race to create it.
CreatedOnce ==
    [][\A b \in rows : b \in rows' /\ total'[b] = total[b]]_vars

\* Every call that the service took up returns to its caller, also when
\* opposite transfers lock each other out, the pool is exhausted by calls that
\* each wait for a second connection, or a transaction times out.
EveryCallReturns ==
    \A c \in Calls : (pc[c] # "idle") ~> (pc[c] = "done")

-----------------------------------------------------------------------------
\* The ledger implements the book: every call is posted at once or not at all,
\* after its event, although its statements interleave with those of others.
Book == INSTANCE BudgetBook WITH
    announced <- [c \in Calls |-> IF c \in outbox THEN op[c] ELSE NoOp],
    posted <- {c \in Calls : result[c] = "ok" /\ op[c].kind # "create"}

BookSpec == Book!Spec

-----------------------------------------------------------------------------
\* Claims of the documentation that the code does not keep.

\* docs/testing/TESTING_PLAN.md, TC-PERF-003: calls competing for one budget
\* do not overspend it.
NoOverspending == \A b \in Budgets : avail[b] >= 0
=============================================================================
