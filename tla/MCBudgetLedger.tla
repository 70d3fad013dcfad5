--------------------------- MODULE MCBudgetLedger ----------------------------
(***************************************************************************)
(* Small instances of BudgetLedger: two budgets of one fiscal year that    *)
(* exist, a third of the next year that two calls may try to create, and   *)
(* the four kinds of call with amounts chosen so that each fits alone and  *)
(* any two draw more than b1 holds.                                        *)
(***************************************************************************)
EXTENDS BudgetLedgerInvariant, TLC

CONSTANTS c1, c2, c3, b1, b2, b3

MCCalls == {c1, c2, c3}
MCBudgets == {b1, b2, b3}
MCYear == (b1 :> 1) @@ (b2 :> 1) @@ (b3 :> 2)
MCOpening == (b1 :> 2) @@ (b2 :> 1)

Req(kind, src, dst, run) == [kind |-> kind, src |-> src, dst |-> dst, run |-> run]

\* Every kind of call: two totals to create b3 with, an allocation of two items.
MCOps == { Req("create", b3, b3, <<1>>),
           Req("create", b3, b3, <<2>>),
           Req("allocate", b1, b1, <<1, 2>>),
           Req("transfer", b1, b2, <<2>>),
           Req("transfer", b2, b1, <<1>>),
           Req("transfer", b1, b3, <<1>>),
           Req("deduct", b1, b1, <<2>>) }

\* Opposite transfers and a deduction: the lock conflicts.
MCLockOps == { Req("create", b3, b3, <<1>>),
               Req("transfer", b1, b2, <<2>>),
               Req("transfer", b2, b1, <<1>>),
               Req("deduct", b1, b1, <<2>>) }

Symmetry == Permutations(MCCalls)
=============================================================================
