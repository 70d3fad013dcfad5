------------------------------ MODULE BudgetOps ------------------------------
(***************************************************************************)
(* The calls of BudgetService: what a caller asks for.                     *)
(*                                                                         *)
(* A request names the budget it draws on (src), the budget it credits     *)
(* (dst, equal to src unless the call is a transfer) and its amounts,      *)
(* given by their running totals: run[i] is the accumulator of the         *)
(* reduce() in allocate() after i items, so the i-th amount is             *)
(* Running(o, i) - Running(o, i - 1).  create, transfer and deduct carry   *)
(* one amount.                                                             *)
(***************************************************************************)
EXTENDS Integers, Sequences

CONSTANTS Calls,        \* calls the service may receive
          Budgets,      \* one per (tenant, fiscal year, organisation unit)
          Ops,          \* requests the callers may make
          NoOp,         \* a call that has not announced or received a request
          FiscalYear,   \* the fiscal year of each budget
          MaxAmount,    \* the largest amount a single call draws
          Opening       \* totals of the budgets that exist at the start

Kinds == {"create", "allocate", "transfer", "deduct"}

Requests == [kind : Kinds, src : Budgets, dst : Budgets, run : Seq(Nat)]

\* The amounts of the first i items, added up.
Running(o, i) == IF i = 0 THEN 0 ELSE o.run[i]

\* The amount the call draws on (or opens) its budget with.
Total(o) == Running(o, Len(o.run))

SameYear(o) == FiscalYear[o.src] = FiscalYear[o.dst]

\* What the request schemas admit, and the names of the model.
ASSUME OpsAssumption ==
    /\ Ops \subseteq Requests
    /\ NoOp \notin Ops
    /\ MaxAmount \in Nat
    /\ DOMAIN Opening \subseteq Budgets
    /\ \A b \in DOMAIN Opening : Opening[b] \in Nat
    /\ \A o \in Ops :
         /\ o.kind # "allocate" => Len(o.run) = 1
         /\ o.kind # "transfer" => o.dst = o.src
         /\ o.kind # "create" => Total(o) <= MaxAmount
=============================================================================
