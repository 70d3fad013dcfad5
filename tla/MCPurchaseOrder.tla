--------------------------- MODULE MCPurchaseOrder ---------------------------
(***************************************************************************)
(* Small instances of PurchaseOrder: two requests at a time on two orders, *)
(* a buyer and a finance approver, and a budget that pays one order only.  *)
(***************************************************************************)
EXTENDS PurchaseOrderInvariant, TLC

CONSTANTS p1, p2, buyer, approver1, manager

MCRole == (buyer :> "BUYER") @@ (approver1 :> "APPROVER") @@ (manager :> "MANAGER")

J(kind, p, u, to) ==
    [kind |-> kind, po |-> p, user |-> u, to |-> to, amount |-> 0,
     vendors |-> FALSE]
Create(u, amount, vendors) ==
    [kind |-> "create", po |-> NoPO, user |-> u, to |-> Same,
     amount |-> amount, vendors |-> vendors]

\* Two orders compete for the budget; p1 goes through its whole life.
MCJobs ==
    { Create(buyer, 2, TRUE), Create(buyer, 0, FALSE),
      J("update", p1, buyer, "APPROVED"), J("update", p1, buyer, "COMPLETED"),
      J("update", p1, buyer, "CANCELLED"), J("update", p1, buyer, Same),
      J("approve", p1, approver1, "CANCELLED"),
      J("wfApprove", p1, approver1, "APPROVED"),
      J("wfApprove", p1, manager, "APPROVED"),
      J("receipt", p1, buyer, Same), J("delete", p1, manager, Same) }

\* The slots are interchangeable.
Symmetry == Permutations(Slots)
=============================================================================
