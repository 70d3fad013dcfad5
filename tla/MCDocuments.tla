----------------------------- MODULE MCDocuments -----------------------------
(***************************************************************************)
(* Small instances of Documents: two requests at a time on one document of *)
(* each table.                                                             *)
(***************************************************************************)
EXTENDS DocumentsInvariant, TLC

CONSTANTS c1, r1, o1, q1, i1, p1, buyer, manager, finance, vendor, admin

MCKind == (c1 :> "contract") @@ (r1 :> "pr") @@ (o1 :> "order")
            @@ (q1 :> "quotation") @@ (i1 :> "invoice") @@ (p1 :> "payment")
OnDocs(D) == [d \in D |-> MCKind[d]]
ChainKind == OnDocs({c1, r1, o1, q1})
PayableKind == OnDocs({o1, i1, p1})
ApprovalKind == OnDocs({c1, r1, o1, i1})

MCRole == (buyer :> "BUYER") @@ (manager :> "MANAGER") @@ (finance :> "FINANCE")
            @@ (vendor :> "VENDOR") @@ (admin :> "ADMIN")

New(op, k, B, u, vendors) ==
    [kind |-> k, op |-> op, doc |-> NoDoc, user |-> u, to |-> Keep, bases |-> B,
     vendors |-> vendors]
On(op, d, u, to) ==
    [kind |-> MCKind[d], op |-> op, doc |-> d, user |-> u, to |-> to,
     bases |-> {}, vendors |-> FALSE]

\* A contract, its requisition and their order; a quotation, which stands alone.
ChainJobs ==
    { New("create", "contract", {}, buyer, TRUE),
      On("update", c1, buyer, "IN_PROGRESS"), On("update", c1, buyer, "COMPLETED"),
      On("update", c1, buyer, "TERMINATED"), On("update", c1, buyer, "CLOSED"),
      On("addVendors", c1, buyer, Keep), On("removeVendor", c1, buyer, Keep),
      On("delete", c1, manager, Keep),
      New("wfCreate", "pr", {c1}, buyer, FALSE),
      On("update", r1, buyer, "APPROVED"),
      On("approve", r1, manager, "APPROVED"), On("approve", r1, manager, "REJECTED"),
      On("delete", r1, manager, Keep),
      New("fromPR", "order", {r1}, buyer, TRUE),
      New("create", "quotation", {}, vendor, FALSE),
      On("update", q1, vendor, "ACCEPTED"), On("delete", q1, admin, Keep) }

\* An order, its invoice and their payment.
PayableJobs ==
    { New("create", "order", {}, buyer, FALSE),
      New("create", "invoice", {o1}, vendor, FALSE),
      On("update", i1, vendor, "PENDING"), On("approve", i1, finance, "APPROVED"),
      On("updateStatus", i1, finance, "PAID"), On("dispute", i1, finance, Keep),
      On("cancel", i1, finance, Keep), On("delete", i1, finance, Keep),
      New("create", "payment", {o1, i1}, finance, FALSE),
      On("update", p1, finance, "REQUESTED"), On("approve", p1, manager, "APPROVED"),
      On("process", p1, finance, Keep), On("receive", p1, vendor, Keep),
      On("fail", p1, finance, Keep), On("cancel", p1, finance, Keep),
      On("delete", p1, finance, Keep) }

\* The chain from a contract to the invoice on its order, the requisition
\* approved by the workflow or by its requester's own update.
ApprovalJobs ==
    { New("create", "contract", {}, buyer, FALSE),
      On("update", c1, buyer, "IN_PROGRESS"), On("update", c1, buyer, "TERMINATED"),
      New("wfCreate", "pr", {c1}, buyer, FALSE),
      On("approve", r1, manager, "APPROVED"), On("approve", r1, manager, "REJECTED"),
      On("update", r1, buyer, "APPROVED"), On("delete", r1, manager, Keep),
      New("fromPR", "order", {r1}, buyer, FALSE),
      New("create", "invoice", {o1}, vendor, FALSE) }

\* The slots are interchangeable.
Symmetry == Permutations(Slots)
=============================================================================
