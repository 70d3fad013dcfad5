---------------------------- MODULE MCReferenceData ----------------------------
(***************************************************************************)
(* A small instance of ReferenceData: one company code and its plant, a    *)
(* purchasing organisation that is assigned to one of them or not, a       *)
(* vendor and a currency, and the documents that come to name them.        *)
(***************************************************************************)
EXTENDS ReferenceDataInvariant, TLC

CONSTANTS company, plant, org, vendor, money,     \* there from the start
          newVendor, assigned, order, quotation, invoice

MCKindOf ==
    (company :> "company") @@ (plant :> "plant") @@ (org :> "org") @@
    (vendor :> "vendor") @@ (newVendor :> "vendor") @@ (money :> "currency") @@
    (assigned :> "assignment") @@ (order :> "order") @@
    (quotation :> "quotation") @@ (invoice :> "invoice")

MCRows == DOMAIN MCKindOf
MCSeeded == {company, plant, org, vendor, money}

\* What names the rows of R, each in the column of its table.
Names(R) ==
    [f \in Fields |-> IF \E r \in R : MCKindOf[r] = f
                        THEN CHOOSE r \in R : MCKindOf[r] = f ELSE Null]

MCSeedRefs == [r \in MCRows |-> Names(IF r = plant THEN {company} ELSE {})]

Ask(op, row, R, flag) == [op |-> op, row |-> row, names |-> Names(R), flag |-> flag]

MCJobs ==
    { Ask("create", assigned, {org, company}, TRUE),
      Ask("create", assigned, {org, plant}, TRUE),
      Ask("create", assigned, {org, company, plant}, TRUE),
      Ask("create", newVendor, {org, company, plant}, TRUE),
      Ask("create", order, {org, plant, money}, TRUE),
      Ask("create", order, {org, company, plant, money}, TRUE),
      Ask("create", quotation, {vendor}, TRUE),
      Ask("create", invoice, {vendor, money}, TRUE),
      Ask("update", vendor, {}, TRUE), Ask("update", vendor, {org, company, plant}, FALSE),
      Ask("rate", vendor, {}, TRUE), Ask("rate", vendor, {}, FALSE),
      Ask("delete", vendor, {}, TRUE), Ask("delete", money, {}, TRUE),
      Ask("delete", assigned, {}, TRUE), Ask("delete", plant, {}, TRUE) }

\* The slots are interchangeable.
Symmetry == Permutations(Slots)
=============================================================================
