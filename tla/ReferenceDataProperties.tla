------------------------- MODULE ReferenceDataProperties -------------------------
(***************************************************************************)
(* What the deletion of vendors and currencies, and the assignments of     *)
(* purchasing organisations, promise whatever requests race.               *)
(***************************************************************************)
EXTENDS ReferenceData

\* CurrencyService.delete counts the contracts, orders and invoices of a
\* currency at three moments and deletes the row at a fourth, and the schema
\* then clears the column of whatever names it: only documents that came while
\* it was counting can lose their currency.
CurrenciesKept ==
    \A s \in Slots : pc[s] = "remove" /\ Kind(s) = "currency" =>
        \A x \in exists :
            /\ KindOf[x] \in {"contract", "order", "invoice"}
            /\ refs[x]["currency"] = job[s].row
            => x \in since[s]

\* Requests that have found vendor v and have not written it yet.
Pending(v) ==
    {s \in Slots : /\ \/ pc[s] \in {"write", "count", "softDelete", "remove"}
                      \/ pc[s] = "check" /\ job[s].op = "update"
                   /\ job[s].row = v}

\* VendorService looks for a vendor that is not deleted and writes it by its id
\* later: a vendor that is deleted in between is written all the same, and may
\* be ACTIVE again, but only by the requests that had found it before, one less
\* than there are slots, and then never again.
DeletedVendorsSettle ==
    \A v \in Of("vendor") :
        /\ v \in exists \ deleted => lateWrites[v] = 0
        /\ v \in deleted =>
             /\ lateWrites[v] + Cardinality(Pending(v)) < Cardinality(Slots)
             /\ lateWrites[v] = 0 => v \in inactive

\* createAssignment gives a row one place, and updateVendor, createPurchaseOrder
\* and createPurchaseRequisition look for one row that has every place they were
\* given: with an organisation, a company code and a plant they always fail,
\* whatever is assigned to what.
BothPlacesRefused ==
    \A s \in Slots :
        LET j == job[s] IN
        /\ \/ pc[s] = "write" /\ j.op = "update" /\ Kind(s) = "vendor"
           \/ pc[s] = "insert" /\ Kind(s) \in {"order", "requisition"}
        /\ j.names["org"] # Null /\ j.names["company"] # Null
        => j.names["plant"] = Null
=============================================================================
