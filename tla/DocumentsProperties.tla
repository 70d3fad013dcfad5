------------------------- MODULE DocumentsProperties -------------------------
(***************************************************************************)
(* What the document services promise, whatever requests race.             *)
(***************************************************************************)
EXTENDS Documents

\* The status that lets other documents rest on this one.
GrantedBy(k) ==
    CASE k = "contract" -> {"IN_PROGRESS"}
      [] k = "pr" -> {"APPROVED"}
      [] k = "order" -> {"APPROVED", "COMPLETED"}
      [] OTHER -> {}

\* The chain of documents is kept: createPRFromContract, createPOFromPR and
\* the creates of the services raise a document only on documents that had
\* the status they need, although each of them is read in a query of its own
\* and may change before the insert.
Chain == INSTANCE DocumentChain WITH
    made <- {d \in Docs : Exists(d)},
    granted <- {d \in Docs : visited[d] \cap GrantedBy(Kind[d]) # {}}

KeepsChain == Chain!Spec

\* The deletes check and then set deletedAt by id, and so do the writes of
\* every other method: a deleted document is still written, but only by the
\* requests that had read it before, less than one for each slot, and then
\* never again.
Writing(d) == {s \in Slots : pc[s] = "write" /\ target[s] = d}

DeletedSettles ==
    \A d \in Docs : Kind[d] # "order" =>
        /\ d \notin gone => afterlife[d] = 0
        /\ d \in gone =>
             afterlife[d] + Cardinality(Writing(d)) < Cardinality(Slots)

\* PaymentService.process checks the approval and writes PROCESSED later: an
\* approved payment may be processed twice, but never more often than there
\* are requests at a time, until it is approved again.
Processing(d) ==
    {s \in Slots : pc[s] = "write" /\ target[s] = d /\ job[s].op = "process"}

SettlementsBounded ==
    \A d \in Docs : Kind[d] = "payment" =>
        /\ settled[d] + Cardinality(Processing(d)) <= Cardinality(Slots)
        /\ settled[d] > 0 => "APPROVED" \in visited[d]

\* isValidStatusTransition is checked on a contract that may have changed
\* before update writes it: a contract may go back, but it has no status it
\* could not have come to, such as completed without having been in progress.
ContractPath ==
    \A d \in Docs : Kind[d] = "contract" =>
        \A st \in visited[d] \ {"DRAFT"} :
            \E from \in visited[d] : ContractTransition(from, st)

\* What happens to the orders here, their creation from requisitions and the
\* moves of MoveOrder and DeleteOrder, is what OrderPath allows and
\* PurchaseOrder implements.
OrderDocs == {d \in Docs : Kind[d] = "order"}

Path == INSTANCE OrderPath WITH
    Orders <- OrderDocs,
    status <- [d \in OrderDocs |-> status[d]],
    visited <- [d \in OrderDocs |-> visited[d]],
    deleted <- gone \cap OrderDocs

KeepsPath == Path!Spec

\* Behind every invoice on an order there is a whole chain of approvals, though
\* InvoiceService.create looks at the order alone and accepts one that is
\* already completed: the order was approved, so was the requisition it was
\* raised from, and the contract of that requisition was in progress.
ChainApproved ==
    \A i \in Docs : \A o \in rests[i] :
        Kind[i] = "invoice" /\ Kind[o] = "order" =>
            /\ "APPROVED" \in visited[o]
            /\ \A r \in rests[o] : Kind[r] = "pr" =>
                 /\ "APPROVED" \in visited[r]
                 /\ \A c \in rests[r] :
                      Kind[c] = "contract" => "IN_PROGRESS" \in visited[c]
=============================================================================
