------------------------------ MODULE Documents ------------------------------
(***************************************************************************)
(* The services of contracts, purchase requisitions, quotations, invoices  *)
(* and payments, and the workflow steps that raise one document from       *)
(* another.                                                                *)
(*                                                                         *)
(* The five services have one shape: a create checks the documents the new *)
(* one rests on, one query each, and then inserts it; every other method   *)
(* reads the document (findOne), decides on what it read and writes it by  *)
(* id without looking again.  Nothing runs in a transaction.  What differs *)
(* is what each method demands, which status it writes and whether it      *)
(* emits an event: the method records below.  Purchase orders are created  *)
(* here from requisitions; what else happens to them is PurchaseOrder, of  *)
(* which this module assumes what that one proves, a path without gaps.    *)
(***************************************************************************)
EXTENDS Integers, FiniteSets

CONSTANTS Slots,       \* requests the process serves at a time
          Docs, Kind,  \* identities of documents and the table of each
          Users, Role,
          Jobs,        \* requests that may arrive
          OrderMoves,  \* bound: the statuses orders move to, and deletion
          NoJob, NoDoc, NoUser

Kinds == {"contract", "pr", "quotation", "order", "invoice", "payment"}
Absent == "ABSENT"
Keep == "KEEP"     \* a write that leaves the status alone
Gone == "GONE"     \* a write that sets deletedAt

ContractStatuses == {"DRAFT", "IN_PROGRESS", "COMPLETED", "CLOSED", "TERMINATED"}
PRStatuses == {"PENDING", "APPROVED", "REJECTED", "CANCELLED"}
QuotationStatuses == {"SUBMITTED", "ACCEPTED", "REJECTED", "EXPIRED"}
POStatuses == {"DRAFT", "APPROVED", "IN_PROGRESS", "DELIVERED", "COMPLETED",
               "CANCELLED"}
InvoiceStatuses == {"PENDING", "APPROVED", "PAID", "OVERDUE", "DISPUTED",
                    "CANCELLED"}
PaymentStatuses == {"REQUESTED", "APPROVED", "PROCESSED", "FAILED", "CANCELLED"}

Statuses == ContractStatuses \cup PRStatuses \cup QuotationStatuses
              \cup POStatuses \cup InvoiceStatuses \cup PaymentStatuses

StatusesOf(k) ==
    CASE k = "contract" -> ContractStatuses
      [] k = "pr" -> PRStatuses
      [] k = "quotation" -> QuotationStatuses
      [] k = "order" -> POStatuses
      [] k = "invoice" -> InvoiceStatuses
      [] k = "payment" -> PaymentStatuses

Creates == {"create", "wfCreate", "fromPR"}
Ops == Creates \cup {"update", "approve", "cancel", "delete", "addVendors",
                     "removeVendor", "updateStatus", "dispute", "process",
                     "receive", "fail"}

\* The statuses whose history decides something later: those that other
\* documents or the next transition need.
Remembered(k) ==
    CASE k = "contract" -> ContractStatuses
      [] k = "order" -> POStatuses
      [] k \in {"pr", "payment"} -> {"APPROVED"}
      [] OTHER -> {}

\* The table, the method, the document (none yet for a create), the caller,
\* the status an update or a decision asks for, the documents a create names
\* and whether it names vendors.
JobType == [kind : Kinds, op : Ops, doc : Docs \cup {NoDoc}, user : Users,
            to : Statuses \cup {Keep}, bases : SUBSET Docs, vendors : BOOLEAN]

ASSUME DocumentsAssumption ==
    /\ IsFiniteSet(Slots)
    /\ Kind \in [Docs -> Kinds]
    /\ OrderMoves \subseteq POStatuses \cup {Gone}
    /\ Jobs \subseteq JobType
    /\ NoJob \notin Jobs /\ NoDoc \notin Docs /\ NoUser \notin Users
    /\ \A j \in Jobs :
         /\ j.op \in Creates <=> j.doc = NoDoc
         /\ j.doc \in Docs => Kind[j.doc] = j.kind
         /\ j.to \in StatusesOf(j.kind) \cup {Keep}
         /\ j.op = "fromPR" => j.kind = "order"
         /\ j.kind = "order" => j.op \in Creates
         /\ j.op = "process" => j.kind = "payment"
         /\ j.op = "approve" => j.to # Keep

VARIABLES
    \* the tables
    status,     \* ABSENT before the insert
    gone,       \* documents whose deletedAt is set
    maker,      \* requester or owner
    rests,      \* the documents each document names: its foreign keys
    \* history
    visited,    \* every Remembered status each document ever had
    settled,    \* how often a payment was processed since it was approved
    afterlife,  \* writes on a document that was already deleted
    \* the requests being served
    pc, job, target,
    on,         \* documents a create will name
    left        \* those it has not checked yet

tables == <<status, gone, maker, rests>>
history == <<visited, settled, afterlife>>
request == <<job, target, on, left>>
vars == <<tables, history, pc, request>>

Points == {"idle", "readpr", "check", "insert", "vendors", "read", "write",
           "emit", "announce"}

TypeOK ==
    /\ status \in [Docs -> Statuses \cup {Absent}]
    /\ gone \subseteq Docs
    /\ maker \in [Docs -> Users \cup {NoUser}]
    /\ rests \in [Docs -> SUBSET Docs]
    /\ visited \in [Docs -> SUBSET Statuses]
    /\ settled \in [Docs -> Nat]
    /\ afterlife \in [Docs -> Nat]
    /\ pc \in [Slots -> Points]
    /\ job \in [Slots -> Jobs \cup {NoJob}]
    /\ target \in [Slots -> Docs \cup {NoDoc}]
    /\ on \in [Slots -> SUBSET Docs]
    /\ left \in [Slots -> SUBSET Docs]

Init ==
    /\ status = [d \in Docs |-> Absent]
    /\ gone = {}
    /\ maker = [d \in Docs |-> NoUser]
    /\ rests = [d \in Docs |-> {}]
    /\ visited = [d \in Docs |-> {}]
    /\ settled = [d \in Docs |-> 0]
    /\ afterlife = [d \in Docs |-> 0]
    /\ pc = [s \in Slots |-> "idle"]
    /\ job = [s \in Slots |-> NoJob]
    /\ target = [s \in Slots |-> NoDoc]
    /\ on = [s \in Slots |-> {}]
    /\ left = [s \in Slots |-> {}]

-----------------------------------------------------------------------------
\* What the methods demand of the document they read, the status they write
\* and whether they emit an event.  A guard sees the row as findOne read it.

Exists(d) == status[d] # Absent
Live(d) == Exists(d) /\ d \notin gone

Mine(j) == maker[j.doc] = j.user
Is(j, roles) == Role[j.user] \in roles

\* Purchase requisitions.  update writes whatever status the caller names, so
\* a requester may approve his own; no endpoint calls cancel.
PRUpdate(j) ==
    [may |-> /\ status[j.doc] = "PENDING"
             /\ Mine(j) \/ Is(j, {"ADMIN", "MANAGER", "APPROVER"}),
     to |-> j.to, event |-> FALSE]
PRApprove(j) ==
    [may |-> /\ status[j.doc] = "PENDING"
             /\ Is(j, {"ADMIN", "MANAGER", "APPROVER"}),
     to |-> j.to, event |-> TRUE]
PRCancel(j) ==
    [may |-> /\ status[j.doc] # "APPROVED"
             /\ Mine(j) \/ Is(j, {"ADMIN", "MANAGER"}),
     to |-> "CANCELLED", event |-> TRUE]
PRDelete(j) ==
    [may |-> /\ status[j.doc] \in {"PENDING", "REJECTED"}
             /\ Mine(j) \/ Is(j, {"ADMIN", "MANAGER"}),
     to |-> Gone, event |-> TRUE]

\* Contracts.
\* isValidStatusTransition
ContractTransition(from, to) ==
    \/ from = "DRAFT" /\ to = "IN_PROGRESS"
    \/ from = "IN_PROGRESS" /\ to \in {"COMPLETED", "TERMINATED"}
    \/ from = "COMPLETED" /\ to = "CLOSED"

TakesVendors(d) ==
    IF Kind[d] = "contract" THEN status[d] \notin {"COMPLETED", "CLOSED"}
                            ELSE status[d] \notin {"COMPLETED", "CANCELLED"}

\* Fault: a status that is set is not validated.
FaultyContractUpdate(j) ==
    [may |-> TRUE, to |-> j.to, event |-> j.to # Keep]

ContractUpdate(j) ==
    [may |-> j.to # Keep => ContractTransition(status[j.doc], j.to),
     to |-> j.to, event |-> j.to # Keep]
ContractAddVendors(j) ==
    [may |-> TakesVendors(j.doc), to |-> Keep, event |-> TRUE]
ContractRemoveVendor(j) == [may |-> TRUE, to |-> Keep, event |-> FALSE]
ContractDelete(j) ==
    [may |-> status[j.doc] = "DRAFT", to |-> Gone, event |-> TRUE]

\* Quotations.
QuotationUpdate(j) == [may |-> TRUE, to |-> j.to, event |-> FALSE]
QuotationDelete(j) == [may |-> TRUE, to |-> Gone, event |-> FALSE]

\* Invoices.
InvoiceUpdate(j) ==
    [may |-> status[j.doc] \notin {"APPROVED", "PAID"}, to |-> j.to,
     event |-> FALSE]
InvoiceApprove(j) ==
    [may |-> status[j.doc] = "PENDING", to |-> "APPROVED", event |-> TRUE]
InvoiceUpdateStatus(j) == [may |-> TRUE, to |-> j.to, event |-> TRUE]
InvoiceDispute(j) == [may |-> TRUE, to |-> "DISPUTED", event |-> FALSE]
InvoiceCancel(j) ==
    [may |-> status[j.doc] # "PAID", to |-> "CANCELLED", event |-> FALSE]
InvoiceDelete(j) ==
    [may |-> status[j.doc] \in {"PENDING", "CANCELLED"}, to |-> Gone,
     event |-> FALSE]

\* Payments.
PaymentUpdate(j) ==
    [may |-> status[j.doc] \notin {"APPROVED", "PROCESSED"}, to |-> j.to,
     event |-> FALSE]
PaymentApprove(j) ==
    [may |-> status[j.doc] = "REQUESTED", to |-> "APPROVED", event |-> TRUE]

\* Fault: a payment that was processed before is processed again.
FaultyPaymentProcess(j) ==
    [may |-> status[j.doc] \in {"APPROVED", "PROCESSED"}, to |-> "PROCESSED",
     event |-> TRUE]

PaymentProcess(j) ==
    [may |-> status[j.doc] = "APPROVED", to |-> "PROCESSED", event |-> TRUE]
PaymentReceive(j) == [may |-> TRUE, to |-> Keep, event |-> FALSE]
PaymentFail(j) == [may |-> TRUE, to |-> "FAILED", event |-> FALSE]
PaymentCancel(j) ==
    [may |-> status[j.doc] # "PROCESSED", to |-> "CANCELLED", event |-> FALSE]
PaymentDelete(j) ==
    [may |-> status[j.doc] \in {"REQUESTED", "CANCELLED"}, to |-> Gone,
     event |-> FALSE]

Method(j) ==
    CASE j.kind = "pr" ->
           (CASE j.op = "update" -> PRUpdate(j)
              [] j.op = "approve" -> PRApprove(j)
              [] j.op = "cancel" -> PRCancel(j)
              [] OTHER -> PRDelete(j))
      [] j.kind = "contract" ->
           (CASE j.op = "update" -> ContractUpdate(j)
              [] j.op = "addVendors" -> ContractAddVendors(j)
              [] j.op = "removeVendor" -> ContractRemoveVendor(j)
              [] OTHER -> ContractDelete(j))
      [] j.kind = "quotation" ->
           (IF j.op = "update" THEN QuotationUpdate(j) ELSE QuotationDelete(j))
      [] j.kind = "invoice" ->
           (CASE j.op = "update" -> InvoiceUpdate(j)
              [] j.op = "approve" -> InvoiceApprove(j)
              [] j.op = "updateStatus" -> InvoiceUpdateStatus(j)
              [] j.op = "dispute" -> InvoiceDispute(j)
              [] j.op = "cancel" -> InvoiceCancel(j)
              [] OTHER -> InvoiceDelete(j))
      [] OTHER ->
           (CASE j.op = "update" -> PaymentUpdate(j)
              [] j.op = "approve" -> PaymentApprove(j)
              [] j.op = "process" -> PaymentProcess(j)
              [] j.op = "receive" -> PaymentReceive(j)
              [] j.op = "fail" -> PaymentFail(j)
              [] j.op = "cancel" -> PaymentCancel(j)
              [] OTHER -> PaymentDelete(j))

\* What each create demands of the documents it names, one query for each.
\* Fault: the contract may still be a draft.
FaultyPRCreate(b) == Kind[b] = "contract" => status[b] \in {"DRAFT", "IN_PROGRESS"}
PRCreate(b) == Kind[b] = "contract" => status[b] = "IN_PROGRESS"
OrderCreate(b) == Kind[b] = "pr" => status[b] = "APPROVED"
\* Fault: the status of the order is not looked at.
FaultyInvoiceCreate(b) == Kind[b] = "order"
InvoiceCreate(b) == Kind[b] = "order" => status[b] \in {"APPROVED", "COMPLETED"}
PaymentCreate(b) == Kind[b] \in {"order", "invoice"}

Admissible(k, b) ==
    /\ Live(b)
    /\ CASE k = "pr" -> PRCreate(b)
         [] k = "order" -> OrderCreate(b)
         [] k = "invoice" -> InvoiceCreate(b)
         [] k = "payment" -> PaymentCreate(b)
         [] OTHER -> TRUE

\* The order of the queries: the requisition before the contract, the order
\* before the invoice.
CheckedFirst(b, B) ==
    \/ Kind[b] \in {"pr", "order"}
    \/ \A c \in B : Kind[c] \notin {"pr", "order"}

\* The status a document is born with, and whether a create emits an event.
FirstStatus(k) ==
    CASE k \in {"contract", "order"} -> "DRAFT"
      [] k \in {"pr", "invoice"} -> "PENDING"
      [] k = "quotation" -> "SUBMITTED"
      [] k = "payment" -> "REQUESTED"

\* The roles the controllers admit.
PRRoles(op) ==
    IF op = "delete" THEN {"ADMIN", "MANAGER"} ELSE {"ADMIN", "BUYER", "MANAGER"}
ContractRoles(op) ==
    IF op = "delete" THEN {"ADMIN", "MANAGER"} ELSE {"ADMIN", "BUYER", "MANAGER"}
QuotationRoles(op) ==
    CASE op = "create" -> {"VENDOR", "ADMIN"}
      [] op = "update" -> {"ADMIN", "USER", "VENDOR"}
      [] OTHER -> {"ADMIN"}
InvoiceRoles(op) ==
    CASE op = "create" -> {"VENDOR", "ADMIN", "FINANCE"}
      [] op = "update" -> {"ADMIN", "FINANCE", "VENDOR"}
      [] op \in {"approve", "dispute"} -> {"ADMIN", "FINANCE", "MANAGER"}
      [] OTHER -> {"ADMIN", "FINANCE"}
PaymentRoles(op) ==
    CASE op \in {"create", "approve"} -> {"ADMIN", "FINANCE", "MANAGER"}
      [] op = "receive" -> {"VENDOR"}
      [] OTHER -> {"ADMIN", "FINANCE"}
\* WorkflowController: create-pr, create-po and approve-pr.
WorkflowRoles(op) ==
    IF op = "approve" THEN {"ADMIN", "MANAGER", "APPROVER"}
                      ELSE {"ADMIN", "BUYER", "MANAGER"}

Admitted(j) ==
    CASE j.kind = "pr" ->
           IF j.op \in {"wfCreate", "approve"} THEN WorkflowRoles(j.op)
                                               ELSE PRRoles(j.op)
      [] j.kind = "contract" -> ContractRoles(j.op)
      [] j.kind = "quotation" -> QuotationRoles(j.op)
      [] j.kind = "order" -> WorkflowRoles(j.op)
      [] j.kind = "invoice" -> InvoiceRoles(j.op)
      [] j.kind = "payment" -> PaymentRoles(j.op)

-----------------------------------------------------------------------------
\* Helpers.
GoTo(s, point) == pc' = [pc EXCEPT ![s] = point]

\* The request ends, with a success or an error.
End(s) ==
    /\ GoTo(s, "idle")
    /\ job' = [job EXCEPT ![s] = NoJob]
    /\ target' = [target EXCEPT ![s] = NoDoc]
    /\ on' = [on EXCEPT ![s] = {}]
    /\ left' = [left EXCEPT ![s] = {}]

SetStatus(d, st) ==
    /\ status' = [status EXCEPT ![d] = st]
    /\ visited' = [visited EXCEPT ![d] = @ \cup ({st} \cap Remembered(Kind[d]))]

\* The next await after a write: the event, if there is one.
Onward(s, event) ==
    IF event THEN GoTo(s, "emit") /\ UNCHANGED request ELSE End(s)

\* What is written on a deleted document.
CountAfterlife(d) ==
    afterlife' = IF d \in gone THEN [afterlife EXCEPT ![d] = @ + 1] ELSE afterlife

-----------------------------------------------------------------------------
\* A request arrives and passes the roles guard.
Begin(s, j) ==
    /\ pc[s] = "idle"
    /\ Role[j.user] \in Admitted(j)
    /\ job' = [job EXCEPT ![s] = j]
    /\ target' = [target EXCEPT ![s] = j.doc]
    /\ on' = [on EXCEPT ![s] = j.bases]
    /\ left' = [left EXCEPT ![s] = j.bases]
    /\ GoTo(s, CASE j.op = "fromPR" -> "readpr"
                 [] j.op \in {"create", "wfCreate"} /\ j.bases # {} -> "check"
                 [] j.op \in {"create", "wfCreate"} /\ j.bases = {} -> "insert"
                 [] OTHER -> "read")
    /\ UNCHANGED <<tables, history>>

\* createFromPR reads the requisition; the order will name it and its contract.
ReadPR(s) ==
    /\ pc[s] = "readpr"
    /\ LET B == job[s].bases \cup UNION {rests[r] : r \in job[s].bases} IN
         \/ /\ \A r \in job[s].bases : Live(r) /\ status[r] = "APPROVED"
            /\ on' = [on EXCEPT ![s] = B]
            /\ left' = [left EXCEPT ![s] = B]
            /\ GoTo(s, "check")
            /\ UNCHANGED <<job, target>>
         \/ /\ \E r \in job[s].bases : ~(Live(r) /\ status[r] = "APPROVED")
            /\ End(s)
    /\ UNCHANGED <<tables, history>>

\* create: one of the documents it names is looked at.
CheckBase(s) ==
    /\ pc[s] = "check"
    /\ \E b \in left[s] :
         /\ CheckedFirst(b, left[s])
         /\ \/ /\ Admissible(job[s].kind, b)
               /\ left' = [left EXCEPT ![s] = @ \ {b}]
               /\ GoTo(s, IF left[s] = {b} THEN "insert" ELSE "check")
               /\ UNCHANGED <<job, target, on>>
            \/ /\ ~Admissible(job[s].kind, b)
               /\ End(s)
    /\ UNCHANGED <<tables, history>>

\* create: the document is inserted, unless its number is taken or another
\* check fails.  The documents it names are not looked at again.
InsertDoc(s) ==
    /\ pc[s] = "insert"
    /\ \/ \E d \in Docs :
            /\ Kind[d] = job[s].kind /\ ~Exists(d)
            /\ SetStatus(d, FirstStatus(Kind[d]))
            /\ maker' = [maker EXCEPT ![d] = job[s].user]
            /\ rests' = [rests EXCEPT ![d] = on[s]]
            /\ \/ /\ job[s].kind # "quotation"
                  /\ GoTo(s, IF job[s].vendors THEN "vendors" ELSE "emit")
                  /\ target' = [target EXCEPT ![s] = d]
                  /\ UNCHANGED <<job, on, left>>
               \/ /\ job[s].kind = "quotation"
                  /\ End(s)
       \/ /\ End(s)
          /\ UNCHANGED <<status, maker, rests, visited>>
    /\ UNCHANGED <<gone, settled, afterlife>>

\* create: addVendors reads the document again and inserts the vendors.  When
\* it throws, create answers an error and the document stays.
AddVendors(s) ==
    /\ pc[s] = "vendors"
    /\ \/ /\ Live(target[s]) /\ TakesVendors(target[s])
          /\ GoTo(s, "emit")
          /\ UNCHANGED request
       \/ End(s)
    /\ UNCHANGED <<tables, history>>

\* Fault: a deleted document is found.
FaultyRead(s) ==
    /\ pc[s] = "read"
    /\ \/ /\ Exists(target[s]) /\ Method(job[s]).may
          /\ GoTo(s, "write")
          /\ UNCHANGED request
       \/ /\ ~(Exists(target[s]) /\ Method(job[s]).may)
          /\ End(s)
    /\ UNCHANGED <<tables, history>>

\* findOne and every guard of the method.
Read(s) ==
    /\ pc[s] = "read"
    /\ \/ /\ Live(target[s]) /\ Method(job[s]).may
          /\ GoTo(s, "write")
          /\ UNCHANGED request
       \/ /\ ~(Live(target[s]) /\ Method(job[s]).may)
          /\ End(s)
    /\ UNCHANGED <<tables, history>>

\* The status is written by id, on the row as it is now.
WriteStatus(s) ==
    LET d == target[s]
        to == Method(job[s]).to
    IN
    /\ pc[s] = "write"
    /\ to \in Statuses
    /\ SetStatus(d, to)
    /\ settled' = [settled EXCEPT ![d] = IF to = "APPROVED" THEN 0
                                         ELSE IF job[s].op = "process" THEN @ + 1
                                         ELSE @]
    /\ CountAfterlife(d)
    /\ Onward(s, Method(job[s]).event)
    /\ UNCHANGED <<gone, maker, rests>>

\* Other fields or rows of the document are written.
WriteFields(s) ==
    /\ pc[s] = "write"
    /\ Method(job[s]).to = Keep
    /\ CountAfterlife(target[s])
    /\ Onward(s, Method(job[s]).event)
    /\ UNCHANGED <<tables, visited, settled>>

\* delete: deletedAt is set by id.
WriteDeletion(s) ==
    /\ pc[s] = "write"
    /\ Method(job[s]).to = Gone
    /\ gone' = gone \cup {target[s]}
    /\ CountAfterlife(target[s])
    /\ Onward(s, Method(job[s]).event)
    /\ UNCHANGED <<status, maker, rests, visited, settled>>

\* EventService.emit, whose failure fails the request but undoes nothing.  The
\* workflow emits an event of its own after a create.
Emit(s) ==
    /\ pc[s] = "emit"
    /\ \/ /\ job[s].op \in {"wfCreate", "fromPR"}
          /\ GoTo(s, "announce")
          /\ UNCHANGED request
       \/ End(s)
    /\ UNCHANGED <<tables, history>>
Announce(s) ==
    /\ pc[s] = "announce"
    /\ End(s)
    /\ UNCHANGED <<tables, history>>

\* What PurchaseOrder does to the orders, as its PathRespected and OrderInv
\* allow it: a status is reached from one the order had, and an order that
\* was a draft may be deleted.
OrderTransition(from, to) ==
    \/ from = "DRAFT" /\ to \in {"APPROVED", "CANCELLED"}
    \/ from = "APPROVED" /\ to \in {"IN_PROGRESS", "CANCELLED"}
    \/ from = "IN_PROGRESS" /\ to \in {"DELIVERED", "CANCELLED"}
    \/ from = "DELIVERED" /\ to = "COMPLETED"

MoveOrder(d) ==
    /\ Kind[d] = "order" /\ Exists(d)
    /\ \E to \in OrderMoves \cap POStatuses :
         /\ \E from \in visited[d] : OrderTransition(from, to)
         /\ SetStatus(d, to)
    /\ UNCHANGED <<gone, maker, rests, settled, afterlife, pc, request>>

DeleteOrder(d) ==
    /\ Kind[d] = "order" /\ Exists(d)
    /\ Gone \in OrderMoves
    /\ gone' = gone \cup {d}
    /\ UNCHANGED <<status, maker, rests, history, pc, request>>

Step(s) ==
    \/ ReadPR(s) \/ CheckBase(s) \/ InsertDoc(s) \/ AddVendors(s) \/ Read(s)
    \/ WriteStatus(s) \/ WriteFields(s) \/ WriteDeletion(s)
    \/ Emit(s) \/ Announce(s)

Next ==
    \/ \E s \in Slots, j \in Jobs : Begin(s, j)
    \/ \E s \in Slots : Step(s)
    \/ \E d \in Docs : MoveOrder(d) \/ DeleteOrder(d)

Spec == Init /\ [][Next]_vars
=============================================================================
