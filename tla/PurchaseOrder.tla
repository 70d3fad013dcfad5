---------------------------- MODULE PurchaseOrder ----------------------------
(***************************************************************************)
(* PurchaseOrderService and the purchase-order steps of WorkflowService.   *)
(*                                                                         *)
(* A request runs in a slot and interleaves with those of the other slots  *)
(* at each await.  No method uses a transaction: update, approve and       *)
(* delete read the order (findOne), decide on what they read, and then     *)
(* write it by id without looking again.  create verifies the budget,      *)
(* inserts the order and only then has BudgetService.deduct take the       *)
(* money; the ledger itself is BudgetLedger, of which this module keeps    *)
(* one budget and the two moments that matter: funds verified, deducted.   *)
(***************************************************************************)
EXTENDS Integers, FiniteSets

CONSTANTS Slots,      \* requests the process serves at a time
          POs,        \* identities of purchase orders
          Users,
          Role,       \* role of each user
          Jobs,       \* requests that may arrive
          NoJob,
          NoPO,
          NoUser,
          Funds       \* availableAmount of the budget at the start

Statuses == {"DRAFT", "APPROVED", "IN_PROGRESS", "DELIVERED", "COMPLETED",
             "CANCELLED"}
Terminal == {"COMPLETED", "CANCELLED"}
Absent == "ABSENT"
Same == "SAME"    \* an update that names no status

\* The endpoint, the order, the caller, the status an update or an approval
\* asks for, the amount a create commits on the budget (0: no budget) and
\* whether it names vendors.
JobType == [kind : {"create", "update", "approve", "delete", "wfApprove",
                    "receipt"},
            po : POs \cup {NoPO}, user : Users, to : Statuses \cup {Same},
            amount : Nat, vendors : BOOLEAN]

ASSUME JobsAssumption ==
    /\ Jobs \subseteq JobType
    /\ NoJob \notin Jobs /\ NoPO \notin POs /\ NoUser \notin Users
    /\ Funds \in Nat
    /\ \A j \in Jobs :
         /\ j.po = NoPO <=> j.kind = "create"
         /\ j.kind \in {"approve", "wfApprove"} => j.to \in {"APPROVED", "CANCELLED"}

VARIABLES
    \* the purchase_orders, goods_receipts and budgets tables
    status,      \* PurchaseOrder.status, ABSENT before the insert
    deleted,     \* orders whose deletedAt is set
    creator, approver,
    committed,   \* PurchaseOrder.totalCommitted
    received,    \* orders with a goods receipt
    avail,       \* Budget.availableAmount
    deducted,    \* what BudgetService.deduct took for each order
    visited,     \* history: every status each order ever had
    \* the requests being served
    pc, job, target, answer,
    half         \* slots in the second half of a workflow approval

vars == <<status, deleted, creator, approver, committed, received, avail,
          deducted, visited, pc, job, target, answer, half>>

orders == <<status, deleted, creator, approver, committed, visited>>
money == <<avail, deducted>>
request == <<job, target, half>>

Points == {"idle", "precheck", "insert", "vendors", "verify", "deduct",
           "receipt", "read", "write", "emit"}

TypeOK ==
    /\ status \in [POs -> Statuses \cup {Absent}]
    /\ deleted \subseteq POs
    /\ creator \in [POs -> Users \cup {NoUser}]
    /\ approver \in [POs -> Users \cup {NoUser}]
    /\ committed \in [POs -> Nat]
    /\ received \subseteq POs
    /\ avail \in Int
    /\ deducted \in [POs -> Nat]
    /\ visited \in [POs -> SUBSET Statuses]
    /\ pc \in [Slots -> Points]
    /\ job \in [Slots -> Jobs \cup {NoJob}]
    /\ target \in [Slots -> POs \cup {NoPO}]
    /\ answer \in [Slots -> {"none", "ok", "error"}]
    /\ half \subseteq Slots

Init ==
    /\ status = [p \in POs |-> Absent]
    /\ deleted = {}
    /\ creator = [p \in POs |-> NoUser]
    /\ approver = [p \in POs |-> NoUser]
    /\ committed = [p \in POs |-> 0]
    /\ received = {}
    /\ avail = Funds
    /\ deducted = [p \in POs |-> 0]
    /\ visited = [p \in POs |-> {}]
    /\ pc = [s \in Slots |-> "idle"]
    /\ job = [s \in Slots |-> NoJob]
    /\ target = [s \in Slots |-> NoPO]
    /\ answer = [s \in Slots |-> "none"]
    /\ half = {}

-----------------------------------------------------------------------------
\* Helpers.

GoTo(s, point) == pc' = [pc EXCEPT ![s] = point] /\ UNCHANGED answer

\* The request ends; job and target stay until the slot's next request.
Answer(s, a) ==
    /\ pc' = [pc EXCEPT ![s] = "idle"]
    /\ answer' = [answer EXCEPT ![s] = a]

\* isValidStatusTransition
ValidTransition(from, to) ==
    \/ from = "DRAFT" /\ to \in {"APPROVED", "CANCELLED"}
    \/ from = "APPROVED" /\ to \in {"IN_PROGRESS", "CANCELLED"}
    \/ from = "IN_PROGRESS" /\ to \in {"DELIVERED", "CANCELLED"}
    \/ from = "DELIVERED" /\ to = "COMPLETED"

\* The roles the controllers admit to each endpoint.
Admitted(kind) ==
    CASE kind \in {"create", "receipt"} -> {"ADMIN", "BUYER", "MANAGER"}
      [] kind = "update" -> {"ADMIN", "BUYER", "MANAGER", "FINANCE"}
      [] kind \in {"approve", "wfApprove"} ->
             {"ADMIN", "MANAGER", "FINANCE", "APPROVER"}
      [] kind = "delete" -> {"ADMIN", "MANAGER"}

\* findOne
Found(p) == status[p] # Absent /\ p \notin deleted

SetStatus(p, st) ==
    /\ status' = [status EXCEPT ![p] = st]
    /\ visited' = [visited EXCEPT ![p] = @ \cup {st}]

\* What the request is about to write.  A workflow approval runs approve and
\* then update to IN_PROGRESS; a goods receipt updates to DELIVERED.
Approving(s) ==
    \/ job[s].kind = "approve"
    \/ job[s].kind = "wfApprove" /\ s \notin half

Wanted(s) ==
    CASE job[s].kind = "receipt" -> "DELIVERED"
      [] s \in half -> "IN_PROGRESS"
      [] OTHER -> job[s].to

\* The guards of approve, delete and update, on the order as read.
MayUpdate(u, p) == creator[p] = u \/ Role[u] \in {"ADMIN", "MANAGER", "FINANCE"}
\* Fault: the transition is not validated.
FaultyAccepts(s) ==
    LET p == target[s] IN
    /\ Found(p)
    /\ \/ /\ Approving(s) \/ job[s].kind = "delete"
          /\ status[p] = "DRAFT"
       \/ /\ ~Approving(s) /\ job[s].kind # "delete"
          /\ status[p] \notin Terminal
          /\ MayUpdate(job[s].user, p)

Accepts(s) ==
    LET p == target[s] IN
    /\ Found(p)
    /\ \/ /\ Approving(s) \/ job[s].kind = "delete"
          /\ status[p] = "DRAFT"
       \/ /\ ~Approving(s) /\ job[s].kind # "delete"
          /\ status[p] \notin Terminal
          /\ MayUpdate(job[s].user, p)
          /\ Wanted(s) # Same => ValidTransition(status[p], Wanted(s))

-----------------------------------------------------------------------------
\* A request arrives and passes the roles guard.
Begin(s, j) ==
    /\ pc[s] = "idle"
    /\ Role[j.user] \in Admitted(j.kind)
    /\ job' = [job EXCEPT ![s] = j]
    /\ target' = [target EXCEPT ![s] = j.po]
    /\ pc' = [pc EXCEPT ![s] = CASE j.kind = "create" -> "precheck"
                                 [] j.kind = "receipt" -> "receipt"
                                 [] OTHER -> "read"]
    /\ answer' = [answer EXCEPT ![s] = "none"]
    /\ half' = half \ {s}
    /\ UNCHANGED <<orders, received, money>>

\* create: the budget is read and its funds verified, outside a transaction.
PreCheck(s) ==
    /\ pc[s] = "precheck"
    /\ \/ /\ avail >= job[s].amount
          /\ GoTo(s, "insert")
       \/ /\ avail < job[s].amount
          /\ Answer(s, "error")
    /\ UNCHANGED <<orders, received, money, request>>

AfterVendors(s) == IF job[s].amount > 0 THEN "verify" ELSE "emit"

\* Fault: an order whose number is taken is overwritten.
FaultyInsertPO(s) ==
    /\ pc[s] = "insert"
    /\ \E p \in POs :
         /\ SetStatus(p, "DRAFT")
         /\ creator' = [creator EXCEPT ![p] = job[s].user]
         /\ committed' = [committed EXCEPT ![p] = job[s].amount]
         /\ target' = [target EXCEPT ![s] = p]
         /\ GoTo(s, IF job[s].vendors THEN "vendors" ELSE AfterVendors(s))
    /\ UNCHANGED <<deleted, approver, received, money, job, half>>

\* create: the order is inserted with totalCommitted already set, unless
\* another one took its number since it was generated.
InsertPO(s) ==
    /\ pc[s] = "insert"
    /\ \/ \E p \in POs :
            /\ status[p] = Absent
            /\ SetStatus(p, "DRAFT")
            /\ creator' = [creator EXCEPT ![p] = job[s].user]
            /\ committed' = [committed EXCEPT ![p] = job[s].amount]
            /\ target' = [target EXCEPT ![s] = p]
            /\ GoTo(s, IF job[s].vendors THEN "vendors" ELSE AfterVendors(s))
       \/ /\ Answer(s, "error")
          /\ UNCHANGED <<status, visited, creator, committed, target>>
    /\ UNCHANGED <<deleted, approver, received, money, job, half>>

\* create: addVendors reads the order again and inserts the vendors.  When it
\* throws, create answers an error and leaves the order where it is.
AddVendors(s) ==
    /\ pc[s] = "vendors"
    /\ \/ /\ Found(target[s])
          /\ status[target[s]] \notin Terminal
          /\ GoTo(s, AfterVendors(s))
       \/ Answer(s, "error")
    /\ UNCHANGED <<orders, received, money, request>>
\* Fault: an error of deduct is caught and ignored.
FaultyVerifyFunds(s) ==
    /\ pc[s] = "verify"
    /\ GoTo(s, IF avail >= job[s].amount THEN "deduct" ELSE "emit")
    /\ UNCHANGED <<orders, received, money, request>>

\* create: deduct reads the budget again; the funds may be gone, or its
\* transaction may fail later, and the order stays.
VerifyFunds(s) ==
    /\ pc[s] = "verify"
    /\ \/ /\ avail >= job[s].amount
          /\ GoTo(s, "deduct")
       \/ Answer(s, "error")
    /\ UNCHANGED <<orders, received, money, request>>
\* Fault: deduct is retried although its transaction committed.
FaultyDeduct(s) ==
    /\ pc[s] = "deduct"
    /\ avail' = avail - job[s].amount
    /\ deducted' = [deducted EXCEPT ![target[s]] = @ + job[s].amount]
    /\ \E next \in {"deduct", "emit"} : GoTo(s, next)
    /\ UNCHANGED <<orders, received, request>>

\* create: deduct commits.
Deduct(s) ==
    /\ pc[s] = "deduct"
    /\ avail' = avail - job[s].amount
    /\ deducted' = [deducted EXCEPT ![target[s]] = @ + job[s].amount]
    /\ GoTo(s, "emit")
    /\ UNCHANGED <<orders, received, request>>

\* createGoodsReceipt: the receipt is inserted before the order is looked at;
\* only the foreign key must exist.
InsertReceipt(s) ==
    /\ pc[s] = "receipt"
    /\ \/ /\ status[target[s]] # Absent
          /\ received' = received \cup {target[s]}
          /\ GoTo(s, "read")
       \/ /\ Answer(s, "error")
          /\ UNCHANGED received
    /\ UNCHANGED <<orders, money, request>>

\* update, approve, delete: findOne and every guard.
Read(s) ==
    /\ pc[s] = "read"
    /\ IF Accepts(s) THEN GoTo(s, "write") ELSE Answer(s, "error")
    /\ UNCHANGED <<orders, received, money, request>>

\* delete: deletedAt is set by id.
WriteDeletion(s) ==
    /\ pc[s] = "write"
    /\ job[s].kind = "delete"
    /\ deleted' = deleted \cup {target[s]}
    /\ GoTo(s, "emit")
    /\ UNCHANGED <<status, creator, approver, committed, visited, received,
                   money, request>>
\* Fault: the approver is not recorded.
FaultyWriteApproval(s) ==
    /\ pc[s] = "write"
    /\ Approving(s)
    /\ SetStatus(target[s], job[s].to)
    /\ GoTo(s, "emit")
    /\ UNCHANGED <<deleted, creator, approver, committed, received, money,
                   request>>

\* approve: the status and the approver are set by id.
WriteApproval(s) ==
    /\ pc[s] = "write"
    /\ Approving(s)
    /\ SetStatus(target[s], job[s].to)
    /\ approver' = [approver EXCEPT ![target[s]] = job[s].user]
    /\ GoTo(s, "emit")
    /\ UNCHANGED <<deleted, creator, committed, received, money, request>>

\* update: the fields are set by id; without a status there is no event.
WriteUpdate(s) ==
    /\ pc[s] = "write"
    /\ job[s].kind # "delete" /\ ~Approving(s)
    /\ \/ /\ Wanted(s) # Same
          /\ SetStatus(target[s], Wanted(s))
          /\ GoTo(s, "emit")
       \/ /\ Wanted(s) = Same
          /\ Answer(s, "ok")
          /\ UNCHANGED <<status, visited>>
    /\ UNCHANGED <<deleted, creator, approver, committed, received, money,
                   request>>

\* EventService.emit, whose failure fails the request.  A workflow approval
\* that approved goes on to its update.
Emit(s) ==
    /\ pc[s] = "emit"
    /\ \/ /\ Answer(s, "error")
          /\ UNCHANGED half
       \/ /\ job[s].kind = "wfApprove" /\ job[s].to = "APPROVED" /\ s \notin half
          /\ half' = half \cup {s}
          /\ GoTo(s, "read")
       \/ /\ ~(job[s].kind = "wfApprove" /\ job[s].to = "APPROVED" /\ s \notin half)
          /\ Answer(s, "ok")
          /\ UNCHANGED half
    /\ UNCHANGED <<orders, received, money, job, target>>

Step(s) ==
    \/ PreCheck(s) \/ InsertPO(s) \/ AddVendors(s) \/ VerifyFunds(s)
    \/ Deduct(s) \/ InsertReceipt(s) \/ Read(s) \/ WriteDeletion(s)
    \/ WriteApproval(s) \/ WriteUpdate(s) \/ Emit(s)

Next ==
    \/ \E s \in Slots, j \in Jobs : Begin(s, j)
    \/ \E s \in Slots : Step(s)

Spec == Init /\ [][Next]_vars
=============================================================================
