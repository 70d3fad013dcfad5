# TLA+ models of the e-procurement backend

The repository is a NestJS service (`src/src`) over one PostgreSQL database
through Prisma, with a small scoring service in Go (`src/go-scoring`) and
maintenance scripts (`src/scripts`).  Each HTTP request runs one service method
in a single Node.js process; requests interleave wherever a method awaits a
statement.  Only three methods (`BudgetService.allocate`, `transfer`, `deduct`)
use a transaction.  Everything else reads, decides, and writes later, and that
gap is what most of the models are about.

## 1. Inventory

| Component | State it keeps | Operations | Hard behaviour |
|---|---|---|---|
| Budget ledger (`modules/budget`) | `budgets`, `budget_allocations`, `budget_transfers`, PO and invoice items | create, allocate, transfer, deduct, usage report | lost funds check under READ COMMITTED, lock order, transaction timeout, second connection for audit and event |
| Event outbox (`modules/events`) | `outbox` rows | emit | row written outside the caller's transaction; failure propagates |
| Audit (`modules/audit`) | `audit_logs` | log | swallows its errors |
| Purchase orders (`modules/purchase-order`) | `purchase_orders`, `po_vendors` | create, update, approve, delete, add and remove vendors | four separate commits in create; read and write apart in the others |
| Workflow (`modules/workflow`) | rows of the other services, goods receipts | approve and convert documents, publish, close, award | calls several services in turn; a later failure leaves the earlier ones |
| Contracts, purchase requisitions, quotations | documents with a status and a `deletedAt` | create, update, approve, delete, vendors of a contract | a base that changes between its check and the insert; a status or a deletion written over a later one |
| Invoices, payments | documents with a status and amounts | create, update, approve, dispute, process, fail, cancel, delete | double processing, an invoice on an order that was cancelled meanwhile |
| Tenders, bids | tenders, bids | publish, submit, close, evaluate, award | bids racing the close, two awards, resubmission |
| Authentication (`modules/auth`) | `users`, `refresh_tokens`, the tokens given out | register, create a vendor's account, verify, login, refresh, logout | a logout during a refresh; two requests for one username |
| Roles (`modules/role-config`) | `rbac_config`, `user_rbac_roles` | create, update, delete, assign, remove; expiry | names in a token outlive the role; delete after a count, with a cascade |
| Vendors, currencies, organisation structure | reference rows and the columns that name them | create, update, rate, delete, assign an organisation to a place | check then write, count then delete, foreign keys that clear columns |
| Document numbers (`generate*Number`) | a count of rows | next number | count then insert |
| Tenant keys (`common/crypto`, `scripts/rotate-tenant-keys.ts`) | wrapped data keys, the active version, a cache | get active key, rotate | a cache that is never invalidated, a rotation without a transaction |
| Scoring (`go-scoring`) | none | score a bid | numeric edges |
| Statistics, transactions, master data, tenants | none, or rows written once | reports, lookups, provisioning | none that a model reaches |

The components talk by direct calls (workflow calls the order, requisition and
tender services; orders call the budget service) and through rows they share.
What makes each correct:

* **Budget ledger**: money is neither lost nor invented; a posted change is
  announced; a budget is opened once; every call returns.
* **Purchase orders**: an order goes through its stages in order; a success
  means the whole request was done; what an order commits is what it took.
* **Tenders and bids**: a vendor has one bid on a tender; no bid without a
  publication, no evaluation without a close, no order without an acceptance; a
  success means the whole request was done; late submissions come to an end.
* **Documents**: nothing is raised on a document that never had the status it
  needs; a contract skips no stage; a deleted document comes to rest; a payment
  is processed after its approval, and not over and over.
* **Authentication and roles**: only verified accounts get tokens; a revoked
  refresh token and a lost role come to rest; deleting a role takes it from
  nobody whom the check has seen.
* **Reference data**: no column names a row that is gone; a document keeps its
  currency; a deleted vendor comes to rest; an organisation is assigned to one
  place at a time.

`PROJECT.json` lists every component with its status, and under `hazards` the
places in the code where these can go wrong.

## 2. Modules

| Module | What it is |
|---|---|
| `BudgetOps` | the requests of the budget service, shared by the two levels |
| `BudgetBook` | what the ledger promises: atomic postings after an announcement |
| `BudgetLedger` | the service, one action per database statement, with its environment |
| `BudgetLedgerProperties` | safety, action and liveness properties, the refinement to `BudgetBook` |
| `BudgetLedgerInvariant` | the inductive invariant `IInv` |
| `BudgetLedgerProofs` | the theorems |
| `MCBudgetLedger` + 3 cfg | the instances TLC checks |
| `PurchaseOrder` | orders, goods receipts and their requests, read and write apart |
| `PurchaseOrderProperties` | properties, and the use of the budget as a behaviour of `BudgetBook` |
| `PurchaseOrderInvariant`, `PurchaseOrderProofs` | the inductive invariant `OrderInv`, the theorems |
| `OrderPath`, `OrderPathProofs` | what may become of an order row, whoever writes it; its consequences |
| `PurchaseOrderRefinements` | theorems: orders implement `BudgetBook` and `OrderPath` |
| `MCPurchaseOrder` + 1 cfg | the instance TLC checks |
| `TenderDossier` | what sourcing promises: the order in which the facts about a tender are established |
| `Sourcing` | tenders, bids, awards and their requests, read and write apart |
| `SourcingProperties` | properties, and the refinement to `TenderDossier` |
| `SourcingInvariant`, `SourcingProofs` | the inductive invariant `SourcingInv`, the theorems |
| `MCSourcing` + 2 cfg | the instances TLC checks |
| `DocumentChain` | what the procurement chain promises: a document is raised on documents that were granted before |
| `Documents` | contracts, requisitions, quotations, invoices, payments and their requests, read and write apart |
| `DocumentsProperties` | properties, and the refinements to `DocumentChain` and, for its orders, `OrderPath` |
| `DocumentsInvariant`, `DocumentsProofs` | the inductive invariant `DocumentsInv`, the theorems |
| `MCDocuments` + 3 cfg | the instances TLC checks |
| `Sessions` | accounts, access and refresh tokens, roles and their assignments, time |
| `SessionsProperties` | safety and action properties, and the fading of lost roles |
| `SessionsInvariant`, `SessionsProofs` | the inductive invariant `SessionsInv`, the theorems |
| `MCSessions` + 2 cfg | the instances TLC checks |
| `ReferenceData` | vendors, currencies, the organisation structure, and the rows that name them |
| `ReferenceDataProperties` | properties |
| `ReferenceDataInvariant`, `ReferenceDataProofs` | the inductive invariant `ReferenceDataInv`, the theorems |
| `MCReferenceData` + 1 cfg | the instance TLC checks |

### BudgetLedger

`rows`, `total`, `avail` are the `budgets` table (`Budget.totalAmount`,
`availableAmount`); `allocated`, `sent`, `received`, `deducted` are the sums of
the committed record rows and deductions; `outbox` is the set of calls whose
event row exists.  `tx`, `lock`, `staged`, `inserted` are what PostgreSQL keeps
for open transactions.  `pc`, `op`, `result` follow each service call.

One action stands for one awaited statement: `CheckBudget`, `InsertBudget`
(create), `ReadBudget` (the `findFirst` and the funds comparison),
`InsertRecord` (one allocation or transfer row), `Debit` and `Credit` (the
`decrement` and `increment` updates, which lock rows), `Emit`, `Commit`.
The environment adds `Expire` (Prisma's interactive transaction timeout: the
database rolls back, the callback runs on until its next statement),
`StatementOnClosedTx`, `PoolTimeout`, `DeadlockAbort` and `Crash`.  The database
and Prisma are modelled from how `src/` uses them and marked external in the map.

Audit rows are left out: `AuditService.log` swallows its errors and nothing
reads the rows.  Money is counted in whole units; PO and invoice item rows,
which belong to the same transaction, are not told apart from it.  Amounts are
natural numbers, as the request schemas require; `deduct` called from
`PurchaseOrderService.create` is not behind those schemas, and the models assume
the amounts of orders are not negative either.

### PurchaseOrder

`status`, `deleted`, `creator`, `approver`, `committed` are the columns of
`purchase_orders`; `received` the orders with a goods receipt; `avail` and
`deducted` the one budget.  `visited` is history.  A slot serves one request at
a time: `pc`, `job`, `target`, `answer`, and `half` for the second half of a
workflow approval, which runs `approve` and then `update`.

`Read` is `findOne` with every guard of the method, `WriteUpdate`,
`WriteApproval` and `WriteDeletion` are the writes by id that follow, `Emit` the
event, whose failure fails the request.  create is `PreCheck` (the budget is
read), `InsertPO`, `AddVendors`, `VerifyFunds` and `Deduct`
(`BudgetService.deduct`), `Emit`; `InsertReceipt` is the receipt row of
`createGoodsReceipt`.  A statement that may fail for reasons outside the model
(a taken number, a missing required column in the vendor rows, a lost
transaction) has a failing alternative.

The ledger of `PurchaseOrder` is not `BudgetLedger` itself but the book it
implements: `DeductsByTheBook` says that what orders do to the budget is a
behaviour of `BudgetBook`, and `BookSpec` says that `BudgetLedger` is one too.
What all orders took together (`TakenByAll`) is the size of a set of `Units`, one
for each unit of money and the order that took it; a sum folded over the orders
would be the same number, but nothing about it could be proved.

`OrderPath` is what the rest of the system relies on: an order is inserted once,
takes statuses only after one that leads to them, and is deleted after it was
inserted.  `PurchaseOrder` implements it (`KeepsPath`), and `Documents` takes the
moves of its orders from it.

### Sourcing

`tstatus`, `creator`, `linked` (a `contractId`) and `expired` (a `closingDate`
that has passed) are the columns of `tenders`; `bstatus`, `bidOn`, `bidder` those
of `bids`; `order` says from which bid each order of an award was created.
`visited`, `seen`, `wins` and `late` are history: what tenders and bids ever
were, how often a bid was accepted, how many submissions came late.  A slot
serves one request at a time, as in `PurchaseOrder`; `found` is the bid it has
in hand.

| Actions | Code |
|---|---|
| `InsertTender` | `createTender`, `createTenderFromContract` |
| `ReadTender`, `CountBids`, `WriteUpdate` | `updateTender` |
| `ReadTender`, `WritePublished` | `publishTender`, by itself and through the workflow, which passes the role `ADMIN` |
| `ReadTender`, `DeleteRow` | `deleteTender`; the schema deletes the bids with the tender |
| `ReadForBid`, `LookupBid`, `Resubmit` or `InsertBid` | `submitBid` |
| `WriteClosed` | `closeTender`, which writes without a look at the status |
| `ReadForEvaluation`, `WriteEvaluation` | `evaluateBid` |
| `WriteAwarded`, `AcceptWinner`, `RejectLosers`, `PlaceOrder` | `awardTender`, four separate commits |
| `WriteMissing`, `BidRefused` | a row that a write by id does not find, or the unique index of `bids` |
| `Emit` | the event, whose failure fails the request |
| `Deadline` | the clock passes a closing date |

A process that dies between two statements of a request is the same as a slot
that takes no further step: no fairness is assumed, so the behaviours of `Spec`
include it.

`BidService` is not an action of the model.  `createBid` inserts without the
required `tenantId` (nothing supplies it: the Prisma client in use has no
`$use`, so the tenancy middleware is not installed) and takes the user's id for
the vendor's; `updateBid` and `submitBid` compare `vendorId`, which refers to
`vendors`, with the user's id.  None of them gets as far as a write.  The bids
of the model are those of the workflow and the draft of the seed.

The order of an award is counted, not followed: what happens to it is
`PurchaseOrder`, whose `create` the award calls.  Of it only the outcomes are
here: refused before the insert, done, or failed after the insert.

### Documents

The five services have one shape, so one module models them: `status`, `gone`
(a `deletedAt`), `maker` (requester or owner) and `rests` (the foreign keys) are
the columns of the five tables, and a record for each method (`PRUpdate`,
`InvoiceApprove`, `PaymentProcess`, ...) says what the method demands of the row
it read, which status it writes and whether it emits an event.  `Admitted` is
the `@Roles` of the controllers.

| Actions | Code |
|---|---|
| `ReadPR` | `createFromPR`, which reads the requisition before it calls create |
| `CheckBase`, `InsertDoc`, `AddVendors` | the creates: one query for each document named, then the insert, then the vendors |
| `Read`, then `WriteStatus`, `WriteFields` or `WriteDeletion` | every other method: `findOne` and the guards, then the write by id |
| `Emit`, `Announce` | the event of the service, and the one of the workflow after it |
| `MoveOrder`, `DeleteOrder` | what happens to orders meanwhile |

`visited`, `settled` and `afterlife` are history: the statuses a row had, how
often a payment was processed since it was approved, the writes on a deleted
row.  Orders are created here, from requisitions or not, and otherwise move as
`PathRespected` and `OrderInv` of `PurchaseOrder` allow: each status is reached
from one that the order had.  `OrderMoves` bounds which of these moves an
instance makes.  The update DTOs of the five services are interfaces, for which
Nest's `ValidationPipe` has no rules, so an update may carry any status; the
jobs of the model do too.

### Sessions

`users`, `verified` are the accounts; `roleRows`, `active` the rows of
`rbac_config`; `grants`, `expiring`, `lapsed` those of `user_rbac_roles`;
`owner`, `revoked`, `left` those of `refresh_tokens`.  `tokens` are the access
tokens given out, each with the role names it was signed with and the ticks it
has left: nobody stores them, and `RolesGuard` (`Administers`) asks nothing else.

| Actions | Code |
|---|---|
| `LookupAccount`, `InsertUser` | `register`, `createVendorUser` |
| `FindUnverified`, `SetVerified` | `verifyUser` |
| `FindAccount`, `LoadRoles`, `Issue` | `login` (and the end of `register`) |
| `ReadRefreshToken`, `ReadOwner`, `LoadRoles`, `Reissue` | `refreshToken` |
| `Revoke` | `logout` |
| `FindName`, `InsertRole`; `FindRole`, `WriteRole`; `FindRole`, `CountGrants`, `DeleteRole` | `RoleConfigService.create`, `update`, `delete` |
| `FindForAssign`, `ReadGrants`, `InsertGrant`; `FindGrant`, `DeleteGrant` | `UserRoleService.assign` (its `Promise.all` in any order), `remove` |
| `Lapse`, `Tick` | an `expiresAt` passes; a tick of the lifetime of an access token |

`lateNames` counts the tokens signed with a name since the account lost that
role, `lateRefresh` those signed from a refresh token since it was revoked;
`since` is what was assigned since a request looked.  Passwords, hashes and
signatures are left out: what fails for them is an alternative of the step.

### ReferenceData

`exists`, `used` and `refs` are the rows, those that ever were (ids are not used
twice) and the columns that name other rows; `deleted` and `inactive` a vendor's
`deletedAt` and `INACTIVE`.  A `link` is a row of `contract_vendors` or
`po_vendors`, a table of one column here.

| Actions | Code |
|---|---|
| `Check`, `CheckCompany`, `CheckPlant`, `Insert` | the creates, with the look at an assignment (`findFirst`) or at the rows named |
| `Find`, `Check`, `Write` | updates of vendors, structure rows and currencies, and `updateVendorRating` |
| `Find`, `Count`, `SoftDelete` or `Remove` | `deleteVendor`, `deleteCurrency`: the counts of one `Promise.all` in any order, then the write |
| `Remove` | the other deletions, by id |

What the schema does with a deleted row is part of `Remove`: `Restricted` is a
required column (the deletion fails), `Released` an optional one
(`onDelete: SetNull`).  `lateWrites` counts the writes to a vendor since its soft
deletion, `since` the rows that came to name a row since its counts began.
Codes and names are left out; an insert that a unique index refuses is the
alternative of a failure.

## 3. Runs

| Run | Shows |
|---|---|
| `budget_race` | 3 concurrent calls of every kind, 3 budgets, 2 connections: `IInv`, `Conservation`, `OverdraftBounded`, `PostedHasEvent`, `CreatedOnce`, refinement of `BudgetBook` |
| `budget_liveness` | every call returns (`EveryCallReturns`) |
| `budget_overspending` | violated: calls on one budget never overspend it (TC-PERF-003) |
| `order_race` | 2 concurrent requests of every kind: `OrderInv`, `PathRespected`, `OkMeansDone`, refinement of `OrderPath` and of `BudgetBook` (`DeductsByTheBook`) |
| `sourcing_race` | 2 concurrent requests on the seeded tender: `SourcingInv`, `TailBounded`, `OkMeansDone`, refinement of `TenderDossier` |
| `sourcing_life` | 2 concurrent requests over every endpoint, on one tender from creation to order or deletion: `SourcingInv`, `OneBidPerVendor`, `OkMeansDone`, `ReopeningSettles`, refinement of `TenderDossier` |
| `documents_chain` | 2 concurrent requests on a contract, its requisition, their order and a quotation: `DocumentsInv`, `ContractPath`, `DeletedSettles` |
| `documents_payables` | 2 concurrent requests on an order, its invoice and their payment: `DocumentsInv`, `SettlementsBounded` |
| `documents_approvals` | 2 concurrent requests along the chain from a contract to the invoice on its order, the order moving through every status: `ChainApproved`, refinement of `DocumentChain` |
| `sessions` | 2 concurrent requests on two accounts that want one username, two roles and one refresh token: `SessionsInv`, `RevocationSettles`, `LostNamesSettle`, `DeletionSparesAssigned` |
| `sessions_liveness` | a vendor who waits to be verified, one role, tokens of two ticks: `SessionsInv`, `TokensOnlyVerified`, `LostNamesFade`, `LostNamesOnlyFade` |
| `reference_data` | 2 concurrent requests on a small tenant: `ReferenceDataInv`, `CurrenciesKept`, `DeletedVendorsSettle`, `BothPlacesRefused` |

Many of these properties say how much of a race is left: a bound such as "less
than one write for each slot, and then never again" is what check-then-write
code promises, where the flat claim ("a deleted document is not written") is
false.  `budget_overspending` shows one such flat claim fail.

**Claims that the models contradict, not run.**  Each is a sentence of a
document, a comment or a message of the code, and each is weaker in the code
than it says:

* Budget and outbox: the outbox row belongs to the transaction (TC-TRANS-080,
  but `emit` writes on its own connection).
* Orders: completed or cancelled orders are not updated
  (`purchase-order.service.ts:384`, decided on an earlier read); an order deducts
  its commitment or is refused (TC-TRANS-056, TC-TRANS-059, but the order is
  inserted first and stays); cancelling frees the commitment (TC-TRANS-057); an
  approved order has an approver (TC-TRANS-031, but `update` approves without
  one); a goods receipt delivers its order (`workflow.service.ts:300`, after the
  receipt is inserted).
* Tenders: closing ends the submissions, and a tender has one winner
  (`TRANSACTION_PROCESS_FLOW.md` 2.4 and 2.6); only drafts are published
  (`publishTender` checks a status it read earlier); an award follows a close and
  an evaluation, and creates an order (`awardTender` looks at no status, and only
  a tender with a contract gets its order).
* Documents: a requisition, an invoice or a payment is approved by an approver
  (an update may carry the status); a processed payment is not processed again
  (two requests that both read `APPROVED` do); a contract only goes forward (a
  write over a later status takes it back); a requisition is raised under a
  contract in progress (which may be terminated in between); a failed create
  leaves nothing.
* Sessions: "Logout successful" (`AuthService.logout` catches a failed update);
  an assignment that has expired can be given again (`user-role.service.ts` counts
  it as existing).
* Reference data: a vendor without relations is deleted (`vendor.service.ts:336`;
  its invoices are not counted, and the schema refuses); a request that names an
  organisation, a company code and a plant is looked up (no assignment has both,
  so it is always refused); an assignment has a place (a deleted plant leaves one
  with neither).

**Bounds.**  The budget instances have three calls because two fill the pool
and the third finds it exhausted, and because a deadlock needs two and a
bystander; three budgets so that two lock each other out and one is created by
racing calls in another fiscal year; amounts 1 and 2 so that each request fits
its budget alone and no two do.  An allocation of two items is the shortest
whose loop can stop half way.  The order instances have two slots, the least
that interleave, two orders of which one fits the budget, and a user for
each outcome of the permission checks.  The sourcing instances have two slots
too, and one tender: `sourcing_race` starts from the seed and races submissions
with the end of the tender, `sourcing_life` starts from nothing and uses every
endpoint.  Two bids are a winner and a loser, or two submissions of one vendor;
two orders are one more than an award may create.  `MaxWins` is 1: a bid accepted
once is not awarded again by a request that begins later, while two awards under
way at once may both accept it.  An award that names a bid of another tender
needs two tenders, whose states are too many for a run; the theorems cover it, as
they do every value of `MaxWins`.

The document instances have two slots and one document of each table: a create
and a change of its base, or two writes of one row, are already two requests.
Chain and payables are apart because no request touches both ends; an order
stands in both.  `OrderMoves` is approval in the one, approval and deletion in
the other; `documents_approvals` has the four documents between a contract and
an invoice, a request that approves by each of the two ways there are, and every
move of the order.  `sessions` has two accounts because two must want one username,
two roles because an assignment of both can stop half way, one refresh token
because only its revocation races with its use; an access token lives one tick
and a refresh token two, the least that tells them apart.  `sessions_liveness`
has one account and one role, access tokens of two ticks, and no symmetry.  `reference_data` starts from a
company code, its plant, an organisation, a vendor and a currency, and each
document that names them is created once (ids are not used twice): a currency is
counted in three tables, one of which is empty throughout, and an assignment goes
to the company, to the plant, or is refused.  Slots and calls are symmetric; no
symmetry is used with liveness.

**Fairness.**  `FairSpec` assumes weak fairness of each call's own next step,
because the event loop runs every continuation whose statement can answer, and
of `Expire`, because Prisma's engine always closes a transaction that is over
its timeout.  Nothing is assumed of the deadlock detector or the callers.  `FairSpec` of `Sessions` assumes weak fairness of each request's own next step,
for the same reason, and of `Tick`, because the clock goes on; nothing is assumed
of callers, of assignments that lapse, or of which alternative a step takes.  The
other properties are safety properties and need none.

`CHECK_DEADLOCK FALSE` is used for the budget instances only: there every call
of the finite set has returned at the end.

## 4. Proofs

TLAPS proves, for every set of calls, budgets, requests, amounts and every pool
size (assumptions `OpsAssumption`, `PoolAssumption`), that `BudgetLedger`
implies `[]IInv`, and from it `TypeOK`, `Conservation`, `OverdraftBounded`,
`PostedHasEvent`, `CreatedOnce` and `BookSpec`.

*Why an inductive invariant.*  `Conservation` speaks of committed state, and a
commit adds what was staged.  So `IInv` records what each open transaction has
staged and inserted at each program point (`StagingMatchesPoints`), that its
budgets exist (`CheckedBudgetsExist`, `UnopenedEmpty`), and which point goes
with which kind of call and event (`PointsMatchOps`, `EventsMatchPoints`).
`OverdraftBounded` is not inductive at all: a budget may be at its bound while a
call that passed the check is about to draw more.  `DrawsCovered` says what
saves it: among the calls past their check on a budget, the last to read saw
enough for its own draw, and the others are at most the pool size less one.

For `PurchaseOrder` (assumption `JobsAssumption`) the theorems are
`OrderInvariance`, `OrderTypeCorrect`, `PathRespectedHolds`, `OkMeansDoneHolds`
and, in `PurchaseOrderRefinements`, `MoneyAccountedHolds`,
`DeductsByTheBookHolds`, `KeepsPathHolds` and `NoStageMissingInOrders`.  A writer acts on a status that may be gone, so
`PathRespected` needs `WritesJustified` (what justified the write stays in the
order's history) and `HistoryKept`; `OkMeansDone` needs what each request has
achieved at each point and that no two creates own one order (`CreatesApart`).

*Orders as a budget book.*  `BooksKept` strengthens `OrderInv` for the mapping to
`BudgetBook`: an order took what it commits or nothing, one that its create is
about to pay for took nothing yet, and the budget has what it had less the
`Units` of all orders (`MoneyAccounted`).  A deduction adds the units of one order
(`UnitsOfDeduction`), and that is all a cardinality needs.  `LedgerNext` then
maps an insert to an announcement, a deduction to a posting, and everything else
to a stutter.

*Orders in the documents.*  `Documents` does not contain `PurchaseOrder`: it moves
its orders by itself, which is an assumption, and the assumption is discharged
through `OrderPath`.  `KeepsPathHolds` says that whatever `PurchaseOrder` does to
the rows is a behaviour of `OrderPath`; `EveryOrderMove` that each move and
deletion that `OrderPath` allows is a step of `Documents` (for the full
`OrderMoves`), so nothing an order may do is left out; `DocumentsKeepPath` that
`Documents`, its inserts from requisitions included, does no more.  What is
proved of `OrderPath` alone (`PathInvariance`, `NoStageMissingHolds`,
`PathOnward`) then holds on both sides: `NoStageMissingInOrders` is obtained so for
`PurchaseOrder`, and `ChainApprovedHolds` uses it in `Documents`, where an invoice
on an order found completed is on one that was approved.

For `Sourcing` (assumption `SourcingAssumption`: finite sets of slots and orders,
well-formed requests and seeded drafts) the theorems are `SourcingInvariance`,
`SourcingTailBounded`, `SourcingOneBidPerVendor`, `SourcingOkMeansDone`,
`SourcingKeepsDossier`, `SourcingReopeningSettles`, `SourcingInOrder` and
`SourcingOnlyGrows`.  `TailBounded` is made inductive by counting, with the
late submissions of a tender, those that are past their check and still on their
way: the sum does not grow once the tender has stopped taking bids
(`LateGrows`, `SubmittingShrinks`), and it starts at nothing late (`OnTime`).
`OrdersPaid` is the same argument for orders: an award between the acceptance
and the order counts as one.  `RequestsEarned` keeps, for each point of each
request, the history its next write rests on; `RowsGrow` says that history and
placed bids are never taken back, so nothing another request does can spoil it
(`EarnedStays`, `DoneStays`).  `DossierNext` maps each of the eleven actions
that write rows to one action of `TenderDossier`.  Two facts are proved of the
dossier, with no mention of requests or rows, and carried over by that mapping:
every fact has those it rests on behind it (`InOrder`), and none is taken back
(`OnlyGrows`).  They hold although a closed tender may be published again:
`SourcingReopeningSettles` says how far that goes.  A request comes to publish a
tender only by reading it in `DRAFT` (`PublishingFollows`), to which no tender
returns, and nobody else publishes (`PublishedBy`); so once the requests that read
the draft are through, the tender never reopens.

For `Documents` (assumption `DocumentsAssumption`) the theorems are
`DocumentsInvariance`, `KeepsChainHolds`, `ContractPathHolds`,
`DeletedSettlesHolds`, `SettlementsBoundedHolds`, `ChainApprovedHolds`,
`NoCirclesInDocuments` and the two about orders above.  `BasesSound` keeps, for each
create, that the documents it has already checked were once granted, which no
later write takes back; `MovesSound` the same for a contract that is about to
move.  The two bounds are counting arguments: a write on a deleted document uses
up a request that was already past its read, and no new one gets there, so
`afterlife` plus the requests still writing does not grow; the request that
deletes is one of the slots and is spent.  `ApprovedUnsettled` starts the same
count for payments whenever one is approved.  `NoCirclesInDocuments` is proved of
`DocumentChain` and carried over: a document is raised on documents that are there
already, so that every chain of foreign keys comes to an end; `ChainApproved` joins
three of its links with the path of the order in the middle.

For `Sessions` (assumption `SessionsAssumption`) they are `SessionsInvariance`,
`RevocationSettlesHolds`, `LostNamesSettleHolds`, `TokensOnlyVerifiedHolds`,
`DeletionSparesAssignedHolds` and `LostNamesOnlyFadeHolds`.  `LostNamesSettle` and `RevocationSettles` count as
above (`SlotCounts`, `FewerSlots`), with the difference that a role which is held
again starts a new count.  `SubjectsVerified` and `RowsSound` carry what a request
found to the point where it acts on it.  `LostNamesOnlyFade` is the safety half of
`LostNamesFade`: a name is read only from a role that is held (`NamingFollows`),
tokens come only from signatures and go only by age (`TokenSteps`), and those that
carry a name age with the rest (`CarryingAges`).  What liveness adds is that the
clock goes on and that the requests under way end.

For `ReferenceData` (assumption `ReferenceDataAssumption`: well-formed requests,
seeded rows that name seeded rows) they are `ReferenceDataInvariance`,
`CurrenciesKeptHolds`, `DeletedVendorsSettleHolds` and `BothPlacesRefusedHolds`.
`NoDangling` needs that an insert resolves its names and a deletion releases
them; `CountsKept` says what a deletion that has counted some tables knows:
whatever names the row there came since (`FreshNoted`); `OnePlaceEach` is why a
request for both places finds no assignment.

Only model-checked: `EveryCallReturns` and `LostNamesFade`, since liveness under
fairness is out of the prover's reach.  Every other property of a passing run is
stated by a theorem.

## 5. Not modelled

* **Tenant keys.**  The only caller that encrypts is `BidService.createBid`, which
  fails before its insert (see Sourcing), so no row depends on a key; the rotation
  script runs by hand.  Once bids can be created, rotation against the cached key
  is the next thing to model: whatever a tenant encrypted, it can decrypt.
* **Document numbers.**  `generate*Number` counts and the unique index refuses a
  number that is taken; every insert of the models may fail for it.
* **Scoring, statistics, transactions, master data.**  No state: a pure
  computation in floating point, and read-only queries.  The floating-point sum
  of `allocate` is outside what TLC and the provers compute, too.
* **Tenants and configuration.**  `provisionTenant` runs once for a tenant; the
  others are single upserts.
* **Audit.**  `log` swallows its errors and nothing reads the rows.
* **What a role permits.**  The ability factory and the merged permission JSON are
  lookups on the names that `Sessions` follows.
* **Vendor lists of orders.**  `addVendors` and `removeVendor` as endpoints of
  their own touch rows that no property reads.
* **Scripts, seeds, wiring.**  Run on an idle database, or framework glue.

The composition is by promises, not by one large module: `PurchaseOrder` uses the
book that `BudgetLedger` implements, `Documents` moves orders as `PurchaseOrder`
proves that they move, and `Sourcing` counts the orders of an award.  What is
left to extend is the size of the instances (three slots for `Documents`,
`Sessions` and `ReferenceData`, two tenders for `Sourcing`), which the theorems
cover for every value of the constants.
