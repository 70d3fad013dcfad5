---------------------------- MODULE BudgetLedger -----------------------------
(***************************************************************************)
(* BudgetService (src/modules/budget/budget.service.ts) under concurrent   *)
(* calls: one action per database statement of create, allocate, transfer  *)
(* and deduct, interleaved under PostgreSQL's READ COMMITTED.              *)
(*                                                                         *)
(* allocate, transfer and deduct run inside prisma.$transaction: the call  *)
(* holds a pooled connection, its writes are staged until commit and its   *)
(* UPDATEs lock budget rows until then.  Reads see committed values and    *)
(* take no lock.  The outbox row of EventService.emit is written on a      *)
(* SECOND connection, outside the transaction, and so is visible at once   *)
(* and survives a rollback.  AuditService.log also runs on a connection of *)
(* its own and swallows its errors; nothing here depends on it and it is   *)
(* left out.  create has no transaction: its insert is final at once.      *)
(***************************************************************************)
EXTENDS BudgetOps, FiniteSets

CONSTANTS PoolSize,  \* connections of the Prisma pool
          NoCall     \* holder of a row that is not locked

ASSUME PoolAssumption ==
    /\ PoolSize \in Nat \ {0}
    /\ NoCall \notin Calls

VARIABLES
    \* committed database state
    rows, total, avail,
    allocated, sent, received, deducted,
    outbox,      \* calls whose event row is in the outbox
    \* open transactions
    tx,          \* calls whose transaction is open, each on one connection
    lock,        \* call that holds the row lock of each budget
    staged,      \* staged change of availableAmount, per call and budget
    inserted,    \* record rows staged by each call
    \* the service methods
    pc, op, result

vars == <<rows, total, avail, allocated, sent, received, deducted, outbox,
          tx, lock, staged, inserted, pc, op, result>>

book == <<rows, total, avail, allocated, sent, received, deducted>>
session == <<tx, lock, staged, inserted>>

Steps == {"idle", "check", "insert", "read", "row", "debit", "credit",
          "emit", "commit", "done"}
Results == {"none", "ok", "rejected", "failed"}

NoChange == [b \in Budgets |-> 0]

TypeOK ==
    /\ rows \subseteq Budgets
    /\ total \in [Budgets -> Nat]
    /\ avail \in [Budgets -> Int]
    /\ allocated \in [Budgets -> Nat]
    /\ sent \in [Budgets -> Nat]
    /\ received \in [Budgets -> Nat]
    /\ deducted \in [Budgets -> Nat]
    /\ outbox \subseteq Calls
    /\ tx \subseteq Calls
    /\ lock \in [Budgets -> Calls \cup {NoCall}]
    /\ staged \in [Calls -> [Budgets -> Int]]
    /\ inserted \in [Calls -> Nat]
    /\ pc \in [Calls -> Steps]
    /\ op \in [Calls -> Ops \cup {NoOp}]
    /\ result \in [Calls -> Results]

Init ==
    /\ rows = DOMAIN Opening
    /\ total = [b \in Budgets |-> IF b \in rows THEN Opening[b] ELSE 0]
    /\ avail = total
    /\ allocated = [b \in Budgets |-> 0]
    /\ sent = [b \in Budgets |-> 0]
    /\ received = [b \in Budgets |-> 0]
    /\ deducted = [b \in Budgets |-> 0]
    /\ outbox = {}
    /\ tx = {}
    /\ lock = [b \in Budgets |-> NoCall]
    /\ staged = [c \in Calls |-> NoChange]
    /\ inserted = [c \in Calls |-> 0]
    /\ pc = [c \in Calls |-> "idle"]
    /\ op = [c \in Calls |-> NoOp]
    /\ result = [c \in Calls |-> "none"]

-----------------------------------------------------------------------------
\* Helpers.

FreeConnection == Cardinality(tx) < PoolSize

GoTo(c, step) == pc' = [pc EXCEPT ![c] = step]

Return(c, r) ==
    /\ GoTo(c, "done")
    /\ result' = [result EXCEPT ![c] = r]

\* The end of c's transaction: its connection, locks and staged writes go.
EndTx(c) ==
    /\ tx' = tx \ {c}
    /\ lock' = [b \in Budgets |-> IF lock[b] = c THEN NoCall ELSE lock[b]]
    /\ staged' = [staged EXCEPT ![c] = NoChange]
    /\ inserted' = [inserted EXCEPT ![c] = 0]

\* The budget row the next UPDATE of c writes.
Target(c) == IF pc[c] = "credit" THEN op[c].dst ELSE op[c].src

Waiting(c) ==
    /\ c \in tx
    /\ pc[c] \in {"debit", "credit"}
    /\ lock[Target(c)] \notin {c, NoCall}

\* A cycle of transactions, each waiting for a row the next one holds.
InDeadlock(c) ==
    \E cycle \in SUBSET tx :
        /\ c \in cycle
        /\ \A x \in cycle : Waiting(x) /\ lock[Target(x)] \in cycle
        /\ \A y \in cycle : \E x \in cycle : lock[Target(x)] = y

-----------------------------------------------------------------------------
\* The service methods.

\* A request reaches the service.  The three transactional methods take a
\* connection; while none is free the call has not begun.
Start(c, o) ==
    /\ pc[c] = "idle"
    /\ op' = [op EXCEPT ![c] = o]
    /\ \/ /\ o.kind = "create"
          /\ GoTo(c, "check")
          /\ UNCHANGED tx
       \/ /\ o.kind # "create"
          /\ FreeConnection
          /\ GoTo(c, "read")
          /\ tx' = tx \cup {c}
    /\ UNCHANGED <<book, outbox, lock, staged, inserted, result>>

\* create: findUnique on (tenant, fiscal year, organisation unit).
CheckBudget(c) ==
    /\ pc[c] = "check"
    /\ FreeConnection
    /\ \/ /\ op[c].src \in rows
          /\ Return(c, "rejected")
       \/ /\ op[c].src \notin rows
          /\ GoTo(c, "insert")
          /\ UNCHANGED result
    /\ UNCHANGED <<book, outbox, session, op>>
\* Fault: an upsert in place of the insert.
FaultyInsertBudget(c) ==
    LET b == op[c].src IN
    /\ pc[c] = "insert"
    /\ FreeConnection
    /\ rows' = rows \cup {b}
    /\ total' = [total EXCEPT ![b] = Total(op[c])]
    /\ avail' = [avail EXCEPT ![b] = Total(op[c])]
    /\ GoTo(c, "emit")
    /\ UNCHANGED <<allocated, sent, received, deducted, outbox, session, op,
                   result>>

\* create: the insert, which the unique index refuses when another call
\* opened the budget since the check.
InsertBudget(c) ==
    LET b == op[c].src IN
    /\ pc[c] = "insert"
    /\ FreeConnection
    /\ \/ /\ b \in rows
          /\ Return(c, "rejected")
          /\ UNCHANGED <<rows, total, avail>>
       \/ /\ b \notin rows
          /\ rows' = rows \cup {b}
          /\ total' = [total EXCEPT ![b] = Total(op[c])]
          /\ avail' = [avail EXCEPT ![b] = Total(op[c])]
          /\ GoTo(c, "emit")
          /\ UNCHANGED result
    /\ UNCHANGED <<allocated, sent, received, deducted, outbox, session, op>>

\* create and allocate: the organisation unit is not found.
OrgUnitMissing(c) ==
    /\ \/ pc[c] = "check"
       \/ pc[c] = "row" /\ c \in tx /\ op[c].kind = "allocate"
    /\ Return(c, "rejected")
    /\ EndTx(c)
    /\ UNCHANGED <<book, outbox, op>>
\* Fault: the funds are not compared.
FaultyFundsVerified(o) ==
    /\ o.src \in rows
    /\ o.kind = "transfer" => o.dst \in rows /\ SameYear(o)

\* The budgets are read and the funds verified, on committed values.
FundsVerified(o) ==
    /\ o.src \in rows
    /\ o.kind = "transfer" => o.dst \in rows /\ SameYear(o)
    /\ avail[o.src] >= Total(o)

AfterRead(o) ==
    IF o.kind = "deduct" \/ Len(o.run) = 0 THEN "debit" ELSE "row"

ReadBudget(c) ==
    /\ pc[c] = "read"
    /\ c \in tx
    /\ \/ /\ FundsVerified(op[c])
          /\ GoTo(c, AfterRead(op[c]))
          /\ UNCHANGED <<session, result>>
       \/ /\ ~FundsVerified(op[c])
          /\ Return(c, "rejected")
          /\ EndTx(c)
    /\ UNCHANGED <<book, outbox, op>>
\* Fault: the loop over the items runs once too often.
FaultyInsertRecord(c) ==
    /\ pc[c] = "row"
    /\ c \in tx
    /\ inserted' = [inserted EXCEPT ![c] = @ + 1]
    /\ GoTo(c, IF inserted[c] + 1 <= Len(op[c].run) THEN "row" ELSE "debit")
    /\ UNCHANGED <<book, outbox, tx, lock, staged, op, result>>

\* One BudgetAllocation row per item, or the BudgetTransfer row.
InsertRecord(c) ==
    /\ pc[c] = "row"
    /\ c \in tx
    /\ inserted' = [inserted EXCEPT ![c] = @ + 1]
    /\ GoTo(c, IF inserted[c] + 1 < Len(op[c].run) THEN "row" ELSE "debit")
    /\ UNCHANGED <<book, outbox, tx, lock, staged, op, result>>

\* An UPDATE of budget b waits for the row lock and adds to the amount.
UpdateRow(c, b, change) ==
    /\ c \in tx
    /\ lock[b] \in {c, NoCall}
    /\ lock' = [lock EXCEPT ![b] = c]
    /\ staged' = [staged EXCEPT ![c][b] = @ + change]

\* availableAmount: { decrement: amount }
Debit(c) ==
    /\ pc[c] = "debit"
    /\ UpdateRow(c, op[c].src, -Total(op[c]))
    /\ GoTo(c, IF op[c].kind = "transfer" THEN "credit" ELSE "emit")
    /\ UNCHANGED <<book, outbox, tx, inserted, op, result>>
\* Fault: the source is credited in place of the destination.
FaultyCredit(c) ==
    /\ pc[c] = "credit"
    /\ UpdateRow(c, op[c].src, Total(op[c]))
    /\ GoTo(c, "emit")
    /\ UNCHANGED <<book, outbox, tx, inserted, op, result>>

\* availableAmount: { increment: amount }, only in transfer
Credit(c) ==
    /\ pc[c] = "credit"
    /\ UpdateRow(c, op[c].dst, Total(op[c]))
    /\ GoTo(c, "emit")
    /\ UNCHANGED <<book, outbox, tx, inserted, op, result>>

\* EventService.emit inserts its row on another connection, whether or not
\* the caller's transaction is still open.
Emit(c) ==
    /\ pc[c] = "emit"
    /\ FreeConnection
    /\ outbox' = outbox \cup {c}
    /\ \/ /\ op[c].kind = "create"
          /\ Return(c, "ok")
       \/ /\ op[c].kind # "create"
          /\ GoTo(c, "commit")
          /\ UNCHANGED result
    /\ UNCHANGED <<book, session, op>>

\* The callback returns and Prisma commits: staged amounts and rows appear.
Commit(c) ==
    LET o == op[c]
        recorded == Running(o, inserted[c])
        Added(sum, b, a) == [sum EXCEPT ![b] = @ + a]
    IN
    /\ pc[c] = "commit"
    /\ c \in tx
    /\ avail' = [b \in Budgets |-> avail[b] + staged[c][b]]
    /\ \/ /\ o.kind = "allocate"
          /\ allocated' = Added(allocated, o.src, recorded)
          /\ UNCHANGED <<sent, received, deducted>>
       \/ /\ o.kind = "transfer"
          /\ sent' = Added(sent, o.src, recorded)
          /\ received' = Added(received, o.dst, recorded)
          /\ UNCHANGED <<allocated, deducted>>
       \/ /\ o.kind = "deduct"
          /\ deducted' = Added(deducted, o.src, Total(o))
          /\ UNCHANGED <<allocated, sent, received>>
    /\ EndTx(c)
    /\ Return(c, "ok")
    /\ UNCHANGED <<rows, total, outbox, op>>

-----------------------------------------------------------------------------
\* Failures.
\* Fault: the timeout leaves the writes made so far behind.
FaultyExpire(c) ==
    /\ c \in tx
    /\ avail' = [b \in Budgets |-> avail[b] + staged[c][b]]
    /\ EndTx(c)
    /\ UNCHANGED <<rows, total, allocated, sent, received, deducted, outbox,
                   pc, op, result>>

\* Fault: a transaction that waits for a lock is never timed out.
FaultyExpireUnlessWaiting(c) ==
    /\ c \in tx
    /\ ~Waiting(c)
    /\ EndTx(c)
    /\ UNCHANGED <<book, outbox, pc, op, result>>

\* The transaction outlives its timeout and the engine rolls it back; the
\* callback is not interrupted and goes on to its next statement.
Expire(c) ==
    /\ c \in tx
    /\ EndTx(c)
    /\ UNCHANGED <<book, outbox, pc, op, result>>

\* A statement, or the commit, on a transaction that is closed: it throws.
StatementOnClosedTx(c) ==
    /\ pc[c] \in {"read", "row", "debit", "credit", "commit"}
    /\ c \notin tx
    /\ Return(c, "failed")
    /\ UNCHANGED <<book, outbox, session, op>>
\* Fault: a failed emit is swallowed, as AuditService.log swallows its errors.
FaultyPoolTimeout(c) ==
    /\ pc[c] = "emit"
    /\ ~FreeConnection
    /\ GoTo(c, "commit")
    /\ UNCHANGED <<book, outbox, session, op, result>>

\* No connection for a statement outside the transaction: it throws.
PoolTimeout(c) ==
    /\ pc[c] \in {"check", "insert", "emit"}
    /\ ~FreeConnection
    /\ Return(c, "failed")
    /\ EndTx(c)
    /\ UNCHANGED <<book, outbox, op>>

\* PostgreSQL's deadlock detector aborts one of the waiting transactions.
DeadlockAbort(c) ==
    /\ Waiting(c)
    /\ InDeadlock(c)
    /\ Return(c, "failed")
    /\ EndTx(c)
    /\ UNCHANGED <<book, outbox, op>>

\* The process dies: every call in progress is lost, PostgreSQL rolls back.
Crash ==
    /\ \E c \in Calls : pc[c] \notin {"idle", "done"}
    /\ pc' = [c \in Calls |-> IF pc[c] = "idle" THEN "idle" ELSE "done"]
    /\ result' = [c \in Calls |->
                    IF pc[c] \in {"idle", "done"} THEN result[c] ELSE "failed"]
    /\ tx' = {}
    /\ lock' = [b \in Budgets |-> NoCall]
    /\ staged' = [c \in Calls |-> NoChange]
    /\ inserted' = [c \in Calls |-> 0]
    /\ UNCHANGED <<book, outbox, op>>

-----------------------------------------------------------------------------
\* What c's own code does next, and what the environment does to it.
Step(c) ==
    \/ CheckBudget(c)
    \/ InsertBudget(c)
    \/ OrgUnitMissing(c)
    \/ ReadBudget(c)
    \/ InsertRecord(c)
    \/ Debit(c)
    \/ Credit(c)
    \/ Emit(c)
    \/ Commit(c)
    \/ StatementOnClosedTx(c)
    \/ PoolTimeout(c)

Next ==
    \/ \E c \in Calls, o \in Ops : Start(c, o)
    \/ \E c \in Calls : Step(c)
    \/ \E c \in Calls : Expire(c)
    \/ \E c \in Calls : DeadlockAbort(c)
    \/ Crash

Spec == Init /\ [][Next]_vars

\* The event loop runs every call whose awaited statement can answer, and the
\* engine's transaction timeout always fires.
Fairness == \A c \in Calls : WF_vars(Step(c)) /\ WF_vars(Expire(c))

FairSpec == Spec /\ Fairness
=============================================================================
