------------------------- MODULE BudgetLedgerProofs --------------------------
(***************************************************************************)
(* Theorems about BudgetLedger for every set of calls and budgets, every   *)
(* choice of requests and every pool size.                                 *)
(***************************************************************************)
EXTENDS BudgetLedgerInvariant, FiniteSetTheorems, TLAPS

-----------------------------------------------------------------------------
\* Facts about requests and the helpers.

\* A request's total is a natural number, and bounded when it draws.
LEMMA RequestFacts ==
    ASSUME NEW o \in Ops
    PROVE  /\ o.kind \in Kinds /\ o.src \in Budgets /\ o.dst \in Budgets
           /\ o.run \in Seq(Nat) /\ Len(o.run) \in Nat
           /\ Total(o) \in Nat
           /\ o.kind # "create" => Total(o) <= MaxAmount
           /\ o.kind # "transfer" => o.dst = o.src
           /\ o.kind # "allocate" => Len(o.run) = 1
  <1>1. o \in Requests
    BY OpsAssumption
  <1>2. /\ o.kind \in Kinds /\ o.src \in Budgets /\ o.dst \in Budgets
        /\ o.run \in Seq(Nat)
    BY <1>1 DEF Requests
  <1>3. Len(o.run) \in Nat
    BY <1>2
  <1>4. Total(o) \in Nat
    BY <1>2, <1>3 DEF Total, Running
  <1>5. o.kind # "allocate" => Len(o.run) = 1
    BY OpsAssumption
  <1> QED
    BY <1>2, <1>3, <1>4, <1>5, OpsAssumption

\* The end of a transaction keeps the types of the session.
LEMMA EndTxType ==
    ASSUME TypeOK, NEW c \in Calls, EndTx(c)
    PROVE  /\ tx' \subseteq Calls
           /\ lock' \in [Budgets -> Calls \cup {NoCall}]
           /\ staged' \in [Calls -> [Budgets -> Int]]
           /\ inserted' \in [Calls -> Nat]
  BY DEF TypeOK, EndTx, NoChange

\* A call that returns stays within the types.
LEMMA ReturnType ==
    ASSUME TypeOK, NEW c \in Calls, NEW r \in Results, Return(c, r)
    PROVE  /\ pc' \in [Calls -> Steps]
           /\ result' \in [Calls -> Results]
  BY DEF TypeOK, Return, GoTo, Steps, Results

\* A call that goes on stays within the types.
LEMMA GoToType ==
    ASSUME TypeOK, NEW c \in Calls, NEW s \in Steps, GoTo(c, s)
    PROVE  pc' \in [Calls -> Steps]
  BY DEF TypeOK, GoTo

-----------------------------------------------------------------------------
\* Type correctness.

\* The types hold at the start.
LEMMA TypeInit == Init => TypeOK
  BY OpsAssumption DEF Init, TypeOK, NoChange, Steps, Results

\* Type correctness: every step writes values of the variables' types.
LEMMA TypeNext == IInv /\ [Next]_vars => TypeOK'
  <1> SUFFICES ASSUME IInv, [Next]_vars
               PROVE  TypeOK'
    OBVIOUS
  <1> USE DEF book, session
  <1>0. TypeOK /\ PointsMatchOps /\ StagingMatchesPoints
    BY DEF IInv
  <1>1. ASSUME NEW c \in Calls, NEW o \in Ops, Start(c, o)
        PROVE  TypeOK'
    <2>1. pc' \in [Calls -> Steps]
      BY <1>0, <1>1, GoToType DEF Start, Steps
    <2> QED
      BY <1>0, <1>1, <2>1 DEF TypeOK, Start
  <1>2. ASSUME NEW c \in Calls, CheckBudget(c)
        PROVE  TypeOK'
    <2>1. pc' \in [Calls -> Steps] /\ result' \in [Calls -> Results]
      BY <1>0, <1>2, GoToType, ReturnType DEF CheckBudget, Steps, Results, TypeOK
    <2> QED
      BY <1>0, <1>2, <2>1 DEF TypeOK, CheckBudget
  <1>3. ASSUME NEW c \in Calls, InsertBudget(c)
        PROVE  TypeOK'
    <2>1. pc' \in [Calls -> Steps] /\ result' \in [Calls -> Results]
      BY <1>0, <1>3, GoToType, ReturnType DEF InsertBudget, Steps, Results, TypeOK
    <2>2. op[c] \in Ops
      BY <1>0, <1>3 DEF PointsMatchOps, InsertBudget
    <2>3. Total(op[c]) \in Nat /\ op[c].src \in Budgets
      BY <2>2, RequestFacts
    <2>4. /\ rows' \subseteq Budgets
          /\ total' \in [Budgets -> Nat]
          /\ avail' \in [Budgets -> Int]
      BY <1>0, <1>3, <2>3 DEF TypeOK, InsertBudget
    <2> QED
      BY <1>0, <1>3, <2>1, <2>4 DEF TypeOK, InsertBudget
  <1>4. ASSUME NEW c \in Calls, OrgUnitMissing(c)
        PROVE  TypeOK'
    BY <1>0, <1>4, EndTxType, ReturnType DEF TypeOK, OrgUnitMissing, Results
  <1>5. ASSUME NEW c \in Calls, ReadBudget(c)
        PROVE  TypeOK'
    <2>1. AfterRead(op[c]) \in Steps
      BY DEF AfterRead, Steps
    <2>2. CASE FundsVerified(op[c])
      BY <1>0, <1>5, <2>1, <2>2, GoToType DEF TypeOK, ReadBudget
    <2>3. CASE ~FundsVerified(op[c])
      BY <1>0, <1>5, <2>3, EndTxType, ReturnType DEF TypeOK, ReadBudget, Results
    <2> QED
      BY <2>2, <2>3
  <1>6. ASSUME NEW c \in Calls, InsertRecord(c)
        PROVE  TypeOK'
    <2>1. pc' \in [Calls -> Steps]
      BY <1>0, <1>6, GoToType DEF InsertRecord, Steps
    <2>2. inserted' \in [Calls -> Nat]
      BY <1>0, <1>6 DEF TypeOK, InsertRecord
    <2>3. UNCHANGED <<book, outbox, tx, lock, staged, op, result>>
      BY <1>6 DEF InsertRecord
    <2> QED
      BY <1>0, <2>1, <2>2, <2>3 DEF TypeOK
  <1>7. ASSUME NEW c \in Calls, NEW b \in Budgets, NEW n \in Int,
               UpdateRow(c, b, n)
        PROVE  /\ lock' \in [Budgets -> Calls \cup {NoCall}]
               /\ staged' \in [Calls -> [Budgets -> Int]]
    BY <1>0, <1>7 DEF TypeOK, UpdateRow
  <1>8. ASSUME NEW c \in Calls, Debit(c)
        PROVE  TypeOK'
    <2>1. op[c] \in Ops
      BY <1>0, <1>8 DEF PointsMatchOps, Debit
    <2>2. -Total(op[c]) \in Int /\ op[c].src \in Budgets
      BY <2>1, RequestFacts
    <2>3. pc' \in [Calls -> Steps]
      BY <1>0, <1>8, GoToType DEF Debit, Steps
    <2> QED
      BY <1>0, <1>7, <1>8, <2>2, <2>3 DEF TypeOK, Debit
  <1>9. ASSUME NEW c \in Calls, Credit(c)
        PROVE  TypeOK'
    <2>1. op[c] \in Ops
      BY <1>0, <1>9 DEF PointsMatchOps, Credit
    <2>2. Total(op[c]) \in Int /\ op[c].dst \in Budgets
      BY <2>1, RequestFacts
    <2>3. pc' \in [Calls -> Steps]
      BY <1>0, <1>9, GoToType DEF Credit, Steps
    <2> QED
      BY <1>0, <1>7, <1>9, <2>2, <2>3 DEF TypeOK, Credit
  <1>10. ASSUME NEW c \in Calls, Emit(c)
         PROVE  TypeOK'
    <2>1. pc' \in [Calls -> Steps] /\ result' \in [Calls -> Results]
      BY <1>0, <1>10, GoToType, ReturnType DEF Emit, Steps, Results, TypeOK
    <2> QED
      BY <1>0, <1>10, <2>1 DEF TypeOK, Emit
  <1>11. ASSUME NEW c \in Calls, Commit(c)
         PROVE  TypeOK'
    <2>1. op[c] \in Ops /\ c \in tx /\ op[c].kind # "create"
      BY <1>0, <1>11 DEF PointsMatchOps, Commit
    <2>2. op[c].src \in Budgets /\ op[c].dst \in Budgets /\ Total(op[c]) \in Nat
      BY <2>1, RequestFacts
    <2>3. op[c].kind # "deduct" => Running(op[c], inserted[c]) = Total(op[c])
      BY <1>0, <1>11, <2>1 DEF StagingMatchesPoints, Commit, Total
    <2>4. /\ allocated' \in [Budgets -> Nat] /\ sent' \in [Budgets -> Nat]
          /\ received' \in [Budgets -> Nat] /\ deducted' \in [Budgets -> Nat]
      <3> DEFINE n == Running(op[c], inserted[c])
      <3>1. op[c].kind # "deduct" => n \in Nat
        BY <2>2, <2>3
      <3>2. CASE op[c].kind = "allocate"
        <4>1. /\ allocated' = [allocated EXCEPT ![op[c].src] = @ + n]
              /\ UNCHANGED <<sent, received, deducted>>
          BY <1>11, <3>2 DEF Commit
        <4> QED
          BY <1>0, <2>2, <3>1, <3>2, <4>1 DEF TypeOK
      <3>3. CASE op[c].kind = "transfer"
        <4>1. /\ sent' = [sent EXCEPT ![op[c].src] = @ + n]
              /\ received' = [received EXCEPT ![op[c].dst] = @ + n]
              /\ UNCHANGED <<allocated, deducted>>
          BY <1>11, <3>3 DEF Commit
        <4> QED
          BY <1>0, <2>2, <3>1, <3>3, <4>1 DEF TypeOK
      <3>4. CASE op[c].kind = "deduct"
        <4>1. /\ deducted' = [deducted EXCEPT ![op[c].src] = @ + Total(op[c])]
              /\ UNCHANGED <<allocated, sent, received>>
          BY <1>11, <3>4 DEF Commit
        <4> QED
          BY <1>0, <2>2, <4>1 DEF TypeOK
      <3> QED
        BY <1>11, <3>2, <3>3, <3>4 DEF Commit
    <2>5. avail' \in [Budgets -> Int]
      BY <1>0, <1>11 DEF TypeOK, Commit
    <2> QED
      BY <1>0, <1>11, <2>4, <2>5, EndTxType, ReturnType DEF TypeOK, Commit, Results
  <1>12. ASSUME NEW c \in Calls, Expire(c)
         PROVE  TypeOK'
    BY <1>0, <1>12, EndTxType DEF TypeOK, Expire
  <1>13. ASSUME NEW c \in Calls, StatementOnClosedTx(c)
         PROVE  TypeOK'
    BY <1>0, <1>13, ReturnType DEF TypeOK, StatementOnClosedTx, Results
  <1>14. ASSUME NEW c \in Calls, PoolTimeout(c)
         PROVE  TypeOK'
    BY <1>0, <1>14, EndTxType, ReturnType DEF TypeOK, PoolTimeout, Results
  <1>15. ASSUME NEW c \in Calls, DeadlockAbort(c)
         PROVE  TypeOK'
    BY <1>0, <1>15, EndTxType, ReturnType DEF TypeOK, DeadlockAbort, Results
  <1>16. CASE Crash
    BY <1>0, <1>16 DEF TypeOK, Crash, NoChange, Steps, Results
  <1>17. CASE UNCHANGED vars
    BY <1>0, <1>17 DEF TypeOK, vars
  <1> QED
    BY <1>1, <1>2, <1>3, <1>4, <1>5, <1>6, <1>8, <1>9, <1>10, <1>11, <1>12,
       <1>13, <1>14, <1>15, <1>16, <1>17 DEF Next, Step

-----------------------------------------------------------------------------
\* The program points, events and staged writes of each call agree.

\* Calls are at the points of their operation.
LEMMA PointsNext == IInv /\ [Next]_vars => PointsMatchOps'
  <1> SUFFICES ASSUME IInv, [Next]_vars
               PROVE  PointsMatchOps'
    OBVIOUS
  <1> USE DEF book, session
  <1>0. TypeOK /\ PointsMatchOps /\ EventsMatchPoints /\ StagingMatchesPoints
    BY DEF IInv
  <1>1. ASSUME NEW c \in Calls, NEW o \in Ops, Start(c, o)
        PROVE  PointsMatchOps'
    BY <1>0, <1>1 DEF Start, GoTo, Return, EndTx, TypeOK, PointsMatchOps, EventsMatchPoints
  <1>2. ASSUME NEW c \in Calls, CheckBudget(c)
        PROVE  PointsMatchOps'
    BY <1>0, <1>2 DEF CheckBudget, GoTo, Return, EndTx, TypeOK, PointsMatchOps, EventsMatchPoints
  <1>3. ASSUME NEW c \in Calls, InsertBudget(c)
        PROVE  PointsMatchOps'
    BY <1>0, <1>3 DEF InsertBudget, GoTo, Return, EndTx, TypeOK, PointsMatchOps, EventsMatchPoints
  <1>4. ASSUME NEW c \in Calls, OrgUnitMissing(c)
        PROVE  PointsMatchOps'
    BY <1>0, <1>4 DEF OrgUnitMissing, GoTo, Return, EndTx, TypeOK, PointsMatchOps, EventsMatchPoints
  <1>5. ASSUME NEW c \in Calls, ReadBudget(c)
        PROVE  PointsMatchOps'
    BY <1>0, <1>5 DEF ReadBudget, AfterRead, GoTo, Return, EndTx, TypeOK, PointsMatchOps, EventsMatchPoints
  <1>6. ASSUME NEW c \in Calls, InsertRecord(c)
        PROVE  PointsMatchOps'
    BY <1>0, <1>6 DEF InsertRecord, GoTo, Return, EndTx, TypeOK, PointsMatchOps, EventsMatchPoints
  <1>7. ASSUME NEW c \in Calls, Debit(c)
        PROVE  PointsMatchOps'
    BY <1>0, <1>7 DEF Debit, GoTo, Return, EndTx, TypeOK, PointsMatchOps, EventsMatchPoints
  <1>8. ASSUME NEW c \in Calls, Credit(c)
        PROVE  PointsMatchOps'
    BY <1>0, <1>8 DEF Credit, GoTo, Return, EndTx, TypeOK, PointsMatchOps, EventsMatchPoints
  <1>9. ASSUME NEW c \in Calls, Emit(c)
        PROVE  PointsMatchOps'
    BY <1>0, <1>9 DEF Emit, GoTo, Return, EndTx, TypeOK, PointsMatchOps, EventsMatchPoints
  <1>10. ASSUME NEW c \in Calls, Commit(c)
        PROVE  PointsMatchOps'
    BY <1>0, <1>10 DEF Commit, GoTo, Return, EndTx, TypeOK, PointsMatchOps, EventsMatchPoints
  <1>11. ASSUME NEW c \in Calls, StatementOnClosedTx(c)
        PROVE  PointsMatchOps'
    BY <1>0, <1>11 DEF StatementOnClosedTx, GoTo, Return, EndTx, TypeOK, PointsMatchOps, EventsMatchPoints
  <1>12. ASSUME NEW c \in Calls, PoolTimeout(c)
        PROVE  PointsMatchOps'
    BY <1>0, <1>12 DEF PoolTimeout, GoTo, Return, EndTx, TypeOK, PointsMatchOps, EventsMatchPoints
  <1>13. ASSUME NEW c \in Calls, Expire(c)
        PROVE  PointsMatchOps'
    BY <1>0, <1>13 DEF Expire, GoTo, Return, EndTx, TypeOK, PointsMatchOps, EventsMatchPoints
  <1>14. ASSUME NEW c \in Calls, DeadlockAbort(c)
        PROVE  PointsMatchOps'
    BY <1>0, <1>14 DEF DeadlockAbort, Waiting, GoTo, Return, EndTx, TypeOK, PointsMatchOps, EventsMatchPoints
  <1>15. CASE Crash
    BY <1>0, <1>15 DEF Crash, GoTo, Return, EndTx, TypeOK, PointsMatchOps, EventsMatchPoints
  <1>16. CASE UNCHANGED vars
    BY <1>0, <1>16 DEF vars, GoTo, Return, EndTx, TypeOK, PointsMatchOps, EventsMatchPoints
  <1> QED
    BY <1>1, <1>2, <1>3, <1>4, <1>5, <1>6, <1>7, <1>8, <1>9, <1>10,
       <1>11, <1>12, <1>13, <1>14, <1>15, <1>16 DEF Next, Step

\* A call is in the outbox from its announcement to its end, and no other is.
LEMMA EventsNext == IInv /\ [Next]_vars => EventsMatchPoints'
  <1> SUFFICES ASSUME IInv, [Next]_vars
               PROVE  EventsMatchPoints'
    OBVIOUS
  <1> USE DEF book, session
  <1>0. TypeOK /\ PointsMatchOps /\ EventsMatchPoints /\ StagingMatchesPoints
    BY DEF IInv
  <1>1. ASSUME NEW c \in Calls, NEW o \in Ops, Start(c, o)
        PROVE  EventsMatchPoints'
    BY <1>0, <1>1 DEF Start, GoTo, Return, TypeOK, PointsMatchOps, EventsMatchPoints
  <1>2. ASSUME NEW c \in Calls, CheckBudget(c)
        PROVE  EventsMatchPoints'
    BY <1>0, <1>2 DEF CheckBudget, GoTo, Return, TypeOK, PointsMatchOps, EventsMatchPoints
  <1>3. ASSUME NEW c \in Calls, InsertBudget(c)
        PROVE  EventsMatchPoints'
    BY <1>0, <1>3 DEF InsertBudget, GoTo, Return, TypeOK, PointsMatchOps, EventsMatchPoints
  <1>4. ASSUME NEW c \in Calls, OrgUnitMissing(c)
        PROVE  EventsMatchPoints'
    BY <1>0, <1>4 DEF OrgUnitMissing, GoTo, Return, TypeOK, PointsMatchOps, EventsMatchPoints
  <1>5. ASSUME NEW c \in Calls, ReadBudget(c)
        PROVE  EventsMatchPoints'
    BY <1>0, <1>5 DEF ReadBudget, AfterRead, GoTo, Return, TypeOK, PointsMatchOps, EventsMatchPoints
  <1>6. ASSUME NEW c \in Calls, InsertRecord(c)
        PROVE  EventsMatchPoints'
    BY <1>0, <1>6 DEF InsertRecord, GoTo, Return, TypeOK, PointsMatchOps, EventsMatchPoints
  <1>7. ASSUME NEW c \in Calls, Debit(c)
        PROVE  EventsMatchPoints'
    BY <1>0, <1>7 DEF Debit, GoTo, Return, TypeOK, PointsMatchOps, EventsMatchPoints
  <1>8. ASSUME NEW c \in Calls, Credit(c)
        PROVE  EventsMatchPoints'
    BY <1>0, <1>8 DEF Credit, GoTo, Return, TypeOK, PointsMatchOps, EventsMatchPoints
  <1>9. ASSUME NEW c \in Calls, Emit(c)
        PROVE  EventsMatchPoints'
    BY <1>0, <1>9 DEF Emit, GoTo, Return, TypeOK, PointsMatchOps, EventsMatchPoints
  <1>10. ASSUME NEW c \in Calls, Commit(c)
        PROVE  EventsMatchPoints'
    BY <1>0, <1>10 DEF Commit, GoTo, Return, TypeOK, PointsMatchOps, EventsMatchPoints
  <1>11. ASSUME NEW c \in Calls, StatementOnClosedTx(c)
        PROVE  EventsMatchPoints'
    BY <1>0, <1>11 DEF StatementOnClosedTx, GoTo, Return, TypeOK, PointsMatchOps, EventsMatchPoints
  <1>12. ASSUME NEW c \in Calls, PoolTimeout(c)
        PROVE  EventsMatchPoints'
    BY <1>0, <1>12 DEF PoolTimeout, GoTo, Return, TypeOK, PointsMatchOps, EventsMatchPoints
  <1>13. ASSUME NEW c \in Calls, Expire(c)
        PROVE  EventsMatchPoints'
    BY <1>0, <1>13 DEF Expire, GoTo, Return, TypeOK, PointsMatchOps, EventsMatchPoints
  <1>14. ASSUME NEW c \in Calls, DeadlockAbort(c)
        PROVE  EventsMatchPoints'
    BY <1>0, <1>14 DEF DeadlockAbort, GoTo, Return, TypeOK, PointsMatchOps, EventsMatchPoints
  <1>15. CASE Crash
    BY <1>0, <1>15 DEF Crash, GoTo, Return, TypeOK, PointsMatchOps, EventsMatchPoints
  <1>16. CASE UNCHANGED vars
    BY <1>0, <1>16 DEF vars, GoTo, Return, TypeOK, PointsMatchOps, EventsMatchPoints
  <1> QED
    BY <1>1, <1>2, <1>3, <1>4, <1>5, <1>6, <1>7, <1>8, <1>9, <1>10,
       <1>11, <1>12, <1>13, <1>14, <1>15, <1>16 DEF Next, Step

\* A transaction holds what its statements so far have written.
LEMMA StagingNext == IInv /\ [Next]_vars => StagingMatchesPoints'
  <1> SUFFICES ASSUME IInv, [Next]_vars
               PROVE  StagingMatchesPoints'
    OBVIOUS
  <1> USE DEF book, session
  <1>0. /\ TypeOK /\ PointsMatchOps /\ EventsMatchPoints
        /\ StagingMatchesPoints /\ CheckedBudgetsExist
    BY DEF IInv
  <1>1. ASSUME NEW c \in Calls, NEW o \in Ops, Start(c, o)
        PROVE  StagingMatchesPoints'
    BY <1>0, <1>1 DEF Start, GoTo, Return, EndTx, TypeOK, PointsMatchOps, StagingMatchesPoints, StagedAt
  <1>2. ASSUME NEW c \in Calls, CheckBudget(c)
        PROVE  StagingMatchesPoints'
    BY <1>0, <1>2 DEF CheckBudget, GoTo, Return, EndTx, TypeOK, PointsMatchOps, StagingMatchesPoints, StagedAt
  <1>3. ASSUME NEW c \in Calls, InsertBudget(c)
        PROVE  StagingMatchesPoints'
    BY <1>0, <1>3 DEF InsertBudget, GoTo, Return, EndTx, TypeOK, PointsMatchOps, StagingMatchesPoints, StagedAt
  <1>4. ASSUME NEW c \in Calls, OrgUnitMissing(c)
        PROVE  StagingMatchesPoints'
    BY <1>0, <1>4 DEF OrgUnitMissing, GoTo, Return, EndTx, TypeOK, PointsMatchOps, StagingMatchesPoints, StagedAt
  <1>5. ASSUME NEW c \in Calls, ReadBudget(c)
        PROVE  StagingMatchesPoints'
    <2>1. op[c] \in Ops /\ c \in tx /\ pc[c] = "read"
      BY <1>0, <1>5 DEF ReadBudget, PointsMatchOps
    <2>2. Len(op[c].run) \in Nat
      BY <2>1, RequestFacts
    <2>3. CASE FundsVerified(op[c])
      <3>1. /\ pc' = [pc EXCEPT ![c] = AfterRead(op[c])]
            /\ UNCHANGED <<tx, staged, inserted, op>>
        BY <1>5, <2>3 DEF ReadBudget, GoTo
      <3>2. CASE op[c].kind = "deduct" \/ Len(op[c].run) = 0
        BY <1>0, <2>1, <2>2, <3>1, <3>2
           DEF AfterRead, TypeOK, StagingMatchesPoints, StagedAt
      <3>3. CASE ~(op[c].kind = "deduct" \/ Len(op[c].run) = 0)
        BY <1>0, <2>1, <2>2, <3>1, <3>3
           DEF AfterRead, TypeOK, StagingMatchesPoints, StagedAt
      <3> QED
        BY <3>2, <3>3
    <2>4. CASE ~FundsVerified(op[c])
      BY <1>0, <1>5, <2>4
         DEF ReadBudget, Return, GoTo, EndTx, TypeOK, StagingMatchesPoints
    <2> QED
      BY <2>3, <2>4
  <1>6. ASSUME NEW c \in Calls, InsertRecord(c)
        PROVE  StagingMatchesPoints'
    BY <1>0, <1>6 DEF InsertRecord, GoTo, Return, EndTx, TypeOK, PointsMatchOps, StagingMatchesPoints, StagedAt
  <1>7. ASSUME NEW c \in Calls, Debit(c)
        PROVE  StagingMatchesPoints'
    <2>1. /\ op[c] \in Ops /\ c \in tx
          /\ pc[c] = "debit" /\ staged[c] = StagedAt(pc[c], op[c])
      BY <1>0, <1>7 DEF Debit, UpdateRow, PointsMatchOps, StagingMatchesPoints
    <2>2. op[c].src \in Budgets /\ op[c].src \in Budgets /\ Total(op[c]) \in Nat
      BY <2>1, RequestFacts
    <2>3. /\ staged' = [staged EXCEPT ![c][op[c].src] = @ + -Total(op[c])]
          /\ UNCHANGED <<tx, inserted, op>>
      BY <1>7 DEF Debit, UpdateRow
    <2>4. staged'[c] = DebitStaged(op[c])
      <3>1. staged[c] = NoChange
        BY <2>1 DEF StagedAt
      <3>2. staged'[c] = [staged[c] EXCEPT ![op[c].src] = @ + (-Total(op[c]))]
        BY <1>0, <2>2, <2>3 DEF TypeOK
      <3>3. NoChange[op[c].src] + (-Total(op[c])) = -Total(op[c])
        BY <2>2 DEF NoChange
      <3> QED
        BY <3>1, <3>2, <3>3 DEF DebitStaged
    <2>5. pc'[c] # pc[c] /\ staged'[c] = StagedAt(pc'[c], op[c])
      BY <1>0, <1>7, <2>1, <2>4
         DEF Debit, GoTo, TypeOK, PointsMatchOps, StagedAt
    <2>6. \A d \in Calls \ {c} : pc'[d] = pc[d] /\ staged'[d] = staged[d]
      BY <1>0, <1>7, <2>3 DEF Debit, GoTo, TypeOK
    <2>7. pc'[c] \in {"credit", "emit"}
      BY <1>0, <1>7 DEF Debit, GoTo, TypeOK
    <2> QED
      BY <1>0, <2>1, <2>3, <2>5, <2>6, <2>7 DEF StagingMatchesPoints
  <1>8. ASSUME NEW c \in Calls, Credit(c)
        PROVE  StagingMatchesPoints'
    <2>1. /\ op[c] \in Ops /\ c \in tx
          /\ pc[c] = "credit" /\ staged[c] = StagedAt(pc[c], op[c])
      BY <1>0, <1>8 DEF Credit, UpdateRow, PointsMatchOps, StagingMatchesPoints
    <2>2. op[c].dst \in Budgets /\ op[c].src \in Budgets /\ Total(op[c]) \in Nat
      BY <2>1, RequestFacts
    <2>3. /\ staged' = [staged EXCEPT ![c][op[c].dst] = @ + Total(op[c])]
          /\ UNCHANGED <<tx, inserted, op>>
      BY <1>8 DEF Credit, UpdateRow
    <2>4. staged'[c] = CreditStaged(op[c])
      BY <1>0, <2>1, <2>2, <2>3
         DEF TypeOK, StagedAt, NoChange, DebitStaged, CreditStaged
    <2>5. pc'[c] # pc[c] /\ staged'[c] = StagedAt(pc'[c], op[c])
      BY <1>0, <1>8, <2>1, <2>4
         DEF Credit, GoTo, TypeOK, PointsMatchOps, StagedAt
    <2>6. \A d \in Calls \ {c} : pc'[d] = pc[d] /\ staged'[d] = staged[d]
      BY <1>0, <1>8, <2>3 DEF Credit, GoTo, TypeOK
    <2>7. pc'[c] \in {"credit", "emit"}
      BY <1>0, <1>8 DEF Credit, GoTo, TypeOK
    <2> QED
      BY <1>0, <2>1, <2>3, <2>5, <2>6, <2>7 DEF StagingMatchesPoints
  <1>9. ASSUME NEW c \in Calls, Emit(c)
        PROVE  StagingMatchesPoints'
    BY <1>0, <1>9 DEF Emit, GoTo, Return, EndTx, TypeOK, PointsMatchOps, StagingMatchesPoints, StagedAt
  <1>10. ASSUME NEW c \in Calls, Commit(c)
        PROVE  StagingMatchesPoints'
    BY <1>0, <1>10 DEF Commit, GoTo, Return, EndTx, TypeOK, PointsMatchOps, StagingMatchesPoints, StagedAt
  <1>11. ASSUME NEW c \in Calls, StatementOnClosedTx(c)
        PROVE  StagingMatchesPoints'
    BY <1>0, <1>11 DEF StatementOnClosedTx, GoTo, Return, EndTx, TypeOK, PointsMatchOps, StagingMatchesPoints, StagedAt
  <1>12. ASSUME NEW c \in Calls, PoolTimeout(c)
        PROVE  StagingMatchesPoints'
    BY <1>0, <1>12 DEF PoolTimeout, GoTo, Return, EndTx, TypeOK, PointsMatchOps, StagingMatchesPoints, StagedAt
  <1>13. ASSUME NEW c \in Calls, Expire(c)
        PROVE  StagingMatchesPoints'
    BY <1>0, <1>13 DEF Expire, GoTo, Return, EndTx, TypeOK, PointsMatchOps, StagingMatchesPoints, StagedAt
  <1>14. ASSUME NEW c \in Calls, DeadlockAbort(c)
        PROVE  StagingMatchesPoints'
    BY <1>0, <1>14 DEF DeadlockAbort, GoTo, Return, EndTx, TypeOK, PointsMatchOps, StagingMatchesPoints, StagedAt
  <1>15. CASE Crash
    BY <1>0, <1>15 DEF Crash, GoTo, Return, EndTx, TypeOK, PointsMatchOps, StagingMatchesPoints, StagedAt
  <1>16. CASE UNCHANGED vars
    BY <1>0, <1>16 DEF vars, GoTo, Return, EndTx, TypeOK, PointsMatchOps, StagingMatchesPoints, StagedAt
  <1> QED
    BY <1>1, <1>2, <1>3, <1>4, <1>5, <1>6, <1>7, <1>8, <1>9, <1>10,
       <1>11, <1>12, <1>13, <1>14, <1>15, <1>16 DEF Next, Step

\* A call that has checked a budget finds it there when it writes.
LEMMA CheckedNext == IInv /\ [Next]_vars => CheckedBudgetsExist'
  <1> SUFFICES ASSUME IInv, [Next]_vars
               PROVE  CheckedBudgetsExist'
    OBVIOUS
  <1> USE DEF book, session
  <1>0. /\ TypeOK /\ PointsMatchOps /\ EventsMatchPoints
        /\ StagingMatchesPoints /\ CheckedBudgetsExist
    BY DEF IInv
  <1>1. ASSUME NEW c \in Calls, NEW o \in Ops, Start(c, o)
        PROVE  CheckedBudgetsExist'
    BY <1>0, <1>1 DEF Start, GoTo, Return, EndTx, TypeOK, PointsMatchOps, CheckedBudgetsExist, PastCheck
  <1>2. ASSUME NEW c \in Calls, CheckBudget(c)
        PROVE  CheckedBudgetsExist'
    BY <1>0, <1>2 DEF CheckBudget, GoTo, Return, EndTx, TypeOK, PointsMatchOps, CheckedBudgetsExist, PastCheck
  <1>3. ASSUME NEW c \in Calls, InsertBudget(c)
        PROVE  CheckedBudgetsExist'
    BY <1>0, <1>3 DEF InsertBudget, GoTo, Return, EndTx, TypeOK, PointsMatchOps, CheckedBudgetsExist, PastCheck
  <1>4. ASSUME NEW c \in Calls, OrgUnitMissing(c)
        PROVE  CheckedBudgetsExist'
    BY <1>0, <1>4 DEF OrgUnitMissing, GoTo, Return, EndTx, TypeOK, PointsMatchOps, CheckedBudgetsExist, PastCheck
  <1>5. ASSUME NEW c \in Calls, ReadBudget(c)
        PROVE  CheckedBudgetsExist'
    BY <1>0, <1>5 DEF ReadBudget, AfterRead, FundsVerified, SameYear, GoTo, Return, EndTx, TypeOK, PointsMatchOps, CheckedBudgetsExist, PastCheck
  <1>6. ASSUME NEW c \in Calls, InsertRecord(c)
        PROVE  CheckedBudgetsExist'
    BY <1>0, <1>6 DEF InsertRecord, GoTo, Return, EndTx, TypeOK, PointsMatchOps, CheckedBudgetsExist, PastCheck
  <1>7. ASSUME NEW c \in Calls, Debit(c)
        PROVE  CheckedBudgetsExist'
    BY <1>0, <1>7 DEF Debit, GoTo, Return, EndTx, TypeOK, PointsMatchOps, CheckedBudgetsExist, PastCheck
  <1>8. ASSUME NEW c \in Calls, Credit(c)
        PROVE  CheckedBudgetsExist'
    BY <1>0, <1>8 DEF Credit, GoTo, Return, EndTx, TypeOK, PointsMatchOps, CheckedBudgetsExist, PastCheck
  <1>9. ASSUME NEW c \in Calls, Emit(c)
        PROVE  CheckedBudgetsExist'
    BY <1>0, <1>9 DEF Emit, GoTo, Return, EndTx, TypeOK, PointsMatchOps, CheckedBudgetsExist, PastCheck
  <1>10. ASSUME NEW c \in Calls, Commit(c)
        PROVE  CheckedBudgetsExist'
    BY <1>0, <1>10 DEF Commit, GoTo, Return, EndTx, TypeOK, PointsMatchOps, CheckedBudgetsExist, PastCheck
  <1>11. ASSUME NEW c \in Calls, StatementOnClosedTx(c)
        PROVE  CheckedBudgetsExist'
    BY <1>0, <1>11 DEF StatementOnClosedTx, GoTo, Return, EndTx, TypeOK, PointsMatchOps, CheckedBudgetsExist, PastCheck
  <1>12. ASSUME NEW c \in Calls, PoolTimeout(c)
        PROVE  CheckedBudgetsExist'
    BY <1>0, <1>12 DEF PoolTimeout, GoTo, Return, EndTx, TypeOK, PointsMatchOps, CheckedBudgetsExist, PastCheck
  <1>13. ASSUME NEW c \in Calls, Expire(c)
        PROVE  CheckedBudgetsExist'
    BY <1>0, <1>13 DEF Expire, GoTo, Return, EndTx, TypeOK, PointsMatchOps, CheckedBudgetsExist, PastCheck
  <1>14. ASSUME NEW c \in Calls, DeadlockAbort(c)
        PROVE  CheckedBudgetsExist'
    BY <1>0, <1>14 DEF DeadlockAbort, GoTo, Return, EndTx, TypeOK, PointsMatchOps, CheckedBudgetsExist, PastCheck
  <1>15. CASE Crash
    BY <1>0, <1>15 DEF Crash, GoTo, Return, EndTx, TypeOK, PointsMatchOps, CheckedBudgetsExist, PastCheck
  <1>16. CASE UNCHANGED vars
    BY <1>0, <1>16 DEF vars, GoTo, Return, EndTx, TypeOK, PointsMatchOps, CheckedBudgetsExist, PastCheck
  <1> QED
    BY <1>1, <1>2, <1>3, <1>4, <1>5, <1>6, <1>7, <1>8, <1>9, <1>10,
       <1>11, <1>12, <1>13, <1>14, <1>15, <1>16 DEF Next, Step

-----------------------------------------------------------------------------
\* The pool.

\* A transaction that ends gives its connection back.
LEMMA EndTxPool ==
    ASSUME PoolRespected, NEW c, EndTx(c)
    PROVE  PoolRespected'
  <1>1. tx' = tx \ {c}
    BY DEF EndTx
  <1>2. /\ IsFiniteSet(tx')
        /\ Cardinality(tx') = IF c \in tx THEN Cardinality(tx) - 1
                              ELSE Cardinality(tx)
    BY <1>1, FS_RemoveElement DEF PoolRespected
  <1>3. Cardinality(tx) \in Nat /\ PoolSize \in Nat
    BY FS_CardinalityType, PoolAssumption DEF PoolRespected
  <1> QED
    BY <1>2, <1>3 DEF PoolRespected

\* No more transactions are open than the pool has connections.
LEMMA PoolNext == IInv /\ [Next]_vars => PoolRespected'
  <1> SUFFICES ASSUME IInv, [Next]_vars
               PROVE  PoolRespected'
    OBVIOUS
  <1> USE DEF book, session
  <1>0. PoolRespected
    BY DEF IInv
  <1>1. ASSUME NEW c \in Calls, NEW o \in Ops, Start(c, o)
        PROVE  PoolRespected'
    <2>1. CASE tx' = tx
      BY <1>0, <2>1 DEF PoolRespected
    <2>2. CASE FreeConnection /\ tx' = tx \cup {c}
      <3>1. /\ IsFiniteSet(tx')
            /\ Cardinality(tx') = IF c \in tx THEN Cardinality(tx)
                                  ELSE Cardinality(tx) + 1
        BY <1>0, <2>2, FS_AddElement DEF PoolRespected
      <3>2. Cardinality(tx) \in Nat /\ PoolSize \in Nat
        BY <1>0, FS_CardinalityType, PoolAssumption DEF PoolRespected
      <3> QED
        BY <2>2, <3>1, <3>2 DEF PoolRespected, FreeConnection
    <2> QED
      BY <1>1, <2>1, <2>2 DEF Start
  <1>2. ASSUME NEW c \in Calls, CheckBudget(c)
        PROVE  PoolRespected'
    BY <1>0, <1>2 DEF CheckBudget, PoolRespected
  <1>3. ASSUME NEW c \in Calls, InsertBudget(c)
        PROVE  PoolRespected'
    BY <1>0, <1>3 DEF InsertBudget, PoolRespected
  <1>4. ASSUME NEW c \in Calls, OrgUnitMissing(c)
        PROVE  PoolRespected'
    BY <1>0, <1>4, EndTxPool DEF OrgUnitMissing
  <1>5. ASSUME NEW c \in Calls, ReadBudget(c)
        PROVE  PoolRespected'
    <2>1. CASE tx' = tx
      BY <1>0, <2>1 DEF PoolRespected
    <2>2. CASE EndTx(c)
      BY <1>0, <2>2, EndTxPool
    <2> QED
      BY <1>5, <2>1, <2>2 DEF ReadBudget
  <1>6. ASSUME NEW c \in Calls, InsertRecord(c)
        PROVE  PoolRespected'
    BY <1>0, <1>6 DEF InsertRecord, PoolRespected
  <1>7. ASSUME NEW c \in Calls, Debit(c)
        PROVE  PoolRespected'
    BY <1>0, <1>7 DEF Debit, PoolRespected
  <1>8. ASSUME NEW c \in Calls, Credit(c)
        PROVE  PoolRespected'
    BY <1>0, <1>8 DEF Credit, PoolRespected
  <1>9. ASSUME NEW c \in Calls, Emit(c)
        PROVE  PoolRespected'
    BY <1>0, <1>9 DEF Emit, PoolRespected
  <1>10. ASSUME NEW c \in Calls, Commit(c)
        PROVE  PoolRespected'
    BY <1>0, <1>10, EndTxPool DEF Commit
  <1>11. ASSUME NEW c \in Calls, StatementOnClosedTx(c)
        PROVE  PoolRespected'
    BY <1>0, <1>11 DEF StatementOnClosedTx, PoolRespected
  <1>12. ASSUME NEW c \in Calls, PoolTimeout(c)
        PROVE  PoolRespected'
    BY <1>0, <1>12, EndTxPool DEF PoolTimeout
  <1>13. ASSUME NEW c \in Calls, Expire(c)
        PROVE  PoolRespected'
    BY <1>0, <1>13, EndTxPool DEF Expire
  <1>14. ASSUME NEW c \in Calls, DeadlockAbort(c)
        PROVE  PoolRespected'
    BY <1>0, <1>14, EndTxPool DEF DeadlockAbort
  <1>15. CASE Crash
    BY <1>0, <1>15, FS_EmptySet, PoolAssumption DEF Crash, PoolRespected
  <1>16. CASE UNCHANGED vars
    BY <1>0, <1>16 DEF vars, PoolRespected
  <1> QED
    BY <1>1, <1>2, <1>3, <1>4, <1>5, <1>6, <1>7, <1>8, <1>9, <1>10,
       <1>11, <1>12, <1>13, <1>14, <1>15, <1>16 DEF Next, Step

-----------------------------------------------------------------------------
\* Money.

\* What a commit does to the book, one budget at a time.
LEMMA CommitEffect ==
    ASSUME TypeOK, PointsMatchOps, StagingMatchesPoints, NEW c \in Calls,
           Commit(c), NEW b \in Budgets
    PROVE  LET o == op[c]
               out == IF b = o.src THEN Total(o) ELSE 0
               in == IF o.kind = "transfer" /\ b = o.dst THEN Total(o) ELSE 0
           IN  /\ avail'[b] = avail[b] - out + in
               /\ received'[b] = received[b] + in
               /\ allocated'[b] + sent'[b] + deducted'[b]
                    = allocated[b] + sent[b] + deducted[b] + out
  <1> DEFINE o == op[c]
  <1>1. /\ o \in Ops /\ c \in tx /\ o.kind # "create" /\ pc[c] = "commit"
        /\ staged[c] = StagedAt("commit", o)
    BY DEF PointsMatchOps, StagingMatchesPoints, Commit
  <1>2. /\ o.src \in Budgets /\ o.dst \in Budgets /\ Total(o) \in Nat
        /\ o.kind \in Kinds
    BY <1>1, RequestFacts
  <1>3. o.kind # "deduct" => Running(o, inserted[c]) = Total(o)
    BY <1>1 DEF StagingMatchesPoints, Total
  <1>4. avail'[b] = avail[b] + staged[c][b]
    BY DEF Commit
  <1>5. avail[b] \in Int /\ allocated[b] \in Int /\ sent[b] \in Int
        /\ received[b] \in Int /\ deducted[b] \in Int
    BY DEF TypeOK
  <1>6. CASE o.kind = "allocate"
    <2>1. /\ allocated' = [allocated EXCEPT ![o.src] = @ + Total(o)]
          /\ UNCHANGED <<sent, received, deducted>>
      BY <1>3, <1>6 DEF Commit
    <2>2. staged[c][b] = IF b = o.src THEN -Total(o) ELSE 0
      BY <1>1, <1>2, <1>6 DEF StagedAt, DebitStaged, NoChange
    <2> QED
      BY <1>2, <1>4, <1>5, <1>6, <2>1, <2>2 DEF TypeOK
  <1>7. CASE o.kind = "transfer"
    <2>1. /\ sent' = [sent EXCEPT ![o.src] = @ + Total(o)]
          /\ received' = [received EXCEPT ![o.dst] = @ + Total(o)]
          /\ UNCHANGED <<allocated, deducted>>
      BY <1>3, <1>7 DEF Commit
    <2>2. staged[c][b] = (IF b = o.src THEN -Total(o) ELSE 0)
                          + (IF b = o.dst THEN Total(o) ELSE 0)
      BY <1>1, <1>2, <1>7 DEF StagedAt, CreditStaged, DebitStaged, NoChange
    <2> QED
      BY <1>2, <1>4, <1>5, <1>7, <2>1, <2>2 DEF TypeOK
  <1>8. CASE o.kind = "deduct"
    <2>1. /\ deducted' = [deducted EXCEPT ![o.src] = @ + Total(o)]
          /\ UNCHANGED <<allocated, sent, received>>
      BY <1>8 DEF Commit
    <2>2. staged[c][b] = IF b = o.src THEN -Total(o) ELSE 0
      BY <1>1, <1>2, <1>8 DEF StagedAt, DebitStaged, NoChange
    <2> QED
      BY <1>2, <1>4, <1>5, <1>8, <2>1, <2>2 DEF TypeOK
  <1> QED
    BY <1>1, <1>2, <1>6, <1>7, <1>8 DEF Kinds

\* Nothing is recorded on a budget that was never opened.
LEMMA UnopenedNext == IInv /\ [Next]_vars => UnopenedEmpty'
  <1> SUFFICES ASSUME IInv, [Next]_vars
               PROVE  UnopenedEmpty'
    OBVIOUS
  <1> USE DEF book, session
  <1>0. /\ TypeOK /\ TypeOK' /\ PointsMatchOps /\ StagingMatchesPoints
        /\ CheckedBudgetsExist /\ UnopenedEmpty /\ Conservation
    BY TypeNext DEF IInv
  <1>1. ASSUME NEW c \in Calls, NEW o \in Ops, Start(c, o)
        PROVE  UnopenedEmpty'
    BY <1>0, <1>1 DEF Start, UnopenedEmpty
  <1>2. ASSUME NEW c \in Calls, CheckBudget(c)
        PROVE  UnopenedEmpty'
    BY <1>0, <1>2 DEF CheckBudget, UnopenedEmpty
  <1>3. ASSUME NEW c \in Calls, InsertBudget(c)
        PROVE  UnopenedEmpty'
    <2>1. CASE UNCHANGED <<rows, total, avail>>
      BY <1>0, <1>3, <2>1 DEF InsertBudget, UnopenedEmpty
    <2>2. CASE /\ rows' = rows \cup {op[c].src}
               /\ total' = [total EXCEPT ![op[c].src] = Total(op[c])]
               /\ avail' = [avail EXCEPT ![op[c].src] = Total(op[c])]
      BY <1>0, <1>3, <2>2 DEF InsertBudget, UnopenedEmpty, TypeOK
    <2> QED
      BY <1>3, <2>1, <2>2 DEF InsertBudget
  <1>4. ASSUME NEW c \in Calls, OrgUnitMissing(c)
        PROVE  UnopenedEmpty'
    BY <1>0, <1>4 DEF OrgUnitMissing, UnopenedEmpty
  <1>5. ASSUME NEW c \in Calls, ReadBudget(c)
        PROVE  UnopenedEmpty'
    BY <1>0, <1>5 DEF ReadBudget, UnopenedEmpty
  <1>6. ASSUME NEW c \in Calls, InsertRecord(c)
        PROVE  UnopenedEmpty'
    BY <1>0, <1>6 DEF InsertRecord, UnopenedEmpty
  <1>7. ASSUME NEW c \in Calls, Debit(c)
        PROVE  UnopenedEmpty'
    BY <1>0, <1>7 DEF Debit, UnopenedEmpty
  <1>8. ASSUME NEW c \in Calls, Credit(c)
        PROVE  UnopenedEmpty'
    BY <1>0, <1>8 DEF Credit, UnopenedEmpty
  <1>9. ASSUME NEW c \in Calls, Emit(c)
        PROVE  UnopenedEmpty'
    BY <1>0, <1>9 DEF Emit, UnopenedEmpty
  <1>10. ASSUME NEW c \in Calls, Commit(c)
        PROVE  UnopenedEmpty'
    <2>1. op[c].src \in rows
          /\ (op[c].kind = "transfer" => op[c].dst \in rows)
      BY <1>0, <1>10 DEF Commit, CheckedBudgetsExist, PastCheck
    <2>2. op[c] \in Ops /\ op[c].src \in Budgets /\ op[c].dst \in Budgets
      BY <1>0, <1>10, RequestFacts DEF Commit, PointsMatchOps
    <2>3. ASSUME NEW b \in Budgets \ rows'
          PROVE  /\ total'[b] = 0 /\ avail'[b] = 0 /\ allocated'[b] = 0
                 /\ sent'[b] = 0 /\ received'[b] = 0 /\ deducted'[b] = 0
      <3>1. b \notin rows /\ b # op[c].src
            /\ (op[c].kind = "transfer" => b # op[c].dst)
        BY <1>10, <2>1, <2>3 DEF Commit
      <3>2. /\ total[b] = 0 /\ avail[b] = 0 /\ allocated[b] = 0
            /\ sent[b] = 0 /\ received[b] = 0 /\ deducted[b] = 0
        BY <1>0, <3>1 DEF UnopenedEmpty
      <3>3. /\ avail'[b] = 0 /\ received'[b] = 0 /\ total'[b] = 0
            /\ allocated'[b] + sent'[b] + deducted'[b] = 0
        BY <1>0, <1>10, <3>1, <3>2, CommitEffect DEF Commit
      <3>4. allocated'[b] \in Nat /\ sent'[b] \in Nat /\ deducted'[b] \in Nat
        BY <1>0 DEF TypeOK
      <3> QED
        BY <3>3, <3>4
    <2> QED
      BY <2>3 DEF UnopenedEmpty
  <1>11. ASSUME NEW c \in Calls, StatementOnClosedTx(c)
        PROVE  UnopenedEmpty'
    BY <1>0, <1>11 DEF StatementOnClosedTx, UnopenedEmpty
  <1>12. ASSUME NEW c \in Calls, PoolTimeout(c)
        PROVE  UnopenedEmpty'
    BY <1>0, <1>12 DEF PoolTimeout, UnopenedEmpty
  <1>13. ASSUME NEW c \in Calls, Expire(c)
        PROVE  UnopenedEmpty'
    BY <1>0, <1>13 DEF Expire, UnopenedEmpty
  <1>14. ASSUME NEW c \in Calls, DeadlockAbort(c)
        PROVE  UnopenedEmpty'
    BY <1>0, <1>14 DEF DeadlockAbort, UnopenedEmpty
  <1>15. CASE Crash
    BY <1>0, <1>15 DEF Crash, UnopenedEmpty
  <1>16. CASE UNCHANGED vars
    BY <1>0, <1>16 DEF vars, UnopenedEmpty
  <1> QED
    BY <1>1, <1>2, <1>3, <1>4, <1>5, <1>6, <1>7, <1>8, <1>9, <1>10,
       <1>11, <1>12, <1>13, <1>14, <1>15, <1>16 DEF Next, Step

\* Amounts and records change together: conservation.
LEMMA ConservationNext == IInv /\ [Next]_vars => Conservation'
  <1> SUFFICES ASSUME IInv, [Next]_vars
               PROVE  Conservation'
    OBVIOUS
  <1> USE DEF book, session
  <1>0. /\ TypeOK /\ TypeOK' /\ PointsMatchOps /\ StagingMatchesPoints
        /\ CheckedBudgetsExist /\ UnopenedEmpty /\ Conservation
    BY TypeNext DEF IInv
  <1>1. ASSUME NEW c \in Calls, NEW o \in Ops, Start(c, o)
        PROVE  Conservation'
    BY <1>0, <1>1 DEF Start, Conservation
  <1>2. ASSUME NEW c \in Calls, CheckBudget(c)
        PROVE  Conservation'
    BY <1>0, <1>2 DEF CheckBudget, Conservation
  <1>3. ASSUME NEW c \in Calls, InsertBudget(c)
        PROVE  Conservation'
    <2>1. CASE UNCHANGED <<rows, total, avail>>
      BY <1>0, <1>3, <2>1 DEF InsertBudget, Conservation
    <2>2. CASE /\ op[c].src \notin rows
               /\ total' = [total EXCEPT ![op[c].src] = Total(op[c])]
               /\ avail' = [avail EXCEPT ![op[c].src] = Total(op[c])]
      <3>1. op[c] \in Ops
        BY <1>0, <1>3 DEF InsertBudget, PointsMatchOps
      <3>2. op[c].src \in Budgets /\ Total(op[c]) \in Nat
        BY <3>1, RequestFacts
      <3>3. UNCHANGED <<allocated, sent, received, deducted>>
        BY <1>3 DEF InsertBudget
      <3>4. ASSUME NEW b \in Budgets
            PROVE  avail'[b] = total'[b] - allocated'[b] - sent'[b]
                                 + received'[b] - deducted'[b]
        <4>1. CASE b = op[c].src
          <5>1. /\ allocated[b] = 0 /\ sent[b] = 0
                /\ received[b] = 0 /\ deducted[b] = 0
            BY <1>0, <2>2, <4>1 DEF UnopenedEmpty
          <5>2. avail'[b] = Total(op[c]) /\ total'[b] = Total(op[c])
            BY <1>0, <2>2, <4>1 DEF TypeOK
          <5> QED
            BY <3>2, <3>3, <5>1, <5>2
        <4>2. CASE b # op[c].src
          <5>1. avail'[b] = avail[b] /\ total'[b] = total[b]
            BY <1>0, <2>2, <4>2 DEF TypeOK
          <5> QED
            BY <1>0, <3>3, <5>1 DEF Conservation
        <4> QED
          BY <4>1, <4>2
      <3> QED
        BY <3>4 DEF Conservation
    <2> QED
      BY <1>3, <2>1, <2>2 DEF InsertBudget
  <1>4. ASSUME NEW c \in Calls, OrgUnitMissing(c)
        PROVE  Conservation'
    BY <1>0, <1>4 DEF OrgUnitMissing, Conservation
  <1>5. ASSUME NEW c \in Calls, ReadBudget(c)
        PROVE  Conservation'
    BY <1>0, <1>5 DEF ReadBudget, Conservation
  <1>6. ASSUME NEW c \in Calls, InsertRecord(c)
        PROVE  Conservation'
    BY <1>0, <1>6 DEF InsertRecord, Conservation
  <1>7. ASSUME NEW c \in Calls, Debit(c)
        PROVE  Conservation'
    BY <1>0, <1>7 DEF Debit, Conservation
  <1>8. ASSUME NEW c \in Calls, Credit(c)
        PROVE  Conservation'
    BY <1>0, <1>8 DEF Credit, Conservation
  <1>9. ASSUME NEW c \in Calls, Emit(c)
        PROVE  Conservation'
    BY <1>0, <1>9 DEF Emit, Conservation
  <1>10. ASSUME NEW c \in Calls, Commit(c)
        PROVE  Conservation'
    <2>1. ASSUME NEW b \in Budgets
          PROVE  avail'[b] = total'[b] - allocated'[b] - sent'[b]
                               + received'[b] - deducted'[b]
      <3>1. avail[b] = total[b] - allocated[b] - sent[b] + received[b] - deducted[b]
        BY <1>0 DEF Conservation
      <3>2. total'[b] = total[b]
        BY <1>10 DEF Commit
      <3>3. /\ avail[b] \in Int /\ allocated[b] \in Int /\ sent[b] \in Int
            /\ received[b] \in Int /\ deducted[b] \in Int /\ total[b] \in Int
            /\ avail'[b] \in Int /\ allocated'[b] \in Int /\ sent'[b] \in Int
            /\ received'[b] \in Int /\ deducted'[b] \in Int
        BY <1>0 DEF TypeOK
      <3>4. op[c] \in Ops
        BY <1>0, <1>10 DEF Commit, PointsMatchOps
      <3>5. Total(op[c]) \in Int
        BY <3>4, RequestFacts
      <3> QED
        BY <1>0, <1>10, <3>1, <3>2, <3>3, <3>5, CommitEffect
    <2> QED
      BY <2>1 DEF Conservation
  <1>11. ASSUME NEW c \in Calls, StatementOnClosedTx(c)
        PROVE  Conservation'
    BY <1>0, <1>11 DEF StatementOnClosedTx, Conservation
  <1>12. ASSUME NEW c \in Calls, PoolTimeout(c)
        PROVE  Conservation'
    BY <1>0, <1>12 DEF PoolTimeout, Conservation
  <1>13. ASSUME NEW c \in Calls, Expire(c)
        PROVE  Conservation'
    BY <1>0, <1>13 DEF Expire, Conservation
  <1>14. ASSUME NEW c \in Calls, DeadlockAbort(c)
        PROVE  Conservation'
    BY <1>0, <1>14 DEF DeadlockAbort, Conservation
  <1>15. CASE Crash
    BY <1>0, <1>15 DEF Crash, Conservation
  <1>16. CASE UNCHANGED vars
    BY <1>0, <1>16 DEF vars, Conservation
  <1> QED
    BY <1>1, <1>2, <1>3, <1>4, <1>5, <1>6, <1>7, <1>8, <1>9, <1>10,
       <1>11, <1>12, <1>13, <1>14, <1>15, <1>16 DEF Next, Step

-----------------------------------------------------------------------------
\* Overdrafts.

\* Products of the pool size and the largest amount, for n calls.
LEMMA Products ==
    ASSUME NEW n \in Int
    PROVE  /\ (n - PoolSize) * MaxAmount \in Int
           /\ (n - (PoolSize - 1)) * MaxAmount
                = (n - PoolSize) * MaxAmount + MaxAmount
           /\ ((n - 1) - PoolSize) * MaxAmount
                = (n - PoolSize) * MaxAmount - MaxAmount
           /\ ((n - 1) - (PoolSize - 1)) * MaxAmount = (n - PoolSize) * MaxAmount
           /\ n >= 0 => (n - PoolSize) * MaxAmount + MaxAmount
                           >= -(PoolSize - 1) * MaxAmount
           /\ n >= 1 => (n - PoolSize) * MaxAmount >= -(PoolSize - 1) * MaxAmount
           /\ n <= PoolSize => (n - PoolSize) * MaxAmount <= 0
  <1>1. PoolSize \in Nat /\ MaxAmount \in Nat
    BY PoolAssumption, OpsAssumption
  <1> DEFINE P == PoolSize
             M == MaxAmount
  <1>2. \A k \in Int : k >= 0 => k * M >= 0
    BY <1>1
  <1>3. (n - P) * M + M = n * M + (-(P - 1) * M)
    BY <1>1
  <1>4. (n - P) * M = (n - 1) * M + (-(P - 1) * M)
    BY <1>1
  <1>5. (n - P) * M = -((P - n) * M)
    BY <1>1
  <1> QED
    BY <1>1, <1>2, <1>3, <1>4, <1>5

\* The calls of S draw at most MaxAmount each.
Drawers(S) ==
    /\ IsFiniteSet(S)
    /\ S \subseteq Calls
    /\ \A c \in S : op[c] \in Ops /\ op[c].kind # "create"

\* A call that draws on a budget takes MaxAmount at most.
LEMMA DrawFacts ==
    ASSUME NEW S, Drawers(S), NEW c \in S
    PROVE  Total(op[c]) \in Nat /\ Total(op[c]) <= MaxAmount
  BY RequestFacts DEF Drawers

\* A call that leaves, having drawn its amount or not, leaves the rest covered.
LEMMA CoversDrop ==
    ASSUME NEW S, Drawers(S), NEW a \in Int, Covers(a, S), NEW c \in S
    PROVE  Covers(a, S \ {c}) /\ Covers(a - Total(op[c]), S \ {c})
  <1> DEFINE n == Cardinality(S)
             x == (n - PoolSize) * MaxAmount
  <1>1. n \in Nat /\ Cardinality(S \ {c}) = n - 1
    BY FS_CardinalityType, FS_RemoveElement DEF Drawers
  <1>2. Total(op[c]) \in Nat /\ Total(op[c]) <= MaxAmount /\ MaxAmount \in Nat
    BY DrawFacts, OpsAssumption
  <1>3. /\ x \in Int
        /\ (n - (PoolSize - 1)) * MaxAmount = x + MaxAmount
        /\ (Cardinality(S \ {c}) - PoolSize) * MaxAmount = x - MaxAmount
        /\ (Cardinality(S \ {c}) - (PoolSize - 1)) * MaxAmount = x
    BY <1>1, Products
  <1> HIDE DEF x, n
  <1>4. CASE a >= x + MaxAmount
    BY <1>2, <1>3, <1>4 DEF Covers
  <1>5. ASSUME NEW d \in S, a >= Total(op[d]) + x
        PROVE  Covers(a, S \ {c}) /\ Covers(a - Total(op[c]), S \ {c})
    <2>1. Total(op[d]) \in Nat
      BY DrawFacts
    <2>2. CASE d = c
      BY <1>2, <1>3, <1>5, <2>1, <2>2 DEF Covers
    <2>3. CASE d # c
      <3>1. d \in S \ {c}
        BY <2>3
      <3>2. /\ a >= Total(op[d]) + (x - MaxAmount)
            /\ a - Total(op[c]) >= Total(op[d]) + (x - MaxAmount)
        BY <1>2, <1>3, <1>5, <2>1
      <3> QED
        BY <1>3, <3>1, <3>2 DEF Covers
    <2> QED
      BY <2>2, <2>3
  <1> QED
    BY <1>3, <1>4, <1>5 DEF Covers, x, n

\* A call whose check saw enough for its own draw covers any set of the pool.
LEMMA CoversAdd ==
    ASSUME NEW S, Drawers(S), Cardinality(S) <= PoolSize, NEW c \in S,
           NEW a \in Int, a >= Total(op[c])
    PROVE  Covers(a, S)
  <1>1. Cardinality(S) \in Nat
    BY FS_CardinalityType DEF Drawers
  <1>2. Total(op[c]) \in Nat
    BY DrawFacts
  <1>3. /\ (Cardinality(S) - PoolSize) * MaxAmount \in Int
        /\ (Cardinality(S) - PoolSize) * MaxAmount <= 0
    BY <1>1, Products
  <1> QED
    BY <1>2, <1>3 DEF Covers

\* Funds that cover the open draws bound how far a budget is overdrawn.
LEMMA CoversBound ==
    ASSUME NEW S, Drawers(S), NEW a \in Int, Covers(a, S)
    PROVE  a >= -(PoolSize - 1) * MaxAmount
  <1> DEFINE n == Cardinality(S)
             x == (n - PoolSize) * MaxAmount
             low == -(PoolSize - 1) * MaxAmount
  <1>1. n \in Nat
    BY FS_CardinalityType DEF Drawers
  <1>2. x \in Int /\ MaxAmount \in Nat /\ low \in Int
    BY <1>1, Products, OpsAssumption, PoolAssumption
  <1>3. x + MaxAmount >= low
    BY <1>1, Products
  <1>6. (n - (PoolSize - 1)) * MaxAmount = x + MaxAmount
    BY <1>1, Products
  <1>4. ASSUME NEW d \in S, a >= Total(op[d]) + x
        PROVE  a >= low
    <2>1. n >= 1
      BY <1>1, FS_EmptySet DEF Drawers
    <2>2. x >= low
      BY <1>1, <2>1, Products
    <2>3. Total(op[d]) \in Nat
      BY DrawFacts
    <2> HIDE DEF x, low, n
    <2> QED
      BY <1>2, <1>4, <2>2, <2>3
  <1>5. ASSUME a >= x + MaxAmount
        PROVE  a >= low
    <2> HIDE DEF x, low, n
    <2> QED
      BY <1>2, <1>3, <1>5
  <1> QED
    BY <1>4, <1>5, <1>6 DEF Covers

\* The calls past their check on a budget are drawers, within the pool.
LEMMA DrawingFacts ==
    ASSUME TypeOK, PointsMatchOps, PoolRespected, NEW b \in Budgets
    PROVE  Drawers(Drawing(b)) /\ Cardinality(Drawing(b)) <= PoolSize
  <1>1. Drawing(b) \subseteq tx /\ tx \subseteq Calls /\ IsFiniteSet(tx)
    BY DEF Drawing, TypeOK, PoolRespected
  <1>2. IsFiniteSet(Drawing(b)) /\ Cardinality(Drawing(b)) <= Cardinality(tx)
    BY <1>1, FS_Subset
  <1>3. \A c \in Drawing(b) : op[c] \in Ops /\ op[c].kind # "create"
    BY <1>1 DEF Drawing, PointsMatchOps
  <1>4. Cardinality(tx) <= PoolSize
    BY DEF PoolRespected
  <1>5. Cardinality(tx) \in Nat /\ Cardinality(Drawing(b)) \in Nat /\ PoolSize \in Nat
    BY <1>1, <1>2, FS_CardinalityType, PoolAssumption
  <1> QED
    BY <1>1, <1>2, <1>3, <1>4, <1>5 DEF Drawers

\* Only the amount, the requests and the set of drawers matter.
LEMMA CoversSame ==
    ASSUME NEW b \in Budgets, NEW S, Covers(avail[b], S), Drawing(b)' = S,
           avail'[b] = avail[b], \A c \in S : op'[c] = op[c]
    PROVE  Covers(avail[b], Drawing(b))'
  BY DEF Covers

\* The end of a transaction, with the draw (when it commits) or without.
LEMMA DrawingEnds ==
    ASSUME TypeOK, PointsMatchOps, PoolRespected, DrawsCovered,
           NEW b \in Budgets, NEW c \in Calls, tx' = tx \ {c}, op' = op,
           \A d \in Calls \ {c} : pc'[d] = pc[d],
           avail'[b] \in Int,
           \/ avail'[b] >= avail[b]
           \/ c \in Drawing(b) /\ avail'[b] >= avail[b] - Total(op[c])
    PROVE  Covers(avail[b], Drawing(b))'
  <1> DEFINE S == Drawing(b)
  <1>1. Drawing(b)' = S \ {c}
    BY DEF Drawing, TypeOK
  <1>2. Drawers(S) /\ Covers(avail[b], S) /\ avail[b] \in Int
    BY DrawingFacts DEF DrawsCovered, TypeOK
  <1>3. PICK a \in Int : Covers(a, S \ {c}) /\ avail'[b] >= a
    <2>1. CASE c \in S
      <3>1. Total(op[c]) \in Nat
        BY <1>2, <2>1, DrawFacts
      <3> QED
        BY <1>2, <2>1, <3>1, CoversDrop
    <2>2. CASE c \notin S
      <3>1. S \ {c} = S
        BY <2>2
      <3> QED
        BY <1>2, <2>2, <3>1
    <2> QED
      BY <2>1, <2>2
  <1>4. Drawers(S \ {c})
    BY <1>2, FS_RemoveElement DEF Drawers
  <1> DEFINE x == (Cardinality(S \ {c}) - PoolSize) * MaxAmount
  <1>5. Cardinality(S \ {c}) \in Nat /\ MaxAmount \in Nat
    BY <1>4, FS_CardinalityType, OpsAssumption DEF Drawers
  <1>6. /\ x \in Int
        /\ (Cardinality(S \ {c}) - (PoolSize - 1)) * MaxAmount = x + MaxAmount
    BY <1>5, Products
  <1>7. \A d \in S \ {c} : Total(op[d]) \in Nat
    BY <1>4, DrawFacts
  <1>8. Covers(avail'[b], S \ {c})
    <2>1. \/ a >= x + MaxAmount
          \/ \E d \in S \ {c} : a >= Total(op[d]) + x
      BY <1>3, <1>6 DEF Covers
    <2> HIDE DEF x
    <2>2. \/ avail'[b] >= x + MaxAmount
          \/ \E d \in S \ {c} : avail'[b] >= Total(op[d]) + x
      BY <1>3, <1>5, <1>6, <1>7, <2>1
    <2> QED
      BY <1>6, <2>2 DEF Covers, x
  <1> QED
    BY <1>1, <1>8 DEF Covers

\* No drawers: any amount above the bound is covered.
LEMMA CoversNone ==
    ASSUME NEW a \in Int, a >= -(PoolSize - 1) * MaxAmount
    PROVE  Covers(a, {})
  <1>1. Cardinality({}) = 0
    BY FS_EmptySet
  <1>2. (0 - (PoolSize - 1)) * MaxAmount = -(PoolSize - 1) * MaxAmount
    BY PoolAssumption, OpsAssumption
  <1> QED
    BY <1>1, <1>2 DEF Covers

\* The bound on the overdraft is a number.
LEMMA BoundNegative == -(PoolSize - 1) * MaxAmount \in Int
                       /\ -(PoolSize - 1) * MaxAmount <= 0
  <1>1. PoolSize - 1 \in Nat /\ MaxAmount \in Nat
    BY PoolAssumption, OpsAssumption
  <1> QED
    BY <1>1

\* Each step keeps the open draws covered.
LEMMA DrawsNext == IInv /\ [Next]_vars => DrawsCovered'
  <1> SUFFICES ASSUME IInv, [Next]_vars
               PROVE  DrawsCovered'
    OBVIOUS
  <1> USE DEF book, session
  <1>0. /\ TypeOK /\ TypeOK' /\ PointsMatchOps /\ StagingMatchesPoints
        /\ CheckedBudgetsExist /\ PoolRespected /\ PoolRespected'
        /\ PointsMatchOps' /\ DrawsCovered
    BY TypeNext, PoolNext, PointsNext DEF IInv
  <1>a. \A b \in Budgets : avail[b] \in Int /\ avail'[b] \in Int
    BY <1>0 DEF TypeOK
  <1>b. ASSUME NEW b \in Budgets, Drawing(b)' = Drawing(b), avail'[b] = avail[b],
               \A c \in Drawing(b) : op'[c] = op[c]
        PROVE  Covers(avail[b], Drawing(b))'
    BY <1>0, <1>b, CoversSame DEF DrawsCovered
  <1>c. ASSUME NEW c \in Calls, EndTx(c), UNCHANGED <<avail, op>>,
               \A d \in Calls \ {c} : pc'[d] = pc[d]
        PROVE  DrawsCovered'
    BY <1>0, <1>a, <1>c, DrawingEnds DEF EndTx, DrawsCovered
  <1>1. ASSUME NEW c \in Calls, NEW o \in Ops, Start(c, o)
        PROVE  DrawsCovered'
    <2>1. /\ \A b \in Budgets : Drawing(b)' = Drawing(b)
          /\ \A b \in Budgets : \A d \in Drawing(b) : op'[d] = op[d]
          /\ avail' = avail
      BY <1>0, <1>1 DEF Start, Drawing, PastCheck, GoTo, Return, TypeOK, PointsMatchOps
    <2> QED
      BY <1>b, <2>1 DEF DrawsCovered
  <1>2. ASSUME NEW c \in Calls, CheckBudget(c)
        PROVE  DrawsCovered'
    <2>1. /\ \A b \in Budgets : Drawing(b)' = Drawing(b)
          /\ \A b \in Budgets : \A d \in Drawing(b) : op'[d] = op[d]
          /\ avail' = avail
      BY <1>0, <1>2 DEF CheckBudget, Drawing, PastCheck, GoTo, Return, TypeOK, PointsMatchOps
    <2> QED
      BY <1>b, <2>1 DEF DrawsCovered
  <1>3. ASSUME NEW c \in Calls, InsertBudget(c)
        PROVE  DrawsCovered'
    <2>1. /\ \A b \in Budgets : Drawing(b)' = Drawing(b)
          /\ op' = op
      BY <1>0, <1>3 DEF InsertBudget, Drawing, PastCheck, GoTo, Return, TypeOK, PointsMatchOps
    <2>2. ASSUME NEW b \in Budgets, avail'[b] # avail[b]
          PROVE  Covers(avail[b], Drawing(b))'
      <3>1. b = op[c].src /\ b \notin rows /\ avail'[b] = Total(op[c])
        BY <1>0, <1>3, <2>2 DEF InsertBudget, TypeOK
      <3>2. op[c] \in Ops
        BY <1>0, <1>3 DEF InsertBudget, PointsMatchOps
      <3>3. avail'[b] >= -(PoolSize - 1) * MaxAmount
        BY <3>1, <3>2, RequestFacts, BoundNegative
      <3>4. Drawing(b)' = {}
        BY <1>0, <2>1, <3>1 DEF Drawing, CheckedBudgetsExist
      <3>5. Covers(avail'[b], {})
        BY <1>a, <3>3, CoversNone
      <3> QED
        BY <3>4, <3>5 DEF Covers
    <2> QED
      BY <1>b, <2>1, <2>2 DEF DrawsCovered
  <1>4. ASSUME NEW c \in Calls, OrgUnitMissing(c)
        PROVE  DrawsCovered'
    BY <1>0, <1>c, <1>4 DEF OrgUnitMissing, Return, GoTo, TypeOK
  <1>5. ASSUME NEW c \in Calls, ReadBudget(c)
        PROVE  DrawsCovered'
    <2>1. CASE ~FundsVerified(op[c])
      BY <1>0, <1>c, <1>5, <2>1 DEF ReadBudget, Return, GoTo, TypeOK
    <2>2. CASE FundsVerified(op[c])
      <3>1. /\ avail' = avail /\ op' = op /\ tx' = tx
            /\ c \in tx /\ pc[c] = "read" /\ pc' = [pc EXCEPT ![c] = AfterRead(op[c])]
            /\ op[c] \in Ops
        BY <1>0, <1>5, <2>2 DEF ReadBudget, GoTo, PointsMatchOps
      <3>2. ASSUME NEW b \in Budgets, b # op[c].src
            PROVE  Drawing(b)' = Drawing(b)
        BY <1>0, <3>1, <3>2 DEF Drawing, PastCheck, TypeOK
      <3>3. ASSUME NEW b \in Budgets, b = op[c].src
            PROVE  Covers(avail[b], Drawing(b))'
        <4>1. c \in Drawing(b)'
          BY <1>0, <3>1, <3>3 DEF Drawing, PastCheck, AfterRead, TypeOK
        <4>2. Drawers(Drawing(b))' /\ Cardinality(Drawing(b)') <= PoolSize
          <5>1. /\ Drawing(b)' \subseteq tx /\ tx \subseteq Calls
                /\ IsFiniteSet(tx) /\ Cardinality(tx) <= PoolSize
            BY <1>0, <3>1 DEF Drawing, TypeOK, PoolRespected
          <5>2. /\ IsFiniteSet(Drawing(b)')
                /\ Cardinality(Drawing(b)') <= Cardinality(tx)
            BY <5>1, FS_Subset
          <5>3. /\ Cardinality(Drawing(b)') \in Nat /\ Cardinality(tx) \in Nat
                /\ PoolSize \in Nat
            BY <5>1, <5>2, FS_CardinalityType, PoolAssumption
          <5>4. \A d \in tx : op[d] \in Ops /\ op[d].kind # "create"
            BY <1>0, <5>1 DEF PointsMatchOps
          <5> QED
            BY <3>1, <5>1, <5>2, <5>3, <5>4 DEF Drawers
        <4>3. avail[b] >= Total(op[c])
          BY <2>2, <3>3 DEF FundsVerified
        <4>4. Drawers(Drawing(b)')
          BY <3>1, <4>2 DEF Drawers
        <4>5. Covers(avail[b], Drawing(b)')
          BY <1>a, <4>1, <4>2, <4>3, <4>4, CoversAdd
        <4> QED
          BY <3>1, <4>5 DEF Covers
      <3> QED
        BY <1>b, <3>1, <3>2, <3>3 DEF DrawsCovered
    <2> QED
      BY <2>1, <2>2
  <1>6. ASSUME NEW c \in Calls, InsertRecord(c)
        PROVE  DrawsCovered'
    <2>1. /\ \A b \in Budgets : Drawing(b)' = Drawing(b)
          /\ \A b \in Budgets : \A d \in Drawing(b) : op'[d] = op[d]
          /\ avail' = avail
      BY <1>0, <1>6 DEF InsertRecord, Drawing, PastCheck, GoTo, Return, TypeOK, PointsMatchOps
    <2> QED
      BY <1>b, <2>1 DEF DrawsCovered
  <1>7. ASSUME NEW c \in Calls, Debit(c)
        PROVE  DrawsCovered'
    <2>1. /\ \A b \in Budgets : Drawing(b)' = Drawing(b)
          /\ \A b \in Budgets : \A d \in Drawing(b) : op'[d] = op[d]
          /\ avail' = avail
      BY <1>0, <1>7 DEF Debit, UpdateRow, Drawing, PastCheck, GoTo, Return, TypeOK, PointsMatchOps
    <2> QED
      BY <1>b, <2>1 DEF DrawsCovered
  <1>8. ASSUME NEW c \in Calls, Credit(c)
        PROVE  DrawsCovered'
    <2>1. /\ \A b \in Budgets : Drawing(b)' = Drawing(b)
          /\ \A b \in Budgets : \A d \in Drawing(b) : op'[d] = op[d]
          /\ avail' = avail
      BY <1>0, <1>8 DEF Credit, UpdateRow, Drawing, PastCheck, GoTo, Return, TypeOK, PointsMatchOps
    <2> QED
      BY <1>b, <2>1 DEF DrawsCovered
  <1>9. ASSUME NEW c \in Calls, Emit(c)
        PROVE  DrawsCovered'
    <2>1. /\ \A b \in Budgets : Drawing(b)' = Drawing(b)
          /\ \A b \in Budgets : \A d \in Drawing(b) : op'[d] = op[d]
          /\ avail' = avail
      BY <1>0, <1>9 DEF Emit, Drawing, PastCheck, GoTo, Return, TypeOK, PointsMatchOps
    <2> QED
      BY <1>b, <2>1 DEF DrawsCovered
  <1>10. ASSUME NEW c \in Calls, Commit(c)
        PROVE  DrawsCovered'
    <2>1. /\ op[c] \in Ops /\ c \in tx /\ pc[c] = "commit"
          /\ tx' = tx \ {c} /\ op' = op
          /\ \A d \in Calls \ {c} : pc'[d] = pc[d]
      BY <1>0, <1>10 DEF Commit, EndTx, Return, GoTo, TypeOK, PointsMatchOps
    <2>2. Total(op[c]) \in Nat
      BY <2>1, RequestFacts
    <2>3. ASSUME NEW b \in Budgets
          PROVE  Covers(avail[b], Drawing(b))'
      <3>1. CASE b = op[c].src
        <4>1. c \in Drawing(b)
          BY <2>1, <3>1 DEF Drawing, PastCheck
        <4>2. avail'[b] >= avail[b] - Total(op[c])
          BY <1>0, <1>a, <1>10, <2>2, <3>1, CommitEffect
        <4> QED
          BY <1>0, <1>a, <2>1, <4>1, <4>2, DrawingEnds
      <3>2. CASE b # op[c].src
        <4>1. avail'[b] >= avail[b]
          BY <1>0, <1>a, <1>10, <2>2, <3>2, CommitEffect
        <4> QED
          BY <1>0, <1>a, <2>1, <4>1, DrawingEnds
      <3> QED
        BY <3>1, <3>2
    <2> QED
      BY <2>3 DEF DrawsCovered
  <1>11. ASSUME NEW c \in Calls, StatementOnClosedTx(c)
        PROVE  DrawsCovered'
    <2>1. /\ \A b \in Budgets : Drawing(b)' = Drawing(b)
          /\ \A b \in Budgets : \A d \in Drawing(b) : op'[d] = op[d]
          /\ avail' = avail
      BY <1>0, <1>11 DEF StatementOnClosedTx, Drawing, PastCheck, GoTo, Return, TypeOK, PointsMatchOps
    <2> QED
      BY <1>b, <2>1 DEF DrawsCovered
  <1>12. ASSUME NEW c \in Calls, PoolTimeout(c)
        PROVE  DrawsCovered'
    BY <1>0, <1>c, <1>12 DEF PoolTimeout, Return, GoTo, TypeOK
  <1>13. ASSUME NEW c \in Calls, Expire(c)
        PROVE  DrawsCovered'
    BY <1>0, <1>c, <1>13 DEF Expire
  <1>14. ASSUME NEW c \in Calls, DeadlockAbort(c)
        PROVE  DrawsCovered'
    BY <1>0, <1>c, <1>14 DEF DeadlockAbort, Return, GoTo, TypeOK
  <1>15. CASE Crash
    <2>1. /\ \A b \in Budgets : Drawing(b)' = {}
          /\ avail' = avail
      BY <1>15 DEF Crash, Drawing
    <2>2. ASSUME NEW b \in Budgets
          PROVE  Covers(avail[b], Drawing(b))'
      <3>1. avail[b] >= -(PoolSize - 1) * MaxAmount
        BY <1>0, <1>a, DrawingFacts, CoversBound DEF DrawsCovered
      <3>2. Covers(avail'[b], {})
        BY <1>a, <2>1, <3>1, CoversNone
      <3> QED
        BY <2>1, <3>2 DEF Covers
    <2> QED
      BY <2>2 DEF DrawsCovered
  <1>16. CASE UNCHANGED vars
    <2>1. /\ \A b \in Budgets : Drawing(b)' = Drawing(b)
          /\ op' = op /\ avail' = avail
      BY <1>16 DEF vars, Drawing
    <2> QED
      BY <1>b, <2>1 DEF DrawsCovered
  <1> QED
    BY <1>1, <1>2, <1>3, <1>4, <1>5, <1>6, <1>7, <1>8, <1>9, <1>10,
       <1>11, <1>12, <1>13, <1>14, <1>15, <1>16 DEF Next, Step

-----------------------------------------------------------------------------
\* The theorems.

\* The inductive invariant holds at the start.
LEMMA InvInit == Init => IInv
  <1> SUFFICES ASSUME Init
               PROVE  IInv
    OBVIOUS
  <1>1. TypeOK
    BY TypeInit
  <1>2. PointsMatchOps /\ EventsMatchPoints
    BY DEF Init, PointsMatchOps, EventsMatchPoints
  <1>3. StagingMatchesPoints /\ CheckedBudgetsExist
    BY DEF Init, StagingMatchesPoints, CheckedBudgetsExist
  <1>4. UnopenedEmpty /\ Conservation
    BY <1>1 DEF Init, UnopenedEmpty, Conservation, TypeOK
  <1>5. PoolRespected
    BY FS_EmptySet, PoolAssumption DEF Init, PoolRespected
  <1>6. ASSUME NEW b \in Budgets
        PROVE  Covers(avail[b], Drawing(b))
    <2>1. Drawing(b) = {}
      BY DEF Init, Drawing
    <2>2. avail[b] \in Nat
      BY <1>1 DEF Init, TypeOK
    <2>3. avail[b] >= -(PoolSize - 1) * MaxAmount
      BY <2>2, BoundNegative
    <2> QED
      BY <2>1, <2>2, <2>3, CoversNone
  <1> QED
    BY <1>1, <1>2, <1>3, <1>4, <1>5, <1>6 DEF IInv, DrawsCovered

\* Every step preserves the inductive invariant.
LEMMA InvNext == IInv /\ [Next]_vars => IInv'
  BY TypeNext, PointsNext, EventsNext, StagingNext, CheckedNext, UnopenedNext,
     PoolNext, ConservationNext, DrawsNext DEF IInv

\* The inductive invariant holds, and with it type correctness.
THEOREM Invariance == Spec => []IInv
  <1>1. Init => IInv
    BY InvInit
  <1>2. IInv /\ [Next]_vars => IInv'
    BY InvNext
  <1> QED
    BY <1>1, <1>2, PTL DEF Spec

\* Type correctness of the ledger, for all constants.
THEOREM TypeCorrect == Spec => []TypeOK
  <1>1. IInv => TypeOK
    BY DEF IInv
  <1> QED
    BY <1>1, Invariance, PTL

\* No interleaving, timeout, deadlock or crash loses or invents money: for any
\* number of calls, the amounts of every budget agree with its records.
THEOREM ConservationHolds == Spec => []Conservation
  <1>1. IInv => Conservation
    BY DEF IInv
  <1> QED
    BY <1>1, Invariance, PTL

\* A budget is overdrawn by at most MaxAmount per connection but one, however
\* many calls race on it; with one connection never.
THEOREM OverdraftHolds == Spec => []OverdraftBounded
  <1>1. IInv => OverdraftBounded
    <2> SUFFICES ASSUME IInv, NEW b \in Budgets
                 PROVE  avail[b] >= -(PoolSize - 1) * MaxAmount
      BY DEF OverdraftBounded
    <2>1. TypeOK /\ PointsMatchOps /\ PoolRespected /\ DrawsCovered
      BY DEF IInv
    <2>2. avail[b] \in Int /\ Covers(avail[b], Drawing(b)) /\ Drawers(Drawing(b))
      BY <2>1, DrawingFacts DEF TypeOK, DrawsCovered
    <2> QED
      BY <2>2, CoversBound
  <1> QED
    BY <1>1, Invariance, PTL

\* Nothing is posted without its event in the outbox.
THEOREM PostedHasEventHolds == Spec => []PostedHasEvent
  <1>1. IInv => PostedHasEvent
    BY DEF IInv, EventsMatchPoints, PostedHasEvent
  <1> QED
    BY <1>1, Invariance, PTL

-----------------------------------------------------------------------------
\* Refinement.

\* The book's operators on requests are the ledger's.
LEMMA BookTotal == \A o : Book!Total(o) = Total(o) /\ Book!SameYear(o) = SameYear(o)
  BY DEF Book!Total, Total, Book!Running, Running, Book!SameYear, SameYear

\* Steps that leave the tables and the outbox alone leave the book alone.
LEMMA MappingSame ==
    ASSUME UNCHANGED <<book, outbox>>,
           \A c \in outbox : op'[c] = op[c],
           \A c \in Calls : \/ result'[c] = result[c] /\ op'[c] = op[c]
                            \/ result'[c] # "ok" /\ result[c] # "ok"
    PROVE  UNCHANGED Book!vars
  BY DEF book, Book!vars

\* Each step of the ledger is a step of the book or leaves it alone.
LEMMA BookNext == IInv /\ [Next]_vars => [Book!Next]_(Book!vars)
  <1> SUFFICES ASSUME IInv, [Next]_vars
               PROVE  [Book!Next]_(Book!vars)
    OBVIOUS
  <1>0. /\ TypeOK /\ PointsMatchOps /\ EventsMatchPoints
        /\ StagingMatchesPoints /\ CheckedBudgetsExist
    BY DEF IInv
  <1>1. ASSUME NEW c \in Calls, NEW o \in Ops, Start(c, o)
        PROVE  UNCHANGED Book!vars
    <2>1. /\ UNCHANGED <<book, outbox>> /\ result' = result
          /\ op' = [op EXCEPT ![c] = o] /\ c \notin outbox /\ result[c] # "ok"
      BY <1>0, <1>1 DEF Start, PointsMatchOps, book
    <2>2. \A d \in outbox : op'[d] = op[d]
      BY <1>0, <2>1 DEF TypeOK
    <2>3. \A d \in Calls : \/ result'[d] = result[d] /\ op'[d] = op[d]
                           \/ result'[d] # "ok" /\ result[d] # "ok"
      BY <1>0, <2>1 DEF TypeOK
    <2> QED
      BY <2>1, <2>2, <2>3, MappingSame
  <1>2. ASSUME NEW c \in Calls,
               UNCHANGED <<book, outbox, op>>,
               result[c] # "ok",
               \/ UNCHANGED result
               \/ \E r \in {"rejected", "failed"} :
                    result' = [result EXCEPT ![c] = r]
        PROVE  UNCHANGED Book!vars
    <2>1. \A d \in Calls : \/ result'[d] = result[d] /\ op'[d] = op[d]
                           \/ result'[d] # "ok" /\ result[d] # "ok"
      BY <1>0, <1>2 DEF TypeOK
    <2>2. UNCHANGED <<book, outbox>> /\ \A d \in outbox : op'[d] = op[d]
      BY <1>2
    <2> QED
      BY <2>1, <2>2, MappingSame
  <1>3. ASSUME NEW c \in Calls, InsertBudget(c)
        PROVE  [Book!Next]_(Book!vars)
    <2>1. /\ op[c] \in Ops /\ op[c].kind = "create" /\ result[c] # "ok"
          /\ UNCHANGED <<allocated, sent, received, deducted, outbox, op>>
      BY <1>0, <1>3 DEF InsertBudget, PointsMatchOps
    <2>2. CASE op[c].src \in rows
      <3>1. /\ UNCHANGED <<book, outbox, op>>
            /\ result' = [result EXCEPT ![c] = "rejected"]
        BY <1>3, <2>1, <2>2 DEF InsertBudget, Return, book
      <3> QED
        BY <1>2, <2>1, <3>1
    <2>3. CASE op[c].src \notin rows
      <3>1. /\ rows' = rows \cup {op[c].src} /\ result' = result
            /\ total' = [total EXCEPT ![op[c].src] = Total(op[c])]
            /\ avail' = [avail EXCEPT ![op[c].src] = Total(op[c])]
        BY <1>3, <2>3 DEF InsertBudget
      <3>2. PICK o \in Ops : o = op[c]
        BY <2>1
      <3>3. /\ UNCHANGED [d \in Calls |-> IF d \in outbox THEN op[d] ELSE NoOp]
            /\ UNCHANGED {d \in Calls : result[d] = "ok" /\ op[d].kind # "create"}
        BY <2>1, <3>1
      <3>4. Book!OpenBudget(o)
        BY <2>1, <2>3, <3>1, <3>2, <3>3, BookTotal DEF Book!OpenBudget, Book!records
      <3> QED
        BY <3>4 DEF Book!Next
    <2> QED
      BY <2>2, <2>3
  <1>4. ASSUME NEW c \in Calls, Emit(c)
        PROVE  Book!Next
    <2>1. /\ op[c] \in Ops /\ c \notin outbox /\ result[c] # "ok"
          /\ outbox' = outbox \cup {c} /\ UNCHANGED <<book, op>>
          /\ \/ op[c].kind = "create" /\ result' = [result EXCEPT ![c] = "ok"]
             \/ result' = result
      BY <1>0, <1>4
         DEF Emit, Return, PointsMatchOps, EventsMatchPoints, book
    <2>2. [d \in Calls |-> IF d \in outbox' THEN op'[d] ELSE NoOp]
            = [[d \in Calls |-> IF d \in outbox THEN op[d] ELSE NoOp]
                 EXCEPT ![c] = op[c]]
      BY <2>1
    <2>3. {d \in Calls : result'[d] = "ok" /\ op'[d].kind # "create"}
            = {d \in Calls : result[d] = "ok" /\ op[d].kind # "create"}
      BY <1>0, <2>1 DEF TypeOK
    <2>4. PICK o \in Ops : o = op[c]
      BY <2>1
    <2>5. Book!Announce(c, o)
      BY <2>1, <2>2, <2>3, <2>4 DEF Book!Announce, Book!records, book
    <2> QED
      BY <2>5 DEF Book!Next
  <1>5. ASSUME NEW c \in Calls, Commit(c)
        PROVE  Book!Next
    <2> DEFINE o == op[c]
    <2>1. /\ o \in Ops /\ o.kind # "create" /\ c \in tx /\ c \in outbox
          /\ result[c] # "ok" /\ staged[c] = StagedAt("commit", o)
          /\ o.kind # "deduct" => Running(o, inserted[c]) = Total(o)
      BY <1>0, <1>5 DEF Commit, PointsMatchOps, EventsMatchPoints,
                        StagingMatchesPoints, Total
    <2>2. /\ o.src \in rows
          /\ o.kind = "transfer" => o.dst \in rows /\ SameYear(o)
      BY <1>0, <1>5 DEF Commit, CheckedBudgetsExist, PastCheck
    <2>3. /\ result' = [result EXCEPT ![c] = "ok"]
          /\ UNCHANGED <<rows, total, outbox, op>>
          /\ avail' = [b \in Budgets |-> avail[b] + staged[c][b]]
      BY <1>5 DEF Commit, Return
    <2>4. /\ [d \in Calls |-> IF d \in outbox THEN op[d] ELSE NoOp][c] = o
          /\ UNCHANGED [d \in Calls |-> IF d \in outbox THEN op[d] ELSE NoOp]
      BY <2>1, <2>3
    <2>5. {d \in Calls : result'[d] = "ok" /\ op'[d].kind # "create"}
            = {d \in Calls : result[d] = "ok" /\ op[d].kind # "create"} \cup {c}
      BY <1>0, <2>1, <2>3 DEF TypeOK
    <2>6. c \notin {d \in Calls : result[d] = "ok" /\ op[d].kind # "create"}
      BY <2>1
    <2>7. o.src \in Budgets /\ o.dst \in Budgets /\ Total(o) \in Nat /\ o.kind \in Kinds
      BY <2>1, RequestFacts
    <2>8. o.kind # "transfer" => avail' = [avail EXCEPT ![o.src] = @ - Total(o)]
      <3> SUFFICES ASSUME o.kind # "transfer"
                   PROVE  avail' = [avail EXCEPT ![o.src] = @ - Total(o)]
        OBVIOUS
      <3>1. \A b \in Budgets : staged[c][b] = IF b = o.src THEN -Total(o) ELSE 0
        BY <2>1, <2>7 DEF StagedAt, DebitStaged, NoChange
      <3>2. \A b \in Budgets :
              avail[b] + staged[c][b] = IF b = o.src THEN avail[b] - Total(o)
                                        ELSE avail[b]
        BY <1>0, <2>7, <3>1 DEF TypeOK
      <3> QED
        BY <1>0, <2>3, <2>7, <3>2 DEF TypeOK
    <2>9. o.kind = "transfer" =>
            avail' = [[avail EXCEPT ![o.src] = @ - Total(o)]
                        EXCEPT ![o.dst] = @ + Total(o)]
      <3> SUFFICES ASSUME o.kind = "transfer"
                   PROVE  avail' = [[avail EXCEPT ![o.src] = @ - Total(o)]
                                      EXCEPT ![o.dst] = @ + Total(o)]
        OBVIOUS
      <3> DEFINE moved == [[avail EXCEPT ![o.src] = @ - Total(o)]
                             EXCEPT ![o.dst] = @ + Total(o)]
      <3>1. \A b \in Budgets : staged[c][b] = (IF b = o.src THEN -Total(o) ELSE 0)
                                            + (IF b = o.dst THEN Total(o) ELSE 0)
        BY <2>1, <2>7 DEF StagedAt, CreditStaged, DebitStaged, NoChange
      <3>2. \A b \in Budgets :
              moved[b] = avail[b] + (IF b = o.src THEN -Total(o) ELSE 0)
                                  + (IF b = o.dst THEN Total(o) ELSE 0)
        BY <1>0, <2>7 DEF TypeOK
      <3>3. moved \in [Budgets -> Int] /\ DOMAIN moved = Budgets
        BY <1>0, <2>7 DEF TypeOK
      <3> HIDE DEF moved
      <3>4. \A b \in Budgets : avail[b] + staged[c][b] = moved[b]
        BY <1>0, <2>7, <3>1, <3>2 DEF TypeOK
      <3>5. moved = [b \in Budgets |-> avail[b] + staged[c][b]]
        BY <3>3, <3>4
      <3> QED
        BY <2>3, <3>5 DEF moved
    <2>10. CASE o.kind = "allocate"
      <3>1. /\ allocated' = [allocated EXCEPT ![o.src] = @ + Total(o)]
            /\ UNCHANGED <<sent, received, deducted>>
        BY <1>5, <2>1, <2>10 DEF Commit
      <3>2. Book!Post(c)
        BY <2>1, <2>2, <2>3, <2>4, <2>5, <2>6, <2>8, <2>10, <3>1,
           BookTotal DEF Book!Post
      <3> QED
        BY <3>2 DEF Book!Next
    <2>11. CASE o.kind = "transfer"
      <3>1. /\ sent' = [sent EXCEPT ![o.src] = @ + Total(o)]
            /\ received' = [received EXCEPT ![o.dst] = @ + Total(o)]
            /\ UNCHANGED <<allocated, deducted>>
        BY <1>5, <2>1, <2>11 DEF Commit
      <3>2. Book!Post(c)
        BY <2>1, <2>2, <2>3, <2>4, <2>5, <2>6, <2>9, <2>11, <3>1,
           BookTotal DEF Book!Post
      <3> QED
        BY <3>2 DEF Book!Next
    <2>12. CASE o.kind = "deduct"
      <3>1. /\ deducted' = [deducted EXCEPT ![o.src] = @ + Total(o)]
            /\ UNCHANGED <<allocated, sent, received>>
        BY <1>5, <2>12 DEF Commit
      <3>2. Book!Post(c)
        BY <2>1, <2>2, <2>3, <2>4, <2>5, <2>6, <2>8, <2>12, <3>1,
           BookTotal DEF Book!Post
      <3> QED
        BY <3>2 DEF Book!Next
    <2> QED
      BY <2>1, <2>7, <2>10, <2>11, <2>12 DEF Kinds
  <1>6. CASE Crash
    <2>1. UNCHANGED <<book, outbox>> /\ op' = op
      BY <1>6 DEF Crash
    <2>2. ASSUME NEW d \in Calls
          PROVE  \/ result'[d] = result[d]
                 \/ result'[d] # "ok" /\ result[d] # "ok"
      <3>1. CASE pc[d] \in {"idle", "done"}
        BY <1>6, <3>1 DEF Crash
      <3>2. CASE pc[d] \notin {"idle", "done"}
        <4>1. result[d] = "none"
          BY <1>0, <3>2 DEF PointsMatchOps
        <4>2. result'[d] = "failed"
          BY <1>6, <3>2 DEF Crash
        <4> QED
          BY <4>1, <4>2
      <3> QED
        BY <3>1, <3>2
    <2> QED
      BY <2>1, <2>2, MappingSame
  <1>7. CASE UNCHANGED vars
    BY <1>7 DEF vars, Book!vars
  <1>8. ASSUME NEW c \in Calls,
               \/ CheckBudget(c) \/ OrgUnitMissing(c) \/ ReadBudget(c)
               \/ InsertRecord(c) \/ Debit(c) \/ Credit(c) \/ Expire(c)
               \/ StatementOnClosedTx(c) \/ PoolTimeout(c) \/ DeadlockAbort(c)
        PROVE  UNCHANGED Book!vars
    <2>1. /\ UNCHANGED <<book, outbox, op>>
          /\ \/ UNCHANGED result
             \/ \E r \in {"rejected", "failed"} :
                  result' = [result EXCEPT ![c] = r]
      BY <1>8 DEF CheckBudget, OrgUnitMissing, ReadBudget, InsertRecord, Debit,
                  Credit, Expire, StatementOnClosedTx, PoolTimeout,
                  DeadlockAbort, Return, book
    <2>2. result[c] # "ok" \/ UNCHANGED result
      BY <1>0, <1>8 DEF CheckBudget, OrgUnitMissing, ReadBudget, InsertRecord,
                        Debit, Credit, Expire, StatementOnClosedTx, PoolTimeout,
                        DeadlockAbort, Waiting, PointsMatchOps
    <2>3. CASE result[c] # "ok"
      BY <1>2, <2>1, <2>3
    <2>4. CASE UNCHANGED result
      <3>1. UNCHANGED <<book, outbox>> /\ \A d \in outbox : op'[d] = op[d]
        BY <2>1
      <3> QED
        BY <2>1, <2>4, <3>1, MappingSame
    <2> QED
      BY <2>2, <2>3, <2>4
  <1> QED
    BY <1>1, <1>3, <1>4, <1>5, <1>6, <1>7, <1>8 DEF Next, Step

\* The ledger implements the book: each call is posted whole, once and after
\* its event, or not at all.
THEOREM LedgerImplementsBook == Spec => BookSpec
  <1>1. Init => Book!Init
    BY DEF Init, Book!Init
  <1>2. IInv /\ [Next]_vars => [Book!Next]_(Book!vars)
    BY BookNext
  <1> QED
    BY <1>1, <1>2, Invariance, PTL DEF Spec, BookSpec, Book!Spec

\* An existing budget keeps its total: of several creators one succeeds.
THEOREM CreatedOnceHolds == Spec => CreatedOnce
  <1>1. IInv /\ [Next]_vars =>
          [\A b \in rows : b \in rows' /\ total'[b] = total[b]]_vars
    <2> SUFFICES ASSUME IInv, Next, NEW b \in rows
                 PROVE  b \in rows' /\ total'[b] = total[b]
      BY DEF vars
    <2>1. TypeOK
      BY DEF IInv
    <2>2. ASSUME NEW c \in Calls, InsertBudget(c)
          PROVE  b \in rows' /\ total'[b] = total[b]
      BY <2>1, <2>2 DEF InsertBudget, TypeOK
    <2>3. ASSUME NEW c \in Calls, Commit(c)
          PROVE  b \in rows' /\ total'[b] = total[b]
      BY <2>3 DEF Commit
    <2>4. ASSUME UNCHANGED book
          PROVE  b \in rows' /\ total'[b] = total[b]
      BY <2>4 DEF book
    <2>5. \/ \E c \in Calls : InsertBudget(c) \/ Commit(c)
          \/ UNCHANGED book
      BY DEF Next, Step, Start, CheckBudget, OrgUnitMissing, ReadBudget,
             InsertRecord, Debit, Credit, Emit, StatementOnClosedTx, PoolTimeout,
             Expire, DeadlockAbort, Crash
    <2> QED
      BY <2>2, <2>3, <2>4, <2>5
  <1> QED
    BY <1>1, Invariance, PTL DEF Spec, CreatedOnce
=============================================================================
