---------------------- MODULE PurchaseOrderRefinements -----------------------
(***************************************************************************)
(* Purchase orders implement what other parts rely on: each of their       *)
(* deductions is a posting of BudgetBook, and what becomes of each order   *)
(* is a behaviour of OrderPath.                                            *)
(***************************************************************************)
EXTENDS PurchaseOrderProofs, FiniteSetTheorems

-----------------------------------------------------------------------------
\* The money the orders took, in units: finitely many at any time, since each
\* deduction adds the units of one order.

\* What one deduction adds to the units.
LEMMA UnitsOfDeduction ==
    ASSUME TypeOK, TypeOK', IsFiniteSet(Units), NEW p \in POs, NEW n \in Nat,
           deducted[p] = 0, deducted' = [deducted EXCEPT ![p] = @ + n]
    PROVE  IsFiniteSet(Units') /\ TakenByAll' = TakenByAll + n
  <1> DEFINE Added == {p} \X (1..n)
  <1>1. deducted'[p] = n /\ \A q \in POs \ {p} : deducted'[q] = deducted[q]
    BY DEF TypeOK
  <1>2. ASSUME NEW u
        PROVE  u \in Units' <=> u \in Units \cup Added
    <2>1. u \in Units <=> \E q \in POs : u \in {q} \X (1..deducted[q])
      BY DEF Units
    <2>2. u \in Units' <=> \E q \in POs : u \in {q} \X (1..deducted'[q])
      BY DEF Units
    <2>3. u \notin {p} \X (1..deducted[p])
      BY 1..0 = {}
    <2> QED
      BY <1>1, <2>1, <2>2, <2>3
  <1>3. Units' = Units \cup Added
    BY <1>2
  <1>4. IsFiniteSet(Added) /\ Cardinality(Added) = n
    <2> DEFINE order == {p}
               amount == 1..n
    <2>1. IsFiniteSet(amount) /\ Cardinality(amount) = n
      BY FS_Interval
    <2>2. IsFiniteSet(order) /\ Cardinality(order) = 1
      BY FS_Singleton
    <2>3. Added = order \X amount
      OBVIOUS
    <2> HIDE DEF Added, order, amount
    <2>4. /\ IsFiniteSet(order \X amount)
          /\ Cardinality(order \X amount) = 1 * n
      BY <2>1, <2>2, FS_Product
    <2> QED
      BY <2>3, <2>4
  <1>5. Units \cap Added = {}
    BY 1..0 = {} DEF Units
  <1> HIDE DEF Added
  <1>6. /\ IsFiniteSet(Units \cup Added)
        /\ Cardinality(Units \cup Added)
             = Cardinality(Units) + Cardinality(Added) - Cardinality(Units \cap Added)
    BY <1>4, FS_Union
  <1>7. Cardinality(Units) \in Nat /\ Cardinality(Units \cap Added) = 0
    BY <1>5, FS_CardinalityType, FS_EmptySet
  <1> QED
    BY <1>3, <1>4, <1>6, <1>7 DEF TakenByAll

\* An order is paid in full or not at all, and the budget lacks exactly what
\* the orders took from it.
MoneyAccounted ==
    /\ \A p \in POs : deducted[p] \in {0, committed[p]}
    /\ avail + TakenByAll = Funds

\* What the ledger and the path see of the orders besides OrderInv: the money
\* taken is finite, and an order with a history or about to be written has been
\* inserted, so no write brings a new one into being.
BooksKept ==
    /\ MoneyAccounted
    /\ IsFiniteSet(Units)
    /\ \A p \in POs : visited[p] # {} => status[p] # Absent
    /\ \A s \in Slots : pc[s] = "write" => status[target[s]] # Absent

\* The steps other than a deduction leave the money alone.
LEMMA MoneyFacts ==
    ASSUME NEW s \in Slots, Step(s) \/ \E j \in Jobs : Begin(s, j)
    PROVE  Deduct(s) \/ UNCHANGED money
  BY DEF Step, Begin, PreCheck, InsertPO, AddVendors, VerifyFunds, Deduct,
         InsertReceipt, Read, WriteDeletion, WriteApproval, WriteUpdate, Emit,
         money

\* What a deduction takes: the amount the order committed, for the first time.
LEMMA DeductFacts ==
    ASSUME OrderInv, NEW s \in Slots, Deduct(s)
    PROVE  /\ job[s] \in Jobs /\ job[s].amount \in Nat /\ target[s] \in POs
           /\ status[target[s]] # Absent
           /\ committed[target[s]] = job[s].amount /\ deducted[target[s]] = 0
           /\ avail' = avail - job[s].amount
           /\ deducted' = [deducted EXCEPT ![target[s]] = @ + job[s].amount]
           /\ UNCHANGED orders
  <1>1. job[s] \in Jobs /\ target[s] \in POs /\ job[s].kind = "create"
    BY DEF OrderInv, PointsMatchJobs, Deduct
  <1> QED
    BY <1>1, JobFacts DEF OrderInv, CreateProgress, Deduct

\* An order is written only after it was inserted, and along its path.
LEMMA WrittenExists ==
    ASSUME OrderInv, BooksKept, NEW s \in Slots, WriteApproval(s) \/ WriteUpdate(s)
    PROVE  \/ UNCHANGED <<status, visited>>
           \/ /\ target[s] \in POs /\ status[target[s]] # Absent
              /\ \E st \in Statuses :
                   /\ SetStatus(target[s], st)
                   /\ \E from \in visited[target[s]] : ValidTransition(from, st)
  <1>0. TypeOK /\ PointsMatchJobs /\ WritesJustified
    BY DEF OrderInv
  <1>1. /\ target[s] \in POs /\ job[s] \in Jobs /\ job[s].kind # "delete"
        /\ pc[s] = "write"
    BY <1>0, WriteFacts
  <1>2. Justified(s)
    BY <1>0, <1>1 DEF WritesJustified
  <1>3. s \in half => job[s].kind = "wfApprove"
    BY <1>0 DEF PointsMatchJobs
  <1>4. Wanted(s) \in Statuses \cup {Same}
    BY <1>1, <1>3, JobFacts DEF Wanted, Statuses
  <1>5. Wanted(s) # Same =>
          /\ status[target[s]] # Absent
          /\ \E from \in visited[target[s]] : ValidTransition(from, Wanted(s))
    BY <1>1, <1>2 DEF Justified, BooksKept
  <1>6. CASE WriteApproval(s)
    <2>1. Wanted(s) = job[s].to /\ Wanted(s) # Same
      <3>1. job[s].kind \in {"approve", "wfApprove"} /\ s \notin half
        BY <1>3, <1>6 DEF WriteApproval, Approving
      <3> QED
        BY <1>1, <3>1, JobFacts DEF Wanted, Same
    <2> QED
      BY <1>1, <1>4, <1>5, <1>6, <2>1 DEF WriteApproval
  <1>7. CASE WriteUpdate(s)
    <2>1. CASE Wanted(s) = Same
      BY <1>7, <2>1 DEF WriteUpdate
    <2>2. CASE Wanted(s) # Same
      BY <1>1, <1>4, <1>5, <1>7, <2>2 DEF WriteUpdate
    <2> QED
      BY <2>1, <2>2
  <1> QED
    BY <1>6, <1>7

\* What a step does to the rows the ledger is announced from.
LEMMA RowsFacts ==
    ASSUME OrderInv, BooksKept, NEW s \in Slots,
           Step(s) \/ \E j \in Jobs : Begin(s, j)
    PROVE  \/ InsertPO(s)
           \/ /\ UNCHANGED committed
              /\ \A p \in POs : /\ status'[p] = Absent <=> status[p] = Absent
                                /\ visited'[p] # {} => visited[p] # {} \/ status'[p] # Absent
  <1>0. TypeOK
    BY DEF OrderInv
  <1>1. CASE WriteApproval(s) \/ WriteUpdate(s)
    <2>1. UNCHANGED committed
      BY <1>1 DEF WriteApproval, WriteUpdate
    <2>2. CASE UNCHANGED <<status, visited>>
      BY <2>1, <2>2
    <2>3. ASSUME target[s] \in POs, status[target[s]] # Absent,
                 NEW st \in Statuses, SetStatus(target[s], st)
          PROVE  \A p \in POs : /\ status'[p] = Absent <=> status[p] = Absent
                                /\ visited'[p] # {} => visited[p] # {} \/ status'[p] # Absent
      BY <1>0, <2>3 DEF SetStatus, TypeOK, Statuses, Absent
    <2> QED
      BY <1>1, <2>1, <2>2, <2>3, WrittenExists
  <1>2. CASE WriteDeletion(s)
    BY <1>2 DEF WriteDeletion
  <1>3. CASE \/ PreCheck(s) \/ AddVendors(s) \/ VerifyFunds(s) \/ Deduct(s)
             \/ InsertReceipt(s) \/ Read(s) \/ Emit(s)
             \/ \E j \in Jobs : Begin(s, j)
    <2>1. UNCHANGED orders
      BY <1>3 DEF PreCheck, AddVendors, VerifyFunds, Deduct, InsertReceipt, Read,
                  Emit, Begin
    <2> QED
      BY <2>1 DEF orders
  <1> QED
    BY <1>1, <1>2, <1>3 DEF Step

\* A request comes to its write from the read that accepted it.
LEMMA WriteArrivals ==
    ASSUME TypeOK, NEW s \in Slots, Step(s) \/ \E j \in Jobs : Begin(s, j),
           NEW t \in Slots, pc'[t] = "write"
    PROVE  /\ target'[t] = target[t]
           /\ \/ pc[t] = "write"
              \/ pc[t] = "read" /\ Found(target[t])
  <1> USE DEF GoTo, Answer, request
  <1>0. pc \in [Slots -> Points] /\ target \in [Slots -> POs \cup {NoPO}]
    BY DEF TypeOK
  <1> DEFINE Local == /\ \/ UNCHANGED target
                         \/ \E p : target' = [target EXCEPT ![s] = p]
                      /\ \E point : pc' = [pc EXCEPT ![s] = point]
  <1>1. Local
    <2>1. ASSUME NEW j \in Jobs, Begin(s, j)
          PROVE  Local
      BY <2>1 DEF Begin
    <2>2. CASE InsertPO(s)
      BY <2>2 DEF InsertPO
    <2>3. CASE PreCheck(s) \/ AddVendors(s) \/ VerifyFunds(s) \/ Deduct(s)
      BY <2>3 DEF PreCheck, AddVendors, VerifyFunds, Deduct
    <2>4. CASE InsertReceipt(s) \/ Emit(s) \/ Read(s)
      BY <2>4 DEF InsertReceipt, Emit, Read
    <2>5. CASE WriteDeletion(s) \/ WriteApproval(s) \/ WriteUpdate(s)
      BY <2>5 DEF WriteDeletion, WriteApproval, WriteUpdate
    <2>6. \/ \E j \in Jobs : Begin(s, j)
          \/ InsertPO(s)
          \/ PreCheck(s) \/ AddVendors(s) \/ VerifyFunds(s) \/ Deduct(s)
          \/ InsertReceipt(s) \/ Emit(s) \/ Read(s)
          \/ WriteDeletion(s) \/ WriteApproval(s) \/ WriteUpdate(s)
      BY DEF Step
    <2> HIDE DEF Local
    <2> QED
      BY <2>1, <2>2, <2>3, <2>4, <2>5, <2>6
  <1>2. CASE t # s
    BY <1>0, <1>1, <1>2
  <1>3. CASE t = s /\ Read(s)
    BY <1>0, <1>3 DEF Read, Accepts
  <1>4. CASE ~Read(s)
    <2>1. \E point \in Points \ {"write"} : pc' = [pc EXCEPT ![s] = point]
      <3>1. ASSUME NEW j \in Jobs, Begin(s, j)
            PROVE  \E point \in Points \ {"write"} : pc' = [pc EXCEPT ![s] = point]
        BY <3>1 DEF Begin, Points
      <3>2. CASE InsertPO(s)
        BY <3>2 DEF InsertPO, AfterVendors, Points
      <3>3. CASE PreCheck(s) \/ AddVendors(s) \/ VerifyFunds(s) \/ Deduct(s)
        BY <3>3 DEF PreCheck, AddVendors, AfterVendors, VerifyFunds, Deduct, Points
      <3>4. CASE InsertReceipt(s) \/ Emit(s)
        BY <3>4 DEF InsertReceipt, Emit, Points
      <3>5. CASE WriteDeletion(s) \/ WriteApproval(s) \/ WriteUpdate(s)
        BY <3>5 DEF WriteDeletion, WriteApproval, WriteUpdate, Points
      <3> QED
        BY <1>4, <3>1, <3>2, <3>3, <3>4, <3>5 DEF Step
    <2> QED
      BY <1>0, <1>2, <2>1
  <1> QED
    BY <1>2, <1>3, <1>4

\* What an insert does to the rows: one order more, with the amount it commits.
LEMMA InsertFacts ==
    ASSUME OrderInv, NEW s \in Slots, InsertPO(s)
    PROVE  \/ UNCHANGED orders
           \/ \E p \in POs :
                /\ job[s] \in Jobs
                /\ status[p] = Absent
                /\ status' = [status EXCEPT ![p] = "DRAFT"]
                /\ visited' = [visited EXCEPT ![p] = @ \cup {"DRAFT"}]
                /\ committed' = [committed EXCEPT ![p] = job[s].amount]
                /\ UNCHANGED deleted
  <1>1. job[s] \in Jobs
    BY DEF OrderInv, PointsMatchJobs, InsertPO
  <1> QED
    BY <1>1 DEF InsertPO, SetStatus, orders

\* No order and no deduction at the start.
LEMMA BooksInit == Init => BooksKept
  <1> SUFFICES ASSUME Init
               PROVE  BooksKept
    OBVIOUS
  <1>1. Units = {}
    BY 1..0 = {} DEF Init, Units
  <1>2. MoneyAccounted
    BY <1>1, FS_EmptySet, JobsAssumption DEF MoneyAccounted, TakenByAll, Init
  <1> QED
    BY <1>1, <1>2, FS_EmptySet DEF BooksKept, Init

\* The units of the orders are counted anew only at a deduction.
LEMMA UnitsSame == UNCHANGED deducted => Units' = Units /\ TakenByAll' = TakenByAll
  BY DEF Units, TakenByAll

\* The money taken stays finite, and histories belong to inserted orders.
LEMMA BooksNext == OrderInv /\ BooksKept /\ [Next]_vars => BooksKept'
  <1> SUFFICES ASSUME OrderInv, BooksKept, [Next]_vars
               PROVE  BooksKept'
    OBVIOUS
  <1>0. TypeOK /\ TypeOK' /\ PointsMatchJobs /\ IsFiniteSet(Units)
    BY TypeNext DEF OrderInv, BooksKept
  <1>1. ASSUME NEW s \in Slots, Step(s) \/ \E j \in Jobs : Begin(s, j)
        PROVE  BooksKept'
    <2>1. IsFiniteSet(Units')
      <3>1. CASE Deduct(s)
        BY <1>0, <3>1, DeductFacts, UnitsOfDeduction
      <3>2. CASE UNCHANGED money
        BY <1>0, <3>2, UnitsSame DEF money
      <3> QED
        BY <1>1, <3>1, <3>2, MoneyFacts
    <2>2. \A p \in POs : visited'[p] # {} => status'[p] # Absent
      <3>1. CASE InsertPO(s)
        BY <1>0, <3>1, InsertFacts DEF BooksKept, orders, TypeOK, Absent
      <3>2. CASE ~InsertPO(s)
        <4>1. \A p \in POs :
                /\ status'[p] = Absent <=> status[p] = Absent
                /\ visited'[p] # {} => visited[p] # {} \/ status'[p] # Absent
          BY <1>1, <3>2, RowsFacts
        <4> QED
          BY <4>1 DEF BooksKept
      <3> QED
        BY <3>1, <3>2
    <2>3. MoneyAccounted'
      <3>1. CASE Deduct(s)
        <4>1. TakenByAll \in Nat /\ TakenByAll' = TakenByAll + job[s].amount
          BY <1>0, <3>1, DeductFacts, UnitsOfDeduction, FS_CardinalityType
             DEF TakenByAll
        <4>2. avail' + TakenByAll' = Funds
          BY <1>0, <3>1, <4>1, DeductFacts DEF BooksKept, MoneyAccounted, TypeOK
        <4>3. \A p \in POs : deducted'[p] \in {0, committed'[p]}
          BY <1>0, <3>1, DeductFacts
             DEF BooksKept, MoneyAccounted, TypeOK, orders
        <4> QED
          BY <4>2, <4>3 DEF MoneyAccounted
      <3>2. CASE UNCHANGED money
        <4>1. avail' + TakenByAll' = Funds
          BY <3>2, UnitsSame DEF BooksKept, MoneyAccounted, money
        <4>2. CASE InsertPO(s)
          <5>1. \A p \in POs : deducted'[p] \in {0, committed'[p]}
            BY <1>0, <3>2, <4>2, InsertFacts
               DEF BooksKept, MoneyAccounted, TypeOK, orders, money,
                   OrderInv, NothingBeforeInsert
          <5> QED
            BY <4>1, <5>1 DEF MoneyAccounted
        <4>3. CASE ~InsertPO(s)
          <5>1. UNCHANGED committed
            BY <1>1, <4>3, RowsFacts
          <5> QED
            BY <3>2, <4>1, <5>1 DEF BooksKept, MoneyAccounted, money
        <4> QED
          BY <4>2, <4>3
      <3> QED
        BY <1>1, <3>1, <3>2, MoneyFacts
    <2>4. \A t \in Slots : pc'[t] = "write" => status'[target'[t]] # Absent
      <3> SUFFICES ASSUME NEW t \in Slots, pc'[t] = "write"
                   PROVE  status'[target'[t]] # Absent
        OBVIOUS
      <3>1. /\ target'[t] = target[t] /\ target[t] \in POs
            /\ status[target[t]] # Absent
        <4>1. /\ target'[t] = target[t]
              /\ \/ pc[t] = "write"
                 \/ pc[t] = "read" /\ Found(target[t])
          BY <1>0, <1>1, WriteArrivals
        <4> QED
          BY <1>0, <4>1 DEF BooksKept, Found, PointsMatchJobs
      <3>2. CASE InsertPO(s)
        BY <1>0, <3>1, <3>2, InsertFacts DEF orders, TypeOK, Absent
      <3>3. CASE ~InsertPO(s)
        <4>1. \A p \in POs : status'[p] = Absent <=> status[p] = Absent
          BY <1>1, <3>3, RowsFacts
        <4> QED
          BY <3>1, <4>1
      <3> QED
        BY <3>2, <3>3
    <2> QED
      BY <2>1, <2>2, <2>3, <2>4 DEF BooksKept
  <1>2. CASE UNCHANGED vars
    BY <1>0, <1>2, UnitsSame DEF vars, BooksKept, MoneyAccounted
  <1> QED
    BY <1>1, <1>2 DEF Next

\* The strengthened invariant holds in every behaviour.
THEOREM BooksKeptHolds == Spec => [](OrderInv /\ BooksKept)
  <1>1. Init => OrderInv /\ BooksKept
    BY InvInit, BooksInit
  <1>2. OrderInv /\ BooksKept /\ [Next]_vars => (OrderInv /\ BooksKept)'
    BY BooksNext, TypeNext, PointsNext, HistoryNext, WritesNext, ApartNext,
       ProgressNext, NothingNext, WrittenNext, PathNext, DoneNext DEF OrderInv
  <1> QED
    BY <1>1, <1>2, PTL DEF Spec

\* Whatever creates race for the budget or fail on the way, an order took from
\* it all that it commits or nothing, and nothing else left the budget.
THEOREM MoneyAccountedHolds == Spec => []MoneyAccounted
  <1>1. BooksKept => MoneyAccounted
    BY DEF BooksKept
  <1> QED
    BY BooksKeptHolds, <1>1, PTL

-----------------------------------------------------------------------------
\* Every step is an announcement, a posting or nothing at all to the ledger.

\* A ledger call of an order has one amount.
LEMMA LedgerTotal ==
    ASSUME NEW p \in POs
    PROVE  /\ Ledger!Total(DeductionOf(p)) = committed[p]
           /\ DeductionOf(p).kind = "deduct"
           /\ DeductionOf(p).src = "budget"
  BY DEF Ledger!Total, Ledger!Running, DeductionOf

\* Steps that leave the money alone leave the book alone.
LEMMA LedgerSame ==
    ASSUME UNCHANGED money,
           \A p \in POs : /\ status'[p] = Absent <=> status[p] = Absent
                          /\ committed'[p] = committed[p]
    PROVE  UNCHANGED Ledger!vars
  BY UnitsSame DEF money, Ledger!vars, DeductionOf

\* Each step is a posting in the budget book or leaves it alone.
LEMMA LedgerNext ==
    OrderInv /\ BooksKept /\ [Next]_vars => [Ledger!Next]_(Ledger!vars)
  <1> SUFFICES ASSUME OrderInv, BooksKept, [Next]_vars
               PROVE  Ledger!Next \/ UNCHANGED Ledger!vars
    OBVIOUS
  <1>0. TypeOK /\ TypeOK' /\ NothingBeforeInsert
    BY TypeNext DEF OrderInv
  <1>1. ASSUME NEW s \in Slots, InsertPO(s)
        PROVE  Ledger!Next \/ UNCHANGED Ledger!vars
    <2>1. UNCHANGED money
      BY <1>1 DEF InsertPO
    <2>2. CASE UNCHANGED orders
      BY <2>1, <2>2, LedgerSame DEF orders
    <2>3. ASSUME NEW p \in POs, job[s] \in Jobs, status[p] = Absent,
                 status' = [status EXCEPT ![p] = "DRAFT"],
                 committed' = [committed EXCEPT ![p] = job[s].amount]
          PROVE  Ledger!Next
      <3>1. PICK o \in {[kind |-> "deduct", src |-> "budget", dst |-> "budget",
                         run |-> <<j.amount>>] : j \in Jobs} :
                 o = [kind |-> "deduct", src |-> "budget", dst |-> "budget",
                      run |-> <<job[s].amount>>]
        BY <2>3
      <3>2. /\ status'[p] # Absent /\ DeductionOf(p)' = o
            /\ \A q \in POs \ {p} : /\ status'[q] = status[q]
                                    /\ DeductionOf(q)' = DeductionOf(q)
        BY <1>0, <2>3, <3>1 DEF TypeOK, Absent, DeductionOf
      <3>3. [q \in POs |-> IF status'[q] = Absent THEN NoJob ELSE DeductionOf(q)']
              = [[q \in POs |-> IF status[q] = Absent THEN NoJob ELSE DeductionOf(q)]
                   EXCEPT ![p] = o]
        BY <2>3, <3>2
      <3>4. Ledger!Announce(p, o)
        BY <2>1, <2>3, <3>3, UnitsSame DEF Ledger!Announce, Ledger!records, money
      <3> QED
        BY <3>4 DEF Ledger!Next
    <2> QED
      BY <1>1, <2>2, <2>3, InsertFacts
  <1>2. ASSUME NEW s \in Slots, Deduct(s)
        PROVE  Ledger!Next \/ UNCHANGED Ledger!vars
    <2>0. PICK p \in POs : p = target[s]
      BY <1>2, DeductFacts
    <2>1. /\ job[s] \in Jobs /\ job[s].amount \in Nat
          /\ status[p] # Absent
          /\ committed[p] = job[s].amount /\ deducted[p] = 0
          /\ avail' = avail - job[s].amount
          /\ deducted' = [deducted EXCEPT ![p] = @ + job[s].amount]
          /\ UNCHANGED orders
      BY <1>2, <2>0, DeductFacts
    <2>2. TakenByAll' = TakenByAll + job[s].amount
      BY <1>0, <2>1, UnitsOfDeduction DEF BooksKept
    <2>3. CASE job[s].amount = 0
      <3>1. UNCHANGED money
        BY <1>0, <2>1, <2>3 DEF money, TypeOK
      <3> QED
        BY <2>1, <3>1, LedgerSame DEF orders
    <2>4. CASE job[s].amount > 0
      <3> DEFINE o == DeductionOf(p)
      <3>1. o \in {[kind |-> "deduct", src |-> "budget", dst |-> "budget",
                    run |-> <<j.amount>>] : j \in Jobs}
        BY <2>1 DEF DeductionOf
      <3>2. /\ o.kind = "deduct" /\ o.src = "budget"
            /\ Ledger!Total(o) = job[s].amount
        BY <2>1, LedgerTotal
      <3>3. [q \in POs |-> IF status[q] = Absent THEN NoJob ELSE DeductionOf(q)][p] = o
        BY <2>1
      <3>4. {q \in POs : deducted'[q] > 0} = {q \in POs : deducted[q] > 0} \cup {p}
        BY <1>0, <2>1, <2>4 DEF TypeOK
      <3>5. p \notin {q \in POs : deducted[q] > 0}
        BY <2>1
      <3>6. [b \in {"budget"} |-> avail']
              = [[b \in {"budget"} |-> avail]
                   EXCEPT !["budget"] = @ - job[s].amount]
        BY <2>1
      <3>7. [b \in {"budget"} |-> TakenByAll']
              = [[b \in {"budget"} |-> TakenByAll]
                   EXCEPT !["budget"] = @ + job[s].amount]
        BY <2>2
      <3>8. [q \in POs |-> IF status'[q] = Absent THEN NoJob ELSE DeductionOf(q)']
              = [q \in POs |-> IF status[q] = Absent THEN NoJob ELSE DeductionOf(q)]
        BY <2>1 DEF orders, DeductionOf
      <3> HIDE DEF o
      <3>9. Ledger!Post(p)
        BY <3>1, <3>2, <3>3, <3>4, <3>5, <3>6, <3>7, <3>8 DEF Ledger!Post
      <3>10. Ledger!Next
        BY <3>9 DEF Ledger!Next
      <3> QED
        BY <3>10
    <2> QED
      BY <2>1, <2>3, <2>4
  <1>3. ASSUME NEW s \in Slots, Step(s) \/ \E j \in Jobs : Begin(s, j),
               ~InsertPO(s), ~Deduct(s)
        PROVE  UNCHANGED Ledger!vars
    <2>1. UNCHANGED money
      BY <1>3, MoneyFacts
    <2>2. /\ UNCHANGED committed
          /\ \A p \in POs : status'[p] = Absent <=> status[p] = Absent
      BY <1>3, RowsFacts
    <2> QED
      BY <2>1, <2>2, LedgerSame
  <1>4. CASE UNCHANGED vars
    BY <1>4, LedgerSame DEF vars, money
  <1> QED
    BY <1>1, <1>2, <1>3, <1>4 DEF Next

\* The deductions of the orders implement the budget ledger: each order is
\* announced with the amount it commits when it is inserted, and
\* PurchaseOrderService.create takes that amount at most once and no other.
THEOREM DeductsByTheBookHolds == Spec => DeductsByTheBook
  <1>1. Init => Ledger!Init
    <2> SUFFICES ASSUME Init
                 PROVE  Ledger!Init
      OBVIOUS
    <2>1. Units = {}
      BY 1..0 = {} DEF Init, Units
    <2>2. TakenByAll = 0
      BY <2>1, FS_EmptySet DEF TakenByAll
    <2>3. {p \in POs : deducted[p] > 0} = {}
      BY DEF Init
    <2>4. [p \in POs |-> IF status[p] = Absent THEN NoJob ELSE DeductionOf(p)]
            = [p \in POs |-> NoJob]
      BY DEF Init
    <2> QED
      BY <2>2, <2>3, <2>4 DEF Init, Ledger!Init
  <1> QED
    BY <1>1, LedgerNext, BooksKeptHolds, PTL DEF Spec, DeductsByTheBook, Ledger!Spec

-----------------------------------------------------------------------------
\* The orders keep their path.

\* The path's transitions are those that isValidStatusTransition allows.
LEMMA PathTransitions ==
    ASSUME NEW from, NEW to, ValidTransition(from, to)
    PROVE  to \in Path!Successors(from) /\ to \in Path!Stages
  BY DEF ValidTransition, Path!Successors, Path!Stages

\* Each step is a step of the path of orders or leaves it alone.
LEMMA PathStep ==
    OrderInv /\ BooksKept /\ [Next]_vars => [Path!Next]_(Path!vars)
  <1> SUFFICES ASSUME OrderInv, BooksKept, [Next]_vars
               PROVE  Path!Next \/ UNCHANGED <<status, visited, deleted>>
    BY DEF Path!vars
  <1>0. TypeOK /\ PointsMatchJobs
    BY DEF OrderInv
  <1>1. ASSUME NEW s \in Slots, InsertPO(s)
        PROVE  Path!Next \/ UNCHANGED <<status, visited, deleted>>
    <2>1. CASE UNCHANGED orders
      BY <2>1 DEF orders
    <2>2. ASSUME NEW p \in POs, status[p] = Absent,
                 status' = [status EXCEPT ![p] = "DRAFT"],
                 visited' = [visited EXCEPT ![p] = @ \cup {"DRAFT"}],
                 UNCHANGED deleted
          PROVE  Path!Next
      <3>1. Path!Insert(p)
        BY <2>2 DEF Path!Insert, Path!Become, Path!Absent, Absent
      <3> QED
        BY <3>1 DEF Path!Next
    <2> QED
      BY <1>1, <2>1, <2>2, InsertFacts
  <1>2. ASSUME NEW s \in Slots, WriteApproval(s) \/ WriteUpdate(s)
        PROVE  Path!Next \/ UNCHANGED <<status, visited, deleted>>
    <2>1. UNCHANGED deleted
      BY <1>2 DEF WriteApproval, WriteUpdate
    <2>2. ASSUME NEW p \in POs, status[p] # Absent, NEW st \in Statuses,
                 SetStatus(p, st), NEW from \in visited[p], ValidTransition(from, st)
          PROVE  Path!Next
      <3>1. st \in Path!Stages /\ st \in Path!Successors(from)
        BY <2>2, PathTransitions
      <3>2. Path!Move(p, st)
        BY <2>1, <2>2, <3>1 DEF Path!Move, Path!Become, Path!Absent, Absent, SetStatus
      <3> QED
        BY <3>1, <3>2 DEF Path!Next
    <2>3. \/ UNCHANGED <<status, visited>>
          \/ \E p \in POs :
               /\ status[p] # Absent
               /\ \E st \in Statuses :
                    SetStatus(p, st) /\ \E from \in visited[p] : ValidTransition(from, st)
      BY <1>2, WrittenExists DEF SetStatus
    <2> QED
      BY <2>1, <2>2, <2>3
  <1>3. ASSUME NEW s \in Slots, WriteDeletion(s)
        PROVE  Path!Next
    <2>1. PICK p \in POs : p = target[s]
      BY <1>0, <1>3 DEF WriteDeletion, PointsMatchJobs
    <2>2. status[p] # Absent
      BY <1>3, <2>1 DEF WriteDeletion, BooksKept
    <2>3. Path!Delete(p)
      BY <1>3, <2>1, <2>2 DEF WriteDeletion, Path!Delete, Path!Absent, Absent
    <2> QED
      BY <2>3 DEF Path!Next
  <1>4. ASSUME NEW s \in Slots,
               \/ PreCheck(s) \/ AddVendors(s) \/ VerifyFunds(s) \/ Deduct(s)
               \/ InsertReceipt(s) \/ Read(s) \/ Emit(s)
               \/ \E j \in Jobs : Begin(s, j)
        PROVE  UNCHANGED <<status, visited, deleted>>
    BY <1>4 DEF PreCheck, AddVendors, VerifyFunds, Deduct, InsertReceipt, Read,
                Emit, Begin, orders
  <1>5. CASE UNCHANGED vars
    BY <1>5 DEF vars
  <1> QED
    BY <1>1, <1>2, <1>3, <1>4, <1>5 DEF Next, Step

\* The purchase orders implement the order path: whatever creates, updates,
\* approvals, deletions and goods receipts race, an order is inserted once,
\* takes only statuses that follow one it had, and is not deleted before it
\* was inserted.
THEOREM KeepsPathHolds == Spec => KeepsPath
  <1>1. Init => Path!Init
    BY DEF Init, Path!Init, Path!Absent, Absent
  <1> QED
    BY <1>1, PathStep, BooksKeptHolds, PTL DEF Spec, KeepsPath, Path!Spec

\* What follows for the orders from keeping their path.
PathFacts == INSTANCE OrderPathProofs WITH Orders <- POs

\* No stage is missing from what an order went through, whatever requests race:
\* a completed order was delivered, in progress and approved.
THEOREM NoStageMissingInOrders == Spec => []Path!NoStageMissing
  <1>1. Path!Init => PathFacts!Init
    BY DEF Path!Init, PathFacts!Init, Path!Absent, PathFacts!Absent
  <1>2. [Path!Next]_(Path!vars) => [PathFacts!Next]_(PathFacts!vars)
    BY DEF Path!Next, PathFacts!Next, Path!vars, PathFacts!vars, Path!Insert,
           PathFacts!Insert, Path!Move, PathFacts!Move, Path!Delete,
           PathFacts!Delete, Path!Become, PathFacts!Become, Path!Absent,
           PathFacts!Absent, Path!Stages, PathFacts!Stages, Path!Successors,
           PathFacts!Successors
  <1>3. PathFacts!NoStageMissing => Path!NoStageMissing
    BY DEF Path!NoStageMissing, PathFacts!NoStageMissing, Path!StagesBefore,
           PathFacts!StagesBefore
  <1>4. Path!Spec => PathFacts!Spec
    BY <1>1, <1>2, PTL DEF Path!Spec, PathFacts!Spec
  <1> QED
    BY <1>3, <1>4, KeepsPathHolds, PathFacts!NoStageMissingHolds, PTL DEF KeepsPath
=============================================================================
