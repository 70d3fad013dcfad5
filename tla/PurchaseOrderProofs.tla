------------------------- MODULE PurchaseOrderProofs -------------------------
(***************************************************************************)
(* Theorems about PurchaseOrder for every set of slots, orders, users and  *)
(* requests, and every opening balance of the budget.                      *)
(***************************************************************************)
EXTENDS PurchaseOrderInvariant, TLAPS

-----------------------------------------------------------------------------
\* What a request names.
LEMMA JobFacts ==
    ASSUME NEW j \in Jobs
    PROVE  /\ j.kind \in {"create", "update", "approve", "delete", "wfApprove",
                          "receipt"}
           /\ j.user \in Users /\ j.to \in Statuses \cup {Same}
           /\ j.amount \in Nat /\ j.vendors \in BOOLEAN
           /\ IF j.kind = "create" THEN j.po = NoPO ELSE j.po \in POs
           /\ j.kind \in {"approve", "wfApprove"} =>
                  j.to \in {"APPROVED", "CANCELLED"}
           /\ j # NoJob
  <1>1. j \in JobType
    BY JobsAssumption
  <1> QED
    BY <1>1, JobsAssumption DEF JobType

\* The types hold at the start.
LEMMA TypeInit == Init => TypeOK
  BY JobsAssumption DEF Init, TypeOK, Points


\* Type correctness: every step writes values of the variables' types.
LEMMA TypeNext == OrderInv /\ [Next]_vars => TypeOK'
  <1> SUFFICES ASSUME OrderInv, [Next]_vars
               PROVE  TypeOK'
    OBVIOUS
  <1> USE DEF orders, money, request
  <1>0. TypeOK /\ PointsMatchJobs
    BY DEF OrderInv
  <1>1. ASSUME NEW s \in Slots, NEW j \in Jobs, Begin(s, j)
        PROVE  TypeOK'
    BY <1>0, <1>1, JobFacts
       DEF Begin, TypeOK, PointsMatchJobs, Points, Statuses, Absent
  <1>2. ASSUME NEW s \in Slots, PreCheck(s)
        PROVE  TypeOK'
    BY <1>0, <1>2, JobFacts
       DEF PreCheck, TypeOK, PointsMatchJobs, Points, Statuses, Answer, GoTo,
           Absent
  <1>3. ASSUME NEW s \in Slots, InsertPO(s)
        PROVE  TypeOK'
    BY <1>0, <1>3, JobFacts
       DEF InsertPO, TypeOK, PointsMatchJobs, Points, Statuses, Answer, GoTo,
           SetStatus, AfterVendors, Absent
  <1>4. ASSUME NEW s \in Slots, AddVendors(s)
        PROVE  TypeOK'
    BY <1>0, <1>4, JobFacts
       DEF AddVendors, TypeOK, PointsMatchJobs, Points, Statuses, Answer, GoTo,
           AfterVendors, Absent
  <1>5. ASSUME NEW s \in Slots, VerifyFunds(s)
        PROVE  TypeOK'
    BY <1>0, <1>5, JobFacts
       DEF VerifyFunds, TypeOK, PointsMatchJobs, Points, Statuses, Answer,
           GoTo, Absent
  <1>6. ASSUME NEW s \in Slots, Deduct(s)
        PROVE  TypeOK'
    BY <1>0, <1>6, JobFacts
       DEF Deduct, TypeOK, PointsMatchJobs, Points, Statuses, GoTo, Absent
  <1>7. ASSUME NEW s \in Slots, InsertReceipt(s)
        PROVE  TypeOK'
    BY <1>0, <1>7, JobFacts
       DEF InsertReceipt, TypeOK, PointsMatchJobs, Points, Statuses, Answer,
           GoTo, Absent
  <1>8. ASSUME NEW s \in Slots, Read(s)
        PROVE  TypeOK'
    BY <1>0, <1>8, JobFacts
       DEF Read, TypeOK, PointsMatchJobs, Points, Statuses, Answer, GoTo,
           Approving, Wanted, Absent, Same
  <1>9. ASSUME NEW s \in Slots, WriteDeletion(s)
        PROVE  TypeOK'
    BY <1>0, <1>9, JobFacts
       DEF WriteDeletion, TypeOK, PointsMatchJobs, Points, Statuses, GoTo,
           Absent
  <1>10. ASSUME NEW s \in Slots, WriteApproval(s)
        PROVE  TypeOK'
    BY <1>0, <1>10, JobFacts
       DEF WriteApproval, TypeOK, PointsMatchJobs, Points, Statuses, GoTo,
           SetStatus, Approving, Absent
  <1>11. ASSUME NEW s \in Slots, WriteUpdate(s)
        PROVE  TypeOK'
    BY <1>0, <1>11, JobFacts
       DEF WriteUpdate, TypeOK, PointsMatchJobs, Points, Statuses, Answer,
           GoTo, SetStatus, Approving, Wanted, Absent, Same
  <1>12. ASSUME NEW s \in Slots, Emit(s)
        PROVE  TypeOK'
    BY <1>0, <1>12, JobFacts
       DEF Emit, TypeOK, PointsMatchJobs, Points, Statuses, Answer, GoTo,
           Absent
  <1>13. CASE UNCHANGED vars
    BY <1>0, <1>13 DEF vars, TypeOK, Points, Statuses, Absent
  <1> QED
    BY <1>1, <1>2, <1>3, <1>4, <1>5, <1>6, <1>7, <1>8, <1>9, <1>10,
       <1>11, <1>12, <1>13 DEF Next, Step

\* The two writes of a status: whose order, and what they leave alone.
LEMMA WriteFacts ==
    ASSUME TypeOK, PointsMatchJobs, NEW s \in Slots,
           WriteApproval(s) \/ WriteUpdate(s)
    PROVE  /\ target[s] \in POs /\ job[s] \in Jobs /\ job[s].kind # "create"
           /\ job[s].kind # "delete"
           /\ \A p \in POs : status'[p] = Absent => status[p] = Absent
           /\ \A p \in POs : status'[p] = status[p] \/ p = target[s]
           /\ \A p \in POs : visited[p] \subseteq visited'[p]
           /\ UNCHANGED <<deleted, committed, received, money, request>>
           /\ \A t \in Slots \ {s} : pc'[t] = pc[t] /\ answer'[t] = answer[t]
           /\ pc[s] = "write" /\ pc'[s] \in {"idle", "emit"}
           /\ job[s].kind # "update" => pc'[s] = "emit" /\ answer' = answer
  <1> USE DEF money, request
  <1>1. target[s] \in POs /\ job[s] \in Jobs /\ job[s].kind # "create"
    BY DEF PointsMatchJobs, WriteApproval, WriteUpdate
  <1>2. s \in half => job[s].kind = "wfApprove" /\ job[s].to = "APPROVED"
    BY DEF PointsMatchJobs
  <1>3. Wanted(s) \in Statuses \cup {Same}
    BY <1>1, <1>2, JobFacts DEF Wanted, Statuses
  <1>4. Absent \notin Statuses /\ Same \notin Statuses
    BY DEF Absent, Same, Statuses
  <1>5. CASE WriteApproval(s)
    <2>1. job[s].to \in Statuses /\ job[s].kind \in {"approve", "wfApprove"}
      BY <1>1, <1>5, JobFacts DEF WriteApproval, Approving, Statuses
    <2> QED
      BY <1>1, <1>4, <1>5, <2>1 DEF TypeOK, WriteApproval, SetStatus, GoTo
  <1>6. CASE WriteUpdate(s)
    <2>1. CASE Wanted(s) # Same
      BY <1>1, <1>3, <1>4, <1>6, <2>1 DEF TypeOK, WriteUpdate, SetStatus, GoTo
    <2>2. CASE Wanted(s) = Same
      <3>1. job[s].kind = "update"
        BY <1>1, <1>6, <2>2, <1>2, JobFacts
           DEF WriteUpdate, Wanted, Approving, Same, Statuses
      <3> QED
        BY <1>1, <1>6, <2>2, <3>1 DEF TypeOK, WriteUpdate, Answer
    <2> QED
      BY <2>1, <2>2
  <1> QED
    BY <1>5, <1>6

\* What justifies a write stays while its request stands and histories grow.
LEMMA JustifiedStays ==
    ASSUME NEW t \in Slots, Justified(t), target[t] \in POs,
           job'[t] = job[t], target'[t] = target[t], t \in half' <=> t \in half,
           \A p \in POs : visited[p] \subseteq visited'[p]
    PROVE  Justified(t)'
  <1>1. Wanted(t)' = Wanted(t)
    BY DEF Wanted
  <1>2. CASE Wanted(t) = Same
    BY <1>1, <1>2 DEF Justified
  <1>3. CASE \E before \in visited[target[t]] : ValidTransition(before, Wanted(t))
    BY <1>1, <1>3 DEF Justified, ValidTransition
  <1> QED
    BY <1>2, <1>3 DEF Justified

\* Each request is at a point of its endpoint.
LEMMA PointsNext == OrderInv /\ [Next]_vars => PointsMatchJobs'
  <1> SUFFICES ASSUME OrderInv, [Next]_vars
               PROVE  PointsMatchJobs'
    OBVIOUS
  <1> USE DEF orders, money, request
  <1>0. TypeOK /\ PointsMatchJobs
    BY DEF OrderInv
  <1>a. TypeOK'
    BY TypeNext
  <1>1. ASSUME NEW s \in Slots, NEW j \in Jobs, Begin(s, j)
        PROVE  PointsMatchJobs'
    BY <1>0, <1>1, JobFacts, <1>a DEF Begin, TypeOK, PointsMatchJobs
  <1>2. ASSUME NEW s \in Slots, PreCheck(s)
        PROVE  PointsMatchJobs'
    BY <1>0, <1>2, JobFacts, <1>a
       DEF PreCheck, TypeOK, PointsMatchJobs, Answer, GoTo
  <1>3. ASSUME NEW s \in Slots, InsertPO(s)
        PROVE  PointsMatchJobs'
    BY <1>0, <1>3, JobFacts, <1>a
       DEF InsertPO, TypeOK, PointsMatchJobs, Answer, GoTo, SetStatus,
           AfterVendors, Absent
  <1>4. ASSUME NEW s \in Slots, AddVendors(s)
        PROVE  PointsMatchJobs'
    BY <1>0, <1>4, JobFacts, <1>a
       DEF AddVendors, TypeOK, PointsMatchJobs, Answer, GoTo, AfterVendors,
           Absent
  <1>5. ASSUME NEW s \in Slots, VerifyFunds(s)
        PROVE  PointsMatchJobs'
    BY <1>0, <1>5, JobFacts, <1>a
       DEF VerifyFunds, TypeOK, PointsMatchJobs, Answer, GoTo
  <1>6. ASSUME NEW s \in Slots, Deduct(s)
        PROVE  PointsMatchJobs'
    BY <1>0, <1>6, JobFacts, <1>a DEF Deduct, TypeOK, PointsMatchJobs, GoTo
  <1>7. ASSUME NEW s \in Slots, InsertReceipt(s)
        PROVE  PointsMatchJobs'
    BY <1>0, <1>7, JobFacts, <1>a
       DEF InsertReceipt, TypeOK, PointsMatchJobs, Answer, GoTo, Absent
  <1>8. ASSUME NEW s \in Slots, Read(s)
        PROVE  PointsMatchJobs'
    BY <1>0, <1>8, JobFacts, <1>a
       DEF Read, TypeOK, PointsMatchJobs, Answer, GoTo, Approving, Wanted,
           Absent, Same
  <1>9. ASSUME NEW s \in Slots, WriteDeletion(s)
        PROVE  PointsMatchJobs'
    BY <1>0, <1>9, JobFacts, <1>a
       DEF WriteDeletion, TypeOK, PointsMatchJobs, GoTo
  <1>10. ASSUME NEW s \in Slots, WriteApproval(s)
        PROVE  PointsMatchJobs'
    BY <1>0, <1>10, JobFacts, <1>a
       DEF WriteApproval, TypeOK, PointsMatchJobs, GoTo, SetStatus, Approving
  <1>11. ASSUME NEW s \in Slots, WriteUpdate(s)
        PROVE  PointsMatchJobs'
    BY <1>0, <1>11, JobFacts, <1>a
       DEF WriteUpdate, TypeOK, PointsMatchJobs, Answer, GoTo, SetStatus,
           Approving, Wanted, Same
  <1>12. ASSUME NEW s \in Slots, Emit(s)
        PROVE  PointsMatchJobs'
    BY <1>0, <1>12, JobFacts, <1>a
       DEF Emit, TypeOK, PointsMatchJobs, Answer, GoTo
  <1>13. CASE UNCHANGED vars
    BY <1>0, <1>13 DEF vars, PointsMatchJobs
  <1> QED
    BY <1>1, <1>2, <1>3, <1>4, <1>5, <1>6, <1>7, <1>8, <1>9, <1>10,
       <1>11, <1>12, <1>13 DEF Next, Step

\* Each write of a status is kept in the history.
LEMMA HistoryNext == OrderInv /\ [Next]_vars => HistoryKept'
  <1> SUFFICES ASSUME OrderInv, [Next]_vars
               PROVE  HistoryKept'
    OBVIOUS
  <1> USE DEF orders, money, request
  <1>0. TypeOK /\ PointsMatchJobs /\ HistoryKept
    BY DEF OrderInv
  <1>a. TypeOK'
    BY TypeNext
  <1>1. ASSUME NEW s \in Slots, NEW j \in Jobs, Begin(s, j)
        PROVE  HistoryKept'
    BY <1>0, <1>1, JobFacts, <1>a
       DEF Begin, TypeOK, HistoryKept, PointsMatchJobs
  <1>2. ASSUME NEW s \in Slots, PreCheck(s)
        PROVE  HistoryKept'
    BY <1>0, <1>2, JobFacts, <1>a
       DEF PreCheck, TypeOK, HistoryKept, PointsMatchJobs, Answer, GoTo
  <1>3. ASSUME NEW s \in Slots, InsertPO(s)
        PROVE  HistoryKept'
    BY <1>0, <1>3, JobFacts, <1>a
       DEF InsertPO, TypeOK, HistoryKept, PointsMatchJobs, Answer, GoTo,
           SetStatus
  <1>4. ASSUME NEW s \in Slots, AddVendors(s)
        PROVE  HistoryKept'
    BY <1>0, <1>4, JobFacts, <1>a
       DEF AddVendors, TypeOK, HistoryKept, PointsMatchJobs, Answer, GoTo
  <1>5. ASSUME NEW s \in Slots, VerifyFunds(s)
        PROVE  HistoryKept'
    BY <1>0, <1>5, JobFacts, <1>a
       DEF VerifyFunds, TypeOK, HistoryKept, PointsMatchJobs, Answer, GoTo
  <1>6. ASSUME NEW s \in Slots, Deduct(s)
        PROVE  HistoryKept'
    BY <1>0, <1>6, JobFacts, <1>a
       DEF Deduct, TypeOK, HistoryKept, PointsMatchJobs, GoTo
  <1>7. ASSUME NEW s \in Slots, InsertReceipt(s)
        PROVE  HistoryKept'
    BY <1>0, <1>7, JobFacts, <1>a
       DEF InsertReceipt, TypeOK, HistoryKept, PointsMatchJobs, Answer, GoTo
  <1>8. ASSUME NEW s \in Slots, Read(s)
        PROVE  HistoryKept'
    BY <1>0, <1>8, JobFacts, <1>a
       DEF Read, TypeOK, HistoryKept, PointsMatchJobs, Answer, GoTo
  <1>9. ASSUME NEW s \in Slots, WriteDeletion(s)
        PROVE  HistoryKept'
    BY <1>0, <1>9, JobFacts, <1>a
       DEF WriteDeletion, TypeOK, HistoryKept, PointsMatchJobs, GoTo
  <1>10. ASSUME NEW s \in Slots, WriteApproval(s)
        PROVE  HistoryKept'
    BY <1>0, <1>10, JobFacts, <1>a
       DEF WriteApproval, TypeOK, HistoryKept, PointsMatchJobs, GoTo, SetStatus
  <1>11. ASSUME NEW s \in Slots, WriteUpdate(s)
        PROVE  HistoryKept'
    BY <1>0, <1>11, JobFacts, <1>a
       DEF WriteUpdate, TypeOK, HistoryKept, PointsMatchJobs, Answer, GoTo,
           SetStatus
  <1>12. ASSUME NEW s \in Slots, Emit(s)
        PROVE  HistoryKept'
    BY <1>0, <1>12, JobFacts, <1>a
       DEF Emit, TypeOK, HistoryKept, PointsMatchJobs, Answer, GoTo
  <1>13. CASE UNCHANGED vars
    BY <1>0, <1>13 DEF vars, HistoryKept
  <1> QED
    BY <1>1, <1>2, <1>3, <1>4, <1>5, <1>6, <1>7, <1>8, <1>9, <1>10,
       <1>11, <1>12, <1>13 DEF Next, Step

\* A writer's reason outlives the state it was read in.
LEMMA WritesNext == OrderInv /\ [Next]_vars => WritesJustified'
  <1> SUFFICES ASSUME OrderInv, [Next]_vars
               PROVE  WritesJustified'
    OBVIOUS
  <1> USE DEF orders, money, request
  <1>0. TypeOK /\ PointsMatchJobs /\ WritesJustified /\ HistoryKept
    BY DEF OrderInv
  <1>a. TypeOK'
    BY TypeNext
  <1>1. ASSUME NEW s \in Slots, NEW j \in Jobs, Begin(s, j)
        PROVE  WritesJustified'
    BY <1>0, <1>1, JobFacts, <1>a
       DEF Begin, TypeOK, WritesJustified, HistoryKept, PointsMatchJobs,
           Justified, Wanted, ValidTransition
  <1>2. ASSUME NEW s \in Slots, PreCheck(s)
        PROVE  WritesJustified'
    BY <1>0, <1>2, JobFacts, <1>a
       DEF PreCheck, TypeOK, WritesJustified, HistoryKept, PointsMatchJobs,
           Justified, Wanted, ValidTransition, Answer, GoTo
  <1>3. ASSUME NEW s \in Slots, InsertPO(s)
        PROVE  WritesJustified'
    <2> SUFFICES ASSUME NEW t \in Slots, pc'[t] = "write",
                        job'[t].kind # "delete"
                 PROVE  Justified(t)'
      BY DEF WritesJustified
    <2>1. /\ pc[t] = "write" /\ target[t] \in POs
          /\ job'[t] = job[t] /\ target'[t] = target[t] /\ half' = half
          /\ \A p \in POs : visited[p] \subseteq visited'[p]
      BY <1>0, <1>3
         DEF InsertPO, TypeOK, PointsMatchJobs, AfterVendors, Answer, GoTo,
             SetStatus
    <2> QED
      BY <1>0, <2>1, JustifiedStays DEF WritesJustified
  <1>4. ASSUME NEW s \in Slots, AddVendors(s)
        PROVE  WritesJustified'
    <2> SUFFICES ASSUME NEW t \in Slots, pc'[t] = "write",
                        job'[t].kind # "delete"
                 PROVE  Justified(t)'
      BY DEF WritesJustified
    <2>1. /\ pc[t] = "write" /\ target[t] \in POs
          /\ job'[t] = job[t] /\ target'[t] = target[t] /\ half' = half
          /\ \A p \in POs : visited[p] \subseteq visited'[p]
      BY <1>0, <1>4
         DEF AddVendors, TypeOK, PointsMatchJobs, AfterVendors, Answer, GoTo,
             SetStatus
    <2> QED
      BY <1>0, <2>1, JustifiedStays DEF WritesJustified
  <1>5. ASSUME NEW s \in Slots, VerifyFunds(s)
        PROVE  WritesJustified'
    BY <1>0, <1>5, JobFacts, <1>a
       DEF VerifyFunds, TypeOK, WritesJustified, HistoryKept, PointsMatchJobs,
           Justified, Wanted, ValidTransition, Answer, GoTo
  <1>6. ASSUME NEW s \in Slots, Deduct(s)
        PROVE  WritesJustified'
    BY <1>0, <1>6, JobFacts, <1>a
       DEF Deduct, TypeOK, WritesJustified, HistoryKept, PointsMatchJobs,
           Justified, Wanted, ValidTransition, GoTo
  <1>7. ASSUME NEW s \in Slots, InsertReceipt(s)
        PROVE  WritesJustified'
    BY <1>0, <1>7, JobFacts, <1>a
       DEF InsertReceipt, TypeOK, WritesJustified, HistoryKept,
           PointsMatchJobs, Justified, Wanted, ValidTransition, Answer, GoTo
  <1>8. ASSUME NEW s \in Slots, Read(s)
        PROVE  WritesJustified'
    BY <1>0, <1>8, JobFacts, <1>a
       DEF Read, TypeOK, WritesJustified, HistoryKept, PointsMatchJobs,
           Justified, Approving, Wanted, ValidTransition, Found, Accepts,
           Answer, GoTo
  <1>9. ASSUME NEW s \in Slots, WriteDeletion(s)
        PROVE  WritesJustified'
    BY <1>0, <1>9, JobFacts, <1>a
       DEF WriteDeletion, TypeOK, WritesJustified, HistoryKept,
           PointsMatchJobs, Justified, Wanted, ValidTransition, GoTo
  <1>10. ASSUME NEW s \in Slots, WriteApproval(s)
        PROVE  WritesJustified'
    BY <1>0, <1>10, JobFacts, <1>a
       DEF WriteApproval, TypeOK, WritesJustified, HistoryKept,
           PointsMatchJobs, Justified, Approving, Wanted, ValidTransition,
           GoTo, SetStatus
  <1>11. ASSUME NEW s \in Slots, WriteUpdate(s)
        PROVE  WritesJustified'
    BY <1>0, <1>11, JobFacts, <1>a
       DEF WriteUpdate, TypeOK, WritesJustified, HistoryKept, PointsMatchJobs,
           Justified, Approving, Wanted, ValidTransition, Answer, GoTo,
           SetStatus
  <1>12. ASSUME NEW s \in Slots, Emit(s)
        PROVE  WritesJustified'
    BY <1>0, <1>12, JobFacts, <1>a
       DEF Emit, TypeOK, WritesJustified, HistoryKept, PointsMatchJobs,
           Justified, Wanted, ValidTransition, Answer, GoTo
  <1>13. CASE UNCHANGED vars
    BY <1>0, <1>13
       DEF vars, WritesJustified, Justified, Wanted, ValidTransition
  <1> QED
    BY <1>1, <1>2, <1>3, <1>4, <1>5, <1>6, <1>7, <1>8, <1>9, <1>10,
       <1>11, <1>12, <1>13 DEF Next, Step

\* A create inserts an order that did not exist, so no two share one.
LEMMA ApartNext == OrderInv /\ [Next]_vars => CreatesApart'
  <1> SUFFICES ASSUME OrderInv, [Next]_vars
               PROVE  CreatesApart'
    OBVIOUS
  <1> USE DEF orders, money, request
  <1>0. TypeOK /\ PointsMatchJobs /\ CreatesApart /\ CreateProgress
    BY DEF OrderInv
  <1>a. TypeOK'
    BY TypeNext
  <1>1. ASSUME NEW s \in Slots, NEW j \in Jobs, Begin(s, j)
        PROVE  CreatesApart'
    <2>1. j.kind = "create" => j.po \notin POs
      BY JobFacts, JobsAssumption
    <2>2. \A t \in Slots : target'[t] = IF t = s THEN j.po ELSE target[t]
      BY <1>0, <1>1 DEF Begin, TypeOK
    <2>3. \A t \in Slots : job'[t] = IF t = s THEN j ELSE job[t]
      BY <1>0, <1>1 DEF Begin, TypeOK
    <2> QED
      BY <1>0, <2>1, <2>2, <2>3 DEF CreatesApart
  <1>2. ASSUME NEW s \in Slots, PreCheck(s)
        PROVE  CreatesApart'
    BY <1>0, <1>2, JobFacts, <1>a
       DEF PreCheck, TypeOK, CreatesApart, CreateProgress, PointsMatchJobs,
           Answer, GoTo
  <1>3. ASSUME NEW s \in Slots, InsertPO(s)
        PROVE  CreatesApart'
    BY <1>0, <1>3, JobFacts, <1>a
       DEF InsertPO, TypeOK, CreatesApart, CreateProgress, PointsMatchJobs,
           Answer, GoTo, SetStatus
  <1>4. ASSUME NEW s \in Slots, AddVendors(s)
        PROVE  CreatesApart'
    BY <1>0, <1>4, JobFacts, <1>a
       DEF AddVendors, TypeOK, CreatesApart, CreateProgress, PointsMatchJobs,
           Answer, GoTo
  <1>5. ASSUME NEW s \in Slots, VerifyFunds(s)
        PROVE  CreatesApart'
    BY <1>0, <1>5, JobFacts, <1>a
       DEF VerifyFunds, TypeOK, CreatesApart, CreateProgress, PointsMatchJobs,
           Answer, GoTo
  <1>6. ASSUME NEW s \in Slots, Deduct(s)
        PROVE  CreatesApart'
    BY <1>0, <1>6, JobFacts, <1>a
       DEF Deduct, TypeOK, CreatesApart, CreateProgress, PointsMatchJobs, GoTo
  <1>7. ASSUME NEW s \in Slots, InsertReceipt(s)
        PROVE  CreatesApart'
    BY <1>0, <1>7, JobFacts, <1>a
       DEF InsertReceipt, TypeOK, CreatesApart, CreateProgress,
           PointsMatchJobs, Answer, GoTo
  <1>8. ASSUME NEW s \in Slots, Read(s)
        PROVE  CreatesApart'
    BY <1>0, <1>8, JobFacts, <1>a
       DEF Read, TypeOK, CreatesApart, CreateProgress, PointsMatchJobs, Answer,
           GoTo
  <1>9. ASSUME NEW s \in Slots, WriteDeletion(s)
        PROVE  CreatesApart'
    BY <1>0, <1>9, JobFacts, <1>a
       DEF WriteDeletion, TypeOK, CreatesApart, CreateProgress,
           PointsMatchJobs, GoTo
  <1>10. ASSUME NEW s \in Slots, WriteApproval(s)
        PROVE  CreatesApart'
    BY <1>0, <1>10, JobFacts, <1>a
       DEF WriteApproval, TypeOK, CreatesApart, CreateProgress,
           PointsMatchJobs, GoTo, SetStatus
  <1>11. ASSUME NEW s \in Slots, WriteUpdate(s)
        PROVE  CreatesApart'
    BY <1>0, <1>11, JobFacts, <1>a
       DEF WriteUpdate, TypeOK, CreatesApart, CreateProgress, PointsMatchJobs,
           Answer, GoTo, SetStatus
  <1>12. ASSUME NEW s \in Slots, Emit(s)
        PROVE  CreatesApart'
    BY <1>0, <1>12, JobFacts, <1>a
       DEF Emit, TypeOK, CreatesApart, CreateProgress, PointsMatchJobs, Answer,
           GoTo
  <1>13. CASE UNCHANGED vars
    BY <1>0, <1>13 DEF vars, CreatesApart
  <1> QED
    BY <1>1, <1>2, <1>3, <1>4, <1>5, <1>6, <1>7, <1>8, <1>9, <1>10,
       <1>11, <1>12, <1>13 DEF Next, Step

\* The money of an order follows its create.
LEMMA ProgressNext == OrderInv /\ [Next]_vars => CreateProgress'
  <1> SUFFICES ASSUME OrderInv, [Next]_vars
               PROVE  CreateProgress'
    OBVIOUS
  <1> USE DEF orders, money, request
  <1>0. TypeOK /\ PointsMatchJobs /\ CreateProgress /\ CreatesApart /\ NothingBeforeInsert
    BY DEF OrderInv
  <1>a. TypeOK'
    BY TypeNext
  <1>1. ASSUME NEW s \in Slots, NEW j \in Jobs, Begin(s, j)
        PROVE  CreateProgress'
    <2>1. j.kind = "create" => j.po \notin POs
      BY JobFacts, JobsAssumption
    <2>2. \A t \in Slots : target'[t] = IF t = s THEN j.po ELSE target[t]
      BY <1>0, <1>1 DEF Begin, TypeOK
    <2>3. \A t \in Slots : job'[t] = IF t = s THEN j ELSE job[t]
      BY <1>0, <1>1 DEF Begin, TypeOK
    <2>4. \A t \in Slots \ {s} : pc'[t] = pc[t]
      BY <1>0, <1>1 DEF Begin, TypeOK
    <2>5. UNCHANGED <<status, visited, committed, deducted>>
      BY <1>1 DEF Begin
    <2> QED
      BY <1>0, <2>1, <2>2, <2>3, <2>4, <2>5 DEF CreateProgress
  <1>2. ASSUME NEW s \in Slots, PreCheck(s)
        PROVE  CreateProgress'
    BY <1>0, <1>2, JobFacts, <1>a
       DEF PreCheck, TypeOK, CreateProgress, CreatesApart, NothingBeforeInsert,
           PointsMatchJobs, Answer, GoTo
  <1>3. ASSUME NEW s \in Slots, InsertPO(s)
        PROVE  CreateProgress'
    <2>1. CASE Answer(s, "error") /\ UNCHANGED <<orders, target>>
      BY <1>0, <1>3, <2>1 DEF InsertPO, TypeOK, CreateProgress, Answer
    <2>2. ASSUME NEW p \in POs, status[p] = Absent, SetStatus(p, "DRAFT"),
                 committed' = [committed EXCEPT ![p] = job[s].amount],
                 target' = [target EXCEPT ![s] = p],
                 GoTo(s, IF job[s].vendors THEN "vendors" ELSE AfterVendors(s))
          PROVE  CreateProgress'
      <3>1. UNCHANGED <<deducted, job>>
        BY <1>3 DEF InsertPO
      <3>2. deducted[p] = 0
        BY <1>0, <2>2 DEF NothingBeforeInsert
      <3>3. job[s] \in Jobs /\ job[s].amount \in Nat
        BY <1>0, <1>3, JobFacts DEF InsertPO, PointsMatchJobs
      <3>4. /\ pc'[s] \in {"vendors", "verify", "emit"}
            /\ pc'[s] = "emit" => job[s].amount = 0
        BY <1>0, <2>2, <3>3 DEF GoTo, AfterVendors, TypeOK
      <3>5. /\ status'[p] = "DRAFT" /\ "DRAFT" \in visited'[p]
            /\ committed'[p] = job[s].amount
            /\ \A q \in POs \ {p} : /\ status'[q] = status[q]
                                    /\ visited'[q] = visited[q]
                                    /\ committed'[q] = committed[q]
        BY <1>0, <2>2 DEF SetStatus, TypeOK
      <3>6. target'[s] = p
        BY <1>0, <2>2 DEF TypeOK
      <3>7. \A t \in Slots \ {s} : target'[t] = target[t] /\ pc'[t] = pc[t]
        BY <1>0, <2>2 DEF TypeOK, GoTo
      <3> SUFFICES ASSUME NEW t \in Slots, job'[t] \in Jobs,
                          job'[t].kind = "create", target'[t] \in POs
                   PROVE  /\ status'[target'[t]] # Absent
                          /\ "DRAFT" \in visited'[target'[t]]
                          /\ committed'[target'[t]] = job'[t].amount
                          /\ pc'[t] \in {"vendors", "verify", "deduct"} =>
                                 deducted'[target'[t]] = 0
                          /\ pc'[t] = "emit" =>
                                 deducted'[target'[t]] = committed'[target'[t]]
        BY DEF CreateProgress
      <3>8. CASE t = s
        BY <3>1, <3>2, <3>3, <3>4, <3>5, <3>6, <3>8 DEF Absent
      <3>9. CASE t # s
        <4>1. target[t] # p
          BY <1>0, <2>2, <3>1, <3>7, <3>9 DEF CreateProgress
        <4> QED
          BY <1>0, <3>1, <3>5, <3>7, <3>9, <4>1 DEF CreateProgress
      <3> QED
        BY <3>8, <3>9
    <2> QED
      BY <1>3, <2>1, <2>2 DEF InsertPO
  <1>4. ASSUME NEW s \in Slots, AddVendors(s)
        PROVE  CreateProgress'
    BY <1>0, <1>4, JobFacts, <1>a
       DEF AddVendors, TypeOK, CreateProgress, CreatesApart,
           NothingBeforeInsert, PointsMatchJobs, AfterVendors, Answer, GoTo
  <1>5. ASSUME NEW s \in Slots, VerifyFunds(s)
        PROVE  CreateProgress'
    BY <1>0, <1>5, JobFacts, <1>a
       DEF VerifyFunds, TypeOK, CreateProgress, CreatesApart,
           NothingBeforeInsert, PointsMatchJobs, Answer, GoTo
  <1>6. ASSUME NEW s \in Slots, Deduct(s)
        PROVE  CreateProgress'
    BY <1>0, <1>6, JobFacts, <1>a
       DEF Deduct, TypeOK, CreateProgress, CreatesApart, NothingBeforeInsert,
           PointsMatchJobs, GoTo
  <1>7. ASSUME NEW s \in Slots, InsertReceipt(s)
        PROVE  CreateProgress'
    BY <1>0, <1>7, JobFacts, <1>a
       DEF InsertReceipt, TypeOK, CreateProgress, CreatesApart,
           NothingBeforeInsert, PointsMatchJobs, Answer, GoTo
  <1>8. ASSUME NEW s \in Slots, Read(s)
        PROVE  CreateProgress'
    BY <1>0, <1>8, JobFacts, <1>a
       DEF Read, TypeOK, CreateProgress, CreatesApart, NothingBeforeInsert,
           PointsMatchJobs, Answer, GoTo
  <1>9. ASSUME NEW s \in Slots, WriteDeletion(s)
        PROVE  CreateProgress'
    BY <1>0, <1>9, JobFacts, <1>a
       DEF WriteDeletion, TypeOK, CreateProgress, CreatesApart,
           NothingBeforeInsert, PointsMatchJobs, GoTo
  <1>10. ASSUME NEW s \in Slots, WriteApproval(s)
        PROVE  CreateProgress'
    BY <1>0, <1>10, WriteFacts DEF CreateProgress
  <1>11. ASSUME NEW s \in Slots, WriteUpdate(s)
        PROVE  CreateProgress'
    BY <1>0, <1>11, WriteFacts DEF CreateProgress
  <1>12. ASSUME NEW s \in Slots, Emit(s)
        PROVE  CreateProgress'
    BY <1>0, <1>12, JobFacts, <1>a
       DEF Emit, TypeOK, CreateProgress, CreatesApart, NothingBeforeInsert,
           PointsMatchJobs, Answer, GoTo
  <1>13. CASE UNCHANGED vars
    BY <1>0, <1>13 DEF vars, CreateProgress
  <1> QED
    BY <1>1, <1>2, <1>3, <1>4, <1>5, <1>6, <1>7, <1>8, <1>9, <1>10,
       <1>11, <1>12, <1>13 DEF Next, Step

\* Nothing is deducted for an order that does not exist.
LEMMA NothingNext == OrderInv /\ [Next]_vars => NothingBeforeInsert'
  <1> SUFFICES ASSUME OrderInv, [Next]_vars
               PROVE  NothingBeforeInsert'
    OBVIOUS
  <1> USE DEF orders, money, request
  <1>0. TypeOK /\ PointsMatchJobs /\ NothingBeforeInsert /\ CreateProgress
    BY DEF OrderInv
  <1>a. TypeOK'
    BY TypeNext
  <1>1. ASSUME NEW s \in Slots, NEW j \in Jobs, Begin(s, j)
        PROVE  NothingBeforeInsert'
    BY <1>0, <1>1, JobFacts, <1>a
       DEF Begin, TypeOK, NothingBeforeInsert, CreateProgress, PointsMatchJobs
  <1>2. ASSUME NEW s \in Slots, PreCheck(s)
        PROVE  NothingBeforeInsert'
    BY <1>0, <1>2, JobFacts, <1>a
       DEF PreCheck, TypeOK, NothingBeforeInsert, CreateProgress,
           PointsMatchJobs, Answer, GoTo
  <1>3. ASSUME NEW s \in Slots, InsertPO(s)
        PROVE  NothingBeforeInsert'
    BY <1>0, <1>3, JobFacts, <1>a
       DEF InsertPO, TypeOK, NothingBeforeInsert, CreateProgress,
           PointsMatchJobs, Answer, GoTo, SetStatus
  <1>4. ASSUME NEW s \in Slots, AddVendors(s)
        PROVE  NothingBeforeInsert'
    BY <1>0, <1>4, JobFacts, <1>a
       DEF AddVendors, TypeOK, NothingBeforeInsert, CreateProgress,
           PointsMatchJobs, Answer, GoTo
  <1>5. ASSUME NEW s \in Slots, VerifyFunds(s)
        PROVE  NothingBeforeInsert'
    BY <1>0, <1>5, JobFacts, <1>a
       DEF VerifyFunds, TypeOK, NothingBeforeInsert, CreateProgress,
           PointsMatchJobs, Answer, GoTo
  <1>6. ASSUME NEW s \in Slots, Deduct(s)
        PROVE  NothingBeforeInsert'
    BY <1>0, <1>6, JobFacts, <1>a
       DEF Deduct, TypeOK, NothingBeforeInsert, CreateProgress,
           PointsMatchJobs, GoTo
  <1>7. ASSUME NEW s \in Slots, InsertReceipt(s)
        PROVE  NothingBeforeInsert'
    BY <1>0, <1>7, JobFacts, <1>a
       DEF InsertReceipt, TypeOK, NothingBeforeInsert, CreateProgress,
           PointsMatchJobs, Answer, GoTo
  <1>8. ASSUME NEW s \in Slots, Read(s)
        PROVE  NothingBeforeInsert'
    BY <1>0, <1>8, JobFacts, <1>a
       DEF Read, TypeOK, NothingBeforeInsert, CreateProgress, PointsMatchJobs,
           Answer, GoTo
  <1>9. ASSUME NEW s \in Slots, WriteDeletion(s)
        PROVE  NothingBeforeInsert'
    BY <1>0, <1>9, JobFacts, <1>a
       DEF WriteDeletion, TypeOK, NothingBeforeInsert, CreateProgress,
           PointsMatchJobs, GoTo
  <1>10. ASSUME NEW s \in Slots, WriteApproval(s)
        PROVE  NothingBeforeInsert'
    BY <1>0, <1>10, WriteFacts DEF NothingBeforeInsert
  <1>11. ASSUME NEW s \in Slots, WriteUpdate(s)
        PROVE  NothingBeforeInsert'
    BY <1>0, <1>11, WriteFacts DEF NothingBeforeInsert
  <1>12. ASSUME NEW s \in Slots, Emit(s)
        PROVE  NothingBeforeInsert'
    BY <1>0, <1>12, JobFacts, <1>a
       DEF Emit, TypeOK, NothingBeforeInsert, CreateProgress, PointsMatchJobs,
           Answer, GoTo
  <1>13. CASE UNCHANGED vars
    BY <1>0, <1>13 DEF vars, NothingBeforeInsert
  <1> QED
    BY <1>1, <1>2, <1>3, <1>4, <1>5, <1>6, <1>7, <1>8, <1>9, <1>10,
       <1>11, <1>12, <1>13 DEF Next, Step

\* What the other requests have done when they come to their event.
LEMMA WrittenNext == OrderInv /\ [Next]_vars => WrittenBeforeEmit'
  <1> SUFFICES ASSUME OrderInv, [Next]_vars
               PROVE  WrittenBeforeEmit'
    OBVIOUS
  <1> USE DEF orders, money, request
  <1>0. TypeOK /\ PointsMatchJobs /\ WrittenBeforeEmit
    BY DEF OrderInv
  <1>a. TypeOK'
    BY TypeNext
  <1>1. ASSUME NEW s \in Slots, NEW j \in Jobs, Begin(s, j)
        PROVE  WrittenBeforeEmit'
    BY <1>0, <1>1, JobFacts, <1>a
       DEF Begin, TypeOK, WrittenBeforeEmit, PointsMatchJobs
  <1>2. ASSUME NEW s \in Slots, PreCheck(s)
        PROVE  WrittenBeforeEmit'
    BY <1>0, <1>2, JobFacts, <1>a
       DEF PreCheck, TypeOK, WrittenBeforeEmit, PointsMatchJobs, Answer, GoTo
  <1>3. ASSUME NEW s \in Slots, InsertPO(s)
        PROVE  WrittenBeforeEmit'
    BY <1>0, <1>3, JobFacts, <1>a
       DEF InsertPO, TypeOK, WrittenBeforeEmit, PointsMatchJobs, Answer, GoTo,
           SetStatus
  <1>4. ASSUME NEW s \in Slots, AddVendors(s)
        PROVE  WrittenBeforeEmit'
    BY <1>0, <1>4, JobFacts, <1>a
       DEF AddVendors, TypeOK, WrittenBeforeEmit, PointsMatchJobs, Answer, GoTo
  <1>5. ASSUME NEW s \in Slots, VerifyFunds(s)
        PROVE  WrittenBeforeEmit'
    BY <1>0, <1>5, JobFacts, <1>a
       DEF VerifyFunds, TypeOK, WrittenBeforeEmit, PointsMatchJobs, Answer,
           GoTo
  <1>6. ASSUME NEW s \in Slots, Deduct(s)
        PROVE  WrittenBeforeEmit'
    BY <1>0, <1>6, JobFacts, <1>a
       DEF Deduct, TypeOK, WrittenBeforeEmit, PointsMatchJobs, GoTo
  <1>7. ASSUME NEW s \in Slots, InsertReceipt(s)
        PROVE  WrittenBeforeEmit'
    BY <1>0, <1>7, JobFacts, <1>a
       DEF InsertReceipt, TypeOK, WrittenBeforeEmit, PointsMatchJobs, Answer,
           GoTo
  <1>8. ASSUME NEW s \in Slots, Read(s)
        PROVE  WrittenBeforeEmit'
    BY <1>0, <1>8, JobFacts, <1>a
       DEF Read, TypeOK, WrittenBeforeEmit, PointsMatchJobs, Approving, Wanted,
           Answer, GoTo
  <1>9. ASSUME NEW s \in Slots, WriteDeletion(s)
        PROVE  WrittenBeforeEmit'
    BY <1>0, <1>9, JobFacts, <1>a
       DEF WriteDeletion, TypeOK, WrittenBeforeEmit, PointsMatchJobs, GoTo
  <1>10. ASSUME NEW s \in Slots, WriteApproval(s)
        PROVE  WrittenBeforeEmit'
    <2>1. target[s] \in POs /\ job[s] \in Jobs /\ job[s].user \in Users
      BY <1>0, <1>10, WriteFacts, JobFacts
    <2>2. \/ job[s].kind = "approve"
          \/ job[s].kind = "wfApprove" /\ s \notin half
      BY <1>10 DEF WriteApproval, Approving
    <2>3. job[s].to \in visited'[target[s]] /\ approver'[target[s]] = job[s].user
      BY <1>0, <1>10, <2>1 DEF WriteApproval, SetStatus, TypeOK
    <2>4. \A p \in POs : approver[p] # NoUser => approver'[p] # NoUser
      BY <1>0, <1>10, <2>1, JobsAssumption DEF WriteApproval, TypeOK
    <2>5. job[s].user # NoUser
      BY <2>1, JobsAssumption
    <2>6. \A t \in Slots : pc[t] \in {"read", "write", "emit"} => target[t] \in POs
      BY <1>0 DEF PointsMatchJobs
    <2>7. UNCHANGED <<job, target, half, received, deleted>>
      BY <1>10 DEF WriteApproval
    <2>8. /\ \A t \in Slots \ {s} : pc'[t] = pc[t]
          /\ \A p \in POs : visited[p] \subseteq visited'[p]
          /\ pc[s] = "write"
      BY <1>0, <1>10, WriteFacts
    <2> QED
      BY <1>0, <2>1, <2>2, <2>3, <2>4, <2>5, <2>6, <2>7, <2>8
         DEF WrittenBeforeEmit
  <1>11. ASSUME NEW s \in Slots, WriteUpdate(s)
        PROVE  WrittenBeforeEmit'
    BY <1>0, <1>11, JobFacts, <1>a
       DEF WriteUpdate, TypeOK, WrittenBeforeEmit, PointsMatchJobs, Approving,
           Wanted, Answer, GoTo, SetStatus
  <1>12. ASSUME NEW s \in Slots, Emit(s)
        PROVE  WrittenBeforeEmit'
    BY <1>0, <1>12, JobFacts, <1>a
       DEF Emit, TypeOK, WrittenBeforeEmit, PointsMatchJobs, Answer, GoTo
  <1>13. CASE UNCHANGED vars
    BY <1>0, <1>13 DEF vars, WrittenBeforeEmit
  <1> QED
    BY <1>1, <1>2, <1>3, <1>4, <1>5, <1>6, <1>7, <1>8, <1>9, <1>10,
       <1>11, <1>12, <1>13 DEF Next, Step

\* No order skips a stage.
LEMMA PathNext == OrderInv /\ [Next]_vars => PathRespected'
  <1> SUFFICES ASSUME OrderInv, [Next]_vars
               PROVE  PathRespected'
    OBVIOUS
  <1> USE DEF orders, money, request
  <1>0. TypeOK /\ PointsMatchJobs /\ PathRespected /\ WritesJustified
    BY DEF OrderInv
  <1>a. TypeOK'
    BY TypeNext
  <1>1. ASSUME NEW s \in Slots, NEW j \in Jobs, Begin(s, j)
        PROVE  PathRespected'
    BY <1>0, <1>1, JobFacts, <1>a
       DEF Begin, TypeOK, PathRespected, WritesJustified, PointsMatchJobs,
           Justified, ValidTransition
  <1>2. ASSUME NEW s \in Slots, PreCheck(s)
        PROVE  PathRespected'
    BY <1>0, <1>2, JobFacts, <1>a
       DEF PreCheck, TypeOK, PathRespected, WritesJustified, PointsMatchJobs,
           Justified, ValidTransition, Answer, GoTo
  <1>3. ASSUME NEW s \in Slots, InsertPO(s)
        PROVE  PathRespected'
    BY <1>0, <1>3, JobFacts, <1>a
       DEF InsertPO, TypeOK, PathRespected, WritesJustified, PointsMatchJobs,
           Justified, ValidTransition, Answer, GoTo, SetStatus
  <1>4. ASSUME NEW s \in Slots, AddVendors(s)
        PROVE  PathRespected'
    BY <1>0, <1>4, JobFacts, <1>a
       DEF AddVendors, TypeOK, PathRespected, WritesJustified, PointsMatchJobs,
           Justified, ValidTransition, Answer, GoTo
  <1>5. ASSUME NEW s \in Slots, VerifyFunds(s)
        PROVE  PathRespected'
    BY <1>0, <1>5, JobFacts, <1>a
       DEF VerifyFunds, TypeOK, PathRespected, WritesJustified,
           PointsMatchJobs, Justified, ValidTransition, Answer, GoTo
  <1>6. ASSUME NEW s \in Slots, Deduct(s)
        PROVE  PathRespected'
    BY <1>0, <1>6, JobFacts, <1>a
       DEF Deduct, TypeOK, PathRespected, WritesJustified, PointsMatchJobs,
           Justified, ValidTransition, GoTo
  <1>7. ASSUME NEW s \in Slots, InsertReceipt(s)
        PROVE  PathRespected'
    BY <1>0, <1>7, JobFacts, <1>a
       DEF InsertReceipt, TypeOK, PathRespected, WritesJustified,
           PointsMatchJobs, Justified, ValidTransition, Answer, GoTo
  <1>8. ASSUME NEW s \in Slots, Read(s)
        PROVE  PathRespected'
    BY <1>0, <1>8, JobFacts, <1>a
       DEF Read, TypeOK, PathRespected, WritesJustified, PointsMatchJobs,
           Justified, Approving, Wanted, ValidTransition, Answer, GoTo
  <1>9. ASSUME NEW s \in Slots, WriteDeletion(s)
        PROVE  PathRespected'
    BY <1>0, <1>9, JobFacts, <1>a
       DEF WriteDeletion, TypeOK, PathRespected, WritesJustified,
           PointsMatchJobs, Justified, ValidTransition, GoTo
  <1>10. ASSUME NEW s \in Slots, WriteApproval(s)
        PROVE  PathRespected'
    <2>1. target[s] \in POs /\ job[s] \in Jobs
      BY <1>0, <1>10, WriteFacts
    <2>2. Wanted(s) = job[s].to /\ job[s].to # Same
      <3>1. job[s].kind \in {"approve", "wfApprove"} /\ s \notin half
        BY <1>0, <1>10, <2>1 DEF WriteApproval, Approving, PointsMatchJobs
      <3> QED
        BY <2>1, <3>1, JobFacts DEF Wanted, Same
    <2>3. \E before \in visited[target[s]] : ValidTransition(before, job[s].to)
      BY <1>0, <1>10, <2>2, WriteFacts
         DEF WritesJustified, Justified, WriteApproval
    <2>4. /\ visited'[target[s]] = visited[target[s]] \cup {job[s].to}
          /\ \A p \in POs \ {target[s]} : visited'[p] = visited[p]
      BY <1>0, <1>10, <2>1 DEF WriteApproval, SetStatus, TypeOK
    <2> QED
      BY <1>0, <2>1, <2>3, <2>4 DEF PathRespected
  <1>11. ASSUME NEW s \in Slots, WriteUpdate(s)
        PROVE  PathRespected'
    BY <1>0, <1>11, JobFacts, <1>a
       DEF WriteUpdate, TypeOK, PathRespected, WritesJustified,
           PointsMatchJobs, Justified, Approving, Wanted, ValidTransition,
           Answer, GoTo, SetStatus
  <1>12. ASSUME NEW s \in Slots, Emit(s)
        PROVE  PathRespected'
    BY <1>0, <1>12, JobFacts, <1>a
       DEF Emit, TypeOK, PathRespected, WritesJustified, PointsMatchJobs,
           Justified, ValidTransition, Answer, GoTo
  <1>13. CASE UNCHANGED vars
    BY <1>0, <1>13 DEF vars, PathRespected, ValidTransition
  <1> QED
    BY <1>1, <1>2, <1>3, <1>4, <1>5, <1>6, <1>7, <1>8, <1>9, <1>10,
       <1>11, <1>12, <1>13 DEF Next, Step

\* A success answer means that all of the request was done.
LEMMA DoneNext == OrderInv /\ [Next]_vars => OkMeansDone'
  <1> SUFFICES ASSUME OrderInv, [Next]_vars
               PROVE  OkMeansDone'
    OBVIOUS
  <1> USE DEF orders, money, request
  <1>0. TypeOK /\ PointsMatchJobs /\ OkMeansDone /\ CreateProgress /\ CreatesApart /\ WrittenBeforeEmit
    BY DEF OrderInv
  <1>a. TypeOK'
    BY TypeNext
  <1>1. ASSUME NEW s \in Slots, NEW j \in Jobs, Begin(s, j)
        PROVE  OkMeansDone'
    BY <1>0, <1>1, JobFacts, <1>a
       DEF Begin, TypeOK, OkMeansDone, CreateProgress, CreatesApart,
           WrittenBeforeEmit, PointsMatchJobs
  <1>2. ASSUME NEW s \in Slots, PreCheck(s)
        PROVE  OkMeansDone'
    BY <1>0, <1>2, JobFacts, <1>a
       DEF PreCheck, TypeOK, OkMeansDone, CreateProgress, CreatesApart,
           WrittenBeforeEmit, PointsMatchJobs, Answer, GoTo
  <1>3. ASSUME NEW s \in Slots, InsertPO(s)
        PROVE  OkMeansDone'
    <2>1. \A t \in Slots : answer'[t] = "ok" => t # s /\ answer[t] = "ok"
      BY <1>0, <1>3 DEF InsertPO, TypeOK, Answer, GoTo, PointsMatchJobs
    <2>2. UNCHANGED <<job, deducted, deleted, received, approver>>
      BY <1>3 DEF InsertPO
    <2>3. \A t \in Slots \ {s} : target'[t] = target[t]
      BY <1>0, <1>3 DEF InsertPO, TypeOK
    <2>4. \A p \in POs : visited[p] \subseteq visited'[p]
      BY <1>0, <1>3 DEF InsertPO, SetStatus, TypeOK
    <2>5. \A p \in POs : status[p] # Absent => committed'[p] = committed[p]
      BY <1>0, <1>3 DEF InsertPO, TypeOK
    <2>6. \A t \in Slots : answer[t] = "ok" => job[t] \in Jobs /\ target[t] \in POs
      BY <1>0 DEF PointsMatchJobs
    <2> QED
      BY <1>0, <2>1, <2>2, <2>3, <2>4, <2>5, <2>6
         DEF OkMeansDone, CreateProgress
  <1>4. ASSUME NEW s \in Slots, AddVendors(s)
        PROVE  OkMeansDone'
    BY <1>0, <1>4, JobFacts, <1>a
       DEF AddVendors, TypeOK, OkMeansDone, CreateProgress, CreatesApart,
           WrittenBeforeEmit, PointsMatchJobs, Answer, GoTo
  <1>5. ASSUME NEW s \in Slots, VerifyFunds(s)
        PROVE  OkMeansDone'
    BY <1>0, <1>5, JobFacts, <1>a
       DEF VerifyFunds, TypeOK, OkMeansDone, CreateProgress, CreatesApart,
           WrittenBeforeEmit, PointsMatchJobs, Answer, GoTo
  <1>6. ASSUME NEW s \in Slots, Deduct(s)
        PROVE  OkMeansDone'
    BY <1>0, <1>6, JobFacts, <1>a
       DEF Deduct, TypeOK, OkMeansDone, CreateProgress, CreatesApart,
           WrittenBeforeEmit, PointsMatchJobs, GoTo
  <1>7. ASSUME NEW s \in Slots, InsertReceipt(s)
        PROVE  OkMeansDone'
    BY <1>0, <1>7, JobFacts, <1>a
       DEF InsertReceipt, TypeOK, OkMeansDone, CreateProgress, CreatesApart,
           WrittenBeforeEmit, PointsMatchJobs, Answer, GoTo
  <1>8. ASSUME NEW s \in Slots, Read(s)
        PROVE  OkMeansDone'
    BY <1>0, <1>8, JobFacts, <1>a
       DEF Read, TypeOK, OkMeansDone, CreateProgress, CreatesApart,
           WrittenBeforeEmit, PointsMatchJobs, Approving, Wanted, Answer, GoTo
  <1>9. ASSUME NEW s \in Slots, WriteDeletion(s)
        PROVE  OkMeansDone'
    BY <1>0, <1>9, JobFacts, <1>a
       DEF WriteDeletion, TypeOK, OkMeansDone, CreateProgress, CreatesApart,
           WrittenBeforeEmit, PointsMatchJobs, GoTo
  <1>10. ASSUME NEW s \in Slots, WriteApproval(s)
        PROVE  OkMeansDone'
    <2>1. \A t \in Slots : answer'[t] = "ok" => t # s /\ answer[t] = "ok"
      BY <1>0, <1>10 DEF WriteApproval, TypeOK, GoTo, PointsMatchJobs
    <2>2. /\ UNCHANGED <<job, target, deducted, committed, deleted, received>>
          /\ \A p \in POs : visited[p] \subseteq visited'[p]
      BY <1>0, <1>10, WriteFacts
    <2>3. \A p \in POs : approver[p] # NoUser => approver'[p] # NoUser
      <3>1. job[s].user \in Users
        BY <1>0, <1>10, WriteFacts, JobFacts
      <3> QED
        BY <1>0, <1>10, <3>1, JobsAssumption DEF WriteApproval, TypeOK
    <2>4. \A t \in Slots : answer[t] = "ok" => job[t] \in Jobs /\ target[t] \in POs
      BY <1>0 DEF PointsMatchJobs
    <2> QED
      BY <1>0, <2>1, <2>2, <2>3, <2>4 DEF OkMeansDone
  <1>11. ASSUME NEW s \in Slots, WriteUpdate(s)
        PROVE  OkMeansDone'
    <2>1. \A t \in Slots : answer'[t] = "ok" /\ t # s => answer[t] = "ok"
      BY <1>0, <1>11, WriteFacts
    <2>2. answer'[s] = "ok" => job[s].kind = "update"
      BY <1>0, <1>11, WriteFacts DEF PointsMatchJobs
    <2>3. /\ UNCHANGED <<job, target, deducted, committed, deleted, received>>
          /\ \A p \in POs : visited[p] \subseteq visited'[p]
      BY <1>0, <1>11, WriteFacts
    <2>4. UNCHANGED approver
      BY <1>11 DEF WriteUpdate
    <2>5. \A t \in Slots : answer[t] = "ok" => job[t] \in Jobs /\ target[t] \in POs
      BY <1>0 DEF PointsMatchJobs
    <2> QED
      BY <1>0, <2>1, <2>2, <2>3, <2>4, <2>5 DEF OkMeansDone
  <1>12. ASSUME NEW s \in Slots, Emit(s)
        PROVE  OkMeansDone'
    BY <1>0, <1>12, JobFacts, <1>a
       DEF Emit, TypeOK, OkMeansDone, CreateProgress, CreatesApart,
           WrittenBeforeEmit, PointsMatchJobs, Answer, GoTo
  <1>13. CASE UNCHANGED vars
    BY <1>0, <1>13 DEF vars, OkMeansDone
  <1> QED
    BY <1>1, <1>2, <1>3, <1>4, <1>5, <1>6, <1>7, <1>8, <1>9, <1>10,
       <1>11, <1>12, <1>13 DEF Next, Step

-----------------------------------------------------------------------------
\* The inductive invariant holds at the start.
LEMMA InvInit == Init => OrderInv
  <1> SUFFICES ASSUME Init
               PROVE  OrderInv
    OBVIOUS
  <1>1. TypeOK
    BY TypeInit
  <1>2. /\ \A s \in Slots : pc[s] = "idle" /\ answer[s] = "none"
                            /\ job[s] = NoJob /\ s \notin half
        /\ \A p \in POs : status[p] = Absent /\ visited[p] = {} /\ deducted[p] = 0
    BY DEF Init
  <1> QED
    BY <1>1, <1>2, JobsAssumption
       DEF OrderInv, PointsMatchJobs, HistoryKept, WritesJustified, CreatesApart,
           CreateProgress, NothingBeforeInsert, WrittenBeforeEmit, PathRespected,
           OkMeansDone

\* The inductive invariant holds in every behaviour.
THEOREM OrderInvariance == Spec => []OrderInv
  <1>1. OrderInv /\ [Next]_vars => OrderInv'
    BY TypeNext, PointsNext, HistoryNext, WritesNext, ApartNext, ProgressNext,
       NothingNext, WrittenNext, PathNext, DoneNext DEF OrderInv
  <1> QED
    BY InvInit, <1>1, PTL DEF Spec

\* Type correctness of PurchaseOrder.
THEOREM OrderTypeCorrect == Spec => []TypeOK
  <1>1. OrderInv => TypeOK
    BY DEF OrderInv
  <1> QED
    BY OrderInvariance, <1>1, PTL

\* No order skips a stage of isValidStatusTransition, whatever requests race
\* between their read of the order and their write (update, approve, delete,
\* approvePO, createGoodsReceipt).
THEOREM PathRespectedHolds == Spec => []PathRespected
  <1>1. OrderInv => PathRespected
    BY DEF OrderInv
  <1> QED
    BY OrderInvariance, <1>1, PTL

\* A request that answered with success did all it was asked to do.
THEOREM OkMeansDoneHolds == Spec => []OkMeansDone
  <1>1. OrderInv => OkMeansDone
    BY DEF OrderInv
  <1> QED
    BY OrderInvariance, <1>1, PTL
=============================================================================
