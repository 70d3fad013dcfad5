--------------------------- MODULE DocumentsProofs ---------------------------
(***************************************************************************)
(* Theorems about Documents for every set of slots, documents, users,      *)
(* roles and requests.                                                     *)
(***************************************************************************)
EXTENDS DocumentsInvariant, FiniteSetTheorems, TLAPS

-----------------------------------------------------------------------------
\* What a request names.
LEMMA JobFacts ==
    ASSUME NEW j \in Jobs
    PROVE  /\ j.kind \in Kinds /\ j.op \in Ops /\ j.user \in Users /\ j # NoJob
           /\ j.doc \in Docs \cup {NoDoc} /\ j.bases \subseteq Docs
           /\ j.to \in Statuses \cup {Keep}
           /\ j.op \in Creates <=> j.doc = NoDoc
           /\ j.op \notin Creates => j.doc \in Docs /\ Kind[j.doc] = j.kind
           /\ j.op = "fromPR" => j.kind = "order"
           /\ j.op = "process" => j.kind = "payment"
           /\ j.kind = "order" => j.op \in Creates
  <1>1. j \in JobType
    BY DocumentsAssumption
  <1> QED
    BY <1>1, DocumentsAssumption DEF JobType

\* Only the update of a contract changes its status, to the one it asks for.
LEMMA ContractMethods ==
    ASSUME NEW j \in Jobs, j.op \notin Creates, j.kind = "contract",
           Method(j).to \in Statuses
    PROVE  j.op = "update" /\ Method(j).to = j.to /\ j.to # Keep
  BY JobFacts
     DEF Method, ContractUpdate, ContractAddVendors, ContractRemoveVendor,
         ContractDelete, Statuses, ContractStatuses, PRStatuses,
         QuotationStatuses, POStatuses, InvoiceStatuses, PaymentStatuses, Keep,
         Gone

\* The read of such an update found the transition valid.
LEMMA ContractGuard ==
    ASSUME NEW j \in Jobs, j.kind = "contract", j.op = "update", j.to # Keep,
           Method(j).may
    PROVE  ContractTransition(status[j.doc], j.to)
  BY DEF Method, ContractUpdate

\* The processing of a payment starts from an approved one and ends it.
LEMMA ProcessMethod ==
    ASSUME NEW j \in Jobs, j.op = "process"
    PROVE  /\ Method(j).to = "PROCESSED"
           /\ Method(j).may => status[j.doc] = "APPROVED"
  BY JobFacts DEF Method, PaymentProcess

\* A status is not the mark of another kind of write.
LEMMA StatusFacts == {Keep, Gone, Absent} \cap Statuses = {} /\ "APPROVED" \in Statuses
  BY DEF Statuses, ContractStatuses, PRStatuses, QuotationStatuses, POStatuses,
         InvoiceStatuses, PaymentStatuses, Keep, Gone, Absent

\* A document is born with a status of its own.
LEMMA BirthFacts ==
    ASSUME NEW k \in Kinds
    PROVE  /\ FirstStatus(k) \in Statuses /\ FirstStatus(k) # "APPROVED"
           /\ k = "contract" => FirstStatus(k) = "DRAFT"
  BY DEF Kinds, FirstStatus, Statuses, ContractStatuses, PRStatuses,
         QuotationStatuses, POStatuses, InvoiceStatuses, PaymentStatuses

\* The types hold at the start.
LEMMA TypeInit == Init => TypeOK
  BY DocumentsAssumption DEF Init, TypeOK, Points, Absent

-----------------------------------------------------------------------------
\* A step of one slot leaves the requests of the others alone.
LEMMA OthersStay ==
    ASSUME TypeOK, NEW s \in Slots, Step(s) \/ \E j \in Jobs : Begin(s, j),
           NEW r \in Slots, r # s
    PROVE  /\ pc'[r] = pc[r] /\ job'[r] = job[r] /\ target'[r] = target[r]
           /\ on'[r] = on[r] /\ left'[r] = left[r]
  <1> USE DEF request, GoTo, End, Onward, TypeOK
  <1>1. CASE ReadPR(s) \/ CheckBase(s)
    BY <1>1 DEF ReadPR, CheckBase
  <1>2. CASE InsertDoc(s)
    BY <1>2 DEF InsertDoc
  <1>3. CASE AddVendors(s) \/ Read(s) \/ Emit(s) \/ Announce(s)
    BY <1>3 DEF AddVendors, Read, Emit, Announce
  <1>4. CASE WriteStatus(s)
    BY <1>4 DEF WriteStatus
  <1>5. CASE WriteFields(s) \/ WriteDeletion(s)
    BY <1>5 DEF WriteFields, WriteDeletion
  <1>6. CASE \E j \in Jobs : Begin(s, j)
    BY <1>6 DEF Begin
  <1> QED
    BY <1>1, <1>2, <1>3, <1>4, <1>5, <1>6 DEF Step

\* The steps that write no row.
Control(s) ==
    ReadPR(s) \/ CheckBase(s) \/ AddVendors(s) \/ Read(s) \/ Emit(s) \/ Announce(s)

\* Steps that touch no document.
LEMMA ControlFacts ==
    ASSUME NEW s \in Slots, Control(s) \/ \E j \in Jobs : Begin(s, j)
    PROVE  UNCHANGED <<tables, history>>
  BY DEF Control, ReadPR, CheckBase, AddVendors, Read, Emit, Announce, Begin

\* The steps of requests that write rows, and those of the orders.
LEMMA RowSteps ==
    ASSUME [Next]_vars
    PROVE  \/ UNCHANGED <<tables, history>>
           \/ \E s \in Slots : \/ InsertDoc(s) \/ WriteStatus(s)
                               \/ WriteFields(s) \/ WriteDeletion(s)
           \/ \E d \in Docs : MoveOrder(d) \/ DeleteOrder(d)
  <1>1. CASE UNCHANGED vars
    BY <1>1 DEF vars
  <1> QED
    BY <1>1, ControlFacts DEF Next, Step, Control

\* A document that a request holds for writing exists, and is its own.
LEMMA TargetFacts ==
    ASSUME TypeOK, PointsMatchJobs, NEW s \in Slots, pc[s] \in {"read", "write"}
    PROVE  /\ job[s] \in Jobs /\ job[s].op \notin Creates
           /\ target[s] = job[s].doc /\ target[s] \in Docs
           /\ Kind[target[s]] = job[s].kind /\ Kind[target[s]] # "order"
           /\ pc[s] = "write" => Exists(target[s])
  <1>1. job[s] \in Jobs /\ job[s].op \notin Creates /\ target[s] = job[s].doc
    BY DEF PointsMatchJobs
  <1> QED
    BY <1>1, JobFacts DEF PointsMatchJobs

\* Type correctness: every step writes values of the variables' types.
LEMMA TypeNext == DocumentsInv /\ [Next]_vars => TypeOK'
  <1> SUFFICES ASSUME DocumentsInv, [Next]_vars
               PROVE  TypeOK'
    OBVIOUS
  <1> USE DEF tables, history, request, GoTo
  <1>0. TypeOK /\ PointsMatchJobs
    BY DEF DocumentsInv
  <1>1. ASSUME NEW s \in Slots, NEW j \in Jobs, Begin(s, j)
        PROVE  TypeOK'
    BY <1>0, <1>1, JobFacts
       DEF Begin, TypeOK, Points
  <1>2. ASSUME NEW s \in Slots, ReadPR(s)
        PROVE  TypeOK'
    <2>1. CASE End(s) /\ UNCHANGED <<tables, history>>
      BY <1>0, <2>1 DEF End, TypeOK, Points
    <2>2. ASSUME NEW B, B = job[s].bases \cup UNION {rests[r] : r \in job[s].bases},
                 on' = [on EXCEPT ![s] = B], left' = [left EXCEPT ![s] = B],
                 pc' = [pc EXCEPT ![s] = "check"],
                 UNCHANGED <<job, target>>, UNCHANGED <<tables, history>>
          PROVE  TypeOK'
      <3>1. job[s].bases \subseteq Docs
        BY <1>0, <1>2, JobFacts DEF ReadPR, PointsMatchJobs
      <3>2. B \subseteq Docs
        BY <1>0, <2>2, <3>1 DEF TypeOK
      <3>3. on' \in [Slots -> SUBSET Docs] /\ left' \in [Slots -> SUBSET Docs]
        BY <1>0, <2>2, <3>2 DEF TypeOK
      <3> QED
        BY <1>0, <2>2, <3>3 DEF TypeOK, Points
    <2> QED
      BY <1>2, <2>1, <2>2 DEF ReadPR
  <1>3. ASSUME NEW s \in Slots, CheckBase(s)
        PROVE  TypeOK'
    <2>1. CASE End(s) /\ UNCHANGED <<tables, history>>
      BY <1>0, <2>1 DEF End, TypeOK, Points
    <2>2. ASSUME NEW b \in left[s], left' = [left EXCEPT ![s] = left[s] \ {b}],
                 pc' = [pc EXCEPT ![s] = IF left[s] = {b} THEN "insert" ELSE "check"],
                 UNCHANGED <<job, target, on>>, UNCHANGED <<tables, history>>
          PROVE  TypeOK'
      <3>1. ASSUME NEW r \in Slots
            PROVE  left[r] \subseteq Docs
        BY <1>0 DEF TypeOK
      <3>a. left' = [r \in Slots |-> IF r = s THEN left[s] \ {b} ELSE left[r]]
        BY <1>0, <2>2 DEF TypeOK
      <3>2. left' \in [Slots -> SUBSET Docs]
        BY <3>1, <3>a
      <3>3. pc' \in [Slots -> Points]
        BY <1>0, <2>2 DEF TypeOK, Points
      <3> QED
        BY <1>0, <2>2, <3>2, <3>3 DEF TypeOK
    <2> QED
      BY <1>3, <2>1, <2>2 DEF CheckBase
  <1>4. ASSUME NEW s \in Slots, InsertDoc(s)
        PROVE  TypeOK'
    <2>1. CASE End(s) /\ UNCHANGED <<status, maker, rests, visited, gone, settled, afterlife>>
      BY <1>0, <2>1 DEF End, TypeOK, Points
    <2>2. ASSUME NEW d \in Docs, Kind[d] = job[s].kind,
                 SetStatus(d, FirstStatus(Kind[d])),
                 maker' = [maker EXCEPT ![d] = job[s].user],
                 rests' = [rests EXCEPT ![d] = on[s]],
                 \/ /\ pc' = [pc EXCEPT ![s] = IF job[s].vendors THEN "vendors" ELSE "emit"]
                    /\ target' = [target EXCEPT ![s] = d]
                    /\ UNCHANGED <<job, on, left>>
                 \/ End(s),
                 UNCHANGED <<gone, settled, afterlife>>
          PROVE  TypeOK'
      <3>1. job[s] \in Jobs /\ Kind[d] \in Kinds
        BY <1>0, <1>4, DocumentsAssumption DEF InsertDoc, PointsMatchJobs
      <3>2. FirstStatus(Kind[d]) \in Statuses /\ job[s].user \in Users
        BY <3>1, BirthFacts, JobFacts
      <3> QED
        BY <1>0, <2>2, <3>1, <3>2 DEF SetStatus, End, TypeOK, Points
    <2> QED
      BY <1>4, <2>1, <2>2 DEF InsertDoc
  <1>5. ASSUME NEW s \in Slots, AddVendors(s)
        PROVE  TypeOK'
    BY <1>0, <1>5
       DEF AddVendors, End, TypeOK, Points
  <1>6. ASSUME NEW s \in Slots, Read(s)
        PROVE  TypeOK'
    BY <1>0, <1>6
       DEF Read, End, TypeOK, Points
  <1>7. ASSUME NEW s \in Slots, WriteStatus(s)
        PROVE  TypeOK'
    <2>1. target[s] \in Docs
      BY <1>0, <1>7, TargetFacts DEF WriteStatus
    <2>2. afterlife' \in [Docs -> Nat]
      BY <1>0, <1>7, <2>1 DEF WriteStatus, CountAfterlife, TypeOK
    <2>3. /\ pc' \in [Slots -> Points] /\ job' \in [Slots -> Jobs \cup {NoJob}]
          /\ target' \in [Slots -> Docs \cup {NoDoc}]
          /\ on' \in [Slots -> SUBSET Docs] /\ left' \in [Slots -> SUBSET Docs]
      BY <1>0, <1>7 DEF WriteStatus, Onward, End, TypeOK, Points
    <2>4. settled' \in [Docs -> Nat]
      <3>1. \E n \in {0, settled[target[s]] + 1, settled[target[s]]} :
              settled' = [settled EXCEPT ![target[s]] = n]
        <4>1. CASE Method(job[s]).to = "APPROVED"
          BY <1>7, <4>1 DEF WriteStatus
        <4>2. CASE Method(job[s]).to # "APPROVED" /\ job[s].op = "process"
          BY <1>7, <4>2 DEF WriteStatus
        <4>3. CASE Method(job[s]).to # "APPROVED" /\ job[s].op # "process"
          BY <1>7, <4>3 DEF WriteStatus
        <4> QED
          BY <4>1, <4>2, <4>3
      <3> QED
        BY <1>0, <2>1, <3>1 DEF TypeOK
    <2>5. status' \in [Docs -> Statuses \cup {Absent}] /\ visited' \in [Docs -> SUBSET Statuses]
      BY <1>0, <1>7, <2>1 DEF WriteStatus, SetStatus, TypeOK
    <2> QED
      BY <1>0, <1>7, <2>2, <2>3, <2>4, <2>5 DEF WriteStatus, TypeOK
  <1>8. ASSUME NEW s \in Slots, WriteFields(s)
        PROVE  TypeOK'
    <2>1. target[s] \in Docs
      BY <1>0, <1>8, TargetFacts DEF WriteFields
    <2>2. afterlife' \in [Docs -> Nat]
      BY <1>0, <1>8, <2>1 DEF WriteFields, CountAfterlife, TypeOK
    <2>3. /\ pc' \in [Slots -> Points] /\ job' \in [Slots -> Jobs \cup {NoJob}]
          /\ target' \in [Slots -> Docs \cup {NoDoc}]
          /\ on' \in [Slots -> SUBSET Docs] /\ left' \in [Slots -> SUBSET Docs]
      BY <1>0, <1>8 DEF WriteFields, Onward, End, TypeOK, Points
    <2> QED
      BY <1>0, <1>8, <2>1, <2>2, <2>3 DEF WriteFields, TypeOK
  <1>9. ASSUME NEW s \in Slots, WriteDeletion(s)
        PROVE  TypeOK'
    <2>1. target[s] \in Docs
      BY <1>0, <1>9, TargetFacts DEF WriteDeletion
    <2>2. afterlife' \in [Docs -> Nat]
      BY <1>0, <1>9, <2>1 DEF WriteDeletion, CountAfterlife, TypeOK
    <2>3. /\ pc' \in [Slots -> Points] /\ job' \in [Slots -> Jobs \cup {NoJob}]
          /\ target' \in [Slots -> Docs \cup {NoDoc}]
          /\ on' \in [Slots -> SUBSET Docs] /\ left' \in [Slots -> SUBSET Docs]
      BY <1>0, <1>9 DEF WriteDeletion, Onward, End, TypeOK, Points
    <2> QED
      BY <1>0, <1>9, <2>1, <2>2, <2>3 DEF WriteDeletion, TypeOK
  <1>10. ASSUME NEW s \in Slots, Emit(s)
        PROVE  TypeOK'
    BY <1>0, <1>10
       DEF Emit, End, TypeOK, Points
  <1>11. ASSUME NEW s \in Slots, Announce(s)
        PROVE  TypeOK'
    BY <1>0, <1>11
       DEF Announce, End, TypeOK, Points
  <1>12. ASSUME NEW d \in Docs, MoveOrder(d)
        PROVE  TypeOK'
    BY <1>0, <1>12
       DEF MoveOrder, SetStatus, TypeOK, Statuses
  <1>13. ASSUME NEW d \in Docs, DeleteOrder(d)
        PROVE  TypeOK'
    BY <1>0, <1>13
       DEF DeleteOrder, TypeOK
  <1>14. CASE UNCHANGED vars
    BY <1>0, <1>14
       DEF vars, TypeOK
  <1> QED
    BY <1>1, <1>2, <1>3, <1>4, <1>5, <1>6, <1>7, <1>8, <1>9, <1>10, <1>11,
       <1>12, <1>13, <1>14
       DEF Next, Step

\* Rows and history only grow: a document that exists goes on existing with
\* what it rests on, a deleted one stays deleted, a status once had stays
\* had.
LEMMA Monotone ==
    ASSUME DocumentsInv, [Next]_vars
    PROVE  /\ \A d \in Docs : visited[d] \subseteq visited'[d]
           /\ \A d \in Docs : Exists(d) => Exists(d)' /\ rests'[d] = rests[d]
           /\ gone \subseteq gone'
  <1> USE DEF tables, history
  <1>0. TypeOK /\ PointsMatchJobs
    BY DEF DocumentsInv
  <1>1. CASE UNCHANGED <<tables, history>>
    BY <1>1 DEF Exists
  <1>2. ASSUME NEW s \in Slots, InsertDoc(s)
        PROVE  /\ \A d \in Docs : visited[d] \subseteq visited'[d]
               /\ \A d \in Docs : Exists(d) => Exists(d)' /\ rests'[d] = rests[d]
               /\ gone \subseteq gone'
    BY <1>0, <1>2 DEF InsertDoc, SetStatus, Exists, TypeOK
  <1>3. ASSUME NEW s \in Slots, WriteStatus(s)
        PROVE  /\ \A d \in Docs : visited[d] \subseteq visited'[d]
               /\ \A d \in Docs : Exists(d) => Exists(d)' /\ rests'[d] = rests[d]
               /\ gone \subseteq gone'
    BY <1>0, <1>3, StatusFacts DEF WriteStatus, SetStatus, Exists, TypeOK
  <1>4. ASSUME NEW s \in Slots, WriteFields(s) \/ WriteDeletion(s)
        PROVE  /\ \A d \in Docs : visited[d] \subseteq visited'[d]
               /\ \A d \in Docs : Exists(d) => Exists(d)' /\ rests'[d] = rests[d]
               /\ gone \subseteq gone'
    BY <1>0, <1>4 DEF WriteFields, WriteDeletion, Exists, TypeOK
  <1>5. ASSUME NEW d \in Docs, MoveOrder(d) \/ DeleteOrder(d)
        PROVE  /\ \A x \in Docs : visited[x] \subseteq visited'[x]
               /\ \A x \in Docs : Exists(x) => Exists(x)' /\ rests'[x] = rests[x]
               /\ gone \subseteq gone'
    <2>1. POStatuses \subseteq Statuses
      BY DEF Statuses
    <2> QED
      BY <1>0, <1>5, <2>1, StatusFacts
         DEF MoveOrder, DeleteOrder, SetStatus, Exists, TypeOK
  <1> QED
    BY <1>1, <1>2, <1>3, <1>4, <1>5, RowSteps

\* What a request has read stays true of the history.
LEMMA SoundStays ==
    ASSUME DocumentsInv, [Next]_vars, NEW k, NEW b \in Docs, Sound(k, b)
    PROVE  Sound(k, b)'
  BY Monotone DEF Sound, Granted

\* The program points match the endpoints.
LEMMA PointsNext == DocumentsInv /\ [Next]_vars => PointsMatchJobs'
  <1> SUFFICES ASSUME DocumentsInv, [Next]_vars
               PROVE  PointsMatchJobs'
    OBVIOUS
  <1>0. TypeOK /\ PointsMatchJobs /\ TypeOK'
    BY TypeNext DEF DocumentsInv
  <1> DEFINE P(r) ==
        /\ pc[r] # "idle" => job[r] \in Jobs
        /\ pc[r] \in {"readpr", "check", "insert"} => job[r].op \in Creates
        /\ pc[r] = "readpr" => job[r].op = "fromPR"
        /\ pc[r] \in {"vendors", "emit", "announce"} => target[r] \in Docs
        /\ pc[r] \in {"read", "write"} =>
             job[r].op \notin Creates /\ target[r] = job[r].doc
        /\ pc[r] \in {"write", "vendors"} => Exists(target[r])
  <1>a. \A r \in Slots : P(r)
    BY <1>0 DEF PointsMatchJobs
  <1>b. ASSUME NEW r \in Slots, pc'[r] = pc[r], job'[r] = job[r], target'[r] = target[r]
        PROVE  P(r)'
    BY <1>0, <1>a, <1>b, Monotone, JobFacts
  <1>c. ASSUME NEW s \in Slots, Step(s) \/ \E j \in Jobs : Begin(s, j)
        PROVE  P(s)'
    <2> USE DEF request, GoTo, End, Onward
    <2>1. ASSUME NEW j \in Jobs, Begin(s, j)
          PROVE  P(s)'
      BY <1>0, <2>1, JobFacts DEF Begin, TypeOK, Creates
    <2>2. CASE ReadPR(s) \/ CheckBase(s)
      BY <1>0, <1>a, <2>2 DEF ReadPR, CheckBase, TypeOK
    <2>3. CASE InsertDoc(s)
      <3>1. ASSUME NEW d \in Docs, SetStatus(d, FirstStatus(Kind[d])), ~Exists(d),
                   pc' = [pc EXCEPT ![s] = IF job[s].vendors THEN "vendors" ELSE "emit"],
                   target' = [target EXCEPT ![s] = d], UNCHANGED job
            PROVE  P(s)'
        <4>1. FirstStatus(Kind[d]) \in Statuses
          BY BirthFacts, DocumentsAssumption
        <4>2. job[s] \in Jobs
          BY <1>a, <2>3 DEF InsertDoc
        <4> QED
          BY <1>0, <3>1, <4>1, <4>2, StatusFacts DEF SetStatus, Exists, TypeOK
      <3>2. CASE End(s)
        BY <1>0, <3>2 DEF TypeOK
      <3> QED
        BY <2>3, <3>1, <3>2 DEF InsertDoc
    <2>4. CASE AddVendors(s) \/ Read(s) \/ Emit(s) \/ Announce(s)
      BY <1>0, <1>a, <2>4, TargetFacts
         DEF AddVendors, Read, Emit, Announce, Live, Exists, TypeOK, tables
    <2>5. CASE WriteStatus(s) \/ WriteFields(s) \/ WriteDeletion(s)
      <3>1. target[s] \in Docs /\ job[s] \in Jobs /\ pc[s] = "write"
        BY <1>0, <2>5, TargetFacts DEF WriteStatus, WriteFields, WriteDeletion
      <3>2. \/ pc' = [pc EXCEPT ![s] = "emit"] /\ UNCHANGED <<job, target>>
            \/ End(s)
        BY <2>5 DEF WriteStatus, WriteFields, WriteDeletion
      <3> QED
        BY <1>0, <3>1, <3>2 DEF TypeOK
    <2> QED
      BY <1>c, <2>1, <2>2, <2>3, <2>4, <2>5 DEF Step
  <1>d. CASE \E s \in Slots : Step(s) \/ \E j \in Jobs : Begin(s, j)
    <2>1. PICK s \in Slots : Step(s) \/ \E j \in Jobs : Begin(s, j)
      BY <1>d
    <2>2. ASSUME NEW r \in Slots
          PROVE  P(r)'
      <3>1. CASE r = s
        BY <3>1, <2>1, <1>c
      <3>2. CASE r # s
        BY <1>0, <2>1, <3>2, <1>b, OthersStay
      <3> QED
        BY <3>1, <3>2
    <2> QED
      BY <2>2 DEF PointsMatchJobs
  <1>e. CASE UNCHANGED <<pc, request>>
    <2>1. \A r \in Slots : P(r)'
      BY <1>b, <1>e DEF request
    <2> QED
      BY <2>1 DEF PointsMatchJobs
  <1> QED
    BY <1>d, <1>e DEF Next, vars, MoveOrder, DeleteOrder

\* The history of a row holds its status.
LEMMA HistoryNext == DocumentsInv /\ [Next]_vars => HistoryKept'
  <1> SUFFICES ASSUME DocumentsInv, [Next]_vars
               PROVE  HistoryKept'
    OBVIOUS
  <1> USE DEF tables, history
  <1>0. TypeOK /\ PointsMatchJobs /\ HistoryKept
    BY DEF DocumentsInv
  <1>1. CASE UNCHANGED <<tables, history>>
    BY <1>0, <1>1 DEF HistoryKept, Exists
  <1>2. ASSUME NEW s \in Slots, InsertDoc(s)
        PROVE  HistoryKept'
    <2>1. ASSUME NEW d \in Docs, ~Exists(d), SetStatus(d, FirstStatus(Kind[d])),
                 UNCHANGED gone
          PROVE  HistoryKept'
      <3>1. FirstStatus(Kind[d]) \in Statuses
        BY BirthFacts, DocumentsAssumption
      <3> QED
        BY <1>0, <2>1, <3>1, StatusFacts DEF SetStatus, HistoryKept, Exists, TypeOK
    <2>2. CASE UNCHANGED <<status, visited, gone>>
      BY <1>0, <2>2 DEF HistoryKept, Exists
    <2> QED
      BY <1>2, <2>1, <2>2 DEF InsertDoc
  <1>3. ASSUME NEW s \in Slots, WriteStatus(s)
        PROVE  HistoryKept'
    <2>1. target[s] \in Docs /\ Exists(target[s])
      BY <1>0, <1>3, TargetFacts DEF WriteStatus
    <2> QED
      BY <1>0, <1>3, <2>1, StatusFacts
         DEF WriteStatus, SetStatus, HistoryKept, Exists, TypeOK
  <1>4. ASSUME NEW s \in Slots, WriteFields(s) \/ WriteDeletion(s)
        PROVE  HistoryKept'
    <2>1. Exists(target[s])
      BY <1>0, <1>4, TargetFacts DEF WriteFields, WriteDeletion
    <2> QED
      BY <1>0, <1>4, <2>1 DEF WriteFields, WriteDeletion, HistoryKept, Exists
  <1>5. ASSUME NEW d \in Docs, MoveOrder(d) \/ DeleteOrder(d)
        PROVE  HistoryKept'
    <2>1. POStatuses \subseteq Statuses
      BY DEF Statuses
    <2> QED
      BY <1>0, <1>5, <2>1, StatusFacts
         DEF MoveOrder, DeleteOrder, SetStatus, HistoryKept, Exists, TypeOK
  <1> QED
    BY <1>1, <1>2, <1>3, <1>4, <1>5, RowSteps

-----------------------------------------------------------------------------
\* A request comes to its write only by reading a live document.
LEMMA WriteArrivals ==
    ASSUME TypeOK, [Next]_vars, NEW r \in Slots, pc'[r] = "write"
    PROVE  /\ job'[r] = job[r] /\ target'[r] = target[r]
           /\ \/ pc[r] = "write"
              \/ pc[r] = "read" /\ Live(target[r]) /\ Method(job[r]).may
                 /\ UNCHANGED <<tables, history>>
  <1> USE DEF request, GoTo, End, Onward, TypeOK
  <1>1. ASSUME NEW j \in Jobs, Begin(r, j)
        PROVE  FALSE
    BY <1>1 DEF Begin
  <1>2. CASE ReadPR(r) \/ CheckBase(r) \/ AddVendors(r) \/ Emit(r) \/ Announce(r)
    <2>1. pc'[r] # "write"
      BY <1>2 DEF ReadPR, CheckBase, AddVendors, Emit, Announce
    <2> QED
      BY <2>1
  <1>3. CASE InsertDoc(r)
    <2>1. pc'[r] # "write"
      BY <1>3 DEF InsertDoc
    <2> QED
      BY <2>1
  <1>4. CASE WriteStatus(r) \/ WriteFields(r) \/ WriteDeletion(r)
    <2>1. pc' = [pc EXCEPT ![r] = "emit"] \/ pc' = [pc EXCEPT ![r] = "idle"]
      BY <1>4 DEF WriteStatus, WriteFields, WriteDeletion
    <2> QED
      BY <2>1
  <1>5. CASE Read(r)
    BY <1>5 DEF Read
  <1>6. ASSUME NEW s \in Slots, s # r, Step(s) \/ \E j \in Jobs : Begin(s, j)
        PROVE  pc'[r] = pc[r] /\ job'[r] = job[r] /\ target'[r] = target[r]
    BY <1>6, OthersStay
  <1>7. CASE UNCHANGED <<pc, request>>
    BY <1>7
  <1>8. ASSUME NEW s \in Slots, s = r, Step(s) \/ \E j \in Jobs : Begin(s, j)
        PROVE  /\ job'[r] = job[r] /\ target'[r] = target[r]
               /\ \/ pc[r] = "write"
                  \/ pc[r] = "read" /\ Live(target[r]) /\ Method(job[r]).may
                     /\ UNCHANGED <<tables, history>>
    BY <1>1, <1>2, <1>3, <1>4, <1>5, <1>8 DEF Step, Read
  <1> QED
    BY <1>6, <1>7, <1>8 DEF Next, vars, MoveOrder, DeleteOrder

\* The contract about to be moved had a status it may come from.
LEMMA MovesNext == DocumentsInv /\ [Next]_vars => MovesSound'
  <1> SUFFICES ASSUME DocumentsInv, [Next]_vars, NEW r \in Slots, pc'[r] = "write",
                      job'[r].kind = "contract", job'[r].op = "update",
                      job'[r].to # Keep
               PROVE  \E from \in visited'[target'[r]] :
                          ContractTransition(from, job'[r].to)
    BY DEF MovesSound
  <1>0. TypeOK /\ PointsMatchJobs /\ HistoryKept /\ MovesSound
    BY DEF DocumentsInv
  <1>1. job'[r] = job[r] /\ target'[r] = target[r]
    BY <1>0, WriteArrivals
  <1>2. CASE pc[r] = "write"
    <2>1. \E from \in visited[target[r]] : ContractTransition(from, job[r].to)
      BY <1>0, <1>1, <1>2 DEF MovesSound
    <2>2. target[r] \in Docs
      BY <1>0, <1>2, TargetFacts
    <2> QED
      BY <1>1, <2>1, <2>2, Monotone
  <1>3. CASE pc[r] = "read" /\ Method(job[r]).may
    <2>1. job[r] \in Jobs /\ target[r] = job[r].doc /\ target[r] \in Docs
          /\ Kind[target[r]] = "contract"
      BY <1>0, <1>1, <1>3, TargetFacts
    <2>2. ContractTransition(status[target[r]], job[r].to)
      BY <1>1, <1>3, <2>1, ContractGuard
    <2>3. status[target[r]] \in visited[target[r]]
      BY <1>0, <2>1, <2>2
         DEF HistoryKept, ContractTransition, Remembered, ContractStatuses
    <2> QED
      BY <1>1, <2>1, <2>2, <2>3, Monotone
  <1> QED
    BY <1>0, <1>2, <1>3, WriteArrivals

\* A document that passes the check of a create was granted what it must be.
LEMMA AdmissibleSound ==
    ASSUME HistoryKept, NEW k \in Kinds, NEW b \in Docs, Admissible(k, b)
    PROVE  Sound(k, b)
  <1>1. Exists(b)
    BY DEF Admissible, Live
  <1>2. ASSUME k = "pr", Kind[b] = "contract"
        PROVE  Granted(b)
    <2>1. status[b] = "IN_PROGRESS"
      BY <1>2 DEF Admissible, PRCreate
    <2> QED
      BY <1>2, <2>1 DEF HistoryKept, Remembered, ContractStatuses, Granted, GrantedBy
  <1>3. ASSUME k = "order", Kind[b] = "pr"
        PROVE  Granted(b)
    <2>1. status[b] = "APPROVED"
      BY <1>3 DEF Admissible, OrderCreate
    <2> QED
      BY <1>3, <2>1 DEF HistoryKept, Remembered, Granted, GrantedBy
  <1>4. ASSUME k = "invoice", Kind[b] = "order"
        PROVE  Granted(b)
    <2>1. status[b] \in {"APPROVED", "COMPLETED"}
      BY <1>4 DEF Admissible, InvoiceCreate
    <2> QED
      BY <1>4, <2>1 DEF HistoryKept, Remembered, POStatuses, Granted, GrantedBy
  <1> QED
    BY <1>1, <1>2, <1>3, <1>4 DEF Sound

\* Every document that a create has checked, or a row names, was granted.
LEMMA BasesNext == DocumentsInv /\ [Next]_vars => BasesSound'
  <1> SUFFICES ASSUME DocumentsInv, [Next]_vars
               PROVE  BasesSound'
    OBVIOUS
  <1>0. TypeOK /\ PointsMatchJobs /\ HistoryKept /\ BasesSound
    BY DEF DocumentsInv
  <1> DEFINE Q(r) == pc[r] \in {"check", "insert"} =>
                        /\ \A b \in on[r] \ left[r] : Sound(job[r].kind, b)
                        /\ pc[r] = "insert" => left[r] = {}
  <1>a. \A r \in Slots : Q(r)
    BY <1>0 DEF BasesSound
  <1>b. ASSUME NEW r \in Slots, pc'[r] = pc[r], job'[r] = job[r], on'[r] = on[r],
               left'[r] = left[r]
        PROVE  Q(r)'
    <2>1. on[r] \subseteq Docs
      BY <1>0 DEF TypeOK
    <2> QED
      BY <1>a, <1>b, <2>1, SoundStays
  <1>c. ASSUME NEW s \in Slots, Step(s) \/ \E j \in Jobs : Begin(s, j)
        PROVE  Q(s)'
    <2> USE DEF request, GoTo, End, Onward, TypeOK
    <2>1. ASSUME NEW j \in Jobs, Begin(s, j)
          PROVE  Q(s)'
      BY <1>0, <2>1 DEF Begin, Creates
    <2>2. CASE ReadPR(s)
      BY <1>0, <2>2 DEF ReadPR
    <2>3. CASE CheckBase(s)
      <3>1. ASSUME NEW b \in left[s], Admissible(job[s].kind, b),
                   left' = [left EXCEPT ![s] = left[s] \ {b}],
                   pc' = [pc EXCEPT ![s] = IF left[s] = {b} THEN "insert" ELSE "check"],
                   UNCHANGED <<job, target, on>>
            PROVE  Q(s)'
        <4>1. b \in Docs /\ on[s] \subseteq Docs /\ left[s] \subseteq Docs
          BY <1>0
        <4>2. job[s].kind \in Kinds /\ pc[s] = "check"
          BY <1>0, <2>3, JobFacts DEF CheckBase, PointsMatchJobs
        <4>3. Sound(job[s].kind, b)
          BY <1>0, <3>1, <4>1, <4>2, AdmissibleSound
        <4>4. \A c \in on[s] \ left[s] : Sound(job[s].kind, c)
          BY <1>a, <4>2
        <4>5. \A c \in on[s] \ (left[s] \ {b}) : Sound(job[s].kind, c)'
          BY <3>1, <4>1, <4>3, <4>4, SoundStays
        <4>6. left'[s] = left[s] \ {b} /\ on'[s] = on[s] /\ job'[s] = job[s]
              /\ pc'[s] = IF left[s] = {b} THEN "insert" ELSE "check"
          BY <1>0, <3>1
        <4> QED
          BY <4>5, <4>6
      <3>2. CASE End(s)
        BY <1>0, <3>2
      <3> QED
        BY <2>3, <3>1, <3>2 DEF CheckBase
    <2>4. CASE InsertDoc(s)
      <3>1. pc'[s] \notin {"check", "insert"}
        BY <1>0, <2>4 DEF InsertDoc
      <3> QED
        BY <3>1
    <2>5. CASE AddVendors(s) \/ Read(s) \/ Emit(s) \/ Announce(s)
      BY <1>0, <2>5 DEF AddVendors, Read, Emit, Announce
    <2>6. CASE WriteStatus(s) \/ WriteFields(s) \/ WriteDeletion(s)
      <3>1. pc' = [pc EXCEPT ![s] = "emit"] \/ pc' = [pc EXCEPT ![s] = "idle"]
        BY <2>6 DEF WriteStatus, WriteFields, WriteDeletion
      <3> QED
        BY <1>0, <3>1
    <2> QED
      BY <1>c, <2>1, <2>2, <2>3, <2>4, <2>5, <2>6 DEF Step
  <1>1. \A r \in Slots : Q(r)'
    <2>1. CASE \E s \in Slots : Step(s) \/ \E j \in Jobs : Begin(s, j)
      <3>1. PICK s \in Slots : Step(s) \/ \E j \in Jobs : Begin(s, j)
        BY <2>1
      <3>2. ASSUME NEW r \in Slots, r # s
            PROVE  Q(r)'
        <4>1. /\ pc'[r] = pc[r] /\ job'[r] = job[r] /\ on'[r] = on[r]
              /\ left'[r] = left[r]
          BY <1>0, <3>1, <3>2, OthersStay
        <4> QED
          BY <4>1, <1>b
      <3>3. Q(s)'
        BY <3>1, <1>c
      <3> QED
        BY <3>2, <3>3
    <2>2. CASE UNCHANGED <<pc, request>>
      BY <1>b, <2>2 DEF request
    <2> QED
      BY <2>1, <2>2 DEF Next, vars, MoveOrder, DeleteOrder
  <1>2. ASSUME NEW d \in Docs, NEW b \in rests'[d]
        PROVE  Sound(Kind[d], b)'
    <2>1. CASE rests'[d] = rests[d]
      <3>1. b \in Docs /\ Sound(Kind[d], b)
        BY <1>0, <1>2, <2>1 DEF BasesSound, TypeOK
      <3> QED
        BY <3>1, SoundStays
    <2>2. ASSUME NEW s \in Slots, InsertDoc(s), rests'[d] # rests[d]
          PROVE  Sound(Kind[d], b)'
      <3>1. Kind[d] = job[s].kind /\ rests'[d] = on[s]
        BY <1>0, <2>2 DEF InsertDoc, TypeOK
      <3>2. pc[s] = "insert" /\ left[s] = {}
        BY <1>a, <2>2 DEF InsertDoc
      <3>3. b \in Docs /\ Sound(Kind[d], b)
        BY <1>0, <1>2, <1>a, <3>1, <3>2 DEF TypeOK
      <3> QED
        BY <3>3, SoundStays
    <2>3. \/ UNCHANGED rests
          \/ \E s \in Slots : InsertDoc(s)
      BY RowSteps
         DEF tables, WriteStatus, WriteFields, WriteDeletion, MoveOrder, DeleteOrder
    <2> QED
      BY <2>1, <2>2, <2>3
  <1> QED
    BY <1>1, <1>2 DEF BasesSound

\* No contract has a status it could not have come to.
LEMMA PathNext == DocumentsInv /\ [Next]_vars => ContractPath'
  <1> SUFFICES ASSUME DocumentsInv, [Next]_vars, NEW d \in Docs,
                      Kind[d] = "contract", NEW st \in visited'[d], st # "DRAFT"
               PROVE  \E from \in visited'[d] : ContractTransition(from, st)
    BY DEF ContractPath
  <1>0. TypeOK /\ PointsMatchJobs /\ MovesSound /\ ContractPath
    BY DEF DocumentsInv
  <1>1. CASE st \in visited[d]
    <2>1. \E from \in visited[d] : ContractTransition(from, st)
      BY <1>0, <1>1 DEF ContractPath
    <2> QED
      BY <2>1, Monotone
  <1>2. ASSUME NEW s \in Slots, InsertDoc(s), st \notin visited[d]
        PROVE  FALSE
    <2>1. FirstStatus(Kind[d]) = "DRAFT"
      BY DEF FirstStatus
    <2> QED
      BY <1>0, <1>2, <2>1 DEF InsertDoc, SetStatus, TypeOK
  <1>3. ASSUME NEW s \in Slots, WriteStatus(s), st \notin visited[d]
        PROVE  \E from \in visited'[d] : ContractTransition(from, st)
    <2>1. /\ pc[s] = "write" /\ Method(job[s]).to \in Statuses
          /\ target[s] = d /\ st = Method(job[s]).to
      BY <1>0, <1>3 DEF WriteStatus, SetStatus, TypeOK
    <2>2. job[s] \in Jobs /\ job[s].op \notin Creates /\ job[s].kind = "contract"
      BY <1>0, <2>1, TargetFacts
    <2>3. job[s].op = "update" /\ st = job[s].to /\ job[s].to # Keep
      BY <2>1, <2>2, ContractMethods
    <2>4. \E from \in visited[d] : ContractTransition(from, st)
      BY <1>0, <2>1, <2>2, <2>3 DEF MovesSound
    <2> QED
      BY <2>4, Monotone
  <1>4. ASSUME NEW x \in Docs, MoveOrder(x) \/ DeleteOrder(x)
        PROVE  visited'[d] = visited[d]
    BY <1>0, <1>4 DEF MoveOrder, DeleteOrder, SetStatus, TypeOK, history
  <1>5. ASSUME NEW s \in Slots, WriteFields(s) \/ WriteDeletion(s)
        PROVE  visited'[d] = visited[d]
    BY <1>5 DEF WriteFields, WriteDeletion
  <1> QED
    BY <1>1, <1>2, <1>3, <1>4, <1>5, RowSteps DEF history

-----------------------------------------------------------------------------
\* Counting the requests at their write.
LEMMA SlotCounts ==
    ASSUME NEW S \in SUBSET Slots
    PROVE  /\ IsFiniteSet(S) /\ Cardinality(S) \in Nat /\ Cardinality(Slots) \in Nat
           /\ Cardinality(S) <= Cardinality(Slots)
           /\ \A R \in SUBSET S : Cardinality(R) <= Cardinality(S)
           /\ \A s \in S : Cardinality(S \ {s}) = Cardinality(S) - 1
  <1>1. IsFiniteSet(Slots) /\ IsFiniteSet(S)
    BY DocumentsAssumption, FS_Subset
  <1>2. \A R \in SUBSET S : IsFiniteSet(R) /\ Cardinality(R) <= Cardinality(S)
    BY <1>1, FS_Subset
  <1>3. \A s \in S : Cardinality(S \ {s}) = Cardinality(S) - 1
    BY <1>1, FS_RemoveElement
  <1> QED
    BY <1>1, <1>2, <1>3, FS_Subset, FS_CardinalityType

\* Fewer requests.
LEMMA FewerSlots ==
    ASSUME NEW S \in SUBSET Slots, NEW R \in SUBSET Slots, NEW s \in S,
           R \subseteq S \ {s}
    PROVE  Cardinality(R) + 1 <= Cardinality(S)
  <1>1. Cardinality(S \ {s}) = Cardinality(S) - 1 /\ Cardinality(S) \in Nat
    BY SlotCounts
  <1>2. Cardinality(R) <= Cardinality(S \ {s}) /\ Cardinality(R) \in Nat
    BY SlotCounts
  <1> QED
    BY <1>1, <1>2

\* An approved payment was not processed since.
LEMMA ApprovedNext == DocumentsInv /\ [Next]_vars => ApprovedUnsettled'
  <1> SUFFICES ASSUME DocumentsInv, [Next]_vars, NEW d \in Docs, Kind[d] = "payment"
               PROVE  /\ status'[d] = "APPROVED" => settled'[d] = 0
                      /\ \A s \in Processing(d)' : "APPROVED" \in visited'[d]
    BY DEF ApprovedUnsettled
  <1>0. TypeOK /\ PointsMatchJobs /\ HistoryKept /\ ApprovedUnsettled
    BY DEF DocumentsInv
  <1>1. status[d] = "APPROVED" => settled[d] = 0
    BY <1>0 DEF ApprovedUnsettled
  <1>2. ASSUME status'[d] = "APPROVED"
        PROVE  settled'[d] = 0
    <2>1. ASSUME NEW s \in Slots, InsertDoc(s)
          PROVE  settled'[d] = 0
      <3>1. FirstStatus(Kind[d]) # "APPROVED"
        BY BirthFacts, DocumentsAssumption
      <3>2. status[d] = "APPROVED"
        BY <1>0, <1>2, <2>1, <3>1 DEF InsertDoc, SetStatus, TypeOK
      <3> QED
        BY <1>1, <2>1, <3>2 DEF InsertDoc
    <2>2. ASSUME NEW s \in Slots, WriteStatus(s)
          PROVE  settled'[d] = 0
      <3>1. CASE target[s] = d
        BY <1>0, <1>2, <2>2, <3>1 DEF WriteStatus, SetStatus, TypeOK
      <3>2. CASE target[s] # d
        BY <1>0, <1>1, <1>2, <2>2, <3>2 DEF WriteStatus, SetStatus, TypeOK
      <3> QED
        BY <3>1, <3>2
    <2>3. ASSUME NEW s \in Slots, WriteFields(s) \/ WriteDeletion(s)
          PROVE  settled'[d] = 0
      BY <1>1, <1>2, <2>3 DEF WriteFields, WriteDeletion, tables
    <2>4. ASSUME NEW x \in Docs, MoveOrder(x) \/ DeleteOrder(x)
          PROVE  settled'[d] = 0
      BY <1>0, <1>1, <1>2, <2>4
         DEF MoveOrder, DeleteOrder, SetStatus, history, TypeOK
    <2> QED
      BY <1>1, <1>2, <2>1, <2>2, <2>3, <2>4, RowSteps DEF tables, history
  <1>3. ASSUME NEW s \in Slots, pc'[s] = "write", target'[s] = d,
               job'[s].op = "process"
        PROVE  "APPROVED" \in visited'[d]
    <2>1. job'[s] = job[s] /\ target[s] = d
      BY <1>0, <1>3, WriteArrivals
    <2>2. CASE pc[s] = "write"
      <3>1. "APPROVED" \in visited[d]
        BY <1>0, <1>3, <2>1, <2>2 DEF ApprovedUnsettled, Processing
      <3> QED
        BY <3>1, Monotone
    <2>3. CASE pc[s] = "read" /\ Method(job[s]).may
      <3>1. job[s] \in Jobs /\ job[s].doc = d
        BY <1>0, <2>1, <2>3, TargetFacts
      <3>2. status[d] = "APPROVED"
        BY <1>3, <2>1, <2>3, <3>1, ProcessMethod
      <3>3. "APPROVED" \in visited[d]
        BY <1>0, <3>2 DEF HistoryKept, Remembered
      <3> QED
        BY <3>3, Monotone
    <2> QED
      BY <1>0, <1>3, <2>2, <2>3, WriteArrivals
  <1> QED
    BY <1>2, <1>3 DEF Processing

\* A payment is processed at most once for each slot between two approvals.
LEMMA SettlementsNext == DocumentsInv /\ [Next]_vars => SettlementsBounded'
  <1> SUFFICES ASSUME DocumentsInv, [Next]_vars, NEW d \in Docs, Kind[d] = "payment"
               PROVE  /\ settled'[d] + Cardinality(Processing(d)') <= Cardinality(Slots)
                      /\ settled'[d] > 0 => "APPROVED" \in visited'[d]
    BY DEF SettlementsBounded
  <1>0. TypeOK /\ PointsMatchJobs /\ ApprovedUnsettled /\ SettlementsBounded /\ TypeOK'
    BY TypeNext DEF DocumentsInv
  <1> DEFINE P == Processing(d)
             N == Cardinality(Slots)
  <1>1. P \subseteq Slots /\ P' \subseteq Slots
    BY DEF Processing
  <1>2. /\ N \in Nat /\ Cardinality(P) \in Nat /\ Cardinality(P') \in Nat
        /\ Cardinality(P') <= N
        /\ P' \subseteq P => Cardinality(P') <= Cardinality(P)
        /\ \A s \in P : P' \subseteq P \ {s} => Cardinality(P') + 1 <= Cardinality(P)
    <2>2. /\ N \in Nat /\ Cardinality(P) \in Nat /\ Cardinality(P') \in Nat
          /\ Cardinality(P') <= N
          /\ P' \subseteq P => Cardinality(P') <= Cardinality(P)
      BY <1>1, SlotCounts
    <2>3. ASSUME NEW s \in P, P' \subseteq P \ {s}
          PROVE  Cardinality(P') + 1 <= Cardinality(P)
      BY <1>1, <2>3, FewerSlots
    <2> QED
      BY <2>2, <2>3
  <1>3. /\ settled[d] \in Nat /\ settled'[d] \in Nat
        /\ settled[d] + Cardinality(P) <= N
        /\ settled[d] > 0 => "APPROVED" \in visited[d]
    BY <1>0 DEF SettlementsBounded, TypeOK
  \* A request that comes to the write of process finds the count at zero.
  <1>4. ASSUME NEW s \in P', s \notin P
        PROVE  settled'[d] = 0
    <2>1. pc'[s] = "write" /\ target'[s] = d /\ job'[s].op = "process" /\ s \in Slots
      BY <1>4 DEF Processing
    <2>2. job'[s] = job[s] /\ target[s] = d
      BY <1>0, <2>1, WriteArrivals
    <2>3. pc[s] = "read" /\ Method(job[s]).may /\ UNCHANGED <<tables, history>>
      BY <1>0, <1>4, <2>1, <2>2, WriteArrivals DEF Processing
    <2>4. job[s] \in Jobs /\ job[s].doc = d
      BY <1>0, <2>1, <2>2, <2>3, TargetFacts
    <2>5. status[d] = "APPROVED"
      BY <2>1, <2>2, <2>3, <2>4, ProcessMethod
    <2> QED
      BY <1>0, <2>3, <2>5 DEF ApprovedUnsettled, history
  <1>5. CASE settled'[d] = 0
    BY <1>2, <1>5
  <1>6. CASE settled'[d] = settled[d] /\ settled'[d] # 0
    <2>1. P' \subseteq P
      BY <1>4, <1>6
    <2> QED
      BY <1>2, <1>3, <1>6, <2>1, Monotone
  <1>7. ASSUME NEW s \in Slots, WriteStatus(s), settled'[d] # settled[d],
               settled'[d] # 0
        PROVE  s \in P /\ settled'[d] = settled[d] + 1 /\ s \notin P'
    <2>1. /\ pc[s] = "write" /\ target[s] = d /\ job[s].op = "process"
          /\ settled'[d] = settled[d] + 1
      BY <1>0, <1>7 DEF WriteStatus, TypeOK
    <2>2. pc'[s] # "write"
      BY <1>0, <1>7 DEF WriteStatus, Onward, End, GoTo, TypeOK
    <2> QED
      BY <2>1, <2>2 DEF Processing
  <1>8. ASSUME NEW s \in Slots, WriteStatus(s), settled'[d] # settled[d],
               settled'[d] # 0
        PROVE  /\ settled'[d] + Cardinality(P') <= N
               /\ "APPROVED" \in visited'[d]
    <2>1. s \in P /\ settled'[d] = settled[d] + 1 /\ s \notin P'
      BY <1>7, <1>8
    <2>2. P' \subseteq P \ {s}
      BY <1>4, <1>8, <2>1
    <2>3. "APPROVED" \in visited[d]
      BY <1>0, <2>1 DEF ApprovedUnsettled
    <2> QED
      BY <1>2, <1>3, <2>1, <2>2, <2>3, Monotone
  <1>9. settled'[d] # settled[d] => \E s \in Slots : WriteStatus(s)
    BY RowSteps
       DEF history, InsertDoc, WriteFields, WriteDeletion, MoveOrder, DeleteOrder
  <1> QED
    BY <1>5, <1>6, <1>8, <1>9

\* A deleted document is written only by the requests that had read it.
LEMMA DeletedNext == DocumentsInv /\ [Next]_vars => DeletedSettles'
  <1> SUFFICES ASSUME DocumentsInv, [Next]_vars, NEW d \in Docs, Kind[d] # "order"
               PROVE  /\ d \notin gone' => afterlife'[d] = 0
                      /\ d \in gone' =>
                           afterlife'[d] + Cardinality(Writing(d)') < Cardinality(Slots)
    BY DEF DeletedSettles
  <1>0. TypeOK /\ PointsMatchJobs /\ DeletedSettles /\ TypeOK'
    BY TypeNext DEF DocumentsInv
  <1> DEFINE W == Writing(d)
             N == Cardinality(Slots)
             Writes(s) == WriteStatus(s) \/ WriteFields(s) \/ WriteDeletion(s)
  <1>1. W \subseteq Slots /\ W' \subseteq Slots
    BY DEF Writing
  <1>2. /\ N \in Nat /\ Cardinality(W) \in Nat /\ Cardinality(W') \in Nat
        /\ W' \subseteq W => Cardinality(W') <= Cardinality(W)
        /\ \A s \in W : W' \subseteq W \ {s} => Cardinality(W') + 1 <= Cardinality(W)
        /\ \A s \in Slots : s \notin W' => Cardinality(W') < N
    <2>3. /\ N \in Nat /\ Cardinality(W) \in Nat /\ Cardinality(W') \in Nat
          /\ W' \subseteq W => Cardinality(W') <= Cardinality(W)
      BY <1>1, SlotCounts
    <2>4. ASSUME NEW s \in W, W' \subseteq W \ {s}
          PROVE  Cardinality(W') + 1 <= Cardinality(W)
      BY <1>1, <2>4, FewerSlots
    <2>5. ASSUME NEW s \in Slots, s \notin W'
          PROVE  Cardinality(W') < N
      <3>1. Slots \in SUBSET Slots /\ W' \subseteq Slots \ {s}
        BY <1>1, <2>5
      <3>2. Cardinality(W') + 1 <= N
        BY <1>1, <3>1, FewerSlots
      <3> QED
        BY <2>3, <3>2
    <2> QED
      BY <2>3, <2>4, <2>5
  <1>3. /\ afterlife[d] \in Nat /\ afterlife'[d] \in Nat
        /\ d \notin gone => afterlife[d] = 0
        /\ d \in gone => afterlife[d] + Cardinality(W) < N
    BY <1>0 DEF DeletedSettles, TypeOK
  <1>4. d \in gone => W' \subseteq W
    <2>1. ASSUME NEW s \in W', s \notin W
          PROVE  d \notin gone
      <3>1. pc'[s] = "write" /\ target'[s] = d /\ s \in Slots
        BY <2>1 DEF Writing
      <3>2. target[s] = d /\ Live(target[s])
        BY <1>0, <2>1, <3>1, WriteArrivals DEF Writing
      <3> QED
        BY <3>2 DEF Live
    <2> QED
      BY <2>1
  <1>5. ASSUME NEW s \in Slots, Writes(s)
        PROVE  /\ pc[s] = "write" /\ s \notin W'
               /\ afterlife' = IF target[s] \in gone
                               THEN [afterlife EXCEPT ![target[s]] = @ + 1]
                               ELSE afterlife
    <2>1. pc[s] = "write"
      BY <1>5 DEF WriteStatus, WriteFields, WriteDeletion
    <2>2. pc'[s] # "write"
      <3>1. pc' = [pc EXCEPT ![s] = "emit"] \/ pc' = [pc EXCEPT ![s] = "idle"]
        BY <1>5 DEF WriteStatus, WriteFields, WriteDeletion, Onward, End, GoTo
      <3> QED
        BY <1>0, <3>1 DEF TypeOK
    <2> QED
      BY <1>5, <2>1, <2>2
         DEF WriteStatus, WriteFields, WriteDeletion, CountAfterlife, Writing
  <1>6. \/ afterlife'[d] = afterlife[d]
        \/ \E s \in Slots : Writes(s)
    BY RowSteps DEF history, InsertDoc, MoveOrder, DeleteOrder
  <1>7. ASSUME d \in gone
        PROVE  d \in gone' /\ afterlife'[d] + Cardinality(W') < N
    <2>1. d \in gone'
      BY <1>7, Monotone
    <2>2. CASE afterlife'[d] = afterlife[d]
      BY <1>2, <1>3, <1>4, <1>7, <2>1, <2>2
    <2>3. ASSUME NEW s \in Slots, Writes(s), afterlife'[d] # afterlife[d]
          PROVE  afterlife'[d] + Cardinality(W') < N
      <3>1. target[s] = d /\ afterlife'[d] = afterlife[d] + 1
        <4>1. afterlife' = IF target[s] \in gone
                           THEN [afterlife EXCEPT ![target[s]] = @ + 1]
                           ELSE afterlife
          BY <1>5, <2>3
        <4>2. CASE target[s] = d
          BY <1>0, <1>7, <4>1, <4>2 DEF TypeOK
        <4>3. CASE target[s] # d
          BY <1>0, <2>3, <4>1, <4>3 DEF TypeOK
        <4> QED
          BY <4>2, <4>3
      <3>2. s \in W
        BY <1>5, <2>3, <3>1 DEF Writing
      <3>3. W' \subseteq W \ {s}
        BY <1>4, <1>5, <1>7, <2>3
      <3> QED
        BY <1>2, <1>3, <1>7, <3>1, <3>2, <3>3
    <2> QED
      BY <1>6, <2>1, <2>2, <2>3
  <1>8. ASSUME d \notin gone
        PROVE  /\ afterlife'[d] = 0
               /\ d \in gone' => Cardinality(W') < N
    <2>1. afterlife'[d] = 0
      <3>1. ASSUME NEW s \in Slots, Writes(s)
            PROVE  afterlife'[d] = afterlife[d]
        BY <1>0, <1>5, <1>8, <3>1 DEF TypeOK
      <3> QED
        BY <1>3, <1>6, <1>8, <3>1
    <2>2. ASSUME d \in gone'
          PROVE  \E s \in Slots : Writes(s)
      BY <1>8, <2>2, RowSteps DEF tables, InsertDoc, MoveOrder, DeleteOrder
    <2> QED
      BY <1>2, <1>5, <2>1, <2>2
  <1> QED
    BY <1>2, <1>7, <1>8

-----------------------------------------------------------------------------
\* The inductive invariant holds at the start.
LEMMA InvInit == Init => DocumentsInv
  <1> SUFFICES ASSUME Init
               PROVE  DocumentsInv
    OBVIOUS
  <1>1. TypeOK
    BY TypeInit
  <1>2. PointsMatchJobs /\ BasesSound /\ MovesSound
    BY DEF Init, PointsMatchJobs, BasesSound, MovesSound
  <1>3. HistoryKept /\ ContractPath
    BY StatusFacts DEF Init, HistoryKept, ContractPath, Exists, Remembered,
       Absent, ContractStatuses, POStatuses
  <1>4. \A d \in Docs : Writing(d) = {} /\ Processing(d) = {}
    BY DEF Init, Writing, Processing
  <1>5. Cardinality({}) = 0 /\ Cardinality(Slots) \in Nat
    BY FS_EmptySet, SlotCounts
  <1>6. \A d \in Docs : settled[d] = 0 /\ status[d] = Absent
    BY DEF Init
  <1>a. ApprovedUnsettled
    BY <1>4, <1>6 DEF ApprovedUnsettled, Absent
  <1>b. SettlementsBounded
    <2>1. ASSUME NEW d \in Docs
          PROVE  settled[d] + Cardinality(Processing(d)) <= Cardinality(Slots)
      <3>1. Processing(d) = {} /\ settled[d] = 0
        BY <1>4, <1>6
      <3>2. Cardinality(Processing(d)) = 0
        BY <1>5, <3>1
      <3> QED
        BY <1>5, <3>1, <3>2
    <2> QED
      BY <1>6, <2>1 DEF SettlementsBounded
  <1>7. DeletedSettles
    BY DEF Init, DeletedSettles
  <1> QED
    BY <1>1, <1>2, <1>3, <1>7, <1>a, <1>b DEF DocumentsInv

\* Every step preserves it.
LEMMA InvNext == DocumentsInv /\ [Next]_vars => DocumentsInv'
  BY TypeNext, PointsNext, HistoryNext, BasesNext, MovesNext, ApprovedNext,
     DeletedNext, SettlementsNext, PathNext
     DEF DocumentsInv

\* The inductive invariant of the documents.
THEOREM DocumentsInvariance == Spec => []DocumentsInv
  BY InvInit, InvNext, PTL DEF Spec

\* A deleted document is written less than once for each slot more.
THEOREM DeletedSettlesHolds == Spec => []DeletedSettles
  <1>1. DocumentsInv => DeletedSettles
    BY DEF DocumentsInv
  <1> QED
    BY <1>1, DocumentsInvariance, PTL

\* A payment is processed at most once for each slot between two approvals.
THEOREM SettlementsBoundedHolds == Spec => []SettlementsBounded
  <1>1. DocumentsInv => SettlementsBounded
    BY DEF DocumentsInv
  <1> QED
    BY <1>1, DocumentsInvariance, PTL

\* No contract has a status it could not have come to.
THEOREM ContractPathHolds == Spec => []ContractPath
  <1>1. DocumentsInv => ContractPath
    BY DEF DocumentsInv
  <1> QED
    BY <1>1, DocumentsInvariance, PTL

-----------------------------------------------------------------------------
\* The documents start as an empty chain.
LEMMA ChainInit == Init => Chain!Init
  <1> SUFFICES ASSUME Init
               PROVE  Chain!Init
    OBVIOUS
  <1>1. {d \in Docs : Exists(d)} = {}
    BY DEF Init, Exists
  <1>2. {d \in Docs : visited[d] \cap GrantedBy(Kind[d]) # {}} = {}
    BY DEF Init
  <1> QED
    BY <1>1, <1>2 DEF Init, Chain!Init

\* Every step raises one document on documents that were granted, grants one,
\* or leaves the chain as it is.
LEMMA ChainStep == DocumentsInv /\ [Next]_vars => [Chain!Next]_Chain!vars
  <1> SUFFICES ASSUME DocumentsInv, [Next]_vars
               PROVE  [Chain!Next]_Chain!vars
    OBVIOUS
  <1>0. TypeOK /\ PointsMatchJobs /\ HistoryKept /\ BasesSound
    BY DEF DocumentsInv
  <1> DEFINE Made == {d \in Docs : Exists(d)}
             Grants == {d \in Docs : visited[d] \cap GrantedBy(Kind[d]) # {}}
  <1>1. ASSUME UNCHANGED <<status, visited, rests>>
        PROVE  [Chain!Next]_Chain!vars
    BY <1>1 DEF Chain!vars, Exists
  <1>2. ASSUME NEW d \in Docs, Exists(d), UNCHANGED rests, NEW st \in Statuses,
               SetStatus(d, st)
        PROVE  [Chain!Next]_Chain!vars
    <2>1. Made' = Made
      BY <1>0, <1>2, StatusFacts DEF SetStatus, Exists, TypeOK
    <2>2. Grants' = Grants \/ Grants' = Grants \cup {d}
      BY <1>0, <1>2 DEF SetStatus, TypeOK
    <2>3. CASE Grants' = Grants
      BY <1>2, <2>1, <2>3 DEF Chain!vars
    <2>4. CASE Grants' = Grants \cup {d}
      <3>1. Chain!Grant(d)
        BY <1>2, <2>1, <2>4 DEF Chain!Grant
      <3> QED
        BY <3>1 DEF Chain!Next
    <2> QED
      BY <2>2, <2>3, <2>4
  <1>3. ASSUME NEW s \in Slots, InsertDoc(s)
        PROVE  [Chain!Next]_Chain!vars
    <2>1. CASE UNCHANGED <<status, visited, rests>>
      BY <1>1, <2>1
    <2>2. ASSUME NEW d \in Docs, ~Exists(d), Kind[d] = job[s].kind,
                 SetStatus(d, FirstStatus(Kind[d])),
                 rests' = [rests EXCEPT ![d] = on[s]]
          PROVE  [Chain!Next]_Chain!vars
      <3>1. PICK B \in SUBSET Docs : B = on[s]
        BY <1>0 DEF TypeOK
      <3>2. \A b \in B : Sound(Kind[d], b)
        BY <1>0, <1>3, <2>2, <3>1 DEF InsertDoc, BasesSound
      <3>3. FirstStatus(Kind[d]) \in Statuses
        BY BirthFacts, DocumentsAssumption
      <3>4. Made' = Made \cup {d} /\ d \notin Made
        BY <1>0, <2>2, <3>3, StatusFacts DEF SetStatus, Exists, TypeOK
      <3>5. Grants' = Grants
        <4>1. FirstStatus(Kind[d]) \notin GrantedBy(Kind[d])
          BY DocumentsAssumption DEF FirstStatus, GrantedBy, Kinds
        <4>2. visited[d] = {}
          BY <1>0, <2>2 DEF HistoryKept
        <4> QED
          BY <1>0, <2>2, <4>1, <4>2 DEF SetStatus, TypeOK
      <3>6. B \subseteq Made
        BY <3>2 DEF Sound
      <3>7. ASSUME NEW b \in B, Chain!Needs(d, b)
            PROVE  b \in Grants
        BY <3>2, <3>7 DEF Chain!Needs, Sound, Granted
      <3>8. rests' = [rests EXCEPT ![d] = B]
        BY <2>2, <3>1
      <3>9. Chain!Raise(d, B)
        BY <3>4, <3>5, <3>6, <3>7, <3>8 DEF Chain!Raise
      <3> QED
        BY <3>9 DEF Chain!Next
    <2> QED
      BY <1>3, <2>1, <2>2 DEF InsertDoc
  <1>4. ASSUME NEW s \in Slots, WriteStatus(s)
        PROVE  [Chain!Next]_Chain!vars
    <2>1. PICK d \in Docs : d = target[s]
      BY <1>0, <1>4, TargetFacts DEF WriteStatus
    <2>2. PICK st \in Statuses : st = Method(job[s]).to
      BY <1>4 DEF WriteStatus
    <2>3. Exists(d) /\ SetStatus(d, st) /\ UNCHANGED rests
      BY <1>0, <1>4, <2>1, <2>2, TargetFacts DEF WriteStatus
    <2> QED
      BY <1>2, <2>3
  <1>5. ASSUME NEW s \in Slots, WriteFields(s) \/ WriteDeletion(s)
        PROVE  [Chain!Next]_Chain!vars
    BY <1>1, <1>5 DEF WriteFields, WriteDeletion, tables
  <1>6. ASSUME NEW d \in Docs, MoveOrder(d) \/ DeleteOrder(d)
        PROVE  [Chain!Next]_Chain!vars
    <2>1. POStatuses \subseteq Statuses
      BY DEF Statuses
    <2>2. CASE MoveOrder(d)
      BY <1>2, <2>1, <2>2 DEF MoveOrder
    <2>3. CASE DeleteOrder(d)
      BY <1>1, <2>3 DEF DeleteOrder, history
    <2> QED
      BY <1>6, <2>2, <2>3
  <1>7. CASE UNCHANGED <<tables, history>>
    BY <1>1, <1>7 DEF tables, history
  <1> QED
    BY <1>3, <1>4, <1>5, <1>6, <1>7, RowSteps

\* The services implement the chain: no document is raised on another before
\* that one got the status it must have.
THEOREM KeepsChainHolds == Spec => KeepsChain
  BY ChainInit, ChainStep, DocumentsInvariance, PTL DEF Spec, KeepsChain, Chain!Spec

-----------------------------------------------------------------------------
\* Orders: what happens to them here is what PurchaseOrder implements.

\* A status that is set on an order, and one that is set on another document.
LEMMA OrderStatus ==
    ASSUME TypeOK, NEW d \in Docs, NEW st, SetStatus(d, st)
    PROVE  /\ d \in OrderDocs /\ st \in POStatuses =>
                /\ [e \in OrderDocs |-> status'[e]]
                     = [[e \in OrderDocs |-> status[e]] EXCEPT ![d] = st]
                /\ [e \in OrderDocs |-> visited'[e]]
                     = [[e \in OrderDocs |-> visited[e]] EXCEPT ![d] = @ \cup {st}]
           /\ d \notin OrderDocs =>
                /\ [e \in OrderDocs |-> status'[e]] = [e \in OrderDocs |-> status[e]]
                /\ [e \in OrderDocs |-> visited'[e]] = [e \in OrderDocs |-> visited[e]]
  <1>1. /\ \A e \in Docs : status'[e] = IF e = d THEN st ELSE status[e]
        /\ \A e \in Docs :
             visited'[e] = IF e = d THEN visited[e] \cup ({st} \cap Remembered(Kind[d]))
                                    ELSE visited[e]
    BY DEF SetStatus, TypeOK
  <1>2. d \in OrderDocs /\ st \in POStatuses => {st} \cap Remembered(Kind[d]) = {st}
    BY DEF OrderDocs, Remembered
  <1>3. OrderDocs \subseteq Docs
    BY DEF OrderDocs
  <1> QED
    BY <1>1, <1>2, <1>3

\* The transitions of both modules are those of isValidStatusTransition.
LEMMA SameTransitions ==
    ASSUME NEW from, NEW to
    PROVE  OrderTransition(from, to) <=> to \in Path!Successors(from)
  BY DEF OrderTransition, Path!Successors

\* The documents and the path of orders name the same statuses.
LEMMA SameStages == Path!Stages = POStatuses /\ Path!Absent = Absent
  BY DEF Path!Stages, POStatuses, Path!Absent, Absent

\* Each step of the documents is a step of the path of their orders, or leaves
\* them alone.
LEMMA OrderStep == DocumentsInv /\ [Next]_vars => [Path!Next]_(Path!vars)
  <1> SUFFICES ASSUME DocumentsInv, [Next]_vars
               PROVE  Path!Next \/ UNCHANGED Path!vars
    OBVIOUS
  <1>0. TypeOK /\ PointsMatchJobs
    BY DEF DocumentsInv
  <1>1. ASSUME NEW s \in Slots, InsertDoc(s)
        PROVE  Path!Next \/ UNCHANGED Path!vars
    <2>1. UNCHANGED gone
      BY <1>1 DEF InsertDoc
    <2>2. CASE UNCHANGED <<status, visited>>
      BY <2>1, <2>2 DEF Path!vars
    <2>3. ASSUME NEW d \in Docs, ~Exists(d), SetStatus(d, FirstStatus(Kind[d]))
          PROVE  Path!Next \/ UNCHANGED Path!vars
      <3>1. CASE d \in OrderDocs
        <4>1. FirstStatus(Kind[d]) = "DRAFT" /\ "DRAFT" \in POStatuses
          BY <3>1 DEF OrderDocs, FirstStatus, POStatuses
        <4>2. [e \in OrderDocs |-> status[e]][d] = Absent
          BY <2>3, <3>1 DEF Exists
        <4>3. SetStatus(d, "DRAFT")
          BY <2>3, <4>1
        <4>4. /\ [e \in OrderDocs |-> status'[e]]
                   = [[e \in OrderDocs |-> status[e]] EXCEPT ![d] = "DRAFT"]
              /\ [e \in OrderDocs |-> visited'[e]]
                   = [[e \in OrderDocs |-> visited[e]] EXCEPT ![d] = @ \cup {"DRAFT"}]
          BY <1>0, <3>1, <4>1, <4>3, OrderStatus
        <4>5. Path!Insert(d)
          BY <2>1, <4>2, <4>4, SameStages DEF Path!Insert, Path!Become
        <4> QED
          BY <3>1, <4>5 DEF Path!Next
      <3>2. CASE d \notin OrderDocs
        BY <1>0, <2>1, <2>3, <3>2, OrderStatus DEF Path!vars
      <3> QED
        BY <3>1, <3>2
    <2> QED
      BY <1>1, <2>2, <2>3 DEF InsertDoc
  <1>2. ASSUME NEW s \in Slots, WriteStatus(s) \/ WriteFields(s) \/ WriteDeletion(s)
        PROVE  UNCHANGED Path!vars
    <2>1. target[s] \in Docs /\ target[s] \notin OrderDocs
      BY <1>0, <1>2, TargetFacts
         DEF OrderDocs, WriteStatus, WriteFields, WriteDeletion
    <2>2. CASE WriteStatus(s)
      <3>1. UNCHANGED gone /\ SetStatus(target[s], Method(job[s]).to)
        BY <2>2 DEF WriteStatus
      <3>2. PICK d \in Docs : d = target[s]
        BY <2>1
      <3>3. PICK st : st = Method(job[s]).to
        OBVIOUS
      <3>4. SetStatus(d, st)
        BY <3>1, <3>2, <3>3 DEF SetStatus
      <3> QED
        BY <1>0, <2>1, <3>1, <3>2, <3>4, OrderStatus DEF Path!vars
    <2>3. CASE WriteFields(s)
      BY <2>3 DEF WriteFields, tables, Path!vars
    <2>4. CASE WriteDeletion(s)
      <3>1. gone' \cap OrderDocs = gone \cap OrderDocs
        BY <2>1, <2>4 DEF WriteDeletion
      <3> QED
        BY <2>4, <3>1 DEF WriteDeletion, Path!vars
    <2> QED
      BY <1>2, <2>2, <2>3, <2>4
  <1>3. ASSUME NEW d \in Docs, MoveOrder(d)
        PROVE  Path!Next
    <2>1. PICK to \in OrderMoves \cap POStatuses :
            /\ \E from \in visited[d] : OrderTransition(from, to)
            /\ SetStatus(d, to)
      BY <1>3 DEF MoveOrder
    <2>2. d \in OrderDocs /\ UNCHANGED gone
      BY <1>3 DEF MoveOrder, OrderDocs
    <2>3. /\ [e \in OrderDocs |-> status[e]][d] # Absent
          /\ [e \in OrderDocs |-> visited[e]][d] = visited[d]
      BY <1>3, <2>2 DEF MoveOrder, Exists
    <2>4. Path!Move(d, to)
      BY <1>0, <2>1, <2>2, <2>3, OrderStatus, SameStages, SameTransitions
         DEF Path!Move, Path!Become
    <2> QED
      BY <2>1, <2>2, <2>4, SameStages DEF Path!Next
  <1>4. ASSUME NEW d \in Docs, DeleteOrder(d)
        PROVE  Path!Next
    <2>1. d \in OrderDocs /\ UNCHANGED <<status, visited>>
      BY <1>4 DEF DeleteOrder, OrderDocs, history
    <2>2. [e \in OrderDocs |-> status[e]][d] # Absent
      BY <1>4, <2>1 DEF DeleteOrder, Exists
    <2>3. gone' \cap OrderDocs = (gone \cap OrderDocs) \cup {d}
      BY <1>4, <2>1 DEF DeleteOrder
    <2>4. Path!Delete(d)
      BY <2>1, <2>2, <2>3, SameStages DEF Path!Delete
    <2> QED
      BY <2>1, <2>4 DEF Path!Next
  <1>5. CASE UNCHANGED <<tables, history>>
    BY <1>5 DEF tables, history, Path!vars
  <1> QED
    BY <1>1, <1>2, <1>3, <1>4, <1>5, RowSteps

\* The orders of this module keep the path that PurchaseOrder implements: what
\* createPOFromPR and the assumed moves do to them is no more than OrderPath
\* allows.
THEOREM DocumentsKeepPath == Spec => KeepsPath
  <1>1. Init => Path!Init
    BY SameStages DEF Init, Path!Init, OrderDocs
  <1> QED
    BY <1>1, OrderStep, DocumentsInvariance, PTL DEF Spec, KeepsPath, Path!Spec

\* And no less: every move and deletion that OrderPath allows an order, and so
\* all that PurchaseOrder may do to it, is a step this module takes into
\* account, up to the bound OrderMoves.
THEOREM EveryOrderMove ==
    ASSUME TypeOK, TypeOK', NEW d \in OrderDocs,
           \A e \in Docs \ OrderDocs : status'[e] = status[e] /\ visited'[e] = visited[e],
           gone' \ OrderDocs = gone \ OrderDocs,
           UNCHANGED <<maker, rests, settled, afterlife, pc, request>>
    PROVE  /\ \A to \in OrderMoves : Path!Move(d, to) => MoveOrder(d)
           /\ Gone \in OrderMoves /\ Path!Delete(d) => DeleteOrder(d)
  <1>0. d \in Docs /\ Kind[d] = "order" /\ OrderDocs \subseteq Docs
    BY DEF OrderDocs
  <1>1. ASSUME NEW to \in OrderMoves, Path!Move(d, to)
        PROVE  MoveOrder(d)
    <2>1. /\ [e \in OrderDocs |-> status[e]][d] # Absent
          /\ [e \in OrderDocs |-> status'[e]]
               = [[e \in OrderDocs |-> status[e]] EXCEPT ![d] = to]
          /\ [e \in OrderDocs |-> visited'[e]]
               = [[e \in OrderDocs |-> visited[e]] EXCEPT ![d] = @ \cup {to}]
          /\ gone' \cap OrderDocs = gone \cap OrderDocs
      BY <1>1, SameStages DEF Path!Move, Path!Become
    <2>2. \E from \in visited[d] : OrderTransition(from, to)
      BY <1>1, SameTransitions DEF Path!Move
    <2>3. to \in POStatuses
      BY <2>2 DEF OrderTransition, POStatuses
    <2>4. /\ \A e \in OrderDocs : status'[e] = IF e = d THEN to ELSE status[e]
          /\ \A e \in OrderDocs :
               visited'[e] = IF e = d THEN visited[e] \cup {to} ELSE visited[e]
      <3>1. \A e \in OrderDocs :
              [f \in OrderDocs |-> status'[f]][e]
                = [[f \in OrderDocs |-> status[f]] EXCEPT ![d] = to][e]
        BY <2>1
      <3>2. \A e \in OrderDocs :
              [f \in OrderDocs |-> visited'[f]][e]
                = [[f \in OrderDocs |-> visited[f]] EXCEPT ![d] = @ \cup {to}][e]
        BY <2>1
      <3> QED
        BY <3>1, <3>2
    <2>5. {to} \cap Remembered(Kind[d]) = {to}
      BY <1>0, <2>3 DEF Remembered
    <2>6. SetStatus(d, to)
      BY <1>0, <2>4, <2>5 DEF SetStatus, TypeOK
    <2>7. gone' = gone
      BY <2>1
    <2>8. Exists(d)
      BY <2>1 DEF Exists
    <2> QED
      BY <1>0, <2>2, <2>3, <2>6, <2>7, <2>8 DEF MoveOrder
  <1>2. ASSUME Gone \in OrderMoves, Path!Delete(d)
        PROVE  DeleteOrder(d)
    <2>1. /\ [e \in OrderDocs |-> status[e]][d] # Absent
          /\ [e \in OrderDocs |-> status'[e]] = [e \in OrderDocs |-> status[e]]
          /\ [e \in OrderDocs |-> visited'[e]] = [e \in OrderDocs |-> visited[e]]
          /\ gone' \cap OrderDocs = (gone \cap OrderDocs) \cup {d}
      BY <1>2, SameStages DEF Path!Delete
    <2>2. \A e \in OrderDocs : status'[e] = status[e] /\ visited'[e] = visited[e]
      <3>1. \A e \in OrderDocs :
              /\ [f \in OrderDocs |-> status'[f]][e] = [f \in OrderDocs |-> status[f]][e]
              /\ [f \in OrderDocs |-> visited'[f]][e] = [f \in OrderDocs |-> visited[f]][e]
        BY <2>1
      <3> QED
        BY <3>1
    <2>3. UNCHANGED <<status, visited>>
      BY <1>0, <2>2 DEF TypeOK
    <2>4. gone' = gone \cup {d} /\ Exists(d)
      BY <1>0, <2>1 DEF Exists
    <2> QED
      BY <1>0, <1>2, <2>3, <2>4 DEF DeleteOrder, history
  <1> QED
    BY <1>1, <1>2

\* What follows for the orders from keeping their path.
PathFacts == INSTANCE OrderPathProofs WITH
    Orders <- OrderDocs,
    status <- [d \in OrderDocs |-> status[d]],
    visited <- [d \in OrderDocs |-> visited[d]],
    deleted <- gone \cap OrderDocs

\* Behind every invoice on an order there is a whole chain of approvals: that
\* of the order, even when InvoiceService.create found it completed, that of
\* the requisition, and the start of the contract.
THEOREM ChainApprovedHolds == Spec => []ChainApproved
  <1>1. Path!Init => PathFacts!Init
    BY DEF Path!Init, PathFacts!Init, Path!Absent, PathFacts!Absent
  <1>2. [Path!Next]_(Path!vars) => [PathFacts!Next]_(PathFacts!vars)
    BY DEF Path!Next, PathFacts!Next, Path!vars, PathFacts!vars, Path!Insert,
           PathFacts!Insert, Path!Move, PathFacts!Move, Path!Delete,
           PathFacts!Delete, Path!Become, PathFacts!Become, Path!Absent,
           PathFacts!Absent, Path!Stages, PathFacts!Stages, Path!Successors,
           PathFacts!Successors
  <1>3. Path!Spec => PathFacts!Spec
    BY <1>1, <1>2, PTL DEF Path!Spec, PathFacts!Spec
  <1>4. DocumentsInv /\ PathFacts!NoStageMissing => ChainApproved
    <2> SUFFICES ASSUME DocumentsInv, PathFacts!NoStageMissing,
                        NEW i \in Docs, NEW o \in rests[i],
                        Kind[i] = "invoice", Kind[o] = "order"
                 PROVE  /\ "APPROVED" \in visited[o]
                        /\ \A r \in rests[o] : Kind[r] = "pr" =>
                             /\ "APPROVED" \in visited[r]
                             /\ \A c \in rests[r] :
                                  Kind[c] = "contract" => "IN_PROGRESS" \in visited[c]
      BY DEF ChainApproved
    <2>1. /\ \A d \in Docs : rests[d] \subseteq Docs
          /\ \A d \in Docs : \A b \in rests[d] : Sound(Kind[d], b)
      BY DEF DocumentsInv, TypeOK, BasesSound
    <2>2. o \in OrderDocs /\ visited[o] \cap {"APPROVED", "COMPLETED"} # {}
      BY <2>1 DEF Sound, Granted, GrantedBy, OrderDocs
    <2>3. "COMPLETED" \in visited[o] => "APPROVED" \in visited[o]
      <3>1. [d \in OrderDocs |-> visited[d]][o] = visited[o]
        BY <2>2
      <3>2. "APPROVED" \in PathFacts!StagesBefore("COMPLETED")
        BY DEF PathFacts!StagesBefore
      <3> QED
        BY <2>2, <3>1, <3>2 DEF PathFacts!NoStageMissing
    <2>4. ASSUME NEW r \in rests[o], Kind[r] = "pr"
          PROVE  /\ "APPROVED" \in visited[r]
                 /\ \A c \in rests[r] :
                      Kind[c] = "contract" => "IN_PROGRESS" \in visited[c]
      <3>1. r \in Docs /\ Sound("order", r)
        BY <2>1, <2>2
      <3>2. \A c \in rests[r] : Sound("pr", c)
        BY <2>1, <2>4, <3>1
      <3> QED
        BY <2>4, <3>1, <3>2 DEF Sound, Granted, GrantedBy
    <2> QED
      BY <2>2, <2>3, <2>4
  <1> QED
    BY <1>3, <1>4, DocumentsKeepPath, DocumentsInvariance,
       PathFacts!NoStageMissingHolds, PTL DEF KeepsPath

-----------------------------------------------------------------------------
\* What follows for the documents from keeping their chain.

\* What the chain's promises are proved from: besides themselves, only the type
\* of its rows.
ChainInv ==
    /\ rests \in [Docs -> SUBSET Docs]
    /\ Chain!Grounded
    /\ Chain!NoCircles

\* Every step of the chain preserves its invariant.
LEMMA ChainInvNext == ChainInv /\ [Chain!Next]_(Chain!vars) => ChainInv'
  <1> SUFFICES ASSUME ChainInv, [Chain!Next]_(Chain!vars)
               PROVE  ChainInv'
    OBVIOUS
  <1> DEFINE made == {d \in Docs : Exists(d)}
             granted == {d \in Docs : visited[d] \cap GrantedBy(Kind[d]) # {}}
  <1>0. /\ rests \in [Docs -> SUBSET Docs]
        /\ \A d \in made : \A b \in rests[d] :
             b \in made /\ (Chain!Needs(d, b) => b \in granted)
        /\ \A S \in SUBSET made : S # {} => \E d \in S : rests[d] \cap S = {}
    BY DEF ChainInv, Chain!Grounded, Chain!NoCircles
  <1>1. SUFFICES /\ rests' \in [Docs -> SUBSET Docs]
                 /\ \A d \in made' : \A b \in rests'[d] :
                      b \in made' /\ (Chain!Needs(d, b) => b \in granted')
                 /\ \A S \in SUBSET made' :
                      S # {} => \E d \in S : rests'[d] \cap S = {}
    BY DEF ChainInv, Chain!Grounded, Chain!NoCircles, Chain!Needs
  <1>2. CASE made' = made /\ rests' = rests /\ granted \subseteq granted'
    BY <1>0, <1>2
  <1>3. ASSUME NEW d \in Docs, NEW B \in SUBSET Docs, d \notin made,
               B \subseteq made, \A b \in B : Chain!Needs(d, b) => b \in granted,
               made' = made \cup {d}, rests' = [rests EXCEPT ![d] = B],
               granted' = granted
        PROVE  /\ rests' \in [Docs -> SUBSET Docs]
               /\ \A e \in made' : \A b \in rests'[e] :
                    b \in made' /\ (Chain!Needs(e, b) => b \in granted')
               /\ \A S \in SUBSET made' :
                    S # {} => \E e \in S : rests'[e] \cap S = {}
    <2> HIDE DEF made, granted
    <2>1. rests'[d] = B /\ \A e \in Docs \ {d} : rests'[e] = rests[e]
      BY <1>0, <1>3
    <2>2. made \subseteq Docs
      BY DEF made
    <2>3. \A e \in made : rests'[e] = rests[e] /\ rests[e] \subseteq made
      BY <1>0, <1>3, <2>1, <2>2
    <2>4. \A S \in SUBSET (made \cup {d}) : S # {} => \E e \in S : rests'[e] \cap S = {}
      <3> SUFFICES ASSUME NEW S \in SUBSET (made \cup {d}), S # {}
                   PROVE  \E e \in S : rests'[e] \cap S = {}
        OBVIOUS
      <3>1. CASE S \ {d} = {}
        BY <1>3, <2>1, <3>1
      <3>2. CASE S \ {d} # {}
        <4>1. PICK e \in S \ {d} : rests[e] \cap (S \ {d}) = {}
          BY <1>0, <3>2
        <4>2. e \in made /\ d \notin rests[e]
          BY <1>3, <2>3, <4>1
        <4> QED
          BY <2>3, <4>1, <4>2
      <3> QED
        BY <3>1, <3>2
    <2> QED
      BY <1>0, <1>3, <2>1, <2>3, <2>4
  <1>4. \/ made' = made /\ rests' = rests /\ granted \subseteq granted'
        \/ \E d \in Docs, B \in SUBSET Docs :
             /\ d \notin made /\ B \subseteq made
             /\ \A b \in B : Chain!Needs(d, b) => b \in granted
             /\ made' = made \cup {d} /\ rests' = [rests EXCEPT ![d] = B]
             /\ granted' = granted
    BY DEF Chain!Next, Chain!vars, Chain!Raise, Chain!Grant
  <1> HIDE DEF made, granted
  <1> QED
    BY <1>2, <1>3, <1>4

\* No document rests on itself, directly or through others, whichever documents
\* the creates and the workflow name.
THEOREM NoCirclesInDocuments == Spec => [](Chain!Grounded /\ Chain!NoCircles)
  <1>1. Chain!Init => ChainInv
    BY DEF Chain!Init, ChainInv, Chain!Grounded, Chain!NoCircles
  <1>2. Chain!Spec => []ChainInv
    BY <1>1, ChainInvNext, PTL DEF Chain!Spec
  <1>3. ChainInv => Chain!Grounded /\ Chain!NoCircles
    BY DEF ChainInv
  <1> QED
    BY <1>2, <1>3, KeepsChainHolds, PTL DEF KeepsChain
=============================================================================
