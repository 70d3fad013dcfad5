--------------------------- MODULE SourcingProofs ----------------------------
(***************************************************************************)
(* Theorems about Sourcing for every set of slots, tenders, bids, orders,  *)
(* users, seeded drafts and requests.                                      *)
(***************************************************************************)
EXTENDS SourcingInvariant, FiniteSetTheorems, TLAPS

\* What the properties read of the tables; the closing dates are apart.
rows == <<tstatus, creator, linked, visited, bstatus, bidOn, bidder, seen, wins,
          order>>

\* The steps of a request that leave those alone.
Control(s) ==
    \/ ReadTender(s) \/ CountBids(s) \/ WriteMissing(s) \/ WriteUpdate(s)
    \/ ReadForBid(s) \/ LookupBid(s) \/ BidRefused(s) \/ ReadForEvaluation(s)
    \/ Emit(s)

-----------------------------------------------------------------------------
\* What a request names.
LEMMA JobFacts ==
    ASSUME NEW j \in Jobs
    PROVE  /\ j.kind \in {"create", "fromContract", "update", "publish",
                          "delete", "wfPublish", "submit", "close", "evaluate",
                          "award"}
           /\ j.tender \in Tenders \cup {NoTender} /\ j.bid \in Bids \cup {NoBid}
           /\ j.user \in Users /\ j # NoJob
           /\ j.kind \in OnTender => j.tender \in Tenders
           /\ j.kind \in {"evaluate", "award"} => j.bid \in Bids
  <1>1. j \in JobType
    BY SourcingAssumption
  <1> QED
    BY <1>1, SourcingAssumption DEF JobType, OnTender

\* Steps that touch no row the properties read.
LEMMA ControlFacts ==
    ASSUME NEW s \in Slots, Control(s)
    PROVE  UNCHANGED rows
  BY DEF Control, rows, tenders, bids, ReadTender, CountBids, WriteMissing,
         WriteUpdate, ReadForBid, LookupBid, BidRefused, ReadForEvaluation, Emit

\* A step of one slot leaves the requests of the others alone.
LEMMA OthersStay ==
    ASSUME TypeOK, NEW s \in Slots, Step(s) \/ \E j \in Jobs : Begin(s, j),
           NEW r \in Slots, r # s
    PROVE  /\ pc'[r] = pc[r] /\ answer'[r] = answer[r] /\ job'[r] = job[r]
           /\ target'[r] = target[r] /\ found'[r] = found[r]
  <1> USE DEF request, GoTo, Answer, TypeOK
  <1>1. CASE \/ InsertTender(s) \/ WritePublished(s) \/ DeleteRow(s)
             \/ WriteClosed(s)
    BY <1>1 DEF InsertTender, WritePublished, DeleteRow, WriteClosed
  <1>2. CASE \/ WriteAwarded(s) \/ Resubmit(s) \/ InsertBid(s)
             \/ WriteEvaluation(s)
    BY <1>2 DEF WriteAwarded, Resubmit, InsertBid, WriteEvaluation
  <1>3. CASE \/ AcceptWinner(s) \/ RejectLosers(s) \/ PlaceOrder(s)
    BY <1>3 DEF AcceptWinner, RejectLosers, PlaceOrder
  <1>4. CASE \/ ReadTender(s) \/ CountBids(s) \/ WriteMissing(s)
             \/ WriteUpdate(s) \/ ReadForBid(s)
    BY <1>4 DEF ReadTender, CountBids, WriteMissing, WriteUpdate, ReadForBid
  <1>5. CASE \/ LookupBid(s) \/ BidRefused(s) \/ ReadForEvaluation(s)
             \/ Emit(s)
    BY <1>5 DEF LookupBid, BidRefused, ReadForEvaluation, Emit
  <1>6. CASE \E j \in Jobs : Begin(s, j)
    BY <1>6 DEF Begin
  <1> QED
    BY <1>1, <1>2, <1>3, <1>4, <1>5, <1>6 DEF Step

\* Each step writes rows in one of eleven actions or leaves them alone.
LEMMA RowSteps ==
    ASSUME [Next]_vars
    PROVE  \/ UNCHANGED rows
           \/ \E s \in Slots :
                \/ InsertTender(s) \/ WritePublished(s) \/ DeleteRow(s)
                \/ WriteClosed(s) \/ WriteAwarded(s) \/ Resubmit(s) \/ InsertBid(s)
                \/ WriteEvaluation(s) \/ AcceptWinner(s) \/ RejectLosers(s)
                \/ PlaceOrder(s)
  <1>1. ASSUME NEW s \in Slots, NEW j \in Jobs, Begin(s, j)
        PROVE  UNCHANGED rows
    BY <1>1 DEF Begin, rows, tenders, bids
  <1>2. ASSUME NEW t \in Tenders, Deadline(t)
        PROVE  UNCHANGED rows
    BY <1>2 DEF Deadline, rows, bids
  <1>3. CASE UNCHANGED vars
    BY <1>3 DEF vars, rows
  <1> QED
    BY <1>1, <1>2, <1>3, ControlFacts DEF Next, Step, Control

\* The types hold at the start.
LEMMA TypeInit == Init => TypeOK
  BY SourcingAssumption
     DEF Init, TypeOK, Points, TenderStatuses, BidStatuses, Absent

\* Type correctness: every step writes values of the variables' types.
LEMMA TypeNext == SourcingInv /\ [Next]_vars => TypeOK'
  <1> SUFFICES ASSUME SourcingInv, [Next]_vars
               PROVE  TypeOK'
    OBVIOUS
  <1> USE DEF tenders, bids, request
  <1>0. TypeOK /\ PointsMatchJobs
    BY DEF SourcingInv
  <1>1. ASSUME NEW s \in Slots, NEW j \in Jobs, Begin(s, j)
        PROVE  TypeOK'
    BY <1>0, <1>1, JobFacts
       DEF Begin, TypeOK, PointsMatchJobs, Points, TenderStatuses, BidStatuses,
           Gone, Absent
  <1>2. ASSUME NEW t \in Tenders, Deadline(t)
        PROVE  TypeOK'
    BY <1>0, <1>2
       DEF Deadline, TypeOK, PointsMatchJobs, Points, TenderStatuses,
           BidStatuses, Gone, Absent
  <1>3. ASSUME NEW s \in Slots, InsertTender(s)
        PROVE  TypeOK'
    BY <1>0, <1>3, JobFacts
       DEF InsertTender, Answer, GoTo, SetTender, TypeOK, PointsMatchJobs,
           Points, TenderStatuses, BidStatuses, Gone, Absent
  <1>4. ASSUME NEW s \in Slots, WritePublished(s)
        PROVE  TypeOK'
    BY <1>0, <1>4, JobFacts
       DEF WritePublished, GoTo, SetTender, TypeOK, PointsMatchJobs, Points,
           TenderStatuses, BidStatuses, Gone, Absent
  <1>5. ASSUME NEW s \in Slots, DeleteRow(s)
        PROVE  TypeOK'
    BY <1>0, <1>5, JobFacts
       DEF DeleteRow, GoTo, TypeOK, PointsMatchJobs, Points, TenderStatuses,
           BidStatuses, Gone, Absent
  <1>6. ASSUME NEW s \in Slots, WriteClosed(s)
        PROVE  TypeOK'
    BY <1>0, <1>6, JobFacts
       DEF WriteClosed, GoTo, SetTender, TypeOK, PointsMatchJobs, Points,
           TenderStatuses, BidStatuses, Gone, Absent
  <1>7. ASSUME NEW s \in Slots, WriteAwarded(s)
        PROVE  TypeOK'
    BY <1>0, <1>7, JobFacts
       DEF WriteAwarded, GoTo, SetTender, TypeOK, PointsMatchJobs, Points,
           TenderStatuses, BidStatuses, Gone, Absent
  <1>8. ASSUME NEW s \in Slots, Resubmit(s)
        PROVE  TypeOK'
    <2>1. target[s] \in Tenders /\ job[s].user \in Users
      BY <1>0, <1>8, JobFacts DEF Resubmit, PointsMatchJobs, OnTender
    <2>2. late' \in [Tenders -> Nat]
      BY <1>0, <1>8, <2>1 DEF Resubmit, CountLate, TypeOK
    <2> QED
      BY <1>0, <1>8, <2>1, <2>2
         DEF Resubmit, TypeOK, Points, BidStatuses, GoTo, SetBid, Vendors
  <1>9. ASSUME NEW s \in Slots, InsertBid(s)
        PROVE  TypeOK'
    <2>1. target[s] \in Tenders /\ job[s].user \in Users
      BY <1>0, <1>9, JobFacts DEF InsertBid, PointsMatchJobs, OnTender
    <2>2. late' \in [Tenders -> Nat]
      BY <1>0, <1>9, <2>1 DEF InsertBid, CountLate, TypeOK
    <2> QED
      BY <1>0, <1>9, <2>1, <2>2
         DEF InsertBid, TypeOK, Points, BidStatuses, GoTo, SetBid, Vendors
  <1>10. ASSUME NEW s \in Slots, WriteEvaluation(s)
        PROVE  TypeOK'
    BY <1>0, <1>10, JobFacts
       DEF WriteEvaluation, GoTo, SetBid, TypeOK, PointsMatchJobs, Points,
           TenderStatuses, BidStatuses, Gone, Absent
  <1>11. ASSUME NEW s \in Slots, AcceptWinner(s)
        PROVE  TypeOK'
    BY <1>0, <1>11, JobFacts
       DEF AcceptWinner, Answer, GoTo, SetBid, TypeOK, PointsMatchJobs, Points,
           TenderStatuses, BidStatuses, Gone, Absent
  <1>12. ASSUME NEW s \in Slots, RejectLosers(s)
        PROVE  TypeOK'
    BY <1>0, <1>12, JobFacts
       DEF RejectLosers, GoTo, TypeOK, PointsMatchJobs, Points, TenderStatuses,
           BidStatuses, Gone, Absent
  <1>13. ASSUME NEW s \in Slots, PlaceOrder(s)
        PROVE  TypeOK'
    BY <1>0, <1>13, JobFacts
       DEF PlaceOrder, Answer, GoTo, TypeOK, PointsMatchJobs, Points,
           TenderStatuses, BidStatuses, Gone, Absent
  <1>14. ASSUME NEW s \in Slots, ReadTender(s)
        PROVE  TypeOK'
    BY <1>0, <1>14, JobFacts
       DEF ReadTender, Answer, GoTo, TypeOK, PointsMatchJobs, Points,
           TenderStatuses, BidStatuses, Gone, Absent
  <1>15. ASSUME NEW s \in Slots, CountBids(s)
        PROVE  TypeOK'
    BY <1>0, <1>15, JobFacts
       DEF CountBids, Answer, GoTo, TypeOK, PointsMatchJobs, Points,
           TenderStatuses, BidStatuses, Gone, Absent
  <1>16. ASSUME NEW s \in Slots, WriteMissing(s)
        PROVE  TypeOK'
    BY <1>0, <1>16, JobFacts
       DEF WriteMissing, Answer, TypeOK, PointsMatchJobs, Points,
           TenderStatuses, BidStatuses, Gone, Absent
  <1>17. ASSUME NEW s \in Slots, WriteUpdate(s)
        PROVE  TypeOK'
    BY <1>0, <1>17, JobFacts
       DEF WriteUpdate, GoTo, TypeOK, PointsMatchJobs, Points, TenderStatuses,
           BidStatuses, Gone, Absent
  <1>18. ASSUME NEW s \in Slots, ReadForBid(s)
        PROVE  TypeOK'
    BY <1>0, <1>18, JobFacts
       DEF ReadForBid, Answer, GoTo, TypeOK, PointsMatchJobs, Points,
           TenderStatuses, BidStatuses, Gone, Absent
  <1>19. ASSUME NEW s \in Slots, LookupBid(s)
        PROVE  TypeOK'
    BY <1>0, <1>19, JobFacts
       DEF LookupBid, GoTo, TypeOK, PointsMatchJobs, Points, TenderStatuses,
           BidStatuses, Gone, Absent
  <1>20. ASSUME NEW s \in Slots, BidRefused(s)
        PROVE  TypeOK'
    BY <1>0, <1>20, JobFacts
       DEF BidRefused, Answer, TypeOK, PointsMatchJobs, Points, TenderStatuses,
           BidStatuses, Gone, Absent
  <1>21. ASSUME NEW s \in Slots, ReadForEvaluation(s)
        PROVE  TypeOK'
    BY <1>0, <1>21, JobFacts
       DEF ReadForEvaluation, Answer, GoTo, TypeOK, PointsMatchJobs, Points,
           TenderStatuses, BidStatuses, Gone, Absent
  <1>22. ASSUME NEW s \in Slots, Emit(s)
        PROVE  TypeOK'
    BY <1>0, <1>22, JobFacts
       DEF Emit, Answer, TypeOK, PointsMatchJobs, Points, TenderStatuses,
           BidStatuses, Gone, Absent
  <1>23. CASE UNCHANGED vars
    BY <1>0, <1>23
       DEF vars, TypeOK, Points, TenderStatuses, BidStatuses, Gone, Absent
  <1> QED
    BY <1>1, <1>2, <1>3, <1>4, <1>5, <1>6, <1>7, <1>8, <1>9, <1>10,
       <1>11, <1>12, <1>13, <1>14, <1>15, <1>16, <1>17, <1>18,
       <1>19, <1>20, <1>21, <1>22, <1>23 DEF Next, Step

\* Each request is at a point of its endpoint.
LEMMA PointsNext == SourcingInv /\ [Next]_vars => PointsMatchJobs'
  <1> SUFFICES ASSUME SourcingInv, [Next]_vars
               PROVE  PointsMatchJobs'
    OBVIOUS
  <1> USE DEF tenders, bids, request
  <1>0. TypeOK /\ PointsMatchJobs
    BY DEF SourcingInv
  <1>1. ASSUME NEW s \in Slots, NEW j \in Jobs, Begin(s, j)
        PROVE  PointsMatchJobs'
    <2>1. j.kind \in {"submit", "evaluate", "update", "publish", "wfPublish",
                     "delete"} \/ pc'[s] # "read"
      BY <1>0, <1>1, JobFacts DEF Begin, TypeOK
    <2>2. \A r \in Slots : r # s => /\ pc'[r] = pc[r] /\ answer'[r] = answer[r]
                                    /\ job'[r] = job[r] /\ target'[r] = target[r]
                                    /\ found'[r] = found[r]
      BY <1>0, <1>1, OthersStay
    <2>3. /\ pc'[s] \in {"insert", "write", "read"} /\ answer'[s] = "none"
          /\ job'[s] = j /\ target'[s] = j.tender /\ found'[s] = j.bid
          /\ pc'[s] = "insert" <=> j.kind \in {"create", "fromContract"}
      BY <1>0, <1>1, JobFacts DEF Begin, TypeOK
    <2> QED
      BY <1>0, <2>2, <2>3 DEF PointsMatchJobs
  <1>2. ASSUME NEW t \in Tenders, Deadline(t)
        PROVE  PointsMatchJobs'
    BY <1>0, <1>2 DEF Deadline, TypeOK, PointsMatchJobs, OnTender
  <1>3. ASSUME NEW s \in Slots, InsertTender(s)
        PROVE  PointsMatchJobs'
    BY <1>0, <1>3, JobFacts
       DEF InsertTender, Answer, GoTo, SetTender, TypeOK, PointsMatchJobs,
           OnTender
  <1>4. ASSUME NEW s \in Slots, WritePublished(s)
        PROVE  PointsMatchJobs'
    BY <1>0, <1>4, JobFacts
       DEF WritePublished, GoTo, SetTender, TypeOK, PointsMatchJobs, OnTender
  <1>5. ASSUME NEW s \in Slots, DeleteRow(s)
        PROVE  PointsMatchJobs'
    BY <1>0, <1>5, JobFacts
       DEF DeleteRow, GoTo, TypeOK, PointsMatchJobs, OnTender
  <1>6. ASSUME NEW s \in Slots, WriteClosed(s)
        PROVE  PointsMatchJobs'
    BY <1>0, <1>6, JobFacts
       DEF WriteClosed, GoTo, SetTender, TypeOK, PointsMatchJobs, OnTender
  <1>7. ASSUME NEW s \in Slots, WriteAwarded(s)
        PROVE  PointsMatchJobs'
    BY <1>0, <1>7, JobFacts
       DEF WriteAwarded, GoTo, SetTender, TypeOK, PointsMatchJobs, OnTender
  <1>8. ASSUME NEW s \in Slots, Resubmit(s)
        PROVE  PointsMatchJobs'
    BY <1>0, <1>8, JobFacts
       DEF Resubmit, GoTo, SetBid, TypeOK, PointsMatchJobs, OnTender
  <1>9. ASSUME NEW s \in Slots, InsertBid(s)
        PROVE  PointsMatchJobs'
    BY <1>0, <1>9, JobFacts
       DEF InsertBid, GoTo, SetBid, TypeOK, PointsMatchJobs, OnTender
  <1>10. ASSUME NEW s \in Slots, WriteEvaluation(s)
        PROVE  PointsMatchJobs'
    BY <1>0, <1>10, JobFacts
       DEF WriteEvaluation, GoTo, SetBid, TypeOK, PointsMatchJobs, OnTender
  <1>11. ASSUME NEW s \in Slots, AcceptWinner(s)
        PROVE  PointsMatchJobs'
    BY <1>0, <1>11, JobFacts
       DEF AcceptWinner, Answer, GoTo, SetBid, TypeOK, PointsMatchJobs,
           OnTender
  <1>12. ASSUME NEW s \in Slots, RejectLosers(s)
        PROVE  PointsMatchJobs'
    BY <1>0, <1>12, JobFacts
       DEF RejectLosers, GoTo, TypeOK, PointsMatchJobs, OnTender
  <1>13. ASSUME NEW s \in Slots, PlaceOrder(s)
        PROVE  PointsMatchJobs'
    BY <1>0, <1>13, JobFacts
       DEF PlaceOrder, Answer, GoTo, TypeOK, PointsMatchJobs, OnTender
  <1>14. ASSUME NEW s \in Slots, ReadTender(s)
        PROVE  PointsMatchJobs'
    BY <1>0, <1>14, JobFacts
       DEF ReadTender, Answer, GoTo, TypeOK, PointsMatchJobs, OnTender
  <1>15. ASSUME NEW s \in Slots, CountBids(s)
        PROVE  PointsMatchJobs'
    BY <1>0, <1>15, JobFacts
       DEF CountBids, Answer, GoTo, TypeOK, PointsMatchJobs, OnTender
  <1>16. ASSUME NEW s \in Slots, WriteMissing(s)
        PROVE  PointsMatchJobs'
    BY <1>0, <1>16, JobFacts
       DEF WriteMissing, Answer, TypeOK, PointsMatchJobs, OnTender
  <1>17. ASSUME NEW s \in Slots, WriteUpdate(s)
        PROVE  PointsMatchJobs'
    BY <1>0, <1>17, JobFacts
       DEF WriteUpdate, GoTo, TypeOK, PointsMatchJobs, OnTender
  <1>18. ASSUME NEW s \in Slots, ReadForBid(s)
        PROVE  PointsMatchJobs'
    BY <1>0, <1>18, JobFacts
       DEF ReadForBid, Answer, GoTo, TypeOK, PointsMatchJobs, OnTender
  <1>19. ASSUME NEW s \in Slots, LookupBid(s)
        PROVE  PointsMatchJobs'
    BY <1>0, <1>19, JobFacts
       DEF LookupBid, GoTo, TypeOK, PointsMatchJobs, OnTender
  <1>20. ASSUME NEW s \in Slots, BidRefused(s)
        PROVE  PointsMatchJobs'
    BY <1>0, <1>20, JobFacts
       DEF BidRefused, Answer, TypeOK, PointsMatchJobs, OnTender
  <1>21. ASSUME NEW s \in Slots, ReadForEvaluation(s)
        PROVE  PointsMatchJobs'
    BY <1>0, <1>21, JobFacts
       DEF ReadForEvaluation, Answer, GoTo, TypeOK, PointsMatchJobs, OnTender
  <1>22. ASSUME NEW s \in Slots, Emit(s)
        PROVE  PointsMatchJobs'
    BY <1>0, <1>22, JobFacts
       DEF Emit, Answer, TypeOK, PointsMatchJobs, OnTender
  <1>23. CASE UNCHANGED vars
    BY <1>0, <1>23 DEF vars, PointsMatchJobs, OnTender
  <1> QED
    BY <1>1, <1>2, <1>3, <1>4, <1>5, <1>6, <1>7, <1>8, <1>9, <1>10,
       <1>11, <1>12, <1>13, <1>14, <1>15, <1>16, <1>17, <1>18,
       <1>19, <1>20, <1>21, <1>22, <1>23 DEF Next, Step

\* What steps never take back.
Grows ==
    /\ \A t \in Tenders : /\ visited[t] \subseteq visited'[t]
                          /\ tstatus[t] = Gone => tstatus'[t] = Gone
                          /\ tstatus[t] # Absent => (t \in linked' <=> t \in linked)
    /\ \A b \in Bids : /\ seen[b] \subseteq seen'[b]
                       /\ bidOn[b] \in Tenders => /\ bidOn'[b] = bidOn[b]
                                                  /\ bidder'[b] = bidder[b]
    /\ \A o \in Orders : order[o] # NoBid => order'[o] = order[o]

\* Histories, placed bids, orders and deletions stay; a tender is linked when it
\* is created or never.
LEMMA RowsGrow == SourcingInv /\ [Next]_vars => Grows
  <1> SUFFICES ASSUME SourcingInv, [Next]_vars
               PROVE  Grows
    OBVIOUS
  <1> USE DEF tenders, bids, request
  <1>0. TypeOK /\ PointsMatchJobs /\ HistoryKept
    BY DEF SourcingInv
  <1>1. CASE UNCHANGED rows
    BY <1>0, <1>1, SourcingAssumption
       DEF rows, Grows, Gone, Absent, TenderExists, BidExists, TenderStatuses,
           BidStatuses
  <1>2. ASSUME NEW s \in Slots, InsertTender(s)
        PROVE  Grows
    BY <1>0, <1>2, JobFacts, SourcingAssumption
       DEF InsertTender, Answer, GoTo, SetTender, SetBid, TypeOK,
           PointsMatchJobs, HistoryKept, Grows, Gone, Absent, TenderExists,
           BidExists, TenderStatuses, BidStatuses
  <1>3. ASSUME NEW s \in Slots, WritePublished(s)
        PROVE  Grows
    BY <1>0, <1>3, JobFacts, SourcingAssumption
       DEF WritePublished, GoTo, SetTender, SetBid, TypeOK, PointsMatchJobs,
           HistoryKept, Grows, Gone, Absent, TenderExists, BidExists,
           TenderStatuses, BidStatuses
  <1>4. ASSUME NEW s \in Slots, DeleteRow(s)
        PROVE  Grows
    BY <1>0, <1>4, JobFacts, SourcingAssumption
       DEF DeleteRow, GoTo, SetTender, SetBid, TypeOK, PointsMatchJobs,
           HistoryKept, Grows, Gone, Absent, TenderExists, BidExists,
           TenderStatuses, BidStatuses
  <1>5. ASSUME NEW s \in Slots, WriteClosed(s)
        PROVE  Grows
    BY <1>0, <1>5, JobFacts, SourcingAssumption
       DEF WriteClosed, GoTo, SetTender, SetBid, TypeOK, PointsMatchJobs,
           HistoryKept, Grows, Gone, Absent, TenderExists, BidExists,
           TenderStatuses, BidStatuses
  <1>6. ASSUME NEW s \in Slots, WriteAwarded(s)
        PROVE  Grows
    BY <1>0, <1>6, JobFacts, SourcingAssumption
       DEF WriteAwarded, GoTo, SetTender, SetBid, TypeOK, PointsMatchJobs,
           HistoryKept, Grows, Gone, Absent, TenderExists, BidExists,
           TenderStatuses, BidStatuses
  <1>7. ASSUME NEW s \in Slots, Resubmit(s)
        PROVE  Grows
    BY <1>0, <1>7, JobFacts, SourcingAssumption
       DEF Resubmit, GoTo, SetTender, SetBid, TypeOK, PointsMatchJobs,
           HistoryKept, Grows, Gone, Absent, TenderExists, BidExists,
           TenderStatuses, BidStatuses
  <1>8. ASSUME NEW s \in Slots, InsertBid(s)
        PROVE  Grows
    BY <1>0, <1>8, JobFacts, SourcingAssumption
       DEF InsertBid, GoTo, SetTender, SetBid, TypeOK, PointsMatchJobs,
           HistoryKept, Grows, Gone, Absent, TenderExists, BidExists,
           TenderStatuses, BidStatuses
  <1>9. ASSUME NEW s \in Slots, WriteEvaluation(s)
        PROVE  Grows
    BY <1>0, <1>9, JobFacts, SourcingAssumption
       DEF WriteEvaluation, GoTo, SetTender, SetBid, TypeOK, PointsMatchJobs,
           HistoryKept, Grows, Gone, Absent, TenderExists, BidExists,
           TenderStatuses, BidStatuses
  <1>10. ASSUME NEW s \in Slots, AcceptWinner(s)
        PROVE  Grows
    BY <1>0, <1>10, JobFacts, SourcingAssumption
       DEF AcceptWinner, Answer, GoTo, SetTender, SetBid, TypeOK,
           PointsMatchJobs, HistoryKept, Grows, Gone, Absent, TenderExists,
           BidExists, TenderStatuses, BidStatuses
  <1>11. ASSUME NEW s \in Slots, RejectLosers(s)
        PROVE  Grows
    BY <1>0, <1>11, JobFacts, SourcingAssumption
       DEF RejectLosers, GoTo, SetTender, SetBid, TypeOK, PointsMatchJobs,
           HistoryKept, Grows, Gone, Absent, TenderExists, BidExists,
           TenderStatuses, BidStatuses
  <1>12. ASSUME NEW s \in Slots, PlaceOrder(s)
        PROVE  Grows
    BY <1>0, <1>12, JobFacts, SourcingAssumption
       DEF PlaceOrder, Answer, GoTo, SetTender, SetBid, TypeOK,
           PointsMatchJobs, HistoryKept, Grows, Gone, Absent, TenderExists,
           BidExists, TenderStatuses, BidStatuses
  <1> QED
    BY <1>1, <1>2, <1>3, <1>4, <1>5, <1>6, <1>7, <1>8, <1>9, <1>10,
       <1>11, <1>12, RowSteps

\* Rows agree with their history.
LEMMA HistoryNext == SourcingInv /\ [Next]_vars => HistoryKept'
  <1> SUFFICES ASSUME SourcingInv, [Next]_vars
               PROVE  HistoryKept'
    OBVIOUS
  <1> USE DEF tenders, bids, request
  <1>0. TypeOK /\ PointsMatchJobs /\ HistoryKept /\ BidsEarned /\ RequestsEarned
    BY DEF SourcingInv
  <1>1. CASE UNCHANGED rows
    BY <1>0, <1>1, SourcingAssumption
       DEF rows, HistoryKept, Absent, TenderExists, BidExists, TenderStatuses,
           BidStatuses
  <1>2. ASSUME NEW s \in Slots, InsertTender(s)
        PROVE  HistoryKept'
    BY <1>0, <1>2, JobFacts, SourcingAssumption
       DEF InsertTender, Answer, GoTo, SetTender, TypeOK, PointsMatchJobs,
           HistoryKept, BidsEarned, RequestsEarned, Earned, Absent,
           TenderExists, BidExists, TenderStatuses, BidStatuses
  <1>3. ASSUME NEW s \in Slots, WritePublished(s)
        PROVE  HistoryKept'
    BY <1>0, <1>3, JobFacts, SourcingAssumption
       DEF WritePublished, GoTo, SetTender, TypeOK, PointsMatchJobs,
           HistoryKept, BidsEarned, RequestsEarned, Earned, Absent,
           TenderExists, BidExists, TenderStatuses, BidStatuses
  <1>4. ASSUME NEW s \in Slots, DeleteRow(s)
        PROVE  HistoryKept'
    <2>1. target[s] \in Tenders /\ target[s] # NoTender
      BY <1>0, <1>4, JobFacts, SourcingAssumption
         DEF DeleteRow, PointsMatchJobs, OnTender
    <2>2. \A t \in Tenders :
            /\ TenderExists(t)' => {tstatus'[t], "DRAFT"} \subseteq visited'[t]
            /\ tstatus'[t] = Absent => visited'[t] = {}
      BY <1>0, <1>4, <2>1
         DEF DeleteRow, TypeOK, HistoryKept, TenderExists, TenderStatuses,
             Gone, Absent
    <2>3. ASSUME NEW b \in Bids
          PROVE  /\ BidExists(b)' => bstatus'[b] \in seen'[b] /\ TenderExists(bidOn[b])'
                 /\ bstatus'[b] = Absent =>
                      bidOn'[b] = NoTender /\ seen'[b] = {} /\ wins'[b] = 0
                 /\ bstatus'[b] # Absent => bidOn'[b] \in Tenders
      BY <1>0, <1>4, <2>1
         DEF DeleteRow, TypeOK, HistoryKept, TenderExists, BidExists,
             TenderStatuses, BidStatuses, Gone, Absent
    <2> QED
      BY <2>2, <2>3 DEF HistoryKept, TenderExists, BidExists
  <1>5. ASSUME NEW s \in Slots, WriteClosed(s)
        PROVE  HistoryKept'
    BY <1>0, <1>5, JobFacts, SourcingAssumption
       DEF WriteClosed, GoTo, SetTender, TypeOK, PointsMatchJobs, HistoryKept,
           BidsEarned, RequestsEarned, Earned, Absent, TenderExists, BidExists,
           TenderStatuses, BidStatuses
  <1>6. ASSUME NEW s \in Slots, WriteAwarded(s)
        PROVE  HistoryKept'
    BY <1>0, <1>6, JobFacts, SourcingAssumption
       DEF WriteAwarded, GoTo, SetTender, TypeOK, PointsMatchJobs, HistoryKept,
           BidsEarned, RequestsEarned, Earned, Absent, TenderExists, BidExists,
           TenderStatuses, BidStatuses
  <1>7. ASSUME NEW s \in Slots, Resubmit(s)
        PROVE  HistoryKept'
    BY <1>0, <1>7, JobFacts, SourcingAssumption
       DEF Resubmit, GoTo, SetBid, TypeOK, PointsMatchJobs, HistoryKept,
           BidsEarned, RequestsEarned, Earned, Absent, TenderExists, BidExists,
           TenderStatuses, BidStatuses
  <1>8. ASSUME NEW s \in Slots, InsertBid(s)
        PROVE  HistoryKept'
    <2>1. target[s] \in Tenders /\ target[s] # NoTender
      BY <1>0, <1>8, JobFacts, SourcingAssumption
         DEF InsertBid, PointsMatchJobs, OnTender
    <2>2. PICK b0 \in Bids : bstatus[b0] = Absent
             /\ SetBid(b0, "SUBMITTED") /\ bidOn' = [bidOn EXCEPT ![b0] = target[s]]
      BY <1>8 DEF InsertBid
    <2>3. UNCHANGED <<tstatus, visited, wins>> /\ TenderExists(target[s])
      BY <1>8 DEF InsertBid
    <2>4. ASSUME NEW b \in Bids
          PROVE  /\ BidExists(b)' => bstatus'[b] \in seen'[b] /\ TenderExists(bidOn[b])'
                 /\ bstatus'[b] = Absent =>
                      bidOn'[b] = NoTender /\ seen'[b] = {} /\ wins'[b] = 0
                 /\ bstatus'[b] # Absent => bidOn'[b] \in Tenders
      BY <1>0, <2>1, <2>2, <2>3
         DEF SetBid, TypeOK, HistoryKept, TenderExists, BidExists,
             TenderStatuses, BidStatuses, Gone, Absent
    <2> QED
      BY <1>0, <2>3, <2>4 DEF HistoryKept, TenderExists, BidExists
  <1>9. ASSUME NEW s \in Slots, WriteEvaluation(s)
        PROVE  HistoryKept'
    BY <1>0, <1>9, JobFacts, SourcingAssumption
       DEF WriteEvaluation, GoTo, SetBid, TypeOK, PointsMatchJobs, HistoryKept,
           BidsEarned, RequestsEarned, Earned, Absent, TenderExists, BidExists,
           TenderStatuses, BidStatuses
  <1>10. ASSUME NEW s \in Slots, AcceptWinner(s)
        PROVE  HistoryKept'
    BY <1>0, <1>10, JobFacts, SourcingAssumption
       DEF AcceptWinner, Answer, GoTo, SetBid, TypeOK, PointsMatchJobs,
           HistoryKept, BidsEarned, RequestsEarned, Earned, Absent,
           TenderExists, BidExists, TenderStatuses, BidStatuses
  <1>11. ASSUME NEW s \in Slots, RejectLosers(s)
        PROVE  HistoryKept'
    BY <1>0, <1>11, JobFacts, SourcingAssumption
       DEF RejectLosers, GoTo, TypeOK, PointsMatchJobs, HistoryKept,
           BidsEarned, RequestsEarned, Earned, Absent, TenderExists, BidExists,
           TenderStatuses, BidStatuses
  <1>12. ASSUME NEW s \in Slots, PlaceOrder(s)
        PROVE  HistoryKept'
    BY <1>0, <1>12, JobFacts, SourcingAssumption
       DEF PlaceOrder, Answer, GoTo, TypeOK, PointsMatchJobs, HistoryKept,
           BidsEarned, RequestsEarned, Earned, Absent, TenderExists, BidExists,
           TenderStatuses, BidStatuses
  <1> QED
    BY <1>1, <1>2, <1>3, <1>4, <1>5, <1>6, <1>7, <1>8, <1>9, <1>10,
       <1>11, <1>12, RowSteps

\* A bid is on a tender that was published; it is evaluated after a close.
LEMMA BidsEarnedNext == SourcingInv /\ [Next]_vars => BidsEarned'
  <1> SUFFICES ASSUME SourcingInv, [Next]_vars
               PROVE  BidsEarned'
    OBVIOUS
  <1> USE DEF tenders, bids, request
  <1>0. TypeOK /\ PointsMatchJobs /\ HistoryKept /\ BidsEarned /\ RequestsEarned
    BY DEF SourcingInv
  <1>1. CASE UNCHANGED rows
    BY <1>0, <1>1, SourcingAssumption DEF rows, BidsEarned
  <1>2. ASSUME NEW s \in Slots, InsertTender(s)
        PROVE  BidsEarned'
    BY <1>0, <1>2, JobFacts, SourcingAssumption
       DEF InsertTender, Answer, GoTo, SetTender, TypeOK, PointsMatchJobs,
           HistoryKept, BidsEarned, RequestsEarned, Earned, Absent
  <1>3. ASSUME NEW s \in Slots, WritePublished(s)
        PROVE  BidsEarned'
    BY <1>0, <1>3, JobFacts, SourcingAssumption
       DEF WritePublished, GoTo, SetTender, TypeOK, PointsMatchJobs,
           HistoryKept, BidsEarned, RequestsEarned, Earned, TenderExists,
           TenderStatuses
  <1>4. ASSUME NEW s \in Slots, DeleteRow(s)
        PROVE  BidsEarned'
    BY <1>0, <1>4, JobFacts, SourcingAssumption
       DEF DeleteRow, GoTo, TypeOK, PointsMatchJobs, HistoryKept, BidsEarned,
           RequestsEarned, Earned, Gone, TenderExists, TenderStatuses
  <1>5. ASSUME NEW s \in Slots, WriteClosed(s)
        PROVE  BidsEarned'
    BY <1>0, <1>5, JobFacts, SourcingAssumption
       DEF WriteClosed, GoTo, SetTender, TypeOK, PointsMatchJobs, HistoryKept,
           BidsEarned, RequestsEarned, Earned, TenderExists, TenderStatuses
  <1>6. ASSUME NEW s \in Slots, WriteAwarded(s)
        PROVE  BidsEarned'
    BY <1>0, <1>6, JobFacts, SourcingAssumption
       DEF WriteAwarded, GoTo, SetTender, TypeOK, PointsMatchJobs, HistoryKept,
           BidsEarned, RequestsEarned, Earned, TenderExists, TenderStatuses
  <1>7. ASSUME NEW s \in Slots, Resubmit(s)
        PROVE  BidsEarned'
    BY <1>0, <1>7, JobFacts, SourcingAssumption
       DEF Resubmit, GoTo, SetBid, TypeOK, PointsMatchJobs, HistoryKept,
           BidsEarned, RequestsEarned, Earned, BidExists, BidStatuses
  <1>8. ASSUME NEW s \in Slots, InsertBid(s)
        PROVE  BidsEarned'
    BY <1>0, <1>8, JobFacts, SourcingAssumption
       DEF InsertBid, GoTo, SetBid, TypeOK, PointsMatchJobs, HistoryKept,
           BidsEarned, RequestsEarned, Earned, Absent, TenderExists, BidExists,
           TenderStatuses, BidStatuses
  <1>9. ASSUME NEW s \in Slots, WriteEvaluation(s)
        PROVE  BidsEarned'
    BY <1>0, <1>9, JobFacts, SourcingAssumption
       DEF WriteEvaluation, GoTo, SetBid, TypeOK, PointsMatchJobs, HistoryKept,
           BidsEarned, RequestsEarned, Earned, BidExists, BidStatuses
  <1>10. ASSUME NEW s \in Slots, AcceptWinner(s)
        PROVE  BidsEarned'
    BY <1>0, <1>10, JobFacts, SourcingAssumption
       DEF AcceptWinner, Answer, GoTo, SetBid, TypeOK, PointsMatchJobs,
           HistoryKept, BidsEarned, RequestsEarned, Earned, BidExists,
           BidStatuses
  <1>11. ASSUME NEW s \in Slots, RejectLosers(s)
        PROVE  BidsEarned'
    BY <1>0, <1>11, JobFacts, SourcingAssumption
       DEF RejectLosers, GoTo, TypeOK, PointsMatchJobs, HistoryKept,
           BidsEarned, RequestsEarned, Earned
  <1>12. ASSUME NEW s \in Slots, PlaceOrder(s)
        PROVE  BidsEarned'
    BY <1>0, <1>12, JobFacts, SourcingAssumption
       DEF PlaceOrder, Answer, GoTo, TypeOK, PointsMatchJobs, HistoryKept,
           BidsEarned, RequestsEarned, Earned
  <1> QED
    BY <1>1, <1>2, <1>3, <1>4, <1>5, <1>6, <1>7, <1>8, <1>9, <1>10,
       <1>11, <1>12, RowSteps

\* The unique index keeps one bid of a vendor on a tender.
LEMMA OneBidNext == SourcingInv /\ [Next]_vars => OneBidPerVendor'
  <1> SUFFICES ASSUME SourcingInv, [Next]_vars
               PROVE  OneBidPerVendor'
    OBVIOUS
  <1> USE DEF tenders, bids, request
  <1>0. TypeOK /\ PointsMatchJobs /\ HistoryKept /\ OneBidPerVendor
    BY DEF SourcingInv
  <1>1. CASE UNCHANGED rows
    BY <1>0, <1>1, SourcingAssumption
       DEF rows, OneBidPerVendor, BidExists, BidStatuses
  <1>2. ASSUME NEW s \in Slots, InsertTender(s)
        PROVE  OneBidPerVendor'
    BY <1>0, <1>2, JobFacts, SourcingAssumption
       DEF InsertTender, Answer, GoTo, SetTender, TypeOK, PointsMatchJobs,
           HistoryKept, OneBidPerVendor, Absent, BidExists, BidStatuses
  <1>3. ASSUME NEW s \in Slots, WritePublished(s)
        PROVE  OneBidPerVendor'
    BY <1>0, <1>3, JobFacts, SourcingAssumption
       DEF WritePublished, GoTo, SetTender, TypeOK, PointsMatchJobs,
           HistoryKept, OneBidPerVendor, TenderExists, BidExists,
           TenderStatuses, BidStatuses
  <1>4. ASSUME NEW s \in Slots, DeleteRow(s)
        PROVE  OneBidPerVendor'
    BY <1>0, <1>4, JobFacts, SourcingAssumption
       DEF DeleteRow, GoTo, TypeOK, PointsMatchJobs, HistoryKept,
           OneBidPerVendor, Gone, TenderExists, BidExists, TenderStatuses,
           BidStatuses
  <1>5. ASSUME NEW s \in Slots, WriteClosed(s)
        PROVE  OneBidPerVendor'
    BY <1>0, <1>5, JobFacts, SourcingAssumption
       DEF WriteClosed, GoTo, SetTender, TypeOK, PointsMatchJobs, HistoryKept,
           OneBidPerVendor, TenderExists, BidExists, TenderStatuses,
           BidStatuses
  <1>6. ASSUME NEW s \in Slots, WriteAwarded(s)
        PROVE  OneBidPerVendor'
    BY <1>0, <1>6, JobFacts, SourcingAssumption
       DEF WriteAwarded, GoTo, SetTender, TypeOK, PointsMatchJobs, HistoryKept,
           OneBidPerVendor, TenderExists, BidExists, TenderStatuses,
           BidStatuses
  <1>7. ASSUME NEW s \in Slots, Resubmit(s)
        PROVE  OneBidPerVendor'
    BY <1>0, <1>7, JobFacts, SourcingAssumption
       DEF Resubmit, GoTo, SetBid, TypeOK, PointsMatchJobs, HistoryKept,
           OneBidPerVendor, BidExists, BidStatuses
  <1>8. ASSUME NEW s \in Slots, InsertBid(s)
        PROVE  OneBidPerVendor'
    BY <1>0, <1>8, JobFacts, SourcingAssumption
       DEF InsertBid, GoTo, SetBid, TypeOK, PointsMatchJobs, HistoryKept,
           OneBidPerVendor, Absent, Held, TenderExists, BidExists,
           TenderStatuses, BidStatuses
  <1>9. ASSUME NEW s \in Slots, WriteEvaluation(s)
        PROVE  OneBidPerVendor'
    BY <1>0, <1>9, JobFacts, SourcingAssumption
       DEF WriteEvaluation, GoTo, SetBid, TypeOK, PointsMatchJobs, HistoryKept,
           OneBidPerVendor, BidExists, BidStatuses
  <1>10. ASSUME NEW s \in Slots, AcceptWinner(s)
        PROVE  OneBidPerVendor'
    BY <1>0, <1>10, JobFacts, SourcingAssumption
       DEF AcceptWinner, Answer, GoTo, SetBid, TypeOK, PointsMatchJobs,
           HistoryKept, OneBidPerVendor, BidExists, BidStatuses
  <1>11. ASSUME NEW s \in Slots, RejectLosers(s)
        PROVE  OneBidPerVendor'
    BY <1>0, <1>11, JobFacts, SourcingAssumption
       DEF RejectLosers, GoTo, TypeOK, PointsMatchJobs, HistoryKept,
           OneBidPerVendor, BidExists, BidStatuses
  <1>12. ASSUME NEW s \in Slots, PlaceOrder(s)
        PROVE  OneBidPerVendor'
    BY <1>0, <1>12, JobFacts, SourcingAssumption
       DEF PlaceOrder, Answer, GoTo, TypeOK, PointsMatchJobs, HistoryKept,
           OneBidPerVendor, BidExists, BidStatuses
  <1> QED
    BY <1>1, <1>2, <1>3, <1>4, <1>5, <1>6, <1>7, <1>8, <1>9, <1>10,
       <1>11, <1>12, RowSteps

\* What was done for a request stays done while the request is about the same.
LEMMA DoneStays ==
    ASSUME SourcingInv, [Next]_vars, NEW r \in Slots, Done(r),
           pc[r] # "idle" \/ answer[r] = "ok",
           job'[r] = job[r], target'[r] = target[r], found'[r] = found[r]
    PROVE  Done(r)'
  <1>1. TypeOK /\ PointsMatchJobs /\ HistoryKept /\ BidsEarned
    BY DEF SourcingInv
  <1>2. Grows
    BY RowsGrow
  <1>3. /\ job[r] \in Jobs
        /\ job[r].kind \in OnTender => target[r] \in Tenders
        /\ job[r].kind \in {"evaluate", "award"} => found[r] \in Bids
    BY <1>1, JobFacts DEF PointsMatchJobs
  <1>4. CASE job[r].kind = "award"
    <2>1. found[r] \in Bids /\ found[r] # NoBid /\ target[r] \in Tenders
      BY <1>3, <1>4, SourcingAssumption DEF OnTender
    <2>2. "AWARDED" \in visited'[target[r]] /\ "ACCEPTED" \in seen'[found[r]]
      BY <1>2, <1>4, <2>1 DEF Done, Grows
    <2>3. /\ bidOn[found[r]] \in Tenders
          /\ tstatus[bidOn[found[r]]] # Absent
      BY <1>1, <1>4, <2>1 DEF Done, HistoryKept, BidsEarned
    <2>4. bidOn'[found[r]] \in linked' => \E o \in Orders : order'[o] = found[r]
      BY <1>2, <1>4, <2>1, <2>3 DEF Done, Grows
    <2> QED
      BY <1>4, <2>2, <2>4 DEF Done
  <1>5. CASE job[r].kind = "submit"
    <2>1. target[r] \in Tenders
      BY <1>3, <1>5 DEF OnTender
    <2> QED
      BY <1>2, <1>5, <2>1 DEF Done, Grows
  <1>6. CASE job[r].kind \notin {"award", "submit"}
    BY <1>2, <1>3, <1>6 DEF Done, Grows, OnTender
  <1> QED
    BY <1>4, <1>5, <1>6

\* A request that waits while another one steps loses nothing it had in hand.
LEMMA EarnedStays ==
    ASSUME SourcingInv, [Next]_vars, NEW r \in Slots, pc[r] # "idle",
           pc'[r] = pc[r], job'[r] = job[r], target'[r] = target[r],
           found'[r] = found[r]
    PROVE  Earned(r)'
  <1>1. TypeOK /\ PointsMatchJobs /\ Earned(r)
    BY DEF SourcingInv, RequestsEarned
  <1>2. Grows
    BY RowsGrow
  <1>3. pc[r] = "emit" => Done(r)'
    BY <1>1, DoneStays DEF Earned
  <1>4. /\ job[r] \in Jobs
        /\ job[r].kind \in OnTender => target[r] \in Tenders
        /\ job[r].kind \in {"evaluate", "award"} => found[r] \in Bids
        /\ found[r] # NoBid => found[r] \in Bids
        /\ pc[r] = "lookup" => job[r].kind = "submit"
        /\ pc[r] \in {"winner", "losers", "order"} => job[r].kind = "award"
    BY <1>1, JobFacts DEF PointsMatchJobs, TypeOK
  <1>5. ASSUME pc[r] \in {"lookup", "write"}, job[r].kind = "submit"
        PROVE  /\ "PUBLISHED" \in visited'[target[r]]
               /\ VendorOf[job[r].user] # NoVendor
               /\ pc[r] = "write" /\ found[r] # NoBid =>
                    /\ bidOn'[found[r]] = target[r]
                    /\ bidder'[found[r]] = VendorOf[job[r].user]
    BY <1>1, <1>2, <1>4, <1>5 DEF Earned, Grows, OnTender
  <1>6. ASSUME pc[r] = "write", job[r].kind = "evaluate"
        PROVE  /\ found[r] \in Bids /\ target[r] \in Tenders
               /\ bidOn'[found[r]] = target[r]
               /\ "CLOSED" \in visited'[target[r]]
    <2>1. target[r] \in Tenders
      BY <1>1, <1>6 DEF Earned
    <2> QED
      BY <1>1, <1>2, <1>6, <2>1 DEF Earned, Grows
  <1>7. ASSUME pc[r] \in {"winner", "losers", "order"}
        PROVE  /\ "AWARDED" \in visited'[target[r]]
               /\ pc[r] # "winner" =>
                    "ACCEPTED" \in seen'[found[r]] /\ bidOn'[found[r]] \in Tenders
    BY <1>1, <1>2, <1>4, <1>7 DEF Earned, Grows, OnTender
  <1> QED
    BY <1>3, <1>5, <1>6, <1>7 DEF Earned

\* What a request has in hand after its own step.
LEMMA EarnedStep ==
    ASSUME SourcingInv, [Next]_vars, NEW s \in Slots, Step(s), pc'[s] # "idle"
    PROVE  Earned(s)'
  <1> USE DEF tenders, bids, request
  <1>0. /\ TypeOK /\ PointsMatchJobs /\ HistoryKept
        /\ pc[s] # "idle" => Earned(s)
    BY DEF SourcingInv, RequestsEarned
  <1>1. CASE InsertTender(s)
    BY <1>0, <1>1, JobFacts, SourcingAssumption
       DEF InsertTender, Answer, GoTo, SetTender, TypeOK, PointsMatchJobs,
           HistoryKept, Earned, Done, Absent, Gone
  <1>2. CASE WritePublished(s)
    <2>1. /\ target[s] \in Tenders /\ job[s].kind \in {"publish", "wfPublish"}
          /\ pc'[s] = "emit"
          /\ target'[s] = target[s] /\ job'[s] = job[s] /\ found'[s] = found[s]
      BY <1>0, <1>2, JobFacts
         DEF WritePublished, GoTo, Answer, TypeOK, PointsMatchJobs, OnTender
    <2>2. "PUBLISHED" \in visited'[target[s]]
      BY <1>0, <1>2, <2>1 DEF WritePublished, SetTender, TypeOK
    <2> QED
      BY <2>1, <2>2 DEF Earned, Done
  <1>3. CASE DeleteRow(s)
    <2>1. /\ target[s] \in Tenders /\ job[s].kind \in {"delete"}
          /\ pc'[s] = "emit"
          /\ target'[s] = target[s] /\ job'[s] = job[s] /\ found'[s] = found[s]
      BY <1>0, <1>3, JobFacts
         DEF DeleteRow, GoTo, Answer, TypeOK, PointsMatchJobs, OnTender
    <2>2. tstatus'[target[s]] = Gone
      BY <1>0, <1>3, <2>1 DEF DeleteRow, TypeOK
    <2> QED
      BY <2>1, <2>2 DEF Earned, Done
  <1>4. CASE WriteClosed(s)
    <2>1. /\ target[s] \in Tenders /\ job[s].kind \in {"close"}
          /\ pc'[s] = "emit"
          /\ target'[s] = target[s] /\ job'[s] = job[s] /\ found'[s] = found[s]
      BY <1>0, <1>4, JobFacts
         DEF WriteClosed, GoTo, Answer, TypeOK, PointsMatchJobs, OnTender
    <2>2. "CLOSED" \in visited'[target[s]]
      BY <1>0, <1>4, <2>1 DEF WriteClosed, SetTender, TypeOK
    <2> QED
      BY <2>1, <2>2 DEF Earned, Done
  <1>5. CASE WriteAwarded(s)
    <2>1. /\ target[s] \in Tenders /\ job[s].kind \in {"award"}
          /\ pc'[s] = "winner"
          /\ target'[s] = target[s] /\ job'[s] = job[s] /\ found'[s] = found[s]
      BY <1>0, <1>5, JobFacts
         DEF WriteAwarded, GoTo, Answer, TypeOK, PointsMatchJobs, OnTender
    <2>2. "AWARDED" \in visited'[target[s]]
      BY <1>0, <1>5, <2>1 DEF WriteAwarded, SetTender, TypeOK
    <2> QED
      BY <2>1, <2>2 DEF Earned, Done
  <1>6. CASE Resubmit(s)
    BY <1>0, <1>6, JobFacts, SourcingAssumption
       DEF Resubmit, GoTo, SetBid, TypeOK, PointsMatchJobs, HistoryKept,
           Earned, Done, Gone, BidExists, BidStatuses, Open
  <1>7. CASE InsertBid(s)
    BY <1>0, <1>7, JobFacts, SourcingAssumption
       DEF InsertBid, GoTo, SetBid, TypeOK, PointsMatchJobs, HistoryKept,
           Earned, Done, Absent, Gone, TenderExists, BidExists, TenderStatuses,
           BidStatuses, Open, Held
  <1>8. CASE WriteEvaluation(s)
    BY <1>0, <1>8, JobFacts, SourcingAssumption
       DEF WriteEvaluation, GoTo, SetBid, TypeOK, PointsMatchJobs, HistoryKept,
           Earned, Done, Gone, BidExists, BidStatuses
  <1>9. CASE AcceptWinner(s)
    BY <1>0, <1>9, JobFacts, SourcingAssumption
       DEF AcceptWinner, Answer, GoTo, SetBid, TypeOK, PointsMatchJobs,
           HistoryKept, Earned, Done, Gone, BidExists, BidStatuses
  <1>10. CASE RejectLosers(s)
    BY <1>0, <1>10, JobFacts, SourcingAssumption
       DEF RejectLosers, GoTo, TypeOK, PointsMatchJobs, HistoryKept, Earned,
           Done, Gone
  <1>11. CASE PlaceOrder(s)
    BY <1>0, <1>11, JobFacts, SourcingAssumption
       DEF PlaceOrder, Answer, GoTo, TypeOK, PointsMatchJobs, HistoryKept,
           Earned, Done, Gone
  <1>12. CASE ReadTender(s)
    BY <1>0, <1>12, JobFacts, SourcingAssumption
       DEF ReadTender, Answer, GoTo, TypeOK, PointsMatchJobs, HistoryKept,
           Earned, Done, Gone, TenderExists, TenderStatuses
  <1>13. CASE CountBids(s)
    BY <1>0, <1>13, JobFacts, SourcingAssumption
       DEF CountBids, Answer, GoTo, TypeOK, PointsMatchJobs, HistoryKept,
           Earned, Done, Gone, BidExists, BidStatuses
  <1>14. CASE WriteMissing(s)
    BY <1>0, <1>14, JobFacts, SourcingAssumption
       DEF WriteMissing, Answer, TypeOK, PointsMatchJobs, HistoryKept, Earned,
           Done, Gone, TenderExists, TenderStatuses
  <1>15. CASE WriteUpdate(s)
    BY <1>0, <1>15, JobFacts, SourcingAssumption
       DEF WriteUpdate, GoTo, TypeOK, PointsMatchJobs, HistoryKept, Earned,
           Done, Gone, TenderExists, TenderStatuses
  <1>16. CASE ReadForBid(s)
    <2>1. /\ target[s] \in Tenders /\ job[s].kind \in {"submit"}
          /\ pc'[s] = "lookup"
          /\ target'[s] = target[s] /\ job'[s] = job[s] /\ found'[s] = found[s]
      BY <1>0, <1>16, JobFacts
         DEF ReadForBid, GoTo, Answer, TypeOK, PointsMatchJobs, OnTender
    <2>2. "PUBLISHED" \in visited'[target[s]] /\ VendorOf[job[s].user] # NoVendor
      BY <1>0, <1>16, <2>1
         DEF ReadForBid, GoTo, Answer, Open, TypeOK, HistoryKept, TenderExists,
             TenderStatuses
    <2> QED
      BY <2>1, <2>2 DEF Earned, Done
  <1>17. CASE LookupBid(s)
    BY <1>0, <1>17, JobFacts, SourcingAssumption
       DEF LookupBid, GoTo, TypeOK, PointsMatchJobs, HistoryKept, Earned, Done,
           Gone, BidExists, BidStatuses, Held
  <1>18. CASE BidRefused(s)
    BY <1>0, <1>18, JobFacts, SourcingAssumption
       DEF BidRefused, Answer, TypeOK, PointsMatchJobs, HistoryKept, Earned,
           Done, Gone, TenderExists, BidExists, TenderStatuses, BidStatuses,
           Held
  <1>19. CASE ReadForEvaluation(s)
    BY <1>0, <1>19, JobFacts, SourcingAssumption
       DEF ReadForEvaluation, Answer, GoTo, TypeOK, PointsMatchJobs,
           HistoryKept, Earned, Done, Gone, BidExists, BidStatuses, MayEvaluate
  <1>20. CASE Emit(s)
    BY <1>0, <1>20, JobFacts, SourcingAssumption
       DEF Emit, Answer, TypeOK, PointsMatchJobs, HistoryKept, Earned, Done,
           Gone
  <1> QED
    BY <1>1, <1>2, <1>3, <1>4, <1>5, <1>6, <1>7, <1>8, <1>9, <1>10,
       <1>11, <1>12, <1>13, <1>14, <1>15, <1>16, <1>17, <1>18,
       <1>19, <1>20 DEF Step

\* Each slot takes the step or keeps what it has.
LEMMA WhoSteps ==
    ASSUME TypeOK, [Next]_vars, NEW r \in Slots
    PROVE  \/ Step(r)
           \/ \E j \in Jobs : Begin(r, j)
           \/ /\ pc'[r] = pc[r] /\ answer'[r] = answer[r] /\ job'[r] = job[r]
              /\ target'[r] = target[r] /\ found'[r] = found[r]
  <1>1. ASSUME NEW t \in Tenders, Deadline(t)
        PROVE  UNCHANGED <<pc, answer, job, target, found>>
    BY <1>1 DEF Deadline, request
  <1>2. CASE UNCHANGED vars
    BY <1>2 DEF vars
  <1> QED
    BY <1>1, <1>2, OthersStay DEF Next

\* Every request has earned what it has in hand.
LEMMA RequestsNext == SourcingInv /\ [Next]_vars => RequestsEarned'
  <1> SUFFICES ASSUME SourcingInv, [Next]_vars, NEW r \in Slots, pc'[r] # "idle"
               PROVE  Earned(r)'
    BY DEF RequestsEarned
  <1>0. TypeOK
    BY DEF SourcingInv
  <1>1. CASE Step(r)
    BY <1>1, EarnedStep
  <1>2. ASSUME NEW j \in Jobs, Begin(r, j)
        PROVE  Earned(r)'
    <2>1. job'[r] = j /\ pc'[r] \in {"insert", "read", "write"}
      BY <1>0, <1>2 DEF Begin, TypeOK
    <2>2. pc'[r] = "write" => j.kind \in {"close", "award"}
      BY <1>0, <1>2, JobFacts DEF Begin, TypeOK
    <2> QED
      BY <2>1, <2>2 DEF Earned
  <1>3. CASE /\ pc'[r] = pc[r] /\ job'[r] = job[r] /\ target'[r] = target[r]
             /\ found'[r] = found[r]
    BY <1>3, EarnedStays
  <1> QED
    BY <1>0, <1>1, <1>2, <1>3, WhoSteps

\* Success is the answer of the last program point.
LEMMA SuccessIsLast ==
    ASSUME TypeOK, PointsMatchJobs, NEW s \in Slots, Step(s), answer'[s] = "ok"
    PROVE  pc[s] = "emit" /\ UNCHANGED request
  <1>1. pc[s] # "idle"
    BY DEF Step, InsertTender, WritePublished, DeleteRow, WriteClosed,
       WriteAwarded, Resubmit, InsertBid, WriteEvaluation, AcceptWinner,
       RejectLosers, PlaceOrder, ReadTender, CountBids, WriteMissing,
       WriteUpdate, ReadForBid, LookupBid, BidRefused, ReadForEvaluation, Emit
  <1>2. answer[s] # "ok"
    BY <1>1 DEF PointsMatchJobs
  <1> USE DEF GoTo, Answer, TypeOK
  <1>3. CASE \/ InsertTender(s) \/ WritePublished(s) \/ DeleteRow(s)
             \/ WriteClosed(s)
    BY <1>2, <1>3 DEF InsertTender, WritePublished, DeleteRow, WriteClosed
  <1>4. CASE \/ WriteAwarded(s) \/ Resubmit(s) \/ InsertBid(s)
             \/ WriteEvaluation(s)
    BY <1>2, <1>4 DEF WriteAwarded, Resubmit, InsertBid, WriteEvaluation
  <1>5. CASE \/ AcceptWinner(s) \/ RejectLosers(s) \/ PlaceOrder(s)
    BY <1>2, <1>5 DEF AcceptWinner, RejectLosers, PlaceOrder
  <1>6. CASE \/ ReadTender(s) \/ CountBids(s) \/ WriteMissing(s)
             \/ WriteUpdate(s) \/ ReadForBid(s)
    BY <1>2, <1>6
       DEF ReadTender, CountBids, WriteMissing, WriteUpdate, ReadForBid
  <1>7. CASE \/ LookupBid(s) \/ BidRefused(s) \/ ReadForEvaluation(s)
    BY <1>2, <1>7 DEF LookupBid, BidRefused, ReadForEvaluation
  <1>8. CASE Emit(s)
    BY <1>8 DEF Emit
  <1> QED
    BY <1>3, <1>4, <1>5, <1>6, <1>7, <1>8 DEF Step

\* What a successful request answered for is done, and stays done.
LEMMA OkNext == SourcingInv /\ [Next]_vars => OkMeansDone'
  <1> SUFFICES ASSUME SourcingInv, [Next]_vars, NEW r \in Slots, answer'[r] = "ok"
               PROVE  Done(r)'
    BY DEF OkMeansDone
  <1>0. TypeOK /\ PointsMatchJobs /\ OkMeansDone
    BY DEF SourcingInv
  <1>1. CASE Step(r)
    <2>1. pc[r] = "emit" /\ UNCHANGED request
      BY <1>0, <1>1, SuccessIsLast
    <2>2. Done(r)
      BY <2>1 DEF SourcingInv, RequestsEarned, Earned
    <2> QED
      BY <2>1, <2>2, DoneStays DEF request
  <1>2. ASSUME NEW j \in Jobs, Begin(r, j)
        PROVE  FALSE
    BY <1>0, <1>2 DEF Begin, TypeOK
  <1>3. CASE /\ answer'[r] = answer[r] /\ job'[r] = job[r]
             /\ target'[r] = target[r] /\ found'[r] = found[r]
    BY <1>0, <1>3, DoneStays DEF OkMeansDone
  <1> QED
    BY <1>0, <1>1, <1>2, <1>3, WhoSteps

-----------------------------------------------------------------------------

\* A tender that takes bids has none that came late.
LEMMA OnTimeNext == SourcingInv /\ [Next]_vars => OnTime'
  <1> SUFFICES ASSUME SourcingInv, [Next]_vars
               PROVE  OnTime'
    OBVIOUS
  <1> USE DEF tenders, bids, request
  <1>0. TypeOK /\ PointsMatchJobs /\ OnTime
    BY DEF SourcingInv
  <1>1. ASSUME NEW s \in Slots, NEW j \in Jobs, Begin(s, j)
        PROVE  OnTime'
    BY <1>0, <1>1, JobFacts DEF Begin, TypeOK, PointsMatchJobs, OnTime, Open
  <1>2. ASSUME NEW t \in Tenders, Deadline(t)
        PROVE  OnTime'
    BY <1>0, <1>2 DEF Deadline, TypeOK, PointsMatchJobs, OnTime, Open
  <1>3. ASSUME NEW s \in Slots, InsertTender(s)
        PROVE  OnTime'
    BY <1>0, <1>3, JobFacts
       DEF InsertTender, Answer, GoTo, SetTender, TypeOK, PointsMatchJobs,
           OnTime, Open, Absent
  <1>4. ASSUME NEW s \in Slots, WritePublished(s)
        PROVE  OnTime'
    BY <1>0, <1>4, JobFacts
       DEF WritePublished, GoTo, SetTender, TypeOK, PointsMatchJobs, OnTime,
           Open
  <1>5. ASSUME NEW s \in Slots, DeleteRow(s)
        PROVE  OnTime'
    BY <1>0, <1>5, JobFacts
       DEF DeleteRow, GoTo, TypeOK, PointsMatchJobs, OnTime, Open, Gone
  <1>6. ASSUME NEW s \in Slots, WriteClosed(s)
        PROVE  OnTime'
    BY <1>0, <1>6, JobFacts
       DEF WriteClosed, GoTo, SetTender, TypeOK, PointsMatchJobs, OnTime, Open
  <1>7. ASSUME NEW s \in Slots, WriteAwarded(s)
        PROVE  OnTime'
    BY <1>0, <1>7, JobFacts
       DEF WriteAwarded, GoTo, SetTender, TypeOK, PointsMatchJobs, OnTime, Open
  <1>8. ASSUME NEW s \in Slots, Resubmit(s)
        PROVE  OnTime'
    BY <1>0, <1>8, JobFacts
       DEF Resubmit, GoTo, SetBid, TypeOK, PointsMatchJobs, OnTime, Open,
           CountLate
  <1>9. ASSUME NEW s \in Slots, InsertBid(s)
        PROVE  OnTime'
    BY <1>0, <1>9, JobFacts
       DEF InsertBid, GoTo, SetBid, TypeOK, PointsMatchJobs, OnTime, Open,
           CountLate, Absent
  <1>10. ASSUME NEW s \in Slots, WriteEvaluation(s)
        PROVE  OnTime'
    BY <1>0, <1>10, JobFacts
       DEF WriteEvaluation, GoTo, SetBid, TypeOK, PointsMatchJobs, OnTime, Open
  <1>11. ASSUME NEW s \in Slots, AcceptWinner(s)
        PROVE  OnTime'
    BY <1>0, <1>11, JobFacts
       DEF AcceptWinner, Answer, GoTo, SetBid, TypeOK, PointsMatchJobs, OnTime,
           Open
  <1>12. ASSUME NEW s \in Slots, RejectLosers(s)
        PROVE  OnTime'
    BY <1>0, <1>12, JobFacts
       DEF RejectLosers, GoTo, TypeOK, PointsMatchJobs, OnTime, Open
  <1>13. ASSUME NEW s \in Slots, PlaceOrder(s)
        PROVE  OnTime'
    BY <1>0, <1>13, JobFacts
       DEF PlaceOrder, Answer, GoTo, TypeOK, PointsMatchJobs, OnTime, Open
  <1>14. ASSUME NEW s \in Slots, ReadTender(s)
        PROVE  OnTime'
    BY <1>0, <1>14, JobFacts
       DEF ReadTender, Answer, GoTo, TypeOK, PointsMatchJobs, OnTime, Open
  <1>15. ASSUME NEW s \in Slots, CountBids(s)
        PROVE  OnTime'
    BY <1>0, <1>15, JobFacts
       DEF CountBids, Answer, GoTo, TypeOK, PointsMatchJobs, OnTime, Open
  <1>16. ASSUME NEW s \in Slots, WriteMissing(s)
        PROVE  OnTime'
    BY <1>0, <1>16, JobFacts
       DEF WriteMissing, Answer, TypeOK, PointsMatchJobs, OnTime, Open
  <1>17. ASSUME NEW s \in Slots, WriteUpdate(s)
        PROVE  OnTime'
    BY <1>0, <1>17, JobFacts
       DEF WriteUpdate, GoTo, TypeOK, PointsMatchJobs, OnTime, Open
  <1>18. ASSUME NEW s \in Slots, ReadForBid(s)
        PROVE  OnTime'
    BY <1>0, <1>18, JobFacts
       DEF ReadForBid, Answer, GoTo, TypeOK, PointsMatchJobs, OnTime, Open
  <1>19. ASSUME NEW s \in Slots, LookupBid(s)
        PROVE  OnTime'
    BY <1>0, <1>19, JobFacts
       DEF LookupBid, GoTo, TypeOK, PointsMatchJobs, OnTime, Open
  <1>20. ASSUME NEW s \in Slots, BidRefused(s)
        PROVE  OnTime'
    BY <1>0, <1>20, JobFacts
       DEF BidRefused, Answer, TypeOK, PointsMatchJobs, OnTime, Open
  <1>21. ASSUME NEW s \in Slots, ReadForEvaluation(s)
        PROVE  OnTime'
    BY <1>0, <1>21, JobFacts
       DEF ReadForEvaluation, Answer, GoTo, TypeOK, PointsMatchJobs, OnTime,
           Open
  <1>22. ASSUME NEW s \in Slots, Emit(s)
        PROVE  OnTime'
    BY <1>0, <1>22, JobFacts
       DEF Emit, Answer, TypeOK, PointsMatchJobs, OnTime, Open
  <1>23. CASE UNCHANGED vars
    BY <1>0, <1>23 DEF vars, OnTime, Open
  <1> QED
    BY <1>1, <1>2, <1>3, <1>4, <1>5, <1>6, <1>7, <1>8, <1>9, <1>10,
       <1>11, <1>12, <1>13, <1>14, <1>15, <1>16, <1>17, <1>18,
       <1>19, <1>20, <1>21, <1>22, <1>23 DEF Next, Step

\* Only the check of an open tender adds to the submissions on their way.
LEMMA SubmittingShrinks ==
    ASSUME SourcingInv, [Next]_vars, NEW t \in Tenders, ~Open(t)'
    PROVE  Submitting(t)' \subseteq Submitting(t)
  <1> SUFFICES ASSUME NEW r \in Submitting(t)'
               PROVE  r \in Submitting(t)
    OBVIOUS
  <1> USE DEF tenders, bids, request
  <1>0. /\ TypeOK /\ PointsMatchJobs
        /\ r \in Slots /\ job'[r] \in Jobs /\ job'[r].kind = "submit"
        /\ target'[r] = t /\ pc'[r] \in {"lookup", "write"}
    BY DEF Submitting, SourcingInv
  <1>1. CASE \/ InsertTender(r) \/ WritePublished(r) \/ DeleteRow(r)
             \/ WriteClosed(r) \/ WriteAwarded(r)
    BY <1>0, JobFacts, <1>1
       DEF InsertTender, WritePublished, DeleteRow, WriteClosed, WriteAwarded,
           GoTo, Answer, TypeOK, PointsMatchJobs
  <1>2. CASE \/ Resubmit(r) \/ InsertBid(r) \/ WriteEvaluation(r)
             \/ AcceptWinner(r) \/ RejectLosers(r)
    BY <1>0, JobFacts, <1>2
       DEF Resubmit, InsertBid, WriteEvaluation, AcceptWinner, RejectLosers,
           GoTo, Answer, TypeOK, PointsMatchJobs
  <1>3. CASE \/ PlaceOrder(r) \/ ReadTender(r) \/ CountBids(r)
             \/ WriteMissing(r) \/ WriteUpdate(r)
    BY <1>0, JobFacts, <1>3
       DEF PlaceOrder, ReadTender, CountBids, WriteMissing, WriteUpdate, GoTo,
           Answer, TypeOK, PointsMatchJobs
  <1>4. CASE \/ BidRefused(r) \/ ReadForEvaluation(r) \/ Emit(r)
    BY <1>0, JobFacts, <1>4
       DEF BidRefused, ReadForEvaluation, Emit, GoTo, Answer, TypeOK,
           PointsMatchJobs
  <1>6. CASE ReadForBid(r)
    BY <1>0, <1>6 DEF ReadForBid, GoTo, Answer, TypeOK, Open
  <1>7. CASE LookupBid(r)
    BY <1>0, <1>7 DEF LookupBid, GoTo, TypeOK, PointsMatchJobs, Submitting
  <1>8. ASSUME NEW j \in Jobs, Begin(r, j)
        PROVE  FALSE
    BY <1>0, <1>8 DEF Begin, TypeOK
  <1>9. CASE pc'[r] = pc[r] /\ job'[r] = job[r] /\ target'[r] = target[r]
    BY <1>0, <1>9 DEF Submitting
  <1> QED
    BY <1>0, <1>1, <1>2, <1>3, <1>4, <1>6, <1>7, <1>8, <1>9, WhoSteps DEF Step

\* Only a submission that was on its way comes late.
LEMMA LateGrows ==
    ASSUME SourcingInv, [Next]_vars, NEW t \in Tenders, ~Open(t)'
    PROVE  \/ late'[t] <= late[t]
           \/ /\ ~Open(t)
              /\ late'[t] = late[t] + 1
              /\ \E s \in Submitting(t) : s \notin Submitting(t)'
  <1> USE DEF tenders, bids, request
  <1>0. TypeOK /\ PointsMatchJobs /\ late[t] \in Nat
    BY DEF SourcingInv, TypeOK
  <1>1. ASSUME NEW s \in Slots, Resubmit(s) \/ InsertBid(s)
        PROVE  \/ late'[t] <= late[t]
               \/ /\ ~Open(t)
                  /\ late'[t] = late[t] + 1
                  /\ \E r \in Submitting(t) : r \notin Submitting(t)'
    <2>1. /\ CountLate(target[s]) /\ UNCHANGED <<tstatus, expired>>
          /\ pc[s] = "write" /\ pc'[s] = "emit" /\ job[s].kind = "submit"
          /\ job[s] \in Jobs
      BY <1>0, <1>1 DEF Resubmit, InsertBid, GoTo, TypeOK, PointsMatchJobs
    <2>2. CASE target[s] = t
      <3>1. ~Open(t)
        BY <2>1 DEF Open
      <3>2. late'[t] = late[t] + 1
        BY <1>0, <2>1, <2>2, <3>1 DEF CountLate, TypeOK
      <3>3. s \in Submitting(t) /\ s \notin Submitting(t)'
        BY <2>1, <2>2 DEF Submitting
      <3> QED
        BY <3>1, <3>2, <3>3
    <2>3. CASE target[s] # t
      BY <1>0, <2>1, <2>3 DEF CountLate, TypeOK
    <2> QED
      BY <2>2, <2>3
  <1>2. ASSUME NEW s \in Slots, WriteUpdate(s) \/ WritePublished(s)
        PROVE  late'[t] <= late[t]
    BY <1>0, <1>2 DEF WriteUpdate, WritePublished, TypeOK
  <1>3. ASSUME NEW s \in Slots, Step(s), ~Resubmit(s), ~InsertBid(s),
               ~WriteUpdate(s), ~WritePublished(s)
        PROVE  late' = late
    BY <1>3
       DEF Step, InsertTender, DeleteRow, WriteClosed, WriteAwarded,
           WriteEvaluation, AcceptWinner, RejectLosers, PlaceOrder, ReadTender,
           CountBids, WriteMissing, ReadForBid, LookupBid, BidRefused,
           ReadForEvaluation, Emit
  <1>4. ASSUME NEW s \in Slots, NEW j \in Jobs, Begin(s, j)
        PROVE  late' = late
    BY <1>4 DEF Begin
  <1>5. ASSUME NEW u \in Tenders, Deadline(u)
        PROVE  late' = late
    BY <1>5 DEF Deadline
  <1>6. CASE UNCHANGED vars
    BY <1>0, <1>6 DEF vars
  <1> QED
    BY <1>0, <1>1, <1>2, <1>3, <1>4, <1>5, <1>6 DEF Next

\* Late submissions and those on their way are no more than the slots.
LEMMA TailNext == SourcingInv /\ [Next]_vars => TailBounded'
  <1> SUFFICES ASSUME SourcingInv, [Next]_vars, NEW t \in Tenders, ~Open(t)'
               PROVE  late'[t] + Cardinality(Submitting(t)') <= Cardinality(Slots)
    BY DEF TailBounded
  <1> DEFINE sub == Submitting(t)
             nxt == Submitting(t)'
  <1>1. late[t] \in Nat /\ late'[t] \in Nat
    BY TypeNext DEF SourcingInv, TypeOK
  <1>2. nxt \subseteq sub /\ sub \subseteq Slots
    BY SubmittingShrinks DEF Submitting
  <1>3. /\ IsFiniteSet(sub) /\ IsFiniteSet(nxt) /\ IsFiniteSet(Slots)
        /\ Cardinality(nxt) <= Cardinality(sub)
        /\ Cardinality(sub) <= Cardinality(Slots)
    BY <1>2, FS_Subset, SourcingAssumption
  <1>4. /\ Cardinality(sub) \in Nat /\ Cardinality(nxt) \in Nat
        /\ Cardinality(Slots) \in Nat
    BY <1>3, FS_CardinalityType
  <1>5. Open(t) => late[t] = 0
    BY DEF SourcingInv, OnTime
  <1>6. ~Open(t) => late[t] + Cardinality(sub) <= Cardinality(Slots)
    BY DEF SourcingInv, TailBounded
  <1>7. ASSUME late'[t] <= late[t]
        PROVE  late'[t] + Cardinality(nxt) <= Cardinality(Slots)
    <2> HIDE DEF sub, nxt
    <2> QED
      BY <1>1, <1>3, <1>4, <1>5, <1>6, <1>7
  <1>8. ASSUME ~Open(t), late'[t] = late[t] + 1, NEW s \in sub, s \notin nxt
        PROVE  late'[t] + Cardinality(nxt) <= Cardinality(Slots)
    <2>1. /\ IsFiniteSet(sub \ {s})
          /\ Cardinality(sub \ {s}) = Cardinality(sub) - 1
      BY <1>3, <1>8, FS_RemoveElement
    <2>2. nxt \subseteq sub \ {s}
      BY <1>2, <1>8
    <2>3. Cardinality(nxt) <= Cardinality(sub) - 1
      BY <2>1, <2>2, FS_Subset
    <2> HIDE DEF sub, nxt
    <2> QED
      BY <1>1, <1>4, <1>6, <1>8, <2>3
  <1> QED
    BY <1>7, <1>8, LateGrows

-----------------------------------------------------------------------------
\* The other actions pay for no order and place none.
LEMMA QuietOrders ==
    ASSUME SourcingInv, [Next]_vars,
           \A s \in Slots : ~AcceptWinner(s) /\ ~PlaceOrder(s)
    PROVE  /\ order' = order /\ wins' = wins
           /\ \A b \in Bids : Ordering(b)' \subseteq Ordering(b)
  <1> USE DEF tenders, bids, request
  <1>0. TypeOK /\ PointsMatchJobs
    BY DEF SourcingInv
  <1>1. order' = order /\ wins' = wins
    <2>1. CASE UNCHANGED rows
      BY <2>1 DEF rows
    <2>2. ASSUME NEW s \in Slots,
                 \/ InsertTender(s) \/ WritePublished(s) \/ DeleteRow(s)
                 \/ WriteClosed(s) \/ WriteAwarded(s) \/ Resubmit(s)
                 \/ InsertBid(s) \/ WriteEvaluation(s) \/ RejectLosers(s)
          PROVE  order' = order /\ wins' = wins
      BY <2>2 DEF InsertTender, WritePublished, DeleteRow, WriteClosed,
           WriteAwarded, Resubmit, InsertBid, WriteEvaluation, RejectLosers
    <2> QED
      BY <2>1, <2>2, RowSteps
  <1>2. ASSUME NEW b \in Bids, NEW r \in Ordering(b)'
        PROVE  r \in Ordering(b)
    <2>0. r \in Slots /\ pc'[r] \in {"losers", "order"} /\ found'[r] = b
      BY <1>2 DEF Ordering
    <2>1. CASE RejectLosers(r)
      BY <1>0, <2>0, <2>1 DEF RejectLosers, Ordering
    <2>2. ASSUME Step(r), ~RejectLosers(r)
          PROVE  FALSE
      <3> USE DEF GoTo, Answer, TypeOK
      <3>1. CASE \/ InsertTender(r) \/ WritePublished(r) \/ DeleteRow(r)
                 \/ WriteClosed(r) \/ WriteAwarded(r) \/ Resubmit(r)
        BY <1>0, <2>0, <3>1
           DEF InsertTender, WritePublished, DeleteRow, WriteClosed,
               WriteAwarded, Resubmit
      <3>2. CASE \/ InsertBid(r) \/ WriteEvaluation(r) \/ ReadTender(r)
                 \/ CountBids(r) \/ WriteMissing(r) \/ WriteUpdate(r)
        BY <1>0, <2>0, <3>2
           DEF InsertBid, WriteEvaluation, ReadTender, CountBids, WriteMissing,
               WriteUpdate
      <3>3. CASE \/ ReadForBid(r) \/ LookupBid(r) \/ BidRefused(r)
                 \/ ReadForEvaluation(r) \/ Emit(r)
        BY <1>0, <2>0, <3>3
           DEF ReadForBid, LookupBid, BidRefused, ReadForEvaluation, Emit
      <3> QED
        BY <2>0, <2>2, <3>1, <3>2, <3>3 DEF Step
    <2>3. ASSUME NEW j \in Jobs, Begin(r, j)
          PROVE  FALSE
      BY <1>0, <2>0, <2>3 DEF Begin, TypeOK
    <2>4. CASE pc'[r] = pc[r] /\ found'[r] = found[r]
      BY <2>0, <2>4 DEF Ordering
    <2> QED
      BY <1>0, <2>0, <2>1, <2>2, <2>3, <2>4, WhoSteps
  <1> QED
    BY <1>1, <1>2

\* Sizes in the count of orders.
LEMMA OrderSizes ==
    ASSUME NEW b
    PROVE  /\ IsFiniteSet(OrdersOf(b)) /\ IsFiniteSet(Ordering(b))
           /\ Cardinality(OrdersOf(b)) \in Nat /\ Cardinality(Ordering(b)) \in Nat
           /\ IsFiniteSet(OrdersOf(b)') /\ IsFiniteSet(Ordering(b)')
           /\ Cardinality(OrdersOf(b)') \in Nat /\ Cardinality(Ordering(b)') \in Nat
  <1>1. /\ OrdersOf(b) \subseteq Orders /\ OrdersOf(b)' \subseteq Orders
        /\ Ordering(b) \subseteq Slots /\ Ordering(b)' \subseteq Slots
    BY DEF OrdersOf, Ordering
  <1>2. /\ IsFiniteSet(OrdersOf(b)) /\ IsFiniteSet(OrdersOf(b)')
        /\ IsFiniteSet(Ordering(b)) /\ IsFiniteSet(Ordering(b)')
    BY <1>1, FS_Subset, SourcingAssumption
  <1> QED
    BY <1>2, FS_CardinalityType

\* A bid has no more orders, placed or on their way, than acceptances.
LEMMA OrdersNext == SourcingInv /\ [Next]_vars => OrdersPaid'
  <1> SUFFICES ASSUME SourcingInv, [Next]_vars, NEW b \in Bids
               PROVE  Cardinality(OrdersOf(b)') + Cardinality(Ordering(b)') <= wins'[b]
    BY DEF OrdersPaid
  <1> USE DEF tenders, bids, request
  <1> DEFINE os == OrdersOf(b)
             ns == OrdersOf(b)'
             og == Ordering(b)
             ng == Ordering(b)'
  <1>0. TypeOK /\ Cardinality(os) + Cardinality(og) <= wins[b] /\ wins[b] \in Nat
    BY DEF SourcingInv, OrdersPaid, TypeOK
  <1>1. /\ IsFiniteSet(os) /\ IsFiniteSet(og) /\ IsFiniteSet(ns) /\ IsFiniteSet(ng)
        /\ Cardinality(os) \in Nat /\ Cardinality(og) \in Nat
        /\ Cardinality(ns) \in Nat /\ Cardinality(ng) \in Nat
    BY OrderSizes
  <1>2. ASSUME \A s \in Slots : ~AcceptWinner(s) /\ ~PlaceOrder(s)
        PROVE  Cardinality(ns) + Cardinality(ng) <= wins'[b]
    <2>1. ns = os /\ wins' = wins /\ ng \subseteq og
      BY <1>2, QuietOrders DEF OrdersOf
    <2>2. Cardinality(ng) <= Cardinality(og)
      BY <1>1, <2>1, FS_Subset
    <2> HIDE DEF os, ns, og, ng
    <2> QED
      BY <1>0, <1>1, <2>1, <2>2
  <1>3. ASSUME NEW s \in Slots, AcceptWinner(s)
        PROVE  Cardinality(ns) + Cardinality(ng) <= wins'[b]
    <2>1. ns = os
      BY <1>3 DEF AcceptWinner, OrdersOf
    <2>2. pc[s] = "winner" /\ s \notin og
      BY <1>3 DEF AcceptWinner, Ordering
    <2>3. CASE pc'[s] = "losers" /\ found[s] = b
      <3>1. ng = og \cup {s} /\ wins'[b] = wins[b] + 1
        BY <1>0, <1>3, <2>3 DEF AcceptWinner, GoTo, Answer, TypeOK, Ordering
      <3>2. Cardinality(ng) = Cardinality(og) + 1
        BY <1>1, <2>2, <3>1, FS_AddElement
      <3> HIDE DEF os, ns, og, ng
      <3> QED
        BY <1>0, <1>1, <2>1, <3>1, <3>2
    <2>4. CASE ~(pc'[s] = "losers" /\ found[s] = b)
      <3>1. ng = og /\ wins'[b] >= wins[b] /\ wins'[b] \in Nat
        BY <1>0, <1>3, <2>2, <2>4
           DEF AcceptWinner, GoTo, Answer, TypeOK, Ordering
      <3> HIDE DEF os, ns, og, ng
      <3> QED
        BY <1>0, <1>1, <2>1, <3>1
    <2> QED
      BY <2>3, <2>4
  <1>4. ASSUME NEW s \in Slots, PlaceOrder(s)
        PROVE  Cardinality(ns) + Cardinality(ng) <= wins'[b]
    <2>1. /\ wins' = wins /\ pc[s] = "order" /\ pc'[s] \in {"emit", "idle"}
          /\ found' = found /\ \A r \in Slots \ {s} : pc'[r] = pc[r]
      BY <1>0, <1>4 DEF PlaceOrder, GoTo, Answer, TypeOK
    <2>2. ng = og \ {s}
      BY <2>1 DEF Ordering
    <2>3. CASE found[s] # b
      <3>1. ns = os /\ ng \subseteq og
        BY <1>0, <1>4, <2>2, <2>3, SourcingAssumption
           DEF PlaceOrder, TypeOK, OrdersOf
      <3>2. Cardinality(ng) <= Cardinality(og)
        BY <1>1, <3>1, FS_Subset
      <3> HIDE DEF os, ns, og, ng
      <3> QED
        BY <1>0, <1>1, <2>1, <3>1, <3>2
    <2>4. CASE found[s] = b
      <3>1. s \in og
        BY <2>1, <2>4 DEF Ordering
      <3>2. Cardinality(ng) = Cardinality(og) - 1
        BY <1>1, <2>2, <3>1, FS_RemoveElement
      <3>3. ASSUME NEW o \in Orders, order' = [order EXCEPT ![o] = b],
                   order[o] = NoBid
            PROVE  Cardinality(ns) <= Cardinality(os) + 1
        <4>1. ns = os \cup {o} /\ o \notin os
          BY <1>0, <3>3, SourcingAssumption DEF TypeOK, OrdersOf
        <4> QED
          BY <1>1, <4>1, FS_AddElement
      <3>4. Cardinality(ns) <= Cardinality(os) + 1
        <4>1. CASE order' = order
          <5>1. ns = os
            BY <4>1 DEF OrdersOf
          <5> HIDE DEF os, ns
          <5> QED
            BY <1>1, <5>1
        <4> QED
          BY <1>4, <2>4, <3>3, <4>1 DEF PlaceOrder
      <3> HIDE DEF os, ns, og, ng
      <3> QED
        BY <1>0, <1>1, <2>1, <3>2, <3>4
    <2> QED
      BY <2>3, <2>4
  <1> QED
    BY <1>2, <1>3, <1>4

-----------------------------------------------------------------------------
\* The invariant holds at the start.
LEMMA InvInit == Init => SourcingInv
  <1> SUFFICES ASSUME Init
               PROVE  SourcingInv
    OBVIOUS
  <1>1. TypeOK
    BY TypeInit
  <1>2. PointsMatchJobs /\ RequestsEarned /\ OkMeansDone /\ OnTime
    BY DEF Init, PointsMatchJobs, RequestsEarned, OkMeansDone, OnTime
  <1>3. HistoryKept /\ BidsEarned
    <2>1. \A b \in DOMAIN Drafts : Drafts[b].tender \in Seeded
      BY DEF Seeded
    <2> QED
      BY <1>1, <2>1, SourcingAssumption
         DEF Init, TypeOK, HistoryKept, BidsEarned, TenderExists, BidExists,
             TenderStatuses, BidStatuses, Absent
  <1>4. OrdersPaid
    <2> SUFFICES ASSUME NEW b \in Bids
                 PROVE  Cardinality(OrdersOf(b)) + Cardinality(Ordering(b)) <= wins[b]
      BY DEF OrdersPaid
    <2>1. OrdersOf(b) = {} /\ Ordering(b) = {} /\ wins[b] = 0
      BY SourcingAssumption DEF Init, OrdersOf, Ordering
    <2> QED
      BY <2>1, FS_EmptySet
  <1>5. TailBounded
    <2> SUFFICES ASSUME NEW t \in Tenders
                 PROVE  late[t] + Cardinality(Submitting(t)) <= Cardinality(Slots)
      BY DEF TailBounded
    <2>1. Submitting(t) = {} /\ late[t] = 0
      BY SourcingAssumption DEF Init, Submitting
    <2>2. Cardinality(Slots) \in Nat
      BY SourcingAssumption, FS_CardinalityType
    <2> QED
      BY <2>1, <2>2, FS_EmptySet
  <1>6. OneBidPerVendor
    <2>1. ASSUME NEW b \in Bids, BidExists(b)
          PROVE  /\ b \in DOMAIN Drafts /\ bidOn[b] = Drafts[b].tender
                 /\ bidder[b] = Drafts[b].vendor
      BY <2>1 DEF Init, BidExists, BidStatuses, Absent
    <2>2. ASSUME NEW b \in DOMAIN Drafts, NEW c \in DOMAIN Drafts,
                 Drafts[b].tender = Drafts[c].tender,
                 Drafts[b].vendor = Drafts[c].vendor
          PROVE  b = c
      BY <2>2, SourcingAssumption
    <2> QED
      BY <2>1, <2>2 DEF OneBidPerVendor
  <1> QED
    BY <1>1, <1>2, <1>3, <1>4, <1>5, <1>6 DEF SourcingInv

\* The inductive invariant holds in every reachable state, whatever requests
\* interleave.
THEOREM SourcingInvariance == Spec => []SourcingInv
  <1>1. SourcingInv /\ [Next]_vars => SourcingInv'
    BY TypeNext, PointsNext, HistoryNext, BidsEarnedNext, RequestsNext,
       OnTimeNext, OrdersNext, TailNext, OneBidNext, OkNext DEF SourcingInv
  <1> QED
    BY InvInit, <1>1, PTL DEF Spec

\* submitBid: of the requests that passed the check while the tender took bids,
\* at most one for each slot lands after it has stopped.
THEOREM SourcingTailBounded == Spec => []TailBounded
  <1>1. SourcingInv => TailBounded
    BY DEF SourcingInv
  <1> QED
    BY <1>1, SourcingInvariance, PTL

\* submitBid, bids_tenderId_vendorId_key: a vendor has one bid on a tender.
THEOREM SourcingOneBidPerVendor == Spec => []OneBidPerVendor
  <1>1. SourcingInv => OneBidPerVendor
    BY DEF SourcingInv
  <1> QED
    BY <1>1, SourcingInvariance, PTL

\* publishTender, submitBid, evaluateBid, awardTender: a request answered with
\* success has done what it was asked for.
THEOREM SourcingOkMeansDone == Spec => []OkMeansDone
  <1>1. SourcingInv => OkMeansDone
    BY DEF SourcingInv
  <1> QED
    BY <1>1, SourcingInvariance, PTL

-----------------------------------------------------------------------------
\* The rows start as a dossier starts.
LEMMA DossierInit == Init => Dossier!Init
  <1> SUFFICES ASSUME Init
               PROVE  Dossier!Init
    OBVIOUS
  <1>1. \A b \in DOMAIN Drafts : Drafts[b].tender \in Seeded
    BY DEF Seeded
  <1>2. /\ \A t \in Tenders : /\ "PUBLISHED" \in visited[t] <=> t \in Seeded
                              /\ "DRAFT" \in visited[t] <=> t \in Seeded
                              /\ "CLOSED" \notin visited[t]
                              /\ "AWARDED" \notin visited[t]
        /\ \A b \in Bids : seen[b] \subseteq {"DRAFT"}
    BY DEF Init
  <1>3. bidOn \in [Bids -> {t \in Tenders : "PUBLISHED" \in visited[t]} \cup {NoTender}]
    BY <1>1, <1>2, SourcingAssumption DEF Init
  <1> QED
    BY <1>2, <1>3 DEF Init, Dossier!Init

\* Each step of the service enters facts in their order or none.
LEMMA DossierNext == SourcingInv /\ [Next]_vars => [Dossier!Next]_(Dossier!vars)
  <1> SUFFICES ASSUME SourcingInv, [Next]_vars
               PROVE  [Dossier!Next]_(Dossier!vars)
    OBVIOUS
  <1> USE DEF tenders, bids, request
  <1>0. /\ TypeOK /\ PointsMatchJobs /\ HistoryKept /\ OrdersPaid
        /\ \A s \in Slots : pc[s] # "idle" => Earned(s)
        /\ \A s \in Slots : pc[s] # "idle" =>
             /\ job[s] \in Jobs
             /\ job[s].kind \in OnTender => target[s] \in Tenders
             /\ job[s].kind \in {"evaluate", "award"} => found[s] \in Bids
    BY JobFacts DEF SourcingInv, RequestsEarned, PointsMatchJobs
  <1>1. CASE UNCHANGED rows
    BY <1>1 DEF rows, Dossier!vars
  <1>2. ASSUME NEW s \in Slots, InsertTender(s)
        PROVE  Dossier!Next \/ UNCHANGED Dossier!vars
    <2>1. CASE UNCHANGED visited
      BY <1>2, <2>1 DEF InsertTender, Dossier!vars
    <2>2. ASSUME NEW t \in Tenders, SetTender(t, "DRAFT")
          PROVE  Dossier!Create(t)
      BY <1>0, <1>2, <2>2
         DEF InsertTender, SetTender, TypeOK, Dossier!Create, Dossier!bidFacts
    <2> QED
      BY <1>2, <2>1, <2>2 DEF InsertTender, Dossier!Next
  <1>3. ASSUME NEW s \in Slots, WritePublished(s)
        PROVE  Dossier!Next
    <2>1. PICK t \in Tenders : t = target[s] /\ TenderExists(t)
      BY <1>0, <1>3 DEF WritePublished, OnTender
    <2>2. Dossier!Advance(t)
      BY <1>0, <1>3, <2>1
         DEF WritePublished, SetTender, TypeOK, HistoryKept, Dossier!Advance,
             Dossier!bidFacts
    <2> QED
      BY <2>2 DEF Dossier!Next
  <1>4. ASSUME NEW s \in Slots, WriteClosed(s)
        PROVE  Dossier!Next
    <2>1. PICK t \in Tenders : t = target[s] /\ TenderExists(t)
      BY <1>0, <1>4 DEF WriteClosed, OnTender
    <2>2. Dossier!Advance(t)
      BY <1>0, <1>4, <2>1
         DEF WriteClosed, SetTender, TypeOK, HistoryKept, Dossier!Advance,
             Dossier!bidFacts
    <2> QED
      BY <2>2 DEF Dossier!Next
  <1>5. ASSUME NEW s \in Slots, WriteAwarded(s)
        PROVE  Dossier!Next
    <2>1. PICK t \in Tenders : t = target[s] /\ TenderExists(t)
      BY <1>0, <1>5 DEF WriteAwarded, OnTender
    <2>2. Dossier!Advance(t)
      BY <1>0, <1>5, <2>1
         DEF WriteAwarded, SetTender, TypeOK, HistoryKept, Dossier!Advance,
             Dossier!bidFacts
    <2> QED
      BY <2>2 DEF Dossier!Next
  <1>6. ASSUME NEW s \in Slots, DeleteRow(s)
        PROVE  UNCHANGED Dossier!vars
    BY <1>6 DEF DeleteRow, Dossier!vars
  <1>7. ASSUME NEW s \in Slots, Resubmit(s)
        PROVE  Dossier!Next
    <2>1. PICK t \in Tenders, b \in Bids :
             /\ t = target[s] /\ b = found[s]
             /\ "PUBLISHED" \in visited[t] /\ bidOn[b] = t
      BY <1>0, <1>7 DEF Resubmit, OnTender, TypeOK, Earned
    <2>2. Dossier!Submit(b, t)
      BY <1>0, <1>7, <2>1
         DEF Resubmit, SetBid, TypeOK, Dossier!Submit, Dossier!tenderFacts
    <2> QED
      BY <2>1, <2>2 DEF Dossier!Next
  <1>8. ASSUME NEW s \in Slots, InsertBid(s)
        PROVE  Dossier!Next
    <2>1. PICK t \in Tenders : t = target[s] /\ "PUBLISHED" \in visited[t]
      BY <1>0, <1>8 DEF InsertBid, OnTender, Earned
    <2>2. PICK b \in Bids : /\ bstatus[b] = Absent /\ SetBid(b, "SUBMITTED")
                            /\ bidOn' = [bidOn EXCEPT ![b] = t]
      BY <1>8, <2>1 DEF InsertBid
    <2>3. UNCHANGED <<visited, wins, order>> /\ bidOn[b] = NoTender
      BY <1>0, <1>8, <2>2 DEF InsertBid, HistoryKept
    <2>4. /\ {c \in Bids : "SUBMITTED" \in seen'[c]}
               = {c \in Bids : "SUBMITTED" \in seen[c]} \cup {b}
          /\ {c \in Bids : "UNDER_REVIEW" \in seen'[c]}
               = {c \in Bids : "UNDER_REVIEW" \in seen[c]}
          /\ {c \in Bids : "REJECTED" \in seen'[c]}
               = {c \in Bids : "REJECTED" \in seen[c]}
      BY <1>0, <2>2 DEF SetBid, TypeOK
    <2>5. Dossier!Submit(b, t)
      BY <2>1, <2>2, <2>3, <2>4 DEF Dossier!Submit, Dossier!tenderFacts
    <2> QED
      BY <2>5 DEF Dossier!Next
  <1>9. ASSUME NEW s \in Slots, WriteEvaluation(s)
        PROVE  Dossier!Next
    <2>1. PICK b \in Bids : /\ b = found[s] /\ bidOn[b] \in Tenders
                            /\ "CLOSED" \in visited[bidOn[b]]
      BY <1>0, <1>9 DEF WriteEvaluation, Earned
    <2>2. Dossier!Evaluate(b)
      BY <1>0, <1>9, <2>1
         DEF WriteEvaluation, SetBid, TypeOK, Dossier!Evaluate,
             Dossier!tenderFacts
    <2> QED
      BY <2>1, <2>2 DEF Dossier!Next
  <1>10. ASSUME NEW s \in Slots, AcceptWinner(s)
         PROVE  Dossier!Next \/ UNCHANGED Dossier!vars
    <2>1. PICK b \in Bids : /\ b = found[s] /\ target[s] \in Tenders
                            /\ "AWARDED" \in visited[target[s]]
      BY <1>0, <1>10 DEF AcceptWinner, PointsMatchJobs, OnTender, Earned
    <2>2. CASE BidExists(b)
      <3>1. bidOn[b] # NoTender
        BY <1>0, <2>1, <2>2, SourcingAssumption
           DEF HistoryKept, BidExists, BidStatuses, Absent
      <3>2. Dossier!Accept(b)
        BY <1>0, <1>10, <2>1, <2>2, <3>1
           DEF AcceptWinner, SetBid, TypeOK, Dossier!Accept, Dossier!Placed,
               Dossier!tenderFacts
      <3> QED
        BY <2>1, <3>2 DEF Dossier!Next
    <2>3. CASE ~BidExists(b)
      BY <1>10, <2>1, <2>3 DEF AcceptWinner, Dossier!vars
    <2> QED
      BY <2>2, <2>3
  <1>11. ASSUME NEW s \in Slots, RejectLosers(s)
         PROVE  Dossier!Next
    <2>1. PICK t \in Tenders : t = target[s] /\ "AWARDED" \in visited[t]
      BY <1>0, <1>11 DEF RejectLosers, PointsMatchJobs, OnTender, Earned
    <2> DEFINE losers == {b \in Bids \ {found[s]} :
                            /\ bidOn[b] = t
                            /\ bstatus[b] \in {"SUBMITTED", "UNDER_REVIEW"}}
    <2>2. \A b \in losers : "SUBMITTED" \in seen[b] \/ "UNDER_REVIEW" \in seen[b]
      BY <1>0 DEF HistoryKept, BidExists, BidStatuses
    <2>3. /\ {b \in Bids : "REJECTED" \in seen'[b]}
               = {b \in Bids : "REJECTED" \in seen[b]} \cup losers
          /\ {b \in Bids : "SUBMITTED" \in seen'[b]}
               = {b \in Bids : "SUBMITTED" \in seen[b]}
          /\ {b \in Bids : "UNDER_REVIEW" \in seen'[b]}
               = {b \in Bids : "UNDER_REVIEW" \in seen[b]}
      BY <1>0, <1>11, <2>1 DEF RejectLosers, TypeOK
    <2>4. Dossier!Reject(t)
      BY <1>11, <2>1, <2>2, <2>3
         DEF RejectLosers, Dossier!Reject, Dossier!tenderFacts
    <2> QED
      BY <2>1, <2>4 DEF Dossier!Next
  <1>12. ASSUME NEW s \in Slots, PlaceOrder(s)
         PROVE  Dossier!Next \/ UNCHANGED Dossier!vars
    <2>1. PICK b \in Bids : b = found[s]
      BY <1>0, <1>12 DEF PlaceOrder, PointsMatchJobs
    <2>2. CASE UNCHANGED order
      BY <1>12, <2>2 DEF PlaceOrder, Dossier!vars
    <2>3. ASSUME NEW o \in Orders, order[o] = NoBid,
                 order' = [order EXCEPT ![o] = b]
          PROVE  Dossier!Order(o, b)
      <3>1. s \in Ordering(b)
        BY <1>12, <2>1 DEF PlaceOrder, Ordering
      <3>2. Cardinality(OrdersOf(b)) + Cardinality(Ordering(b))
              <= wins[b] /\ wins[b] \in Nat
        BY <1>0, <2>1 DEF OrdersPaid, TypeOK
      <3>3. Cardinality(Ordering(b)) # 0
        BY <3>1, OrderSizes, FS_EmptySet
      <3>4. Cardinality(OrdersOf(b)) < wins[b]
        BY <3>2, <3>3, OrderSizes
      <3>5. Cardinality({x \in Orders : order[x] = b}) < wins[b]
        BY <3>4 DEF OrdersOf
      <3>6. UNCHANGED <<visited, seen, bidOn, wins>>
        BY <1>12 DEF PlaceOrder
      <3>7. UNCHANGED <<Dossier!tenderFacts, Dossier!bidFacts>>
        BY <3>6 DEF Dossier!tenderFacts, Dossier!bidFacts
      <3> QED
        BY <2>3, <3>5, <3>7 DEF Dossier!Order, Cardinality, Dossier!Cardinality
    <2> QED
      BY <1>12, <2>1, <2>2, <2>3 DEF PlaceOrder, Dossier!Next
  <1> QED
    BY <1>1, <1>2, <1>3, <1>4, <1>5, <1>6, <1>7, <1>8, <1>9, <1>10, <1>11,
       <1>12, RowSteps

\* Sourcing implements the dossier: no evaluation without a close, no bid
\* without a publication, no order without an acceptance of its own.
THEOREM SourcingKeepsDossier == Spec => KeepsDossier
  <1> QED
    BY DossierInit, DossierNext, SourcingInvariance, PTL
       DEF Spec, KeepsDossier, Dossier!Spec

-----------------------------------------------------------------------------
\* What the tables hold and what is still to be published.

\* A step publishes a tender only for a request that is there to do so, and such
\* a request comes only from a draft.
LEMMA PublishingFollows ==
    ASSUME SourcingInv, [Next]_vars, NEW t \in Tenders, NEW r \in Slots,
           r \in Publishing(t)'
    PROVE  r \in Publishing(t) \/ tstatus[t] = "DRAFT"
  <1> USE DEF request, GoTo, Answer
  <1>0. TypeOK /\ PointsMatchJobs
    BY DEF SourcingInv
  <1>1. pc'[r] = "write" /\ target'[r] = t /\ job'[r].kind \in {"publish", "wfPublish"}
    BY DEF Publishing
  <1>2. CASE pc'[r] = pc[r] /\ job'[r] = job[r] /\ target'[r] = target[r]
    BY <1>1, <1>2 DEF Publishing
  <1>3. ASSUME NEW j \in Jobs, Begin(r, j)
        PROVE  FALSE
    BY <1>0, <1>1, <1>3 DEF Begin, TypeOK
  <1>4. ASSUME ReadTender(r)
        PROVE  tstatus[t] = "DRAFT"
    BY <1>0, <1>1, <1>4 DEF ReadTender, MayWrite, TypeOK
  <1>5. CASE InsertTender(r) \/ CountBids(r)
    BY <1>0, <1>1, <1>5 DEF InsertTender, CountBids, TypeOK, PointsMatchJobs
  <1>6. CASE \/ WriteMissing(r) \/ WriteUpdate(r) \/ WritePublished(r)
             \/ DeleteRow(r) \/ WriteClosed(r)
    BY <1>0, <1>1, <1>6 DEF WriteMissing, WriteUpdate, WritePublished, DeleteRow,
       WriteClosed, TypeOK
  <1>7. CASE \/ ReadForBid(r) \/ LookupBid(r) \/ Resubmit(r) \/ InsertBid(r)
             \/ BidRefused(r)
    BY <1>0, <1>1, <1>7 DEF ReadForBid, LookupBid, Resubmit, InsertBid, BidRefused,
       TypeOK, PointsMatchJobs
  <1>8. CASE \/ ReadForEvaluation(r) \/ WriteEvaluation(r) \/ WriteAwarded(r)
             \/ AcceptWinner(r)
    BY <1>0, <1>1, <1>8 DEF ReadForEvaluation, WriteEvaluation, WriteAwarded,
       AcceptWinner, TypeOK
  <1>9. CASE RejectLosers(r) \/ PlaceOrder(r) \/ Emit(r)
    BY <1>0, <1>1, <1>9 DEF RejectLosers, PlaceOrder, Emit, TypeOK
  <1>10. CASE \E s \in Slots \ {r} : Step(s) \/ \E j \in Jobs : Begin(s, j)
    BY <1>0, <1>2, <1>10, OthersStay
  <1>11. CASE \E d \in Tenders : Deadline(d)
    BY <1>2, <1>11 DEF Deadline
  <1>12. CASE UNCHANGED vars
    BY <1>2, <1>12 DEF vars
  <1> QED
    BY <1>3, <1>4, <1>5, <1>6, <1>7, <1>8, <1>9, <1>10, <1>11, <1>12
       DEF Next, Step

\* Only a request that publishes makes a tender PUBLISHED.
LEMMA PublishedBy ==
    ASSUME SourcingInv, [Next]_vars, NEW t \in Tenders,
           tstatus'[t] = "PUBLISHED", tstatus[t] # "PUBLISHED"
    PROVE  Publishing(t) # {}
  <1>0. TypeOK /\ PointsMatchJobs
    BY DEF SourcingInv
  <1>1. CASE UNCHANGED rows
    BY <1>1 DEF rows
  <1>2. ASSUME NEW s \in Slots, WritePublished(s)
        PROVE  s \in Publishing(t)
    BY <1>0, <1>2 DEF WritePublished, SetTender, Publishing, TypeOK
  <1>3. ASSUME NEW s \in Slots,
               InsertTender(s) \/ DeleteRow(s) \/ WriteClosed(s) \/ WriteAwarded(s)
        PROVE  FALSE
    BY <1>0, <1>3 DEF InsertTender, DeleteRow, WriteClosed, WriteAwarded, SetTender,
       TypeOK, Gone
  <1>4. ASSUME NEW s \in Slots,
               \/ Resubmit(s) \/ InsertBid(s) \/ WriteEvaluation(s)
               \/ AcceptWinner(s) \/ RejectLosers(s) \/ PlaceOrder(s)
        PROVE  FALSE
    BY <1>4 DEF Resubmit, InsertBid, WriteEvaluation, AcceptWinner, RejectLosers,
       PlaceOrder, tenders
  <1> QED
    BY <1>1, <1>2, <1>3, <1>4, RowSteps

\* publishTender decides on a tender it read earlier: only requests that read the
\* draft can publish a tender again, and once they are through it never reopens.
THEOREM SourcingReopeningSettles == Spec => ReopeningSettles
  <1>1. SourcingInv /\ [Next]_vars =>
          [\A t \in Tenders :
             tstatus[t] \notin {Absent, "DRAFT"} /\ Publishing(t) = {} =>
               /\ Publishing(t)' = {}
               /\ tstatus'[t] = "PUBLISHED" => tstatus[t] = "PUBLISHED"]_vars
    <2> SUFFICES ASSUME SourcingInv, [Next]_vars, NEW t \in Tenders,
                        tstatus[t] # "DRAFT", Publishing(t) = {}
                 PROVE  /\ Publishing(t)' = {}
                        /\ tstatus'[t] = "PUBLISHED" => tstatus[t] = "PUBLISHED"
      OBVIOUS
    <2>1. \A r \in Publishing(t)' : r \in Slots
      BY DEF Publishing
    <2> QED
      BY <2>1, PublishingFollows, PublishedBy
  <1> QED
    BY <1>1, SourcingInvariance, PTL DEF Spec, ReopeningSettles

-----------------------------------------------------------------------------
\* What follows of the dossier alone, and holds of the tables through it.

\* Every fact of the dossier keeps those it rests on behind it.
LEMMA DossierInOrderNext ==
    Dossier!TypeOK /\ Dossier!InOrder /\ [Dossier!Next]_(Dossier!vars) =>
        Dossier!TypeOK' /\ Dossier!InOrder'
  <1> SUFFICES ASSUME Dossier!TypeOK, Dossier!InOrder, [Dossier!Next]_(Dossier!vars)
               PROVE  Dossier!TypeOK' /\ Dossier!InOrder'
    OBVIOUS
  <1> USE SourcingAssumption DEF Dossier!TypeOK, Dossier!InOrder, Dossier!Placed
  <1>1. CASE \E t \in Tenders : Dossier!Create(t)
    BY <1>1 DEF Dossier!Create, Dossier!bidFacts
  <1>2. CASE \E t \in Tenders : Dossier!Advance(t)
    BY <1>2 DEF Dossier!Advance, Dossier!bidFacts
  <1>3. CASE \E t \in Tenders : Dossier!Reject(t)
    BY <1>3 DEF Dossier!Reject, Dossier!tenderFacts
  <1>4. CASE \E b \in Bids : Dossier!Evaluate(b)
    BY <1>4 DEF Dossier!Evaluate, Dossier!tenderFacts
  <1>5. CASE \E b \in Bids : Dossier!Accept(b)
    BY <1>5 DEF Dossier!Accept, Dossier!tenderFacts
  <1>6. CASE \E b \in Bids, t \in Tenders : Dossier!Submit(b, t)
    BY <1>6 DEF Dossier!Submit, Dossier!tenderFacts
  <1>7. ASSUME NEW o \in Orders, NEW b \in Bids, Dossier!Order(o, b)
        PROVE  Dossier!TypeOK' /\ Dossier!InOrder'
    <2>1. IsFiniteSet({x \in Orders : order[x] = b})
      BY FS_Subset
    <2>2. Dossier!Cardinality({x \in Orders : order[x] = b}) \in Nat
      BY <2>1, FS_CardinalityType DEF Cardinality, Dossier!Cardinality
    <2>3. wins[b] > 0
      BY <1>7, <2>2 DEF Dossier!Order
    <2> QED
      BY <1>7, <2>3 DEF Dossier!Order, Dossier!tenderFacts, Dossier!bidFacts
  <1>8. CASE UNCHANGED Dossier!vars
    BY <1>8 DEF Dossier!vars
  <1> QED
    BY <1>1, <1>2, <1>3, <1>4, <1>5, <1>6, <1>7, <1>8 DEF Dossier!Next

\* A dossier starts in order.
LEMMA DossierInOrderInit == Init => Dossier!TypeOK /\ Dossier!InOrder
  <1> SUFFICES ASSUME Init
               PROVE  Dossier!TypeOK /\ Dossier!InOrder
    OBVIOUS
  <1>1. Dossier!Init /\ TypeOK
    BY DossierInit, TypeInit
  <1>2. Dossier!TypeOK
    BY <1>1 DEF TypeOK, Dossier!TypeOK
  <1>3. /\ \A t \in Tenders : "CLOSED" \notin visited[t] /\ "AWARDED" \notin visited[t]
        /\ \A b \in Bids : seen[b] \subseteq {"DRAFT"} /\ wins[b] = 0
        /\ \A o \in Orders : order[o] = NoBid
    BY DEF Init
  <1>4. {t \in Tenders : "PUBLISHED" \in visited[t]}
          \subseteq {t \in Tenders : "DRAFT" \in visited[t]}
    BY <1>1 DEF Dossier!Init
  <1>5. \A b \in Bids : bidOn[b] # NoTender =>
          bidOn[b] \in {t \in Tenders : "PUBLISHED" \in visited[t]}
    BY <1>1 DEF Dossier!Init
  <1> QED
    BY <1>2, <1>3, <1>4, <1>5 DEF Dossier!InOrder, Dossier!Placed

\* Whatever requests race, a bid that was evaluated is on a tender that was
\* published and closed, a rejected one on a tender that was awarded, and an
\* order is for a bid that was placed and accepted.
THEOREM SourcingInOrder == Spec => []Dossier!InOrder
  <1>1. Spec => []SourcingInv /\ [][Next]_vars
    BY SourcingInvariance, PTL DEF Spec
  <1> QED
    BY <1>1, DossierInOrderInit, DossierNext, DossierInOrderNext, PTL DEF Spec

\* A bid never moves to another tender, no fact is taken back and no order
\* changes hands, whatever requests race.
THEOREM SourcingOnlyGrows == Spec => Dossier!OnlyGrows
  <1>1. Dossier!TypeOK /\ [Dossier!Next]_(Dossier!vars) =>
          [Dossier!Growing]_(Dossier!vars)
    <2> SUFFICES ASSUME Dossier!TypeOK, Dossier!Next
                 PROVE  Dossier!Growing
      OBVIOUS
    <2> USE DEF Dossier!TypeOK, Dossier!Growing, Dossier!Placed,
                Dossier!tenderFacts, Dossier!bidFacts
    <2>1. CASE \E t \in Tenders :
                 Dossier!Create(t) \/ Dossier!Advance(t) \/ Dossier!Reject(t)
      BY <2>1 DEF Dossier!Create, Dossier!Advance, Dossier!Reject
    <2>2. CASE \E b \in Bids : Dossier!Evaluate(b) \/ Dossier!Accept(b)
      BY <2>2 DEF Dossier!Evaluate, Dossier!Accept
    <2>3. CASE \E b \in Bids, t \in Tenders : Dossier!Submit(b, t)
      BY <2>3 DEF Dossier!Submit
    <2>4. CASE \E o \in Orders, b \in Bids : Dossier!Order(o, b)
      BY <2>4 DEF Dossier!Order
    <2> QED
      BY <2>1, <2>2, <2>3, <2>4 DEF Dossier!Next
  <1>2. Spec => []SourcingInv /\ [][Next]_vars
    BY SourcingInvariance, PTL DEF Spec
  <1> QED
    BY <1>1, <1>2, DossierInOrderInit, DossierNext, DossierInOrderNext, PTL
       DEF Spec, Dossier!OnlyGrows
==============================================================================
