--------------------------- MODULE OrderPathProofs ---------------------------
(***************************************************************************)
(* What follows from the order path alone, for whoever keeps it.           *)
(***************************************************************************)
EXTENDS OrderPath, TLAPS

\* The types, and what rows and histories have to do with each other.
PathInv ==
    /\ status \in [Orders -> Stages \cup {Absent}]
    /\ visited \in [Orders -> SUBSET Stages]
    /\ deleted \subseteq Orders
    /\ \A p \in Orders : status[p] = Absent <=> visited[p] = {}
    /\ \A p \in Orders : status[p] # Absent => status[p] \in visited[p]
    /\ \A p \in deleted : status[p] # Absent
    /\ NoStageMissing

\* A stage is missing none of its own if the one it follows is missing none.
LEMMA StagesFollow ==
    ASSUME NEW from, NEW stage \in Successors(from)
    PROVE  StagesBefore(stage) \subseteq StagesBefore(from) \cup {from}
  BY DEF Successors, StagesBefore

\* What becomes of an order that takes a stage.
LEMMA BecomeFacts ==
    ASSUME PathInv, NEW p \in Orders, NEW stage \in Stages, Become(p, stage)
    PROVE  /\ status' \in [Orders -> Stages \cup {Absent}]
           /\ visited' \in [Orders -> SUBSET Stages]
           /\ status'[p] = stage /\ visited'[p] = visited[p] \cup {stage}
           /\ \A q \in Orders \ {p} : status'[q] = status[q] /\ visited'[q] = visited[q]
           /\ deleted' = deleted
  BY DEF PathInv, Become

\* Every step of the path preserves its invariant.
LEMMA PathInvNext == PathInv /\ [Next]_vars => PathInv'
  <1> SUFFICES ASSUME PathInv, [Next]_vars
               PROVE  PathInv'
    OBVIOUS
  <1>1. ASSUME NEW p \in Orders, NEW stage \in Stages, Become(p, stage),
               StagesBefore(stage) \subseteq visited[p]
        PROVE  PathInv'
    <2>1. NoStageMissing'
      BY <1>1, BecomeFacts DEF PathInv, NoStageMissing
    <2>2. stage # Absent
      BY DEF Stages, Absent
    <2> QED
      BY <1>1, <2>1, <2>2, BecomeFacts DEF PathInv
  <1>2. ASSUME NEW p \in Orders, Insert(p)
        PROVE  PathInv'
    <2>1. "DRAFT" \in Stages /\ StagesBefore("DRAFT") = {}
      BY DEF Stages, StagesBefore
    <2> QED
      BY <1>1, <1>2, <2>1 DEF Insert
  <1>3. ASSUME NEW p \in Orders, NEW stage \in Stages, Move(p, stage)
        PROVE  PathInv'
    <2>1. PICK from \in visited[p] : stage \in Successors(from)
      BY <1>3 DEF Move
    <2>2. StagesBefore(stage) \subseteq visited[p]
      BY <2>1, StagesFollow DEF PathInv, NoStageMissing
    <2> QED
      BY <1>1, <1>3, <2>2 DEF Move
  <1>4. ASSUME NEW p \in Orders, Delete(p)
        PROVE  PathInv'
    BY <1>4 DEF Delete, PathInv, NoStageMissing
  <1>5. CASE UNCHANGED vars
    BY <1>5 DEF vars, PathInv, NoStageMissing
  <1> QED
    BY <1>2, <1>3, <1>4, <1>5 DEF Next

\* Rows, histories and deletions agree in every behaviour of the path.
THEOREM PathInvariance == Spec => []PathInv
  <1>1. Init => PathInv
    BY DEF Init, PathInv, NoStageMissing
  <1> QED
    BY <1>1, PathInvNext, PTL DEF Spec

\* No order comes to a stage without the stages before it.
THEOREM NoStageMissingHolds == Spec => []NoStageMissing
  <1>1. PathInv => NoStageMissing
    BY DEF PathInv
  <1> QED
    BY <1>1, PathInvariance, PTL

\* What an order was stays in its history, an order that was inserted is not
\* inserted again, and a deletion is final.
THEOREM PathOnward ==
    Spec => [][/\ \A p \in Orders : visited[p] \subseteq visited'[p]
               /\ \A p \in Orders : status[p] # Absent => status'[p] # Absent
               /\ deleted \subseteq deleted']_vars
  <1> DEFINE Onward == /\ \A p \in Orders : visited[p] \subseteq visited'[p]
                       /\ \A p \in Orders : status[p] # Absent => status'[p] # Absent
                       /\ deleted \subseteq deleted'
  <1>1. PathInv /\ [Next]_vars => [Onward]_vars
    <2> SUFFICES ASSUME PathInv, Next
                 PROVE  Onward
      OBVIOUS
    <2>1. ASSUME NEW p \in Orders, NEW stage \in Stages, Become(p, stage)
          PROVE  Onward
      <3>1. stage # Absent
        BY DEF Stages, Absent
      <3> QED
        BY <2>1, <3>1, BecomeFacts
    <2>2. ASSUME NEW p \in Orders, Delete(p)
          PROVE  Onward
      BY <2>2 DEF Delete
    <2>3. "DRAFT" \in Stages
      BY DEF Stages
    <2> QED
      BY <2>1, <2>2, <2>3 DEF Next, Insert, Move
  <1> HIDE DEF Onward
  <1>2. Spec => [][Onward]_vars
    BY <1>1, PathInvariance, PTL DEF Spec
  <1> QED
    BY <1>2 DEF Onward
=============================================================================
