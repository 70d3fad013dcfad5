-------------------------- MODULE ReferenceDataProofs --------------------------
(***************************************************************************)
(* Theorems about ReferenceData for every set of slots, rows and requests. *)
(***************************************************************************)
EXTENDS ReferenceDataInvariant, FiniteSetTheorems, TLAPS

-----------------------------------------------------------------------------
\* What a request names.
LEMMA JobFacts ==
    ASSUME NEW j \in Jobs
    PROVE  /\ j.op \in {"create", "update", "rate", "delete"}
           /\ j.row \in Rows /\ j.row # Null /\ j.names \in Refs /\ j # NoJob
           /\ KindOf[j.row] \in Kinds /\ WellFormed(j)
  <1>1. j \in JobType
    BY ReferenceDataAssumption
  <1> QED
    BY <1>1, ReferenceDataAssumption DEF JobType

\* The types hold at the start.
LEMMA TypeInit == Init => TypeOK
  BY ReferenceDataAssumption DEF Init, TypeOK, Points

\* The requests a process serves are finitely many.
LEMMA SlotCounts ==
    ASSUME NEW T \in SUBSET Slots
    PROVE  /\ IsFiniteSet(T) /\ Cardinality(T) \in Nat
           /\ Cardinality(Slots) \in Nat
           /\ Cardinality(T) <= Cardinality(Slots)
           /\ T # Slots => Cardinality(T) < Cardinality(Slots)
  BY ReferenceDataAssumption, FS_Subset, FS_CardinalityType

\* Fewer requests.
LEMMA FewerSlots ==
    ASSUME NEW T \in SUBSET Slots, NEW U \in SUBSET T
    PROVE  /\ Cardinality(U) <= Cardinality(T)
           /\ \A s \in T : s \notin U => Cardinality(U) + 1 <= Cardinality(T)
  <1>1. IsFiniteSet(T) /\ Cardinality(T) \in Nat /\ Cardinality(U) \in Nat
    BY SlotCounts
  <1>2. Cardinality(U) <= Cardinality(T) /\ (U # T => Cardinality(U) < Cardinality(T))
    BY <1>1, FS_Subset
  <1> QED
    BY <1>1, <1>2

\* Clearing the columns that name a row.
LEMMA ReleasedFacts ==
    ASSUME TypeOK, NEW r \in Rows
    PROVE  /\ Released(r) \in [Rows -> Refs]
           /\ \A x \in Rows, f \in Fields :
                /\ Released(r)[x][f] # r
                /\ Released(r)[x][f] \in {refs[x][f], Null}
                /\ x = r \/ refs[x][f] = Null => Released(r)[x][f] = Null
  BY ReferenceDataAssumption DEF TypeOK, Refs, Released

\* What an update leaves of a row's names.
LEMMA MergedFacts ==
    ASSUME TypeOK, NEW r \in Rows, NEW n \in Refs
    PROVE  /\ Merged(r, n) \in Refs
           /\ \A f \in Fields : Merged(r, n)[f] = IF n[f] # Null THEN n[f] ELSE refs[r][f]
  BY DEF TypeOK, Refs, Merged

\* What a request that writes notes for the others.
LEMMA NotedFacts ==
    ASSUME TypeOK, NEW x \in Rows, NEW n, Noted(x, n)
    PROVE  /\ since' \in [Slots -> SUBSET Rows]
           /\ \A s \in Slots : since[s] \subseteq since'[s]
           /\ \A s \in Slots, f \in Fields :
                pc[s] \in {"count", "remove"} /\ n[f] = job[s].row => x \in since'[s]
  BY DEF TypeOK, Noted

\* One count: it is not the last, or the request goes on or ends.
LEMMA CountFacts ==
    ASSUME TypeOK, NEW s \in Slots, Count(s)
    PROVE  /\ pc[s] = "count" /\ UNCHANGED rows
           /\ \E k \in todo[s] :
                \/ /\ todo' = [todo EXCEPT ![s] = todo[s] \ {k}]
                   /\ \E b \in BOOLEAN :
                        /\ found' = [found EXCEPT ![s] = b]
                        /\ ~b => ~found[s] /\ \A x \in exists :
                             KindOf[x] = k => refs[x][Kind(s)] # job[s].row
                   /\ UNCHANGED <<pc, job, since>>
                \/ /\ GoTo(s, "remove") /\ todo[s] = {k} /\ ~found[s]
                   /\ \A x \in exists : KindOf[x] = k => refs[x][Kind(s)] # job[s].row
                   /\ todo' = [todo EXCEPT ![s] = {}]
                   /\ UNCHANGED <<job, found, since>>
                \/ /\ GoTo(s, "softDelete") /\ Kind(s) = "vendor"
                   /\ todo' = [todo EXCEPT ![s] = {}]
                   /\ UNCHANGED <<job, found, since>>
                \/ End(s)
  <1>1. PICK k \in todo[s] :
          LET in == found[s] \/ \E x \in exists : KindOf[x] = k /\ refs[x][Kind(s)] = job[s].row IN
          IF todo[s] # {k}
            THEN /\ found' = [found EXCEPT ![s] = in]
                 /\ todo' = [todo EXCEPT ![s] = todo[s] \ {k}]
                 /\ UNCHANGED <<pc, job, since>>
            ELSE \/ /\ ~in
                    /\ GoTo(s, "remove")
                    /\ todo' = [todo EXCEPT ![s] = {}]
                    /\ UNCHANGED <<job, found, since>>
                 \/ /\ in /\ Kind(s) = "vendor"
                    /\ GoTo(s, "softDelete")
                    /\ todo' = [todo EXCEPT ![s] = {}]
                    /\ UNCHANGED <<job, found, since>>
                 \/ in /\ Kind(s) # "vendor" /\ End(s)
    BY DEF Count
  <1>2. pc[s] = "count" /\ UNCHANGED rows
    BY DEF Count
  <1> QED
    BY <1>1, <1>2 DEF TypeOK

\* Where a count leads.
LEMMA CountMoves ==
    ASSUME TypeOK, NEW s \in Slots, Count(s)
    PROVE  \/ UNCHANGED <<pc, job>>
           \/ GoTo(s, "remove") /\ UNCHANGED job
           \/ GoTo(s, "softDelete") /\ Kind(s) = "vendor" /\ UNCHANGED job
           \/ End(s)
  BY CountFacts

\* What a count leaves of the other requests.
LEMMA CountOthers ==
    ASSUME TypeOK, NEW s \in Slots, Count(s), NEW r \in Slots, r # s
    PROVE  /\ pc'[r] = pc[r] /\ job'[r] = job[r]
           /\ todo'[r] = todo[r] /\ found'[r] = found[r]
  <1>1. PICK k \in todo[s] :
          \/ /\ todo' = [todo EXCEPT ![s] = todo[s] \ {k}]
             /\ \E b \in BOOLEAN : found' = [found EXCEPT ![s] = b]
             /\ UNCHANGED <<pc, job, since>>
          \/ /\ GoTo(s, "remove")
             /\ todo' = [todo EXCEPT ![s] = {}]
             /\ UNCHANGED <<job, found, since>>
          \/ /\ GoTo(s, "softDelete")
             /\ todo' = [todo EXCEPT ![s] = {}]
             /\ UNCHANGED <<job, found, since>>
          \/ End(s)
    BY CountFacts
  <1> QED
    BY <1>1 DEF TypeOK, GoTo, End, Leave

\* A count writes values of the variables' types.
LEMMA CountTypes ==
    ASSUME TypeOK, NEW s \in Slots, Count(s)
    PROVE  TypeOK'
  <1>1. PICK k \in todo[s] :
          \/ /\ todo' = [todo EXCEPT ![s] = todo[s] \ {k}]
             /\ \E b \in BOOLEAN : found' = [found EXCEPT ![s] = b]
             /\ UNCHANGED <<pc, job, since>>
          \/ /\ GoTo(s, "remove")
             /\ todo' = [todo EXCEPT ![s] = {}]
             /\ UNCHANGED <<job, found, since>>
          \/ /\ GoTo(s, "softDelete")
             /\ todo' = [todo EXCEPT ![s] = {}]
             /\ UNCHANGED <<job, found, since>>
          \/ End(s)
    BY CountFacts
  <1>2. /\ pc' \in [Slots -> Points] /\ job' \in [Slots -> Jobs \cup {NoJob}]
        /\ found' \in [Slots -> BOOLEAN] /\ todo' \in [Slots -> SUBSET Kinds]
        /\ since' \in [Slots -> SUBSET Rows]
    BY <1>1 DEF TypeOK, Points, GoTo, End, Leave
  <1> QED
    BY <1>2, CountFacts DEF TypeOK, rows

\* Type correctness: every step writes values of the variables' types.
LEMMA TypeNext == ReferenceDataInv /\ [Next]_vars => TypeOK'
  <1> SUFFICES ASSUME ReferenceDataInv, [Next]_vars
               PROVE  TypeOK'
    OBVIOUS
  <1> USE DEF rows, request, GoTo, End, Leave
  <1>0. TypeOK /\ PointsMatchJobs
    BY DEF ReferenceDataInv
  <1>1. ASSUME NEW s \in Slots, NEW j \in Jobs, Begin(s, j)
        PROVE  TypeOK'
    BY <1>0, <1>1, JobFacts
       DEF Begin, TypeOK, Points, FirstPoint
  <1>2. ASSUME NEW s \in Slots, Check(s)
        PROVE  TypeOK'
    BY <1>0, <1>2
       DEF Check, TypeOK, Points
  <1>3. ASSUME NEW s \in Slots, CheckCompany(s)
        PROVE  TypeOK'
    <2>1. Assigned(job[s].names, "company") \in BOOLEAN
      BY DEF Assigned
    <2> QED
      BY <1>0, <1>3, <2>1 DEF CheckCompany, TypeOK, Points
  <1>4. ASSUME NEW s \in Slots, CheckPlant(s)
        PROVE  TypeOK'
    BY <1>0, <1>4
       DEF CheckPlant, TypeOK, Points
  <1>5. ASSUME NEW s \in Slots, Insert(s)
        PROVE  TypeOK'
    <2>1. job[s].row \in Rows /\ job[s].names \in Refs
      BY <1>0, <1>5, JobFacts DEF Insert, PointsMatchJobs
    <2>2. refs' \in [Rows -> Refs] /\ since' \in [Slots -> SUBSET Rows]
      BY <1>0, <1>5, <2>1, NotedFacts DEF Insert, TypeOK
    <2>3. used' \subseteq Rows /\ exists' \subseteq used' /\ exists \subseteq exists'
      BY <1>0, <1>5, <2>1 DEF Insert, TypeOK
    <2> QED
      BY <1>0, <1>5, <2>2, <2>3 DEF Insert, TypeOK, Points
  <1>6. ASSUME NEW s \in Slots, Find(s)
        PROVE  TypeOK'
    <2>1. Counted(Kind(s)) \subseteq Kinds
      BY DEF Counted, Kinds, Columns
    <2> QED
      BY <1>0, <1>6, <2>1 DEF Find, TypeOK, Points
  <1>7. ASSUME NEW s \in Slots, Write(s)
        PROVE  TypeOK'
    <2>1. job[s].row \in Rows /\ job[s].names \in Refs
      BY <1>0, <1>7, JobFacts DEF Write, PointsMatchJobs
    <2>2. refs' \in [Rows -> Refs] /\ since' \in [Slots -> SUBSET Rows]
      BY <1>0, <1>7, <2>1, NotedFacts, MergedFacts DEF Write, TypeOK
    <2>3. inactive' \subseteq exists /\ lateWrites' \in [Rows -> Nat]
      BY <1>0, <1>7 DEF Write, Late, TypeOK
    <2> QED
      BY <1>0, <1>7, <2>2, <2>3 DEF Write, TypeOK, Points
  <1>8. ASSUME NEW s \in Slots, Count(s)
        PROVE  TypeOK'
    BY <1>0, <1>8, CountTypes
  <1>9. ASSUME NEW s \in Slots, SoftDelete(s)
        PROVE  TypeOK'
    <2>1. job[s].row \in Of("vendor") \/ job[s].row \notin exists
      BY <1>0, <1>9 DEF SoftDelete, PointsMatchJobs, Kind, Of, TypeOK
    <2>2. /\ deleted' \subseteq exists \cap Of("vendor") /\ inactive' \subseteq exists
          /\ lateWrites' \in [Rows -> Nat]
      BY <1>0, <1>9, <2>1 DEF SoftDelete, Late, TypeOK
    <2> QED
      BY <1>0, <1>9, <2>2 DEF SoftDelete, TypeOK, Points
  <1>10. ASSUME NEW s \in Slots, Remove(s)
        PROVE  TypeOK'
    <2>1. job[s].row \in Rows
      BY <1>0, <1>10, JobFacts DEF Remove, PointsMatchJobs
    <2>2. refs' \in [Rows -> Refs]
      BY <1>0, <1>10, <2>1, ReleasedFacts DEF Remove, TypeOK
    <2> QED
      BY <1>0, <1>10, <2>2 DEF Remove, TypeOK, Points
  <1>11. CASE UNCHANGED vars
    BY <1>0, <1>11
       DEF vars, TypeOK, Points
  <1> QED
    BY <1>1, <1>2, <1>3, <1>4, <1>5, <1>6, <1>7, <1>8, <1>9, <1>10, <1>11
       DEF Next, Step

-----------------------------------------------------------------------------
\* Requests are at points of their method.
LEMMA PointsNext == ReferenceDataInv /\ [Next]_vars => PointsMatchJobs'
  <1> SUFFICES ASSUME ReferenceDataInv, [Next]_vars
               PROVE  PointsMatchJobs'
    OBVIOUS
  <1> USE DEF rows, request, GoTo, End, Leave, Kind
  <1>0. TypeOK /\ PointsMatchJobs
    BY DEF ReferenceDataInv
  <1>1. ASSUME NEW s \in Slots, NEW j \in Jobs, Begin(s, j)
        PROVE  PointsMatchJobs'
    BY <1>0, <1>1, JobFacts
       DEF Begin, PointsMatchJobs, TypeOK, FirstPoint, WellFormed, CreatesVendor,
           Lookups
  <1>2. ASSUME NEW s \in Slots, Check(s)
        PROVE  PointsMatchJobs'
    BY <1>0, <1>2
       DEF Check, PointsMatchJobs, TypeOK
  <1>3. ASSUME NEW s \in Slots, CheckCompany(s)
        PROVE  PointsMatchJobs'
    BY <1>0, <1>3
       DEF CheckCompany, PointsMatchJobs, TypeOK, CreatesVendor
  <1>4. ASSUME NEW s \in Slots, CheckPlant(s)
        PROVE  PointsMatchJobs'
    BY <1>0, <1>4
       DEF CheckPlant, PointsMatchJobs, TypeOK, CreatesVendor
  <1>5. ASSUME NEW s \in Slots, Insert(s)
        PROVE  PointsMatchJobs'
    BY <1>0, <1>5
       DEF Insert, PointsMatchJobs, TypeOK
  <1>6. ASSUME NEW s \in Slots, Find(s)
        PROVE  PointsMatchJobs'
    BY <1>0, <1>6, JobFacts
       DEF Find, PointsMatchJobs, TypeOK
  <1>7. ASSUME NEW s \in Slots, Write(s)
        PROVE  PointsMatchJobs'
    BY <1>0, <1>7
       DEF Write, PointsMatchJobs, TypeOK
  <1>8. ASSUME NEW s \in Slots, Count(s)
        PROVE  PointsMatchJobs'
    BY <1>0, <1>8, CountMoves DEF Count, PointsMatchJobs, TypeOK
  <1>9. ASSUME NEW s \in Slots, SoftDelete(s)
        PROVE  PointsMatchJobs'
    BY <1>0, <1>9
       DEF SoftDelete, PointsMatchJobs, TypeOK
  <1>10. ASSUME NEW s \in Slots, Remove(s)
        PROVE  PointsMatchJobs'
    BY <1>0, <1>10
       DEF Remove, PointsMatchJobs, TypeOK
  <1>11. CASE UNCHANGED vars
    BY <1>0, <1>11
       DEF vars, PointsMatchJobs, TypeOK
  <1> QED
    BY <1>1, <1>2, <1>3, <1>4, <1>5, <1>6, <1>7, <1>8, <1>9, <1>10, <1>11
       DEF Next, Step

\* No column names a row that is gone: a row is inserted or updated only to name
\* rows that are there, and a row that goes takes its names and is in no column.
LEMMA DanglingNext == ReferenceDataInv /\ [Next]_vars => NoDangling'
  <1> SUFFICES ASSUME ReferenceDataInv, [Next]_vars
               PROVE  NoDangling'
    OBVIOUS
  <1> USE DEF rows, request
  <1>0. TypeOK /\ PointsMatchJobs /\ NoDangling
    BY DEF ReferenceDataInv
  <1>1. ASSUME NEW s \in Slots, NEW j \in Jobs, Begin(s, j)
        PROVE  NoDangling'
    <2>1. UNCHANGED <<exists, refs>>
      BY <1>1 DEF Begin
    <2> QED
      BY <1>0, <2>1 DEF NoDangling
  <1>2. ASSUME NEW s \in Slots, Check(s)
        PROVE  NoDangling'
    <2>1. UNCHANGED <<exists, refs>>
      BY <1>2 DEF Check
    <2> QED
      BY <1>0, <2>1 DEF NoDangling
  <1>3. ASSUME NEW s \in Slots, CheckCompany(s)
        PROVE  NoDangling'
    <2>1. UNCHANGED <<exists, refs>>
      BY <1>3 DEF CheckCompany
    <2> QED
      BY <1>0, <2>1 DEF NoDangling
  <1>4. ASSUME NEW s \in Slots, CheckPlant(s)
        PROVE  NoDangling'
    <2>1. UNCHANGED <<exists, refs>>
      BY <1>4 DEF CheckPlant
    <2> QED
      BY <1>0, <2>1 DEF NoDangling
  <1>5. ASSUME NEW s \in Slots, Insert(s)
        PROVE  NoDangling'
    <2>1. job[s].row \in Rows /\ job[s].names \in Refs
      BY <1>0, <1>5, JobFacts DEF Insert, PointsMatchJobs
    <2>2. CASE UNCHANGED <<exists, refs>>
      BY <1>0, <2>2 DEF NoDangling
    <2>3. CASE ~UNCHANGED <<exists, refs>>
      <3>1. /\ exists' = exists \cup {job[s].row} /\ Resolve(job[s].names)
            /\ refs' = [refs EXCEPT ![job[s].row] = job[s].names]
        BY <1>5, <2>3 DEF Insert
      <3> QED
        BY <1>0, <2>1, <3>1 DEF NoDangling, Resolve, TypeOK
    <2> QED
      BY <2>2, <2>3
  <1>6. ASSUME NEW s \in Slots, Find(s)
        PROVE  NoDangling'
    <2>1. UNCHANGED <<exists, refs>>
      BY <1>6 DEF Find
    <2> QED
      BY <1>0, <2>1 DEF NoDangling
  <1>7. ASSUME NEW s \in Slots, Write(s)
        PROVE  NoDangling'
    <2>1. job[s].row \in Rows /\ job[s].names \in Refs /\ exists' = exists
      BY <1>0, <1>7, JobFacts DEF Write, PointsMatchJobs
    <2>2. CASE UNCHANGED refs
      BY <1>0, <2>1, <2>2 DEF NoDangling
    <2>3. CASE ~UNCHANGED refs
      <3>1. /\ job[s].row \in exists /\ Resolve(job[s].names)
            /\ refs' = [refs EXCEPT ![job[s].row] = Merged(job[s].row, job[s].names)]
        BY <1>7, <2>3 DEF Write
      <3>2. \A f \in Fields : refs'[job[s].row][f] \in exists \cup {Null}
        BY <1>0, <2>1, <3>1, MergedFacts DEF NoDangling, Resolve, TypeOK
      <3>3. \A x \in Rows : x # job[s].row => refs'[x] = refs[x]
        BY <1>0, <3>1 DEF TypeOK
      <3> QED
        BY <1>0, <2>1, <3>1, <3>2, <3>3 DEF NoDangling
    <2> QED
      BY <2>2, <2>3
  <1>8. ASSUME NEW s \in Slots, Count(s)
        PROVE  NoDangling'
    <2>1. UNCHANGED <<exists, refs>>
      BY <1>8 DEF Count
    <2> QED
      BY <1>0, <2>1 DEF NoDangling
  <1>9. ASSUME NEW s \in Slots, SoftDelete(s)
        PROVE  NoDangling'
    <2>1. UNCHANGED <<exists, refs>>
      BY <1>9 DEF SoftDelete
    <2> QED
      BY <1>0, <2>1 DEF NoDangling
  <1>10. ASSUME NEW s \in Slots, Remove(s)
        PROVE  NoDangling'
    <2>1. job[s].row \in Rows
      BY <1>0, <1>10, JobFacts DEF Remove, PointsMatchJobs
    <2>2. CASE UNCHANGED <<exists, refs>>
      BY <1>0, <2>2 DEF NoDangling
    <2>3. CASE ~UNCHANGED <<exists, refs>>
      <3>1. exists' = exists \ {job[s].row} /\ refs' = Released(job[s].row)
        BY <1>10, <2>3 DEF Remove
      <3> QED
        BY <1>0, <2>1, <3>1, ReleasedFacts DEF NoDangling
    <2> QED
      BY <2>2, <2>3
  <1>11. CASE UNCHANGED vars
    <2>1. UNCHANGED <<exists, refs>>
      BY <1>11 DEF vars
    <2> QED
      BY <1>0, <2>1 DEF NoDangling
  <1> QED
    BY <1>1, <1>2, <1>3, <1>4, <1>5, <1>6, <1>7, <1>8, <1>9, <1>10, <1>11
       DEF Next, Step

\* An assignment keeps at most one place: it is inserted with one, is not
\* updated, and a place that is gone leaves its column empty.
LEMMA OnePlaceNext == ReferenceDataInv /\ [Next]_vars => OnePlaceEach'
  <1> SUFFICES ASSUME ReferenceDataInv, [Next]_vars
               PROVE  OnePlaceEach'
    OBVIOUS
  <1> USE DEF rows, request, GoTo, End, Leave, Kind
  <1>0. TypeOK /\ PointsMatchJobs /\ OnePlaceEach
    BY DEF ReferenceDataInv
  <1>00. ASSUME UNCHANGED <<exists, refs>>,
                \A r \in Slots : pc'[r] = "insert" =>
                    pc[r] = "insert" /\ job'[r] = job[r]
         PROVE  OnePlaceEach'
    BY <1>0, <1>00 DEF OnePlaceEach, Assignments
  <1>1. ASSUME NEW s \in Slots, NEW j \in Jobs, Begin(s, j)
        PROVE  OnePlaceEach'
    <2>1. UNCHANGED <<exists, refs>> /\ \A r \in Slots : r # s => pc'[r] = pc[r] /\ job'[r] = job[r]
      BY <1>0, <1>1 DEF Begin, TypeOK
    <2>2. pc'[s] = "insert" => KindOf[job'[s].row] # "assignment"
      BY <1>0, <1>1 DEF Begin, FirstPoint, Lookups, TypeOK
    <2> QED
      BY <1>0, <2>1, <2>2 DEF OnePlaceEach, Assignments
  <1>2. ASSUME NEW s \in Slots, Check(s)
        PROVE  OnePlaceEach'
    <2>1. UNCHANGED <<exists, refs>> /\ \A r \in Slots : r # s => pc'[r] = pc[r] /\ job'[r] = job[r]
      BY <1>0, <1>2 DEF Check, TypeOK
    <2>2. ASSUME pc'[s] = "insert", KindOf[job'[s].row] = "assignment"
          PROVE  OnePlace(job'[s].names)
      <3>1. Approved(job[s]) /\ job[s].op = "create" /\ job'[s] = job[s]
        BY <1>0, <1>2, <2>2 DEF Check, TypeOK
      <3> QED
        BY <2>2, <3>1 DEF Approved
    <2> QED
      BY <1>0, <2>1, <2>2 DEF OnePlaceEach, Assignments, OnePlace
  <1>3. ASSUME NEW s \in Slots, CheckCompany(s)
        PROVE  OnePlaceEach'
    <2>1. KindOf[job[s].row] = "vendor" /\ UNCHANGED <<exists, refs>>
      BY <1>0, <1>3 DEF CheckCompany, CreatesVendor, PointsMatchJobs
    <2>2. \A r \in Slots : r # s => pc'[r] = pc[r] /\ job'[r] = job[r]
      BY <1>0, <1>3 DEF CheckCompany, TypeOK
    <2>3. pc'[s] = "insert" => job'[s] = job[s]
      BY <1>0, <1>3 DEF CheckCompany, TypeOK
    <2> QED
      BY <1>0, <2>1, <2>2, <2>3 DEF OnePlaceEach, Assignments
  <1>4. ASSUME NEW s \in Slots, CheckPlant(s)
        PROVE  OnePlaceEach'
    <2>1. KindOf[job[s].row] = "vendor" /\ UNCHANGED <<exists, refs>>
      BY <1>0, <1>4 DEF CheckPlant, CreatesVendor, PointsMatchJobs
    <2>2. \A r \in Slots : r # s => pc'[r] = pc[r] /\ job'[r] = job[r]
      BY <1>0, <1>4 DEF CheckPlant, TypeOK
    <2>3. pc'[s] = "insert" => job'[s] = job[s]
      BY <1>0, <1>4 DEF CheckPlant, TypeOK
    <2> QED
      BY <1>0, <2>1, <2>2, <2>3 DEF OnePlaceEach, Assignments
  <1>5. ASSUME NEW s \in Slots, Insert(s)
        PROVE  OnePlaceEach'
    <2>1. job[s].row \in Rows /\ job[s].names \in Refs
      BY <1>0, <1>5, JobFacts DEF Insert, PointsMatchJobs
    <2>2. \A r \in Slots : pc'[r] = "insert" => pc[r] = "insert" /\ job'[r] = job[r]
      BY <1>0, <1>5 DEF Insert, TypeOK
    <2>3. CASE UNCHANGED <<exists, refs>>
      BY <1>00, <2>2, <2>3
    <2>4. CASE ~UNCHANGED <<exists, refs>>
      <3>1. /\ exists' = exists \cup {job[s].row}
            /\ refs' = [refs EXCEPT ![job[s].row] = job[s].names]
        BY <1>5, <2>4 DEF Insert
      <3>2. KindOf[job[s].row] = "assignment" => OnePlace(job[s].names)
        BY <1>0, <1>5 DEF Insert, OnePlaceEach
      <3>3. ASSUME NEW a \in exists', KindOf[a] = "assignment"
            PROVE  refs'[a]["company"] = Null \/ refs'[a]["plant"] = Null
        <4>1. CASE a = job[s].row
          BY <1>0, <2>1, <3>1, <3>2, <3>3, <4>1 DEF OnePlace, TypeOK
        <4>2. CASE a # job[s].row
          BY <1>0, <2>1, <3>1, <3>3, <4>2 DEF OnePlaceEach, Assignments, TypeOK
        <4> QED
          BY <4>1, <4>2
      <3> QED
        BY <1>0, <2>2, <3>3 DEF OnePlaceEach, Assignments
    <2> QED
      BY <2>3, <2>4
  <1>6. ASSUME NEW s \in Slots, Find(s)
        PROVE  OnePlaceEach'
    BY <1>0, <1>00, <1>6 DEF Find, TypeOK
  <1>7. ASSUME NEW s \in Slots, Write(s)
        PROVE  OnePlaceEach'
    <2>1. /\ job[s].row \in Rows /\ job[s].names \in Refs /\ exists' = exists
          /\ KindOf[job[s].row] # "assignment"
      BY <1>0, <1>7, JobFacts DEF Write, PointsMatchJobs, WellFormed
    <2>2. \A r \in Slots : pc'[r] = "insert" => pc[r] = "insert" /\ job'[r] = job[r]
      BY <1>0, <1>7 DEF Write, TypeOK
    <2>3. \A a \in exists : KindOf[a] = "assignment" => refs'[a] = refs[a]
      BY <1>0, <1>7, <2>1 DEF Write, TypeOK
    <2> QED
      BY <1>0, <2>1, <2>2, <2>3 DEF OnePlaceEach, Assignments
  <1>8. ASSUME NEW s \in Slots, Count(s)
        PROVE  OnePlaceEach'
    BY <1>0, <1>00, <1>8, CountMoves DEF Count, TypeOK
  <1>9. ASSUME NEW s \in Slots, SoftDelete(s)
        PROVE  OnePlaceEach'
    BY <1>0, <1>00, <1>9 DEF SoftDelete, TypeOK
  <1>10. ASSUME NEW s \in Slots, Remove(s)
        PROVE  OnePlaceEach'
    <2>1. job[s].row \in Rows
      BY <1>0, <1>10, JobFacts DEF Remove, PointsMatchJobs
    <2>2. \A r \in Slots : pc'[r] = "insert" => pc[r] = "insert" /\ job'[r] = job[r]
      BY <1>0, <1>10 DEF Remove, TypeOK
    <2>3. CASE UNCHANGED <<exists, refs>>
      BY <1>00, <2>2, <2>3
    <2>4. CASE ~UNCHANGED <<exists, refs>>
      <3>1. exists' = exists \ {job[s].row} /\ refs' = Released(job[s].row)
        BY <1>10, <2>4 DEF Remove
      <3>2. \A a \in exists', f \in Fields : refs[a][f] = Null => refs'[a][f] = Null
        BY <1>0, <2>1, <3>1, ReleasedFacts DEF TypeOK
      <3> QED
        BY <1>0, <2>2, <3>1, <3>2 DEF OnePlaceEach, Assignments, Fields
    <2> QED
      BY <2>3, <2>4
  <1>11. CASE UNCHANGED vars
    BY <1>0, <1>00, <1>11 DEF vars
  <1> QED
    BY <1>1, <1>2, <1>3, <1>4, <1>5, <1>6, <1>7, <1>8, <1>9, <1>10, <1>11
       DEF Next, Step

-----------------------------------------------------------------------------
\* While a deletion counts and until it removes the row, whatever comes to name
\* the row is noted.
LEMMA FreshNoted ==
    ASSUME ReferenceDataInv, [Next]_vars, NEW r \in Slots,
           pc[r] \in {"count", "remove"}, pc'[r] \in {"count", "remove"}
    PROVE  /\ job'[r] = job[r] /\ since[r] \subseteq since'[r]
           /\ \A x \in exists', f \in Fields : refs'[x][f] = job[r].row =>
                x \in since'[r] \/ (x \in exists /\ refs[x][f] = job[r].row)
  <1> DEFINE Fresh == /\ job'[r] = job[r] /\ since[r] \subseteq since'[r]
                      /\ \A x \in exists', f \in Fields : refs'[x][f] = job[r].row =>
                           x \in since'[r] \/ (x \in exists /\ refs[x][f] = job[r].row)
  <1> SUFFICES Fresh
    OBVIOUS
  <1> USE DEF rows, request, GoTo, End, Leave
  <1>0. TypeOK /\ PointsMatchJobs /\ NoDangling
    BY DEF ReferenceDataInv
  <1>00. job[r].row \in Rows /\ job[r].row # Null
    BY <1>0, JobFacts DEF PointsMatchJobs
  <1>1. ASSUME NEW s \in Slots, NEW j \in Jobs, Begin(s, j)
        PROVE  Fresh
    BY <1>0, <1>1 DEF Begin, TypeOK, Points
  <1>2. ASSUME NEW s \in Slots, Check(s)
        PROVE  Fresh
    BY <1>0, <1>2 DEF Check, TypeOK, Points
  <1>3. ASSUME NEW s \in Slots, CheckCompany(s)
        PROVE  Fresh
    BY <1>0, <1>3 DEF CheckCompany, TypeOK, Points
  <1>4. ASSUME NEW s \in Slots, CheckPlant(s)
        PROVE  Fresh
    BY <1>0, <1>4 DEF CheckPlant, TypeOK, Points
  <1>5. ASSUME NEW s \in Slots, Insert(s)
        PROVE  Fresh
    <2>1. s # r /\ job'[r] = job[r]
      BY <1>0, <1>5 DEF Insert, TypeOK
    <2>2. job[s].row \in Rows
      BY <1>0, <1>5, JobFacts DEF Insert, PointsMatchJobs
    <2>3. CASE UNCHANGED <<exists, refs, since>>
      BY <2>1, <2>3
    <2>4. CASE ~UNCHANGED <<exists, refs, since>>
      <3>1. /\ exists' = exists \cup {job[s].row}
            /\ refs' = [refs EXCEPT ![job[s].row] = job[s].names]
            /\ Noted(job[s].row, job[s].names)
        BY <1>5, <2>4 DEF Insert
      <3>2. /\ since[r] \subseteq since'[r]
            /\ \A f \in Fields : job[s].names[f] = job[r].row => job[s].row \in since'[r]
        BY <1>0, <2>2, <3>1, NotedFacts
      <3>3. refs'[job[s].row] = job[s].names /\ \A x \in Rows : x # job[s].row => refs'[x] = refs[x]
        BY <1>0, <2>2, <3>1 DEF TypeOK
      <3>4. \A x \in exists' : x \in Rows /\ (x = job[s].row \/ x \in exists)
        BY <1>0, <2>2, <3>1 DEF TypeOK
      <3> QED
        BY <2>1, <3>2, <3>3, <3>4
    <2> QED
      BY <2>3, <2>4
  <1>6. ASSUME NEW s \in Slots, Find(s)
        PROVE  Fresh
    BY <1>0, <1>6 DEF Find, TypeOK, Points
  <1>7. ASSUME NEW s \in Slots, Write(s)
        PROVE  Fresh
    <2>1. s # r /\ job'[r] = job[r] /\ exists' = exists
      BY <1>0, <1>7 DEF Write, TypeOK
    <2>2. job[s].row \in Rows /\ job[s].names \in Refs
      BY <1>0, <1>7, JobFacts DEF Write, PointsMatchJobs
    <2>3. CASE UNCHANGED <<refs, since>>
      BY <2>1, <2>3
    <2>4. CASE ~UNCHANGED <<refs, since>>
      <3>1. /\ refs' = [refs EXCEPT ![job[s].row] = Merged(job[s].row, job[s].names)]
            /\ Noted(job[s].row, job[s].names)
        BY <1>7, <2>4 DEF Write
      <3>2. /\ since[r] \subseteq since'[r]
            /\ \A f \in Fields : job[s].names[f] = job[r].row => job[s].row \in since'[r]
        BY <1>0, <2>2, <3>1, NotedFacts
      <3>3. \A f \in Fields : refs'[job[s].row][f] \in {job[s].names[f], refs[job[s].row][f]}
        BY <1>0, <2>2, <3>1, MergedFacts DEF TypeOK
      <3>4. \A x \in Rows : x # job[s].row => refs'[x] = refs[x]
        BY <1>0, <3>1 DEF TypeOK
      <3>5. ASSUME NEW x \in exists', NEW f \in Fields, refs'[x][f] = job[r].row
            PROVE  x \in since'[r] \/ (x \in exists /\ refs[x][f] = job[r].row)
        <4>1. x \in Rows /\ x \in exists
          BY <1>0, <2>1, <3>5 DEF TypeOK
        <4>2. CASE x = job[s].row
          BY <3>2, <3>3, <3>5, <4>1, <4>2
        <4>3. CASE x # job[s].row
          BY <3>4, <3>5, <4>1, <4>3
        <4> QED
          BY <4>2, <4>3
      <3> QED
        BY <2>1, <3>2, <3>5
    <2> QED
      BY <2>3, <2>4
  <1>8. ASSUME NEW s \in Slots, Count(s)
        PROVE  Fresh
    <2>1. UNCHANGED rows
      BY <1>8 DEF Count
    <2>2. \/ UNCHANGED <<job, since>>
          \/ End(s)
      BY <1>0, <1>8, CountFacts
    <2>3. CASE UNCHANGED <<job, since>>
      BY <2>1, <2>3
    <2>4. CASE End(s)
      BY <1>0, <2>1, <2>4 DEF TypeOK
    <2> QED
      BY <2>2, <2>3, <2>4
  <1>9. ASSUME NEW s \in Slots, SoftDelete(s)
        PROVE  Fresh
    BY <1>0, <1>9 DEF SoftDelete, TypeOK, Points
  <1>10. ASSUME NEW s \in Slots, Remove(s)
        PROVE  Fresh
    <2>1. s # r /\ job'[r] = job[r] /\ since'[r] = since[r]
      BY <1>0, <1>10 DEF Remove, TypeOK
    <2>2. job[s].row \in Rows
      BY <1>0, <1>10, JobFacts DEF Remove, PointsMatchJobs
    <2>3. CASE UNCHANGED <<exists, refs>>
      BY <2>1, <2>3
    <2>4. CASE ~UNCHANGED <<exists, refs>>
      <3>1. exists' = exists \ {job[s].row} /\ refs' = Released(job[s].row)
        BY <1>10, <2>4 DEF Remove
      <3>2. \A x \in Rows, f \in Fields : refs'[x][f] \in {refs[x][f], Null}
        BY <1>0, <2>2, <3>1, ReleasedFacts
      <3>3. \A x \in exists' : x \in exists /\ x \in Rows
        BY <1>0, <3>1 DEF TypeOK
      <3> QED
        BY <1>00, <2>1, <3>2, <3>3
    <2> QED
      BY <2>3, <2>4
  <1>11. CASE UNCHANGED vars
    BY <1>11 DEF vars
  <1> QED
    BY <1>1, <1>2, <1>3, <1>4, <1>5, <1>6, <1>7, <1>8, <1>9, <1>10, <1>11
       DEF Next, Step

\* A deletion that begins has noted nothing, and is that of a row which is not
\* counted, or has counted nothing yet; a count leaves the tables that it found
\* nothing in.
LEMMA DeletionSteps ==
    ASSUME ReferenceDataInv, [Next]_vars, NEW r \in Slots, pc'[r] \in {"count", "remove"}
    PROVE  \/ pc[r] = pc'[r] /\ UNCHANGED <<todo[r], found[r]>>
           \/ pc'[r] = "remove" /\ Kind(r)' \notin {"vendor", "currency"}
           \/ pc'[r] = "count" /\ Counted(Kind(r)') \subseteq todo'[r]
           \/ /\ pc[r] = "count" /\ UNCHANGED <<exists, refs, since>>
              /\ \E k \in todo[r] :
                   /\ ~found'[r] \/ pc'[r] = "remove" =>
                        ~found[r] /\ \A x \in exists :
                           KindOf[x] = k => refs[x][Kind(r)] # job[r].row
                   /\ \/ pc'[r] = "count" /\ todo'[r] = todo[r] \ {k}
                      \/ pc'[r] = "remove" /\ todo[r] = {k}
  <1> DEFINE Steps ==
           \/ pc[r] = pc'[r] /\ UNCHANGED <<todo[r], found[r]>>
           \/ pc'[r] = "remove" /\ Kind(r)' \notin {"vendor", "currency"}
           \/ pc'[r] = "count" /\ Counted(Kind(r)') \subseteq todo'[r]
           \/ /\ pc[r] = "count" /\ UNCHANGED <<exists, refs, since>>
              /\ \E k \in todo[r] :
                   /\ ~found'[r] \/ pc'[r] = "remove" =>
                        ~found[r] /\ \A x \in exists :
                           KindOf[x] = k => refs[x][Kind(r)] # job[r].row
                   /\ \/ pc'[r] = "count" /\ todo'[r] = todo[r] \ {k}
                      \/ pc'[r] = "remove" /\ todo[r] = {k}
  <1> SUFFICES Steps
    OBVIOUS
  <1> USE DEF rows, request, GoTo, End, Leave
  <1>0. TypeOK /\ PointsMatchJobs
    BY DEF ReferenceDataInv
  <1>1. ASSUME NEW s \in Slots, NEW j \in Jobs, Begin(s, j)
        PROVE  Steps
    BY <1>0, <1>1 DEF Begin, FirstPoint, Kind, TypeOK
  <1>2. ASSUME NEW s \in Slots, Check(s)
        PROVE  Steps
    BY <1>0, <1>2 DEF Check, TypeOK
  <1>3. ASSUME NEW s \in Slots, CheckCompany(s)
        PROVE  Steps
    BY <1>0, <1>3 DEF CheckCompany, TypeOK
  <1>4. ASSUME NEW s \in Slots, CheckPlant(s)
        PROVE  Steps
    BY <1>0, <1>4 DEF CheckPlant, TypeOK
  <1>5. ASSUME NEW s \in Slots, Insert(s)
        PROVE  Steps
    BY <1>0, <1>5 DEF Insert, TypeOK
  <1>6. ASSUME NEW s \in Slots, Find(s)
        PROVE  Steps
    BY <1>0, <1>6 DEF Find, Kind, TypeOK
  <1>7. ASSUME NEW s \in Slots, Write(s)
        PROVE  Steps
    BY <1>0, <1>7 DEF Write, TypeOK
  <1>8. ASSUME NEW s \in Slots, Count(s)
        PROVE  Steps
    <2>1. CASE r = s
      BY <1>0, <1>8, <2>1, CountFacts DEF TypeOK
    <2>2. CASE r # s
      BY <1>0, <1>8, <2>2, CountOthers
    <2> QED
      BY <2>1, <2>2
  <1>9. ASSUME NEW s \in Slots, SoftDelete(s)
        PROVE  Steps
    BY <1>0, <1>9 DEF SoftDelete, TypeOK
  <1>10. ASSUME NEW s \in Slots, Remove(s)
        PROVE  Steps
    BY <1>0, <1>10 DEF Remove, TypeOK
  <1>11. CASE UNCHANGED vars
    BY <1>11 DEF vars
  <1> QED
    BY <1>1, <1>2, <1>3, <1>4, <1>5, <1>6, <1>7, <1>8, <1>9, <1>10, <1>11
       DEF Next, Step

\* What has been counted and not found is what has come since.
LEMMA CountsNext == ReferenceDataInv /\ [Next]_vars => CountsKept'
  <1> SUFFICES ASSUME ReferenceDataInv, [Next]_vars, NEW r \in Slots,
                      pc'[r] = "count", Kind(r)' = "currency", ~found'[r],
                      NEW x \in exists', KindOf[x] \in Counted("currency") \ todo'[r],
                      refs'[x]["currency"] = job'[r].row
               PROVE  x \in since'[r]
    BY DEF CountsKept, Kind
  <1>0. CountsKept /\ TypeOK
    BY DEF ReferenceDataInv
  <1>1. pc[r] = "count"
    BY DeletionSteps
  <1>2. job'[r] = job[r] /\ since[r] \subseteq since'[r]
    BY <1>1, FreshNoted
  <1>3. x \in since'[r] \/ (x \in exists /\ refs[x]["currency"] = job[r].row)
    BY <1>1, <1>2, FreshNoted DEF Fields
  <1>4. CASE UNCHANGED <<todo[r], found[r]>>
    BY <1>0, <1>1, <1>2, <1>3, <1>4 DEF CountsKept, Kind
  <1>5. CASE \E k \in todo[r] :
               /\ ~found[r] /\ \A y \in exists : KindOf[y] = k => refs[y][Kind(r)] # job[r].row
               /\ todo'[r] = todo[r] \ {k}
    BY <1>0, <1>1, <1>2, <1>3, <1>5 DEF CountsKept, Kind
  <1> QED
    BY <1>4, <1>5, DeletionSteps

\* Only what came while it was counted can name a currency that is about to go.
LEMMA CurrenciesNext == ReferenceDataInv /\ [Next]_vars => CurrenciesKept'
  <1> SUFFICES ASSUME ReferenceDataInv, [Next]_vars, NEW r \in Slots,
                      pc'[r] = "remove", Kind(r)' = "currency",
                      NEW x \in exists', KindOf[x] \in {"contract", "order", "invoice"},
                      refs'[x]["currency"] = job'[r].row
               PROVE  x \in since'[r]
    BY DEF CurrenciesKept, Kind
  <1>0. CountsKept /\ CurrenciesKept
    BY DEF ReferenceDataInv
  <1>1. pc[r] \in {"count", "remove"}
    BY DeletionSteps
  <1>2. job'[r] = job[r] /\ since[r] \subseteq since'[r]
    BY <1>1, FreshNoted
  <1>3. x \in since'[r] \/ (x \in exists /\ refs[x]["currency"] = job[r].row)
    BY <1>1, <1>2, FreshNoted DEF Fields
  <1>4. CASE pc[r] = "remove"
    BY <1>0, <1>2, <1>3, <1>4 DEF CurrenciesKept, Kind
  <1>5. CASE pc[r] = "count"
    <2>1. PICK k \in todo[r] :
            /\ ~found[r] /\ \A y \in exists : KindOf[y] = k => refs[y][Kind(r)] # job[r].row
            /\ todo[r] = {k}
      BY <1>5, DeletionSteps
    <2>2. KindOf[x] \in Counted("currency")
      BY DEF Counted
    <2> QED
      BY <1>0, <1>2, <1>3, <1>5, <2>1, <2>2 DEF CountsKept, Kind
  <1> QED
    BY <1>1, <1>4, <1>5

-----------------------------------------------------------------------------
\* Requests that have found a vendor grow fewer once it is deleted, and one that
\* writes it is over.
LEMMA SettleNext == ReferenceDataInv /\ [Next]_vars => DeletedVendorsSettle'
  <1> SUFFICES ASSUME ReferenceDataInv, [Next]_vars
               PROVE  DeletedVendorsSettle'
    OBVIOUS
  <1> USE DEF rows, request, GoTo, End, Leave
  <1> DEFINE Settled(v) ==
               /\ v \in exists \ deleted => lateWrites[v] = 0
               /\ v \in deleted =>
                    /\ lateWrites[v] + Cardinality(Pending(v)) < Cardinality(Slots)
                    /\ lateWrites[v] = 0 => v \in inactive
             Calm == \A v \in deleted : Pending(v)' \subseteq Pending(v)
  <1>0. TypeOK /\ PointsMatchJobs /\ DeletedVendorsSettle
    BY DEF ReferenceDataInv
  <1>000. NewRowsUnwritten
    BY DEF ReferenceDataInv
  <1>01. ASSUME NEW v \in Of("vendor")
         PROVE  /\ Pending(v) \in SUBSET Slots /\ Pending(v)' \in SUBSET Slots
                /\ Cardinality(Slots) \in Nat
                /\ Cardinality(Pending(v)) \in Nat /\ Cardinality(Pending(v)') \in Nat
                /\ lateWrites[v] \in Nat
    <2>1. Pending(v) \in SUBSET Slots /\ Pending(v)' \in SUBSET Slots
      BY DEF Pending
    <2> QED
      BY <1>0, <2>1, SlotCounts DEF TypeOK, Of
  <1>02. ASSUME Calm, UNCHANGED <<deleted, lateWrites>>, inactive \subseteq inactive',
                exists' \subseteq exists \cup {v \in Rows : lateWrites[v] = 0}
         PROVE  DeletedVendorsSettle'
    <2> SUFFICES ASSUME NEW v \in Of("vendor")
                 PROVE  Settled(v)'
      BY DEF DeletedVendorsSettle, Of
    <2>1. Settled(v)
      BY <1>0 DEF DeletedVendorsSettle
    <2>2. v \in deleted => Cardinality(Pending(v)') <= Cardinality(Pending(v))
      BY <1>01, <1>02, FewerSlots
    <2> QED
      BY <1>01, <1>02, <2>1, <2>2
  <1>1. ASSUME NEW s \in Slots, NEW j \in Jobs, Begin(s, j)
        PROVE  DeletedVendorsSettle'
    <2>1. Calm
      <3> SUFFICES ASSUME NEW v \in deleted, NEW r \in Pending(v)'
                   PROVE  r \in Pending(v)
        OBVIOUS
      <3>1. KindOf[v] = "vendor"
        BY <1>0 DEF TypeOK, Of
      <3>2. CASE r = s
        BY <1>0, <1>1, <3>1, <3>2 DEF Begin, FirstPoint, Pending, TypeOK
      <3>3. CASE r # s
        BY <1>0, <1>1, <3>3 DEF Begin, Pending, TypeOK
      <3> QED
        BY <3>2, <3>3
    <2>2. UNCHANGED <<exists, deleted, inactive, lateWrites>>
      BY <1>1 DEF Begin
    <2> HIDE DEF Calm
    <2> QED
      BY <1>02, <2>1, <2>2
  <1>2. ASSUME NEW s \in Slots, Check(s)
        PROVE  DeletedVendorsSettle'
    <2>1. Calm
      BY <1>0, <1>2 DEF Check, Pending, TypeOK, PointsMatchJobs
    <2>2. UNCHANGED <<exists, deleted, inactive, lateWrites>>
      BY <1>2 DEF Check
    <2> HIDE DEF Calm
    <2> QED
      BY <1>02, <2>1, <2>2
  <1>3. ASSUME NEW s \in Slots, CheckCompany(s)
        PROVE  DeletedVendorsSettle'
    <2>1. Calm
      BY <1>0, <1>3 DEF CheckCompany, Pending, TypeOK, CreatesVendor
    <2>2. UNCHANGED <<exists, deleted, inactive, lateWrites>>
      BY <1>3 DEF CheckCompany
    <2> HIDE DEF Calm
    <2> QED
      BY <1>02, <2>1, <2>2
  <1>4. ASSUME NEW s \in Slots, CheckPlant(s)
        PROVE  DeletedVendorsSettle'
    <2>1. Calm
      BY <1>0, <1>4 DEF CheckPlant, Pending, TypeOK, PointsMatchJobs
    <2>2. UNCHANGED <<exists, deleted, inactive, lateWrites>>
      BY <1>4 DEF CheckPlant
    <2> HIDE DEF Calm
    <2> QED
      BY <1>02, <2>1, <2>2
  <1>5. ASSUME NEW s \in Slots, Insert(s)
        PROVE  DeletedVendorsSettle'
    <2>1. Calm
      BY <1>0, <1>5 DEF Insert, Pending, TypeOK
    <2>2. /\ UNCHANGED <<deleted, inactive, lateWrites>>
          /\ exists' \subseteq exists \cup {v \in Rows : lateWrites[v] = 0}
      <3>1. job[s].row \in Rows
        BY <1>0, <1>5, JobFacts DEF Insert, PointsMatchJobs
      <3>2. CASE job[s].row \in used
        BY <1>0, <1>5, <3>2 DEF Insert
      <3>3. CASE job[s].row \notin used
        <4>1. lateWrites[job[s].row] = 0
          BY <3>1, <3>3, <1>000 DEF NewRowsUnwritten
        <4> QED
          BY <1>5, <3>1, <4>1 DEF Insert
      <3> QED
        BY <3>2, <3>3
    <2> HIDE DEF Calm
    <2> QED
      BY <1>02, <2>1, <2>2
  <1>6. ASSUME NEW s \in Slots, Find(s)
        PROVE  DeletedVendorsSettle'
    <2>1. Calm
      BY <1>0, <1>6 DEF Find, Pending, TypeOK, Findable, Live
    <2>2. UNCHANGED <<exists, deleted, inactive, lateWrites>>
      BY <1>6 DEF Find
    <2> HIDE DEF Calm
    <2> QED
      BY <1>02, <2>1, <2>2
  <1>7. ASSUME NEW s \in Slots, Write(s)
        PROVE  DeletedVendorsSettle'
    <2>0. /\ \A v \in Of("vendor") : Pending(v)' \in SUBSET Pending(v) /\ s \notin Pending(v)'
          /\ s \in Pending(job[s].row)
      BY <1>0, <1>7 DEF Write, Pending, TypeOK
    <2> SUFFICES ASSUME NEW v \in Of("vendor")
                 PROVE  Settled(v)'
      BY DEF DeletedVendorsSettle, Of
    <2>1. Settled(v)
      BY <1>0 DEF DeletedVendorsSettle
    <2>2. /\ Cardinality(Pending(v)') <= Cardinality(Pending(v))
          /\ v = job[s].row => Cardinality(Pending(v)') + 1 <= Cardinality(Pending(v))
          /\ Cardinality(Pending(v)') < Cardinality(Slots)
      <3>1. Pending(v)' # Slots
        BY <2>0
      <3> QED
        BY <1>01, <2>0, <3>1, FewerSlots, SlotCounts
    <2>3. UNCHANGED <<exists, deleted>>
      BY <1>7 DEF Write
    <2>4. v \in Rows
      BY DEF Of
    <2>5. CASE UNCHANGED <<inactive, lateWrites>>
      BY <1>01, <2>1, <2>2, <2>3, <2>5
    <2>6. CASE ~UNCHANGED <<inactive, lateWrites>>
      <3>1. inactive \ {job[s].row} \subseteq inactive' /\ Late(job[s].row)
        BY <1>7, <2>6 DEF Write
      <3>2. CASE v = job[s].row /\ v \in deleted
        <4>1. lateWrites'[v] = lateWrites[v] + 1
          BY <1>0, <2>4, <3>1, <3>2 DEF Late, TypeOK
        <4> QED
          BY <1>01, <2>1, <2>2, <2>3, <3>2, <4>1
      <3>3. CASE ~(v = job[s].row /\ v \in deleted)
        <4>1. lateWrites'[v] = lateWrites[v]
          BY <1>0, <2>4, <3>1, <3>3 DEF Late, TypeOK
        <4> QED
          BY <1>01, <2>1, <2>2, <2>3, <3>1, <3>3, <4>1
      <3> QED
        BY <3>2, <3>3
    <2> QED
      BY <2>5, <2>6
  <1>8. ASSUME NEW s \in Slots, Count(s)
        PROVE  DeletedVendorsSettle'
    <2>1. Calm
      BY <1>0, <1>8, CountMoves DEF Count, Pending, TypeOK
    <2>2. UNCHANGED <<exists, deleted, inactive, lateWrites>>
      BY <1>8 DEF Count
    <2> HIDE DEF Calm
    <2> QED
      BY <1>02, <2>1, <2>2
  <1>9. ASSUME NEW s \in Slots, SoftDelete(s)
        PROVE  DeletedVendorsSettle'
    <2>0. /\ \A v \in Of("vendor") : Pending(v)' \in SUBSET Pending(v) /\ s \notin Pending(v)'
          /\ s \in Pending(job[s].row)
      BY <1>0, <1>9 DEF SoftDelete, Pending, TypeOK
    <2> SUFFICES ASSUME NEW v \in Of("vendor")
                 PROVE  Settled(v)'
      BY DEF DeletedVendorsSettle, Of
    <2>1. Settled(v)
      BY <1>0 DEF DeletedVendorsSettle
    <2>2. /\ Cardinality(Pending(v)') <= Cardinality(Pending(v))
          /\ v = job[s].row => Cardinality(Pending(v)') + 1 <= Cardinality(Pending(v))
          /\ Cardinality(Pending(v)') < Cardinality(Slots)
      <3>1. Pending(v)' # Slots
        BY <2>0
      <3> QED
        BY <1>01, <2>0, <3>1, FewerSlots, SlotCounts
    <2>3. UNCHANGED exists /\ v \in Rows
      BY <1>9 DEF SoftDelete, Of
    <2>5. CASE UNCHANGED <<deleted, inactive, lateWrites>>
      BY <1>01, <2>1, <2>2, <2>3, <2>5
    <2>6. CASE ~UNCHANGED <<deleted, inactive, lateWrites>>
      <3>1. /\ job[s].row \in exists /\ deleted' = deleted \cup {job[s].row}
            /\ inactive' = inactive \cup {job[s].row} /\ Late(job[s].row)
        BY <1>9, <2>6 DEF SoftDelete
      <3>2. CASE v = job[s].row /\ v \in deleted
        <4>1. lateWrites'[v] = lateWrites[v] + 1
          BY <1>0, <2>3, <3>1, <3>2 DEF Late, TypeOK
        <4> QED
          BY <1>01, <2>1, <2>2, <3>1, <3>2, <4>1
      <3>3. CASE ~(v = job[s].row /\ v \in deleted)
        <4>1. lateWrites'[v] = lateWrites[v]
          BY <1>0, <2>3, <3>1, <3>3 DEF Late, TypeOK
        <4> QED
          BY <1>01, <2>1, <2>2, <2>3, <3>1, <3>3, <4>1
      <3> QED
        BY <3>2, <3>3
    <2> QED
      BY <2>5, <2>6
  <1>10. ASSUME NEW s \in Slots, Remove(s)
        PROVE  DeletedVendorsSettle'
    <2>1. \A v \in Of("vendor") : Pending(v)' \in SUBSET Pending(v)
      BY <1>0, <1>10 DEF Remove, Pending, TypeOK
    <2> SUFFICES ASSUME NEW v \in Of("vendor")
                 PROVE  Settled(v)'
      BY DEF DeletedVendorsSettle, Of
    <2>2. Settled(v) /\ (v \in deleted => v \in exists)
      BY <1>0 DEF DeletedVendorsSettle, TypeOK
    <2>3. Cardinality(Pending(v)') <= Cardinality(Pending(v))
      BY <1>01, <2>1, FewerSlots
    <2>4. /\ UNCHANGED lateWrites
          /\ \/ UNCHANGED <<exists, deleted, inactive>>
             \/ /\ exists' = exists \ {job[s].row} /\ deleted' = deleted \ {job[s].row}
                /\ inactive' = inactive \ {job[s].row}
      BY <1>10 DEF Remove
    <2> QED
      BY <1>01, <2>2, <2>3, <2>4
  <1>11. CASE UNCHANGED vars
    <2>1. Calm
      BY <1>0, <1>11 DEF vars, Pending, TypeOK
    <2>2. UNCHANGED <<exists, deleted, inactive, lateWrites>>
      BY <1>11 DEF vars
    <2> HIDE DEF Calm
    <2> QED
      BY <1>02, <2>1, <2>2
  <1> QED
    BY <1>1, <1>2, <1>3, <1>4, <1>5, <1>6, <1>7, <1>8, <1>9, <1>10, <1>11
       DEF Next, Step

\* Rows that never were stay unwritten: only rows that are there are written.
LEMMA UnwrittenNext == ReferenceDataInv /\ [Next]_vars => NewRowsUnwritten'
  <1> SUFFICES ASSUME ReferenceDataInv, [Next]_vars
               PROVE  NewRowsUnwritten'
    OBVIOUS
  <1> USE DEF rows, request
  <1>0. TypeOK /\ NewRowsUnwritten
    BY DEF ReferenceDataInv
  <1>00. ASSUME used \subseteq used', UNCHANGED lateWrites
         PROVE  NewRowsUnwritten'
    BY <1>0, <1>00 DEF NewRowsUnwritten
  <1>1. ASSUME NEW s \in Slots, NEW j \in Jobs, Begin(s, j)
        PROVE  NewRowsUnwritten'
    BY <1>00, <1>1 DEF Begin
  <1>2. ASSUME NEW s \in Slots, Check(s)
        PROVE  NewRowsUnwritten'
    BY <1>00, <1>2 DEF Check
  <1>3. ASSUME NEW s \in Slots, CheckCompany(s)
        PROVE  NewRowsUnwritten'
    BY <1>00, <1>3 DEF CheckCompany
  <1>4. ASSUME NEW s \in Slots, CheckPlant(s)
        PROVE  NewRowsUnwritten'
    BY <1>00, <1>4 DEF CheckPlant
  <1>5. ASSUME NEW s \in Slots, Insert(s)
        PROVE  NewRowsUnwritten'
    BY <1>00, <1>5 DEF Insert
  <1>6. ASSUME NEW s \in Slots, Find(s)
        PROVE  NewRowsUnwritten'
    BY <1>00, <1>6 DEF Find
  <1>7. ASSUME NEW s \in Slots, Write(s)
        PROVE  NewRowsUnwritten'
    <2>1. UNCHANGED used /\ (UNCHANGED lateWrites \/ Late(job[s].row))
      BY <1>7 DEF Write
    <2>2. deleted \subseteq used
      BY <1>0 DEF TypeOK
    <2> QED
      BY <1>0, <2>1, <2>2 DEF NewRowsUnwritten, Late, TypeOK
  <1>8. ASSUME NEW s \in Slots, Count(s)
        PROVE  NewRowsUnwritten'
    BY <1>00, <1>8 DEF Count
  <1>9. ASSUME NEW s \in Slots, SoftDelete(s)
        PROVE  NewRowsUnwritten'
    <2>1. UNCHANGED used /\ (UNCHANGED lateWrites \/ Late(job[s].row))
      BY <1>9 DEF SoftDelete
    <2>2. deleted \subseteq used
      BY <1>0 DEF TypeOK
    <2> QED
      BY <1>0, <2>1, <2>2 DEF NewRowsUnwritten, Late, TypeOK
  <1>10. ASSUME NEW s \in Slots, Remove(s)
        PROVE  NewRowsUnwritten'
    BY <1>00, <1>10 DEF Remove
  <1>11. CASE UNCHANGED vars
    BY <1>00, <1>11 DEF vars
  <1> QED
    BY <1>1, <1>2, <1>3, <1>4, <1>5, <1>6, <1>7, <1>8, <1>9, <1>10, <1>11
       DEF Next, Step

\* A request for both places finds no assignment: no row has both.
LEMMA BothPlacesNext == ReferenceDataInv /\ [Next]_vars => BothPlacesRefused'
  <1> SUFFICES ASSUME ReferenceDataInv, [Next]_vars
               PROVE  BothPlacesRefused'
    OBVIOUS
  <1> USE DEF rows, request, GoTo, End, Leave, Kind
  <1> DEFINE Fine(r) == /\ \/ /\ pc[r] = "write" /\ job[r].op = "update"
                              /\ KindOf[job[r].row] = "vendor"
                           \/ pc[r] = "insert" /\ KindOf[job[r].row] \in {"order", "requisition"}
                        /\ job[r].names["org"] # Null /\ job[r].names["company"] # Null
                        => job[r].names["plant"] = Null
  <1>0. TypeOK /\ PointsMatchJobs /\ OnePlaceEach /\ BothPlacesRefused
    BY DEF ReferenceDataInv
  <1>00. ASSUME NEW s \in Slots, Fine(s)',
                \A r \in Slots : r # s => pc'[r] = pc[r] /\ job'[r] = job[r]
         PROVE  BothPlacesRefused'
    <2>1. ASSUME NEW r \in Slots PROVE Fine(r)'
      <3>1. CASE r = s
        BY <1>00, <3>1
      <3>2. CASE r # s
        BY <1>0, <1>00, <3>2 DEF BothPlacesRefused
      <3> QED
        BY <3>1, <3>2
    <2> QED
      BY <2>1 DEF BothPlacesRefused
  <1>1. ASSUME NEW s \in Slots, NEW j \in Jobs, Begin(s, j)
        PROVE  BothPlacesRefused'
    <2>1. \A r \in Slots : r # s => pc'[r] = pc[r] /\ job'[r] = job[r]
      BY <1>0, <1>1 DEF Begin, TypeOK
    <2>2. /\ pc'[s] # "write"
          /\ pc'[s] = "insert" => KindOf[job'[s].row] \notin {"order", "requisition"}
      BY <1>0, <1>1 DEF Begin, FirstPoint, Lookups, TypeOK
    <2> QED
      BY <1>00, <2>1, <2>2
  <1>2. ASSUME NEW s \in Slots, Check(s)
        PROVE  BothPlacesRefused'
    <2>1. \A r \in Slots : r # s => pc'[r] = pc[r] /\ job'[r] = job[r]
      BY <1>0, <1>2 DEF Check, TypeOK
    <2>2. ASSUME pc'[s] \in {"insert", "write"}
          PROVE  /\ Approved(job[s]) /\ job'[s] = job[s]
                 /\ pc'[s] = "insert" <=> job[s].op = "create"
      BY <1>0, <1>2, <2>2 DEF Check, TypeOK
    <2>3. ASSUME Approved(job[s]), job[s].names["org"] # Null, job[s].names["company"] # Null,
                 \/ job[s].op = "update"
                 \/ job[s].op = "create" /\ KindOf[job[s].row] \in {"order", "requisition"}
          PROVE  job[s].names["plant"] = Null
      <3>1. OneRow(job[s].names)
        BY <2>3 DEF Approved, AsksPlacement
      <3> QED
        BY <1>0, <2>3, <3>1 DEF OneRow, OnePlaceEach
    <2>4. Fine(s)'
      <3>1. CASE pc'[s] \in {"insert", "write"}
        BY <2>2, <2>3, <3>1
      <3>2. CASE pc'[s] \notin {"insert", "write"}
        BY <3>2
      <3> QED
        BY <3>1, <3>2
    <2> HIDE DEF Fine
    <2> QED
      BY <1>00, <2>1, <2>4
  <1>3. ASSUME NEW s \in Slots, CheckCompany(s)
        PROVE  BothPlacesRefused'
    <2>1. \A r \in Slots : r # s => pc'[r] = pc[r] /\ job'[r] = job[r]
      BY <1>0, <1>3 DEF CheckCompany, TypeOK
    <2>2. Fine(s)'
      BY <1>0, <1>3 DEF CheckCompany, TypeOK, PointsMatchJobs, CreatesVendor
    <2> HIDE DEF Fine
    <2> QED
      BY <1>00, <2>1, <2>2
  <1>4. ASSUME NEW s \in Slots, CheckPlant(s)
        PROVE  BothPlacesRefused'
    <2>1. \A r \in Slots : r # s => pc'[r] = pc[r] /\ job'[r] = job[r]
      BY <1>0, <1>4 DEF CheckPlant, TypeOK
    <2>2. Fine(s)'
      BY <1>0, <1>4 DEF CheckPlant, TypeOK, PointsMatchJobs, CreatesVendor
    <2> HIDE DEF Fine
    <2> QED
      BY <1>00, <2>1, <2>2
  <1>5. ASSUME NEW s \in Slots, Insert(s)
        PROVE  BothPlacesRefused'
    <2>1. \A r \in Slots : r # s => pc'[r] = pc[r] /\ job'[r] = job[r]
      BY <1>0, <1>5 DEF Insert, TypeOK
    <2>2. Fine(s)'
      BY <1>0, <1>5 DEF Insert, TypeOK, PointsMatchJobs, CreatesVendor
    <2> HIDE DEF Fine
    <2> QED
      BY <1>00, <2>1, <2>2
  <1>6. ASSUME NEW s \in Slots, Find(s)
        PROVE  BothPlacesRefused'
    <2>1. \A r \in Slots : r # s => pc'[r] = pc[r] /\ job'[r] = job[r]
      BY <1>0, <1>6 DEF Find, TypeOK
    <2>2. /\ pc'[s] # "insert"
          /\ pc'[s] = "write" /\ job'[s].op = "update" =>
               KindOf[job[s].row] # "vendor" /\ job'[s] = job[s]
      BY <1>0, <1>6 DEF Find, TypeOK
    <2> QED
      BY <1>00, <2>1, <2>2
  <1>7. ASSUME NEW s \in Slots, Write(s)
        PROVE  BothPlacesRefused'
    <2>1. \A r \in Slots : r # s => pc'[r] = pc[r] /\ job'[r] = job[r]
      BY <1>0, <1>7 DEF Write, TypeOK
    <2>2. Fine(s)'
      BY <1>0, <1>7 DEF Write, TypeOK, PointsMatchJobs, CreatesVendor
    <2> HIDE DEF Fine
    <2> QED
      BY <1>00, <2>1, <2>2
  <1>8. ASSUME NEW s \in Slots, Count(s)
        PROVE  BothPlacesRefused'
    <2>2. Fine(s)'
      BY <1>0, <1>8, CountMoves DEF Count, TypeOK
    <2>3. \A r \in Slots : r # s => pc'[r] = pc[r] /\ job'[r] = job[r]
      BY <1>0, <1>8, CountOthers
    <2> HIDE DEF Fine
    <2> QED
      BY <1>00, <2>2, <2>3
  <1>9. ASSUME NEW s \in Slots, SoftDelete(s)
        PROVE  BothPlacesRefused'
    <2>1. \A r \in Slots : r # s => pc'[r] = pc[r] /\ job'[r] = job[r]
      BY <1>0, <1>9 DEF SoftDelete, TypeOK
    <2>2. Fine(s)'
      BY <1>0, <1>9 DEF SoftDelete, TypeOK, PointsMatchJobs, CreatesVendor
    <2> HIDE DEF Fine
    <2> QED
      BY <1>00, <2>1, <2>2
  <1>10. ASSUME NEW s \in Slots, Remove(s)
        PROVE  BothPlacesRefused'
    <2>1. \A r \in Slots : r # s => pc'[r] = pc[r] /\ job'[r] = job[r]
      BY <1>0, <1>10 DEF Remove, TypeOK
    <2>2. Fine(s)'
      BY <1>0, <1>10 DEF Remove, TypeOK, PointsMatchJobs, CreatesVendor
    <2> HIDE DEF Fine
    <2> QED
      BY <1>00, <2>1, <2>2
  <1>11. CASE UNCHANGED vars
    BY <1>0, <1>11 DEF vars, BothPlacesRefused
  <1> QED
    BY <1>1, <1>2, <1>3, <1>4, <1>5, <1>6, <1>7, <1>8, <1>9, <1>10, <1>11
       DEF Next, Step

-----------------------------------------------------------------------------
\* The invariant holds at the start.
LEMMA InvInit == Init => ReferenceDataInv
  <1> SUFFICES ASSUME Init
               PROVE  ReferenceDataInv
    OBVIOUS
  <1>1. TypeOK
    BY TypeInit
  <1>2. PointsMatchJobs /\ CountsKept /\ CurrenciesKept /\ BothPlacesRefused
    BY DEF Init, PointsMatchJobs, CountsKept, CurrenciesKept, BothPlacesRefused
  <1>3. NewRowsUnwritten /\ DeletedVendorsSettle
    BY DEF Init, NewRowsUnwritten, DeletedVendorsSettle, Of
  <1>4. NoDangling
    BY ReferenceDataAssumption DEF Init, NoDangling
  <1>5. OnePlaceEach
    BY ReferenceDataAssumption DEF Init, OnePlaceEach, Assignments
  <1> QED
    BY <1>1, <1>2, <1>3, <1>4, <1>5 DEF ReferenceDataInv

\* Every step keeps the invariant.
LEMMA InvNext == ReferenceDataInv /\ [Next]_vars => ReferenceDataInv'
  BY TypeNext, PointsNext, DanglingNext, UnwrittenNext, OnePlaceNext, CountsNext,
     CurrenciesNext, SettleNext, BothPlacesNext DEF ReferenceDataInv

\* The inductive invariant of vendors, currencies and the organisation
\* structure holds in every behaviour.
THEOREM ReferenceDataInvariance == Spec => []ReferenceDataInv
  BY InvInit, InvNext, PTL DEF Spec

\* The values of all variables are of their types, always.
THEOREM TypeCorrectness == Spec => []TypeOK
  <1>1. ReferenceDataInv => TypeOK
    BY DEF ReferenceDataInv
  <1> QED
    BY <1>1, ReferenceDataInvariance, PTL

\* CurrencyService.delete clears the currency only of documents that came to
\* name it while it was counting.
THEOREM CurrenciesKeptHolds == Spec => []CurrenciesKept
  <1>1. ReferenceDataInv => CurrenciesKept
    BY DEF ReferenceDataInv
  <1> QED
    BY <1>1, ReferenceDataInvariance, PTL

\* A vendor that VendorService has deleted softly is written at most once for
\* each other slot.
THEOREM DeletedVendorsSettleHolds == Spec => []DeletedVendorsSettle
  <1>1. ReferenceDataInv => DeletedVendorsSettle
    BY DEF ReferenceDataInv
  <1> QED
    BY <1>1, ReferenceDataInvariance, PTL

\* An update of a vendor, an order or a requisition that names a purchasing
\* organisation, a company code and a plant is refused, in every behaviour.
THEOREM BothPlacesRefusedHolds == Spec => []BothPlacesRefused
  <1>1. ReferenceDataInv => BothPlacesRefused
    BY DEF ReferenceDataInv
  <1> QED
    BY <1>1, ReferenceDataInvariance, PTL
=============================================================================
