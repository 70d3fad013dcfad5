---------------------------- MODULE SessionsProofs ----------------------------
(***************************************************************************)
(* Theorems about Sessions for every set of slots, accounts, roles, refresh *)
(* tokens and requests, and all lifetimes.                                 *)
(***************************************************************************)
EXTENDS SessionsInvariant, FiniteSetTheorems, TLAPS

-----------------------------------------------------------------------------
\* What a request names.
LEMMA JobFacts ==
    ASSUME NEW j \in Jobs
    PROVE  /\ j.op \in Ops /\ j.account \in Accounts /\ j.cookie \in RefreshTokens
           /\ j.roles \subseteq Roles /\ j # NoJob
  <1>1. j \in JobType
    BY SessionsAssumption
  <1> QED
    BY <1>1, SessionsAssumption DEF JobType

\* The types hold at the start.
LEMMA TypeInit == Init => TypeOK
  BY SessionsAssumption DEF Init, TypeOK, Points

\* The requests a process serves are finitely many.
LEMMA SlotCounts ==
    ASSUME NEW T \in SUBSET Slots
    PROVE  /\ IsFiniteSet(T) /\ Cardinality(T) \in Nat
           /\ Cardinality(Slots) \in Nat
           /\ Cardinality(T) <= Cardinality(Slots)
           /\ T # Slots => Cardinality(T) < Cardinality(Slots)
  BY SessionsAssumption, FS_Subset, FS_CardinalityType

\* Fewer requests.
LEMMA FewerSlots ==
    ASSUME NEW T \in SUBSET Slots, NEW U \in SUBSET T
    PROVE  /\ Cardinality(U) <= Cardinality(T)
           /\ \A s \in T : s \notin U => Cardinality(U) + 1 <= Cardinality(T)
  <1>1. IsFiniteSet(T) /\ Cardinality(T) \in Nat /\ Cardinality(U) \in Nat
    BY SlotCounts
  <1>2. Cardinality(U) <= Cardinality(T) /\ (U # T => Cardinality(U) < Cardinality(T))
    BY <1>1, FS_Subset
  <1> QED
    BY <1>1, <1>2

\* The role that a request names.
LEMMA RoleFacts ==
    ASSUME NEW s \in Slots, job[s] \in Jobs, job[s].op \in RoleOps
    PROVE  TheRole(s) \in Roles
  <1>1. job[s].roles # {} /\ job[s].roles \subseteq Roles
    BY JobFacts, SessionsAssumption
  <1>2. \E r \in Roles : r \in job[s].roles
    BY <1>1
  <1> QED
    BY <1>2 DEF TheRole

\* The names of an account's roles, and whom tokens are for.
LEMMA NameFacts ==
    ASSUME TypeOK, NEW a
    PROVE  RolesOf(a) \subseteq RoleNames
  BY DEF RolesOf, TypeOK, RoleNames

-----------------------------------------------------------------------------
\* A step of one slot leaves the requests of the others alone.
LEMMA OthersStay ==
    ASSUME TypeOK, NEW s \in Slots, Step(s) \/ \E j \in Jobs : Begin(s, j),
           NEW r \in Slots, r # s
    PROVE  pc'[r] = pc[r] /\ job'[r] = job[r] /\ names'[r] = names[r]
  <1> USE DEF request, GoTo, End, Leave, TypeOK
  <1>1. CASE FindAccount(s) \/ LookupAccount(s) \/ FindUnverified(s)
    BY <1>1 DEF FindAccount, LookupAccount, FindUnverified
  <1>2. CASE InsertUser(s)
    BY <1>2 DEF InsertUser
  <1>3. CASE SetVerified(s) \/ ReadRefreshToken(s) \/ ReadOwner(s)
    BY <1>3 DEF SetVerified, ReadRefreshToken, ReadOwner
  <1>4. CASE LoadRoles(s)
    BY <1>4 DEF LoadRoles
  <1>5. CASE Issue(s) \/ Reissue(s) \/ Revoke(s)
    BY <1>5 DEF Issue, Reissue, Revoke
  <1>6. CASE FindName(s) \/ InsertRole(s) \/ FindRole(s)
    BY <1>6 DEF FindName, InsertRole, FindRole
  <1>7. CASE WriteRole(s)
    BY <1>7 DEF WriteRole
  <1>8. CASE CountGrants(s) \/ DeleteRole(s)
    BY <1>8 DEF CountGrants, DeleteRole
  <1>9. CASE FindForAssign(s) \/ ReadGrants(s)
    BY <1>9 DEF FindForAssign, ReadGrants
  <1>10. CASE InsertGrant(s)
    BY <1>10 DEF InsertGrant
  <1>11. CASE FindGrant(s) \/ DeleteGrant(s)
    BY <1>11 DEF FindGrant, DeleteGrant
  <1>12. CASE \E j \in Jobs : Begin(s, j)
    BY <1>12 DEF Begin
  <1> QED
    BY <1>1, <1>2, <1>3, <1>4, <1>5, <1>6, <1>7, <1>8, <1>9, <1>10, <1>11,
       <1>12 DEF Step

\* What signing makes of the tokens and the counts.
LEMMA SignTypes ==
    ASSUME TypeOK, NEW s \in Slots, Subject(s) \in Accounts, Sign(s)
    PROVE  /\ tokens' \subseteq TokenType
           /\ lateNames' \in [Accounts -> [RoleNames -> Nat]]
  <1>1. [owner |-> Subject(s), names |-> names[s], life |-> AccessLife] \in TokenType
    BY SessionsAssumption DEF TokenType, TypeOK
  <1>2. tokens' \subseteq TokenType
    BY <1>1 DEF Sign, TypeOK
  <1>3. [n \in RoleNames |-> IF n \in names[s] /\ ~Holds(Subject(s), n)
                              THEN lateNames[Subject(s)][n] + 1
                              ELSE lateNames[Subject(s)][n]] \in [RoleNames -> Nat]
    BY DEF TypeOK
  <1> QED
    BY <1>2, <1>3 DEF Sign, TypeOK

\* A count that is begun anew where a role is held is a count.
LEMMA CountTypes ==
    ASSUME TypeOK, CountAnew
    PROVE  /\ lateNames' \in [Accounts -> [RoleNames -> Nat]]
           /\ \A a \in Accounts, n \in RoleNames :
                lateNames'[a][n] = IF Holds(a, n)' THEN 0 ELSE lateNames[a][n]
  <1>1. \A a \in Accounts :
          [n \in RoleNames |-> IF Holds(a, n)' THEN 0 ELSE lateNames[a][n]]
            \in [RoleNames -> Nat]
    BY DEF TypeOK
  <1> QED
    BY <1>1 DEF CountAnew

\* Tokens grow old, and keep their owners.
LEMMA AgedTypes ==
    ASSUME NEW T \in SUBSET TokenType
    PROVE  /\ Aged(T) \subseteq TokenType
           /\ \A t \in Aged(T) : \E u \in T : t.owner = u.owner
  <1>1. ASSUME NEW u \in T, u.life > 1
        PROVE  /\ [u EXCEPT !.life = @ - 1] \in TokenType
               /\ [u EXCEPT !.life = @ - 1].owner = u.owner
    BY <1>1, SessionsAssumption DEF TokenType
  <1> QED
    BY <1>1 DEF Aged

\* Type correctness: every step writes values of the variables' types.
LEMMA TypeNext == SessionsInv /\ [Next]_vars => TypeOK'
  <1> SUFFICES ASSUME SessionsInv, [Next]_vars
               PROVE  TypeOK'
    OBVIOUS
  <1> USE DEF accounts, roles, cookies, request, GoTo, End, Leave
  <1>0. TypeOK /\ PointsMatchJobs
    BY DEF SessionsInv
  <1>1. ASSUME NEW s \in Slots, NEW j \in Jobs, Begin(s, j)
        PROVE  TypeOK'
    BY <1>0, <1>1, JobFacts
       DEF Begin, TypeOK, Points, FirstPoint
  <1>2. ASSUME NEW s \in Slots, FindAccount(s)
        PROVE  TypeOK'
    BY <1>0, <1>2
       DEF FindAccount, TypeOK, Points
  <1>3. ASSUME NEW s \in Slots, LookupAccount(s)
        PROVE  TypeOK'
    BY <1>0, <1>3
       DEF LookupAccount, TypeOK, Points
  <1>4. ASSUME NEW s \in Slots, InsertUser(s)
        PROVE  TypeOK'
    <2>1. job[s].account \in Accounts
      BY <1>0, <1>4, JobFacts DEF InsertUser, PointsMatchJobs
    <2> QED
      BY <1>0, <1>4, <2>1 DEF InsertUser, TypeOK, Points
  <1>5. ASSUME NEW s \in Slots, FindUnverified(s)
        PROVE  TypeOK'
    BY <1>0, <1>5
       DEF FindUnverified, TypeOK, Points
  <1>6. ASSUME NEW s \in Slots, SetVerified(s)
        PROVE  TypeOK'
    BY <1>0, <1>6
       DEF SetVerified, PointsMatchJobs, TypeOK, Points
  <1>7. ASSUME NEW s \in Slots, ReadRefreshToken(s)
        PROVE  TypeOK'
    BY <1>0, <1>7
       DEF ReadRefreshToken, TypeOK, Points
  <1>8. ASSUME NEW s \in Slots, ReadOwner(s)
        PROVE  TypeOK'
    BY <1>0, <1>8
       DEF ReadOwner, TypeOK, Points
  <1>9. ASSUME NEW s \in Slots, LoadRoles(s)
        PROVE  TypeOK'
    <2>1. PICK N \in {{}, RolesOf(Subject(s))} : names' = [names EXCEPT ![s] = N]
      BY <1>9 DEF LoadRoles
    <2>2. N \in SUBSET RoleNames
      BY <1>0, <2>1, NameFacts
    <2>3. names' \in [Slots -> SUBSET RoleNames]
      BY <1>0, <2>1, <2>2 DEF TypeOK
    <2> QED
      BY <1>0, <1>9, <2>3 DEF LoadRoles, TypeOK, Points
  <1>10. ASSUME NEW s \in Slots, Issue(s)
        PROVE  TypeOK'
    <2>1. Subject(s) \in verified /\ Subject(s) \in Accounts
      BY <1>0, <1>10 DEF Issue, SessionsInv, SubjectsVerified, TypeOK
    <2>2. ASSUME Sign(s)
          PROVE  /\ tokens' \subseteq TokenType
                 /\ lateNames' \in [Accounts -> [RoleNames -> Nat]]
      BY <1>0, <2>1, <2>2, SignTypes
    <2>3. tokens' \subseteq TokenType /\ lateNames' \in [Accounts -> [RoleNames -> Nat]]
      BY <1>0, <1>10, <2>2 DEF Issue, TypeOK
    <2>4. CASE UNCHANGED <<owner, left>>
      BY <1>0, <1>10, <2>3, <2>4 DEF Issue, TypeOK, Points
    <2>5. CASE ~UNCHANGED <<owner, left>>
      <3>1. PICK k \in RefreshTokens :
              /\ owner' = [owner EXCEPT ![k] = Subject(s)]
              /\ left' = [left EXCEPT ![k] = RefreshLife]
        BY <1>10, <2>5 DEF Issue
      <3>2. owner' \in [RefreshTokens -> Accounts \cup {NoAccount}]
        BY <1>0, <2>1, <3>1 DEF TypeOK
      <3>3. RefreshLife \in 0..RefreshLife
        BY SessionsAssumption
      <3>4. left' \in [RefreshTokens -> 0..RefreshLife]
        BY <1>0, <3>1, <3>3 DEF TypeOK
      <3> QED
        BY <1>0, <1>10, <2>3, <3>2, <3>4 DEF Issue, TypeOK, Points
    <2> QED
      BY <2>4, <2>5
  <1>11. ASSUME NEW s \in Slots, Reissue(s)
        PROVE  TypeOK'
    <2>1. Subject(s) \in verified /\ Subject(s) \in Accounts
      BY <1>0, <1>11 DEF Reissue, SessionsInv, SubjectsVerified, TypeOK
    <2>2. ASSUME Sign(s)
          PROVE  /\ tokens' \subseteq TokenType
                 /\ lateNames' \in [Accounts -> [RoleNames -> Nat]]
      BY <1>0, <2>1, <2>2, SignTypes
    <2>3. tokens' \subseteq TokenType /\ lateNames' \in [Accounts -> [RoleNames -> Nat]]
      BY <1>11, <2>2 DEF Reissue
    <2>4. lateRefresh' \in [RefreshTokens -> Nat]
      BY <1>0, <1>11 DEF Reissue, TypeOK
    <2> QED
      BY <1>0, <1>11, <2>3, <2>4 DEF Reissue, TypeOK, Points
  <1>12. ASSUME NEW s \in Slots, Revoke(s)
        PROVE  TypeOK'
    <2>1. job[s].cookie \in RefreshTokens
      BY <1>0, <1>12, JobFacts DEF Revoke, PointsMatchJobs
    <2> QED
      BY <1>0, <1>12, <2>1 DEF Revoke, TypeOK, Points
  <1>13. ASSUME NEW s \in Slots, FindName(s)
        PROVE  TypeOK'
    BY <1>0, <1>13
       DEF FindName, TypeOK, Points
  <1>14. ASSUME NEW s \in Slots, InsertRole(s)
        PROVE  TypeOK'
    <2>1. TheRole(s) \in Roles
      BY <1>0, <1>14, RoleFacts DEF InsertRole, PointsMatchJobs
    <2> QED
      BY <1>0, <1>14, <2>1 DEF InsertRole, TypeOK, Points
  <1>15. ASSUME NEW s \in Slots, FindRole(s)
        PROVE  TypeOK'
    BY <1>0, <1>15
       DEF FindRole, TypeOK, Points
  <1>16. ASSUME NEW s \in Slots, WriteRole(s)
        PROVE  TypeOK'
    <2>1. active' \subseteq roleRows
      BY <1>0, <1>16 DEF WriteRole, TypeOK
    <2>2. lateNames' \in [Accounts -> [RoleNames -> Nat]]
      BY <1>0, <1>16, CountTypes DEF WriteRole
    <2> QED
      BY <1>0, <1>16, <2>1, <2>2 DEF WriteRole, TypeOK, Points
  <1>17. ASSUME NEW s \in Slots, CountGrants(s)
        PROVE  TypeOK'
    BY <1>0, <1>17
       DEF CountGrants, TypeOK, Points
  <1>18. ASSUME NEW s \in Slots, DeleteRole(s)
        PROVE  TypeOK'
    BY <1>0, <1>18
       DEF DeleteRole, TypeOK, Points
  <1>19. ASSUME NEW s \in Slots, FindForAssign(s)
        PROVE  TypeOK'
    BY <1>0, <1>19
       DEF FindForAssign, TypeOK, Points
  <1>20. ASSUME NEW s \in Slots, ReadGrants(s)
        PROVE  TypeOK'
    <2>1. job[s].roles \subseteq Roles
      BY <1>0, <1>20, JobFacts DEF ReadGrants, PointsMatchJobs
    <2>2. CASE End(s)
      BY <1>0, <1>20, <2>2 DEF ReadGrants, TypeOK, Points
    <2>3. CASE ~End(s)
      <3>1. PICK new \in SUBSET Roles : todo' = [todo EXCEPT ![s] = new]
        BY <1>20, <2>1, <2>3 DEF ReadGrants
      <3> QED
        BY <1>0, <1>20, <2>3, <3>1 DEF ReadGrants, TypeOK, Points
    <2> QED
      BY <2>2, <2>3
  <1>21. ASSUME NEW s \in Slots, InsertGrant(s)
        PROVE  TypeOK'
    <2>1. job[s].account \in Accounts
      BY <1>0, <1>21, JobFacts DEF InsertGrant, PointsMatchJobs
    <2>2. PICK r \in todo[s] :
             LET g == <<job[s].account, r>> IN
             /\ \/ /\ r \in roleRows /\ g \notin grants
                   /\ grants' = grants \cup {g}
                   /\ expiring' = IF job[s].flag THEN expiring \cup {g} ELSE expiring
                   /\ Inserted(g)
                \/ UNCHANGED <<grants, expiring, since>>
             /\ IF todo[s] = {r}
                  THEN Leave(s)
                  ELSE todo' = [todo EXCEPT ![s] = todo[s] \ {r}] /\ UNCHANGED <<pc, job, names>>
      BY <1>21 DEF InsertGrant
    <2>3. <<job[s].account, r>> \in Pairs
      BY <1>0, <2>1, <2>2 DEF TypeOK, Pairs
    <2>4. /\ grants' \subseteq Pairs /\ expiring' \subseteq grants'
          /\ lapsed' \subseteq grants'
      BY <1>0, <1>21, <2>2, <2>3 DEF InsertGrant, TypeOK
    <2>5. since' \in [Slots -> SUBSET Pairs]
      <3>1. CASE Inserted(<<job[s].account, r>>)
        BY <1>0, <2>3, <3>1 DEF Inserted, TypeOK
      <3>2. CASE UNCHANGED since
        BY <1>0, <3>2 DEF TypeOK
      <3> QED
        BY <2>2, <3>1, <3>2
    <2>6. /\ pc' \in [Slots -> Points] /\ job' \in [Slots -> Jobs \cup {NoJob}]
          /\ names' \in [Slots -> SUBSET RoleNames]
          /\ todo' \in [Slots -> SUBSET Roles]
      BY <1>0, <2>2 DEF TypeOK, Points
    <2>7. lateNames' \in [Accounts -> [RoleNames -> Nat]]
      BY <1>0, <1>21, CountTypes DEF InsertGrant
    <2> QED
      BY <1>0, <1>21, <2>4, <2>5, <2>6, <2>7 DEF InsertGrant, TypeOK
  <1>22. ASSUME NEW s \in Slots, FindGrant(s)
        PROVE  TypeOK'
    BY <1>0, <1>22
       DEF FindGrant, TypeOK, Points
  <1>23. ASSUME NEW s \in Slots, DeleteGrant(s)
        PROVE  TypeOK'
    BY <1>0, <1>23
       DEF DeleteGrant, TypeOK, Points
  <1>24. ASSUME NEW g \in Pairs, Lapse(g)
        PROVE  TypeOK'
    BY <1>0, <1>24
       DEF Lapse, TypeOK, Points
  <1>25. CASE Tick
    <2>1. tokens' \subseteq TokenType
      BY <1>0, <1>25, AgedTypes DEF Tick, TypeOK
    <2>2. left' \in [RefreshTokens -> 0..RefreshLife]
      BY <1>0, <1>25, SessionsAssumption DEF Tick, TypeOK
    <2> QED
      BY <1>0, <1>25, <2>1, <2>2 DEF Tick, TypeOK
  <1>26. CASE UNCHANGED vars
    BY <1>0, <1>26
       DEF vars, TypeOK, Points
  <1> QED
    BY <1>1, <1>2, <1>3, <1>4, <1>5, <1>6, <1>7, <1>8, <1>9, <1>10, <1>11,
       <1>12, <1>13, <1>14, <1>15, <1>16, <1>17, <1>18, <1>19, <1>20, <1>21,
       <1>22, <1>23, <1>24, <1>25, <1>26
       DEF Next, Step

-----------------------------------------------------------------------------
\* Accounts are not deleted, stay verified, and refresh tokens keep their owner.
LEMMA WhatStays ==
    ASSUME TypeOK, [Next]_vars
    PROVE  /\ users \subseteq users' /\ verified \subseteq verified'
           /\ \A k \in RefreshTokens : owner[k] # NoAccount => owner'[k] = owner[k]
  <1> DEFINE Stay == /\ users \subseteq users' /\ verified \subseteq verified'
                     /\ \A k \in RefreshTokens : owner[k] # NoAccount => owner'[k] = owner[k]
  <1> SUFFICES Stay
    OBVIOUS
  <1> USE DEF accounts, roles, cookies
  <1>1. ASSUME NEW s \in Slots, NEW j \in Jobs, Begin(s, j)
        PROVE  Stay
    BY <1>1
       DEF Begin
  <1>2. ASSUME NEW s \in Slots, FindAccount(s)
        PROVE  Stay
    BY <1>2
       DEF FindAccount
  <1>3. ASSUME NEW s \in Slots, LookupAccount(s)
        PROVE  Stay
    BY <1>3
       DEF LookupAccount
  <1>4. ASSUME NEW s \in Slots, InsertUser(s)
        PROVE  Stay
    BY <1>4
       DEF InsertUser
  <1>5. ASSUME NEW s \in Slots, FindUnverified(s)
        PROVE  Stay
    BY <1>5
       DEF FindUnverified
  <1>6. ASSUME NEW s \in Slots, SetVerified(s)
        PROVE  Stay
    BY <1>6
       DEF SetVerified
  <1>7. ASSUME NEW s \in Slots, ReadRefreshToken(s)
        PROVE  Stay
    BY <1>7
       DEF ReadRefreshToken
  <1>8. ASSUME NEW s \in Slots, ReadOwner(s)
        PROVE  Stay
    BY <1>8
       DEF ReadOwner
  <1>9. ASSUME NEW s \in Slots, LoadRoles(s)
        PROVE  Stay
    BY <1>9
       DEF LoadRoles
  <1>10. ASSUME NEW s \in Slots, Issue(s)
        PROVE  Stay
    <2>1. UNCHANGED accounts
      BY <1>10 DEF Issue
    <2>2. CASE UNCHANGED owner
      BY <2>1, <2>2
    <2>3. CASE ~UNCHANGED owner
      <3>1. PICK k \in RefreshTokens :
              owner[k] = NoAccount /\ owner' = [owner EXCEPT ![k] = Subject(s)]
        BY <1>10, <2>3 DEF Issue
      <3> QED
        BY <2>1, <3>1 DEF TypeOK
    <2> QED
      BY <2>2, <2>3
  <1>11. ASSUME NEW s \in Slots, Reissue(s)
        PROVE  Stay
    BY <1>11
       DEF Reissue
  <1>12. ASSUME NEW s \in Slots, Revoke(s)
        PROVE  Stay
    BY <1>12
       DEF Revoke
  <1>13. ASSUME NEW s \in Slots, FindName(s)
        PROVE  Stay
    BY <1>13
       DEF FindName
  <1>14. ASSUME NEW s \in Slots, InsertRole(s)
        PROVE  Stay
    BY <1>14
       DEF InsertRole
  <1>15. ASSUME NEW s \in Slots, FindRole(s)
        PROVE  Stay
    BY <1>15
       DEF FindRole
  <1>16. ASSUME NEW s \in Slots, WriteRole(s)
        PROVE  Stay
    BY <1>16
       DEF WriteRole
  <1>17. ASSUME NEW s \in Slots, CountGrants(s)
        PROVE  Stay
    BY <1>17
       DEF CountGrants
  <1>18. ASSUME NEW s \in Slots, DeleteRole(s)
        PROVE  Stay
    BY <1>18
       DEF DeleteRole
  <1>19. ASSUME NEW s \in Slots, FindForAssign(s)
        PROVE  Stay
    BY <1>19
       DEF FindForAssign
  <1>20. ASSUME NEW s \in Slots, ReadGrants(s)
        PROVE  Stay
    BY <1>20
       DEF ReadGrants
  <1>21. ASSUME NEW s \in Slots, InsertGrant(s)
        PROVE  Stay
    BY <1>21
       DEF InsertGrant
  <1>22. ASSUME NEW s \in Slots, FindGrant(s)
        PROVE  Stay
    BY <1>22
       DEF FindGrant
  <1>23. ASSUME NEW s \in Slots, DeleteGrant(s)
        PROVE  Stay
    BY <1>23
       DEF DeleteGrant
  <1>24. ASSUME NEW g \in Pairs, Lapse(g)
        PROVE  Stay
    BY <1>24
       DEF Lapse
  <1>25. CASE Tick
    BY <1>25
       DEF Tick
  <1>26. CASE UNCHANGED vars
    BY <1>26
       DEF vars
  <1> QED
    BY <1>1, <1>2, <1>3, <1>4, <1>5, <1>6, <1>7, <1>8, <1>9, <1>10, <1>11,
       <1>12, <1>13, <1>14, <1>15, <1>16, <1>17, <1>18, <1>19, <1>20, <1>21,
       <1>22, <1>23, <1>24, <1>25, <1>26
       DEF Next, Step

\* Whom a request is for does not change while it is for someone.
LEMMA SubjectStays ==
    ASSUME SessionsInv, [Next]_vars, NEW s \in Slots, job'[s] = job[s],
           pc[s] \in {"load", "issue"}
    PROVE  Subject(s)' = Subject(s)
  <1>1. job[s].cookie \in RefreshTokens
    BY JobFacts DEF SessionsInv, PointsMatchJobs
  <1>2. Subject(s) \in Accounts
    BY DEF SessionsInv, SubjectsVerified, TypeOK
  <1>3. CASE job[s].op = "refresh"
    <2>1. owner[job[s].cookie] # NoAccount
      BY <1>2, <1>3, SessionsAssumption DEF Subject
    <2>2. owner'[job[s].cookie] = owner[job[s].cookie]
      BY <1>1, <2>1, WhatStays DEF SessionsInv
    <2> QED
      BY <1>3, <2>2 DEF Subject
  <1>4. CASE job[s].op # "refresh"
    BY <1>4 DEF Subject
  <1> QED
    BY <1>3, <1>4

-----------------------------------------------------------------------------
\* Requests are at points of their method.
LEMMA PointsNext == SessionsInv /\ [Next]_vars => PointsMatchJobs'
  <1> SUFFICES ASSUME SessionsInv, [Next]_vars
               PROVE  PointsMatchJobs'
    OBVIOUS
  <1> USE DEF accounts, roles, cookies, request, GoTo, End, Leave
  <1>0. TypeOK /\ PointsMatchJobs /\ users \subseteq users'
    BY WhatStays DEF SessionsInv
  <1>1. ASSUME NEW s \in Slots, NEW j \in Jobs, Begin(s, j)
        PROVE  PointsMatchJobs'
    BY <1>0, <1>1
       DEF Begin, PointsMatchJobs, TypeOK, FirstPoint, Ops
  <1>2. ASSUME NEW s \in Slots, FindAccount(s)
        PROVE  PointsMatchJobs'
    BY <1>0, <1>2
       DEF FindAccount, PointsMatchJobs, TypeOK
  <1>3. ASSUME NEW s \in Slots, LookupAccount(s)
        PROVE  PointsMatchJobs'
    BY <1>0, <1>3
       DEF LookupAccount, PointsMatchJobs, TypeOK
  <1>4. ASSUME NEW s \in Slots, InsertUser(s)
        PROVE  PointsMatchJobs'
    BY <1>0, <1>4
       DEF InsertUser, PointsMatchJobs, TypeOK
  <1>5. ASSUME NEW s \in Slots, FindUnverified(s)
        PROVE  PointsMatchJobs'
    BY <1>0, <1>5
       DEF FindUnverified, PointsMatchJobs, TypeOK
  <1>6. ASSUME NEW s \in Slots, SetVerified(s)
        PROVE  PointsMatchJobs'
    BY <1>0, <1>6
       DEF SetVerified, PointsMatchJobs, TypeOK
  <1>7. ASSUME NEW s \in Slots, ReadRefreshToken(s)
        PROVE  PointsMatchJobs'
    BY <1>0, <1>7
       DEF ReadRefreshToken, PointsMatchJobs, TypeOK
  <1>8. ASSUME NEW s \in Slots, ReadOwner(s)
        PROVE  PointsMatchJobs'
    BY <1>0, <1>8
       DEF ReadOwner, PointsMatchJobs, TypeOK
  <1>9. ASSUME NEW s \in Slots, LoadRoles(s)
        PROVE  PointsMatchJobs'
    BY <1>0, <1>9
       DEF LoadRoles, PointsMatchJobs, TypeOK
  <1>10. ASSUME NEW s \in Slots, Issue(s)
        PROVE  PointsMatchJobs'
    BY <1>0, <1>10
       DEF Issue, PointsMatchJobs, TypeOK
  <1>11. ASSUME NEW s \in Slots, Reissue(s)
        PROVE  PointsMatchJobs'
    BY <1>0, <1>11
       DEF Reissue, PointsMatchJobs, TypeOK
  <1>12. ASSUME NEW s \in Slots, Revoke(s)
        PROVE  PointsMatchJobs'
    BY <1>0, <1>12
       DEF Revoke, PointsMatchJobs, TypeOK
  <1>13. ASSUME NEW s \in Slots, FindName(s)
        PROVE  PointsMatchJobs'
    BY <1>0, <1>13
       DEF FindName, PointsMatchJobs, TypeOK, RoleOps
  <1>14. ASSUME NEW s \in Slots, InsertRole(s)
        PROVE  PointsMatchJobs'
    BY <1>0, <1>14
       DEF InsertRole, PointsMatchJobs, TypeOK
  <1>15. ASSUME NEW s \in Slots, FindRole(s)
        PROVE  PointsMatchJobs'
    BY <1>0, <1>15
       DEF FindRole, PointsMatchJobs, TypeOK, RoleOps
  <1>16. ASSUME NEW s \in Slots, WriteRole(s)
        PROVE  PointsMatchJobs'
    BY <1>0, <1>16
       DEF WriteRole, PointsMatchJobs, TypeOK
  <1>17. ASSUME NEW s \in Slots, CountGrants(s)
        PROVE  PointsMatchJobs'
    BY <1>0, <1>17
       DEF CountGrants, PointsMatchJobs, TypeOK, RoleOps
  <1>18. ASSUME NEW s \in Slots, DeleteRole(s)
        PROVE  PointsMatchJobs'
    BY <1>0, <1>18
       DEF DeleteRole, PointsMatchJobs, TypeOK
  <1>19. ASSUME NEW s \in Slots, FindForAssign(s)
        PROVE  PointsMatchJobs'
    BY <1>0, <1>19
       DEF FindForAssign, PointsMatchJobs, TypeOK
  <1>20. ASSUME NEW s \in Slots, ReadGrants(s)
        PROVE  PointsMatchJobs'
    BY <1>0, <1>20
       DEF ReadGrants, PointsMatchJobs, TypeOK
  <1>21. ASSUME NEW s \in Slots, InsertGrant(s)
        PROVE  PointsMatchJobs'
    BY <1>0, <1>21
       DEF InsertGrant, PointsMatchJobs, TypeOK
  <1>22. ASSUME NEW s \in Slots, FindGrant(s)
        PROVE  PointsMatchJobs'
    BY <1>0, <1>22
       DEF FindGrant, PointsMatchJobs, TypeOK, RoleOps
  <1>23. ASSUME NEW s \in Slots, DeleteGrant(s)
        PROVE  PointsMatchJobs'
    BY <1>0, <1>23
       DEF DeleteGrant, PointsMatchJobs, TypeOK
  <1>24. ASSUME NEW g \in Pairs, Lapse(g)
        PROVE  PointsMatchJobs'
    BY <1>0, <1>24
       DEF Lapse, PointsMatchJobs, TypeOK
  <1>25. CASE Tick
    BY <1>0, <1>25
       DEF Tick, PointsMatchJobs, TypeOK
  <1>26. CASE UNCHANGED vars
    BY <1>0, <1>26
       DEF vars, PointsMatchJobs, TypeOK
  <1> QED
    BY <1>1, <1>2, <1>3, <1>4, <1>5, <1>6, <1>7, <1>8, <1>9, <1>10, <1>11,
       <1>12, <1>13, <1>14, <1>15, <1>16, <1>17, <1>18, <1>19, <1>20, <1>21,
       <1>22, <1>23, <1>24, <1>25, <1>26
       DEF Next, Step

\* Who is verified when tokens are promised is verified when they are made.
LEMMA SubjectsNext == SessionsInv /\ [Next]_vars => SubjectsVerified'
  <1> SUFFICES ASSUME SessionsInv, [Next]_vars
               PROVE  SubjectsVerified'
    OBVIOUS
  <1> USE DEF accounts, roles, cookies, request, GoTo, End, Leave
  <1> DEFINE OK(r) == /\ pc[r] \in {"load", "issue"} => Subject(r) \in verified
                      /\ pc[r] = "readUser" => owner[job[r].cookie] # NoAccount
  <1>0. /\ TypeOK /\ PointsMatchJobs /\ SubjectsVerified /\ verified \subseteq verified'
        /\ \A r \in Slots : pc'[r] = pc[r] /\ job'[r] = job[r] => OK(r)'
    <2>1. /\ TypeOK /\ PointsMatchJobs /\ SubjectsVerified
      BY DEF SessionsInv
    <2>2. ASSUME NEW r \in Slots, pc'[r] = pc[r], job'[r] = job[r]
          PROVE  OK(r)'
      <3>1. CASE pc[r] \in {"load", "issue"}
        BY <2>1, <2>2, <3>1, SubjectStays, WhatStays DEF SubjectsVerified
      <3>2. CASE pc[r] = "readUser"
        <4>1. job[r].cookie \in RefreshTokens /\ owner[job[r].cookie] # NoAccount
          BY <2>1, <3>2, JobFacts DEF PointsMatchJobs, SubjectsVerified
        <4> QED
          BY <2>1, <2>2, <3>2, <4>1, WhatStays
      <3> QED
        BY <2>2, <3>1, <3>2
    <2> QED
      BY <2>1, <2>2, WhatStays
  <1>1. ASSUME NEW s \in Slots, NEW j \in Jobs, Begin(s, j)
        PROVE  SubjectsVerified'
    BY <1>0, <1>1
       DEF Begin, SubjectsVerified, TypeOK, FirstPoint
  <1>2. ASSUME NEW s \in Slots, FindAccount(s)
        PROVE  SubjectsVerified'
    BY <1>0, <1>2
       DEF FindAccount, SubjectsVerified, TypeOK, PointsMatchJobs, Subject, Stands
  <1>3. ASSUME NEW s \in Slots, LookupAccount(s)
        PROVE  SubjectsVerified'
    BY <1>0, <1>3
       DEF LookupAccount, SubjectsVerified, TypeOK
  <1>4. ASSUME NEW s \in Slots, InsertUser(s)
        PROVE  SubjectsVerified'
    BY <1>0, <1>4
       DEF InsertUser, SubjectsVerified, TypeOK, PointsMatchJobs, Subject, Stands
  <1>5. ASSUME NEW s \in Slots, FindUnverified(s)
        PROVE  SubjectsVerified'
    BY <1>0, <1>5
       DEF FindUnverified, SubjectsVerified, TypeOK
  <1>6. ASSUME NEW s \in Slots, SetVerified(s)
        PROVE  SubjectsVerified'
    BY <1>0, <1>6
       DEF SetVerified, SubjectsVerified, TypeOK
  <1>7. ASSUME NEW s \in Slots, ReadRefreshToken(s)
        PROVE  SubjectsVerified'
    BY <1>0, <1>7
       DEF ReadRefreshToken, SubjectsVerified, TypeOK, PointsMatchJobs, Subject,
           Stands
  <1>8. ASSUME NEW s \in Slots, ReadOwner(s)
        PROVE  SubjectsVerified'
    BY <1>0, <1>8
       DEF ReadOwner, SubjectsVerified, TypeOK, PointsMatchJobs, Subject, Stands
  <1>9. ASSUME NEW s \in Slots, LoadRoles(s)
        PROVE  SubjectsVerified'
    BY <1>0, <1>9
       DEF LoadRoles, SubjectsVerified, TypeOK, PointsMatchJobs, Subject, Stands
  <1>10. ASSUME NEW s \in Slots, Issue(s)
        PROVE  SubjectsVerified'
    BY <1>0, <1>10
       DEF Issue, SubjectsVerified, TypeOK
  <1>11. ASSUME NEW s \in Slots, Reissue(s)
        PROVE  SubjectsVerified'
    BY <1>0, <1>11
       DEF Reissue, SubjectsVerified, TypeOK
  <1>12. ASSUME NEW s \in Slots, Revoke(s)
        PROVE  SubjectsVerified'
    BY <1>0, <1>12
       DEF Revoke, SubjectsVerified, TypeOK
  <1>13. ASSUME NEW s \in Slots, FindName(s)
        PROVE  SubjectsVerified'
    BY <1>0, <1>13
       DEF FindName, SubjectsVerified, TypeOK
  <1>14. ASSUME NEW s \in Slots, InsertRole(s)
        PROVE  SubjectsVerified'
    BY <1>0, <1>14
       DEF InsertRole, SubjectsVerified, TypeOK
  <1>15. ASSUME NEW s \in Slots, FindRole(s)
        PROVE  SubjectsVerified'
    BY <1>0, <1>15
       DEF FindRole, SubjectsVerified, TypeOK
  <1>16. ASSUME NEW s \in Slots, WriteRole(s)
        PROVE  SubjectsVerified'
    BY <1>0, <1>16
       DEF WriteRole, SubjectsVerified, TypeOK
  <1>17. ASSUME NEW s \in Slots, CountGrants(s)
        PROVE  SubjectsVerified'
    BY <1>0, <1>17
       DEF CountGrants, SubjectsVerified, TypeOK
  <1>18. ASSUME NEW s \in Slots, DeleteRole(s)
        PROVE  SubjectsVerified'
    BY <1>0, <1>18
       DEF DeleteRole, SubjectsVerified, TypeOK
  <1>19. ASSUME NEW s \in Slots, FindForAssign(s)
        PROVE  SubjectsVerified'
    BY <1>0, <1>19
       DEF FindForAssign, SubjectsVerified, TypeOK
  <1>20. ASSUME NEW s \in Slots, ReadGrants(s)
        PROVE  SubjectsVerified'
    BY <1>0, <1>20
       DEF ReadGrants, SubjectsVerified, TypeOK
  <1>21. ASSUME NEW s \in Slots, InsertGrant(s)
        PROVE  SubjectsVerified'
    BY <1>0, <1>21
       DEF InsertGrant, SubjectsVerified, TypeOK
  <1>22. ASSUME NEW s \in Slots, FindGrant(s)
        PROVE  SubjectsVerified'
    BY <1>0, <1>22
       DEF FindGrant, SubjectsVerified, TypeOK
  <1>23. ASSUME NEW s \in Slots, DeleteGrant(s)
        PROVE  SubjectsVerified'
    BY <1>0, <1>23
       DEF DeleteGrant, SubjectsVerified, TypeOK
  <1>24. ASSUME NEW g \in Pairs, Lapse(g)
        PROVE  SubjectsVerified'
    BY <1>0, <1>24
       DEF Lapse, SubjectsVerified, TypeOK
  <1>25. CASE Tick
    BY <1>0, <1>25
       DEF Tick, SubjectsVerified, TypeOK
  <1>26. CASE UNCHANGED vars
    BY <1>0, <1>26
       DEF vars, SubjectsVerified, TypeOK
  <1> QED
    BY <1>1, <1>2, <1>3, <1>4, <1>5, <1>6, <1>7, <1>8, <1>9, <1>10, <1>11,
       <1>12, <1>13, <1>14, <1>15, <1>16, <1>17, <1>18, <1>19, <1>20, <1>21,
       <1>22, <1>23, <1>24, <1>25, <1>26
       DEF Next, Step

\* The rows hang together whatever is written.
LEMMA RowsNext == SessionsInv /\ [Next]_vars => RowsSound'
  <1> SUFFICES ASSUME SessionsInv, [Next]_vars
               PROVE  RowsSound'
    OBVIOUS
  <1> USE DEF accounts, roles, cookies
  <1>0. /\ TypeOK /\ PointsMatchJobs /\ RowsSound /\ users \subseteq users'
        /\ \A k \in RefreshTokens : owner[k] # NoAccount => owner'[k] = owner[k]
    BY WhatStays DEF SessionsInv
  <1>1. ASSUME NEW s \in Slots, NEW j \in Jobs, Begin(s, j)
        PROVE  RowsSound'
    BY <1>0, <1>1
       DEF Begin, RowsSound
  <1>2. ASSUME NEW s \in Slots, FindAccount(s)
        PROVE  RowsSound'
    BY <1>0, <1>2
       DEF FindAccount, RowsSound
  <1>3. ASSUME NEW s \in Slots, LookupAccount(s)
        PROVE  RowsSound'
    BY <1>0, <1>3
       DEF LookupAccount, RowsSound
  <1>4. ASSUME NEW s \in Slots, InsertUser(s)
        PROVE  RowsSound'
    BY <1>0, <1>4
       DEF InsertUser, RowsSound, Unique, TypeOK
  <1>5. ASSUME NEW s \in Slots, FindUnverified(s)
        PROVE  RowsSound'
    BY <1>0, <1>5
       DEF FindUnverified, RowsSound
  <1>6. ASSUME NEW s \in Slots, SetVerified(s)
        PROVE  RowsSound'
    BY <1>0, <1>6
       DEF SetVerified, RowsSound
  <1>7. ASSUME NEW s \in Slots, ReadRefreshToken(s)
        PROVE  RowsSound'
    BY <1>0, <1>7
       DEF ReadRefreshToken, RowsSound
  <1>8. ASSUME NEW s \in Slots, ReadOwner(s)
        PROVE  RowsSound'
    BY <1>0, <1>8
       DEF ReadOwner, RowsSound
  <1>9. ASSUME NEW s \in Slots, LoadRoles(s)
        PROVE  RowsSound'
    BY <1>0, <1>9
       DEF LoadRoles, RowsSound
  <1>10. ASSUME NEW s \in Slots, Issue(s)
        PROVE  RowsSound'
    <2>1. UNCHANGED <<accounts, roleRows, grants, revoked>>
      BY <1>10 DEF Issue
    <2>2. \A k \in revoked : owner'[k] # NoAccount
      BY <1>0 DEF RowsSound, TypeOK
    <2> QED
      BY <1>0, <2>1, <2>2 DEF RowsSound
  <1>11. ASSUME NEW s \in Slots, Reissue(s)
        PROVE  RowsSound'
    BY <1>0, <1>11
       DEF Reissue, RowsSound
  <1>12. ASSUME NEW s \in Slots, Revoke(s)
        PROVE  RowsSound'
    BY <1>0, <1>12
       DEF Revoke, RowsSound, CookieValid, TypeOK
  <1>13. ASSUME NEW s \in Slots, FindName(s)
        PROVE  RowsSound'
    BY <1>0, <1>13
       DEF FindName, RowsSound
  <1>14. ASSUME NEW s \in Slots, InsertRole(s)
        PROVE  RowsSound'
    BY <1>0, <1>14
       DEF InsertRole, RowsSound, NameTaken, TypeOK
  <1>15. ASSUME NEW s \in Slots, FindRole(s)
        PROVE  RowsSound'
    BY <1>0, <1>15
       DEF FindRole, RowsSound
  <1>16. ASSUME NEW s \in Slots, WriteRole(s)
        PROVE  RowsSound'
    BY <1>0, <1>16
       DEF WriteRole, RowsSound
  <1>17. ASSUME NEW s \in Slots, CountGrants(s)
        PROVE  RowsSound'
    BY <1>0, <1>17
       DEF CountGrants, RowsSound
  <1>18. ASSUME NEW s \in Slots, DeleteRole(s)
        PROVE  RowsSound'
    BY <1>0, <1>18
       DEF DeleteRole, RowsSound, TypeOK
  <1>19. ASSUME NEW s \in Slots, FindForAssign(s)
        PROVE  RowsSound'
    BY <1>0, <1>19
       DEF FindForAssign, RowsSound
  <1>20. ASSUME NEW s \in Slots, ReadGrants(s)
        PROVE  RowsSound'
    BY <1>0, <1>20
       DEF ReadGrants, RowsSound
  <1>21. ASSUME NEW s \in Slots, InsertGrant(s)
        PROVE  RowsSound'
    <2>1. UNCHANGED <<accounts, roleRows, owner, revoked>>
      BY <1>21 DEF InsertGrant
    <2>2. job[s].account \in users
      BY <1>0, <1>21 DEF InsertGrant, PointsMatchJobs
    <2>3. PICK r \in todo[s] :
            \/ r \in roleRows /\ grants' = grants \cup {<<job[s].account, r>>}
            \/ UNCHANGED grants
      BY <1>21 DEF InsertGrant
    <2>4. \A g \in grants' : g[1] \in users /\ g[2] \in roleRows
      BY <1>0, <2>2, <2>3 DEF RowsSound
    <2> QED
      BY <1>0, <2>1, <2>4 DEF RowsSound
  <1>22. ASSUME NEW s \in Slots, FindGrant(s)
        PROVE  RowsSound'
    BY <1>0, <1>22
       DEF FindGrant, RowsSound
  <1>23. ASSUME NEW s \in Slots, DeleteGrant(s)
        PROVE  RowsSound'
    BY <1>0, <1>23
       DEF DeleteGrant, RowsSound, TypeOK
  <1>24. ASSUME NEW g \in Pairs, Lapse(g)
        PROVE  RowsSound'
    BY <1>0, <1>24
       DEF Lapse, RowsSound
  <1>25. CASE Tick
    BY <1>0, <1>25
       DEF Tick, RowsSound
  <1>26. CASE UNCHANGED vars
    BY <1>0, <1>26
       DEF vars, RowsSound
  <1> QED
    BY <1>1, <1>2, <1>3, <1>4, <1>5, <1>6, <1>7, <1>8, <1>9, <1>10, <1>11,
       <1>12, <1>13, <1>14, <1>15, <1>16, <1>17, <1>18, <1>19, <1>20, <1>21,
       <1>22, <1>23, <1>24, <1>25, <1>26
       DEF Next, Step

\* Tokens are given to verified accounts.
LEMMA TokensNext == SessionsInv /\ [Next]_vars => TokensOnlyVerified'
  <1> SUFFICES ASSUME SessionsInv, [Next]_vars
               PROVE  TokensOnlyVerified'
    OBVIOUS
  <1> USE DEF accounts, roles, cookies
  <1>0. /\ TypeOK /\ SubjectsVerified /\ TokensOnlyVerified /\ verified \subseteq verified'
    BY WhatStays DEF SessionsInv
  <1>1. ASSUME NEW s \in Slots, NEW j \in Jobs, Begin(s, j)
        PROVE  TokensOnlyVerified'
    BY <1>0, <1>1
       DEF Begin, TokensOnlyVerified
  <1>2. ASSUME NEW s \in Slots, FindAccount(s)
        PROVE  TokensOnlyVerified'
    BY <1>0, <1>2
       DEF FindAccount, TokensOnlyVerified
  <1>3. ASSUME NEW s \in Slots, LookupAccount(s)
        PROVE  TokensOnlyVerified'
    BY <1>0, <1>3
       DEF LookupAccount, TokensOnlyVerified
  <1>4. ASSUME NEW s \in Slots, InsertUser(s)
        PROVE  TokensOnlyVerified'
    BY <1>0, <1>4
       DEF InsertUser, TokensOnlyVerified
  <1>5. ASSUME NEW s \in Slots, FindUnverified(s)
        PROVE  TokensOnlyVerified'
    BY <1>0, <1>5
       DEF FindUnverified, TokensOnlyVerified
  <1>6. ASSUME NEW s \in Slots, SetVerified(s)
        PROVE  TokensOnlyVerified'
    BY <1>0, <1>6
       DEF SetVerified, TokensOnlyVerified
  <1>7. ASSUME NEW s \in Slots, ReadRefreshToken(s)
        PROVE  TokensOnlyVerified'
    BY <1>0, <1>7
       DEF ReadRefreshToken, TokensOnlyVerified
  <1>8. ASSUME NEW s \in Slots, ReadOwner(s)
        PROVE  TokensOnlyVerified'
    BY <1>0, <1>8
       DEF ReadOwner, TokensOnlyVerified
  <1>9. ASSUME NEW s \in Slots, LoadRoles(s)
        PROVE  TokensOnlyVerified'
    BY <1>0, <1>9
       DEF LoadRoles, TokensOnlyVerified
  <1>10. ASSUME NEW s \in Slots, Issue(s)
        PROVE  TokensOnlyVerified'
    <2>1. Subject(s) \in verified
      BY <1>0, <1>10 DEF Issue, SubjectsVerified
    <2>2. \A t \in tokens' : t.owner \in verified'
      BY <1>0, <1>10, <2>1 DEF Issue, Sign, TokensOnlyVerified
    <2>3. CASE UNCHANGED owner
      BY <1>0, <2>2, <2>3 DEF TokensOnlyVerified
    <2>4. CASE ~UNCHANGED owner
      <3>1. PICK k \in RefreshTokens : owner' = [owner EXCEPT ![k] = Subject(s)]
        BY <1>10, <2>4 DEF Issue
      <3> QED
        BY <1>0, <2>1, <2>2, <3>1 DEF TokensOnlyVerified, TypeOK
    <2> QED
      BY <2>3, <2>4
  <1>11. ASSUME NEW s \in Slots, Reissue(s)
        PROVE  TokensOnlyVerified'
    BY <1>0, <1>11
       DEF Reissue, SubjectsVerified, Sign, TokensOnlyVerified
  <1>12. ASSUME NEW s \in Slots, Revoke(s)
        PROVE  TokensOnlyVerified'
    BY <1>0, <1>12
       DEF Revoke, TokensOnlyVerified
  <1>13. ASSUME NEW s \in Slots, FindName(s)
        PROVE  TokensOnlyVerified'
    BY <1>0, <1>13
       DEF FindName, TokensOnlyVerified
  <1>14. ASSUME NEW s \in Slots, InsertRole(s)
        PROVE  TokensOnlyVerified'
    BY <1>0, <1>14
       DEF InsertRole, TokensOnlyVerified
  <1>15. ASSUME NEW s \in Slots, FindRole(s)
        PROVE  TokensOnlyVerified'
    BY <1>0, <1>15
       DEF FindRole, TokensOnlyVerified
  <1>16. ASSUME NEW s \in Slots, WriteRole(s)
        PROVE  TokensOnlyVerified'
    BY <1>0, <1>16
       DEF WriteRole, TokensOnlyVerified
  <1>17. ASSUME NEW s \in Slots, CountGrants(s)
        PROVE  TokensOnlyVerified'
    BY <1>0, <1>17
       DEF CountGrants, TokensOnlyVerified
  <1>18. ASSUME NEW s \in Slots, DeleteRole(s)
        PROVE  TokensOnlyVerified'
    BY <1>0, <1>18
       DEF DeleteRole, TokensOnlyVerified
  <1>19. ASSUME NEW s \in Slots, FindForAssign(s)
        PROVE  TokensOnlyVerified'
    BY <1>0, <1>19
       DEF FindForAssign, TokensOnlyVerified
  <1>20. ASSUME NEW s \in Slots, ReadGrants(s)
        PROVE  TokensOnlyVerified'
    BY <1>0, <1>20
       DEF ReadGrants, TokensOnlyVerified
  <1>21. ASSUME NEW s \in Slots, InsertGrant(s)
        PROVE  TokensOnlyVerified'
    BY <1>0, <1>21
       DEF InsertGrant, TokensOnlyVerified
  <1>22. ASSUME NEW s \in Slots, FindGrant(s)
        PROVE  TokensOnlyVerified'
    BY <1>0, <1>22
       DEF FindGrant, TokensOnlyVerified
  <1>23. ASSUME NEW s \in Slots, DeleteGrant(s)
        PROVE  TokensOnlyVerified'
    BY <1>0, <1>23
       DEF DeleteGrant, TokensOnlyVerified
  <1>24. ASSUME NEW g \in Pairs, Lapse(g)
        PROVE  TokensOnlyVerified'
    BY <1>0, <1>24
       DEF Lapse, TokensOnlyVerified
  <1>25. CASE Tick
    BY <1>0, <1>25, AgedTypes
       DEF Tick, TypeOK, TokensOnlyVerified
  <1>26. CASE UNCHANGED vars
    BY <1>0, <1>26
       DEF vars, TokensOnlyVerified
  <1> QED
    BY <1>1, <1>2, <1>3, <1>4, <1>5, <1>6, <1>7, <1>8, <1>9, <1>10, <1>11,
       <1>12, <1>13, <1>14, <1>15, <1>16, <1>17, <1>18, <1>19, <1>20, <1>21,
       <1>22, <1>23, <1>24, <1>25, <1>26
       DEF Next, Step

\* Assignments of a role about to be deleted were made since it was counted.
LEMMA DeletionNext == SessionsInv /\ [Next]_vars => DeletionSparesAssigned'
  <1> SUFFICES ASSUME SessionsInv, [Next]_vars
               PROVE  DeletionSparesAssigned'
    OBVIOUS
  <1> USE DEF accounts, roles, cookies, request, GoTo, End, Leave
  <1>0. TypeOK /\ DeletionSparesAssigned
    BY DEF SessionsInv
  <1>1. ASSUME NEW s \in Slots, NEW j \in Jobs, Begin(s, j)
        PROVE  DeletionSparesAssigned'
    BY <1>0, <1>1
       DEF Begin, DeletionSparesAssigned, TypeOK, TheRole, FirstPoint
  <1>2. ASSUME NEW s \in Slots, FindAccount(s)
        PROVE  DeletionSparesAssigned'
    BY <1>0, <1>2
       DEF FindAccount, DeletionSparesAssigned, TypeOK, TheRole
  <1>3. ASSUME NEW s \in Slots, LookupAccount(s)
        PROVE  DeletionSparesAssigned'
    BY <1>0, <1>3
       DEF LookupAccount, DeletionSparesAssigned, TypeOK, TheRole
  <1>4. ASSUME NEW s \in Slots, InsertUser(s)
        PROVE  DeletionSparesAssigned'
    BY <1>0, <1>4
       DEF InsertUser, DeletionSparesAssigned, TypeOK, TheRole
  <1>5. ASSUME NEW s \in Slots, FindUnverified(s)
        PROVE  DeletionSparesAssigned'
    BY <1>0, <1>5
       DEF FindUnverified, DeletionSparesAssigned, TypeOK, TheRole
  <1>6. ASSUME NEW s \in Slots, SetVerified(s)
        PROVE  DeletionSparesAssigned'
    BY <1>0, <1>6
       DEF SetVerified, DeletionSparesAssigned, TypeOK, TheRole
  <1>7. ASSUME NEW s \in Slots, ReadRefreshToken(s)
        PROVE  DeletionSparesAssigned'
    BY <1>0, <1>7
       DEF ReadRefreshToken, DeletionSparesAssigned, TypeOK, TheRole
  <1>8. ASSUME NEW s \in Slots, ReadOwner(s)
        PROVE  DeletionSparesAssigned'
    BY <1>0, <1>8
       DEF ReadOwner, DeletionSparesAssigned, TypeOK, TheRole
  <1>9. ASSUME NEW s \in Slots, LoadRoles(s)
        PROVE  DeletionSparesAssigned'
    BY <1>0, <1>9
       DEF LoadRoles, DeletionSparesAssigned, TypeOK, TheRole
  <1>10. ASSUME NEW s \in Slots, Issue(s)
        PROVE  DeletionSparesAssigned'
    BY <1>0, <1>10
       DEF Issue, DeletionSparesAssigned, TypeOK, TheRole
  <1>11. ASSUME NEW s \in Slots, Reissue(s)
        PROVE  DeletionSparesAssigned'
    BY <1>0, <1>11
       DEF Reissue, DeletionSparesAssigned, TypeOK, TheRole
  <1>12. ASSUME NEW s \in Slots, Revoke(s)
        PROVE  DeletionSparesAssigned'
    BY <1>0, <1>12
       DEF Revoke, DeletionSparesAssigned, TypeOK, TheRole
  <1>13. ASSUME NEW s \in Slots, FindName(s)
        PROVE  DeletionSparesAssigned'
    BY <1>0, <1>13
       DEF FindName, DeletionSparesAssigned, TypeOK, TheRole
  <1>14. ASSUME NEW s \in Slots, InsertRole(s)
        PROVE  DeletionSparesAssigned'
    BY <1>0, <1>14
       DEF InsertRole, DeletionSparesAssigned, TypeOK, TheRole
  <1>15. ASSUME NEW s \in Slots, FindRole(s)
        PROVE  DeletionSparesAssigned'
    BY <1>0, <1>15
       DEF FindRole, DeletionSparesAssigned, TypeOK, TheRole
  <1>16. ASSUME NEW s \in Slots, WriteRole(s)
        PROVE  DeletionSparesAssigned'
    BY <1>0, <1>16
       DEF WriteRole, DeletionSparesAssigned, TypeOK, TheRole
  <1>17. ASSUME NEW s \in Slots, CountGrants(s)
        PROVE  DeletionSparesAssigned'
    BY <1>0, <1>17
       DEF CountGrants, DeletionSparesAssigned, TypeOK, TheRole, Assigned
  <1>18. ASSUME NEW s \in Slots, DeleteRole(s)
        PROVE  DeletionSparesAssigned'
    BY <1>0, <1>18
       DEF DeleteRole, DeletionSparesAssigned, TypeOK, TheRole
  <1>19. ASSUME NEW s \in Slots, FindForAssign(s)
        PROVE  DeletionSparesAssigned'
    BY <1>0, <1>19
       DEF FindForAssign, DeletionSparesAssigned, TypeOK, TheRole
  <1>20. ASSUME NEW s \in Slots, ReadGrants(s)
        PROVE  DeletionSparesAssigned'
    BY <1>0, <1>20
       DEF ReadGrants, DeletionSparesAssigned, TypeOK, TheRole
  <1>21. ASSUME NEW s \in Slots, InsertGrant(s)
        PROVE  DeletionSparesAssigned'
    <2>1. PICK r \in todo[s] :
             /\ \/ /\ grants' = grants \cup {<<job[s].account, r>>}
                   /\ Inserted(<<job[s].account, r>>)
                \/ UNCHANGED <<grants, since>>
             /\ \/ Leave(s)
                \/ UNCHANGED <<pc, job, names>>
      BY <1>21 DEF InsertGrant
    <2>2. ASSUME NEW q \in Slots, pc'[q] = "deleteRole"
          PROVE  pc[q] = "deleteRole" /\ job'[q] = job[q]
      BY <1>0, <2>1, <2>2 DEF TypeOK
    <2>3. CASE UNCHANGED <<grants, since>>
      BY <1>0, <2>2, <2>3 DEF DeletionSparesAssigned, TheRole
    <2>4. CASE /\ grants' = grants \cup {<<job[s].account, r>>}
               /\ Inserted(<<job[s].account, r>>)
      BY <1>0, <2>2, <2>4 DEF DeletionSparesAssigned, TheRole, Inserted, TypeOK
    <2> QED
      BY <2>1, <2>3, <2>4
  <1>22. ASSUME NEW s \in Slots, FindGrant(s)
        PROVE  DeletionSparesAssigned'
    BY <1>0, <1>22
       DEF FindGrant, DeletionSparesAssigned, TypeOK, TheRole
  <1>23. ASSUME NEW s \in Slots, DeleteGrant(s)
        PROVE  DeletionSparesAssigned'
    BY <1>0, <1>23
       DEF DeleteGrant, DeletionSparesAssigned, TypeOK, TheRole
  <1>24. ASSUME NEW g \in Pairs, Lapse(g)
        PROVE  DeletionSparesAssigned'
    BY <1>0, <1>24
       DEF Lapse, DeletionSparesAssigned, TypeOK, TheRole
  <1>25. CASE Tick
    BY <1>0, <1>25
       DEF Tick, DeletionSparesAssigned, TypeOK, TheRole
  <1>26. CASE UNCHANGED vars
    BY <1>0, <1>26
       DEF vars, DeletionSparesAssigned, TypeOK, TheRole
  <1> QED
    BY <1>1, <1>2, <1>3, <1>4, <1>5, <1>6, <1>7, <1>8, <1>9, <1>10, <1>11,
       <1>12, <1>13, <1>14, <1>15, <1>16, <1>17, <1>18, <1>19, <1>20, <1>21,
       <1>22, <1>23, <1>24, <1>25, <1>26
       DEF Next, Step

\* Refreshes from a revoked token only leave.
LEMMA RevocationNext == SessionsInv /\ [Next]_vars => RevocationSettles'
  <1> SUFFICES ASSUME SessionsInv, [Next]_vars
               PROVE  RevocationSettles'
    OBVIOUS
  <1> USE DEF accounts, roles, cookies, request, GoTo, End, Leave
  <1> DEFINE Calm == /\ UNCHANGED <<revoked, lateRefresh>>
                     /\ \A k \in revoked : Refreshing(k)' \subseteq Refreshing(k)
  <1>0. TypeOK /\ PointsMatchJobs /\ RevocationSettles
    BY DEF SessionsInv
  <1>00. ASSUME Calm PROVE RevocationSettles'
    <2>1. ASSUME NEW k \in revoked
          PROVE  lateRefresh[k] + Cardinality(Refreshing(k)') < Cardinality(Slots)
      <3>1. Refreshing(k) \in SUBSET Slots /\ Refreshing(k)' \in SUBSET Refreshing(k)
        BY <1>00, <2>1 DEF Refreshing
      <3>2. Cardinality(Refreshing(k)') <= Cardinality(Refreshing(k))
        BY <3>1, FewerSlots
      <3>3. /\ Cardinality(Refreshing(k)') \in Nat /\ Cardinality(Refreshing(k)) \in Nat
            /\ Cardinality(Slots) \in Nat
        BY <3>1, SlotCounts
      <3>4. /\ lateRefresh[k] \in Nat
            /\ lateRefresh[k] + Cardinality(Refreshing(k)) < Cardinality(Slots)
        BY <1>0, <2>1 DEF RevocationSettles, TypeOK
      <3> QED
        BY <3>2, <3>3, <3>4
    <2> QED
      BY <1>0, <1>00, <2>1 DEF RevocationSettles
  <1>1. ASSUME NEW s \in Slots, NEW j \in Jobs, Begin(s, j)
        PROVE  RevocationSettles'
    <2> Calm
      BY <1>0, <1>1
         DEF Begin, Refreshing, TypeOK, PointsMatchJobs, FirstPoint
    <2> QED
      BY <1>00
  <1>2. ASSUME NEW s \in Slots, FindAccount(s)
        PROVE  RevocationSettles'
    <2> Calm
      BY <1>0, <1>2
         DEF FindAccount, Refreshing, TypeOK, PointsMatchJobs
    <2> QED
      BY <1>00
  <1>3. ASSUME NEW s \in Slots, LookupAccount(s)
        PROVE  RevocationSettles'
    <2> Calm
      BY <1>0, <1>3
         DEF LookupAccount, Refreshing, TypeOK, PointsMatchJobs
    <2> QED
      BY <1>00
  <1>4. ASSUME NEW s \in Slots, InsertUser(s)
        PROVE  RevocationSettles'
    <2> Calm
      BY <1>0, <1>4
         DEF InsertUser, Refreshing, TypeOK, PointsMatchJobs
    <2> QED
      BY <1>00
  <1>5. ASSUME NEW s \in Slots, FindUnverified(s)
        PROVE  RevocationSettles'
    <2> Calm
      BY <1>0, <1>5
         DEF FindUnverified, Refreshing, TypeOK, PointsMatchJobs
    <2> QED
      BY <1>00
  <1>6. ASSUME NEW s \in Slots, SetVerified(s)
        PROVE  RevocationSettles'
    <2> Calm
      BY <1>0, <1>6
         DEF SetVerified, Refreshing, TypeOK, PointsMatchJobs
    <2> QED
      BY <1>00
  <1>7. ASSUME NEW s \in Slots, ReadRefreshToken(s)
        PROVE  RevocationSettles'
    <2> Calm
      BY <1>0, <1>7
         DEF ReadRefreshToken, Refreshing, TypeOK, PointsMatchJobs, Stands
    <2> QED
      BY <1>00
  <1>8. ASSUME NEW s \in Slots, ReadOwner(s)
        PROVE  RevocationSettles'
    <2> Calm
      BY <1>0, <1>8
         DEF ReadOwner, Refreshing, TypeOK, PointsMatchJobs
    <2> QED
      BY <1>00
  <1>9. ASSUME NEW s \in Slots, LoadRoles(s)
        PROVE  RevocationSettles'
    <2> Calm
      BY <1>0, <1>9
         DEF LoadRoles, Refreshing, TypeOK, PointsMatchJobs
    <2> QED
      BY <1>00
  <1>10. ASSUME NEW s \in Slots, Issue(s)
        PROVE  RevocationSettles'
    <2> Calm
      BY <1>0, <1>10
         DEF Issue, Refreshing, TypeOK, PointsMatchJobs
    <2> QED
      BY <1>00
  <1>11. ASSUME NEW s \in Slots, Reissue(s)
        PROVE  RevocationSettles'
    <2>1. revoked' = revoked /\ job[s].cookie \in RefreshTokens
      BY <1>0, <1>11, JobFacts DEF Reissue, PointsMatchJobs
    <2>2. ASSUME NEW k \in RefreshTokens
          PROVE  Refreshing(k)' \in SUBSET Refreshing(k) /\ s \notin Refreshing(k)'
      BY <1>0, <1>11, <2>2 DEF Reissue, Refreshing, TypeOK
    <2>3. s \in Refreshing(job[s].cookie)
      BY <1>11 DEF Reissue, Refreshing
    <2>4. ASSUME NEW k \in RefreshTokens, k \in revoked
          PROVE  lateRefresh'[k] + Cardinality(Refreshing(k)') < Cardinality(Slots)
      <3>1. Refreshing(k) \in SUBSET Slots /\ Refreshing(k)' \in SUBSET Refreshing(k)
        BY <2>2 DEF Refreshing
      <3>2. /\ Cardinality(Refreshing(k)') \in Nat /\ Cardinality(Refreshing(k)) \in Nat
            /\ Cardinality(Slots) \in Nat
        BY <3>1, SlotCounts
      <3>3. /\ lateRefresh[k] \in Nat
            /\ lateRefresh[k] + Cardinality(Refreshing(k)) < Cardinality(Slots)
        BY <1>0, <2>4 DEF RevocationSettles, TypeOK
      <3>4. CASE k = job[s].cookie
        <4>1. lateRefresh'[k] = lateRefresh[k] + 1
          BY <1>0, <1>11, <2>4, <3>4 DEF Reissue, TypeOK
        <4>2. Cardinality(Refreshing(k)') + 1 <= Cardinality(Refreshing(k))
          BY <2>2, <2>3, <3>1, <3>4, FewerSlots
        <4> QED
          BY <3>2, <3>3, <4>1, <4>2
      <3>5. CASE k # job[s].cookie
        <4>1. lateRefresh'[k] = lateRefresh[k]
          BY <1>0, <1>11, <2>1, <3>5 DEF Reissue, TypeOK
        <4>2. Cardinality(Refreshing(k)') <= Cardinality(Refreshing(k))
          BY <3>1, FewerSlots
        <4> QED
          BY <3>2, <3>3, <4>1, <4>2
      <3> QED
        BY <3>4, <3>5
    <2>5. ASSUME NEW k \in RefreshTokens, k \notin revoked
          PROVE  lateRefresh'[k] = 0
      BY <1>0, <1>11, <2>5 DEF Reissue, RevocationSettles, TypeOK
    <2> QED
      BY <2>1, <2>4, <2>5 DEF RevocationSettles
  <1>12. ASSUME NEW s \in Slots, Revoke(s)
        PROVE  RevocationSettles'
    <2>1. lateRefresh' = lateRefresh
      BY <1>12 DEF Revoke
    <2>2. ASSUME NEW k \in RefreshTokens
          PROVE  Refreshing(k)' \in SUBSET Refreshing(k) /\ s \notin Refreshing(k)
      BY <1>0, <1>12, <2>2 DEF Revoke, Refreshing, TypeOK, PointsMatchJobs
    <2>3. ASSUME NEW k \in RefreshTokens, k \in revoked'
          PROVE  lateRefresh[k] + Cardinality(Refreshing(k)') < Cardinality(Slots)
      <3>1. Refreshing(k) \in SUBSET Slots /\ Refreshing(k)' \in SUBSET Refreshing(k)
        BY <2>2 DEF Refreshing
      <3>2. Cardinality(Refreshing(k)') <= Cardinality(Refreshing(k))
        BY <3>1, FewerSlots
      <3>3. /\ Cardinality(Refreshing(k)') \in Nat /\ Cardinality(Refreshing(k)) \in Nat
            /\ Cardinality(Slots) \in Nat
        BY <3>1, SlotCounts
      <3>4. Cardinality(Refreshing(k)) < Cardinality(Slots)
        BY <2>2, <3>1, SlotCounts
      <3>5. /\ lateRefresh[k] \in Nat
            /\ k \notin revoked => lateRefresh[k] = 0
            /\ k \in revoked => lateRefresh[k] + Cardinality(Refreshing(k)) < Cardinality(Slots)
        BY <1>0 DEF RevocationSettles, TypeOK
      <3>6. CASE k \in revoked
        BY <3>2, <3>3, <3>5, <3>6
      <3>7. CASE k \notin revoked
        BY <3>2, <3>3, <3>4, <3>5, <3>7
      <3> QED
        BY <3>6, <3>7
    <2>4. \A k \in RefreshTokens : k \notin revoked' => k \notin revoked
      BY <1>12 DEF Revoke
    <2> QED
      BY <1>0, <2>1, <2>3, <2>4 DEF RevocationSettles
  <1>13. ASSUME NEW s \in Slots, FindName(s)
        PROVE  RevocationSettles'
    <2> Calm
      BY <1>0, <1>13
         DEF FindName, Refreshing, TypeOK, PointsMatchJobs
    <2> QED
      BY <1>00
  <1>14. ASSUME NEW s \in Slots, InsertRole(s)
        PROVE  RevocationSettles'
    <2> Calm
      BY <1>0, <1>14
         DEF InsertRole, Refreshing, TypeOK, PointsMatchJobs
    <2> QED
      BY <1>00
  <1>15. ASSUME NEW s \in Slots, FindRole(s)
        PROVE  RevocationSettles'
    <2> Calm
      BY <1>0, <1>15
         DEF FindRole, Refreshing, TypeOK, PointsMatchJobs
    <2> QED
      BY <1>00
  <1>16. ASSUME NEW s \in Slots, WriteRole(s)
        PROVE  RevocationSettles'
    <2> Calm
      BY <1>0, <1>16
         DEF WriteRole, Refreshing, TypeOK, PointsMatchJobs
    <2> QED
      BY <1>00
  <1>17. ASSUME NEW s \in Slots, CountGrants(s)
        PROVE  RevocationSettles'
    <2> Calm
      BY <1>0, <1>17
         DEF CountGrants, Refreshing, TypeOK, PointsMatchJobs
    <2> QED
      BY <1>00
  <1>18. ASSUME NEW s \in Slots, DeleteRole(s)
        PROVE  RevocationSettles'
    <2> Calm
      BY <1>0, <1>18
         DEF DeleteRole, Refreshing, TypeOK, PointsMatchJobs
    <2> QED
      BY <1>00
  <1>19. ASSUME NEW s \in Slots, FindForAssign(s)
        PROVE  RevocationSettles'
    <2> Calm
      BY <1>0, <1>19
         DEF FindForAssign, Refreshing, TypeOK, PointsMatchJobs
    <2> QED
      BY <1>00
  <1>20. ASSUME NEW s \in Slots, ReadGrants(s)
        PROVE  RevocationSettles'
    <2> Calm
      BY <1>0, <1>20
         DEF ReadGrants, Refreshing, TypeOK, PointsMatchJobs
    <2> QED
      BY <1>00
  <1>21. ASSUME NEW s \in Slots, InsertGrant(s)
        PROVE  RevocationSettles'
    <2> Calm
      <3>1. \/ Leave(s)
            \/ UNCHANGED <<pc, job, names>>
        BY <1>21 DEF InsertGrant
      <3> QED
        BY <1>0, <1>21, <3>1 DEF InsertGrant, Refreshing, TypeOK
    <2> QED
      BY <1>00
  <1>22. ASSUME NEW s \in Slots, FindGrant(s)
        PROVE  RevocationSettles'
    <2> Calm
      BY <1>0, <1>22
         DEF FindGrant, Refreshing, TypeOK, PointsMatchJobs
    <2> QED
      BY <1>00
  <1>23. ASSUME NEW s \in Slots, DeleteGrant(s)
        PROVE  RevocationSettles'
    <2> Calm
      BY <1>0, <1>23
         DEF DeleteGrant, Refreshing, TypeOK, PointsMatchJobs
    <2> QED
      BY <1>00
  <1>24. ASSUME NEW g \in Pairs, Lapse(g)
        PROVE  RevocationSettles'
    <2> Calm
      BY <1>0, <1>24
         DEF Lapse, Refreshing, TypeOK, PointsMatchJobs
    <2> QED
      BY <1>00
  <1>25. CASE Tick
    <2> Calm
      BY <1>0, <1>25
         DEF Tick, Refreshing, TypeOK, PointsMatchJobs
    <2> QED
      BY <1>00
  <1>26. CASE UNCHANGED vars
    <2> Calm
      BY <1>0, <1>26
         DEF vars, Refreshing, TypeOK, PointsMatchJobs
    <2> QED
      BY <1>00
  <1> QED
    BY <1>1, <1>2, <1>3, <1>4, <1>5, <1>6, <1>7, <1>8, <1>9, <1>10, <1>11,
       <1>12, <1>13, <1>14, <1>15, <1>16, <1>17, <1>18, <1>19, <1>20, <1>21,
       <1>22, <1>23, <1>24, <1>25, <1>26
       DEF Next, Step

\* Names in tokens being signed only grow fewer, and a name that is signed when
\* it is lost leaves with the request.
LEMMA NamesNext == SessionsInv /\ [Next]_vars => LostNamesSettle'
  <1> SUFFICES ASSUME SessionsInv, [Next]_vars
               PROVE  LostNamesSettle'
    OBVIOUS
  <1> USE DEF accounts, roles, cookies, request, GoTo, End, Leave
  <1> DEFINE Fewer == \A a \in Accounts, n \in RoleNames : Naming(a, n)' \subseteq Naming(a, n)
             Keeps == /\ UNCHANGED lateNames
                      /\ \A a \in Accounts, n \in RoleNames : Holds(a, n)' => Holds(a, n)
             Same == UNCHANGED <<active, grants, lapsed, lateNames>>
             Bounded(a, n) == lateNames[a][n] + Cardinality(Naming(a, n)) <= Cardinality(Slots)
  <1>0. TypeOK /\ PointsMatchJobs /\ SubjectsVerified /\ LostNamesSettle
    BY DEF SessionsInv
  <1>01. ASSUME NEW a \in Accounts, NEW n \in RoleNames
         PROVE  /\ Naming(a, n) \in SUBSET Slots /\ Naming(a, n)' \in SUBSET Slots
                /\ Cardinality(Slots) \in Nat
                /\ Cardinality(Naming(a, n)) \in Nat /\ Cardinality(Naming(a, n)') \in Nat
                /\ lateNames[a][n] \in Nat
    <2>1. Naming(a, n) \in SUBSET Slots /\ Naming(a, n)' \in SUBSET Slots
      BY DEF Naming
    <2> QED
      BY <1>0, <2>1, SlotCounts DEF TypeOK
  <1>02. ASSUME Fewer, NEW a \in Accounts, NEW n \in RoleNames
         PROVE  Cardinality(Naming(a, n)') <= Cardinality(Naming(a, n))
    BY <1>01, <1>02, FewerSlots
  <1>03. ASSUME Fewer, Keeps
         PROVE  LostNamesSettle'
    <2> SUFFICES ASSUME NEW a \in Accounts, NEW n \in RoleNames
                 PROVE  /\ Holds(a, n)' => lateNames'[a][n] = 0
                        /\ lateNames'[a][n] + Cardinality(Naming(a, n)') <= Cardinality(Slots)
      BY DEF LostNamesSettle
    <2>1. /\ Holds(a, n) => lateNames[a][n] = 0
          /\ lateNames[a][n] + Cardinality(Naming(a, n)) <= Cardinality(Slots)
      BY <1>0 DEF LostNamesSettle
    <2> HIDE DEF Fewer
    <2>2. Cardinality(Naming(a, n)') <= Cardinality(Naming(a, n))
      BY <1>02, <1>03
    <2> QED
      BY <1>01, <1>03, <2>1, <2>2
  <1>04. Same => Keeps
    BY DEF Holds
  <1>05. ASSUME Fewer, CountAnew
         PROVE  LostNamesSettle'
    <2> SUFFICES ASSUME NEW a \in Accounts, NEW n \in RoleNames
                 PROVE  /\ Holds(a, n)' => lateNames'[a][n] = 0
                        /\ lateNames'[a][n] + Cardinality(Naming(a, n)') <= Cardinality(Slots)
      BY DEF LostNamesSettle
    <2>1. lateNames[a][n] + Cardinality(Naming(a, n)) <= Cardinality(Slots)
      BY <1>0 DEF LostNamesSettle
    <2> HIDE DEF Fewer
    <2>2. Cardinality(Naming(a, n)') <= Cardinality(Naming(a, n))
      BY <1>02, <1>05
    <2>3. lateNames'[a][n] = IF Holds(a, n)' THEN 0 ELSE lateNames[a][n]
      BY <1>0, <1>05, CountTypes
    <2> QED
      BY <1>01, <2>1, <2>2, <2>3
  <1>06. ASSUME NEW r \in Slots, pc[r] = "issue"
         PROVE  Subject(r) \in Accounts /\ (job'[r] = job[r] => Subject(r)' = Subject(r))
    BY <1>06, <1>0, SubjectStays DEF SubjectsVerified, TypeOK
  <1>07. ASSUME \A r \in Slots : pc'[r] = "issue" =>
                  pc[r] = "issue" /\ job'[r] = job[r] /\ names'[r] = names[r]
         PROVE  Fewer
    BY <1>06, <1>07 DEF Naming
  <1>08. ASSUME NEW s \in Slots, pc[s] = "issue", Sign(s), End(s),
                UNCHANGED <<active, grants, lapsed>>
         PROVE  LostNamesSettle'
    <2>1. Fewer
      BY <1>0, <1>07, <1>08 DEF TypeOK
    <2> SUFFICES ASSUME NEW a \in Accounts, NEW n \in RoleNames
                 PROVE  /\ Holds(a, n)' => lateNames'[a][n] = 0
                        /\ lateNames'[a][n] + Cardinality(Naming(a, n)') <= Cardinality(Slots)
      BY DEF LostNamesSettle
    <2>2. /\ Holds(a, n) => lateNames[a][n] = 0
          /\ lateNames[a][n] + Cardinality(Naming(a, n)) <= Cardinality(Slots)
      BY <1>0 DEF LostNamesSettle
    <2>3. Holds(a, n)' <=> Holds(a, n)
      BY <1>08 DEF Holds
    <2>4. Subject(s) \in Accounts
      BY <1>06, <1>08
    <2>5. CASE a = Subject(s) /\ n \in names[s] /\ ~Holds(a, n)
      <3>1. lateNames'[a][n] = lateNames[a][n] + 1
        BY <1>0, <1>08, <2>4, <2>5 DEF Sign, TypeOK
      <3>2. s \in Naming(a, n) /\ s \notin Naming(a, n)'
        BY <1>0, <1>08, <2>5 DEF Naming, TypeOK
      <3>3. Cardinality(Naming(a, n)') + 1 <= Cardinality(Naming(a, n))
        BY <1>01, <2>1, <3>2, FewerSlots
      <3> QED
        BY <1>01, <2>2, <2>3, <2>5, <3>1, <3>3
    <2>6. CASE ~(a = Subject(s) /\ n \in names[s] /\ ~Holds(a, n))
      <3>1. lateNames'[a][n] = lateNames[a][n]
        BY <1>0, <1>08, <2>4, <2>6 DEF Sign, TypeOK
      <3> HIDE DEF Fewer
      <3>2. Cardinality(Naming(a, n)') <= Cardinality(Naming(a, n))
        BY <1>02, <2>1
      <3> QED
        BY <1>01, <2>2, <2>3, <3>1, <3>2
    <2> QED
      BY <2>5, <2>6
  <1>1. ASSUME NEW s \in Slots, NEW j \in Jobs, Begin(s, j)
        PROVE  LostNamesSettle'
    <2>1. Fewer
      BY <1>0, <1>07, <1>1
         DEF Begin, TypeOK, FirstPoint
    <2>2. Same
      BY <1>0, <1>1 DEF Begin, TypeOK
    <2> HIDE DEF Fewer, Keeps, Same
    <2> QED
      BY <1>03, <1>04, <2>1, <2>2
  <1>2. ASSUME NEW s \in Slots, FindAccount(s)
        PROVE  LostNamesSettle'
    <2>1. Fewer
      BY <1>0, <1>07, <1>2
         DEF FindAccount, TypeOK, PointsMatchJobs
    <2>2. Same
      BY <1>0, <1>2 DEF FindAccount, TypeOK
    <2> HIDE DEF Fewer, Keeps, Same
    <2> QED
      BY <1>03, <1>04, <2>1, <2>2
  <1>3. ASSUME NEW s \in Slots, LookupAccount(s)
        PROVE  LostNamesSettle'
    <2>1. Fewer
      BY <1>0, <1>07, <1>3
         DEF LookupAccount, TypeOK, PointsMatchJobs
    <2>2. Same
      BY <1>0, <1>3 DEF LookupAccount, TypeOK
    <2> HIDE DEF Fewer, Keeps, Same
    <2> QED
      BY <1>03, <1>04, <2>1, <2>2
  <1>4. ASSUME NEW s \in Slots, InsertUser(s)
        PROVE  LostNamesSettle'
    <2>1. Fewer
      BY <1>0, <1>07, <1>4
         DEF InsertUser, TypeOK, PointsMatchJobs
    <2>2. Same
      BY <1>0, <1>4 DEF InsertUser, TypeOK
    <2> HIDE DEF Fewer, Keeps, Same
    <2> QED
      BY <1>03, <1>04, <2>1, <2>2
  <1>5. ASSUME NEW s \in Slots, FindUnverified(s)
        PROVE  LostNamesSettle'
    <2>1. Fewer
      BY <1>0, <1>07, <1>5
         DEF FindUnverified, TypeOK, PointsMatchJobs
    <2>2. Same
      BY <1>0, <1>5 DEF FindUnverified, TypeOK
    <2> HIDE DEF Fewer, Keeps, Same
    <2> QED
      BY <1>03, <1>04, <2>1, <2>2
  <1>6. ASSUME NEW s \in Slots, SetVerified(s)
        PROVE  LostNamesSettle'
    <2>1. Fewer
      BY <1>0, <1>07, <1>6
         DEF SetVerified, TypeOK, PointsMatchJobs
    <2>2. Same
      BY <1>0, <1>6 DEF SetVerified, TypeOK
    <2> HIDE DEF Fewer, Keeps, Same
    <2> QED
      BY <1>03, <1>04, <2>1, <2>2
  <1>7. ASSUME NEW s \in Slots, ReadRefreshToken(s)
        PROVE  LostNamesSettle'
    <2>1. Fewer
      BY <1>0, <1>07, <1>7
         DEF ReadRefreshToken, TypeOK, PointsMatchJobs
    <2>2. Same
      BY <1>0, <1>7 DEF ReadRefreshToken, TypeOK
    <2> HIDE DEF Fewer, Keeps, Same
    <2> QED
      BY <1>03, <1>04, <2>1, <2>2
  <1>8. ASSUME NEW s \in Slots, ReadOwner(s)
        PROVE  LostNamesSettle'
    <2>1. Fewer
      BY <1>0, <1>07, <1>8
         DEF ReadOwner, TypeOK, PointsMatchJobs
    <2>2. Same
      BY <1>0, <1>8 DEF ReadOwner, TypeOK
    <2> HIDE DEF Fewer, Keeps, Same
    <2> QED
      BY <1>03, <1>04, <2>1, <2>2
  <1>9. ASSUME NEW s \in Slots, LoadRoles(s)
        PROVE  LostNamesSettle'
    <2>1. UNCHANGED <<accounts, roles, cookies, job>>
      BY <1>9 DEF LoadRoles
    <2>2. PICK N \in {{}, RolesOf(Subject(s))} : names' = [names EXCEPT ![s] = N]
      BY <1>9 DEF LoadRoles
    <2> SUFFICES ASSUME NEW a \in Accounts, NEW n \in RoleNames
                 PROVE  /\ Holds(a, n)' => lateNames'[a][n] = 0
                        /\ lateNames'[a][n] + Cardinality(Naming(a, n)') <= Cardinality(Slots)
      BY DEF LostNamesSettle
    <2>3. /\ Holds(a, n) => lateNames[a][n] = 0
          /\ lateNames[a][n] + Cardinality(Naming(a, n)) <= Cardinality(Slots)
      BY <1>0 DEF LostNamesSettle
    <2>4. (Holds(a, n)' <=> Holds(a, n)) /\ lateNames' = lateNames
      BY <2>1 DEF Holds
    <2>5. CASE Subject(s) = a /\ n \in N
      <3>1. Holds(a, n)
        BY <1>0, <2>2, <2>5 DEF RolesOf, Holds, TypeOK
      <3> QED
        BY <1>01, <2>3, <2>4, <3>1, SlotCounts
    <2>6. CASE ~(Subject(s) = a /\ n \in N)
      <3>1. Naming(a, n)' \subseteq Naming(a, n)
        BY <1>0, <2>1, <2>2, <2>6, <1>9 DEF LoadRoles, Naming, Subject, TypeOK
      <3>2. Cardinality(Naming(a, n)') <= Cardinality(Naming(a, n))
        BY <1>01, <3>1, FewerSlots
      <3> QED
        BY <1>01, <2>3, <2>4, <3>2
    <2> QED
      BY <2>5, <2>6
  <1>10. ASSUME NEW s \in Slots, Issue(s)
        PROVE  LostNamesSettle'
    <2>1. pc[s] = "issue" /\ End(s) /\ UNCHANGED <<active, grants, lapsed>>
      BY <1>10 DEF Issue
    <2>2. CASE Sign(s)
      BY <1>08, <2>1, <2>2
    <2>3. CASE UNCHANGED lateNames
      <3>1. Fewer
        BY <1>0, <1>07, <2>1 DEF TypeOK
      <3> HIDE DEF Fewer
      <3> QED
        BY <1>03, <1>04, <2>1, <2>3, <3>1
    <2> QED
      BY <1>10, <2>2, <2>3 DEF Issue
  <1>11. ASSUME NEW s \in Slots, Reissue(s)
        PROVE  LostNamesSettle'
    <2>1. pc[s] = "issue" /\ End(s) /\ Sign(s) /\ UNCHANGED <<active, grants, lapsed>>
      BY <1>11 DEF Reissue
    <2> QED
      BY <1>08, <2>1
  <1>12. ASSUME NEW s \in Slots, Revoke(s)
        PROVE  LostNamesSettle'
    <2>1. Fewer
      BY <1>0, <1>07, <1>12
         DEF Revoke, TypeOK, PointsMatchJobs
    <2>2. Same
      BY <1>0, <1>12 DEF Revoke, TypeOK
    <2> HIDE DEF Fewer, Keeps, Same
    <2> QED
      BY <1>03, <1>04, <2>1, <2>2
  <1>13. ASSUME NEW s \in Slots, FindName(s)
        PROVE  LostNamesSettle'
    <2>1. Fewer
      BY <1>0, <1>07, <1>13
         DEF FindName, TypeOK, PointsMatchJobs
    <2>2. Same
      BY <1>0, <1>13 DEF FindName, TypeOK
    <2> HIDE DEF Fewer, Keeps, Same
    <2> QED
      BY <1>03, <1>04, <2>1, <2>2
  <1>14. ASSUME NEW s \in Slots, InsertRole(s)
        PROVE  LostNamesSettle'
    <2>1. Fewer
      BY <1>0, <1>07, <1>14
         DEF InsertRole, TypeOK, PointsMatchJobs
    <2>2. \A g \in grants : g[2] # TheRole(s) \/ active' = active
      BY <1>0, <1>14 DEF InsertRole, SessionsInv, RowsSound, TypeOK
    <2>3. active' \subseteq active \cup {TheRole(s)} /\ UNCHANGED <<grants, lapsed, lateNames>>
      BY <1>14 DEF InsertRole
    <2>4. Keeps
      BY <2>2, <2>3 DEF Holds
    <2> HIDE DEF Fewer, Keeps, Same
    <2> QED
      BY <1>03, <2>1, <2>4
  <1>15. ASSUME NEW s \in Slots, FindRole(s)
        PROVE  LostNamesSettle'
    <2>1. Fewer
      BY <1>0, <1>07, <1>15
         DEF FindRole, TypeOK, PointsMatchJobs
    <2>2. Same
      BY <1>0, <1>15 DEF FindRole, TypeOK
    <2> HIDE DEF Fewer, Keeps, Same
    <2> QED
      BY <1>03, <1>04, <2>1, <2>2
  <1>16. ASSUME NEW s \in Slots, WriteRole(s)
        PROVE  LostNamesSettle'
    <2>1. Fewer
      BY <1>0, <1>07, <1>16
         DEF WriteRole, TypeOK, PointsMatchJobs
    <2>2. CountAnew
      BY <1>16 DEF WriteRole
    <2> HIDE DEF Fewer
    <2> QED
      BY <1>05, <2>1, <2>2
  <1>17. ASSUME NEW s \in Slots, CountGrants(s)
        PROVE  LostNamesSettle'
    <2>1. Fewer
      BY <1>0, <1>07, <1>17
         DEF CountGrants, TypeOK, PointsMatchJobs
    <2>2. Same
      BY <1>0, <1>17 DEF CountGrants, TypeOK
    <2> HIDE DEF Fewer, Keeps, Same
    <2> QED
      BY <1>03, <1>04, <2>1, <2>2
  <1>18. ASSUME NEW s \in Slots, DeleteRole(s)
        PROVE  LostNamesSettle'
    <2>1. Fewer
      BY <1>0, <1>07, <1>18
         DEF DeleteRole, TypeOK, PointsMatchJobs
    <2>2. Keeps
      BY <1>0, <1>18 DEF DeleteRole, Holds, TypeOK
    <2> HIDE DEF Fewer, Keeps, Same
    <2> QED
      BY <1>03, <1>04, <2>1, <2>2
  <1>19. ASSUME NEW s \in Slots, FindForAssign(s)
        PROVE  LostNamesSettle'
    <2>1. Fewer
      BY <1>0, <1>07, <1>19
         DEF FindForAssign, TypeOK, PointsMatchJobs
    <2>2. Same
      BY <1>0, <1>19 DEF FindForAssign, TypeOK
    <2> HIDE DEF Fewer, Keeps, Same
    <2> QED
      BY <1>03, <1>04, <2>1, <2>2
  <1>20. ASSUME NEW s \in Slots, ReadGrants(s)
        PROVE  LostNamesSettle'
    <2>1. Fewer
      BY <1>0, <1>07, <1>20
         DEF ReadGrants, TypeOK, PointsMatchJobs
    <2>2. Same
      BY <1>0, <1>20 DEF ReadGrants, TypeOK
    <2> HIDE DEF Fewer, Keeps, Same
    <2> QED
      BY <1>03, <1>04, <2>1, <2>2
  <1>21. ASSUME NEW s \in Slots, InsertGrant(s)
        PROVE  LostNamesSettle'
    <2>1. Fewer
      <3>1. \/ Leave(s)
            \/ UNCHANGED <<pc, job, names>>
        BY <1>21 DEF InsertGrant
      <3> QED
        BY <1>0, <1>07, <1>21, <3>1 DEF InsertGrant, TypeOK
    <2>2. CountAnew
      BY <1>21 DEF InsertGrant
    <2> HIDE DEF Fewer
    <2> QED
      BY <1>05, <2>1, <2>2
  <1>22. ASSUME NEW s \in Slots, FindGrant(s)
        PROVE  LostNamesSettle'
    <2>1. Fewer
      BY <1>0, <1>07, <1>22
         DEF FindGrant, TypeOK, PointsMatchJobs
    <2>2. Same
      BY <1>0, <1>22 DEF FindGrant, TypeOK
    <2> HIDE DEF Fewer, Keeps, Same
    <2> QED
      BY <1>03, <1>04, <2>1, <2>2
  <1>23. ASSUME NEW s \in Slots, DeleteGrant(s)
        PROVE  LostNamesSettle'
    <2>1. Fewer
      BY <1>0, <1>07, <1>23
         DEF DeleteGrant, TypeOK, PointsMatchJobs
    <2>2. Keeps
      BY <1>0, <1>23 DEF DeleteGrant, Holds, TypeOK
    <2> HIDE DEF Fewer, Keeps, Same
    <2> QED
      BY <1>03, <1>04, <2>1, <2>2
  <1>24. ASSUME NEW g \in Pairs, Lapse(g)
        PROVE  LostNamesSettle'
    <2>1. Fewer
      BY <1>0, <1>06, <1>24
         DEF Lapse, TypeOK, Naming
    <2>2. Keeps
      BY <1>0, <1>24 DEF Lapse, Holds, TypeOK
    <2> HIDE DEF Fewer, Keeps, Same
    <2> QED
      BY <1>03, <1>04, <2>1, <2>2
  <1>25. CASE Tick
    <2>1. Fewer
      BY <1>0, <1>06, <1>25
         DEF Tick, TypeOK, Naming
    <2>2. Same
      BY <1>0, <1>25 DEF Tick, TypeOK
    <2> HIDE DEF Fewer, Keeps, Same
    <2> QED
      BY <1>03, <1>04, <2>1, <2>2
  <1>26. CASE UNCHANGED vars
    <2>1. Fewer
      BY <1>0, <1>06, <1>26
         DEF vars, TypeOK, Naming
    <2>2. Same
      BY <1>0, <1>26 DEF vars, TypeOK
    <2> HIDE DEF Fewer, Keeps, Same
    <2> QED
      BY <1>03, <1>04, <2>1, <2>2
  <1> QED
    BY <1>1, <1>2, <1>3, <1>4, <1>5, <1>6, <1>7, <1>8, <1>9, <1>10, <1>11,
       <1>12, <1>13, <1>14, <1>15, <1>16, <1>17, <1>18, <1>19, <1>20, <1>21,
       <1>22, <1>23, <1>24, <1>25, <1>26
       DEF Next, Step

-----------------------------------------------------------------------------
\* The invariant holds at the start.
LEMMA InvInit == Init => SessionsInv
  <1> SUFFICES ASSUME Init
               PROVE  SessionsInv
    OBVIOUS
  <1>1. TypeOK
    BY TypeInit
  <1>2. PointsMatchJobs /\ SubjectsVerified /\ RowsSound /\ TokensOnlyVerified
        /\ DeletionSparesAssigned
    BY DEF Init, PointsMatchJobs, SubjectsVerified, RowsSound, TokensOnlyVerified,
           DeletionSparesAssigned
  <1>3. RevocationSettles
    BY DEF Init, RevocationSettles
  <1>4. ASSUME NEW a \in Accounts, NEW n \in RoleNames
        PROVE  /\ ~Holds(a, n)
               /\ lateNames[a][n] + Cardinality(Naming(a, n)) <= Cardinality(Slots)
    <2>1. ~Holds(a, n)
      BY DEF Init, Holds
    <2>2. Naming(a, n) = {} /\ lateNames[a][n] = 0
      BY DEF Init, Naming
    <2> QED
      BY <2>1, <2>2, FS_EmptySet, SlotCounts
  <1>5. LostNamesSettle
    BY <1>4 DEF LostNamesSettle
  <1> QED
    BY <1>1, <1>2, <1>3, <1>5 DEF SessionsInv

\* Every reachable state satisfies SessionsInv.
THEOREM SessionsInvariance == Spec => []SessionsInv
  <1>1. SessionsInv /\ [Next]_vars => SessionsInv'
    BY TypeNext, PointsNext, SubjectsNext, RowsNext, RevocationNext, NamesNext,
       TokensNext, DeletionNext DEF SessionsInv
  <1> QED
    BY InvInit, <1>1, PTL DEF Spec

\* AuthService.refreshToken: a revoked refresh token gives at most as many more
\* access tokens as refreshes had read it before, and those are fewer than the
\* slots.
THEOREM RevocationSettlesHolds == Spec => []RevocationSettles
  <1>1. SessionsInv => RevocationSettles
    BY DEF SessionsInv
  <1> QED
    BY SessionsInvariance, <1>1, PTL

\* loadUserRbacRoles: a lost role is signed at most once for each slot until it
\* is held again.
THEOREM LostNamesSettleHolds == Spec => []LostNamesSettle
  <1>1. SessionsInv => LostNamesSettle
    BY DEF SessionsInv
  <1> QED
    BY SessionsInvariance, <1>1, PTL

\* login, register, refresh: tokens are only given to verified accounts.
THEOREM TokensOnlyVerifiedHolds == Spec => []TokensOnlyVerified
  <1>1. SessionsInv => TokensOnlyVerified
    BY DEF SessionsInv
  <1> QED
    BY SessionsInvariance, <1>1, PTL

\* RoleConfigService.delete takes a role only from users who were given it since
\* it was counted.
THEOREM DeletionSparesAssignedHolds == Spec => []DeletionSparesAssigned
  <1>1. SessionsInv => DeletionSparesAssigned
    BY DEF SessionsInv
  <1> QED
    BY SessionsInvariance, <1>1, PTL

-----------------------------------------------------------------------------
\* What becomes of a role name that an account does not hold.

\* A request comes to sign a name only by reading a role the account holds.
LEMMA NamingFollows ==
    ASSUME SessionsInv, [Next]_vars, NEW a \in Accounts, NEW n \in RoleNames,
           NEW r \in Slots, r \in Naming(a, n)'
    PROVE  r \in Naming(a, n) \/ Holds(a, n)
  <1> USE DEF request, GoTo, End, Leave
  <1>0. TypeOK /\ PointsMatchJobs /\ SubjectsVerified
    BY DEF SessionsInv
  <1>1. pc'[r] = "issue" /\ n \in names'[r] /\ Subject(r)' = a
    BY DEF Naming
  <1>2. CASE pc'[r] = pc[r] /\ job'[r] = job[r] /\ names'[r] = names[r]
    BY <1>1, <1>2, SubjectStays DEF Naming
  <1>3. ASSUME LoadRoles(r)
        PROVE  Holds(a, n)
    <2>1. pc[r] = "load" /\ job'[r] = job[r]
      BY <1>3 DEF LoadRoles
    <2>2. Subject(r) = a
      BY <1>1, <2>1, SubjectStays
    <2>3. n \in RolesOf(a)
      BY <1>0, <1>1, <1>3, <2>2 DEF LoadRoles, TypeOK
    <2> QED
      BY <2>3 DEF RolesOf, Holds
  <1>4. ASSUME NEW j \in Jobs, Begin(r, j)
        PROVE  FALSE
    BY <1>0, <1>1, <1>4 DEF Begin, FirstPoint, TypeOK
  <1>5. CASE FindAccount(r) \/ LookupAccount(r) \/ InsertUser(r)
    BY <1>0, <1>1, <1>5 DEF FindAccount, LookupAccount, InsertUser, TypeOK
  <1>6. CASE FindUnverified(r) \/ SetVerified(r) \/ ReadRefreshToken(r) \/ ReadOwner(r)
    BY <1>0, <1>1, <1>6 DEF FindUnverified, SetVerified, ReadRefreshToken, ReadOwner,
       TypeOK
  <1>7. CASE Issue(r) \/ Reissue(r) \/ Revoke(r)
    BY <1>0, <1>1, <1>7 DEF Issue, Reissue, Revoke, TypeOK
  <1>8. CASE FindName(r) \/ InsertRole(r) \/ FindRole(r) \/ WriteRole(r)
    BY <1>0, <1>1, <1>8 DEF FindName, InsertRole, FindRole, WriteRole, TypeOK
  <1>9. CASE CountGrants(r) \/ DeleteRole(r) \/ FindForAssign(r) \/ ReadGrants(r)
    BY <1>0, <1>1, <1>9 DEF CountGrants, DeleteRole, FindForAssign, ReadGrants, TypeOK
  <1>10. CASE InsertGrant(r)
    <2>1. pc'[r] # "issue"
      BY <1>0, <1>10 DEF InsertGrant, TypeOK
    <2> QED
      BY <1>1, <2>1
  <1>11. CASE FindGrant(r) \/ DeleteGrant(r)
    BY <1>0, <1>1, <1>11 DEF FindGrant, DeleteGrant, TypeOK
  <1>12. CASE \E s \in Slots \ {r} : Step(s) \/ \E j \in Jobs : Begin(s, j)
    BY <1>0, <1>2, <1>12, OthersStay
  <1>13. CASE Tick \/ \E g \in Pairs : Lapse(g)
    BY <1>2, <1>13 DEF Tick, Lapse
  <1>14. CASE UNCHANGED vars
    BY <1>2, <1>14 DEF vars
  <1> QED
    BY <1>3, <1>4, <1>5, <1>6, <1>7, <1>8, <1>9, <1>10, <1>11, <1>12, <1>13, <1>14
       DEF Next, Step

\* Access tokens come from a signature and go as they grow old.
LEMMA TokenSteps ==
    ASSUME [Next]_vars
    PROVE  \/ UNCHANGED tokens
           \/ tokens' = Aged(tokens)
           \/ \E s \in Slots : pc[s] = "issue" /\ Sign(s)
  <1>1. ASSUME NEW s \in Slots, NEW j \in Jobs, Begin(s, j)
        PROVE  UNCHANGED tokens
    BY <1>1 DEF Begin
  <1>2. ASSUME NEW s \in Slots, Issue(s) \/ Reissue(s)
        PROVE  UNCHANGED tokens \/ (pc[s] = "issue" /\ Sign(s))
    BY <1>2 DEF Issue, Reissue
  <1>3. ASSUME NEW s \in Slots,
               \/ FindAccount(s) \/ LookupAccount(s) \/ InsertUser(s)
               \/ FindUnverified(s) \/ SetVerified(s) \/ ReadRefreshToken(s)
               \/ ReadOwner(s) \/ LoadRoles(s) \/ Revoke(s)
        PROVE  UNCHANGED tokens
    BY <1>3 DEF FindAccount, LookupAccount, InsertUser, FindUnverified, SetVerified,
       ReadRefreshToken, ReadOwner, LoadRoles, Revoke
  <1>4. ASSUME NEW s \in Slots,
               \/ FindName(s) \/ InsertRole(s) \/ FindRole(s) \/ WriteRole(s)
               \/ CountGrants(s) \/ DeleteRole(s) \/ FindForAssign(s)
               \/ ReadGrants(s) \/ InsertGrant(s) \/ FindGrant(s) \/ DeleteGrant(s)
        PROVE  UNCHANGED tokens
    BY <1>4 DEF FindName, InsertRole, FindRole, WriteRole, CountGrants, DeleteRole,
       FindForAssign, ReadGrants, InsertGrant, FindGrant, DeleteGrant
  <1>5. CASE Tick \/ \E g \in Pairs : Lapse(g)
    BY <1>5 DEF Tick, Lapse
  <1>6. CASE UNCHANGED vars
    BY <1>6 DEF vars
  <1> QED
    BY <1>1, <1>2, <1>3, <1>4, <1>5, <1>6 DEF Next, Step

\* The tokens that carry a name grow old with all the others.
LEMMA CarryingAges ==
    ASSUME TypeOK, NEW a \in Accounts, NEW n \in RoleNames, tokens' = Aged(tokens)
    PROVE  Carrying(a, n)' = Aged(Carrying(a, n))
  <1>1. ASSUME NEW u \in tokens
        PROVE  /\ [u EXCEPT !.life = @ - 1].owner = u.owner
               /\ [u EXCEPT !.life = @ - 1].names = u.names
    BY DEF TypeOK, TokenType
  <1>2. Carrying(a, n)' = {t \in Aged(tokens) : t.owner = a /\ n \in t.names}
    BY DEF Carrying
  <1>3. Aged(Carrying(a, n)) =
          {[t EXCEPT !.life = @ - 1] : t \in {u \in Carrying(a, n) : u.life > 1}}
    BY DEF Aged
  <1>4. ASSUME NEW t \in Carrying(a, n)'
        PROVE  t \in Aged(Carrying(a, n))
    <2>1. PICK u \in tokens : u.life > 1 /\ t = [u EXCEPT !.life = @ - 1]
      BY <1>2, <1>4 DEF Aged
    <2>2. u.owner = a /\ n \in u.names
      BY <1>1, <1>2, <1>4, <2>1
    <2> QED
      BY <1>3, <2>1, <2>2 DEF Carrying
  <1>5. ASSUME NEW t \in Aged(Carrying(a, n))
        PROVE  t \in Carrying(a, n)'
    <2>1. PICK u \in Carrying(a, n) : u.life > 1 /\ t = [u EXCEPT !.life = @ - 1]
      BY <1>3, <1>5
    <2>2. u \in tokens /\ u.owner = a /\ n \in u.names
      BY <2>1 DEF Carrying
    <2>3. t \in Aged(tokens)
      BY <2>1, <2>2 DEF Aged
    <2>4. t.owner = a /\ n \in t.names
      BY <1>1, <2>1, <2>2
    <2> QED
      BY <1>2, <2>3, <2>4
  <1> QED
    BY <1>4, <1>5

\* RolesGuard goes by the names in a token: once no request is about to sign a
\* name that the account does not hold, nobody comes to sign it, and the tokens
\* that carry it only grow older until the account is given the role again.
THEOREM LostNamesOnlyFadeHolds == Spec => LostNamesOnlyFade
  <1>1. SessionsInv /\ [Next]_vars =>
          [\A a \in Accounts, n \in RoleNames :
             ~Holds(a, n) /\ Naming(a, n) = {} /\ ~Holds(a, n)' =>
               /\ Naming(a, n)' = {}
               /\ Carrying(a, n)' \in {Carrying(a, n), Aged(Carrying(a, n))}]_vars
    <2> SUFFICES ASSUME SessionsInv, [Next]_vars, NEW a \in Accounts,
                        NEW n \in RoleNames, ~Holds(a, n), Naming(a, n) = {}
                 PROVE  /\ Naming(a, n)' = {}
                        /\ Carrying(a, n)' \in {Carrying(a, n), Aged(Carrying(a, n))}
      OBVIOUS
    <2>1. \A r \in Naming(a, n)' : r \in Slots
      BY DEF Naming
    <2>2. Naming(a, n)' = {}
      BY <2>1, NamingFollows
    <2>3. CASE UNCHANGED tokens
      BY <2>2, <2>3 DEF Carrying
    <2>4. CASE tokens' = Aged(tokens)
      BY <2>2, <2>4, CarryingAges DEF SessionsInv
    <2>5. ASSUME NEW s \in Slots, pc[s] = "issue", Sign(s)
          PROVE  Carrying(a, n)' = Carrying(a, n)
      <3>1. ~(Subject(s) = a /\ n \in names[s])
        BY <2>5 DEF Naming
      <3> QED
        BY <2>5, <3>1 DEF Sign, Carrying
    <2> QED
      BY <2>2, <2>3, <2>4, <2>5, TokenSteps
  <1> QED
    BY <1>1, SessionsInvariance, PTL DEF Spec, LostNamesOnlyFade
=============================================================================
