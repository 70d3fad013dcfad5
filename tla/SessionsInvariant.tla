--------------------------- MODULE SessionsInvariant ---------------------------
(***************************************************************************)
(* The inductive invariant of Sessions.  It keeps what each request found  *)
(* at the points where it acts on it, and that nothing takes it back:      *)
(* accounts stay, verified accounts stay verified, the owner of a refresh  *)
(* token does not change.                                                  *)
(***************************************************************************)
EXTENDS SessionsProperties

\* The program points of each method.
PointsMatchJobs ==
    \A s \in Slots :
        /\ pc[s] # "idle" => job[s] \in Jobs
        /\ pc[s] = "lookup" => job[s].op \in {"register", "vendorUser"}
        /\ pc[s] = "insertUser" => job[s].op \in {"register", "vendorUser"}
        /\ pc[s] = "setVerified" => job[s].account \in users
        /\ pc[s] = "readUser" => job[s].op = "refresh"
        /\ pc[s] \in {"load", "issue"} => job[s].op \in {"login", "register", "refresh"}
        /\ pc[s] = "revoke" => job[s].op = "logout"
        /\ pc[s] \in {"insertRole", "writeRole", "count", "deleteRole", "deleteGrant"}
             => job[s].op \in RoleOps
        /\ pc[s] \in {"readGrants", "insertGrants"} => job[s].account \in users

\* Whoever is about to get tokens is verified.
SubjectsVerified ==
    \A s \in Slots :
        /\ pc[s] \in {"load", "issue"} => Subject(s) \in verified
        /\ pc[s] = "readUser" => owner[job[s].cookie] # NoAccount

\* The rows hang together: the unique indexes, the foreign keys.
RowsSound ==
    /\ \A a, b \in users :
         Email[a] = Email[b] \/ Username[a] = Username[b] => a = b
    /\ \A q, r \in roleRows : RoleName[q] = RoleName[r] => q = r
    /\ \A g \in grants : g[1] \in users /\ g[2] \in roleRows
    /\ \A k \in revoked : owner[k] # NoAccount

SessionsInv ==
    /\ TypeOK
    /\ PointsMatchJobs
    /\ SubjectsVerified
    /\ RowsSound
    /\ RevocationSettles
    /\ LostNamesSettle
    /\ TokensOnlyVerified
    /\ DeletionSparesAssigned
=============================================================================
