-------------------------- MODULE SessionsProperties --------------------------
(***************************************************************************)
(* What authentication and the roles promise, whatever requests race.      *)
(***************************************************************************)
EXTENDS Sessions

\* Requests past the reading of refresh token k, which will sign from it.
Refreshing(k) ==
    {s \in Slots : /\ pc[s] \in {"readUser", "load", "issue"}
                   /\ job[s].op = "refresh" /\ job[s].cookie = k}

\* AuthService.refreshToken reads the row and signs several awaits later, so
\* that a logout in between is not noticed: a revoked refresh token still gives
\* access tokens, but only to the refreshes that had read it before, one less
\* than there are slots, and then never again.
RevocationSettles ==
    \A k \in RefreshTokens :
        /\ k \notin revoked => lateRefresh[k] = 0
        /\ k \in revoked =>
             lateRefresh[k] + Cardinality(Refreshing(k)) < Cardinality(Slots)

\* Requests that are about to sign the name n for account a.
Naming(a, n) ==
    {s \in Slots : pc[s] = "issue" /\ n \in names[s] /\ Subject(s) = a}

\* loadUserRbacRoles reads the roles and the token is signed later: a role that
\* is removed, deleted, switched off or expired meanwhile is signed all the
\* same, but at most once for each slot until the account holds it again.
LostNamesSettle ==
    \A a \in Accounts, n \in RoleNames :
        /\ Holds(a, n) => lateNames[a][n] = 0
        /\ lateNames[a][n] + Cardinality(Naming(a, n)) <= Cardinality(Slots)

\* register, login, refresh and verifyUser: tokens, of either kind, are only
\* given to accounts that are verified, although isVerified is read long before
\* they are made.
TokensOnlyVerified ==
    /\ \A t \in tokens : t.owner \in verified
    /\ \A k \in RefreshTokens : owner[k] \in verified \cup {NoAccount}

\* RoleConfigService.delete counts the assignments of a role and deletes it by
\* id later, and the assignments with it: it takes a role from a user only if
\* that was assigned in between.
DeletionSparesAssigned ==
    \A s \in Slots : pc[s] = "deleteRole" =>
        \A g \in grants : g[2] = TheRole(s) => g \in since[s]

\* The tokens in which the account a has the role name n.
Carrying(a, n) == {t \in tokens : t.owner = a /\ n \in t.names}

\* RolesGuard goes by the names in the token: once no request is about to sign
\* a name that its account does not hold, no request comes to sign it and the
\* tokens that carry it only grow older, whatever is refreshed or logged in,
\* until the account is given the role again.
LostNamesOnlyFade ==
    [][\A a \in Accounts, n \in RoleNames :
         ~Holds(a, n) /\ Naming(a, n) = {} /\ ~Holds(a, n)' =>
           /\ Naming(a, n)' = {}
           /\ Carrying(a, n)' \in {Carrying(a, n), Aged(Carrying(a, n))}]_vars

\* A role that an account has lost for good is in the end in no valid token of
\* its own, although RolesGuard never asks the rows: the requests that read it
\* before are over at some time, and what they signed expires.
LostNamesFade ==
    \A a \in Accounts, n \in RoleNames :
        <>[]~Holds(a, n) => <>[](\A t \in tokens : t.owner = a => n \notin t.names)
=============================================================================
