------------------------------- MODULE Sessions -------------------------------
(***************************************************************************)
(* Accounts, the tokens they are given, and the roles of a tenant.         *)
(*                                                                         *)
(* An access token carries the names of the roles that its owner held when *)
(* loadUserRbacRoles read them, and RolesGuard trusts those names until the *)
(* token expires.  A refresh token is a row that logout marks revoked, and *)
(* that every refresh reads some awaits before it signs.  Roles are given, *)
(* taken, switched off and deleted meanwhile, by requests that check first *)
(* and write later.                                                        *)
(*                                                                         *)
(* Time is counted in ticks of the lifetime of an access token.  Passwords *)
(* that do not match, signatures that do not verify and statements that    *)
(* fail are alternatives of the steps that meet them.                      *)
(***************************************************************************)
EXTENDS Integers, FiniteSets

CONSTANTS Slots,              \* requests the process serves at a time
          Accounts,           \* rows of users
          Email, Username,    \* their unique columns
          Vendors,            \* accounts that register with the role VENDOR
          Admins,             \* accounts whose role is ADMIN, there from the start
          Roles, RoleName,    \* rows of rbac_config and their names
          AdminRoles,         \* role names that RolesGuard takes for ADMIN
          RefreshTokens,      \* rows of refresh_tokens, a bound on the logins
          AccessLife, RefreshLife,   \* JWT_EXPIRY, REFRESH_TOKEN_EXPIRY
          Jobs,               \* requests that may arrive
          NoJob, NoAccount

Ops == {"login", "register", "vendorUser", "verify", "refresh", "logout",
        "createRole", "updateRole", "deleteRole", "assign", "removeRole"}

\* These name one role.
RoleOps == {"createRole", "updateRole", "deleteRole", "removeRole"}

RoleNames == {RoleName[r] : r \in Roles}

\* The method, the caller, the account and the roles it is about, whether a
\* role is to be active or an assignment to expire, and the refresh token in
\* the cookie.
JobType == [op : Ops, by : Accounts \cup Admins, account : Accounts,
            roles : SUBSET Roles, flag : BOOLEAN, cookie : RefreshTokens]

ASSUME SessionsAssumption ==
    /\ IsFiniteSet(Slots)
    /\ AccessLife \in Nat \ {0}
    /\ RefreshLife \in Nat \ {0}
    /\ Jobs \subseteq JobType
    /\ \A j \in Jobs : j.op \in RoleOps => j.roles # {}
    /\ NoJob \notin Jobs /\ NoAccount \notin Accounts
    /\ Admins \cap Accounts = {}

VARIABLES
    \* the tables
    users, verified,            \* accounts that exist, with isVerified
    roleRows, active,           \* roles that exist, with isActive
    usedRoles,                  \* roles that ever existed: ids are not used twice
    grants,                     \* user_rbac_roles: pairs of account and role
    expiring, lapsed,           \* those with an expiresAt, those past it
    owner, revoked, left,       \* refresh_tokens, with the ticks left of each
    tokens,                     \* access tokens given out and not expired
    \* the requests being served
    pc, job,
    names,     \* role names that loadUserRbacRoles returned
    todo,      \* roles still to be assigned
    since,     \* grants inserted since the request read that it found or counted
    \* history
    lateNames,    \* tokens signed with a name since its owner lost that role
    lateRefresh   \* tokens signed from a refresh token since it was revoked

accounts == <<users, verified>>
roles == <<roleRows, active, usedRoles, grants, expiring, lapsed, lateNames>>
cookies == <<owner, revoked, left>>
request == <<job, names, todo, since>>
vars == <<accounts, roles, cookies, tokens, pc, request, lateRefresh>>

Points == {"idle", "find", "lookup", "insertUser", "load", "issue", "setVerified",
           "readUser", "revoke", "insertRole", "writeRole", "count", "deleteRole",
           "readGrants", "insertGrants", "deleteGrant"}

Pairs == Accounts \X Roles
TokenType == [owner : Accounts, names : SUBSET RoleNames, life : 1..AccessLife]

TypeOK ==
    /\ users \subseteq Accounts /\ verified \subseteq users
    /\ usedRoles \subseteq Roles /\ roleRows \subseteq usedRoles
    /\ active \subseteq roleRows
    /\ grants \subseteq Pairs
    /\ expiring \subseteq grants /\ lapsed \subseteq grants
    /\ owner \in [RefreshTokens -> Accounts \cup {NoAccount}]
    /\ revoked \subseteq RefreshTokens
    /\ left \in [RefreshTokens -> 0..RefreshLife]
    /\ tokens \subseteq TokenType
    /\ pc \in [Slots -> Points]
    /\ job \in [Slots -> Jobs \cup {NoJob}]
    /\ names \in [Slots -> SUBSET RoleNames]
    /\ todo \in [Slots -> SUBSET Roles]
    /\ since \in [Slots -> SUBSET Pairs]
    /\ lateNames \in [Accounts -> [RoleNames -> Nat]]
    /\ lateRefresh \in [RefreshTokens -> Nat]

Init ==
    /\ users = {} /\ verified = {}
    /\ roleRows = {} /\ active = {} /\ usedRoles = {}
    /\ grants = {} /\ expiring = {} /\ lapsed = {}
    /\ owner = [k \in RefreshTokens |-> NoAccount]
    /\ revoked = {}
    /\ left = [k \in RefreshTokens |-> 0]
    /\ tokens = {}
    /\ pc = [s \in Slots |-> "idle"]
    /\ job = [s \in Slots |-> NoJob]
    /\ names = [s \in Slots |-> {}]
    /\ todo = [s \in Slots |-> {}]
    /\ since = [s \in Slots |-> {}]
    /\ lateNames = [a \in Accounts |-> [n \in RoleNames |-> 0]]
    /\ lateRefresh = [k \in RefreshTokens |-> 0]

-----------------------------------------------------------------------------
\* Helpers.
GoTo(s, point) == pc' = [pc EXCEPT ![s] = point]

\* The request ends, with a success or an error.
Leave(s) ==
    /\ GoTo(s, "idle")
    /\ job' = [job EXCEPT ![s] = NoJob]
    /\ names' = [names EXCEPT ![s] = {}]
    /\ todo' = [todo EXCEPT ![s] = {}]
End(s) == Leave(s) /\ since' = [since EXCEPT ![s] = {}]

\* A grant inserted again is another row than the one a request has found.
Inserted(g) ==
    since' = [s \in Slots |->
                IF pc[s] \in {"deleteGrant", "deleteRole"} THEN since[s] \cup {g}
                                                           ELSE since[s]]

\* What the rows say that an account holds.
Holds(a, n) ==
    \E r \in active : RoleName[r] = n /\ <<a, r>> \in grants \ lapsed

\* A role that is held again starts a new count.
CountAnew ==
    lateNames' = [a \in Accounts |-> [n \in RoleNames |->
                    IF Holds(a, n)' THEN 0 ELSE lateNames[a][n]]]

\* JwtStrategy.validate and RolesGuard for the endpoints of administrators:
\* the role of the row, or a role name in the token.  An administrator can
\* always log in.
Authenticated(u) == u \in Admins \/ \E t \in tokens : t.owner = u
Administers(u) ==
    \/ u \in Admins
    \/ \E t \in tokens : t.owner = u /\ t.names \cap AdminRoles # {}

\* The refresh token in the cookie is one the server signed and its
\* signature has not expired.
CookieValid(k) == owner[k] # NoAccount /\ left[k] > 0

Admitted(j) ==
    CASE j.op \in {"login", "register"} -> TRUE
      [] j.op = "refresh" -> CookieValid(j.cookie)
      [] j.op = "logout" -> Authenticated(j.by)
      [] OTHER -> Administers(j.by)

FirstPoint(j) ==
    CASE j.op \in {"register", "vendorUser"} -> "lookup"
      [] j.op = "logout" -> "revoke"
      [] OTHER -> "find"

Begin(s, j) ==
    /\ pc[s] = "idle"
    /\ Admitted(j)
    /\ job' = [job EXCEPT ![s] = j]
    /\ GoTo(s, FirstPoint(j))
    /\ UNCHANGED <<accounts, roles, cookies, tokens, names, todo, since, lateRefresh>>

-----------------------------------------------------------------------------
\* Accounts and tokens.

\* login: the account, its isVerified, and the password.
FindAccount(s) ==
    LET a == job[s].account IN
    /\ pc[s] = "find" /\ job[s].op = "login"
    /\ \/ a \in verified /\ GoTo(s, "load") /\ UNCHANGED request
       \/ End(s)
    /\ UNCHANGED <<accounts, roles, cookies, tokens, lateRefresh>>

\* register looks for the email and the username, createVendorUser for the
\* email only.
Taken(j, a) ==
    \/ Email[a] = Email[j.account]
    \/ j.op = "register" /\ Username[a] = Username[j.account]

LookupAccount(s) ==
    /\ pc[s] = "lookup"
    /\ IF \E a \in users : Taken(job[s], a)
         THEN End(s)
         ELSE GoTo(s, "insertUser") /\ UNCHANGED request
    /\ UNCHANGED <<accounts, roles, cookies, tokens, lateRefresh>>

\* The two unique indexes of users.
Unique(a) ==
    \A b \in users : Email[a] # Email[b] /\ Username[a] # Username[b]

\* Fault: tokens are made before isVerified is looked at.
FaultyInsertUser(s) ==
    LET a == job[s].account IN
    /\ pc[s] = "insertUser"
    /\ \/ /\ Unique(a)
          /\ users' = users \cup {a}
          /\ verified' = IF a \in Vendors THEN verified ELSE verified \cup {a}
          /\ GoTo(s, "load") /\ UNCHANGED request
       \/ End(s) /\ UNCHANGED accounts
    /\ UNCHANGED <<roles, cookies, tokens, lateRefresh>>

\* The insert, refused when the indexes say so.  A vendor that registers waits
\* for an administrator, and gets an error although the account exists;
\* createVendorUser makes a verified account and no tokens.
InsertUser(s) ==
    LET a == job[s].account IN
    /\ pc[s] = "insertUser"
    /\ \/ /\ Unique(a) /\ job[s].op = "register"
          /\ users' = users \cup {a}
          /\ \/ /\ a \in Vendors
                /\ End(s) /\ UNCHANGED verified
             \/ /\ a \notin Vendors
                /\ verified' = verified \cup {a}
                /\ GoTo(s, "load") /\ UNCHANGED request
       \/ /\ Unique(a) /\ job[s].op = "vendorUser"
          /\ users' = users \cup {a}
          /\ verified' = verified \cup {a}
          /\ End(s)
       \/ End(s) /\ UNCHANGED accounts
    /\ UNCHANGED <<roles, cookies, tokens, lateRefresh>>

\* verifyUser, which an administrator asks for.
FindUnverified(s) ==
    /\ pc[s] = "find" /\ job[s].op = "verify"
    /\ IF job[s].account \in users \ verified
         THEN GoTo(s, "setVerified") /\ UNCHANGED request
         ELSE End(s)
    /\ UNCHANGED <<accounts, roles, cookies, tokens, lateRefresh>>

SetVerified(s) ==
    /\ pc[s] = "setVerified"
    /\ verified' = verified \cup {job[s].account}
    /\ End(s)
    /\ UNCHANGED <<users, roles, cookies, tokens, lateRefresh>>

\* Fault: the row of the refresh token is not asked whether it is revoked.
FaultyStands(k) == owner[k] # NoAccount
Stands(k) == owner[k] # NoAccount /\ k \notin revoked

\* refresh reads the row of the refresh token, then its owner, and decides on
\* both after the second read, expiresAt by the clock of that moment.
ReadRefreshToken(s) ==
    /\ pc[s] = "find" /\ job[s].op = "refresh"
    /\ IF Stands(job[s].cookie) THEN GoTo(s, "readUser") /\ UNCHANGED request
                                ELSE End(s)
    /\ UNCHANGED <<accounts, roles, cookies, tokens, lateRefresh>>

ReadOwner(s) ==
    LET k == job[s].cookie IN
    /\ pc[s] = "readUser"
    /\ IF left[k] > 0 /\ owner[k] \in verified
         THEN GoTo(s, "load") /\ UNCHANGED request
         ELSE End(s)
    /\ UNCHANGED <<accounts, roles, cookies, tokens, lateRefresh>>

\* Whom the tokens of a request are for.
Subject(s) == IF job[s].op = "refresh" THEN owner[job[s].cookie] ELSE job[s].account

\* Fault: a role that was switched off counts.
FaultyRolesOf(a) ==
    {RoleName[r] : r \in {q \in roleRows : <<a, q>> \in grants \ lapsed}}
RolesOf(a) == {RoleName[r] : r \in {q \in active : <<a, q>> \in grants \ lapsed}}

\* loadUserRbacRoles, which answers no roles when its query fails.
LoadRoles(s) ==
    /\ pc[s] = "load"
    /\ \E N \in {{}, RolesOf(Subject(s))} : names' = [names EXCEPT ![s] = N]
    /\ GoTo(s, "issue")
    /\ UNCHANGED <<accounts, roles, cookies, tokens, job, todo, since, lateRefresh>>

\* The access token is signed and given out.
Sign(s) ==
    LET a == Subject(s) IN
    /\ tokens' = tokens \cup {[owner |-> a, names |-> names[s], life |-> AccessLife]}
    /\ lateNames' = [lateNames EXCEPT ![a] = [n \in RoleNames |->
                       IF n \in names[s] /\ ~Holds(a, n) THEN @[n] + 1 ELSE @[n]]]

\* login and register sign, and answer once the refresh token is inserted.
Issue(s) ==
    /\ pc[s] = "issue" /\ job[s].op \in {"login", "register"}
    /\ \/ \E k \in RefreshTokens :
            /\ owner[k] = NoAccount
            /\ owner' = [owner EXCEPT ![k] = Subject(s)]
            /\ left' = [left EXCEPT ![k] = RefreshLife]
            /\ Sign(s)
       \/ UNCHANGED <<owner, left, tokens, lateNames>>
    /\ End(s)
    /\ UNCHANGED <<accounts, roleRows, active, usedRoles, grants, expiring, lapsed,
                   revoked, lateRefresh>>

Reissue(s) ==
    LET k == job[s].cookie IN
    /\ pc[s] = "issue" /\ job[s].op = "refresh"
    /\ Sign(s)
    /\ lateRefresh' = IF k \in revoked THEN [lateRefresh EXCEPT ![k] = @ + 1]
                                       ELSE lateRefresh
    /\ End(s)
    /\ UNCHANGED <<accounts, roleRows, active, usedRoles, grants, expiring, lapsed,
                   cookies>>

\* logout answers a success whether or not the row could be marked.
Revoke(s) ==
    LET k == job[s].cookie IN
    /\ pc[s] = "revoke"
    /\ \/ CookieValid(k) /\ revoked' = revoked \cup {k}
       \/ UNCHANGED revoked
    /\ End(s)
    /\ UNCHANGED <<accounts, roles, owner, left, tokens, lateRefresh>>

-----------------------------------------------------------------------------
\* Roles.
TheRole(s) == CHOOSE r \in Roles : r \in job[s].roles

NameTaken(r) == \E q \in roleRows : RoleName[q] = RoleName[r]

FindName(s) ==
    /\ pc[s] = "find" /\ job[s].op = "createRole"
    /\ IF NameTaken(TheRole(s)) THEN End(s)
                                ELSE GoTo(s, "insertRole") /\ UNCHANGED request
    /\ UNCHANGED <<accounts, roles, cookies, tokens, lateRefresh>>

\* The unique index of rbac_config; the new row has an id of its own.
InsertRole(s) ==
    LET r == TheRole(s) IN
    /\ pc[s] = "insertRole"
    /\ \/ /\ ~NameTaken(r) /\ r \notin usedRoles
          /\ roleRows' = roleRows \cup {r}
          /\ usedRoles' = usedRoles \cup {r}
          /\ active' = IF job[s].flag THEN active \cup {r} ELSE active
       \/ UNCHANGED <<roleRows, usedRoles, active>>
    /\ End(s)
    /\ UNCHANGED <<accounts, grants, expiring, lapsed, lateNames, cookies, tokens, lateRefresh>>

FindRole(s) ==
    /\ pc[s] = "find" /\ job[s].op \in {"updateRole", "deleteRole"}
    /\ IF TheRole(s) \in roleRows
         THEN GoTo(s, IF job[s].op = "updateRole" THEN "writeRole" ELSE "count")
              /\ UNCHANGED request
         ELSE End(s)
    /\ UNCHANGED <<accounts, roles, cookies, tokens, lateRefresh>>

\* update writes isActive by id.
WriteRole(s) ==
    LET r == TheRole(s) IN
    /\ pc[s] = "writeRole"
    /\ active' = IF job[s].flag /\ r \in roleRows THEN active \cup {r}
                                                  ELSE active \ {r}
    /\ End(s)
    /\ UNCHANGED <<accounts, roleRows, usedRoles, grants, expiring, lapsed, cookies,
                   tokens, lateRefresh>>
    /\ CountAnew

\* Fault: assignments that have expired do not count.
FaultyAssigned(r) == {g \in grants \ lapsed : g[2] = r}
Assigned(r) == {g \in grants : g[2] = r}

\* delete refuses a role that is assigned.
CountGrants(s) ==
    /\ pc[s] = "count"
    /\ IF Assigned(TheRole(s)) = {}
         THEN GoTo(s, "deleteRole") /\ UNCHANGED request
         ELSE End(s)
    /\ UNCHANGED <<accounts, roles, cookies, tokens, lateRefresh>>

\* The assignments go with the role: onDelete: Cascade.
DeleteRole(s) ==
    LET r == TheRole(s) IN
    /\ pc[s] = "deleteRole"
    /\ roleRows' = roleRows \ {r}
    /\ active' = active \ {r}
    /\ grants' = {g \in grants : g[2] # r}
    /\ expiring' = {g \in expiring : g[2] # r}
    /\ lapsed' = {g \in lapsed : g[2] # r}
    /\ End(s)
    /\ UNCHANGED <<accounts, usedRoles, lateNames, cookies, tokens, lateRefresh>>

\* assign: the account, then all of the roles in one query, then its grants.
FindForAssign(s) ==
    /\ pc[s] = "find" /\ job[s].op = "assign"
    /\ IF job[s].account \in users /\ job[s].roles \subseteq roleRows
         THEN GoTo(s, "readGrants") /\ UNCHANGED request
         ELSE End(s)
    /\ UNCHANGED <<accounts, roles, cookies, tokens, lateRefresh>>

\* A grant that is there, expired or not, is not given again.
ReadGrants(s) ==
    LET new == {r \in job[s].roles : <<job[s].account, r>> \notin grants} IN
    /\ pc[s] = "readGrants"
    /\ IF new = {}
         THEN End(s)
         ELSE /\ todo' = [todo EXCEPT ![s] = new]
              /\ GoTo(s, "insertGrants")
              /\ UNCHANGED <<job, names, since>>
    /\ UNCHANGED <<accounts, roles, cookies, tokens, lateRefresh>>

\* One of the inserts of Promise.all, in any order.  It fails when the role is
\* gone or the grant is there by now; the others go on all the same.
InsertGrant(s) ==
    /\ pc[s] = "insertGrants"
    /\ \E r \in todo[s] :
         LET g == <<job[s].account, r>> IN
         /\ \/ /\ r \in roleRows /\ g \notin grants
               /\ grants' = grants \cup {g}
               /\ expiring' = IF job[s].flag THEN expiring \cup {g} ELSE expiring
               /\ Inserted(g)
            \/ UNCHANGED <<grants, expiring, since>>
         /\ IF todo[s] = {r}
              THEN Leave(s)
              ELSE todo' = [todo EXCEPT ![s] = @ \ {r}] /\ UNCHANGED <<pc, job, names>>
    /\ UNCHANGED <<accounts, roleRows, active, usedRoles, lapsed, cookies, tokens,
                   lateRefresh>>
    /\ CountAnew

FindGrant(s) ==
    /\ pc[s] = "find" /\ job[s].op = "removeRole"
    /\ IF <<job[s].account, TheRole(s)>> \in grants
         THEN GoTo(s, "deleteGrant") /\ UNCHANGED request
         ELSE End(s)
    /\ UNCHANGED <<accounts, roles, cookies, tokens, lateRefresh>>

\* The grant is deleted by its id, which a later grant of the role has not.
DeleteGrant(s) ==
    LET g == <<job[s].account, TheRole(s)>>
        gone == IF g \in since[s] THEN {} ELSE {g}
    IN
    /\ pc[s] = "deleteGrant"
    /\ grants' = grants \ gone
    /\ expiring' = expiring \ gone
    /\ lapsed' = lapsed \ gone
    /\ End(s)
    /\ UNCHANGED <<accounts, roleRows, active, usedRoles, lateNames, cookies, tokens, lateRefresh>>

-----------------------------------------------------------------------------
\* Time.

\* An assignment passes its expiresAt.
Lapse(g) ==
    /\ g \in expiring \ lapsed
    /\ lapsed' = lapsed \cup {g}
    /\ UNCHANGED <<accounts, roleRows, active, usedRoles, grants, expiring, lateNames,
                   cookies, tokens, pc, request, lateRefresh>>

\* Fault: the expiration of an access token is ignored.
FaultyAged(T) == T
\* What is left of a set of access tokens a tick later.
Aged(T) == {[t EXCEPT !.life = @ - 1] : t \in {u \in T : u.life > 1}}

Tick ==
    /\ tokens' = Aged(tokens)
    /\ left' = [k \in RefreshTokens |-> IF left[k] > 0 THEN left[k] - 1 ELSE 0]
    /\ UNCHANGED <<accounts, roles, owner, revoked, pc, request, lateRefresh>>

Step(s) ==
    \/ FindAccount(s) \/ LookupAccount(s) \/ InsertUser(s)
    \/ FindUnverified(s) \/ SetVerified(s)
    \/ ReadRefreshToken(s) \/ ReadOwner(s) \/ LoadRoles(s)
    \/ Issue(s) \/ Reissue(s) \/ Revoke(s)
    \/ FindName(s) \/ InsertRole(s) \/ FindRole(s) \/ WriteRole(s)
    \/ CountGrants(s) \/ DeleteRole(s)
    \/ FindForAssign(s) \/ ReadGrants(s) \/ InsertGrant(s)
    \/ FindGrant(s) \/ DeleteGrant(s)

Next ==
    \/ \E s \in Slots, j \in Jobs : Begin(s, j)
    \/ \E s \in Slots : Step(s)
    \/ \E g \in Pairs : Lapse(g)
    \/ Tick

Spec == Init /\ [][Next]_vars

\* The event loop goes on with every request, and the clock goes on.
FairSpec == Spec /\ WF_vars(Tick) /\ \A s \in Slots : WF_vars(Step(s))
=============================================================================
