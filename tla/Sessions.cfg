\* Two requests at a time on two accounts, two roles and a refresh token.
SPECIFICATION Spec
CONSTANTS
    acme = acme
    bob = bob
    root = root
    r1 = r1
    r2 = r2
    k1 = k1
    NoJob = NoJob
    NoAccount = NoAccount
    Slots = {s1, s2}
    Accounts = {acme, bob}
    Email <- MCEmail
    Username <- MCUsername
    Vendors = {acme}
    Admins = {root}
    Roles = {r1, r2}
    RoleName <- MCRoleName
    AdminRoles = {"Admin"}
    RefreshTokens = {k1}
    AccessLife = 1
    RefreshLife = 2
    Jobs <- RaceJobs
SYMMETRY Symmetry
INVARIANTS SessionsInv RevocationSettles LostNamesSettle DeletionSparesAssigned
