\* Two requests at a time on one account, one role and one refresh token.
SPECIFICATION FairSpec
CONSTANTS
    acme = acme
    bob = bob
    root = root
    r1 = r1
    r2 = r2
    k1 = k1
    NoJob = NoJob
    NoAccount = NoAccount
    Slots = {s1, s2}
    Accounts = {acme}
    Email <- MCEmail
    Username <- MCUsername
    Vendors = {acme}
    Admins = {root}
    Roles = {r1}
    RoleName <- MCRoleName
    AdminRoles = {}
    RefreshTokens = {k1}
    AccessLife = 2
    RefreshLife = 2
    Jobs <- FadeJobs
INVARIANTS SessionsInv TokensOnlyVerified
PROPERTIES LostNamesFade LostNamesOnlyFade
