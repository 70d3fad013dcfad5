\* Two requests at a time on the seeded tender: submissions, close, evaluation,
\* awards to either bid.
SPECIFICATION Spec
CONSTANTS
    t1 = t1
    b1 = b1
    b2 = b2
    acme = acme
    globex = globex
    user = user
    manager = manager
    admin = admin
    v1 = v1
    v2 = v2
    NoJob = NoJob
    NoTender = NoTender
    NoBid = NoBid
    NoVendor = NoVendor
    NoUser = NoUser
    Slots = {s1, s2}
    Tenders = {t1}
    Bids = {b1, b2}
    Orders = {o1}
    Users = {user, manager, admin, v1, v2}
    Role <- MCRole
    VendorOf <- MCVendorOf
    Jobs <- MCJobs
    Drafts <- MCDrafts
    MaxWins = 1
SYMMETRY Symmetry
INVARIANTS SourcingInv TailBounded OkMeansDone
PROPERTIES KeepsDossier
