\* An order, its invoice and their payment, two requests at a time.
SPECIFICATION Spec
CONSTANTS
    c1 = c1
    r1 = r1
    o1 = o1
    q1 = q1
    i1 = i1
    p1 = p1
    buyer = buyer
    manager = manager
    finance = finance
    vendor = vendor
    admin = admin
    NoJob = NoJob
    NoDoc = NoDoc
    NoUser = NoUser
    Slots = {s1, s2}
    Docs = {o1, i1, p1}
    Kind <- PayableKind
    Users = {buyer, manager, finance, vendor}
    Role <- MCRole
    Jobs <- PayableJobs
    OrderMoves = {"APPROVED", "GONE"}
SYMMETRY Symmetry
INVARIANTS  SettlementsBounded
