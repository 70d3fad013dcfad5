\* A contract, its requisition and their order, and a quotation, two requests at a time.
SPECIFICATION Spec
CONSTANTS
    c1 = c1
    r1 = r1
    o1 = o1
    q1 = q1
    i1 = i1
    p1 = p1
    buyer = buyer
    manager = manager
    finance = finance
    vendor = vendor
    admin = admin
    NoJob = NoJob
    NoDoc = NoDoc
    NoUser = NoUser
    Slots = {s1, s2}
    Docs = {c1, r1, o1, q1}
    Kind <- ChainKind
    Users = {buyer, manager, vendor, admin}
    Role <- MCRole
    Jobs <- ChainJobs
    OrderMoves = {"APPROVED"}
SYMMETRY Symmetry
INVARIANTS   DeletedSettles
