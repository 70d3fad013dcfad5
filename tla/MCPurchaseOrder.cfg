\* Two requests at a time, every endpoint, two orders on one budget.
SPECIFICATION Spec
CONSTANTS
    p1 = p1
    p2 = p2
    buyer = buyer
    approver1 = approver1
    manager = manager
    NoJob = NoJob
    NoPO = NoPO
    NoUser = NoUser
    Slots = {s1, s2}
    POs = {p1, p2}
    Users = {buyer, approver1, manager}
    Role <- MCRole
    Jobs <- MCJobs
    Funds = 3
SYMMETRY Symmetry
INVARIANTS OrderInv PathRespected OkMeansDone
PROPERTIES KeepsPath DeductsByTheBook
