\* Calls that compete for one budget (TC-PERF-003).
SPECIFICATION Spec
CONSTANTS
    c1 = c1
    c2 = c2
    c3 = c3
    b1 = b1
    b2 = b2
    b3 = b3
    NoOp = NoOp
    NoCall = NoCall
    Calls <- MCCalls
    Budgets <- MCBudgets
    Ops <- MCOps
    FiscalYear <- MCYear
    Opening <- MCOpening
    MaxAmount = 2
    PoolSize = 2
INVARIANTS NoOverspending
CHECK_DEADLOCK FALSE
