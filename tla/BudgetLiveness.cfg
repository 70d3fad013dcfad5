\* Lock conflicts, timeouts and the pool: every call returns.
SPECIFICATION FairSpec
CONSTANTS
    c1 = c1
    c2 = c2
    c3 = c3
    b1 = b1
    b2 = b2
    b3 = b3
    NoOp = NoOp
    NoCall = NoCall
    Calls <- MCCalls
    Budgets <- MCBudgets
    Ops <- MCLockOps
    FiscalYear <- MCYear
    Opening <- MCOpening
    MaxAmount = 2
    PoolSize = 2
PROPERTIES EveryCallReturns
\* every call has returned
CHECK_DEADLOCK FALSE
