\* Three concurrent calls of every kind on a pool of two connections.
SPECIFICATION Spec
CONSTANTS
    c1 = c1
    c2 = c2
    c3 = c3
    b1 = b1
    b2 = b2
    b3 = b3
    NoOp = NoOp
    NoCall = NoCall
    Calls <- MCCalls
    Budgets <- MCBudgets
    Ops <- MCOps
    FiscalYear <- MCYear
    Opening <- MCOpening
    MaxAmount = 2
    PoolSize = 2
SYMMETRY Symmetry
INVARIANTS IInv Conservation OverdraftBounded 
PROPERTIES CreatedOnce 
\* every call has returned
CHECK_DEADLOCK FALSE
