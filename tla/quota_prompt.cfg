SPECIFICATION FairSpec
CONSTANTS
    t1 = t1
    a = a
    b = b
    c = c
    Tenants = {t1}
    ReservationIds = {a, b, c}
    Owner <- OneOwner
    Bytes <- MCBytes
    QuotaBytes = 3
    TTL = 2
    MaxTime = 5
    LockWait = 1
    LateCommits = FALSE
INVARIANTS
    LedgerBalance
    DebitNeverThrows
    NoOverAllocation
PROPERTIES
    AbandonedCapacityReturns
    ImplementsPool
\* The clock stops at its bound.
CHECK_DEADLOCK FALSE
