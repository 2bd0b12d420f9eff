SPECIFICATION Spec
CONSTANTS
    t1 = t1
    u1 = u1
    u2 = u2
    r1 = r1
    r2 = r2
    w1 = w1
    w2 = w2
    a = a
    a2 = a2
    b = b
    s1 = s1
    s2 = s2
    k1 = k1
    k2 = k2
    k3 = k3
    k4 = k4
    k5 = k5
    Tenants = {t1}
    tenant = t1
    ReservationIds = {a, a2, b, s1, s2}
    Contents = {k1, k2, k3, k4, k5}
    Content <- Distinct
    Size <- Sizes
    Seeded = {}
    Uploads = {u1}
    Files <- OneFile
    Refusable = {}
    MaxBatch = 1
    Revisions = {r1}
    Target <- Documents
    Revision <- Attempt
    Workers = {w1}
    Infected = {k3}
    QuotaBytes = 5
    TTL = 1
    MaxTime = 0
    FaultPoints = {}
    MaxFaults = 0
INVARIANTS
    PurgeReturnsQuota
    EnqueueTwiceIsSafe
\* The system comes to rest when every request is answered and every job done.
CHECK_DEADLOCK FALSE
