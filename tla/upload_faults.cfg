SPECIFICATION FairSpec
CONSTANTS
    u1 = u1
    u2 = u2
    u3 = u3
    a = a
    b = b
    c = c
    d = d
    e = e
    f = f
    g = g
    h = h
    i = i
    x = x
    y = y
    z = z
    t1 = t1
    Tenants = {t1}
    tenant = t1
    ReservationIds = {a, b, c, d, e, f, g, h, i}
    Contents = {x, y, z}
    Content <- LimitContent
    Size <- LimitSize
    Uploads = {u1, u2, u3}
    Files <- LimitFiles
    Refusable = {z}
    MaxBatch = 3
    Seeded = {}
    QuotaBytes = 5
    TTL = 1
    MaxTime = 1
    FaultPoints = {"reserve", "put", "validate", "insert", "commit", "enqueue", "audit"}
    MaxFaults = 2
INVARIANTS
    StandOrFallTogether
    RowHasBlob
    ExpiredLeavesNothing
    AcceptedIsDurable
    JobsArePaidFor
    OneOfIdenticalWins
PROPERTIES
    FollowsQuotaProtocol
    RequestsFinish
\* Requests finish.
CHECK_DEADLOCK FALSE
