SPECIFICATION Spec
CONSTANTS
    u1 = u1
    u2 = u2
    u3 = u3
    a = a
    b = b
    c = c
    d = d
    e = e
    f = f
    g = g
    h = h
    i = i
    x = x
    y = y
    z = z
    t1 = t1
    Tenants = {t1}
    tenant = t1
    ReservationIds = {a, b}
    Contents = {x, y}
    Content <- TwoContent
    Size <- TwoSize
    Uploads = {u1, u2}
    Files <- TwoFiles
    Refusable = {}
    MaxBatch = 3
    Seeded = {}
    QuotaBytes = 3
    TTL = 1
    MaxTime = 1
    FaultPoints = {}
    MaxFaults = 0
INVARIANTS
    NoOverUse
\* Requests finish.
CHECK_DEADLOCK FALSE
