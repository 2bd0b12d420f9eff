SPECIFICATION Spec
CONSTANTS
    u1 = u1
    u2 = u2
    u3 = u3
    a = a
    b = b
    c = c
    d = d
    e = e
    f = f
    g = g
    h = h
    i = i
    x = x
    y = y
    z = z
    t1 = t1
    Tenants = {t1}
    tenant = t1
    ReservationIds = {a, b, c, d}
    Contents = {x, y}
    Content <- MCContent
    Size <- MCSize
    Uploads = {u1, u2}
    Files <- MCFiles
    Refusable = {}
    MaxBatch = 3
    Seeded = {}
    QuotaBytes = 5
    TTL = 1
    MaxTime = 0
    FaultPoints = {"commit"}
    MaxFaults = 1
INVARIANTS
    EveryDocumentIsQueued
\* Requests finish.
CHECK_DEADLOCK FALSE
