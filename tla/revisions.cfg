SPECIFICATION Spec
CONSTANTS
    t1 = t1
    r1 = r1
    r2 = r2
    r3 = r3
    a = a
    b = b
    c = c
    d = d
    x = x
    y = y
    z = z
    v = v
    Tenants = {t1}
    tenant = t1
    ReservationIds = {a, b, c, d}
    Contents = {x, y, z, v}
    Content <- Twins
    Size <- OneByte
    Refusable = {}
    Seeded = {a}
    Revisions = {r1, r2, r3}
    Target <- Documents
    Revision <- Attempt
    QuotaBytes = 3
    TTL = 1
    MaxTime = 0
    FaultPoints = {"reserve", "put", "insert", "commit", "commitAnswer", "enqueue", "audit", "undo"}
    MaxFaults = 3
INVARIANTS
    VersionNumbersUnique
    CurrentIsNewest
    ChargedVersionStays
    RevisionsSettle
    FailedRevisionsLeaveNoTrace
    AcceptedRevisionIsQueued
\* Requests finish.
CHECK_DEADLOCK FALSE
