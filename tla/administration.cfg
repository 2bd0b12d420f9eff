SPECIFICATION Spec
CONSTANTS
    DevTenant <- MCDevTenant
    QaTenantB <- MCQaTenantB
    Handlers = {1}
    Settings <- MCSettings
    NewTenants <- MCNewTenants
    MaxDrawn = 1
    p1 = p1
    p2 = p2
    Replicas = {p1, p2}
    Seeding = {"qa"}
    b1 = b1
    b2 = b2
    Blobs = {b1, b2}
    Page = 1
    MaxResets = 2
INVARIANTS
    TenantsAreWhole
    SeedsComplete
    ConfigIsAccountedFor
PROPERTIES
    SucceededResetIsFresh
SYMMETRY Symmetry
CHECK_DEADLOCK FALSE
