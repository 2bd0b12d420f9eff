SPECIFICATION Spec
CONSTANTS
    ta = ta
    tb = tb
    member = member
    root = root
    k1 = k1
    c1 = c1
    c2 = c2
    r1 = r1
    r2 = r2
    NoTenant = NoTenant
    NoUser = NoUser
    NoToken = NoToken
    Users = {member, root}
    UserTenant <- MCTenantOf
    UserRole <- MCRole
    Tokens = {k1}
    IdleTTL = 2
    AbsoluteTTL = 3
    MaxTime = 4
    Lag = 1
    Limit <- MCLimit
    Window <- MCWindow
    Slots = {r1, r2}
    Clients = {c1, c2}
    TenantAt <- MCTenantAt
    Requests <- MCRequests
INVARIANTS
    AccessIsAccountedFor
PROPERTIES
    SessionsEnd
    ActiveSessionsLast
    LimitsAreFair
SYMMETRY SlotSymmetry
CHECK_DEADLOCK FALSE
