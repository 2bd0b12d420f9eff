------------------------------ MODULE Sessions ------------------------------
(***************************************************************************)
(* Sessions of packages/identity: the sessions table and the service's     *)
(* operations on it, each query one step.  Resolving a token takes three:  *)
(* the row is read, judged by a clock read after it, and touched.          *)
(***************************************************************************)
EXTENDS Tables, Integers, TLC

CONSTANTS
    Users,        \* users.id
    UserTenant,   \* [Users -> Tenants \cup {NoTenant}]: users.tenant_id
    UserRole,     \* [Users -> Roles]: users.role
    NoTenant,     \* NULL: the tenant of a super_admin and of the admin address
    Tokens,       \* the random tokens that are ever issued
    IdleTTL,      \* SESSION_IDLE_TTL_HOURS, in ticks
    AbsoluteTTL,  \* SESSION_ABSOLUTE_TTL_DAYS, in ticks
    MaxTime       \* bound: the clock stops here

ASSUME LifetimeAssumption == IdleTTL \in Nat /\ AbsoluteTTL \in Nat /\ MaxTime \in Nat

VARIABLES
    sessions,  \* table: token -> [user, expiresAt, lastSeenAt]
    clock

sessionVars == <<sessions, clock>>

Roles == {"member", "head_of_team", "admin_tenant", "super_admin"}

Rank == [role \in Roles \ {"super_admin"} |->
            CASE role = "member" -> 1 [] role = "head_of_team" -> 2 [] OTHER -> 3]

\* super_admin is outside the chain: it clears its own floor and no other.
HasRoleAtLeast(role, floor) ==
    IF "super_admin" \in {role, floor} THEN role = floor ELSE Rank[role] >= Rank[floor]

-----------------------------------------------------------------------------
(* The operations of the HTTP API and the role floor each is registered    *)
(* with, one definition per file of apps/api/src/routes/definitions.       *)

At(floor, ops) == [op \in ops |-> floor]

f ++ g == [op \in DOMAIN f \cup DOMAIN g |-> IF op \in DOMAIN f THEN f[op] ELSE g[op]]

AuthFloors     == At("public", {"login", "logout"}) ++ At("authenticated", {"me"})
DocumentFloors ==
    At("member", {"uploadDocuments", "listDocuments", "getDocument", "listVersions",
                  "uploadVersion", "previewDocument", "downloadDocument",
                  "createBulkDownload", "fetchBulkDownload"})
SubresourceFloors ==
    At("member", {"confirmClassification", "getProcessingStatus", "correctFields",
                  "replaceTags", "listRelated"})
    ++ At("head_of_team", {"listUnconfirmed", "reprocessDocument"})
ConfigurationFloors ==
    At("admin_tenant", {"listConfiguration"})
    ++ At("configuration", {"setConfigValue", "resetConfigValue"}) ++ At("member", {"getStorage"})
DiscoveryFloors == At("member", {"searchTitles", "searchContent", "listTopTags"})
ActivityFloors  == At("head_of_team", {"listAuditEvents", "getDashboard"})
CategoryFloors  ==
    At("member", {"listCategories"})
    ++ At("head_of_team", {"createCategory", "renameCategory", "setDownloadPermission"})
TenantFloors    == At("super_admin", {"createTenant", "listTenants", "setTenantQuota"})

FloorOf == AuthFloors ++ DocumentFloors ++ SubresourceFloors ++ ConfigurationFloors
           ++ DiscoveryFloors ++ ActivityFloors ++ CategoryFloors ++ TenantFloors
-----------------------------------------------------------------------------
SessionRow == [user : Users, expiresAt : Nat, lastSeenAt : Nat]

SessionsInit == sessions = EmptyTable /\ clock = 0

\* authenticate: the password is verified even for an email nobody has, and an
\* account signs in at its own tenant's address only.
Authenticates(user, passwordOk, tenant) ==
    user \in Users /\ passwordOk /\ UserTenant[user] = tenant

CreateSession(user, token) ==
    /\ token \in Tokens \ DOMAIN sessions
    /\ sessions' = Insert(sessions, token,
           [user |-> user, expiresAt |-> clock + AbsoluteTTL, lastSeenAt |-> clock])

\* Mutant of Expired: idleness is counted from a session's creation.
ExpiredUntouched(row, now) ==
    now > row.expiresAt \/ now > row.expiresAt - AbsoluteTTL + IdleTTL

\* resolveSession's judgement of a row it has read.
Expired(row, now) == now > row.expiresAt \/ now > row.lastSeenAt + IdleTTL

\* Mutant of TouchSession: an upsert, which brings a deleted row back.
TouchUpserts(token, row, at) == sessions' = Insert(sessions, token, [row EXCEPT !.lastSeenAt = at])

\* UPDATE ... WHERE id: no row, no effect; the time set may be an old one.
TouchSession(token, row, at) ==
    sessions' = [t \in DOMAIN sessions |->
                    IF t = token THEN [sessions[t] EXCEPT !.lastSeenAt = at] ELSE sessions[t]]

DeleteSession(token) == sessions' = Delete(sessions, token)

SessionsTypeOK ==
    /\ DOMAIN sessions \subseteq Tokens
    /\ sessions \in [DOMAIN sessions -> SessionRow]
    /\ clock \in 0 .. MaxTime
=============================================================================
