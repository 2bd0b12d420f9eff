--------------------------- MODULE Configuration ---------------------------
(***************************************************************************)
(* Tenant configuration and the tenant directory: the tenancy service and  *)
(* its routes over the tenants, tenant_config and categories tables.  A    *)
(* handler runs for the tenant its request resolved to; each query is a    *)
(* step, so handlers interleave with each other and with a system reset.   *)
(***************************************************************************)
EXTENDS Seeds, Integers

CONSTANTS
    Handlers,    \* requests in flight at once
    Settings,    \* [key, value] a tenant admin may ask for
    NewTenants,  \* [name, subdomain] a super_admin may ask for
    MaxDrawn     \* bound: tenant ids drawn

VARIABLES
    db,       \* the schema's tables, or Dropped
    handler,  \* [Handlers -> request in service]
    lost      \* the parameters of which the newest event was never inserted

\* Not a schema: every query throws.
Dropped == [drawn |-> 0]
Exists  == "tenants" \in DOMAIN db

Ids(d) == {d.tenants[s].id : s \in DOMAIN d.tenants}

\* CONFIG_KEYS; the quota is a column of the tenant, not a parameter row.
Specs ==
    [max_file_size_mb          |-> [default |-> 20, min |-> 1, max |-> 200, editable |-> TRUE],
     pending_confirmation_days |-> [default |-> 7, min |-> 1, max |-> 90, editable |-> TRUE],
     storage_quota_gb          |-> [default |-> 50, min |-> 1, max |-> 10000, editable |-> FALSE]]

\* findConfigValue
StoredValue(d, id, key) == IF <<id, key>> \in DOMAIN d.config THEN {d.config[<<id, key>>].value} ELSE {}

\* getConfigValue
ConfigValue(d, id, key) ==
    IF StoredValue(d, id, key) = {} THEN Specs[key].default ELSE CHOOSE v \in StoredValue(d, id, key) : TRUE

\* buildConfigParameters over fetchConfigEntries, for a quota in GB.
ConfigParameters(d, id, quotaGb) ==
    [key \in DOMAIN Specs |->
        IF key = "storage_quota_gb"
        THEN [value |-> quotaGb, isDefault |-> quotaGb = Specs[key].default, by |-> "nobody"]
        ELSE IF <<id, key>> \in DOMAIN d.config
             THEN [value |-> d.config[<<id, key>>].value, isDefault |-> FALSE, by |-> d.config[<<id, key>>].by]
             ELSE [value |-> Specs[key].default, isDefault |-> TRUE, by |-> "nobody"]]

\* getQuotaUsage and listTenants: the level shown for `used` of `quota`, and the
\* percentage in the super_admin's list.
StoragePercent(used, quota) ==
    IF quota <= 0 THEN IF used > 0 THEN 100 ELSE 0 ELSE (used * 100) \div quota
StorageLevel(used, quota) ==
    CASE StoragePercent(used, quota) >= 100 -> "full"
      [] StoragePercent(used, quota) \in 90 .. 99 -> "warning"
      [] OTHER -> "ok"
ListedPercent(used, quota) == IF quota = 0 THEN 0 ELSE (used * 100) \div quota

Free == [pc |-> "free"]
At(h, pc) == handler[h].pc = pc
Finish(h) == handler' = [handler EXCEPT ![h] = Free]

\* setConfigValue's refusals: not editable, not an integer in range.
Accepts(key, value) == Specs[key].editable /\ value \in Specs[key].min .. Specs[key].max

\* The seeds set parameters that exist, to values an admin could set them to.
ASSUME SeededConfigAssumption ==
    \A seed \in {DevTenant, QaTenantB} : \A key \in DOMAIN seed.config :
        key \in DOMAIN Specs /\ Accepts(key, seed.config[key])
ASSUME SettingsAssumption == \A ask \in Settings : ask.key \in DOMAIN Specs

\* setConfigValue, up to its read of the previous value.
BeginSet(h, id, key, value) ==
    /\ At(h, "free") /\ Exists /\ id \in Ids(db) /\ Accepts(key, value)
    /\ handler' = [handler EXCEPT ![h] =
          [pc |-> "upsert", id |-> id, key |-> key, value |-> value, previous |-> ConfigValue(db, id, key)]]
    /\ UNCHANGED <<db, lost>>

\* upsertConfigValue.  The foreign key refuses a tenant that is gone.
UpsertConfigValue(h) ==
    /\ At(h, "upsert")
    /\ LET r == handler[h] IN
       \/ /\ ~(Exists /\ r.id \in Ids(db))
          /\ Finish(h) /\ UNCHANGED <<db, lost>>
       \/ /\ Exists /\ r.id \in Ids(db)
          /\ db' = [db EXCEPT !.config = Insert(@, <<r.id, r.key>>, [value |-> r.value, by |-> "admin"])]
          /\ handler' = [handler EXCEPT ![h].pc = "reread"]
          /\ lost' = lost \ {<<r.id, r.key>>}

\* findConfigRow: the row must still be there; setConfigValue throws otherwise.
RereadConfigRow(h) ==
    /\ At(h, "reread")
    /\ \/ /\ Exists /\ <<handler[h].id, handler[h].key>> \in DOMAIN db.config
          /\ handler' = [handler EXCEPT ![h].pc = "record"]
       \/ /\ Exists => <<handler[h].id, handler[h].key>> \notin DOMAIN db.config
          /\ Finish(h)
    /\ UNCHANGED <<db, lost>>

\* resetConfigValue: the row goes; the event names no previous value.
ResetConfigValue(h, id, key) ==
    /\ At(h, "free") /\ Exists /\ id \in Ids(db) /\ Specs[key].editable
    /\ db' = [db EXCEPT !.config = Delete(@, <<id, key>>)]
    /\ handler' = [handler EXCEPT ![h] =
          [pc |-> "record", id |-> id, key |-> key, value |-> Specs[key].default, previous |-> 0]]
    /\ lost' = lost \ {<<id, key>>}

Event(r) == [id |-> r.id, key |-> r.key, value |-> r.value]

\* Mutant of RecordChange: the event keeps the value that was replaced.
RecordPrevious(h) ==
    /\ At(h, "record") /\ Exists
    /\ db' = [db EXCEPT !.audit = @ \cup {[Event(handler[h]) EXCEPT !.value = handler[h].previous]}]
    /\ UNCHANGED lost /\ Finish(h)

\* The config.change event.  record() swallows a failing insert, and the process
\* may end before it.
RecordChange(h) ==
    /\ At(h, "record")
    /\ \/ /\ Exists
          /\ db' = [db EXCEPT !.audit = @ \cup {Event(handler[h])}]
          /\ UNCHANGED lost
       \/ /\ lost' = lost \cup {<<handler[h].id, handler[h].key>>}
          /\ UNCHANGED db
    /\ Finish(h)

\* Mutant of CreateTenant: the category's permission is left to its first edit.
CreateTenantBare(new) ==
    /\ Exists /\ db.drawn < MaxDrawn
    /\ ~NameTaken(db, new.name) /\ ~SubdomainTaken(db, new.subdomain)
    /\ db' = [db EXCEPT !.tenants = Insert(@, new.subdomain, [id |-> db.drawn + 1, name |-> new.name]),
                        !.drawn = @ + 1,
                        !.categories = Insert(@, <<db.drawn + 1, "Uncategorized">>, TRUE)]
    /\ UNCHANGED <<handler, lost>>

\* createTenant: tenant, reserved category and permission in one transaction;
\* a taken name or subdomain rolls it back.
CreateTenant(new) ==
    /\ Exists /\ db.drawn < MaxDrawn
    /\ ~NameTaken(db, new.name) /\ ~SubdomainTaken(db, new.subdomain)
    /\ LET id == db.drawn + 1 IN
       db' = [db EXCEPT !.tenants = Insert(@, new.subdomain, [id |-> id, name |-> new.name]),
                        !.drawn = id,
                        !.categories = Insert(@, <<id, "Uncategorized">>, TRUE),
                        !.permissions = Insert(@, <<id, "Uncategorized">>, FALSE)]
    /\ UNCHANGED <<handler, lost>>

Request(h) ==
    \/ \E id \in 1 .. MaxDrawn, ask \in Settings :
          ResetConfigValue(h, id, ask.key) \/ BeginSet(h, id, ask.key, ask.value)
    \/ UpsertConfigValue(h) \/ RereadConfigRow(h) \/ RecordChange(h)
=============================================================================
