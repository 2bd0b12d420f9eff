--------------------------- MODULE Administration ---------------------------
(***************************************************************************)
(* Operating the system while it is used: system resets by the replicas of *)
(* the API, seed and migration scripts, tenant creation, configuration and *)
(* uploads, over the same stores, and a database replaced under them.      *)
(***************************************************************************)
EXTENDS SystemReset

vars == <<stores, handler, lost, job, started>>

\* The database is bare, or migrated and unseeded.
Init ==
    /\ \/ db = Dropped /\ journal = FALSE
       \/ db = Migrated(0) /\ journal = TRUE
    /\ stored = {} /\ index = "absent" /\ queue = FALSE
    /\ handler = [h \in Handlers |-> Free] /\ lost = {}
    /\ job = [p \in Replicas |-> NoJob] /\ started = 0

\* Whoever writes while a reset runs.
Noticed == job' = IF stores' = stores THEN job
                  ELSE [p \in Replicas |-> IF Running(p) THEN [job[p] EXCEPT !.alone = FALSE] ELSE job[p]]

Administer ==
    /\ \/ \E h \in Handlers : Request(h)
       \/ \E new \in NewTenants : CreateTenant(new)
    /\ UNCHANGED <<journal, stored, index, queue, started>>
    /\ Noticed

\* bun run db:seed:dev, or a transaction of db:seed:qa, which begins with dev's.
SeedScript(seed) ==
    /\ Exists /\ (seed = DevTenant \/ SubdomainTaken(db, DevTenant.subdomain))
    /\ ~SeedThrows(db, seed) /\ TenantId(db, seed) <= MaxDrawn
    /\ db' = SeedTenant(db, seed)
    /\ UNCHANGED <<journal, stored, index, queue, handler, lost, started>>
    /\ Noticed

\* bun run db:migrate: what the ledger does not list is applied.
MigrateScript ==
    /\ db' = IF journal THEN db ELSE Migrated(db.drawn)
    /\ journal' = TRUE
    /\ UNCHANGED <<stored, index, queue, handler, lost, started>>
    /\ Noticed

\* While no reset runs, the operator gives a system whose schema is dropped an
\* empty database without the ledger, the one way on from there.  The other
\* stores keep what they hold.
EmptyDatabase ==
    /\ ~Exists /\ \A p \in Replicas : ~Running(p)
    /\ db' = [drawn |-> db.drawn] /\ journal' = FALSE
    /\ UNCHANGED <<stored, index, queue, handler, lost, started>>
    /\ Noticed

\* An upload is accepted, processed and indexed.
Upload(b) ==
    /\ Exists /\ b \notin stored
    /\ stored' = stored \cup {b}
    /\ queue' = TRUE
    /\ index' = "used"
    /\ UNCHANGED <<db, journal, handler, lost, started>>
    /\ Noticed

Next ==
    \/ \E p \in Replicas : ResetStep(p) /\ UNCHANGED <<handler, lost>>
    \/ Administer
    \/ \E seed \in {DevTenant, QaTenantB} : SeedScript(seed)
    \/ \E b \in Blobs : Upload(b)
    \/ MigrateScript \/ EmptyDatabase

Spec == Init /\ [][Next]_vars
-----------------------------------------------------------------------------
\* Every committed state of the schema is whole: ids and names are no two
\* tenants', each tenant has its reserved Uncategorized category, each category
\* the permission row a download is decided by, and whatever belongs to a
\* tenant refers to rows of that same tenant (createTenant, the seeds).
TenantsAreWhole ==
    Exists =>
        /\ \A s, t \in DOMAIN db.tenants : s # t =>
              db.tenants[s].id # db.tenants[t].id /\ db.tenants[s].name # db.tenants[t].name
        /\ \A id \in Ids(db) : <<id, "Uncategorized">> \in DOMAIN db.categories
        /\ DOMAIN db.categories = DOMAIN db.permissions
        /\ \A k \in DOMAIN db.categories \cup DOMAIN db.config : k[1] \in Ids(db)
        /\ \A d \in DOMAIN db.documents :
              /\ db.documents[d].current \in DOMAIN db.versions
              /\ db.users[db.documents[d].uploader].tenant = db.documents[d].tenant
              /\ d \in DOMAIN db.enriched => /\ db.enriched[d].category \in DOMAIN db.categories
                                             /\ db.enriched[d].category[1] = db.documents[d].tenant

\* A reset that has succeeded, and during which nobody else wrote, leaves the
\* seed and nothing more: no older row, queued job, index entry, or object unless
\* the store held more than a page of them.
SucceededResetIsFresh ==
    [][\A p \in Replicas :
          Running(p) /\ job'[p].status = "succeeded" /\ job[p].alone =>
             /\ db' = [Seeded(Migrated(db.drawn - Len(Transactions(job[p].seed))), job[p].seed)
                       EXCEPT !.drawn = db.drawn]
             /\ ~queue' /\ index' = "empty"
             /\ stored' = {} \/ job[p].full]_vars

\* By the time a reset that nobody disturbs comes to its seed, the migrations have
\* made the schema the seed is written to (10-system.md 10.4).
MigratedBeforeSeeding ==
    \A p \in Replicas : Stage(p, "seed") /\ job[p].alone => Exists

\* A seed may be run on whatever is there, another tenant's claim to its name
\* apart: it completes what an interrupted run began, and a second run changes
\* nothing (seedDev, seedQa, 06-data-model.md 6.11).
SeedsComplete ==
    Exists => \A name \in Seeding :
        (\A i \in 1 .. Len(Transactions(name)) : ~SeedThrows(db, Transactions(name)[i])) =>
            LET once == Seeded(db, name) IN
            /\ Seeded(once, name) = once
            /\ \A i \in 1 .. Len(Transactions(name)) :
                  LET seed == Transactions(name)[i] IN
                  \A key \in DOMAIN seed.documents :
                      once.documents[SeedId(seed, key)].tenant = once.tenants[seed.subdomain].id

\* Whatever a tenant's parameter is set to is in its range, and is the seed's,
\* or told by an event of the ledger or one still to come, unless the newest
\* event was lost; the table of parameters shows what is in force (setConfigValue).
ConfigIsAccountedFor ==
    Exists => \A k \in DOMAIN db.config :
        LET told == [id |-> k[1], key |-> k[2], value |-> db.config[k].value] IN
        /\ Accepts(k[2], told.value)
        /\ \/ \E seed \in {DevTenant, QaTenantB} :
                 k[2] \in DOMAIN seed.config /\ told.value = seed.config[k[2]]
           \/ told \in db.audit \/ k \in lost
           \/ \E h \in Handlers : handler[h].pc \in {"reread", "record"} /\ Event(handler[h]) = told
        /\ ConfigParameters(db, k[1], 50)[k[2]].value = ConfigValue(db, k[1], k[2])
=============================================================================
