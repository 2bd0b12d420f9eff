------------------------ MODULE AdministrationProofs --------------------------
(***************************************************************************)
(* Theorems about resetting, seeding and configuring the system while it   *)
(* is used, for any number of replicas, requests, tenants and objects and  *)
(* for any two seeds that fit together.                                    *)
(*                                                                         *)
(* The invariant has five parts.  Whole: a schema, if there is one, is one *)
(* that committed transactions make.  Requests and Runners: the records of *)
(* handlers and jobs.  Parameters: what is in force was seeded, or has its *)
(* event recorded, lost or still to come.  Lonely: of a reset that nobody  *)
(* else disturbs, the stores are as the stages it has passed left them.    *)
(***************************************************************************)
EXTENDS Administration, FiniteSetTheorems, TLAPS

-----------------------------------------------------------------------------
(* What a seed writes. *)

\* The tables of a schema.
IsSchema(d) ==
    d = [tenants |-> d.tenants, users |-> d.users, config |-> d.config,
         categories |-> d.categories, permissions |-> d.permissions, documents |-> d.documents,
         versions |-> d.versions, enriched |-> d.enriched, sessions |-> d.sessions,
         audit |-> d.audit, drawn |-> d.drawn]

\* The rows a seed writes, for a tenant of id t.
OwnRows(seed, t, row) == [k \in {t} \X DOMAIN seed.downloads |-> row[k[2]]]
UserRows(seed, t) ==
    [u \in DOMAIN seed.users |->
        [role |-> seed.users[u], tenant |-> IF seed.users[u] = "super_admin" THEN 0 ELSE t]]
ConfigRows(seed, t) ==
    [k \in {t} \X DOMAIN seed.config |-> [value |-> seed.config[k[2]], by |-> seed.admin]]
SystemColumn(seed) == [c \in DOMAIN seed.downloads |-> c \in seed.system]
SeedIds(seed) == {SeedId(seed, key) : key \in DOMAIN seed.documents}
DocumentRows(d, seed, t) ==
    [id \in SeedIds(seed) |->
        [tenant   |-> IF id \in DOMAIN d.documents THEN d.documents[id].tenant ELSE t,
         uploader |-> IF id \in DOMAIN d.documents THEN d.documents[id].uploader
                      ELSE seed.documents[id[2]].uploader,
         state    |-> seed.documents[id[2]].state,
         current  |-> <<id, seed.documents[id[2]].versions>>]]
VersionRows(seed) == [v \in VersionIds(seed) |-> seed.documents[v[1][2]].state # "queued"]
ReadIds(seed) == {id \in SeedIds(seed) : seed.documents[id[2]].pages > 0}
EnrichedRows(seed, t) ==
    [id \in ReadIds(seed) |->
        [category |-> <<t, seed.documents[id[2]].category>>, confirmed |-> seed.documents[id[2]].confirmed,
         tags |-> seed.documents[id[2]].tags, pages |-> seed.documents[id[2]].pages]]
SessionRows(seed) == [u \in seed.sessions |-> u]

\* A schema has eleven columns, and any function on them is one.
Columns == {"tenants", "users", "config", "categories", "permissions", "documents",
            "versions", "enriched", "sessions", "audit", "drawn"}

\* A schema is a function on its columns.
LEMMA ColumnsOf ==
    ASSUME NEW d, IsSchema(d)
    PROVE  DOMAIN d = Columns /\ d = [c \in Columns |-> d[c]]
<1>1. PICK a, b, c, e, f, g, h, i, j, k, l :
        d = [tenants |-> a, users |-> b, config |-> c, categories |-> e, permissions |-> f,
             documents |-> g, versions |-> h, enriched |-> i, sessions |-> j, audit |-> k, drawn |-> l]
  BY Zenon DEF IsSchema
<1> QED
  BY <1>1 DEF Columns

\* A function on the columns is a schema.
LEMMA OfColumns ==
    ASSUME NEW d, DOMAIN d = Columns, d = [c \in DOMAIN d |-> d[c]]
    PROVE  IsSchema(d)
<1>1. PICK r : r = [tenants |-> d.tenants, users |-> d.users, config |-> d.config,
                    categories |-> d.categories, permissions |-> d.permissions, documents |-> d.documents,
                    versions |-> d.versions, enriched |-> d.enriched, sessions |-> d.sessions,
                    audit |-> d.audit, drawn |-> d.drawn]
  BY Zenon
<1>2. DOMAIN r = Columns /\ r = [c \in Columns |-> r[c]] /\ \A c \in Columns : r[c] = d[c]
  BY <1>1 DEF Columns
<1>3. r = d
  BY <1>2
<1> QED
  BY <1>1, <1>3, Zenon DEF IsSchema

\* An update of columns leaves a schema a schema.
LEMMA SameColumns ==
    ASSUME NEW d, IsSchema(d), NEW e, DOMAIN e = DOMAIN d, e = [c \in DOMAIN e |-> e[c]]
    PROVE  IsSchema(e)
BY ColumnsOf, OfColumns

\* What writeTenancy makes of every table, and of the ids drawn.
LEMMA TenancyRows ==
    ASSUME NEW d, IsSchema(d), NEW seed, NEW t, t = TenantId(d, seed)
    PROVE  WriteTenancy(d, seed) =
             [tenants |-> Insert(d.tenants, seed.subdomain, [id |-> t, name |-> seed.name]),
              users |-> Upsert(d.users, UserRows(seed, t)),
              config |-> Upsert(d.config, ConfigRows(seed, t)),
              categories |-> Upsert(d.categories, OwnRows(seed, t, SystemColumn(seed))),
              permissions |-> Upsert(d.permissions, OwnRows(seed, t, seed.downloads)),
              documents |-> d.documents, versions |-> d.versions, enriched |-> d.enriched,
              sessions |-> d.sessions, audit |-> d.audit, drawn |-> IF t > d.drawn THEN t ELSE d.drawn]
<1> DEFINE own(row) == [k \in {t} \X DOMAIN seed.downloads |-> row[k[2]]]
<1>1. WriteTenancy(d, seed) =
        [d EXCEPT !.tenants = Insert(d.tenants, seed.subdomain, [id |-> t, name |-> seed.name]),
                   !.drawn = IF t > d.drawn THEN t ELSE d.drawn,
                   !.users = Upsert(d.users, UserRows(seed, t)),
                   !.config = Upsert(d.config, ConfigRows(seed, t)),
                   !.categories = Upsert(d.categories, OwnRows(seed, t, SystemColumn(seed))),
                   !.permissions = Upsert(d.permissions, OwnRows(seed, t, seed.downloads))]
  BY Zenon DEF WriteTenancy, UserRows, ConfigRows, OwnRows, SystemColumn
<1>2. PICK tn, us, cf, ca, pe, dr :
        /\ tn = Insert(d.tenants, seed.subdomain, [id |-> t, name |-> seed.name])
        /\ us = Upsert(d.users, UserRows(seed, t))
        /\ cf = Upsert(d.config, ConfigRows(seed, t))
        /\ ca = Upsert(d.categories, OwnRows(seed, t, SystemColumn(seed)))
        /\ pe = Upsert(d.permissions, OwnRows(seed, t, seed.downloads))
        /\ dr = IF t > d.drawn THEN t ELSE d.drawn
  BY Zenon
<1>3. PICK e : e = [d EXCEPT !.tenants = tn, !.drawn = dr, !.users = us, !.config = cf,
                             !.categories = ca, !.permissions = pe]
  BY Zenon
<1>4. IsSchema(e)
  BY <1>3, SameColumns
<1>5. /\ e.tenants = tn /\ e.drawn = dr /\ e.users = us /\ e.config = cf
      /\ e.categories = ca /\ e.permissions = pe
      /\ e.documents = d.documents /\ e.versions = d.versions /\ e.enriched = d.enriched
      /\ e.sessions = d.sessions /\ e.audit = d.audit
  BY <1>3, ColumnsOf
<1>6. e = [tenants |-> tn, users |-> us, config |-> cf, categories |-> ca, permissions |-> pe,
           documents |-> d.documents, versions |-> d.versions, enriched |-> d.enriched,
           sessions |-> d.sessions, audit |-> d.audit, drawn |-> dr]
  BY <1>4, <1>5, Zenon DEF IsSchema
<1> QED
  BY <1>1, <1>2, <1>3, <1>6, Zenon

\* What writeDocuments makes of every table.
LEMMA DocumentsRows ==
    ASSUME NEW d, IsSchema(d), NEW seed, NEW t, t = TenantId(d, seed)
    PROVE  WriteDocuments(d, seed) =
             [tenants |-> d.tenants, users |-> d.users, config |-> d.config,
              categories |-> d.categories, permissions |-> d.permissions,
              documents |-> Upsert(d.documents, DocumentRows(d, seed, t)),
              versions |-> Upsert(d.versions, VersionRows(seed)), enriched |-> d.enriched,
              sessions |-> d.sessions, audit |-> d.audit, drawn |-> d.drawn]
<1> DEFINE of(id) == seed.documents[id[2]]
           old(id) == IF id \in DOMAIN d.documents THEN d.documents[id]
                      ELSE [tenant |-> t, uploader |-> of(id).uploader]
           rows == [id \in SeedIds(seed) |-> [tenant |-> old(id).tenant, uploader |-> old(id).uploader,
                        state |-> of(id).state, current |-> <<id, of(id).versions>>]]
<1>1. rows = DocumentRows(d, seed, t)
  <2>1. \A id : old(id).tenant = IF id \in DOMAIN d.documents THEN d.documents[id].tenant ELSE t
    OBVIOUS
  <2>2. \A id : old(id).uploader = IF id \in DOMAIN d.documents THEN d.documents[id].uploader
                                   ELSE of(id).uploader
    OBVIOUS
  <2> HIDE DEF old
  <2> QED
    BY <2>1, <2>2, Zenon DEF DocumentRows
<1>2. WriteDocuments(d, seed) = [d EXCEPT !.documents = Upsert(d.documents, rows),
                                           !.versions = Upsert(d.versions, VersionRows(seed))]
  BY Zenon DEF WriteDocuments, VersionRows, SeedIds
<1>3. PICK ds, vs : ds = Upsert(d.documents, DocumentRows(d, seed, t)) /\ vs = Upsert(d.versions, VersionRows(seed))
  BY Zenon
<1>4. PICK e : e = [d EXCEPT !.documents = ds, !.versions = vs]
  BY Zenon
<1>5. IsSchema(e)
  BY <1>4, SameColumns
<1>6. /\ e.documents = ds /\ e.versions = vs /\ e.tenants = d.tenants /\ e.users = d.users
      /\ e.config = d.config /\ e.categories = d.categories /\ e.permissions = d.permissions
      /\ e.enriched = d.enriched /\ e.sessions = d.sessions /\ e.audit = d.audit /\ e.drawn = d.drawn
  BY <1>4, ColumnsOf
<1>7. e = [tenants |-> d.tenants, users |-> d.users, config |-> d.config,
           categories |-> d.categories, permissions |-> d.permissions, documents |-> ds,
           versions |-> vs, enriched |-> d.enriched, sessions |-> d.sessions,
           audit |-> d.audit, drawn |-> d.drawn]
  BY <1>5, <1>6, Zenon DEF IsSchema
<1> HIDE DEF rows
<1> QED
  BY <1>1, <1>2, <1>3, <1>4, <1>7, Zenon

\* What the last two writers of a seed make of every table.
LEMMA EnrichmentRows ==
    ASSUME NEW d, IsSchema(d), NEW seed, NEW t, t = TenantId(d, seed)
    PROVE  WriteSessions(WriteEnrichment(d, seed), seed) =
             [tenants |-> d.tenants, users |-> d.users, config |-> d.config,
              categories |-> d.categories, permissions |-> d.permissions,
              documents |-> d.documents, versions |-> d.versions,
              enriched |-> Upsert(d.enriched, EnrichedRows(seed, t)),
              sessions |-> Upsert(d.sessions, SessionRows(seed)), audit |-> d.audit, drawn |-> d.drawn]
<1>1. WriteEnrichment(d, seed) = [d EXCEPT !.enriched = Upsert(d.enriched, EnrichedRows(seed, t))]
  BY Zenon DEF WriteEnrichment, EnrichedRows, ReadIds, SeedIds
<1>2. PICK en, ss : en = Upsert(d.enriched, EnrichedRows(seed, t)) /\ ss = Upsert(d.sessions, SessionRows(seed))
  BY Zenon
<1>3. PICK e : e = WriteEnrichment(d, seed)
  BY Zenon
<1>4. e = [d EXCEPT !.enriched = en]
  BY <1>1, <1>2, <1>3, Zenon
<1>5. e.sessions = d.sessions
  BY <1>4, ColumnsOf
<1>6. WriteSessions(e, seed) = [e EXCEPT !.sessions = Upsert(d.sessions, SessionRows(seed))]
  BY <1>5, Zenon DEF WriteSessions, SessionRows
<1>7. PICK f : f = WriteSessions(e, seed) /\ f = [e EXCEPT !.sessions = ss]
  BY <1>2, <1>6, Zenon
<1>8. IsSchema(e) /\ IsSchema(f)
  BY <1>4, <1>7, SameColumns
<1>9. /\ f.documents = d.documents /\ f.versions = d.versions /\ f.tenants = d.tenants /\ f.users = d.users
      /\ f.config = d.config /\ f.categories = d.categories /\ f.permissions = d.permissions
      /\ f.enriched = en /\ f.sessions = ss /\ f.audit = d.audit /\ f.drawn = d.drawn
  <2>1. /\ e.documents = d.documents /\ e.versions = d.versions /\ e.tenants = d.tenants /\ e.users = d.users
        /\ e.config = d.config /\ e.categories = d.categories /\ e.permissions = d.permissions
        /\ e.enriched = en /\ e.audit = d.audit /\ e.drawn = d.drawn
    BY <1>4, ColumnsOf
  <2>2. DOMAIN e = Columns
    BY <1>8, ColumnsOf
  <2>3. f = [e EXCEPT !.sessions = ss]
    BY <1>7
  <2>4. /\ f.documents = e.documents /\ f.versions = e.versions /\ f.tenants = e.tenants /\ f.users = e.users
        /\ f.config = e.config /\ f.categories = e.categories /\ f.permissions = e.permissions
        /\ f.enriched = e.enriched /\ f.sessions = ss /\ f.audit = e.audit /\ f.drawn = e.drawn
    BY <2>2, <2>3 DEF Columns
  <2> QED
    BY <2>1, <2>4, Zenon
<1>10. f = [tenants |-> d.tenants, users |-> d.users, config |-> d.config,
            categories |-> d.categories, permissions |-> d.permissions, documents |-> d.documents,
            versions |-> d.versions, enriched |-> en, sessions |-> ss,
            audit |-> d.audit, drawn |-> d.drawn]
  BY <1>8, <1>9, Zenon DEF IsSchema
<1> QED
  BY <1>2, <1>3, <1>7, <1>10, Zenon

\* What a seed's transaction makes of every table.
LEMMA SeedRows ==
    ASSUME NEW d, IsSchema(d), NEW seed, NEW t, t = TenantId(d, seed)
    PROVE  SeedTenant(d, seed) =
             [tenants |-> Insert(d.tenants, seed.subdomain, [id |-> t, name |-> seed.name]),
              users |-> Upsert(d.users, UserRows(seed, t)),
              config |-> Upsert(d.config, ConfigRows(seed, t)),
              categories |-> Upsert(d.categories, OwnRows(seed, t, SystemColumn(seed))),
              permissions |-> Upsert(d.permissions, OwnRows(seed, t, seed.downloads)),
              documents |-> Upsert(d.documents, DocumentRows(d, seed, t)),
              versions |-> Upsert(d.versions, VersionRows(seed)),
              enriched |-> Upsert(d.enriched, EnrichedRows(seed, t)),
              sessions |-> Upsert(d.sessions, SessionRows(seed)),
              audit |-> d.audit, drawn |-> IF t > d.drawn THEN t ELSE d.drawn]
<1>1. PICK w : w = WriteTenancy(d, seed)
  BY Zenon
<1>2. PICK x : x = WriteDocuments(w, seed)
  BY Zenon
<1>3. PICK tn, us, cf, ca, pe, dr :
        /\ tn = Insert(d.tenants, seed.subdomain, [id |-> t, name |-> seed.name])
        /\ us = Upsert(d.users, UserRows(seed, t))
        /\ cf = Upsert(d.config, ConfigRows(seed, t))
        /\ ca = Upsert(d.categories, OwnRows(seed, t, SystemColumn(seed)))
        /\ pe = Upsert(d.permissions, OwnRows(seed, t, seed.downloads))
        /\ dr = IF t > d.drawn THEN t ELSE d.drawn
  BY Zenon
<1>4. w = [tenants |-> tn, users |-> us, config |-> cf, categories |-> ca, permissions |-> pe,
           documents |-> d.documents, versions |-> d.versions, enriched |-> d.enriched,
           sessions |-> d.sessions, audit |-> d.audit, drawn |-> dr]
  BY <1>1, <1>3, TenancyRows, Zenon
<1>5. /\ IsSchema(w) /\ w.tenants = tn /\ w.users = us /\ w.config = cf /\ w.categories = ca
      /\ w.permissions = pe /\ w.documents = d.documents /\ w.versions = d.versions
      /\ w.enriched = d.enriched /\ w.sessions = d.sessions /\ w.audit = d.audit /\ w.drawn = dr
  BY <1>4 DEF IsSchema
<1>6. TenantId(w, seed) = t
  <2>1. seed.subdomain \in DOMAIN tn /\ tn[seed.subdomain].id = t
    BY <1>3 DEF Insert
  <2> QED
    BY <2>1, <1>5 DEF TenantId, SubdomainTaken
<1>7. DocumentRows(w, seed, t) = DocumentRows(d, seed, t)
  BY <1>5, Zenon DEF DocumentRows
<1>8. PICK ds, vs : /\ ds = Upsert(d.documents, DocumentRows(d, seed, t))
                    /\ vs = Upsert(d.versions, VersionRows(seed))
  BY Zenon
<1>9. x = [tenants |-> tn, users |-> us, config |-> cf, categories |-> ca, permissions |-> pe,
           documents |-> ds, versions |-> vs, enriched |-> d.enriched,
           sessions |-> d.sessions, audit |-> d.audit, drawn |-> dr]
  BY <1>2, <1>5, <1>6, <1>7, <1>8, DocumentsRows, Zenon
<1>10. /\ IsSchema(x) /\ x.tenants = tn /\ x.users = us /\ x.config = cf /\ x.categories = ca
       /\ x.permissions = pe /\ x.documents = ds /\ x.versions = vs
       /\ x.enriched = d.enriched /\ x.sessions = d.sessions /\ x.audit = d.audit /\ x.drawn = dr
  BY <1>9 DEF IsSchema
<1>11. TenantId(x, seed) = t
  <2>1. seed.subdomain \in DOMAIN tn /\ tn[seed.subdomain].id = t
    BY <1>3 DEF Insert
  <2> QED
    BY <2>1, <1>10 DEF TenantId, SubdomainTaken
<1>12. SeedTenant(d, seed) = WriteSessions(WriteEnrichment(x, seed), seed)
  BY <1>1, <1>2, Zenon DEF SeedTenant
<1>13. SeedTenant(d, seed) =
         [tenants |-> tn, users |-> us, config |-> cf, categories |-> ca, permissions |-> pe,
          documents |-> ds, versions |-> vs, enriched |-> Upsert(d.enriched, EnrichedRows(seed, t)),
          sessions |-> Upsert(d.sessions, SessionRows(seed)), audit |-> d.audit, drawn |-> dr]
  BY <1>10, <1>11, <1>12, EnrichmentRows, Zenon
<1> QED
  BY <1>3, <1>8, <1>13, Zenon

-----------------------------------------------------------------------------
(* The schema. *)

\* Ids are drawn once, names are no two tenants'.
Tenancy(d) ==
    /\ \A s \in DOMAIN d.tenants : d.tenants[s].id \in 1 .. d.drawn
    /\ \A s, t \in DOMAIN d.tenants : s # t =>
          d.tenants[s].id # d.tenants[t].id /\ d.tenants[s].name # d.tenants[t].name
\* Every category has a tenant and a permission row, every tenant its reserved category.
Vocabulary(d) ==
    /\ \A id \in Ids(d) : <<id, "Uncategorized">> \in DOMAIN d.categories
    /\ DOMAIN d.categories = DOMAIN d.permissions
    /\ \A k \in DOMAIN d.categories \cup DOMAIN d.config : k[1] \in Ids(d)

\* The rows of a seed that are there, as the seed has them.
SeedUsers(d, seed) ==
    \A u \in DOMAIN seed.users \cap DOMAIN d.users :
        seed.users[u] # "super_admin" =>
            seed.subdomain \in DOMAIN d.tenants /\ d.users[u].tenant = d.tenants[seed.subdomain].id
SeedDocument(d, seed, key) ==
    LET id == SeedId(seed, key) IN
    /\ seed.subdomain \in DOMAIN d.tenants
    /\ d.documents[id].tenant = d.tenants[seed.subdomain].id
    /\ d.documents[id].uploader = seed.documents[key].uploader
    /\ d.documents[id].uploader \in DOMAIN d.users
    /\ d.documents[id].current \in DOMAIN d.versions
SeedEnrichment(d, seed, key) ==
    LET id == SeedId(seed, key) IN
    /\ seed.subdomain \in DOMAIN d.tenants
    /\ d.enriched[id].category = <<d.tenants[seed.subdomain].id, seed.documents[key].category>>
    /\ d.enriched[id].category \in DOMAIN d.categories
OfSeed(d, seed) ==
    /\ SeedUsers(d, seed)
    /\ \A key \in DOMAIN seed.documents :
          /\ SeedId(seed, key) \in DOMAIN d.documents => SeedDocument(d, seed, key)
          /\ SeedId(seed, key) \in DOMAIN d.enriched => SeedEnrichment(d, seed, key)
\* A whole schema: what the properties say of it, and which documents it can hold.
Schema(d) ==
    /\ IsSchema(d) /\ d.drawn \in Nat /\ Tenancy(d) /\ Vocabulary(d)
    /\ OfSeed(d, DevTenant) /\ OfSeed(d, QaTenantB)
    /\ DOMAIN d.documents \subseteq SeedIds(DevTenant) \cup SeedIds(QaTenantB)

\* Rows that were there and their tenants are there still.
Grows(d, e) ==
    /\ \A s \in DOMAIN d.tenants : s \in DOMAIN e.tenants /\ e.tenants[s].id = d.tenants[s].id
    /\ DOMAIN d.users \subseteq DOMAIN e.users
    /\ DOMAIN d.versions \subseteq DOMAIN e.versions
    /\ DOMAIN d.categories \subseteq DOMAIN e.categories
\* None of a seed's rows is among those that are new or changed.
Spares(d, e, seed) ==
    /\ \A u \in DOMAIN seed.users \cap DOMAIN e.users : u \in DOMAIN d.users /\ e.users[u] = d.users[u]
    /\ \A id \in SeedIds(seed) :
          /\ id \in DOMAIN e.documents => id \in DOMAIN d.documents /\ e.documents[id] = d.documents[id]
          /\ id \in DOMAIN e.enriched => id \in DOMAIN d.enriched /\ e.enriched[id] = d.enriched[id]

\* Whatever spares the rows of a seed leaves them as the seed has them.
LEMMA SparedSeed ==
    ASSUME NEW d, NEW e, NEW seed, OfSeed(d, seed), Grows(d, e), Spares(d, e, seed)
    PROVE  OfSeed(e, seed)
<1>1. SeedUsers(e, seed)
  BY DEF SeedUsers, OfSeed, Grows, Spares
<1>2. ASSUME NEW key \in DOMAIN seed.documents, SeedId(seed, key) \in DOMAIN e.documents
      PROVE  SeedDocument(e, seed, key)
  <2>1. SeedId(seed, key) \in SeedIds(seed)
    BY DEF SeedIds
  <2>2. SeedDocument(d, seed, key)
    BY <1>2, <2>1 DEF OfSeed, Spares
  <2> QED
    BY <1>2, <2>1, <2>2 DEF SeedDocument, Spares, Grows
<1>3. ASSUME NEW key \in DOMAIN seed.documents, SeedId(seed, key) \in DOMAIN e.enriched
      PROVE  SeedEnrichment(e, seed, key)
  <2>1. SeedId(seed, key) \in SeedIds(seed)
    BY DEF SeedIds
  <2>2. SeedEnrichment(d, seed, key)
    BY <1>3, <2>1 DEF OfSeed, Spares
  <2> QED
    BY <1>3, <2>1, <2>2 DEF SeedEnrichment, Spares, Grows
<1> QED
  BY <1>1, <1>2, <1>3 DEF OfSeed

\* What is known of a schema when one of the seeds' transactions has run on it.
SeedWritten(d, seed, t, e) ==
    /\ e.tenants = Insert(d.tenants, seed.subdomain, [id |-> t, name |-> seed.name])
    /\ e.users = Upsert(d.users, UserRows(seed, t))
    /\ e.config = Upsert(d.config, ConfigRows(seed, t))
    /\ e.categories = Upsert(d.categories, OwnRows(seed, t, SystemColumn(seed)))
    /\ e.permissions = Upsert(d.permissions, OwnRows(seed, t, seed.downloads))
    /\ e.documents = Upsert(d.documents, DocumentRows(d, seed, t))
    /\ e.versions = Upsert(d.versions, VersionRows(seed))
    /\ e.enriched = Upsert(d.enriched, EnrichedRows(seed, t))
    /\ e.sessions = Upsert(d.sessions, SessionRows(seed))
    /\ e.audit = d.audit /\ e.drawn = IF t > d.drawn THEN t ELSE d.drawn

\* SeedRows, table by table.
LEMMA SeedWrites ==
    ASSUME NEW d, IsSchema(d), NEW seed, NEW t, t = TenantId(d, seed)
    PROVE  IsSchema(SeedTenant(d, seed)) /\ SeedWritten(d, seed, t, SeedTenant(d, seed))
<1>1. PICK e : e = SeedTenant(d, seed)
  BY Zenon
<1>2. PICK tn, us, cf, ca, pe, ds, vs, en, ss, dr :
        /\ tn = Insert(d.tenants, seed.subdomain, [id |-> t, name |-> seed.name])
        /\ us = Upsert(d.users, UserRows(seed, t))
        /\ cf = Upsert(d.config, ConfigRows(seed, t))
        /\ ca = Upsert(d.categories, OwnRows(seed, t, SystemColumn(seed)))
        /\ pe = Upsert(d.permissions, OwnRows(seed, t, seed.downloads))
        /\ ds = Upsert(d.documents, DocumentRows(d, seed, t))
        /\ vs = Upsert(d.versions, VersionRows(seed))
        /\ en = Upsert(d.enriched, EnrichedRows(seed, t))
        /\ ss = Upsert(d.sessions, SessionRows(seed))
        /\ dr = IF t > d.drawn THEN t ELSE d.drawn
  BY Zenon
<1>3. e = [tenants |-> tn, users |-> us, config |-> cf, categories |-> ca, permissions |-> pe,
           documents |-> ds, versions |-> vs, enriched |-> en, sessions |-> ss, audit |-> d.audit, drawn |-> dr]
  BY <1>1, <1>2, SeedRows, Zenon
<1>4. /\ IsSchema(e) /\ e.tenants = tn /\ e.users = us /\ e.config = cf /\ e.categories = ca
      /\ e.permissions = pe /\ e.documents = ds /\ e.versions = vs
      /\ e.enriched = en /\ e.sessions = ss /\ e.audit = d.audit /\ e.drawn = dr
  BY <1>3 DEF IsSchema
<1> QED
  BY <1>1, <1>2, <1>4, Zenon DEF SeedWritten

\* The id a seed's tenant has: its own, or one that no tenant has had.
LEMMA IdDrawn ==
    ASSUME NEW d, Schema(d), NEW seed, NEW t, t = TenantId(d, seed)
    PROVE  /\ t \in Nat \ {0} /\ t <= d.drawn + 1
           /\ seed.subdomain \in DOMAIN d.tenants => t = d.tenants[seed.subdomain].id
           /\ \A s \in DOMAIN d.tenants : s # seed.subdomain => d.tenants[s].id # t
BY DEF Schema, Tenancy, TenantId, SubdomainTaken

\* A seed takes nothing away, and adds its tenant to those there are.
LEMMA SeedGrows ==
    ASSUME NEW d, Schema(d), NEW seed, NEW t, t = TenantId(d, seed), NEW e, SeedWritten(d, seed, t, e)
    PROVE  /\ Grows(d, e)
           /\ seed.subdomain \in DOMAIN e.tenants /\ e.tenants[seed.subdomain].id = t
           /\ Ids(e) = Ids(d) \cup {t}
<1>1. Grows(d, e)
  BY IdDrawn DEF Grows, SeedWritten, Insert, Upsert
<1>2. seed.subdomain \in DOMAIN e.tenants /\ e.tenants[seed.subdomain].id = t
  BY DEF SeedWritten, Insert
<1>3. DOMAIN e.tenants = DOMAIN d.tenants \cup {seed.subdomain}
  BY DEF SeedWritten, Insert
<1>4. Ids(e) = Ids(d) \cup {t}
  BY <1>1, <1>2, <1>3 DEF Ids, Grows
<1> QED
  BY <1>1, <1>2, <1>4

\* Ids and names are no two tenants' after a seed.
LEMMA SeedTenancy ==
    ASSUME NEW d, Schema(d), NEW seed, ~SeedThrows(d, seed), NEW t, t = TenantId(d, seed),
           NEW e, SeedWritten(d, seed, t, e)
    PROVE  e.drawn \in Nat /\ Tenancy(e)
<1>1. t \in Nat \ {0} /\ t <= d.drawn + 1 /\ d.drawn \in Nat
  BY IdDrawn DEF Schema
<1>2. e.drawn \in Nat /\ t <= e.drawn /\ d.drawn <= e.drawn
  BY <1>1 DEF SeedWritten
<1>3. e.tenants = Insert(d.tenants, seed.subdomain, [id |-> t, name |-> seed.name])
  BY DEF SeedWritten
<1>4. \A s \in DOMAIN e.tenants : s = seed.subdomain \/ (s \in DOMAIN d.tenants /\ e.tenants[s] = d.tenants[s])
  BY <1>3 DEF Insert
<1>5. e.tenants[seed.subdomain].id = t /\ e.tenants[seed.subdomain].name = seed.name
  BY <1>3 DEF Insert
<1>6. \A s \in DOMAIN d.tenants : s # seed.subdomain => d.tenants[s].id # t /\ d.tenants[s].name # seed.name
  BY IdDrawn DEF SeedThrows
<1> QED
  BY <1>1, <1>2, <1>4, <1>5, <1>6 DEF Schema, Tenancy

\* Each category has its permission and its tenant after a seed.
LEMMA SeedVocabulary ==
    ASSUME NEW d, Schema(d), NEW seed, "Uncategorized" \in DOMAIN seed.downloads,
           NEW t, t = TenantId(d, seed), NEW e, SeedWritten(d, seed, t, e)
    PROVE  Vocabulary(e)
<1>1. Ids(e) = Ids(d) \cup {t}
  BY SeedGrows
<1>2. /\ DOMAIN e.categories = DOMAIN d.categories \cup ({t} \X DOMAIN seed.downloads)
      /\ DOMAIN e.permissions = DOMAIN d.permissions \cup ({t} \X DOMAIN seed.downloads)
      /\ DOMAIN e.config = DOMAIN d.config \cup ({t} \X DOMAIN seed.config)
  BY DEF SeedWritten, Upsert, OwnRows, ConfigRows
<1> QED
  BY <1>1, <1>2 DEF Vocabulary, Schema

\* The seed's own rows are as the seed has them.
LEMMA SeedOwn ==
    ASSUME NEW d, Schema(d), NEW seed, RefersToItself(seed), OfSeed(d, seed), NEW t, t = TenantId(d, seed),
           NEW e, SeedWritten(d, seed, t, e)
    PROVE  OfSeed(e, seed)
<1>1. seed.subdomain \in DOMAIN e.tenants /\ e.tenants[seed.subdomain].id = t
  BY SeedGrows
<1>2. SeedUsers(e, seed)
  BY <1>1 DEF SeedUsers, SeedWritten, Upsert, UserRows
<1>3. ASSUME NEW key \in DOMAIN seed.documents
      PROVE  SeedDocument(e, seed, key)
  <2> DEFINE id == SeedId(seed, key)
  <2>1. id \in SeedIds(seed) /\ id[2] = key
    BY DEF SeedIds, SeedId
  <2>2. e.documents[id] = DocumentRows(d, seed, t)[id]
    BY <2>1 DEF SeedWritten, Upsert, DocumentRows
  <2>3. e.documents[id].tenant = t
    BY <2>1, <2>2, IdDrawn DEF DocumentRows, OfSeed, SeedDocument
  <2>4. e.documents[id].uploader = seed.documents[key].uploader
    BY <2>1, <2>2 DEF DocumentRows, OfSeed, SeedDocument
  <2>5. seed.documents[key].uploader \in DOMAIN e.users
    BY DEF SeedWritten, Upsert, UserRows, RefersToItself
  <2>6. e.documents[id].current = <<id, seed.documents[key].versions>>
    BY <2>1, <2>2 DEF DocumentRows
  <2>7. <<id, seed.documents[key].versions>> \in VersionIds(seed)
    BY DEF VersionIds, RefersToItself
  <2>8. VersionIds(seed) \subseteq DOMAIN e.versions
    BY DEF SeedWritten, Upsert, VersionRows
  <2> QED
    BY <1>1, <2>3, <2>4, <2>5, <2>6, <2>7, <2>8 DEF SeedDocument
<1>4. ASSUME NEW key \in DOMAIN seed.documents, SeedId(seed, key) \in DOMAIN e.enriched
      PROVE  SeedEnrichment(e, seed, key)
  <2> DEFINE id == SeedId(seed, key)
  <2>1. id \in SeedIds(seed) /\ id[2] = key
    BY DEF SeedIds, SeedId
  <2>2. CASE seed.documents[key].pages > 0
    <3>1. id \in ReadIds(seed)
      BY <2>1, <2>2 DEF ReadIds
    <3>2. e.enriched[id] = EnrichedRows(seed, t)[id]
      BY <3>1 DEF SeedWritten, Upsert, EnrichedRows
    <3>3. e.enriched[id].category = <<t, seed.documents[key].category>>
      BY <2>1, <3>1, <3>2 DEF EnrichedRows
    <3>4. seed.documents[key].category \in DOMAIN seed.downloads
      BY <2>2 DEF RefersToItself
    <3>5. <<t, seed.documents[key].category>> \in DOMAIN e.categories
      BY <3>4 DEF SeedWritten, Upsert, OwnRows
    <3> QED
      BY <1>1, <3>3, <3>5 DEF SeedEnrichment
  <2>3. CASE ~(seed.documents[key].pages > 0)
    <3>1. id \notin ReadIds(seed)
      BY <2>1, <2>3 DEF ReadIds
    <3>2. id \in DOMAIN d.enriched /\ e.enriched[id] = d.enriched[id]
      BY <1>4, <3>1 DEF SeedWritten, Upsert, EnrichedRows
    <3>3. SeedEnrichment(d, seed, key)
      BY <3>2 DEF OfSeed
    <3>4. Grows(d, e)
      BY SeedGrows
    <3> QED
      BY <3>2, <3>3, <3>4 DEF SeedEnrichment, Grows
  <2> QED
    BY <2>2, <2>3
<1> QED
  BY <1>2, <1>3, <1>4 DEF OfSeed

\* The other seed's rows are not touched.
LEMMA SeedSpares ==
    ASSUME NEW d, Schema(d), NEW seed, NEW other, OfSeed(d, other),
           seed.subdomain # other.subdomain, DOMAIN seed.users \cap DOMAIN other.users = {},
           NEW t, t = TenantId(d, seed), NEW e, SeedWritten(d, seed, t, e)
    PROVE  OfSeed(e, other)
<1>1. SeedIds(seed) \cap SeedIds(other) = {} /\ ReadIds(seed) \subseteq SeedIds(seed)
  BY DEF SeedIds, SeedId, ReadIds
<1>2. Spares(d, e, other)
  <2>1. ASSUME NEW u \in DOMAIN other.users \cap DOMAIN e.users PROVE u \in DOMAIN d.users /\ e.users[u] = d.users[u]
    BY <2>1 DEF SeedWritten, Upsert, UserRows
  <2>2. ASSUME NEW id \in SeedIds(other), id \in DOMAIN e.documents
        PROVE  id \in DOMAIN d.documents /\ e.documents[id] = d.documents[id]
    BY <1>1, <2>2 DEF SeedWritten, Upsert, DocumentRows
  <2>3. ASSUME NEW id \in SeedIds(other), id \in DOMAIN e.enriched
        PROVE  id \in DOMAIN d.enriched /\ e.enriched[id] = d.enriched[id]
    BY <1>1, <2>3 DEF SeedWritten, Upsert, EnrichedRows
  <2> QED
    BY <2>1, <2>2, <2>3 DEF Spares
<1> QED
  BY <1>2, SeedGrows, SparedSeed

\* A transaction of a seed that does not throw leaves the schema whole.
LEMMA SeedKeepsSchema ==
    ASSUME NEW d, Schema(d), NEW seed \in {DevTenant, QaTenantB}, ~SeedThrows(d, seed)
    PROVE  Schema(SeedTenant(d, seed))
<1>1. PICK t, e : t = TenantId(d, seed) /\ e = SeedTenant(d, seed)
  BY Zenon
<1>2. IsSchema(e) /\ SeedWritten(d, seed, t, e)
  BY <1>1, SeedWrites DEF Schema
<1>3. e.drawn \in Nat /\ Tenancy(e)
  BY <1>1, <1>2, SeedTenancy
<1>4. RefersToItself(seed)
  BY SeedsAssumption DEF SeedsFit
<1>5. Vocabulary(e)
  BY <1>1, <1>2, <1>4, SeedVocabulary DEF RefersToItself
<1>6. OfSeed(e, seed)
  BY <1>1, <1>2, <1>4, SeedOwn DEF Schema
<1>7. ASSUME NEW other \in {DevTenant, QaTenantB}, other # seed PROVE OfSeed(e, other)
  <2>1. seed.subdomain # other.subdomain /\ DOMAIN seed.users \cap DOMAIN other.users = {}
    BY <1>7, SeedsAssumption DEF SeedsFit
  <2> QED
    BY <1>1, <1>2, <2>1, SeedSpares DEF Schema
<1>8. DOMAIN e.documents = DOMAIN d.documents \cup SeedIds(seed)
  BY <1>2 DEF SeedWritten, Upsert, DocumentRows
<1> QED
  BY <1>1, <1>2, <1>3, <1>5, <1>6, <1>7, <1>8 DEF Schema

\* A schema that was just made.
LEMMA MigratedSchema ==
    ASSUME NEW n \in Nat
    PROVE  Schema(Migrated(n))
<1>1. PICK e : e = Migrated(n)
  BY Zenon
<1>2. IsSchema(e) /\ e.drawn = n
  BY <1>1 DEF Migrated, IsSchema
<1>3. /\ DOMAIN e.tenants = {} /\ DOMAIN e.users = {} /\ DOMAIN e.config = {} /\ DOMAIN e.categories = {}
      /\ DOMAIN e.permissions = {} /\ DOMAIN e.documents = {} /\ DOMAIN e.enriched = {}
  BY <1>1 DEF Migrated, EmptyTable
<1>4. Tenancy(e) /\ Ids(e) = {}
  BY <1>3 DEF Tenancy, Ids
<1>5. Vocabulary(e)
  BY <1>3, <1>4 DEF Vocabulary
<1>6. ASSUME NEW seed PROVE OfSeed(e, seed)
  BY <1>3 DEF OfSeed, SeedUsers
<1> QED
  BY <1>1, <1>2, <1>3, <1>4, <1>5, <1>6 DEF Schema

\* A parameter written for a tenant, or taken away, and an event recorded.
LEMMA RowsKeepSchema ==
    ASSUME NEW d, Schema(d), NEW e, IsSchema(e),
           e.tenants = d.tenants, e.users = d.users, e.categories = d.categories,
           e.permissions = d.permissions, e.documents = d.documents, e.versions = d.versions,
           e.enriched = d.enriched, e.drawn = d.drawn,
           \A k \in DOMAIN e.config : k \in DOMAIN d.config \/ k[1] \in Ids(d)
    PROVE  Schema(e)
<1>1. Ids(e) = Ids(d) /\ Tenancy(e) /\ Vocabulary(e)
  BY DEF Ids, Tenancy, Vocabulary, Schema
<1>2. ASSUME NEW seed, OfSeed(d, seed) PROVE OfSeed(e, seed)
  <2>1. Grows(d, e) /\ Spares(d, e, seed)
    BY DEF Grows, Spares
  <2> QED
    BY <1>2, <2>1, SparedSeed
<1> QED
  BY <1>1, <1>2 DEF Schema

\* Another tenant.
LEMMA CreateKeepsSchema ==
    ASSUME NEW d, Schema(d), NEW e, IsSchema(e), NEW new,
           ~NameTaken(d, new.name), ~SubdomainTaken(d, new.subdomain),
           e.tenants = Insert(d.tenants, new.subdomain, [id |-> d.drawn + 1, name |-> new.name]),
           e.drawn = d.drawn + 1,
           e.categories = Insert(d.categories, <<d.drawn + 1, "Uncategorized">>, TRUE),
           e.permissions = Insert(d.permissions, <<d.drawn + 1, "Uncategorized">>, FALSE),
           e.users = d.users, e.config = d.config, e.documents = d.documents, e.versions = d.versions,
           e.enriched = d.enriched
    PROVE  Schema(e)
<1> DEFINE t == d.drawn + 1
<1>1. d.drawn \in Nat /\ t \in Nat /\ e.drawn = t
  BY DEF Schema
<1>2. /\ \A s \in DOMAIN e.tenants : s = new.subdomain \/ (s \in DOMAIN d.tenants /\ e.tenants[s] = d.tenants[s])
      /\ new.subdomain \in DOMAIN e.tenants /\ new.subdomain \notin DOMAIN d.tenants
      /\ e.tenants[new.subdomain].id = t /\ e.tenants[new.subdomain].name = new.name
      /\ \A s \in DOMAIN d.tenants : s \in DOMAIN e.tenants /\ e.tenants[s] = d.tenants[s]
  BY DEF Insert, SubdomainTaken
<1>3. \A s \in DOMAIN d.tenants : d.tenants[s].id \in 1 .. d.drawn /\ d.tenants[s].name # new.name
  BY DEF Schema, Tenancy, NameTaken
<1> HIDE DEF t
<1>4. \A s \in DOMAIN d.tenants : d.tenants[s].id # t /\ d.tenants[s].id \in 1 .. t
  BY <1>1, <1>3 DEF t
<1>5. Tenancy(e)
  <2>1. \A s \in DOMAIN e.tenants : e.tenants[s].id \in 1 .. t
    BY <1>1, <1>2, <1>4 DEF t
  <2>2. ASSUME NEW s \in DOMAIN e.tenants, NEW u \in DOMAIN e.tenants, s # u
        PROVE e.tenants[s].id # e.tenants[u].id /\ e.tenants[s].name # e.tenants[u].name
    BY <1>2, <1>3, <1>4, <2>2 DEF Schema, Tenancy
  <2> QED
    BY <1>1, <2>1, <2>2 DEF Tenancy
<1>6. Ids(e) = Ids(d) \cup {t}
  BY <1>2 DEF Ids
<1>7. Vocabulary(e)
  <2>1. DOMAIN e.categories = DOMAIN d.categories \cup {<<t, "Uncategorized">>}
    BY DEF Insert, t
  <2>2. DOMAIN e.permissions = DOMAIN d.permissions \cup {<<t, "Uncategorized">>}
    BY DEF Insert, t
  <2> QED
    <3>1. Vocabulary(d)
      BY DEF Schema
    <3>2. \A id \in Ids(e) : <<id, "Uncategorized">> \in DOMAIN e.categories
      BY <1>6, <2>1, <3>1 DEF Vocabulary
    <3>3. \A k \in DOMAIN e.categories : k[1] \in Ids(e)
      <4>1. <<t, "Uncategorized">>[1] = t
        OBVIOUS
      <4>2. \A k \in DOMAIN d.categories : k[1] \in Ids(d)
        BY <3>1 DEF Vocabulary
      <4> QED
        BY <1>6, <2>1, <4>1, <4>2, Zenon
    <3>4. \A k \in DOMAIN e.config : k[1] \in Ids(e)
      BY <1>6, <3>1 DEF Vocabulary
    <3> QED
      BY <2>1, <2>2, <3>1, <3>2, <3>3, <3>4 DEF Vocabulary
<1>8. ASSUME NEW seed, OfSeed(d, seed) PROVE OfSeed(e, seed)
  <2>1. Grows(d, e) /\ Spares(d, e, seed)
    BY <1>2 DEF Grows, Spares, Insert
  <2> QED
    BY <1>8, <2>1, SparedSeed
<1> QED
  BY <1>1, <1>5, <1>7, <1>8 DEF Schema

-----------------------------------------------------------------------------
(* Its writers. *)

\* The schema, if there is one, is whole.
Whole == db.drawn \in Nat /\ (Exists => Schema(db))

\* Requests.
AskFields == {"pc", "id", "key", "value", "previous"}
Asking(h) == At(h, "reread") \/ At(h, "record")
Requests ==
    /\ handler = [h \in Handlers |-> handler[h]]
    /\ \A h \in Handlers :
          \/ handler[h] = Free
          \/ /\ DOMAIN handler[h] = AskFields
             /\ handler[h].pc \in {"upsert", "reread", "record"}
             /\ handler[h].key \in DOMAIN Specs
             /\ At(h, "upsert") => Accepts(handler[h].key, handler[h].value)
\* The event that tells of a parameter's row.
Told(k) == [id |-> k[1], key |-> k[2], value |-> db.config[k].value]
\* Every row is accounted for.
Parameters ==
    Exists => \A k \in DOMAIN db.config :
        /\ k = <<k[1], k[2]>> /\ k[2] \in DOMAIN Specs
        /\ Accepts(k[2], db.config[k].value)
        /\ \/ \E seed \in {DevTenant, QaTenantB} :
                 k[2] \in DOMAIN seed.config /\ db.config[k].value = seed.config[k[2]]
           \/ Told(k) \in db.audit \/ k \in lost
           \/ \E h \in Handlers : Asking(h) /\ Event(handler[h]) = Told(k)

\* Resets.
Stages == {"drop", "migrate", "seed", "list", "purge", "delete_index", "create_index", "flush"}
JobFields == {"status", "stage", "seed", "left", "listed", "full", "alone"}
Job(j) ==
    \/ j.status \in {"none", "succeeded", "failed"}
    \/ /\ DOMAIN j = JobFields /\ j.status = "running"
       /\ j.stage \in Stages /\ j.seed \in Seeding /\ j.left \in Nat
       /\ j.left < Len(Transactions(j.seed))
       /\ j.full \in BOOLEAN /\ j.alone \in BOOLEAN
Runners == job = [p \in Replicas |-> job[p]] /\ \A p \in Replicas : Job(job[p])

\* How a step may change the schema.
BothSeeds == {DevTenant, QaTenantB}
SameDb == db' = db
DroppedNow == db' = [drawn |-> db.drawn]
MigratedNow == db' = Migrated(db.drawn)
SeededNow == \E seed \in BothSeeds : Exists /\ ~SeedThrows(db, seed) /\ db' = SeedTenant(db, seed)

\* A running job's next transaction is of one of the two seeds.
LEMMA TransactionsOfSeeds ==
    ASSUME NEW j, Job(j), j.status = "running"
    PROVE  Transactions(j.seed)[j.left + 1] \in BothSeeds
BY DEF Job, Transactions, BothSeeds

\* What a reset does to the schema.
LEMMA ResetDb ==
    ASSUME Runners, NEW p \in Replicas, ResetStep(p)
    PROVE  SameDb \/ DroppedNow \/ MigratedNow \/ SeededNow
<1>1. CASE Drop(p)
  BY <1>1 DEF Drop, DroppedNow
<1>2. CASE Migrate(p)
  BY <1>2 DEF Migrate, MigratedNow, SameDb
<1>3. CASE Seed(p)
  <2>1. Transactions(job[p].seed)[job[p].left + 1] \in BothSeeds
    BY <1>3, TransactionsOfSeeds DEF Seed, Stage, Running, Runners
  <2> QED
    BY <1>3, <2>1, Zenon DEF Seed, SeededNow, SameDb
<1>4. CASE ~(Drop(p) \/ Migrate(p) \/ Seed(p))
  BY <1>4 DEF ResetStep, Start, StageFails, ListBlobs, PurgeBlobs, DeleteIndex, CreateIndex, FlushQueue,
              Forget, SameDb, stores
<1> QED
  BY <1>1, <1>2, <1>3, <1>4

\* None of these harms the schema.
LEMMA WholeMoves ==
    ASSUME Whole, SameDb \/ DroppedNow \/ MigratedNow \/ SeededNow
    PROVE  Whole'
<1>1. CASE SameDb
  BY <1>1 DEF SameDb, Whole, Exists
<1>2. CASE DroppedNow
  BY <1>2 DEF DroppedNow, Whole, Exists
<1>3. CASE MigratedNow
  <2>1. Schema(Migrated(db.drawn))
    BY MigratedSchema DEF Whole
  <2>2. Schema(db')
    BY <1>3, <2>1 DEF MigratedNow
  <2> QED
    BY <2>2 DEF Whole, Schema
<1>4. CASE SeededNow
  <2>1. Schema(db')
    BY <1>4, SeedKeepsSchema DEF SeededNow, BothSeeds, Whole
  <2> QED
    BY <2>1 DEF Whole, Schema
<1> QED
  BY <1>1, <1>2, <1>3, <1>4

\* A parameter's row, or the ledger, and nothing else of the schema.
LEMMA ConfigMove ==
    ASSUME NEW d, IsSchema(d), NEW c, NEW e, e = [d EXCEPT !.config = c]
    PROVE  /\ IsSchema(e) /\ e.config = c
           /\ e.tenants = d.tenants /\ e.users = d.users /\ e.categories = d.categories
           /\ e.permissions = d.permissions /\ e.documents = d.documents /\ e.versions = d.versions
           /\ e.enriched = d.enriched /\ e.sessions = d.sessions /\ e.audit = d.audit /\ e.drawn = d.drawn
<1>1. IsSchema(e)
  BY SameColumns
<1>2. DOMAIN d = Columns
  BY ColumnsOf
<1> QED
  BY <1>1, <1>2 DEF Columns

\* An event, and nothing else of the schema.
LEMMA AuditMove ==
    ASSUME NEW d, IsSchema(d), NEW a, NEW e, e = [d EXCEPT !.audit = a]
    PROVE  /\ IsSchema(e) /\ e.audit = a
           /\ e.tenants = d.tenants /\ e.users = d.users /\ e.categories = d.categories
           /\ e.permissions = d.permissions /\ e.documents = d.documents /\ e.versions = d.versions
           /\ e.enriched = d.enriched /\ e.sessions = d.sessions /\ e.config = d.config /\ e.drawn = d.drawn
<1>1. IsSchema(e)
  BY SameColumns
<1>2. DOMAIN d = Columns
  BY ColumnsOf
<1> QED
  BY <1>1, <1>2 DEF Columns

\* What became of a parameter, and of the events.
Wrote(id, key, value) ==
    /\ Exists /\ id \in Ids(db)
    /\ db' = [db EXCEPT !.config = Insert(db.config, <<id, key>>, [value |-> value, by |-> "admin"])]
Cleared(id, key) == Exists /\ db' = [db EXCEPT !.config = Delete(db.config, <<id, key>>)]
Recorded(event) == Exists /\ db' = [db EXCEPT !.audit = db.audit \cup {event}]

\* A parameter written for one of the tenants, or taken away, leaves the schema whole.
LEMMA WholeConfig ==
    ASSUME Whole, NEW id, NEW key, NEW value, Wrote(id, key, value) \/ Cleared(id, key)
    PROVE  Whole'
<1>1. Schema(db) /\ IsSchema(db)
  BY DEF Whole, Wrote, Cleared, Schema
<1>2. PICK c : /\ db' = [db EXCEPT !.config = c]
               /\ \A k \in DOMAIN c : k \in DOMAIN db.config \/ k[1] \in Ids(db)
  <2>1. CASE Wrote(id, key, value)
    <3>1. \A k \in DOMAIN Insert(db.config, <<id, key>>, [value |-> value, by |-> "admin"]) :
             k \in DOMAIN db.config \/ k[1] \in Ids(db)
      BY <2>1 DEF Wrote, Insert
    <3> QED
      BY <2>1, <3>1, Zenon DEF Wrote
  <2>2. CASE Cleared(id, key)
    <3>1. \A k \in DOMAIN Delete(db.config, <<id, key>>) : k \in DOMAIN db.config
      BY DEF Delete, DeleteAll
    <3> QED
      BY <2>2, <3>1, Zenon DEF Cleared
  <2> QED
    BY <2>1, <2>2
<1>3. PICK e : e = db'
  BY Zenon
<1>4. Schema(e)
  <2>1. /\ IsSchema(e) /\ e.config = c
        /\ e.tenants = db.tenants /\ e.users = db.users /\ e.categories = db.categories
        /\ e.permissions = db.permissions /\ e.documents = db.documents /\ e.versions = db.versions
        /\ e.enriched = db.enriched /\ e.drawn = db.drawn
    <3>1. e = [db EXCEPT !.config = c]
      BY <1>2, <1>3, Zenon
    <3> QED
      BY <1>1, <3>1, ConfigMove
  <2>2. \A k \in DOMAIN e.config : k \in DOMAIN db.config \/ k[1] \in Ids(db)
    BY <1>2, <2>1, Zenon
  <2> QED
    BY <1>1, <2>1, <2>2, RowsKeepSchema, Zenon
<1> QED
  BY <1>3, <1>4 DEF Whole, Schema

\* So does an event.
LEMMA WholeAudit ==
    ASSUME Whole, NEW event, Recorded(event)
    PROVE  Whole'
<1>1. Schema(db) /\ IsSchema(db)
  BY DEF Whole, Recorded, Schema
<1>2. PICK a, e : e = db' /\ e = [db EXCEPT !.audit = a]
  BY Zenon DEF Recorded
<1>3. Schema(e)
  BY <1>1, <1>2, AuditMove, RowsKeepSchema
<1> QED
  BY <1>2, <1>3 DEF Whole, Schema

\* So does createTenant.
LEMMA WholeCreate ==
    ASSUME Whole, NEW new, CreateTenant(new)
    PROVE  Whole'
<1>1. Schema(db) /\ IsSchema(db)
  BY DEF Whole, CreateTenant, Schema
<1>2. PICK tn, ca, pe, e :
        /\ e = db' /\ e = [db EXCEPT !.tenants = tn, !.drawn = db.drawn + 1, !.categories = ca, !.permissions = pe]
        /\ tn = Insert(db.tenants, new.subdomain, [id |-> db.drawn + 1, name |-> new.name])
        /\ ca = Insert(db.categories, <<db.drawn + 1, "Uncategorized">>, TRUE)
        /\ pe = Insert(db.permissions, <<db.drawn + 1, "Uncategorized">>, FALSE)
  BY Zenon DEF CreateTenant
<1>3. IsSchema(e)
  BY <1>1, <1>2, SameColumns
<1>4. DOMAIN db = Columns
  BY <1>1, ColumnsOf
<1>5. /\ e.tenants = tn /\ e.drawn = db.drawn + 1 /\ e.categories = ca /\ e.permissions = pe
      /\ e.users = db.users /\ e.config = db.config /\ e.documents = db.documents
      /\ e.versions = db.versions /\ e.enriched = db.enriched
  BY <1>2, <1>4 DEF Columns
<1>6. ~NameTaken(db, new.name) /\ ~SubdomainTaken(db, new.subdomain)
  BY DEF CreateTenant
<1>7. Schema(e)
  BY <1>1, <1>2, <1>3, <1>5, <1>6, CreateKeepsSchema
<1> QED
  BY <1>2, <1>7 DEF Whole, Schema

\* What a request does to the schema.
LEMMA RequestDb ==
    ASSUME NEW h \in Handlers, Request(h)
    PROVE  \/ SameDb
           \/ \E id, key, value : Wrote(id, key, value) \/ Cleared(id, key)
           \/ \E event : Recorded(event)
<1>1. CASE UpsertConfigValue(h)
  <2>1. PICK r : r = handler[h]
    BY Zenon
  <2>2. SameDb \/ Wrote(r.id, r.key, r.value)
    BY <1>1, <2>1, Zenon DEF UpsertConfigValue, SameDb, Wrote
  <2> QED
    BY <2>2, Zenon
<1>2. CASE RereadConfigRow(h)
  BY <1>2 DEF RereadConfigRow, SameDb
<1>3. CASE RecordChange(h)
  BY <1>3, Zenon DEF RecordChange, SameDb, Recorded
<1>4. ASSUME NEW id, NEW ask, ResetConfigValue(h, id, ask.key) PROVE \E key : Cleared(id, key)
  BY <1>4, Zenon DEF ResetConfigValue, Cleared
<1>5. ASSUME NEW id, NEW ask, BeginSet(h, id, ask.key, ask.value) PROVE SameDb
  BY <1>5 DEF BeginSet, SameDb
<1> QED
  BY <1>1, <1>2, <1>3, <1>4, <1>5, Zenon DEF Request

\* What an operator's scripts and a replaced database do to the schema.
LEMMA OperatorDb ==
    ASSUME MigrateScript \/ EmptyDatabase
    PROVE  /\ SameDb \/ DroppedNow \/ MigratedNow
           /\ handler' = handler /\ lost' = lost /\ stored' = stored /\ Noticed
<1>1. CASE MigrateScript
  BY <1>1 DEF MigrateScript, MigratedNow, SameDb
<1>2. CASE EmptyDatabase
  BY <1>2 DEF EmptyDatabase, DroppedNow
<1> QED
  BY <1>1, <1>2

\* No step of anybody harms the schema.
LEMMA WholeStep == ASSUME Whole, Runners, [Next]_vars PROVE Whole'
<1>1. CASE UNCHANGED vars
  BY <1>1, WholeMoves DEF vars, stores, SameDb
<1>2. ASSUME NEW p \in Replicas, ResetStep(p) PROVE Whole'
  BY <1>2, ResetDb, WholeMoves
<1>3. ASSUME NEW h \in Handlers, Request(h) PROVE Whole'
  BY <1>3, RequestDb, WholeMoves, WholeConfig, WholeAudit
<1>4. ASSUME NEW new \in NewTenants, CreateTenant(new) PROVE Whole'
  BY <1>4, WholeCreate
<1>5. ASSUME NEW seed \in BothSeeds, SeedScript(seed) PROVE Whole'
  BY <1>5, WholeMoves, Zenon DEF SeedScript, SeededNow
<1>6. ASSUME NEW b \in Blobs, Upload(b) PROVE Whole'
  BY <1>6, WholeMoves DEF Upload, SameDb
<1>7. CASE MigrateScript \/ EmptyDatabase
  BY <1>7, OperatorDb, WholeMoves
<1> QED
  BY <1>1, <1>2, <1>3, <1>4, <1>5, <1>6, <1>7 DEF Next, Administer, BothSeeds

\* Tenants are whole because every transaction leaves them so.
LEMMA SchemaIsWhole ==
    ASSUME Whole
    PROVE  TenantsAreWhole
<1> SUFFICES ASSUME Exists PROVE TenantsAreWhole
  BY DEF TenantsAreWhole
<1>1. Schema(db)
  BY DEF Whole
<1>2. ASSUME NEW i \in DOMAIN db.documents
      PROVE  /\ db.documents[i].current \in DOMAIN db.versions
             /\ db.users[db.documents[i].uploader].tenant = db.documents[i].tenant
             /\ i \in DOMAIN db.enriched => /\ db.enriched[i].category \in DOMAIN db.categories
                                            /\ db.enriched[i].category[1] = db.documents[i].tenant
  <2>1. PICK seed \in BothSeeds : i \in SeedIds(seed)
    BY <1>1 DEF Schema, BothSeeds
  <2>2. PICK key \in DOMAIN seed.documents : i = SeedId(seed, key)
    BY <2>1 DEF SeedIds
  <2>3. OfSeed(db, seed) /\ RefersToItself(seed)
    BY <1>1, SeedsAssumption DEF Schema, BothSeeds, SeedsFit
  <2>4. SeedDocument(db, seed, key) /\ SeedUsers(db, seed)
    BY <2>2, <2>3 DEF OfSeed
  <2>5. seed.documents[key].uploader \in DOMAIN seed.users
        /\ seed.users[seed.documents[key].uploader] # "super_admin"
    BY <2>3 DEF RefersToItself
  <2>6. db.users[db.documents[i].uploader].tenant = db.documents[i].tenant
    BY <2>2, <2>4, <2>5 DEF SeedDocument, SeedUsers
  <2>7. ASSUME i \in DOMAIN db.enriched
        PROVE  /\ db.enriched[i].category \in DOMAIN db.categories
               /\ db.enriched[i].category[1] = db.documents[i].tenant
    <3>1. SeedEnrichment(db, seed, key)
      BY <2>2, <2>3, <2>7 DEF OfSeed
    <3> QED
      BY <2>2, <2>4, <3>1 DEF SeedEnrichment, SeedDocument
  <2> QED
    BY <2>2, <2>4, <2>6, <2>7 DEF SeedDocument
<1>3. Tenancy(db) /\ Vocabulary(db)
  BY <1>1 DEF Schema
<1> QED
  BY <1>2, <1>3 DEF TenantsAreWhole, Tenancy, Vocabulary

-----------------------------------------------------------------------------
(* The parameters. *)

\* A request's record after each of its steps.
LEMMA RequestsStep == ASSUME Requests, [Next]_vars PROVE Requests'
<1>1. CASE handler' = handler
  BY <1>1 DEF Requests, At
<1>2. ASSUME NEW h \in Handlers, NEW r, handler' = [handler EXCEPT ![h] = r],
             \/ r = Free
             \/ /\ DOMAIN r = AskFields /\ r.pc \in {"upsert", "reread", "record"}
                /\ r.key \in DOMAIN Specs
                /\ r.pc = "upsert" => Accepts(r.key, r.value)
      PROVE  Requests'
  <2>1. handler'[h] = r /\ \A g \in Handlers : g # h => handler'[g] = handler[g]
    BY <1>2 DEF Requests
  <2>2. handler' = [g \in Handlers |-> handler'[g]]
    BY <1>2 DEF Requests
  <2> QED
    BY <1>2, <2>1, <2>2 DEF Requests, At
<1>3. ASSUME NEW h \in Handlers, Request(h) PROVE Requests'
  <2>1. CASE handler[h] = Free
    <3>1. PICK id \in 1 .. MaxDrawn, ask \in Settings :
             ResetConfigValue(h, id, ask.key) \/ BeginSet(h, id, ask.key, ask.value)
      <4>1. handler[h].pc = "free"
        BY <2>1 DEF Free
      <4>2. ~(UpsertConfigValue(h) \/ RereadConfigRow(h) \/ RecordChange(h))
        BY <4>1 DEF UpsertConfigValue, RereadConfigRow, RecordChange, At
      <4> QED
        BY <1>3, <4>2, Zenon DEF Request
    <3>2. ask.key \in DOMAIN Specs
      BY SettingsAssumption
    <3>3. CASE ResetConfigValue(h, id, ask.key)
      <4>1. PICK r : /\ handler' = [handler EXCEPT ![h] = r]
                     /\ r = [pc |-> "record", id |-> id, key |-> ask.key, value |-> Specs[ask.key].default,
                             previous |-> 0]
        BY <3>3, Zenon DEF ResetConfigValue
      <4> QED
        BY <1>2, <3>2, <4>1 DEF AskFields
    <3>4. CASE BeginSet(h, id, ask.key, ask.value)
      <4>1. PICK r, before : /\ handler' = [handler EXCEPT ![h] = r]
                     /\ r = [pc |-> "upsert", id |-> id, key |-> ask.key, value |-> ask.value,
                             previous |-> before]
                     /\ Accepts(ask.key, ask.value)
        BY <3>4, Zenon DEF BeginSet
      <4> QED
        BY <1>2, <3>2, <4>1 DEF AskFields
    <3> QED
      BY <3>1, <3>3, <3>4
  <2>2. CASE handler[h] # Free
    <3>1. UpsertConfigValue(h) \/ RereadConfigRow(h) \/ RecordChange(h)
      <4>1. handler[h].pc # "free"
        BY <2>2 DEF Requests
      <4> QED
        BY <1>3, <4>1, Zenon DEF Request, ResetConfigValue, BeginSet, At
    <3>2. DOMAIN handler[h] = AskFields /\ handler[h].key \in DOMAIN Specs
      BY <2>2 DEF Requests
    <3>3. \/ handler' = [handler EXCEPT ![h] = Free]
          \/ \E pc \in {"reread", "record"} : handler' = [handler EXCEPT ![h].pc = pc]
      BY <3>1, Zenon DEF UpsertConfigValue, RereadConfigRow, RecordChange, Finish
    <3>4. CASE handler' = [handler EXCEPT ![h] = Free]
      BY <1>2, <3>4
    <3>5. ASSUME NEW pc \in {"reread", "record"}, handler' = [handler EXCEPT ![h].pc = pc] PROVE Requests'
      <4>1. PICK r : r = [handler[h] EXCEPT !.pc = pc] /\ handler' = [handler EXCEPT ![h] = r]
        BY <3>5, Zenon
      <4>2. DOMAIN r = AskFields /\ r.pc = pc /\ r.key = handler[h].key
        BY <3>2, <4>1 DEF AskFields
      <4> QED
        BY <1>2, <3>2, <4>1, <4>2
    <3> QED
      BY <3>3, <3>4, <3>5
  <2> QED
    BY <2>1, <2>2
<1>4. CASE UNCHANGED vars
  BY <1>1, <1>4 DEF vars
<1>5. CASE Next /\ ~\E h \in Handlers : Request(h)
  BY <1>1, <1>5, OperatorDb DEF Next, Administer, CreateTenant, SeedScript, Upload
<1> QED
  BY <1>3, <1>4, <1>5

-----------------------------------------------------------------------------
\* A parameter's row is accounted for.
SetBySeed(k, value) == \E seed \in BothSeeds : k[2] \in DOMAIN seed.config /\ value = seed.config[k[2]]
Fits(k, value) == k = <<k[1], k[2]>> /\ k[2] \in DOMAIN Specs /\ Accepts(k[2], value)
EventOf(k, value) == [id |-> k[1], key |-> k[2], value |-> value]
Accounted(k, value) ==
    \/ SetBySeed(k, value)
    \/ EventOf(k, value) \in db.audit
    \/ k \in lost
    \/ \E h \in Handlers : Asking(h) /\ Event(handler[h]) = EventOf(k, value)

\* Parameters, in the terms of the lemmas below.
LEMMA ParametersMeans ==
    Parameters <=> (Exists => \A k \in DOMAIN db.config :
                        Fits(k, db.config[k].value) /\ Accounted(k, db.config[k].value))
BY DEF Parameters, Fits, Accounted, SetBySeed, EventOf, Told, BothSeeds

\* The parameter that a request is about.
About(h) == <<handler[h].id, handler[h].key>>
\* Nobody forgets an event, nor, of other parameters than those, that it was lost.
Remembers(those) ==
    /\ db.audit \subseteq db'.audit
    /\ lost \ those \subseteq lost'
    /\ \A h \in Handlers : Asking(h) =>
          \/ Asking(h)' /\ Event(handler[h])' = Event(handler[h])
          \/ Event(handler[h]) \in db'.audit
          \/ About(h) \in lost'

\* What is accounted for stays so as long as no event is forgotten.
LEMMA StillAccounted ==
    ASSUME NEW those, Remembers(those), NEW k, k \notin those, k = <<k[1], k[2]>>,
           NEW value, Accounted(k, value)
    PROVE  Accounted(k, value)'
<1>1. CASE SetBySeed(k, value)
  BY <1>1 DEF Accounted
<1>2. CASE EventOf(k, value) \in db.audit \/ k \in lost
  BY <1>2 DEF Accounted, Remembers
<1>3. ASSUME NEW h \in Handlers, Asking(h), Event(handler[h]) = EventOf(k, value) PROVE Accounted(k, value)'
  <2>1. CASE Event(handler[h]) \in db'.audit
    BY <1>3, <2>1 DEF Accounted
  <2>2. CASE Asking(h)' /\ Event(handler[h])' = Event(handler[h])
    BY <1>3, <2>2 DEF Accounted
  <2>3. CASE About(h) \in lost'
    <3>1. Event(handler[h]).id = k[1] /\ Event(handler[h]).key = k[2]
      BY <1>3 DEF EventOf
    <3>2. About(h) = k
      BY <3>1 DEF About, Event
    <3> QED
      BY <2>3, <3>2 DEF Accounted
  <2> QED
    BY <1>3, <2>1, <2>2, <2>3 DEF Remembers
<1> QED
  BY <1>1, <1>2, <1>3 DEF Accounted

\* Rows as they were, or accounted for anew.
LEMMA OtherParametersKept ==
    ASSUME NEW those, Parameters, Exists' => Exists /\ Remembers(those),
           Exists' => \A k \in DOMAIN db'.config :
              \/ k \in DOMAIN db.config \ those /\ db'.config[k] = db.config[k]
              \/ \E v : /\ v = db'.config[k].value
                       /\ Fits(k, v) /\ (SetBySeed(k, v) \/ Accounted(k, v)')
    PROVE  Parameters'
<1> SUFFICES ASSUME Exists', NEW k \in DOMAIN db'.config
             PROVE  \E v : v = db'.config[k].value /\ Fits(k, v) /\ Accounted(k, v)'
  BY ZenonT(60) DEF Parameters, Fits, Accounted, SetBySeed, EventOf, Told, BothSeeds
<1>1. CASE k \in DOMAIN db.config \ those /\ db'.config[k] = db.config[k]
  <2>1. PICK v : v = db.config[k].value /\ v = db'.config[k].value
    BY <1>1, Zenon
  <2>2. Fits(k, v) /\ Accounted(k, v)
    BY <1>1, <2>1, ParametersMeans
  <2>3. Accounted(k, v)'
    <3>1. k = <<k[1], k[2]>>
      BY <2>2 DEF Fits
    <3> QED
      BY <1>1, <2>2, <3>1, StillAccounted
  <2> QED
    BY <2>1, <2>2, <2>3
<1>2. ASSUME NEW v, v = db'.config[k].value, Fits(k, v), SetBySeed(k, v) PROVE Accounted(k, v)'
  BY <1>2 DEF Accounted
<1> QED
  BY <1>1, <1>2, Zenon

\* The same when nothing is forgotten.
LEMMA ParametersKept ==
    ASSUME Parameters, Exists' => Exists /\ Remembers({}),
           Exists' => \A k \in DOMAIN db'.config :
              \/ k \in DOMAIN db.config /\ db'.config[k] = db.config[k]
              \/ \E v : /\ v = db'.config[k].value
                       /\ Fits(k, v) /\ (SetBySeed(k, v) \/ Accounted(k, v)')
    PROVE  Parameters'
<1>1. PICK none : none = {}
  BY Zenon
<1>2. Exists' => Exists /\ Remembers(none)
  BY <1>1
<1>3. ASSUME Exists', NEW k \in DOMAIN db'.config
      PROVE  \/ k \in DOMAIN db.config \ none /\ db'.config[k] = db.config[k]
             \/ \E v : /\ v = db'.config[k].value
                      /\ Fits(k, v) /\ (SetBySeed(k, v) \/ Accounted(k, v)')
  BY <1>1, <1>3, Zenon
<1> QED
  BY <1>2, <1>3, OtherParametersKept, Zenon

\* Events and rows after each kind of step.
LEMMA SeedParameters ==
    ASSUME Whole, Parameters, SeededNow, handler' = handler, lost' = lost
    PROVE  Parameters'
<1>1. PICK seed \in BothSeeds : Exists /\ db' = SeedTenant(db, seed)
  BY DEF SeededNow
<1>2. PICK t, e : t = TenantId(db, seed) /\ e = db'
  BY Zenon
<1>3. SeedWritten(db, seed, t, e)
  BY <1>1, <1>2, SeedWrites DEF Whole, Schema
<1>4. db'.audit = db.audit /\ db'.config = Upsert(db.config, ConfigRows(seed, t))
  BY <1>2, <1>3 DEF SeedWritten
<1>5. Remembers({})
  BY <1>4 DEF Remembers, Asking, At, Event, About
<1>6. ASSUME NEW k \in DOMAIN db'.config
      PROVE  \/ k \in DOMAIN db.config /\ db'.config[k] = db.config[k]
             \/ \E v : v = db'.config[k].value /\ Fits(k, v) /\ SetBySeed(k, v)
  <2>1. CASE k \in {t} \X DOMAIN seed.config
    <3>1. db'.config[k].value = seed.config[k[2]]
      BY <1>4, <2>1 DEF Upsert, ConfigRows
    <3>2. k = <<k[1], k[2]>> /\ k[2] \in DOMAIN seed.config
      BY <2>1
    <3>3. Fits(k, seed.config[k[2]]) /\ SetBySeed(k, seed.config[k[2]])
      BY <3>2, SeededConfigAssumption DEF Fits, SetBySeed, BothSeeds
    <3> QED
      BY <3>1, <3>3
  <2>2. CASE k \notin {t} \X DOMAIN seed.config
    BY <1>4, <2>2 DEF Upsert, ConfigRows
  <2> QED
    BY <2>1, <2>2
<1> QED
  BY <1>1, <1>5, <1>6, ParametersKept

\* A reset drops the parameters, makes their table anew, or seeds it.
LEMMA ResetParameters ==
    ASSUME Whole, Parameters, SameDb \/ DroppedNow \/ MigratedNow \/ SeededNow, handler' = handler, lost' = lost
    PROVE  Parameters'
<1>1. CASE SameDb
  BY <1>1 DEF Parameters, SameDb, Told, Asking, At, Exists
<1>2. CASE DroppedNow
  BY <1>2 DEF DroppedNow, Parameters, Exists
<1>3. CASE MigratedNow
  <2>1. DOMAIN db'.config = {}
    BY <1>3 DEF MigratedNow, Migrated, EmptyTable
  <2> QED
    BY <2>1 DEF Parameters
<1> QED
  BY <1>1, <1>2, <1>3, SeedParameters

\* A row that a request wrote is its own to tell of.
LEMMA UpsertParameters ==
    ASSUME Whole, Requests, Parameters, NEW h \in Handlers, UpsertConfigValue(h)
    PROVE  Parameters'
<1>1. PICK r : r = handler[h]
  BY Zenon
<1>2. /\ DOMAIN r = AskFields /\ r.pc = "upsert" /\ r.key \in DOMAIN Specs /\ Accepts(r.key, r.value)
      /\ ~Asking(h)
  BY <1>1 DEF UpsertConfigValue, Requests, At, Free, Asking
<1>3. \A g \in Handlers : g # h => handler'[g] = handler[g]
  BY DEF Requests, UpsertConfigValue, Finish
<1>4. CASE db' = db /\ lost' = lost
  <2>1. Remembers({})
    BY <1>2, <1>3, <1>4 DEF Remembers, Asking, At, Event, About
  <2> QED
    BY <1>4, <2>1, ParametersKept DEF Exists
<1>5. CASE /\ Wrote(r.id, r.key, r.value) /\ handler' = [handler EXCEPT ![h].pc = "reread"]
           /\ lost' = lost \ {<<r.id, r.key>>}
  <2>1. handler'[h] = [r EXCEPT !.pc = "reread"]
    BY <1>1, <1>5 DEF Requests
  <2>2. handler'[h].pc = "reread" /\ handler'[h].id = r.id /\ handler'[h].key = r.key /\ handler'[h].value = r.value
    BY <1>2, <2>1 DEF AskFields
  <2>3. PICK c, e : /\ e = db' /\ e = [db EXCEPT !.config = c]
                    /\ c = Insert(db.config, <<r.id, r.key>>, [value |-> r.value, by |-> "admin"])
    BY <1>5, Zenon DEF Wrote
  <2>4. e.config = c /\ e.audit = db.audit
    BY <1>5, <2>3, ConfigMove DEF Wrote, Whole, Schema
  <2>5. Remembers({<<r.id, r.key>>})
    BY <1>2, <1>3, <1>5, <2>3, <2>4 DEF Remembers, Asking, At, Event, About
  <2>6. ASSUME NEW k \in DOMAIN db'.config, k = <<r.id, r.key>>
        PROVE  \E v : v = db'.config[k].value /\ Fits(k, v) /\ Accounted(k, v)'
    <3>1. db'.config[k].value = r.value
      BY <2>3, <2>4, <2>6 DEF Insert
    <3>2. Fits(k, r.value)
      BY <1>2, <2>6 DEF Fits
    <3>3. Asking(h)'
      BY <2>2 DEF Asking, At
    <3>4. Event(handler[h])' = EventOf(k, r.value)
      BY <2>2, <2>6 DEF Event, EventOf
    <3>5. Accounted(k, r.value)'
      BY <3>3, <3>4 DEF Accounted, EventOf
    <3> QED
      BY <3>1, <3>2, <3>5
  <2>7. ASSUME NEW k \in DOMAIN db'.config, k # <<r.id, r.key>>
        PROVE  k \in DOMAIN db.config \ {<<r.id, r.key>>} /\ db'.config[k] = db.config[k]
    BY <2>3, <2>4, <2>7 DEF Insert
  <2>8. Exists
    BY <1>5 DEF Wrote
  <2> QED
    BY <2>5, <2>6, <2>7, <2>8, OtherParametersKept
<1> QED
  BY <1>1, <1>4, <1>5, Zenon DEF UpsertConfigValue, Wrote

\* A request whose row is gone has nothing to tell.
LEMMA RereadParameters ==
    ASSUME Requests, Parameters, NEW h \in Handlers, RereadConfigRow(h)
    PROVE  Parameters'
<1>1. /\ DOMAIN handler[h] = AskFields /\ db' = db /\ lost' = lost /\ At(h, "reread")
      /\ \A g \in Handlers : g # h => handler'[g] = handler[g]
  BY DEF RereadConfigRow, Requests, At, Free, Finish
<1>2. CASE handler' = [handler EXCEPT ![h].pc = "record"]
  <2>1. handler'[h] = [handler[h] EXCEPT !.pc = "record"]
    BY <1>2 DEF Requests
  <2>2. handler'[h].pc = "record" /\ handler'[h].id = handler[h].id /\ handler'[h].key = handler[h].key
        /\ handler'[h].value = handler[h].value
    BY <1>1, <2>1 DEF AskFields
  <2>3. Remembers({})
    BY <1>1, <2>2 DEF Remembers, Asking, At, Event, About
  <2> QED
    BY <1>1, <2>3, ParametersKept DEF Exists
<1>3. CASE Exists => <<handler[h].id, handler[h].key>> \notin DOMAIN db.config
  <2> SUFFICES ASSUME Exists', NEW k \in DOMAIN db'.config
               PROVE  \E v : v = db'.config[k].value /\ Fits(k, v) /\ Accounted(k, v)'
    BY Zenon DEF Parameters, Fits, Accounted, SetBySeed, EventOf, Told, BothSeeds
  <2>0. ASSUME NEW v, v = db'.config[k].value PROVE Fits(k, v) /\ Accounted(k, v)'
    <3>1. Exists /\ k \in DOMAIN db.config /\ Fits(k, v) /\ Accounted(k, v)
      BY <1>1, <2>0, ParametersMeans DEF Exists
    <3>2. Event(handler[h]) # EventOf(k, v)
      <4>1. k = <<k[1], k[2]>>
        BY <3>1 DEF Fits
      <4>2. Event(handler[h]).id = handler[h].id /\ Event(handler[h]).key = handler[h].key
        BY DEF Event
      <4>3. EventOf(k, v).id = k[1] /\ EventOf(k, v).key = k[2]
        BY DEF EventOf
      <4> QED
        BY <1>3, <3>1, <4>1, <4>2, <4>3
    <3>3. ASSUME NEW g \in Handlers, Asking(g), Event(handler[g]) = EventOf(k, v) PROVE Accounted(k, v)'
      <4>1. handler'[g] = handler[g]
        BY <1>1, <3>2, <3>3
      <4> QED
        BY <3>3, <4>1 DEF Accounted, Asking, At, Event
    <3>4. ASSUME SetBySeed(k, v) PROVE Accounted(k, v)'
      BY <3>4 DEF Accounted
    <3>5. ASSUME EventOf(k, v) \in db.audit \/ k \in lost PROVE Accounted(k, v)'
      BY <1>1, <3>5 DEF Accounted
    <3> QED
      BY <3>1, <3>3, <3>4, <3>5 DEF Accounted
  <2> QED
    BY <2>0, Zenon
<1> QED
  BY <1>2, <1>3 DEF RereadConfigRow

\* An event that is recorded accounts for its row, and so does one known to be lost.
LEMMA RecordParameters ==
    ASSUME Whole, Requests, Parameters, NEW h \in Handlers, RecordChange(h)
    PROVE  Parameters'
<1>1. \A g \in Handlers : g # h => handler'[g] = handler[g]
  BY DEF RecordChange, Requests, Finish
<1>2. CASE Recorded(Event(handler[h])) /\ lost' = lost
  <2>1. PICK a, e : a = db.audit \cup {Event(handler[h])} /\ e = db' /\ e = [db EXCEPT !.audit = a]
    BY <1>2, Zenon DEF Recorded
  <2>2. Exists /\ IsSchema(db)
    BY <1>2 DEF Recorded, Whole, Schema
  <2>3. e.audit = a /\ e.config = db.config
    BY <2>1, <2>2, AuditMove
  <2>4. Remembers({})
    BY <1>1, <1>2, <2>1, <2>3 DEF Remembers, Asking, At, Event, About
  <2> QED
    BY <2>1, <2>2, <2>3, <2>4, ParametersKept
<1>3. CASE lost' = lost \cup {About(h)} /\ db' = db
  <2>1. Remembers({})
    BY <1>1, <1>3 DEF Remembers, Asking, At, Event, About
  <2> QED
    BY <1>3, <2>1, ParametersKept DEF Exists
<1> QED
  BY <1>2, <1>3, Zenon DEF RecordChange, Recorded, About

\* A parameter taken away needs no account.
LEMMA ClearParameters ==
    ASSUME Whole, Requests, Parameters, NEW h \in Handlers, NEW id, NEW key, ResetConfigValue(h, id, key)
    PROVE  Parameters'
<1>1. PICK c, e : e = db' /\ e = [db EXCEPT !.config = c] /\ c = Delete(db.config, <<id, key>>)
  BY Zenon DEF ResetConfigValue
<1>2. Exists /\ IsSchema(db)
  BY DEF ResetConfigValue, Whole, Schema
<1>3. e.config = c /\ e.audit = db.audit
  BY <1>1, <1>2, ConfigMove
<1>4. (\A g \in Handlers : g # h => handler'[g] = handler[g]) /\ ~Asking(h) /\ lost' = lost \ {<<id, key>>}
  BY DEF ResetConfigValue, Requests, Asking, At
<1>5. Remembers({<<id, key>>})
  BY <1>1, <1>3, <1>4 DEF Remembers, Asking, At, Event, About
<1>6. \A k \in DOMAIN c : k \in DOMAIN db.config \ {<<id, key>>} /\ c[k] = db.config[k]
  BY <1>1 DEF Delete, DeleteAll
<1> QED
  BY <1>1, <1>2, <1>3, <1>5, <1>6, OtherParametersKept

\* A request that begins has written nothing yet.
LEMMA BeginParameters ==
    ASSUME Requests, Parameters, NEW h \in Handlers, NEW id, NEW key, NEW value, BeginSet(h, id, key, value)
    PROVE  Parameters'
<1>1. /\ \A g \in Handlers : g # h => handler'[g] = handler[g]
      /\ ~Asking(h) /\ lost' = lost /\ db' = db
  BY DEF BeginSet, Requests, Asking, At
<1>2. Remembers({})
  BY <1>1 DEF Remembers, Asking, At, Event, About
<1> QED
  BY <1>1, <1>2, ParametersKept DEF Exists

\* A new tenant has no parameters of its own.
LEMMA CreateParameters ==
    ASSUME Whole, Parameters, NEW new, CreateTenant(new)
    PROVE  Parameters'
<1>1. PICK tn, ca, pe, e :
        e = db' /\ e = [db EXCEPT !.tenants = tn, !.drawn = db.drawn + 1, !.categories = ca, !.permissions = pe]
  BY Zenon DEF CreateTenant
<1>2. Exists /\ DOMAIN db = Columns /\ handler' = handler /\ lost' = lost
  BY ColumnsOf DEF Whole, Schema, CreateTenant
<1>3. e.config = db.config /\ e.audit = db.audit
  BY <1>1, <1>2 DEF Columns
<1>4. Remembers({})
  BY <1>1, <1>2, <1>3 DEF Remembers, Asking, At, Event, About
<1> QED
  BY <1>1, <1>2, <1>3, <1>4, ParametersKept

\* No step leaves a parameter unaccounted for.
LEMMA ParametersStep == ASSUME Whole, Runners, Requests, Parameters, [Next]_vars PROVE Parameters'
<1>1. CASE UNCHANGED vars
  BY <1>1, ResetParameters DEF vars, stores, SameDb
<1>2. ASSUME NEW p \in Replicas, ResetStep(p), handler' = handler, lost' = lost PROVE Parameters'
  BY <1>2, ResetDb, ResetParameters
<1>3. ASSUME NEW h \in Handlers, Request(h) PROVE Parameters'
  BY <1>3, UpsertParameters, RereadParameters, RecordParameters, ClearParameters, BeginParameters DEF Request
<1>4. ASSUME NEW new \in NewTenants, CreateTenant(new) PROVE Parameters'
  BY <1>4, CreateParameters
<1>5. ASSUME NEW seed \in BothSeeds, SeedScript(seed) PROVE Parameters'
  <2>1. SeededNow /\ handler' = handler /\ lost' = lost
    BY <1>5, Zenon DEF SeedScript, SeededNow
  <2> QED
    BY <2>1, ResetParameters
<1>6. ASSUME NEW b \in Blobs, Upload(b) PROVE Parameters'
  BY <1>6, ResetParameters DEF Upload, SameDb
<1>7. CASE MigrateScript \/ EmptyDatabase
  BY <1>7, OperatorDb, ResetParameters
<1> QED
  BY <1>1, <1>2, <1>3, <1>4, <1>5, <1>6, <1>7 DEF Next, Administer, BothSeeds

\* What the property says of a parameter follows.
LEMMA ParametersAccount ==
    ASSUME Parameters
    PROVE  ConfigIsAccountedFor
<1> SUFFICES ASSUME Exists, NEW k \in DOMAIN db.config, NEW told,
                    told = [id |-> k[1], key |-> k[2], value |-> db.config[k].value]
             PROVE  /\ Accepts(k[2], told.value)
                    /\ \/ \E seed \in {DevTenant, QaTenantB} :
                             k[2] \in DOMAIN seed.config /\ told.value = seed.config[k[2]]
                       \/ told \in db.audit \/ k \in lost
                       \/ \E h \in Handlers : handler[h].pc \in {"reread", "record"} /\ Event(handler[h]) = told
                    /\ ConfigParameters(db, k[1], 50)[k[2]].value = ConfigValue(db, k[1], k[2])
  BY Zenon DEF ConfigIsAccountedFor
<1>1. PICK v : v = db.config[k].value /\ told.value = v
  BY Zenon
<1>2. Fits(k, v) /\ Accounted(k, v) /\ told = EventOf(k, v)
  BY <1>1, ParametersMeans DEF EventOf
<1>3. k[2] \in DOMAIN Specs /\ k[2] # "storage_quota_gb" /\ <<k[1], k[2]>> \in DOMAIN db.config
      /\ db.config[<<k[1], k[2]>>].value = v
  BY <1>1, <1>2 DEF Fits, Accepts, Specs
<1>4. ConfigValue(db, k[1], k[2]) = v
  BY <1>3 DEF ConfigValue, StoredValue
<1>5. ConfigParameters(db, k[1], 50)[k[2]].value = v
  BY <1>3 DEF ConfigParameters
<1> QED
  BY <1>1, <1>2, <1>4, <1>5, Zenon DEF Fits, Accounted, SetBySeed, Asking, At, BothSeeds

-----------------------------------------------------------------------------
(* A reset that nobody disturbs. *)

\* Nobody disturbed a reset: the stages it has passed hold still.
Lone(p) == Running(p) /\ job[p].alone
\* The schema the transactions of a seed left so far have made of a new one.
FreshFor(name, left) ==
    \/ left = 0 /\ db = Migrated(db.drawn)
    \/ left = 1 /\ db.drawn - 1 \in Nat /\ db = SeedTenant(Migrated(db.drawn - 1), DevTenant)
\* The schema is the whole seed on a new one.
SeededWhole(name) ==
    /\ db.drawn - Len(Transactions(name)) \in Nat
    /\ db = Seeded(Migrated(db.drawn - Len(Transactions(name))), name)
AfterPurge == {"delete_index", "create_index", "flush"}
AfterSeed == {"list", "purge"} \cup AfterPurge
Undisturbed(p) ==
    /\ job[p].stage \in {"drop", "migrate"} => job[p].left = 0
    /\ job[p].stage = "migrate" => ~Exists
    /\ job[p].stage = "seed" => (Exists => FreshFor(job[p].seed, job[p].left))
    /\ job[p].stage \in AfterSeed => SeededWhole(job[p].seed)
    /\ job[p].stage = "purge" => job[p].full \/ stored \subseteq job[p].listed
    /\ job[p].stage \in AfterPurge => job[p].full \/ stored = {}
    /\ job[p].stage = "create_index" => index = "absent"
    /\ job[p].stage = "flush" => index = "empty"
Lonely == stored \subseteq Blobs /\ \A p \in Replicas : Lone(p) => Undisturbed(p)

\* A running job with one field changed.
LEMMA JobField ==
    ASSUME NEW j, DOMAIN j = JobFields, NEW f \in JobFields, NEW x, NEW r, r = [j EXCEPT ![f] = x]
    PROVE  DOMAIN r = JobFields /\ r[f] = x /\ \A g \in JobFields : g # f => r[g] = j[g]
OBVIOUS

\* What a replica's write to the stores does to the other replicas' jobs.
LEMMA Disturbs ==
    ASSUME Runners, NEW p \in Replicas, NEW r, Job(r), job' = [Disturbed(p) EXCEPT ![p] = r]
    PROVE  Runners' /\ job'[p] = r /\ \A q \in Replicas : q # p => ~Lone(q)' /\ (Running(q)' <=> Running(q))
<1>1. job'[p] = r /\ \A q \in Replicas : q # p => job'[q] = IF job[q].status = "running" THEN [job[q] EXCEPT !.alone = FALSE] ELSE job[q]
  BY DEF Disturbed
<1>2. ASSUME NEW q \in Replicas, q # p PROVE Job(job'[q]) /\ ~Lone(q)' /\ (Running(q)' <=> Running(q))
  <2>1. CASE job[q].status = "running"
    <3>1. DOMAIN job[q] = JobFields /\ Job(job[q])
      BY <2>1 DEF Runners, Job
    <3>2. PICK s : s = job'[q] /\ s = [job[q] EXCEPT !.alone = FALSE]
      BY <1>1, <1>2, <2>1, Zenon
    <3>3. DOMAIN s = JobFields /\ s.alone = FALSE /\ s.status = job[q].status /\ s.stage = job[q].stage
          /\ s.seed = job[q].seed /\ s.left = job[q].left /\ s.full = job[q].full
      BY <3>1, <3>2 DEF JobFields
    <3>4. Job(s)
      BY <2>1, <3>1, <3>3 DEF Job
    <3> QED
      BY <2>1, <3>2, <3>3, <3>4 DEF Lone, Running
  <2>2. CASE job[q].status # "running"
    BY <1>1, <1>2, <2>2 DEF Runners, Lone, Running
  <2> QED
    BY <2>1, <2>2
<1>3. job' = [q \in Replicas |-> job'[q]]
  BY DEF Disturbed
<1>4. \A q \in Replicas : Job(job'[q])
  BY <1>1, <1>2
<1> QED
  BY <1>1, <1>2, <1>3, <1>4 DEF Runners

\* The record of a running job.
LEMMA StagesRun ==
    ASSUME Runners, NEW p \in Replicas, Running(p)
    PROVE  /\ DOMAIN job[p] = JobFields /\ Job(job[p]) /\ job[p].status = "running"
           /\ job[p].stage \in Stages /\ job[p].seed \in Seeding /\ job[p].left \in Nat
           /\ job[p].left < Len(Transactions(job[p].seed)) /\ job[p].full \in BOOLEAN /\ job[p].alone \in BOOLEAN
BY DEF Runners, Job, Running

\* The next stage of a job.
Onward(p, j) ==
    /\ Running(p)' /\ DOMAIN j = JobFields /\ j.stage = NextStage(job[p].stage) /\ j.seed = job[p].seed
    /\ j.left = job[p].left /\ j.listed = job[p].listed /\ j.full = job[p].full /\ j.alone = job[p].alone

\* A stage done: the job is at the next, and no other replica's is alone.
LEMMA GoesOnward ==
    ASSUME Runners, NEW p \in Replicas, Running(p), Goes(p), ~Stage(p, "flush")
    PROVE  /\ Runners' /\ \A q \in Replicas : q # p => ~Lone(q)' /\ (Running(q)' <=> Running(q))
           /\ Onward(p, job'[p])
<1>1. PICK r : r = [job[p] EXCEPT !.stage = NextStage(job[p].stage)]
  BY Zenon
<1>2. Disturbed(p)[p] = job[p]
  BY DEF Disturbed
<1>3. job' = [Disturbed(p) EXCEPT ![p].stage = NextStage(@)]
  BY DEF Goes
<1>4. job' = [Disturbed(p) EXCEPT ![p] = r]
  <2>1. PICK f : f = Disturbed(p)
    BY Zenon
  <2>2. job' = [f EXCEPT ![p] = [f[p] EXCEPT !.stage = NextStage(f[p].stage)]]
    BY <1>3, <2>1
  <2> QED
    BY <1>1, <1>2, <2>1, <2>2
<1>5. /\ DOMAIN r = JobFields /\ r.stage = NextStage(job[p].stage) /\ r.seed = job[p].seed /\ r.left = job[p].left
      /\ r.listed = job[p].listed /\ r.full = job[p].full /\ r.alone = job[p].alone /\ r.status = job[p].status
  BY <1>1, StagesRun DEF JobFields
<1>6. NextStage(job[p].stage) \in Stages
  BY StagesRun DEF Stages, NextStage, Stage
<1>7. Job(r)
  BY <1>5, <1>6, StagesRun DEF Job
<1>8. job'[p] = r /\ Runners' /\ \A q \in Replicas : q # p => ~Lone(q)' /\ (Running(q)' <=> Running(q))
  BY <1>4, <1>7, Disturbs
<1> QED
  BY <1>5, <1>8 DEF Onward, Running

\* A job ended, well or not: no other replica's is alone.
LEMMA EndsJob ==
    ASSUME Runners, NEW p \in Replicas, NEW status \in {"succeeded", "failed"}, Ended(p, status)
    PROVE  /\ Runners' /\ \A q \in Replicas : q # p => ~Lone(q)' /\ (Running(q)' <=> Running(q))
           /\ job'[p] = [status |-> status] /\ ~Running(p)'
<1>1. Job([status |-> status])
  BY DEF Job
<1>2. job' = [Disturbed(p) EXCEPT ![p] = [status |-> status]]
  BY DEF Ended
<1>3. job'[p] = [status |-> status] /\ Runners' /\ \A q \in Replicas : q # p => ~Lone(q)' /\ (Running(q)' <=> Running(q))
  BY <1>1, <1>2, Disturbs
<1> QED
  BY <1>3 DEF Running

\* The seeds of a reset, from a schema that was just made.
LEMMA SeedFromNothing ==
    ASSUME NEW n \in Nat, NEW d, d = SeedTenant(Migrated(n), DevTenant), NEW e, e = SeedTenant(d, QaTenantB)
    PROVE  IsSchema(d) /\ d.drawn = n + 1 /\ IsSchema(e) /\ e.drawn = n + 2
<1>1. PICK m : m = Migrated(n)
  BY Zenon
<1>2. IsSchema(m) /\ DOMAIN m.tenants = {} /\ m.drawn = n
  BY <1>1 DEF Migrated, IsSchema, EmptyTable
<1>3. TenantId(m, DevTenant) = n + 1
  BY <1>2 DEF TenantId, SubdomainTaken
<1>4. IsSchema(d) /\ SeedWritten(m, DevTenant, n + 1, d)
  BY <1>1, <1>2, <1>3, SeedWrites
<1>5. d.drawn = n + 1
  BY <1>2, <1>4 DEF SeedWritten
<1>6. DOMAIN d.tenants = {DevTenant.subdomain}
  BY <1>2, <1>4 DEF SeedWritten, Insert
<1>7. TenantId(d, QaTenantB) = n + 2
  BY <1>5, <1>6, SeedsAssumption DEF TenantId, SubdomainTaken, SeedsFit
<1>8. IsSchema(e) /\ SeedWritten(d, QaTenantB, n + 2, e)
  BY <1>4, <1>7, SeedWrites
<1> QED
  BY <1>4, <1>5, <1>8 DEF SeedWritten

\* Steps that touch neither the stores nor the other jobs.
LEMMA OthersKept ==
    ASSUME NEW q, Lone(q) => Undisturbed(q), job'[q] = job[q], db' = db, stored' = stored, index' = index
    PROVE  (Lone(q) => Undisturbed(q))'
BY DEF Lone, Running, Undisturbed, Exists, FreshFor, SeededWhole

-----------------------------------------------------------------------------
(* The steps of a reset. *)

\* A job that starts has passed no stage.
LEMMA StartJobs ==
    ASSUME Runners, Lonely, NEW p \in Replicas, NEW seed \in Seeding, Start(p, seed)
    PROVE  Runners' /\ Lonely'
<1>1. PICK r, a : /\ job' = [job EXCEPT ![p] = r]
                  /\ r = [status |-> "running", stage |-> "drop", seed |-> seed, left |-> 0,
                          listed |-> {}, full |-> FALSE, alone |-> a]
                  /\ a \in BOOLEAN
  BY Zenon DEF Start
<1>2. job'[p] = r /\ (\A q \in Replicas : q # p => job'[q] = job[q]) /\ job' = [q \in Replicas |-> job'[q]]
  BY <1>1 DEF Runners
<1>3. 0 < Len(Transactions(seed))
  BY DEF Transactions
<1>4. Job(r)
  BY <1>1, <1>3 DEF Job, JobFields, Stages
<1>5. Runners'
  BY <1>2, <1>4 DEF Runners
<1>6. (Lone(p) => Undisturbed(p))'
  BY <1>1, <1>2 DEF Undisturbed, AfterSeed, AfterPurge
<1>7. ASSUME NEW q \in Replicas, q # p PROVE (Lone(q) => Undisturbed(q))'
  BY <1>2, <1>7, OthersKept DEF Lonely, Start, stores
<1> QED
  BY <1>5, <1>6, <1>7 DEF Lonely, Start, stores

\* A job that failed promises nothing.
LEMMA FailsJobs ==
    ASSUME Runners, Lonely, NEW p \in Replicas, StageFails(p)
    PROVE  Runners' /\ Lonely'
<1>1. Ended(p, "failed") /\ stored' = stored
  BY DEF StageFails, stores
<1>2. Runners' /\ (\A q \in Replicas : q # p => ~Lone(q)') /\ ~Running(p)'
  BY <1>1, EndsJob
<1> QED
  BY <1>1, <1>2 DEF Lonely, Lone

\* Nor does one that is forgotten.
LEMMA ForgetJobs ==
    ASSUME Runners, Lonely, NEW p \in Replicas, Forget(p)
    PROVE  Runners' /\ Lonely'
<1>1. job'[p] = NoJob /\ (\A q \in Replicas : q # p => job'[q] = job[q]) /\ job' = [q \in Replicas |-> job'[q]]
  BY DEF Runners, Forget
<1>2. Job(NoJob)
  BY DEF Job, NoJob
<1>3. Runners'
  BY <1>1, <1>2 DEF Runners
<1>4. (Lone(p) => Undisturbed(p))'
  BY <1>1 DEF Lone, Running, NoJob
<1>5. ASSUME NEW q \in Replicas, q # p PROVE (Lone(q) => Undisturbed(q))'
  BY <1>1, <1>5, OthersKept DEF Lonely, Forget, stores
<1> QED
  BY <1>3, <1>4, <1>5 DEF Lonely, Forget, stores

\* A stage passed by a job that is alone.
LEMMA PassesOn ==
    ASSUME Runners, Lonely, NEW p \in Replicas, Running(p), Goes(p), ~Stage(p, "flush"), stored' \subseteq Blobs,
           Lone(p) /\ Onward(p, job'[p]) => Undisturbed(p)'
    PROVE  Runners' /\ Lonely'
<1>1. Runners' /\ (\A q \in Replicas : q # p => ~Lone(q)') /\ Onward(p, job'[p])
  BY GoesOnward
<1>2. Lone(p)' => Lone(p)
  BY <1>1, StagesRun DEF Onward, Lone
<1> QED
  BY <1>1, <1>2 DEF Lonely

\* After drop there is no schema.
LEMMA DropJobs ==
    ASSUME Runners, Lonely, NEW p \in Replicas, Drop(p)
    PROVE  Runners' /\ Lonely'
<1>1. Stage(p, "drop") /\ Goes(p) /\ db' = [drawn |-> db.drawn] /\ stored' = stored
  BY DEF Drop
<1>2. Running(p) /\ ~Stage(p, "flush") /\ job[p].stage = "drop"
  BY <1>1 DEF Stage
<1>3. ASSUME Lone(p), Onward(p, job'[p]) PROVE Undisturbed(p)'
  <2>1. job'[p].stage = "migrate" /\ job'[p].left = job[p].left
    BY <1>2, <1>3 DEF Onward, NextStage
  <2>2. job[p].left = 0
    BY <1>2, <1>3 DEF Lonely, Undisturbed
  <2>3. ~Exists'
    BY <1>1 DEF Exists
  <2> QED
    BY <2>1, <2>2, <2>3 DEF Undisturbed, AfterSeed, AfterPurge
<1> QED
  BY <1>1, <1>2, <1>3, PassesOn DEF Lonely

\* After migrate there is none, or one just made.
LEMMA MigrateJobs ==
    ASSUME Whole, Runners, Lonely, NEW p \in Replicas, Migrate(p)
    PROVE  Runners' /\ Lonely'
<1>1. Stage(p, "migrate") /\ Goes(p) /\ db' \in {db, Migrated(db.drawn)} /\ stored' = stored
  BY DEF Migrate
<1>2. Running(p) /\ ~Stage(p, "flush") /\ job[p].stage = "migrate"
  BY <1>1 DEF Stage
<1>3. ASSUME Lone(p), Onward(p, job'[p]) PROVE Undisturbed(p)'
  <2>1. job'[p].stage = "seed" /\ job'[p].left = job[p].left
    BY <1>2, <1>3 DEF Onward, NextStage
  <2>2. job[p].left = 0 /\ ~Exists
    BY <1>2, <1>3 DEF Lonely, Undisturbed
  <2>3. Migrated(db.drawn).drawn = db.drawn
    BY DEF Migrated
  <2>4. Exists' => db' = Migrated(db'.drawn)
    BY <1>1, <2>2, <2>3 DEF Exists
  <2> QED
    BY <2>1, <2>2, <2>4 DEF Undisturbed, FreshFor, AfterSeed, AfterPurge
<1> QED
  BY <1>1, <1>2, <1>3, PassesOn DEF Lonely

\* After each transaction the schema is what the transactions so far make of a new one.
LEMMA SeedJobs ==
    ASSUME Whole, Runners, Lonely, NEW p \in Replicas, Seed(p)
    PROVE  Runners' /\ Lonely'
<1> DEFINE txs == Transactions(job[p].seed)
           seed == txs[job[p].left + 1]
<1>1. Stage(p, "seed") /\ Running(p) /\ ~Stage(p, "flush") /\ job[p].stage = "seed" /\ stored' = stored
  BY DEF Seed, Stage
<1>2. CASE Ended(p, "failed")
  BY <1>1, <1>2, EndsJob DEF Lonely, Lone
<1>3. ASSUME Exists, db' = SeedTenant(db, seed), job[p].left + 1 = Len(txs), Goes(p)
      PROVE  Runners' /\ Lonely'
  <2>1. ASSUME Lone(p), Onward(p, job'[p]) PROVE Undisturbed(p)'
    <3>1. job'[p].stage = "list" /\ job'[p].seed = job[p].seed
      BY <1>1, <2>1 DEF Onward, NextStage
    <3>2. FreshFor(job[p].seed, job[p].left) /\ db.drawn \in Nat
      BY <1>1, <1>3, <2>1 DEF Lonely, Undisturbed, Whole
    <3>3. CASE job[p].left = 0
      <4>1. db = Migrated(db.drawn) /\ Len(txs) = 1
        BY <1>3, <3>2, <3>3 DEF FreshFor
      <4>2. job[p].seed # "qa" /\ seed = DevTenant /\ Len(Transactions(job[p].seed)) = 1
        BY <3>3, <4>1 DEF Transactions
      <4>3. PICK n, d : n = db.drawn /\ d = SeedTenant(Migrated(n), DevTenant)
        BY Zenon
      <4>4. d = SeedTenant(db, DevTenant) /\ db' = d
        BY <1>3, <4>1, <4>2, <4>3, Zenon
      <4>5. d.drawn = n + 1
        BY <3>2, <4>3, SeedFromNothing
      <4>6. db'.drawn - 1 = n
        BY <3>2, <4>3, <4>4, <4>5
      <4>7. Seeded(Migrated(n), job[p].seed) = d
        BY <4>2, <4>3 DEF Seeded
      <4>8. SeededWhole(job[p].seed)'
        BY <3>1, <3>2, <4>2, <4>3, <4>4, <4>6, <4>7 DEF SeededWhole
      <4> QED
        BY <3>1, <4>8, <3>1 DEF Undisturbed, SeededWhole, AfterSeed, AfterPurge
    <3>4. CASE job[p].left # 0
      <4>1. job[p].left = 1 /\ Len(txs) = 2
        <5>1. job[p].left = 1
          BY <3>2, <3>4 DEF FreshFor
        <5>2. Len(txs) = 1 + 1
          BY <1>3, <5>1
        <5> QED
          BY <5>1, <5>2
      <4>2. job[p].seed = "qa" /\ seed = QaTenantB /\ Len(Transactions(job[p].seed)) = 2
        BY <4>1 DEF Transactions
      <4>3. PICK n, d, e : n = db.drawn - 1 /\ d = SeedTenant(Migrated(n), DevTenant) /\ e = SeedTenant(d, QaTenantB)
        BY Zenon
      <4>4. n \in Nat /\ d = db /\ e = db'
        <5>1. db.drawn - 1 \in Nat /\ db = SeedTenant(Migrated(db.drawn - 1), DevTenant)
          <6>1. job[p].left # 0
            BY <3>4
          <6> QED
            BY <1>3, <3>2, <6>1, Zenon DEF FreshFor
        <5>2. d = db
          BY <4>3, <5>1, Zenon
        <5>3. db' = SeedTenant(db, QaTenantB)
          BY <1>3, <4>2, Zenon
        <5>4. e = db'
          BY <4>3, <5>2, <5>3, Zenon
        <5>5. n \in Nat
          BY <4>3, <5>1, Zenon
        <5> QED
          BY <5>2, <5>4, <5>5, Zenon
      <4>5. e.drawn = n + 2
        BY <4>3, <4>4, SeedFromNothing
      <4>6. db'.drawn - 2 = n
        BY <4>4, <4>5
      <4>7. Seeded(Migrated(n), job[p].seed) = e
        BY <4>2, <4>3 DEF Seeded
      <4>8. SeededWhole(job[p].seed)'
        BY <3>1, <4>2, <4>4, <4>6, <4>7 DEF SeededWhole
      <4> QED
        BY <3>1, <4>8, <3>1 DEF Undisturbed, SeededWhole, AfterSeed, AfterPurge
    <3> QED
      BY <3>3, <3>4
  <2> QED
    BY <1>1, <1>3, <2>1, PassesOn DEF Lonely
<1>4. ASSUME Exists, db' = SeedTenant(db, seed), job[p].left + 1 # Len(txs),
             job' = [Disturbed(p) EXCEPT ![p].left = @ + 1]
      PROVE  Runners' /\ Lonely'
  <2>1. PICK r : r = [job[p] EXCEPT !.left = job[p].left + 1]
    BY Zenon
  <2>2. job' = [Disturbed(p) EXCEPT ![p] = r]
    <3>1. PICK f : f = Disturbed(p)
      BY Zenon
    <3>2. f[p] = job[p]
      BY <3>1 DEF Disturbed
    <3>3. job' = [f EXCEPT ![p] = [f[p] EXCEPT !.left = f[p].left + 1]]
      BY <1>4, <3>1
    <3> QED
      BY <2>1, <3>1, <3>2, <3>3
  <2>3. /\ DOMAIN r = JobFields /\ r.stage = "seed" /\ r.seed = job[p].seed /\ r.left = job[p].left + 1
        /\ r.full = job[p].full /\ r.alone = job[p].alone /\ r.status = "running"
    BY <1>1, <2>1, StagesRun DEF JobFields, Running
  <2>4. job[p].left \in Nat /\ job[p].left + 1 < Len(txs) /\ Len(txs) \in Nat /\ job[p].left + 1 \in Nat
    <3>1. job[p].left \in Nat /\ job[p].left < Len(txs)
      BY <1>1, StagesRun
    <3>2. Len(txs) \in {1, 2}
      BY DEF Transactions
    <3> QED
      BY <1>4, <3>1, <3>2
  <2>5. Job(r)
    BY <1>1, <2>3, <2>4, StagesRun DEF Job
  <2>6. Runners' /\ job'[p] = r /\ (\A q \in Replicas : q # p => ~Lone(q)')
    BY <2>2, <2>5, Disturbs
  <2>7. ASSUME Lone(p) PROVE Undisturbed(p)'
    <3>1. Len(txs) = 2 /\ job[p].left = 0 /\ r.left = 1
      <4>1. Len(txs) = 1 \/ Len(txs) = 2
        BY DEF Transactions
      <4>2. \A n \in Nat : \A m : n + 1 < m /\ (m = 1 \/ m = 2) => n = 0 /\ m = 2
        OBVIOUS
      <4>3. job[p].left = 0 /\ Len(txs) = 2
        BY <2>4, <4>1, <4>2, Zenon
      <4>4. r.left = 0 + 1
        BY <2>3, <4>3
      <4> QED
        BY <4>3, <4>4
    <3>2. seed = DevTenant
      BY <3>1 DEF Transactions
    <3>3. db = Migrated(db.drawn) /\ db.drawn \in Nat
      BY <1>1, <1>4, <2>7, <3>1 DEF Lonely, Undisturbed, FreshFor, Whole
    <3>4. PICK n, d : n = db.drawn /\ d = SeedTenant(Migrated(n), DevTenant)
      BY Zenon
    <3>5. d = db' /\ d.drawn = n + 1
      <4>1. d = SeedTenant(db, DevTenant)
        BY <3>3, <3>4, Zenon
      <4>2. d.drawn = n + 1
        BY <3>3, <3>4, SeedFromNothing
      <4> QED
        BY <1>4, <3>2, <4>1, <4>2, Zenon
    <3>6. db'.drawn - 1 = n
      BY <3>3, <3>4, <3>5
    <3>7. (db.drawn - 1 \in Nat /\ db = SeedTenant(Migrated(db.drawn - 1), DevTenant))'
      BY <3>3, <3>4, <3>5, <3>6
    <3> QED
      BY <2>3, <2>6, <3>1, <3>7 DEF Undisturbed, FreshFor, AfterSeed, AfterPurge
  <2>8. Lone(p)' => Lone(p)
    BY <1>1, <2>3, <2>6 DEF Lone
  <2> QED
    BY <1>1, <2>6, <2>7, <2>8 DEF Lonely
<1> HIDE DEF seed, txs
<1>5. \/ Ended(p, "failed")
      \/ /\ Exists /\ db' = SeedTenant(db, seed)
         /\ \/ job[p].left + 1 = Len(txs) /\ Goes(p)
            \/ job[p].left + 1 # Len(txs) /\ job' = [Disturbed(p) EXCEPT ![p].left = @ + 1]
  BY Zenon DEF Seed, seed, txs
<1> QED
  BY <1>2, <1>3, <1>4, <1>5

\* What was listed is all that is stored, or the page was full.
LEMMA ListJobs ==
    ASSUME Runners, Lonely, NEW p \in Replicas, ListBlobs(p)
    PROVE  Runners' /\ Lonely'
<1>1. Stage(p, "list") /\ Running(p) /\ job[p].stage = "list" /\ UNCHANGED stores
  BY DEF ListBlobs, Stage
<1>2. PICK listed \in SUBSET stored :
        /\ Cardinality(listed) = IF Cardinality(stored) > Page THEN Page ELSE Cardinality(stored)
        /\ job' = [job EXCEPT ![p].listed = listed, ![p].stage = "purge", ![p].full = Cardinality(stored) > Page]
  BY DEF ListBlobs
<1>3. PICK full \in BOOLEAN : full <=> Cardinality(stored) > Page
  OBVIOUS
<1>4. PICK r : r = [job[p] EXCEPT !.listed = listed, !.stage = "purge", !.full = full]
  BY Zenon
<1>5. job'[p] = r /\ (\A q \in Replicas : q # p => job'[q] = job[q]) /\ job' = [q \in Replicas |-> job'[q]]
  <2>1. (Cardinality(stored) > Page) = full
    BY <1>3
  <2>2. job' = [job EXCEPT ![p].listed = listed, ![p].stage = "purge", ![p].full = full]
    BY <1>2, <2>1, Zenon
  <2> QED
    BY <1>4, <2>2 DEF Runners
<1>6. /\ DOMAIN r = JobFields /\ r.stage = "purge" /\ r.seed = job[p].seed /\ r.left = job[p].left
      /\ r.full = full /\ r.alone = job[p].alone /\ r.status = "running" /\ r.listed = listed
  BY <1>1, <1>4, StagesRun DEF JobFields
<1>7. Job(r)
  BY <1>1, <1>6, StagesRun DEF Job, Stages
<1>8. Runners'
  BY <1>5, <1>7 DEF Runners
<1>9. ASSUME Lone(p) PROVE Undisturbed(p)'
  <2>1. SeededWhole(job[p].seed)
    BY <1>1, <1>9 DEF Lonely, Undisturbed, AfterSeed
  <2>2. full \/ stored = listed
    <3>1. IsFiniteSet(stored)
      BY ResetAssumption, FS_Subset DEF Lonely
    <3>2. ASSUME ~full PROVE Cardinality(listed) = Cardinality(stored)
      BY <1>2, <1>3, <3>2
    <3> QED
      BY <3>1, <3>2, FS_Subset
  <2> QED
    BY <1>1, <1>5, <1>6, <2>1, <2>2 DEF Undisturbed, AfterSeed, AfterPurge, stores, SeededWhole
<1>10. Lone(p)' => Lone(p)
  BY <1>1, <1>5, <1>6 DEF Lone
<1>11. ASSUME NEW q \in Replicas, q # p PROVE (Lone(q) => Undisturbed(q))'
  BY <1>1, <1>5, <1>11, OthersKept DEF Lonely, stores
<1> QED
  BY <1>1, <1>8, <1>9, <1>10, <1>11 DEF Lonely, stores

\* Then nothing is stored, or the page was full.
LEMMA PurgeJobs ==
    ASSUME Runners, Lonely, NEW p \in Replicas, PurgeBlobs(p)
    PROVE  Runners' /\ Lonely'
<1>1. Stage(p, "purge") /\ Goes(p) /\ stored' = stored \ job[p].listed /\ db' = db
  BY DEF PurgeBlobs
<1>2. Running(p) /\ ~Stage(p, "flush") /\ job[p].stage = "purge"
  BY <1>1 DEF Stage
<1>3. ASSUME Lone(p), Onward(p, job'[p]) PROVE Undisturbed(p)'
  <2>1. job'[p].stage = "delete_index" /\ job'[p].seed = job[p].seed /\ job'[p].full = job[p].full
    BY <1>2, <1>3 DEF Onward, NextStage
  <2>2. SeededWhole(job[p].seed) /\ (job[p].full \/ stored \subseteq job[p].listed)
    BY <1>2, <1>3 DEF Lonely, Undisturbed, AfterSeed
  <2> QED
    BY <1>1, <2>1, <2>2 DEF Undisturbed, SeededWhole, AfterSeed, AfterPurge
<1> QED
  BY <1>1, <1>2, <1>3, PassesOn DEF Lonely

\* The index is deleted, and then made anew.
LEMMA IndexJobs ==
    ASSUME Runners, Lonely, NEW p \in Replicas, DeleteIndex(p) \/ CreateIndex(p)
    PROVE  Runners' /\ Lonely'
<1>1. /\ Goes(p) /\ stored' = stored /\ db' = db
      /\ \/ Stage(p, "delete_index") /\ index' = "absent"
         \/ Stage(p, "create_index") /\ index' = IF index = "absent" THEN "empty" ELSE index
  BY DEF DeleteIndex, CreateIndex
<1>2. Running(p) /\ ~Stage(p, "flush") /\ job[p].stage \in {"delete_index", "create_index"}
  BY <1>1 DEF Stage
<1>3. ASSUME Lone(p), Onward(p, job'[p]) PROVE Undisturbed(p)'
  <2>1. job'[p].stage = NextStage(job[p].stage) /\ job'[p].seed = job[p].seed /\ job'[p].full = job[p].full
    BY <1>3 DEF Onward
  <2>2. SeededWhole(job[p].seed) /\ (job[p].full \/ stored = {})
    BY <1>2, <1>3 DEF Lonely, Undisturbed, AfterSeed, AfterPurge
  <2>3. job[p].stage = "create_index" => index = "absent"
    BY <1>3 DEF Lonely, Undisturbed
  <2>4. SeededWhole(job[p].seed)'
    BY <1>1, <2>1, <2>2 DEF SeededWhole
  <2> QED
    BY <1>1, <1>2, <2>1, <2>2, <2>3, <2>4 DEF Undisturbed, AfterSeed, AfterPurge, NextStage, Stage, SeededWhole
<1> QED
  BY <1>1, <1>2, <1>3, PassesOn DEF Lonely

\* The flush is the last stage.
LEMMA FlushJobs ==
    ASSUME Runners, Lonely, NEW p \in Replicas, FlushQueue(p)
    PROVE  Runners' /\ Lonely'
<1>1. Ended(p, "succeeded") /\ stored' = stored
  BY DEF FlushQueue, Goes
<1>2. Runners' /\ (\A q \in Replicas : q # p => ~Lone(q)') /\ ~Running(p)'
  BY <1>1, EndsJob
<1> QED
  BY <1>1, <1>2 DEF Lonely, Lone

\* Each step of a reset keeps what the resets rely on.
LEMMA ResetJobs ==
    ASSUME Whole, Runners, Lonely, NEW p \in Replicas, ResetStep(p)
    PROVE  Runners' /\ Lonely'
BY StartJobs, FailsJobs, DropJobs, MigrateJobs, SeedJobs, ListJobs, PurgeJobs, IndexJobs, FlushJobs, ForgetJobs
   DEF ResetStep

\* Whoever else writes is noticed.
LEMMA NoticedJobs ==
    ASSUME Runners, Lonely, Noticed, stored' \subseteq Blobs
    PROVE  Runners' /\ Lonely'
<1>1. CASE job' = job /\ db' = db /\ stored' = stored /\ index' = index
  BY <1>1, OthersKept DEF Runners, Lonely
<1>2. CASE job' = [p \in Replicas |-> IF Running(p) THEN [job[p] EXCEPT !.alone = FALSE] ELSE job[p]]
  <2>1. ASSUME NEW p \in Replicas PROVE Job(job'[p]) /\ ~Lone(p)'
    <3>1. CASE Running(p)
      <4>1. PICK s : s = job'[p] /\ s = [job[p] EXCEPT !.alone = FALSE]
        BY <1>2, <3>1, Zenon
      <4>2. DOMAIN s = JobFields /\ s.alone = FALSE /\ s.status = "running" /\ s.stage = job[p].stage
            /\ s.seed = job[p].seed /\ s.left = job[p].left /\ s.full = job[p].full
        BY <3>1, <4>1, StagesRun DEF JobFields
      <4>3. Job(s)
        BY <3>1, <4>2, StagesRun DEF Job
      <4> QED
        BY <4>1, <4>2, <4>3 DEF Lone
    <3>2. CASE ~Running(p)
      BY <1>2, <3>2 DEF Runners, Lone, Running
    <3> QED
      BY <3>1, <3>2
  <2>2. job' = [p \in Replicas |-> job'[p]]
    BY <1>2
  <2> QED
    BY <2>1, <2>2 DEF Runners, Lonely
<1> QED
  BY <1>1, <1>2 DEF Noticed, stores

\* So does every step of the system.
LEMMA JobsStep == ASSUME Whole, Runners, Lonely, [Next]_vars PROVE Runners' /\ Lonely'
<1>1. CASE UNCHANGED vars
  BY <1>1, OthersKept DEF vars, stores, Runners, Lonely
<1>2. CASE Administer \/ \E seed \in {DevTenant, QaTenantB} : SeedScript(seed)
  BY <1>2, NoticedJobs DEF Administer, SeedScript, Lonely
<1>3. ASSUME NEW b \in Blobs, Upload(b) PROVE Runners' /\ Lonely'
  BY <1>3, NoticedJobs DEF Upload, Lonely
<1>4. CASE MigrateScript \/ EmptyDatabase
  BY <1>4, OperatorDb, NoticedJobs DEF Lonely
<1> QED
  BY <1>1, <1>2, <1>3, <1>4, ResetJobs DEF Next

-----------------------------------------------------------------------------
(* A seed run twice. *)

\* A table has a seed's rows: to write them again changes nothing.
HasRows(table, rows) ==
    /\ DOMAIN rows \subseteq DOMAIN table
    /\ \A k \in DOMAIN rows : table[k] = rows[k]
\* A function, as every table is.
IsTable(table) == table = [k \in DOMAIN table |-> table[k]]

\* An upsert of rows that are there changes nothing.
LEMMA WrittenAgain ==
    ASSUME NEW table, IsTable(table), NEW rows, HasRows(table, rows)
    PROVE  Upsert(table, rows) = table
<1>1. DOMAIN table \cup DOMAIN rows = DOMAIN table
  BY DEF HasRows
<1>2. \A k \in DOMAIN table : (IF k \in DOMAIN rows THEN rows[k] ELSE table[k]) = table[k]
  BY DEF HasRows
<1>3. Upsert(table, rows) = [k \in DOMAIN table |-> table[k]]
  BY <1>1, <1>2 DEF Upsert
<1> QED
  BY <1>3 DEF IsTable

\* After an upsert the rows are there.
LEMMA Written ==
    ASSUME NEW table, NEW rows
    PROVE  IsTable(Upsert(table, rows)) /\ HasRows(Upsert(table, rows), rows)
BY DEF Upsert, IsTable, HasRows

\* An upsert of other rows, or of the same, spares them.
LEMMA RowsSpared ==
    ASSUME NEW table, NEW rows, HasRows(table, rows), NEW others,
           \A k \in DOMAIN rows \cap DOMAIN others : others[k] = rows[k]
    PROVE  HasRows(Upsert(table, others), rows)
BY DEF Upsert, HasRows

\* A schema in which a seed has been run.
Ran(d, seed) ==
    /\ IsSchema(d)
    /\ IsTable(d.tenants) /\ seed.subdomain \in DOMAIN d.tenants
    /\ d.tenants[seed.subdomain].id <= d.drawn
    /\ d.tenants[seed.subdomain] = [id |-> d.tenants[seed.subdomain].id, name |-> seed.name]
    /\ IsTable(d.users) /\ IsTable(d.config) /\ IsTable(d.categories) /\ IsTable(d.permissions)
    /\ IsTable(d.documents) /\ IsTable(d.versions) /\ IsTable(d.enriched) /\ IsTable(d.sessions)
    /\ HasRows(d.users, UserRows(seed, d.tenants[seed.subdomain].id))
    /\ HasRows(d.config, ConfigRows(seed, d.tenants[seed.subdomain].id))
    /\ HasRows(d.categories, OwnRows(seed, d.tenants[seed.subdomain].id, SystemColumn(seed)))
    /\ HasRows(d.permissions, OwnRows(seed, d.tenants[seed.subdomain].id, seed.downloads))
    /\ HasRows(d.documents, DocumentRows(d, seed, d.tenants[seed.subdomain].id))
    /\ HasRows(d.versions, VersionRows(seed))
    /\ HasRows(d.enriched, EnrichedRows(seed, d.tenants[seed.subdomain].id))
    /\ HasRows(d.sessions, SessionRows(seed))

\* A seed run on a schema in which it has run changes nothing.
LEMMA RunAgain ==
    ASSUME NEW d, NEW seed, Ran(d, seed), d.drawn \in Nat, d.tenants[seed.subdomain].id \in Nat
    PROVE  SeedTenant(d, seed) = d
<1>1. PICK t, e : t = d.tenants[seed.subdomain].id /\ e = SeedTenant(d, seed)
  BY Zenon
<1>2. t = TenantId(d, seed)
  BY <1>1 DEF TenantId, SubdomainTaken, Ran
<1>3. IsSchema(e) /\ SeedWritten(d, seed, t, e)
  BY <1>1, <1>2, SeedWrites DEF Ran
<1>4. e.tenants = d.tenants
  <2>1. e.tenants = Insert(d.tenants, seed.subdomain, d.tenants[seed.subdomain])
    BY <1>1, <1>3, Zenon DEF SeedWritten, Ran
  <2>2. DOMAIN d.tenants \cup {seed.subdomain} = DOMAIN d.tenants
    BY DEF Ran
  <2>3. e.tenants = [k \in DOMAIN d.tenants |-> d.tenants[k]]
    BY <2>1, <2>2 DEF Insert
  <2> QED
    BY <2>3 DEF Ran, IsTable
<1>5. /\ e.users = d.users /\ e.config = d.config /\ e.categories = d.categories
      /\ e.permissions = d.permissions /\ e.documents = d.documents /\ e.versions = d.versions
      /\ e.enriched = d.enriched /\ e.sessions = d.sessions
  BY <1>1, <1>3, WrittenAgain, ZenonT(60) DEF SeedWritten, Ran
<1>6. e.audit = d.audit /\ e.drawn = d.drawn
  BY <1>1, <1>3 DEF SeedWritten, Ran
<1>7. e = d
  BY <1>3, <1>4, <1>5, <1>6, Zenon DEF IsSchema, Ran
<1> QED
  BY <1>1, <1>7

\* A seed has run once it was run.
LEMMA HasRun ==
    ASSUME NEW d, IsSchema(d), d.drawn \in Nat, NEW seed, NEW t \in Nat, t = TenantId(d, seed),
           NEW e, e = SeedTenant(d, seed)
    PROVE  Ran(e, seed) /\ e.tenants[seed.subdomain].id = t
<1>1. IsSchema(e) /\ SeedWritten(d, seed, t, e)
  BY SeedWrites
<1>2. /\ IsTable(e.tenants) /\ seed.subdomain \in DOMAIN e.tenants
      /\ e.tenants[seed.subdomain] = [id |-> t, name |-> seed.name]
      /\ e.tenants[seed.subdomain].id = t
  BY <1>1 DEF SeedWritten, Insert, IsTable
<1>3. t <= e.drawn
  BY <1>1 DEF SeedWritten
<1>4. /\ IsTable(e.users) /\ IsTable(e.config) /\ IsTable(e.categories) /\ IsTable(e.permissions)
      /\ IsTable(e.documents) /\ IsTable(e.versions) /\ IsTable(e.enriched) /\ IsTable(e.sessions)
      /\ HasRows(e.users, UserRows(seed, t))
      /\ HasRows(e.config, ConfigRows(seed, t))
      /\ HasRows(e.categories, OwnRows(seed, t, SystemColumn(seed)))
      /\ HasRows(e.permissions, OwnRows(seed, t, seed.downloads))
      /\ HasRows(e.documents, DocumentRows(d, seed, t))
      /\ HasRows(e.versions, VersionRows(seed))
      /\ HasRows(e.enriched, EnrichedRows(seed, t))
      /\ HasRows(e.sessions, SessionRows(seed))
  BY <1>1, Written, ZenonT(60) DEF SeedWritten
<1>5. DocumentRows(e, seed, t) = DocumentRows(d, seed, t)
  <2>1. ASSUME NEW id \in SeedIds(seed)
        PROVE  id \in DOMAIN e.documents /\ e.documents[id] = DocumentRows(d, seed, t)[id]
    BY <1>4 DEF HasRows, DocumentRows
  <2>2. ASSUME NEW id \in SeedIds(seed)
        PROVE  /\ e.documents[id].tenant = IF id \in DOMAIN d.documents THEN d.documents[id].tenant ELSE t
               /\ e.documents[id].uploader = IF id \in DOMAIN d.documents THEN d.documents[id].uploader
                                             ELSE seed.documents[id[2]].uploader
    <3>1. PICK x, y, s, c :
            /\ x = IF id \in DOMAIN d.documents THEN d.documents[id].tenant ELSE t
            /\ y = IF id \in DOMAIN d.documents THEN d.documents[id].uploader ELSE seed.documents[id[2]].uploader
            /\ s = seed.documents[id[2]].state
            /\ c = <<id, seed.documents[id[2]].versions>>
      BY Zenon
    <3>2. DocumentRows(d, seed, t)[id] = [tenant |-> x, uploader |-> y, state |-> s, current |-> c]
      BY <3>1, Zenon DEF DocumentRows
    <3>3. e.documents[id].tenant = x /\ e.documents[id].uploader = y
      BY <2>1, <3>2
    <3> QED
      BY <3>1, <3>3
  <2> QED
    BY <2>1, <2>2, Zenon DEF DocumentRows
<1> QED
  BY <1>1, <1>2, <1>3, <1>4, <1>5, Zenon DEF Ran

\* Another seed's run spares the rows of one that has run.
LEMMA RanStill ==
    ASSUME NEW d, NEW seed, Ran(d, seed), d.tenants[seed.subdomain].id \in Nat, d.drawn \in Nat,
           NEW other, other.subdomain # seed.subdomain, DOMAIN seed.users \cap DOMAIN other.users = {},
           NEW u \in Nat, u = TenantId(d, other), u # d.tenants[seed.subdomain].id,
           NEW e, e = SeedTenant(d, other)
    PROVE  Ran(e, seed) /\ e.tenants[seed.subdomain].id = d.tenants[seed.subdomain].id
<1>1. PICK t : t = d.tenants[seed.subdomain].id
  BY Zenon
<1>2. IsSchema(e) /\ SeedWritten(d, other, u, e)
  BY SeedWrites DEF Ran
<1>3. /\ IsTable(e.tenants) /\ seed.subdomain \in DOMAIN e.tenants
      /\ e.tenants[seed.subdomain] = d.tenants[seed.subdomain]
  BY <1>2 DEF SeedWritten, Insert, IsTable, Ran
<1>4. t <= e.drawn
  BY <1>1, <1>2 DEF SeedWritten, Ran
<1>5. /\ IsTable(e.users) /\ IsTable(e.config) /\ IsTable(e.categories) /\ IsTable(e.permissions)
      /\ IsTable(e.documents) /\ IsTable(e.versions) /\ IsTable(e.enriched) /\ IsTable(e.sessions)
  BY <1>2, Written, ZenonT(60) DEF SeedWritten
<1>6. SeedIds(seed) \cap SeedIds(other) = {} /\ ReadIds(seed) \subseteq SeedIds(seed) /\ ReadIds(other) \subseteq SeedIds(other)
  BY DEF SeedIds, SeedId, ReadIds
<1>7. HasRows(e.users, UserRows(seed, t))
  BY <1>1, <1>2, RowsSpared DEF SeedWritten, Ran, UserRows
<1>8. HasRows(e.config, ConfigRows(seed, t))
  BY <1>1, <1>2, RowsSpared DEF SeedWritten, Ran, ConfigRows
<1>9. HasRows(e.categories, OwnRows(seed, t, SystemColumn(seed)))
  BY <1>1, <1>2, RowsSpared DEF SeedWritten, Ran, OwnRows
<1>10. HasRows(e.permissions, OwnRows(seed, t, seed.downloads))
  BY <1>1, <1>2, RowsSpared DEF SeedWritten, Ran, OwnRows
<1>11. HasRows(e.versions, VersionRows(seed))
  <2>1. VersionIds(seed) \cap VersionIds(other) = {}
    <3>1. ASSUME NEW x, NEW v \in VersionIds(x) PROVE v[1] \in SeedIds(x)
      BY <3>1 DEF VersionIds, SeedIds
    <3> QED
      BY <3>1, <1>6
  <2> QED
    <3>1. PICK rows, others : rows = VersionRows(seed) /\ others = VersionRows(other)
      BY Zenon
    <3>2. DOMAIN rows = VersionIds(seed) /\ DOMAIN others = VersionIds(other)
      BY <3>1, Zenon DEF VersionRows
    <3>3. DOMAIN rows \cap DOMAIN others = {}
      BY <2>1, <3>2
    <3>4. HasRows(d.versions, rows) /\ e.versions = Upsert(d.versions, others)
      BY <1>2, <3>1, Zenon DEF SeedWritten, Ran
    <3>5. HasRows(Upsert(d.versions, others), rows)
      BY <3>3, <3>4, RowsSpared
    <3> QED
      BY <3>1, <3>4, <3>5, Zenon
<1>12. HasRows(e.enriched, EnrichedRows(seed, t))
  <2>1. PICK rows, others : rows = EnrichedRows(seed, t) /\ others = EnrichedRows(other, u)
    BY Zenon
  <2>2. DOMAIN rows = ReadIds(seed) /\ DOMAIN others = ReadIds(other)
    BY <2>1, Zenon DEF EnrichedRows
  <2>3. DOMAIN rows \cap DOMAIN others = {}
    BY <1>6, <2>2
  <2>4. HasRows(d.enriched, rows) /\ e.enriched = Upsert(d.enriched, others)
    BY <1>1, <1>2, <2>1, Zenon DEF SeedWritten, Ran
  <2>5. HasRows(Upsert(d.enriched, others), rows)
    BY <2>3, <2>4, RowsSpared
  <2> QED
    BY <2>1, <2>4, <2>5, Zenon
<1>13. HasRows(e.sessions, SessionRows(seed))
  BY <1>2, RowsSpared DEF SeedWritten, Ran, SessionRows
<1>14. HasRows(e.documents, DocumentRows(e, seed, t))
  <2>1. HasRows(e.documents, DocumentRows(d, seed, t))
    <3>1. PICK rows, others : rows = DocumentRows(d, seed, t) /\ others = DocumentRows(d, other, u)
      BY Zenon
    <3>2. DOMAIN rows = SeedIds(seed) /\ DOMAIN others = SeedIds(other)
      BY <3>1, Zenon DEF DocumentRows
    <3>3. DOMAIN rows \cap DOMAIN others = {}
      BY <1>6, <3>2
    <3>4. HasRows(d.documents, rows) /\ e.documents = Upsert(d.documents, others)
      BY <1>1, <1>2, <3>1, Zenon DEF SeedWritten, Ran
    <3>5. HasRows(Upsert(d.documents, others), rows)
      BY <3>3, <3>4, RowsSpared
    <3> QED
      BY <3>1, <3>4, <3>5, Zenon
  <2>2. \A id \in SeedIds(seed) : id \in DOMAIN e.documents /\ id \in DOMAIN d.documents
                                  /\ e.documents[id] = d.documents[id]
    <3>1. SeedIds(seed) \subseteq DOMAIN d.documents
      BY <1>1 DEF Ran, HasRows, DocumentRows
    <3>2. e.documents = Upsert(d.documents, DocumentRows(d, other, u))
      BY <1>2 DEF SeedWritten
    <3>3. DOMAIN DocumentRows(d, other, u) = SeedIds(other)
      BY DEF DocumentRows
    <3>4. PICK rows : rows = DocumentRows(d, other, u)
      BY Zenon
    <3> QED
      BY <1>6, <3>1, <3>2, <3>3, <3>4 DEF Upsert
  <2>3. DocumentRows(e, seed, t) = DocumentRows(d, seed, t)
    BY <2>2, Zenon DEF DocumentRows
  <2> QED
    BY <2>1, <2>3, Zenon
<1> QED
  BY <1>1, <1>2, <1>3, <1>4, <1>5, <1>7, <1>8, <1>9, <1>10, <1>11, <1>12, <1>13, <1>14, Zenon DEF Ran

\* The transactions of a seed find one another's names free.
LEMMA NamesFree ==
    ASSUME NEW d, Schema(d), ~SeedThrows(d, QaTenantB)
    PROVE  ~SeedThrows(SeedTenant(d, DevTenant), QaTenantB)
<1>1. PICK t, e : t = TenantId(d, DevTenant) /\ e = SeedTenant(d, DevTenant)
  BY Zenon
<1>2. SeedWritten(d, DevTenant, t, e)
  BY <1>1, SeedWrites DEF Schema
<1>3. ~SeedThrows(e, QaTenantB)
  BY <1>2, SeedsAssumption DEF SeedWritten, Insert, SeedThrows, SeedsFit
<1> QED
  BY <1>1, <1>3

\* What is there after a seed: its rows, and a second run's.
LEMMA OnceIsEnough ==
    ASSUME NEW d, Schema(d), NEW name, \A i \in 1 .. Len(Transactions(name)) : ~SeedThrows(d, Transactions(name)[i]),
           NEW once, once = Seeded(d, name)
    PROVE  /\ Schema(once) /\ Seeded(once, name) = once
           /\ \A i \in 1 .. Len(Transactions(name)) : Ran(once, Transactions(name)[i])
<1>1. PICK dev, t : dev = SeedTenant(d, DevTenant) /\ t = TenantId(d, DevTenant)
  BY Zenon
<1>2. ~SeedThrows(d, DevTenant)
  <2>1. 1 \in 1 .. Len(Transactions(name)) /\ Transactions(name)[1] = DevTenant
    BY DEF Transactions
  <2> QED
    BY <2>1
<1>3. Schema(dev)
  BY <1>1, <1>2, SeedKeepsSchema
<1>4. Ran(dev, DevTenant) /\ dev.tenants[DevTenant.subdomain].id = t /\ t \in Nat
  <2>1. t \in Nat
    BY <1>1, IdDrawn
  <2>2. IsSchema(d) /\ d.drawn \in Nat
    BY DEF Schema
  <2> QED
    BY <1>1, <2>1, <2>2, HasRun
<1>5. CASE name # "qa"
  <2>1. once = dev
    BY <1>1, <1>5 DEF Seeded
  <2>2. SeedTenant(dev, DevTenant) = dev
    BY <1>3, <1>4, RunAgain DEF Schema
  <2>3. Seeded(once, name) = once
    BY <1>5, <2>1, <2>2, Zenon DEF Seeded
  <2> QED
    BY <1>3, <1>4, <1>5, <2>1, <2>3 DEF Transactions
<1>6. CASE name = "qa"
  <2>1. once = SeedTenant(dev, QaTenantB)
    BY <1>1, <1>6 DEF Seeded
  <2>2. ~SeedThrows(d, QaTenantB)
    <3>1. 2 \in 1 .. Len(Transactions(name)) /\ Transactions(name)[2] = QaTenantB
      BY <1>6 DEF Transactions
    <3> QED
      BY <3>1
  <2>3. ~SeedThrows(dev, QaTenantB)
    BY <1>1, <2>2, NamesFree
  <2>4. Schema(once)
    BY <1>3, <2>1, <2>3, SeedKeepsSchema
  <2>5. PICK u : u = TenantId(dev, QaTenantB)
    BY Zenon
  <2>6. u \in Nat /\ u # t
    BY <1>3, <1>4, <2>5, IdDrawn, SeedsAssumption DEF Ran, SeedsFit
  <2>7. Ran(once, QaTenantB) /\ once.tenants[QaTenantB.subdomain].id = u
    BY <1>3, <2>1, <2>5, <2>6, HasRun DEF Schema
  <2>8. Ran(once, DevTenant) /\ once.tenants[DevTenant.subdomain].id = t
    <3>1. QaTenantB.subdomain # DevTenant.subdomain /\ DOMAIN DevTenant.users \cap DOMAIN QaTenantB.users = {}
      BY SeedsAssumption DEF SeedsFit
    <3>2. dev.drawn \in Nat
      BY <1>3 DEF Schema
    <3> QED
      BY <1>4, <2>1, <2>5, <2>6, <3>1, <3>2, RanStill
  <2>9. SeedTenant(once, DevTenant) = once
    BY <1>4, <2>4, <2>8, RunAgain DEF Schema
  <2>10. SeedTenant(once, QaTenantB) = once
    BY <2>4, <2>6, <2>7, RunAgain DEF Schema
  <2>11. Seeded(once, name) = once
    BY <1>6, <2>9, <2>10, Zenon DEF Seeded
  <2>12. \A i \in 1 .. Len(Transactions(name)) : Ran(once, Transactions(name)[i])
    BY <1>6, <2>7, <2>8 DEF Transactions
  <2> QED
    BY <2>4, <2>11, <2>12
<1> QED
  BY <1>5, <1>6

\* Hence SeedsComplete of every schema that is whole.
LEMMA SchemaCompletes ==
    ASSUME Whole
    PROVE  SeedsComplete
<1> SUFFICES ASSUME Exists, NEW name \in Seeding,
                    \A i \in 1 .. Len(Transactions(name)) : ~SeedThrows(db, Transactions(name)[i]),
                    NEW once, once = Seeded(db, name)
             PROVE  /\ Seeded(once, name) = once
                    /\ \A i \in 1 .. Len(Transactions(name)) :
                          LET seed == Transactions(name)[i] IN
                          \A key \in DOMAIN seed.documents :
                              once.documents[SeedId(seed, key)].tenant = once.tenants[seed.subdomain].id
  BY Zenon DEF SeedsComplete
<1>1. /\ Schema(once) /\ Seeded(once, name) = once
      /\ \A i \in 1 .. Len(Transactions(name)) : Ran(once, Transactions(name)[i])
  BY OnceIsEnough DEF Whole
<1>2. ASSUME NEW i \in 1 .. Len(Transactions(name)), NEW seed, seed = Transactions(name)[i],
             NEW key \in DOMAIN seed.documents
      PROVE  once.documents[SeedId(seed, key)].tenant = once.tenants[seed.subdomain].id
  <2>1. seed \in {DevTenant, QaTenantB}
    BY <1>2 DEF Transactions
  <2>2. SeedId(seed, key) \in DOMAIN once.documents
    <3>1. Ran(once, seed)
      BY <1>1, <1>2
    <3>2. SeedId(seed, key) \in SeedIds(seed)
      BY DEF SeedIds
    <3> QED
      BY <3>1, <3>2 DEF Ran, HasRows, DocumentRows
  <2>3. OfSeed(once, seed)
    BY <1>1, <2>1 DEF Schema
  <2> QED
    BY <2>2, <2>3 DEF OfSeed, SeedDocument
<1> QED
  BY <1>1, <1>2, Zenon

-----------------------------------------------------------------------------
(* The theorems. *)

\* Only the flush of the queue lets a job succeed.
LEMMA OnlyFlushSucceeds ==
    ASSUME Runners, [Next]_vars, NEW p \in Replicas, Running(p), job'[p].status = "succeeded"
    PROVE  Stage(p, "flush") /\ FlushQueue(p)
<1>1. job[p].status = "running"
  BY DEF Running
<1>2. ~UNCHANGED vars
  BY <1>1 DEF vars
<1>3. ~Noticed
  <2>1. [job[p] EXCEPT !.alone = FALSE].status = job[p].status
    BY StagesRun DEF JobFields
  <2> QED
    BY <1>1, <2>1 DEF Noticed
<1>4. PICK q \in Replicas : ResetStep(q)
  BY <1>2, <1>3, OperatorDb DEF Next, Administer, SeedScript, Upload
<1>5. q = p
  <2> SUFFICES ASSUME q # p PROVE FALSE
    OBVIOUS
  <2>1. ASSUME NEW r, job' = [Disturbed(q) EXCEPT ![q] = r] PROVE FALSE
    <3>1. job'[p] = [job[p] EXCEPT !.alone = FALSE]
      BY <1>1, <2>1 DEF Disturbed
    <3>2. job'[p].status = "running"
      BY <1>1, <3>1, StagesRun DEF JobFields
    <3> QED
      BY <3>2
  <2>2. ASSUME Goes(q) PROVE FALSE
    <3>1. PICK f : f = Disturbed(q)
      BY Zenon
    <3>2. \E r : job' = [f EXCEPT ![q] = r]
      BY <2>2, <3>1, Zenon DEF Goes, Ended
    <3> QED
      BY <2>1, <3>1, <3>2
  <2>3. ASSUME Seed(q) PROVE FALSE
    <3>1. PICK f : f = Disturbed(q)
      BY Zenon
    <3>2. Goes(q) \/ \E r : job' = [f EXCEPT ![q] = r]
      BY <2>3, <3>1, Zenon DEF Seed, Ended
    <3> QED
      BY <2>1, <2>2, <3>1, <3>2
  <2>4. ASSUME StageFails(q) PROVE FALSE
    BY <2>1, <2>4 DEF StageFails, Ended
  <2>5. ASSUME (\E seed \in Seeding : Start(q, seed)) \/ ListBlobs(q) \/ Forget(q) PROVE FALSE
    <3>1. job'[p] = job[p]
      <4>1. ASSUME NEW seed \in Seeding, Start(q, seed) PROVE job'[p] = job[p]
        BY <4>1 DEF Start, Runners
      <4>2. ASSUME ListBlobs(q) PROVE job'[p] = job[p]
        BY <4>2 DEF ListBlobs, Runners
      <4>3. ASSUME Forget(q) PROVE job'[p] = job[p]
        BY <4>3 DEF Forget, Runners
      <4> QED
        BY <2>5, <4>1, <4>2, <4>3
    <3> QED
      BY <1>1, <3>1
  <2> QED
    BY <1>4, <2>2, <2>3, <2>4, <2>5 DEF ResetStep, Drop, Migrate, PurgeBlobs, DeleteIndex, CreateIndex, FlushQueue
<1>6. ASSUME Goes(p), ~Stage(p, "flush") PROVE FALSE
  BY <1>6, GoesOnward DEF Onward, Running
<1>7. ASSUME Ended(p, "failed") PROVE FALSE
  BY <1>7, EndsJob
<1>8. ASSUME Seed(p) PROVE FALSE
  <2>1. ~Stage(p, "flush")
    BY <1>8 DEF Seed, Stage
  <2>2. PICK f : f = Disturbed(p)
    BY Zenon
  <2>3. Ended(p, "failed") \/ Goes(p) \/ job' = [f EXCEPT ![p].left = @ + 1]
    BY <1>8, <2>2, Zenon DEF Seed
  <2>4. ASSUME job' = [f EXCEPT ![p].left = @ + 1] PROVE FALSE
    <3>1. f[p] = job[p] /\ p \in DOMAIN f
      BY <2>2 DEF Disturbed
    <3>2. job'[p] = [job[p] EXCEPT !.left = job[p].left + 1]
      BY <2>4, <3>1
    <3>3. job'[p].status = "running"
      BY <1>1, <3>2, StagesRun DEF JobFields
    <3> QED
      BY <3>3
  <2> QED
    BY <1>6, <1>7, <2>1, <2>3, <2>4
<1>9. ASSUME ListBlobs(p) PROVE FALSE
  <2>1. PICK listed, full : job' = [job EXCEPT ![p].listed = listed, ![p].stage = "purge", ![p].full = full]
    BY <1>9, Zenon DEF ListBlobs
  <2>2. job'[p] = [job[p] EXCEPT !.listed = listed, !.stage = "purge", !.full = full]
    BY <2>1 DEF Runners
  <2>3. job'[p].status = "running"
    BY <1>1, <2>2, StagesRun DEF JobFields
  <2> QED
    BY <2>3
<1>10. ~Forget(p) /\ ~(\E seed \in Seeding : Start(p, seed)) /\ ~StageFails(p)
  <2>1. ~Forget(p)
    BY DEF Forget, NoJob, Runners
  <2>2. \A seed : ~Start(p, seed)
    BY DEF Start
  <2> QED
    BY <1>7, <2>1, <2>2 DEF StageFails
<1>11. FlushQueue(p)
  BY <1>4, <1>5, <1>6, <1>8, <1>9, <1>10
     DEF ResetStep, Drop, Migrate, PurgeBlobs, DeleteIndex, CreateIndex, Stage
<1> QED
  BY <1>11 DEF FlushQueue

\* SucceededResetIsFresh, of one step.
Fresh ==
    \A p \in Replicas :
        Running(p) /\ job'[p].status = "succeeded" /\ job[p].alone =>
           /\ db' = [Seeded(Migrated(db.drawn - Len(Transactions(job[p].seed))), job[p].seed)
                     EXCEPT !.drawn = db.drawn]
           /\ ~queue' /\ index' = "empty"
           /\ stored' = {} \/ job[p].full

\* What a job that succeeds alone leaves behind.
LEMMA FreshStep == ASSUME Whole, Runners, Lonely, [Next]_vars PROVE Fresh
<1> SUFFICES ASSUME NEW p \in Replicas, Running(p), job'[p].status = "succeeded", job[p].alone
             PROVE  /\ db' = [Seeded(Migrated(db.drawn - Len(Transactions(job[p].seed))), job[p].seed)
                              EXCEPT !.drawn = db.drawn]
                    /\ ~queue' /\ index' = "empty"
                    /\ stored' = {} \/ job[p].full
  BY DEF Fresh
<1>1. FlushQueue(p) /\ job[p].stage = "flush"
  BY OnlyFlushSucceeds DEF Stage
<1>2. SeededWhole(job[p].seed) /\ (job[p].full \/ stored = {}) /\ index = "empty"
  BY <1>1 DEF Lonely, Lone, Undisturbed, AfterSeed, AfterPurge
<1>3. db' = db /\ stored' = stored /\ index' = index /\ ~queue'
  BY <1>1 DEF FlushQueue
<1>4. PICK d : d = Seeded(Migrated(db.drawn - Len(Transactions(job[p].seed))), job[p].seed)
  BY Zenon
<1>5. d = db
  BY <1>2, <1>4, Zenon DEF SeededWhole
<1>6. PICK n : n = db.drawn - Len(Transactions(job[p].seed))
  BY Zenon
<1>7. n \in Nat
  BY <1>2, <1>6 DEF SeededWhole
<1>8. d = [d EXCEPT !.drawn = d.drawn]
  <2>1. IsSchema(d)
    <3>1. d = Seeded(Migrated(n), job[p].seed)
      BY <1>4, <1>6, Zenon
    <3>2. PICK x, y : x = SeedTenant(Migrated(n), DevTenant) /\ y = SeedTenant(x, QaTenantB)
      BY Zenon
    <3>3. IsSchema(x) /\ IsSchema(y)
      BY <1>7, <3>2, SeedFromNothing
    <3>4. d = x \/ d = y
      BY <3>1, <3>2, Zenon DEF Seeded
    <3> QED
      BY <3>3, <3>4
  <2>2. d = [c \in Columns |-> d[c]]
    BY <2>1, ColumnsOf
  <2> QED
    BY <2>2 DEF Columns
<1>9. db' = [d EXCEPT !.drawn = db.drawn]
  BY <1>3, <1>5, <1>8
<1> QED
  BY <1>2, <1>3, <1>4, <1>9, Zenon

-----------------------------------------------------------------------------
\* The inductive invariant.
Invariant == Whole /\ Requests /\ Parameters /\ Runners /\ Lonely

\* A database bare or just migrated satisfies the invariant.
LEMMA Beginning == Init => Invariant
<1> SUFFICES ASSUME Init PROVE Invariant
  OBVIOUS
<1>1. Whole
  <2>1. CASE db = Dropped
    BY <2>1 DEF Dropped, Whole, Exists
  <2>2. CASE db = Migrated(0)
    <3>1. Schema(Migrated(0))
      BY MigratedSchema
    <3>2. Schema(db)
      BY <2>2, <3>1
    <3> QED
      BY <3>2 DEF Whole, Schema
  <2> QED
    BY <2>1, <2>2 DEF Init
<1>2. Requests
  BY DEF Init, Requests
<1>3. Parameters
  <2>1. CASE db = Dropped
    BY <2>1 DEF Dropped, Parameters, Exists
  <2>2. CASE db = Migrated(0)
    BY <2>2 DEF Migrated, EmptyTable, Parameters
  <2> QED
    BY <2>1, <2>2 DEF Init
<1>4. Runners /\ \A p \in Replicas : ~Running(p)
  BY DEF Init, Runners, Job, NoJob, Running
<1>5. Lonely
  BY <1>4 DEF Init, Lonely, Lone
<1> QED
  BY <1>1, <1>2, <1>3, <1>4, <1>5 DEF Invariant

\* Every step preserves it.
LEMMA Onwards == Invariant /\ [Next]_vars => Invariant'
BY WholeStep, RequestsStep, ParametersStep, JobsStep DEF Invariant

\* The invariant holds in every state: the schema whole, the requests and jobs typed,
\* the parameters accounted for, and the resets nobody disturbs where their stage says.
THEOREM SpecInvariant == Spec => []Invariant
BY Beginning, Onwards, PTL DEF Spec

\* In every committed state ids and names are no two tenants', and what belongs to
\* a tenant refers to rows of the same tenant, whatever resets, seeds and requests
\* interleave, and for any two seeds whose rows refer to one another.
THEOREM TenantsStayWhole == Spec => []TenantsAreWhole
<1>1. Invariant => TenantsAreWhole
  BY SchemaIsWhole DEF Invariant
<1> QED
  BY <1>1, SpecInvariant, PTL

\* A seed run on any state the system reaches completes what an interrupted run
\* began, and running it again changes nothing.
THEOREM SeedsAlwaysComplete == Spec => []SeedsComplete
<1>1. Invariant => SeedsComplete
  BY SchemaCompletes DEF Invariant
<1> QED
  BY <1>1, SpecInvariant, PTL

\* Each parameter in force is in range, shown as it is, and is the seed's or told by
\* an event recorded or still to come, unless its newest event was lost.
THEOREM ConfigStaysAccountedFor == Spec => []ConfigIsAccountedFor
<1>1. Invariant => ConfigIsAccountedFor
  BY ParametersAccount DEF Invariant
<1> QED
  BY <1>1, SpecInvariant, PTL

\* A reset that succeeds while nobody else writes leaves the seed and nothing more,
\* for any number of replicas, objects, and writers that come and go.
THEOREM SucceededResetsAreFresh == Spec => SucceededResetIsFresh
<1>1. Invariant /\ [Next]_vars => Fresh
  BY FreshStep DEF Invariant
<1>2. [][Fresh]_vars <=> SucceededResetIsFresh
  BY DEF Fresh, SucceededResetIsFresh
<1> QED
  BY <1>1, <1>2, SpecInvariant, PTL DEF Spec
=============================================================================
