------------------------------- MODULE Seeds -------------------------------
(***************************************************************************)
(* The database as the administrative operations see it, and the seeds:    *)
(* upserts keyed on natural keys, one transaction per tenant.  A tenant's  *)
(* id is drawn at insert and never again; the other tables refer to it.    *)
(***************************************************************************)
EXTENDS Tables, Sequences, TLC

CONSTANTS
    DevTenant,   \* what the dev seed writes
    QaTenantB    \* what the qa seed adds

\* The rows of a seed refer to one another: a document's uploader is a user of the
\* tenant, its category one of the tenant's, and it has a version.
RefersToItself(seed) ==
    /\ "Uncategorized" \in DOMAIN seed.downloads
    /\ \A key \in DOMAIN seed.documents :
          LET d == seed.documents[key] IN
          /\ d.uploader \in DOMAIN seed.users /\ seed.users[d.uploader] # "super_admin"
          /\ d.versions \in Nat \ {0}
          /\ d.pages > 0 => d.category \in DOMAIN seed.downloads

\* Two seeds name different tenants and different users.
SeedsFit(dev, other) ==
    /\ RefersToItself(dev) /\ RefersToItself(other)
    /\ dev.subdomain # other.subdomain /\ dev.name # other.name
    /\ DOMAIN dev.users \cap DOMAIN other.users = {}

ASSUME SeedsAssumption == SeedsFit(DevTenant, QaTenantB)

\* The migrated schema without a row; `drawn` counts the tenant ids drawn.
Migrated(drawn) ==
    [tenants |-> EmptyTable, users |-> EmptyTable, config |-> EmptyTable,
     categories |-> EmptyTable, permissions |-> EmptyTable, documents |-> EmptyTable,
     versions |-> EmptyTable, enriched |-> EmptyTable, sessions |-> EmptyTable,
     audit |-> {}, drawn |-> drawn]

\* INSERT ... ON CONFLICT DO UPDATE of every column.
Upsert(table, rows) ==
    [k \in DOMAIN table \cup DOMAIN rows |-> IF k \in DOMAIN rows THEN rows[k] ELSE table[k]]

\* tenants_name_unique and tenants_subdomain_unique
NameTaken(db, name)  == \E s \in DOMAIN db.tenants : db.tenants[s].name = name
SubdomainTaken(db, subdomain) == subdomain \in DOMAIN db.tenants

\* Mutant of TenantId: the id is drawn before the upsert, which may keep the row's own.
TenantIdDrawn(db, seed) == db.drawn + 1

\* The id a tenant row has after the upsert on its subdomain.
TenantId(db, seed) ==
    IF SubdomainTaken(db, seed.subdomain) THEN db.tenants[seed.subdomain].id ELSE db.drawn + 1

\* The upsert takes the subdomain as its target: a name held by another tenant throws.
SeedThrows(db, seed) ==
    \E s \in DOMAIN db.tenants \ {seed.subdomain} : db.tenants[s].name = seed.name

\* writeTenancy
WriteTenancy(db, seed) ==
    LET t == TenantId(db, seed)
        own(row) == [k \in {t} \X DOMAIN seed.downloads |-> row[k[2]]]
    IN  [db EXCEPT !.tenants = Insert(@, seed.subdomain, [id |-> t, name |-> seed.name]),
                   !.drawn = IF t > @ THEN t ELSE @,
                   !.users = Upsert(@, [u \in DOMAIN seed.users |->
                       [role |-> seed.users[u], tenant |-> IF seed.users[u] = "super_admin" THEN 0 ELSE t]]),
                   !.config = Upsert(@, [k \in {t} \X DOMAIN seed.config |->
                       [value |-> seed.config[k[2]], by |-> seed.admin]]),
                   !.categories = Upsert(@, own([c \in DOMAIN seed.downloads |-> c \in seed.system])),
                   !.permissions = Upsert(@, own(seed.downloads))]

\* seedId and resolve: a document and its versions are known by their keys and
\* their tenant's subdomain, whatever the tenant's id.
SeedId(seed, key) == <<seed.subdomain, key>>
VersionIds(seed) ==
    UNION {{SeedId(seed, key)} \X (1 .. seed.documents[key].versions) : key \in DOMAIN seed.documents}

\* writeDocuments: documents, versions, then the back-fill of the current one.
\* A document that exists keeps its tenant and uploader.
WriteDocuments(db, seed) ==
    LET t == TenantId(db, seed)
        ids == {SeedId(seed, key) : key \in DOMAIN seed.documents}
        of(id) == seed.documents[id[2]]
        old(id) == IF id \in DOMAIN db.documents THEN db.documents[id]
                   ELSE [tenant |-> t, uploader |-> of(id).uploader]
    IN  [db EXCEPT !.documents = Upsert(@, [id \in ids |->
                       [tenant |-> old(id).tenant, uploader |-> old(id).uploader,
                        state |-> of(id).state, current |-> <<id, of(id).versions>>]]),
                   !.versions = Upsert(@, [v \in VersionIds(seed) |-> of(v[1]).state # "queued"])]

\* writeEnrichment: text, pages, classification, tags and metadata of the
\* documents with pages.
WriteEnrichment(db, seed) ==
    LET read == {id \in {SeedId(seed, key) : key \in DOMAIN seed.documents} :
                    seed.documents[id[2]].pages > 0}
    IN  [db EXCEPT !.enriched = Upsert(@, [id \in read |->
            LET d == seed.documents[id[2]] IN
            [category |-> <<TenantId(db, seed), d.category>>, confirmed |-> d.confirmed,
             tags |-> d.tags, pages |-> d.pages]])]

\* writeSessions
WriteSessions(db, seed) == [db EXCEPT !.sessions = Upsert(@, [u \in seed.sessions |-> u])]

\* The transaction of seedDev, and the second one of seedQa.
SeedTenant(db, seed) ==
    WriteSessions(WriteEnrichment(WriteDocuments(WriteTenancy(db, seed), seed), seed), seed)

\* The transactions of a seed, in order.
Transactions(name) == IF name = "qa" THEN <<DevTenant, QaTenantB>> ELSE <<DevTenant>>

\* The whole seed on a database no one else writes.
Seeded(db, name) ==
    LET dev == SeedTenant(db, DevTenant)
    IN  IF name = "qa" THEN SeedTenant(dev, QaTenantB) ELSE dev
-----------------------------------------------------------------------------
(* The rows the dev and qa seeds write, reduced to what other rows refer   *)
(* to: titles, page texts, confidences and authors are left out, tags and  *)
(* pages are counted.  Keys are the natural keys the seeds conflict on.    *)

NoCategory == "none"

\* A document with `n` versions, before its text was extracted.
Bare(uploader, state) ==
    [uploader |-> uploader, state |-> state, versions |-> 1,
     category |-> NoCategory, confirmed |-> FALSE, tags |-> 0, pages |-> 0]

\* A document whose last version has pages, tags and a category.
Read(uploader, category, confirmed, tags, pages) ==
    [Bare(uploader, "ready") EXCEPT !.category = category, !.confirmed = confirmed,
                                    !.tags = tags, !.pages = pages]

ConfirmedDocuments ==
    "laporan"               :> Read("anggota", "Reporting", TRUE, 2, 2)
    @@ "proposal"           :> [Read("ketua", "Proposal", TRUE, 2, 1) EXCEPT !.versions = 2]
    @@ "technical-proposal" :> Read("ketua", "Proposal", TRUE, 2, 1)
    @@ "bds-requirement"    :> Read("admin", "Reporting", TRUE, 1, 1)
    @@ "laporan-keuangan"   :> Read("admin", "Keuangan", TRUE, 2, 1)
    @@ "notulen-rapat-q1"   :> Read("anggota", "Reporting", TRUE, 2, 1)
    @@ "sop-pengadaan"      :> Read("admin", "Kontrak", TRUE, 2, 1)
    @@ "invoice-2026-001"   :> Read("admin", "Keuangan", TRUE, 2, 1)
    @@ "kontrak-vendor"     :> Read("ketua", "Kontrak", TRUE, 2, 1)

UnconfirmedDocuments ==
    "laporan-tahunan-2025"  :> Read("anggota", "Reporting", FALSE, 2, 1)
    @@ "memo-internal"      :> Read("anggota", "Uncategorized", FALSE, 1, 1)
    @@ "arsip-lama-2019"    :> Read("ketua", "Reporting", FALSE, 1, 1)

UnreadDocuments ==
    "draft-kebijakan"        :> Bare("anggota", "queued")
    @@ "lampiran-tender"     :> Bare("ketua", "queued")
    @@ "berkas-audit-2026"   :> Bare("admin", "processing")
    @@ "proposal-kerjasama"  :> Bare("ketua", "processing")
    @@ "dokumen-terproteksi" :> Bare("anggota", "failed")
    @@ "berkas-rusak"        :> Bare("anggota", "failed")
    @@ "scan-kabur"          :> Bare("ketua", "failed")
    @@ "laporan-besar"       :> Bare("admin", "failed")

DevRows ==
    [name |-> "PT Archiva Demo", subdomain |-> "archiva-demo", admin |-> "admin",
     users |-> "super" :> "super_admin" @@ "admin" :> "admin_tenant"
               @@ "ketua" :> "head_of_team" @@ "anggota" :> "member",
     config |-> "max_file_size_mb" :> 20 @@ "pending_confirmation_days" :> 7,
     system |-> {"Uncategorized"},
     downloads |-> "Uncategorized" :> FALSE @@ "Reporting" :> TRUE @@ "Kontrak" :> TRUE
                   @@ "Keuangan" :> FALSE @@ "Proposal" :> FALSE,
     documents |-> ConfirmedDocuments @@ UnconfirmedDocuments @@ UnreadDocuments,
     \* one session per user, under a token named for the role
     sessions |-> {"super", "admin", "ketua", "anggota"}]

QaRowsB ==
    [name |-> "PT Mitra Rahasia", subdomain |-> "mitra-rahasia", admin |-> "admin-b",
     users |-> "admin-b" :> "admin_tenant" @@ "anggota-b" :> "member",
     config |-> [key \in {} |-> 0],
     system |-> {"Uncategorized"},
     downloads |-> "Uncategorized" :> FALSE @@ "Rahasia" :> TRUE,
     documents |-> "rahasia-b" :> Read("admin-b", "Rahasia", TRUE, 1, 1)
                   @@ "kontrak-internal-b" :> Read("anggota-b", "Rahasia", TRUE, 1, 1),
     sessions |-> {}]
=============================================================================
