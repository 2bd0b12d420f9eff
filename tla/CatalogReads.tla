---------------------------- MODULE CatalogReads ----------------------------
(***************************************************************************)
(* Reading the catalog: the paged list of documents and the detail of one, *)
(* for one viewer at a time, each query its own snapshot, while uploads,   *)
(* scans, confirmations, revisions and purges change what is there.  The   *)
(* writers are those of the upload, revision and pipeline modules, reduced *)
(* to the columns a read looks at.                                         *)
(***************************************************************************)
EXTENDS Tables, Integers, Sequences

CONSTANTS
    Ids,          \* documents.id, in the order ids compare
    TenantOfId,   \* [Ids -> tenants]: the tenant a document belongs to once created
    UploaderOf,   \* [Ids -> users]: who uploads it
    Viewer,       \* [user, tenant, isHead]: the principal, of some tenant
    PendingDays,  \* pending_confirmation_days
    Limit,        \* rows of a page
    Existing,     \* documents that are there to begin with, scanned
    Changing,     \* bound: documents that are written to after their upload
    Revisable,    \* bound: those of them that are revised
    MaxVersion,   \* bound: versions a document has had
    MaxRowWrites, \* bound: writes before a read, and again during it
    MaxTime       \* bound: the clock stops here, in days

ASSUME ReadsAssumption ==
    /\ Ids \subseteq Int /\ IsFiniteSet(Ids) /\ Existing \subseteq Ids
    /\ PendingDays \in Nat /\ Limit \in Nat \ {0}

VARIABLES
    documents,  \* the rows present: id -> [created, current, last, confirmed, scan]
    deleted,    \* ids of documents that are gone: no upload draws one again
    clock,
    reader,     \* the viewer's request or traversal
    here,       \* documents the viewer could see ever since it began
    anyLeft,    \* a document has left the viewer's list since it began
    writes      \* writes since it began, at most MaxRowWrites

readsVars == <<documents, deleted, clock, reader, here, anyLeft, writes>>

\* A version is known by its place among all its document has had: a number is
\* given again after a rollback, an id is not.
Scans == {"waiting", "clean", "infected"}
Rows  == [created : 0 .. MaxTime, current : 1 .. MaxVersion, last : 1 .. MaxVersion,
          confirmed : BOOLEAN, scan : UNION {[vs -> Scans] : vs \in SUBSET (1 .. MaxVersion)}]

Present == DOMAIN documents
Scan(row) == row.scan[row.current]

\* documentVisibilityCondition: who may see a row, with a clock read before.
Visible(id, row, viewer, now) ==
    /\ Scan(row) # "infected"
    /\ \/ UploaderOf[id] = viewer.user
       \/ /\ Scan(row) = "clean"
          /\ viewer.isHead \/ row.confirmed \/ row.created + PendingDays < now

\* isDocumentVisibleInMemory, which the service's own tests read with.
VisibleInMemory(id, row, viewer, now) ==
    CASE Scan(row) = "infected"          -> FALSE
      [] Scan(row) # "infected" /\ UploaderOf[id] = viewer.user -> TRUE
      [] Scan(row) = "waiting" /\ UploaderOf[id] # viewer.user  -> FALSE
      [] OTHER -> viewer.isHead \/ row.confirmed \/ row.created + PendingDays < now

\* The rows a list is made of: the viewer's tenant's that it may see.
Selected(now) ==
    {id \in Present : TenantOfId[id] = Viewer.tenant /\ Visible(id, documents[id], Viewer, now)}

\* ORDER BY created_at DESC, id DESC
Before(a, b) ==
    \/ documents[a].created > documents[b].created
    \/ documents[a].created = documents[b].created /\ a > b

\* Mutant of Offset: the page number is not counted from one.
OffsetFromZero(page) == page * Limit

Offset(page) == (page - 1) * Limit

\* The place of a selected row in the order, from 1.
Rank(now, id) == Cardinality({d \in Selected(now) : Before(d, id)}) + 1

\* LIMIT and OFFSET on the ordered rows.
PageOf(now, page) ==
    {id \in Selected(now) : Rank(now, id) \in Offset(page) + 1 .. Offset(page) + Limit}

Idle == [pc |-> "idle"]
In(pc) == reader.pc = pc
-----------------------------------------------------------------------------
(* GET /documents, page after page.                                        *)

Fresh == /\ here' = Selected(clock) /\ anyLeft' = FALSE /\ writes' = 0

\* The route reads the parameter and the clock.
BeginList ==
    /\ In("idle") /\ Fresh
    /\ reader' = [pc |-> "count", page |-> 1, now |-> clock, total |-> 0, pages |-> 1,
                shown |-> <<>>, steady |-> TRUE]
    /\ UNCHANGED <<documents, deleted, clock>>

\* The count of the rows, of which the number of pages is made.
CountQuery ==
    /\ In("count")
    /\ LET total == Cardinality(Selected(reader.now))
       IN  reader' = [reader EXCEPT !.pc = "page", !.total = total, !.pages = (total + Limit - 1) \div Limit]
    /\ UNCHANGED <<documents, deleted, clock, here, anyLeft, writes>>

\* The rows of the page, from a later snapshot.
PageQuery ==
    /\ In("page")
    /\ reader' = [reader EXCEPT !.pc = "listed", !.shown = Append(@, PageOf(reader.now, reader.page)),
                                !.steady = Cardinality(Selected(reader.now)) = reader.total]
    /\ UNCHANGED <<documents, deleted, clock, here, anyLeft, writes>>

\* The client asks for the next page while there is one.
NextPage ==
    /\ In("listed") /\ reader.page < reader.pages
    /\ reader' = [reader EXCEPT !.pc = "count", !.page = @ + 1, !.now = clock]
    /\ UNCHANGED <<documents, deleted, clock, here, anyLeft, writes>>
-----------------------------------------------------------------------------
(* GET /documents/{id} and /documents/{id}/versions.                       *)

BeginDetail(id) ==
    /\ In("idle") /\ Fresh
    /\ reader' = [pc |-> "row", id |-> id, now |-> clock]
    /\ UNCHANGED <<documents, deleted, clock>>

\* The document's row joined with its current version, and the number of its
\* versions; `counted` says which they were.
RowQuery ==
    /\ In("row")
    /\ reader' = IF reader.id \in Selected(reader.now)
                 THEN [pc |-> "versions", id |-> reader.id, current |-> documents[reader.id].current,
                       counted |-> DOMAIN documents[reader.id].scan]
                 ELSE [reader EXCEPT !.pc = "cross"]
    /\ UNCHANGED <<documents, deleted, clock, here, anyLeft, writes>>

\* findDocumentTenant: an existing document of another tenant is a denied access.
CrossCheck ==
    /\ In("cross")
    /\ reader' = [pc |-> "missing", id |-> reader.id, now |-> reader.now,
                  denied |-> reader.id \in Present /\ TenantOfId[reader.id] # Viewer.tenant]
    /\ UNCHANGED <<documents, deleted, clock, here, anyLeft, writes>>

VersionRows(id) == IF id \in Present THEN DOMAIN documents[id].scan ELSE {}

\* Mutant of VersionsQuery: the newest version listed is taken for the current one.
VersionsQueryNewest ==
    /\ In("versions")
    /\ LET listed == VersionRows(reader.id)
       IN  reader' = [pc |-> "shown", id |-> reader.id, current |-> reader.current, counted |-> reader.counted,
                      listed |-> listed, flagged |-> {v \in listed : \A w \in listed : w <= v}]
    /\ UNCHANGED <<documents, deleted, clock, here, anyLeft, writes>>

\* The versions, newest first, the one the row named flagged as current.
VersionsQuery ==
    /\ In("versions")
    /\ LET listed == VersionRows(reader.id)
       IN  reader' = [pc |-> "shown", id |-> reader.id, current |-> reader.current, counted |-> reader.counted,
                      listed |-> listed, flagged |-> listed \cap {reader.current}]
    /\ UNCHANGED <<documents, deleted, clock, here, anyLeft, writes>>
-----------------------------------------------------------------------------
(* The writers, as far as a read can tell.                                 *)

\* What a write does to the ghosts of a read in service.
Noticed ==
    /\ UNCHANGED <<clock, reader>>
    /\ here' = here \cap Selected(clock)'
    /\ anyLeft' = (anyLeft \/ (~In("idle") /\ ~(Selected(clock) \subseteq Selected(clock)')))
    /\ writes' = writes + 1

Set(id, row) == documents' = Insert(documents, id, row)

\* An upload: a document whose first version waits for its scan.
Publish(id) ==
    /\ id \notin Present \cup deleted
    /\ Set(id, [created |-> clock, current |-> 1, last |-> 1, confirmed |-> FALSE, scan |-> [v \in {1} |-> "waiting"]])
    /\ UNCHANGED deleted

\* The scan of the current version.
ScanCurrent(id) ==
    /\ id \in Present /\ Scan(documents[id]) = "waiting"
    /\ \E verdict \in {"clean", "infected"} :
          Set(id, [documents[id] EXCEPT !.scan[documents[id].current] = verdict])
    /\ UNCHANGED deleted

Confirm(id) ==
    /\ id \in Present /\ Scan(documents[id]) = "clean" /\ ~documents[id].confirmed
    /\ Set(id, [documents[id] EXCEPT !.confirmed = TRUE])
    /\ UNCHANGED deleted

\* addVersion's insert.
Revise(id) ==
    /\ id \in Present /\ documents[id].last < MaxVersion
    /\ LET row == documents[id] IN
          Set(id, [row EXCEPT !.last = @ + 1, !.current = row.last + 1,
                              !.scan = Insert(@, row.last + 1, "waiting")])
    /\ UNCHANGED deleted

\* Its compensation, for any version a revision added: the document goes back to
\* the one before if this is the current one.
Withdraw(id, v) ==
    /\ id \in Present /\ v \in DOMAIN documents[id].scan
    /\ LET row  == documents[id]
           rest == DOMAIN row.scan \ {v}
       IN  \E before \in {w \in rest : w < v /\ \A u \in rest : u < v => u <= w} :
              Set(id, [row EXCEPT !.current = IF @ = v THEN before ELSE @, !.scan = Delete(@, v)])
    /\ UNCHANGED deleted

\* deleteDocument: the purge of an infected one, or the rollback of an upload.
Purge(id) ==
    /\ id \in Present
    /\ documents' = Delete(documents, id)
    /\ deleted' = deleted \cup {id}

Write ==
    /\ writes < MaxRowWrites
    /\ \E id \in Ids :
          \/ Publish(id)
          \/ id \in Changing /\ (ScanCurrent(id) \/ Confirm(id) \/ Purge(id))
          \/ id \in Revisable /\ (Revise(id) \/ \E v \in 2 .. MaxVersion : Withdraw(id, v))
    /\ Noticed

Day ==
    /\ clock < MaxTime
    /\ clock' = clock + 1
    /\ UNCHANGED <<documents, deleted, reader, here, anyLeft, writes>>

ReadsInit ==
    /\ documents = [id \in Existing |-> [created |-> 0, current |-> 1, last |-> 1, confirmed |-> FALSE,
                                         scan |-> [v \in {1} |-> "clean"]]]
    /\ deleted = {} /\ clock = 0
    /\ reader = Idle /\ here = {} /\ anyLeft = FALSE /\ writes = 0

ReadsNext ==
    \/ BeginList \/ CountQuery \/ PageQuery \/ NextPage
    \/ \E id \in Ids : BeginDetail(id)
    \/ RowQuery \/ CrossCheck \/ VersionsQuery
    \/ Write \/ Day

ReadsSpec == ReadsInit /\ [][ReadsNext]_readsVars
-----------------------------------------------------------------------------
\* The documents of the pages shown so far.
Seen == UNION {reader.shown[p] : p \in DOMAIN reader.shown}

\* A client that pages to the end has been shown every document it could see
\* all along, unless one left its list meanwhile, which moves the rest up across
\* a page boundary, or one came between the last count and its page; and in a
\* quiet catalog it is shown each once, as many as it was told
\* (queryListDocuments: the offsets, and the id as the last key of the order).
TraversalsMissNothing ==
    In("listed") /\ reader.page >= reader.pages /\ reader.steady =>
        /\ ~anyLeft => here \subseteq Seen
        /\ writes = 0 /\ here = Selected(reader.now) =>
              /\ Seen = here /\ Cardinality(Seen) = reader.total
              /\ \A p, q \in DOMAIN reader.shown : p # q => reader.shown[p] \cap reader.shown[q] = {}

\* A detail is one story, whatever is written between its queries: the version
\* flagged is the one the row describes, and is missing, like any the row counted,
\* only if it has been taken away since; a version is listed above it exactly when
\* it came after the row was read.  A document the viewer could see all along is
\* never reported missing, and a missing one is recorded as a denied access only
\* when it is another tenant's (queryDocumentDetail, AC-43.03, AC-43.04).
DetailsAreCoherent ==
    /\ In("shown") =>
          /\ reader.flagged \subseteq {reader.current}
          /\ reader.flagged = {} => reader.current \notin VersionRows(reader.id)
          /\ \A v \in VersionRows(reader.id) \cap reader.counted : v \in reader.listed
          /\ \A v \in reader.listed : v > reader.current <=> v \notin reader.counted
    /\ In("missing") =>
          /\ reader.id \notin here
          /\ reader.denied => TenantOfId[reader.id] # Viewer.tenant
          /\ writes = 0 /\ ~reader.denied /\ reader.id \in Present =>
                TenantOfId[reader.id] = Viewer.tenant
                /\ ~VisibleInMemory(reader.id, documents[reader.id], Viewer, reader.now)
=============================================================================
