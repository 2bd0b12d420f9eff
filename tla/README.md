# Archiva (fileplume): TLA+ models, model checking and proofs

This directory specifies what Archiva does with an uploaded file and with the
requests around it: how a request is admitted, read off the wire, charged,
stored, numbered, queued, scanned and, when that goes wrong, taken back; how
documents are then listed and shown in a browser; and how the system is seeded,
configured and reset while it is used. Every definition is translated from the
code; the `map` of `PROJECT.json` names the lines.

## 1. The system

| Part | State it keeps | Operations | Talks to |
|---|---|---|---|
| Quota ledger (`tenancy/internal/quota-repository.ts`) | `tenants.storage_used_bytes`, `quota_reservations`, `quota_reversals` | reserve, commit, release, revert, debit a document, sweep | PostgreSQL, one transaction each, under the tenant's row lock |
| Quota contract (`tenancy/service.ts`) | none; reads the clock | the same, by token | ledger |
| Batch upload (`catalog/internal/upload-batch.ts`, `upload-single-file.ts`, `prepare-blob-upload.ts`) | the request's local variables | per file: reserve, put, validate session, insert, commit; after the last: enqueue, audit | quota, blob store, catalog tables, session, queue, audit trail |
| Versions (`catalog/internal/add-version.ts`, `version-repository.ts`) | the request's local variables | reserve, put, insert under the document's row lock, commit, enqueue, audit; rollback of an insert | the same |
| Catalog tables (`catalog/repository.ts`, `db/schema/catalog.ts`) | `documents`, `document_versions` with their unique and foreign keys | insert, delete, claim, mark scanned, mark infected | PostgreSQL |
| Catalog reads (`document-visibility.ts`, `list-document-query.ts`, `detail-document-query.ts`) | none; the number of the next page, in the client's hands | a page of the list (count, rows), a detail (row, versions) | PostgreSQL, one snapshot per query |
| Scan worker (`worker/jobs/process-document.ts`, `enrichment/stages/scan.ts`) | a snapshot of the document | load, claim, scan, mark, purge (audit, debit, delete blob, delete document) | queue, tables, blob store, scanner, quota, audit trail |
| ClamAV adapter (`worker/adapters/clamav-scanner.ts`) | the bytes not yet taken by the socket, the answer so far, a timer | stream the file, await the verdict, time out | clamd |
| Multipart collection and upload routes (`api/routes`) | a buffer, the part being read, the items collected | read to the next delimiter, chunk by chunk; answer or pass the items on | the request's body, catalog |
| Processing queue, blob store | jobs; objects | enqueue, deliver; put, list, delete | outside the repository or behind a port |
| Audit trail (`activity`) | `audit_events` | record: never throws, may lose the event | PostgreSQL |
| Identity and sessions (`identity`) | `users`, `sessions` | sign in, resolve a token against two deadlines and touch it, sign out | PostgreSQL |
| Request context, guards, rate limits (`api`) | fixed-window counters | origin, address, session, tenant, limits, role floor, in that order | Valkey, identity, audit trail |
| Configuration, tenants, storage view (`tenancy`) | `tenants`, `tenant_config` | set or reset a parameter with its event, create a tenant, indicator, lists | PostgreSQL |
| System reset (`platform`, `system-reset-actions.ts`) | each replica's newest job | drop, migrate, seed, purge blobs page by page, recreate the index, flush | every store |
| Health (`platform/service.ts`) | none | probe the seven dependencies | every store, clamd, Gotenberg, the AI provider |
| Seeds (`db/seeds`) | none | one transaction of upserts per tenant | PostgreSQL |
| Web client (`apps/web`) | the query cache; each page's state; uploads, saves and previews on their way | drop files, poll, edit a parameter, pick and add a version, navigate | the API |
| Enrichment state machine, search, classification | none, or unwritten | pure functions and scaffolds | |

On the server the parts meet in the stores. Nothing holds a lock or a
transaction across two of the calls listed above, so between any two of them
every other request, worker and the clock may move, and the process may die.
Compensation is by hand: a failed step is undone by calls run together with
`Promise.allSettled`, whose own failures are logged and forgotten
(`report-settled.ts`). In the browser the pages meet in the query cache, and an
answer may land on a page that has been left.

### What is hard

* **Interleaving.** Requests race for the last bytes of the quota, for a content
  hash, and for the next version number; workers race for a document; two
  replicas reset one system, each knowing only its own job.
* **Failure between two steps.** Any awaited call may throw. Some throws are
  compensated, some are not (the session check, the insert of an upload, the
  enqueue), and compensations fail too. A reset or a seed may stop after any stage.
* **Order.** Compensations settle in any order; a revision may be rolled back
  after a later one was inserted over it, and leaves a gap in the numbers; a session is
  touched by requests that overtake each other; a refetch in the browser lands
  after a newer answer.
* **Time.** A reservation expires after fifteen minutes, whoever still uses it;
  the clock is read before the row lock is waited for; a session has a sliding
  and an absolute deadline and may end while a request waits; a scan's timer
  races the daemon's answer.
* **Delivery.** Jobs are delivered at least once, also to two workers at a time,
  and workers die between their steps; by the specification an enqueue is ignored
  while the document's job runs. A body, a socket and an answer come in
  pieces cut anywhere.
* **Stale snapshots.** The worker acts on the version it loaded, the version
  rollback on the state it read at the insert, a page of a list on a count and a
  position from before, a detail on a row read before its versions.

`PROJECT.json` lists these as hazards at their lines, with the properties that
would catch them, or why none does yet.

### What makes each part correct

* Ledger: the counter is exactly what was committed and not taken back; what is
  stored and promised fits the quota; capacity of abandoned uploads returns.
* Upload: row, blob, charge, job and audit event of a file stand or fall
  together; an expired session leaves nothing of the whole batch; identical
  files are stored once; every request ends.
* Versions: numbers are unique, the newest version is current, a charged version
  is never lost to somebody else's rollback, failed revisions leave no trace.
* Worker: a verdict is put on the version it is about; an infected document is
  purged in an order a crash cannot spoil and debited once; no document is
  forgotten, as long as the queue takes its last enqueue.
* Bytes: a part collected is the part that was sent, wherever the body was cut,
  and a verdict is about the whole file.
* Gate: a session admits nobody after it ended and is not called expired while
  in use; a handler runs only inside the addressed tenant, and a refusal is on
  record; a limiter lets neither too many nor too few pass.
* Administration: every committed state of the schema is whole; a seed completes
  what an interrupted one began; a parameter's value and its events agree; a reset
  that says it succeeded left the seed and nothing else.
* Reads: a traversal of the list misses nothing that was there all along; a
  detail flags the version its row described, unless that one was taken away.
* Browser: the tray tells what became of the files; what is shown knows of all
  that the user knew when it was asked for; an infected file does not stay
  "accepted".

## 2. Modules

```
Tables            functions as tables, sums as cardinalities
 ├─ TablesTheorems     lemmas about sums                            (TLAPS)
 ├─ CapacityPool       what the ledger promises: a pool per tenant
 ├─ QuotaLedger        one action per query of quota-repository.ts
 │   ├─ QuotaProtocol      what a holder of a token may do; refines CapacityPool
 │   │   ├─ MCQuotaProtocol
 │   │   └─ QuotaProofs        theorems about QuotaProtocol, which
 │   │                         implements CapacityPool              (TLAPS)
 │   └─ CatalogStore       tables, blobs, queue, audit, faults
 │       ├─ UploadBatch        POST /documents
 │       │   └─ UploadSystem       concurrent uploads; refines QuotaProtocol
 │       │       ├─ MCUploadSystem
 │       │       └─ UploadProofs       theorems about them           (TLAPS)
 │       ├─ AddVersion         POST /documents/:id/versions
 │       │   └─ RevisionSystem     concurrent revisions
 │       │       ├─ MCRevisionSystem
 │       │       └─ RevisionProofs     theorems about them           (TLAPS)
 │       ├─ ScanWorker         the job handler and the scan stage
 │       └─ DocumentPipeline   UploadBatch, AddVersion and ScanWorker composed
 │           ├─ MCDocumentPipeline
 │           └─ PipelineProofs     theorems about the three          (TLAPS)
 ├─ Sessions           sessions, roles, and the floor of every operation
 ├─ RateLimiter        fixed-window counters
 │   └─ RequestGate        Sessions and RateLimiter before a handler
 │       ├─ MCRequestGate
 │       └─ RequestProofs      theorems about the gate, and about
 │                             FileJourney below                     (TLAPS)
 └─ Seeds              the schema's rows, and the dev and qa seeds
     └─ Configuration      parameters, tenants, their events
         └─ SystemReset        the reset's jobs, stage by stage, per replica
             └─ Administration     all three composed, beside uploads
                 ├─ MCAdministration (with Health, the readiness report)
                 └─ AdministrationProofs   theorems about it         (TLAPS)
CatalogReads      the paged list and the detail, query by query
 ├─ MCCatalogReads
 └─ ViewProofs          theorems about both, and about Browser     (TLAPS)
MultipartReader   the files of a request body, chunk by chunk
ClamAvScanner     one scan over a socket
 └─ FileJourney       MultipartReader and ClamAvScanner composed
     ├─ MCStreams
     └─ RequestProofs       theorems about them, see above         (TLAPS)
QueryClient       one entry of the browser's query cache
 ├─ ConfigurationPage
 ├─ DocumentPage       detail, versions, previews
 └─ Browser            UploadTray and the two pages, one mounted at a time
     └─ ViewProofs          theorems about the tab, see above        (TLAPS)
```

How state and actions correspond to the code:

* **Tables and transactions.** A table is a function from primary keys to rows. A
  repository function is one transaction, so it is one operator and one step;
  the row locks inside it (`FOR UPDATE`) are what justifies that. Conditional
  updates keep their `WHERE` (`CanMarkInfected`, `Debitable`), unique and foreign
  keys are guards (`ContentStored`, the first branch of `RollbackVersionInsert`).
  The tenant is fixed where every query carries it.
* **Requests and jobs.** A request is a process with a `pc` that names the awaited
  call it is about to make. `up`, `av` and `wk` hold the handlers' locals:
  results so far, the receipt of an insert, the worker's snapshot.
* **Compensation.** `todo` is the set of calls given to `Promise.allSettled` that
  have not settled. They settle in any order, each with its effect or not at all.
* **Throws.** `Throws(point)` is a call that throws; a configuration's
  `FaultPoints` says which may, `MaxFaults` how often in total. `faults` counts
  them per call, so that a property can say which throws it tolerates
  (`NeverThrew`). `commitAnswer` is a commit that takes effect and whose answer is
  lost; `put` may throw before or after writing. A process that dies takes no
  further step: everything except the liveness properties covers it, because an
  unfair process may stop anywhere. A worker that dies has its job delivered
  again (`WorkerFails`).
* **Identity.** One attempt to upload one file is one id, which names its
  reservation, version, blob and, for a first version, its document. Content and
  size are functions of it. `blobKey()` is injective in the version id.
* **Time.** `now` is a tick counter, `TTL` the reservation's lifetime.
* **The gate.** A slot of `req` is a request in service; its `pc` is the awaited
  call it makes next, its `session`, `limits` and `row` the context built so far.
  What follows a call up to the next is one function (`Resolved`, `Limited`,
  `Guard`), as the code runs it without awaiting. A token is read, judged and
  touched in three steps, with a clock read between. `use`, `since`, `alive` and
  `recent` are for the properties only: when a token was last used, and which
  requests a limiter let pass.
* **Administration.** The schema is one record `db`, dropped, bare or filled; a
  transaction maps it to its successor. `job[p]` is the newest job of replica
  `p`, with its stage. A parameter is read, then written with its event, by the
  steps of `handler`.
* **Reads.** Each query sees the rows as they are at that step; `here` and
  `anyLeft` record which documents were visible all along.
* **Bytes.** A byte is a letter, the boundary one letter, and of the text of a part's
  headers the first letter counts. A body of `Bodies` is its bytes, the parts meant by
  them and the positions where its delimiters end; `IsMultipart` says how these belong
  together. `reader` is the parser's buffer and state, `wire` what has not
  arrived. `scan` is the closure of one scan, `daemon` the other end of the socket; how
  a length is written is a constant, `LengthBytes`.
* **The browser.** Every page has a `mount` number, so that an answer lands on the
  page that asked for it or on none. A query's `data` are numbers of server
  writes; `told` is the newest that the user has been told is done or has been
  shown, and `due` what it was when the answer now on the screen was asked for, or
  one more for the answer to a save or an upload. The versions of a document are
  known by the write that inserted them, since a rollback frees their number;
  `history` has the document's versions after every write. What only prepares an
  act, the picker, the dialog and the row in editing, are steps of `Prepare`.
* **Mutants.** Operators commented `Mutant of ...` stand before the definition
  they alter. They are not part of any specification: each is a bug one could
  write, and a property is kept only if some mutant breaks it.

Simplifications: the size reserved and the size stored are one number (the
routes buffer a file before they hand it over, so the declared size is the
file's); sniffing, hashing and wording are left out, and so is BullMQ's attempt
counting. The queue adapter in the repository is a stub, and the specification
(12-document-processing-pipeline.md:67, :97, :139) has the document's id for the
job's, by which in-flight jobs are de-duplicated. So `DocumentPipeline` lets the
queue take an enqueue or, while a worker has that document's job, ignore it
(`Ignored`); `dropped` remembers, until a job of it waits again, the documents of
which one was. The models of reads, of the gate and of administration
have writers reduced to the columns they look at; the session check of an upload
is a choice in `UploadBatch`, and worked out in `RequestGate`, whose `Handle`
resolves the session of a batch again. The upload of a version has no second
check, in the code as in the model. Every module's `TypeOK` is kept as
documentation of its state; those that the theorems use are proved, the others
hold and are not listed in the runs.

## 3. Runs

| Run | Instance | Checks |
|---|---|---|
| `quota_prompt` | 3 attempts of 2, 1 and 2 bytes against a quota of 3, lifetime 2, clock to 5, lock wait up to 1 | exact counter, guarded debits, no over-allocation, returning capacity, refinement of `CapacityPool` |
| `upload_faults` | two batches of two files with pairwise equal contents, a third over the batch limit, quota 5 of 6 wanted, 2 throws, 1 tick | standing or falling together, rows with blobs, expired batches, accepted files, paid jobs, identical files, use of the ledger as `QuotaProtocol` allows, termination |
| `upload_throw` | *violation* of `EveryDocumentIsQueued` | a throw for a later file leaves the earlier ones stored, charged and without a job |
| `revisions` | 3 revisions of one document, the third with the content of the first, 3 throws at any call or compensation | numbering, current version, charged versions, accounts, no trace of failures, queued successes |
| `pipeline_delivery` | an infected and a clean upload, 2 workers, 2 faults (death, stall, lost audit, commit, lost answer, failed compensation) | order of the purge, accounts, every upload decided |
| `pipeline_revision` | an infected upload and a stored document, each revised, 1 worker that dies or stalls, a queue that may ignore an enqueue while it is at that document | true verdicts, nobody forgotten and everything scanned in the end, documents whose last enqueue was ignored apart |
| `gate` | 2 requests in flight of 2 clients, a member and a super_admin over two tenants' addresses, the admin address and an unknown one; 1 token, idle lifetime 2, absolute lifetime 3, clock to 4, a session's read and touch at most 1 tick apart; uploads of batches and of versions, the upload limiter with limit 1 and window 2 | ended sessions admit nobody, active ones last, access inside the tenant and refusals on record, fair limits |
| `administration` | 2 replicas, 2 resets with the qa seed (which runs the dev seed first), seed scripts, a tenant created and one id drawn beyond the seeds', 2 blobs listed one a page, settings of one parameter, migrations and an emptied database by an operator's hand between two resets | whole schema, completed seeds, accounted parameters, fresh resets |
| `reset_ledger` | *violation* of `MigratedBeforeSeeding` | a reset drops the schema and not the ledger of its migrations, so the seed finds no table |
| `reads` | 3 stored documents and 2 yet to be uploaded, of 2 tenants, two of them scanned, confirmed and purged and one revised up to 3 versions with any of them withdrawn; pages of 1, 3 writes before a read and 3 during it, 1 day, a member who uploaded some of them | traversals miss nothing, coherent details |
| `browser` | 4 acts of the user or of others, besides what prepares them: 2 batches of up to 2 files, or one too many, 1 failed poll, 2 parameters with 2 writes each, 4 writes of the document's versions, 1 preview | the tray's truth, shown data as new as what was known, infected files told |
| `streams` | every content of up to 3 bytes of delimiter pieces and chosen longer bodies, limit 4 bytes a file, batch 2, sniffing 2, chunks and socket writes of any length up to 3 | whole parts, verdicts of whole files |

More instances are demonstrations to run by hand, two as configurations of their
own and four as edits of one above; each violates what it names, and is recorded as
a finding (run `pipeline_claims.cfg` with `-continue` to see both of its own):

| Instance | Module | Violates | Shows |
|---|---|---|---|
| `upload_slow.cfg` | `MCUploadSystem` | `NoOverUse` | a file slower than its reservation is charged beyond the quota |
| `revisions.cfg` with `Content <- Distinct`, `FaultPoints = {"commit"}`, `MaxFaults = 2` and no other property | `MCRevisionSystem` | `NoVersionPointsAtNothing` | two overlapping rollbacks in the order of their inserts leave a current version without a blob |
| `pipeline_claims.cfg` | `MCDocumentPipeline` | `PurgeReturnsQuota` | purging an infected revision leaves the older version's bytes charged and its blob stored |
| `pipeline_claims.cfg` | `MCDocumentPipeline` | `EnqueueTwiceIsSafe` | a revision enqueued while the document's job runs is ignored, the running job ends as stale, and nobody scans it |
| `pipeline_revision.cfg` with `SPECIFICATION Spec`, `Seeded = {}`, `Revisions = {r1}`, `Workers = {w1, w2}`, no `Infected`, no fault and no other property | `MCDocumentPipeline` | `NoDocumentIsForgotten` | a worker with an old snapshot claims the revised document and drops it |
| `browser.cfg` with `SPECIFICATION Spec` and no other property | `Browser` | `PreviewIsAlive` | a version picked again is shown at a url that was revoked |
| the same | `Browser` | `SavedIsShown` | a fetch asked before a save lands after its answer, and the row shows the old value under "Konfigurasi berhasil disimpan" |

Three facts are about single states and stand as assumptions that TLC evaluates
whenever it starts: `DoubleAgrees` (`MCCatalogReads`: the in-memory visibility
the service's tests use is the query's, for every row and both roles),
`IndicatorAgreesWithRefusal` and `ReadinessIsReachability` (`MCAdministration`).

**Why the bounds are enough.** Three attempts are the least for which some pairs
fit and others do not, and a clock to 5 with lifetime 2 lets a reservation expire
and its capacity be taken and expire again. Two batches of two are the least with
an earlier accepted file to roll back and a duplicate on either side of the other
request; a quota of 5 makes each position refusable. Three revisions are the least
with a rollback between an earlier and a later version. Two faults allow a failure
and a failure of what it leads to; three, in the cheaper revision model, also a
third party's. Two workers are what duplicate delivery needs. In the gate two
requests are what it takes for a touch to land out of order or after a sign-out,
and an absolute lifetime of one more than the idle one separates the deadlines;
one limiter suffices, since limiters share nothing but code. Two replicas are what
two runners need; a page of one object lets a purge see a page before an upload to
it; two resets let one begin over what uploads and the other, failed or succeeded,
have left. A document of the viewer's that stays and one that is written to, another
member's that is, one of the viewer's still to come and one of another tenant's make
up to four pages of one and let rows come, go and change their state before a
traversal, between its count and its page, and between two pages. Two
versions beyond the first are the least with a gap, of which a detail in hand may
have listed either side. Two mounts with an answer for each, two batches, the second
chosen in a picker that was open when the first was dropped, and two writes of a
parameter are the least for an answer to come late; four writes of the versions let
an upload be listed, taken back and overtaken. A content of three
bytes spans every cut of the delimiter's first bytes, and the chosen bodies hold
the rest.

**Fairness.** `FairSpec` makes every request and every worker weakly fair: a
promise that is awaited is settled or rejected, and a dead worker is restarted
by its supervisor. Faults are bounded by `MaxFaults`, which stands for "calls
do not fail for ever": the queue's retries end in success. In `QuotaProtocol`
only the clock is fair: capacity returns with nobody acting. In the browser the
polls of a mounted tray are weakly fair, being on a timer, and so is the step by
which an authentication error takes the user to the login page.

**Where the code stops compensating.** Properties that hold only as far as the
code compensates say so in their antecedent, with `NeverThrew` or `Compensable`,
and the steps outside it stay in the model. Outside it TLC finds, for the runs
with the same fault points: a reservation and a blob left by an insert that
throws, a row without a blob when one of three compensations fails, bytes charged
for a deleted file when a commit's answer is lost. In the pipeline, beyond the
violation runs, it finds a document deleted by a worker that was superseded,
a document left without a job by a revision that is rolled back after its
insert disturbed a scan, and version numbers with a gap (1, 3) after a rollback,
which nothing forbids and `CatalogReads` and `DocumentPage` reckon with.
A comment in `quota-repository.ts` (71-72) has a retry of `revertCommitReservation`
not debit twice; the guard only keeps the counter from going negative. These are
recorded as hazards with their lines and the sentences of the documentation they
touch.

`CHECK_DEADLOCK FALSE` throughout: requests end, and the model's clock stops.

## 4. Proofs

The proof modules prove, for any set of tenants, any finite set of attempts of any
sizes, any quota and lifetime; any batches, documents, contents, order of steps and
calls that throw; any number of workers; for the gate any accounts, addresses,
requests and limits; for a file's journey any bodies, limits, chunks and socket
writes; for administration any two seeds that fit, any replicas, requests and
objects; for reads any documents, page sizes and writes; and for the browser any
files, batches, parameters, versions and answers. Every invariant and every action
property that a run checks is stated by a theorem:

| Module | Theorem | Says |
|---|---|---|
| `QuotaProofs` | `Typing` | `Spec => []TypeOK`: in particular the counter never becomes negative |
| | `RowsFollowPhases` | rows belong to undecided callers, reversals are the debited documents |
| | `Balance` | the counter is the bytes committed and not taken back |
| | `DebitsSucceed` | the guarded debit never throws on a caller that keeps to the contract |
| | `QuotaHolds` | if no caller commits late, stored plus live reserved bytes fit the quota |
| | `LedgerImplementsPool` | if no caller commits late, the ledger implements `CapacityPool` under the mapping `Holders`, `Dropped` |
| `UploadProofs` | `BatchesHold` | the inductive invariant `Batches` of concurrent batch uploads |
| | `StandOrFallTogetherHolds` | row, blob, charge and reservation of a file are there together or not at all, as far as the code compensates |
| | `RowHasBlobHolds` | a version row has its blob, except while it is being undone |
| | `ExpiredLeavesNothingHolds` | a batch whose session expired leaves nothing behind |
| | `AcceptedIsDurableHolds` | what a response reports accepted is stored, queued and on record |
| | `JobsArePaidForHolds` | a job is queued only for a document that is stored and paid for |
| | `OneOfIdenticalWinsHolds` | of identical files one is stored when all their requests succeed |
| | `FollowsQuotaProtocolHolds` | concurrent uploads implement `QuotaProtocol`, when compensations and commits answer |
| | `CounterIsTheAcceptedBytes` | then the counter is the bytes of the files accepted and not taken back |
| `RevisionProofs` | `NumberingHolds` | the inductive invariant `Numbering` of concurrent revisions |
| | `NumbersAreUnique` | no two versions of a document bear one number |
| | `NewestIsCurrent` | a document points at its newest version |
| | `KeptHolds`, `ChargedStays` | a version once committed keeps its row, its blob and its bytes |
| | `TracesHold` | the inductive invariant `Traces` of what requests leave behind |
| | `RevisionsSettleHolds` | once all are answered, rows, blobs and counter are those of the charged requests |
| | `FailedRevisionsLeaveNoTraceHolds` | a document all of whose revisions failed is as it was |
| | `AcceptedRevisionIsQueuedHolds` | a revision answered with success has its document queued behind a job |
| `PipelineProofs` | `BasicsHold` | the inductive invariant `Basics` of uploads, revisions and workers together |
| | `VerdictsAreTrueHolds` | a version on record as clean is clean, one on record as infected is |
| | `PurgeIsOrderedHolds` | an accepted document that is gone has its bytes returned, its blob deleted and its event recorded or lost, if no revision is infected |
| | `NoDocumentIsForgottenHolds` | a document that awaits its verdict is in somebody's hands, or had its last enqueue ignored, while requests do not throw |
| | `AccountsSettleHolds` | once all is quiet, counter and blobs are those of the versions on record and nothing stays reserved, if no version is added and neither the session check nor the insert throws |
| `RequestProofs` | `GateHolds` | the inductive invariant `Gate` of requests in service |
| | `AccessAccounted` | handlers inside a tenant run for its own principals, and its principals' refusals are on record |
| | `EndedSessionsAdmitNobody` | a session that was over admits nobody, nor one idle beyond its deadline |
| | `FreshHolds` | the inductive invariant `Fresh`: a touch lands at most `Lag` after its row was read |
| | `ActiveSessionsAreKept` | a session used recently enough, and not past its end, is not called expired |
| | `MeteredHolds` | the inductive invariant `Metered`: every counter says who passed in its window |
| | `FairLimits` | a limiter lets at most twice its limit pass in a window's length, and refuses only after its limit has passed |
| | `FilesArriveWhole` | an item collected is a file that was sent, in its place, with its size, whole unless it is too large, however the body was cut; a body read to its end gives all, or one more than a batch may have |
| | `JourneyHolds` | the inductive invariant `JourneyInv` of a file on its way |
| | `VerdictsAreOfWholeFiles` | a verdict is about every byte of the file the user sent, however the socket took them and whenever timer, answer and end of the connection come |
| `AdministrationProofs` | `SpecInvariant` | the inductive invariant `Invariant` of resets, seeds and settings |
| | `TenantsStayWhole` | in every committed state ids, names and subdomains are no two tenants', and a tenant's rows refer to its own |
| | `SeedsAlwaysComplete` | a seed completes what an interrupted one began, and run again changes nothing |
| | `ConfigStaysAccountedFor` | a parameter in force is in range, and is a seed's or told by an event recorded or to come, unless its newest event was lost |
| | `SucceededResetsAreFresh` | a reset that succeeds while nobody else writes leaves the seed and nothing more, whatever was stored, queued and indexed before |
| `ViewProofs` | `DetailsAreCoherentHolds` | a detail leaves out, flags and lists above its row's version what was taken away and added since that row was read, and a miss is a denied access only if it is another tenant's |
| | `TraversalsMissNothingHolds` | a client that pages to the end has seen what was visible all along, and in a quiet catalog each document once |
| | `ShownKnowsWhatWasKnownHolds` | no page shows an answer older than what the user had been told or shown when it was asked for, and after a save or an upload none that is not newer |
| | `TrayTellsTheTruthHolds` | what the tray says of a file is what became of that file, overlapping batches included |

The argument for the ledger. `TypeOK` is inductive because every debit is
guarded. `Bookkeeping` (rows and reversals follow the callers' phases) is
inductive given types.
`LedgerBalance` is inductive only with both: a commit must find its id outside
the committed set, a debit must find it inside and not yet reversed.
`NoOverAllocation` needs, beside these, that an admission judged with a clock
reading of the past saw every row that is live now (`LiveIds` shrinks with time),
that the new id had no row, and that a prompt commit moves live bytes to the
counter. Sums are cardinalities of sets of units (`Tables`), so that their laws
(`TablesTheorems`) follow from the finite-set theorems without induction.

The refinement splits the steps in two. `Reserve` is an `Acquire`: what the
tenant's callers hold is the counter plus the rows live now, which is at most
what the admission counted with its older clock reading (`HeldIsCounted`, from
`LedgerBalance`). Every other step admits nobody and adds no holder, so it is a
`Drop` of the holders that are gone, or a stutter (`LosingHolders`). A late
commit would make a holder of a caller that had dropped out.

The argument for uploads. A request's local variables say how far each of its
files has come: `Orderly` ties `pc`, the position and the outcomes so far, and
`StoresAgree` says from below and from above what the request has in each store.
What it has accepted and not taken back is there (`Kept`), and nothing else of it
is there except the file in hand, as long as nothing threw that the code does not
compensate (`Tidy`). No step touches another request's files (`TouchesOnly`), so a
step disturbs the agreement of its own request only, and there of one file only
(`FileAgrees`, `SparesAllBut`). That two identical files are not both refused needs
more: a duplicate has a rival that is stored, or one of a request that is bound to
fail (`Rivals`), and a request bound to fail stays so (`Follows`). TLC checked both
invariants first, on the instance of `upload_faults` with failing compensations and
lost answers as well (377,182 states).

The refinement maps every file to the phase of its request (`PhaseOf`). The counter
cannot be argued about in the upload model alone: that a revert finds enough to
debit is `DebitsSucceed` of the protocol, which needs the protocol's invariants,
which need that the step is the protocol's. So `Together`, the uploads' invariant
and the protocol's, is carried through each step as one, and the protocol's step
lemmas are cited from `QuotaProofs` through its instance `Ledger`, whose
assumptions follow from the uploads' (`LedgerAssumptions`).

The argument for revisions. An insert numbers its version above all others of its
document, so numbers stay unique and the new version is the newest. A rollback
of the current version points the document back at what the insert's receipt
names, which need not be what is newest by then, nor even be there. Two things
save it: the foreign key, which refuses a version that is gone, and
`ReceiptsHold`, that every stored version numbered below one that may be rolled
back is numbered at most as its receipt's. Later inserts are above it and other
rollbacks only take versions away, so nothing spoils it. `PendingAreUnknown`
says that a request that has not inserted has no row a receipt could name.
`ChargedStays` rests on `Kept`: what a request deletes is its own, and only
while it is being undone (`StepsKeepOthers`, `StepsKeepOwn`), and the counter is
only ever added to (`StepsAddToCounter`). The greatest of a finite set of
numbers (`MaxOfFinite`) comes from the well-foundedness of strict inclusion,
without an induction.

What revisions leave behind is `Traces`: every row, blob, reservation and receipt
is some request's and says how far it has come (`Origins`, `Holdings`). A document's
row is always its first or one written by an insert (`Proper`), so a rollback that
finds its receipt's version restores it whole. `Failures` says that at most one
commit has thrown: two rollbacks of overlapping revisions are what the foreign key
may refuse, and then a trace is left (section 3), hence the antecedent `Compensable`
of the two properties. TLC checked `Traces` with every call failing (155,499 states).

The argument for the pipeline. `Basics` gives the types, ties the uploads' and the
revisions' progress to their ids, and says that an attempt not yet inserted (`Unborn`)
is known to no table, queue, receipt or worker, so that the ids of rows to come cannot
be confused with old ones. `Verdicts` needs little beyond it: a worker carries its
verdict only from the scan of the version it holds. `Cleanup` adds, along the purge,
what each of its steps has done, and that a file accepted and not rolled back is
stored or purged. With an infected revision it is false, and so is the property's
point (section 3: only the infected version's bytes return). `Attended` says in whose
hands a document is: a queued job, an upload that will enqueue it or take it back, a
revision about to enqueue, or a worker that will decide its current version
(`Decides`); or its last enqueue was ignored. A throw leaves it in nobody's, and two
workers of which one holds an old snapshot lose a revised one (section 3 shows it), so
the theorem assumes that no request throws, and no revisions or one worker at most;
workers may still die, stall and get jobs twice. TLC checked the invariants before
they were proved, with all fault points and clean revisions, the last on instances
that meet its assumption.

The argument for the pipeline's accounts, when no version is added. A request holds
something of at most one attempt at a time: a reservation (`Reserving`), a blob without
a row (`Unfiled`), a row it is about to take back (`Doomed`), bytes the
counter has yet to be given (`Unpaid`) or owes them back (`Owed`). `Books` says that
rows, blobs, reservations and counter are those of the documents on record plus
what requests hold, so that with nobody holding anything the tables agree. A
request and a worker never settle the same document: what has a job, or had its
bytes returned, is of a request that is past its last file (`JobsOfPast`), so a
compensation never returns bytes that a purge returned. And a row on record as
infected is in the hands of a purger that has yet to delete it (`Infections`), so no
purge that died halfway is lost once the queue is empty. Whether the bytes of a
purged document were returned is read off the reversals, which decide
what is `Charged`. An uncaught throw of the session check or the insert leaves what is held
with nobody, and the theorem excludes it by assumption; `Books` itself is conditional on
every compensation and commit answering (`Compensable`), as the property is. TLC
checked the whole of it with one file and with two under all remaining fault points.

The argument for reads. A row keeps its age, and a confirmation is not taken back
(`Kept`), so a write that takes nothing from the list as of now takes nothing from
the list as of the request's clock either (`SelectedStays`), and time only adds to
it (`SelectedAges`). Hence, as long as nothing left, every document's place in the
order only moves down (`RanksGrow`), and what has been visible all along and was
not shown has its place behind the pages shown (`Progressing`). After the last page
it would have a place beyond the number of rows. In a quiet catalog the pages are
cuts of one list (`AsShown`), hence apart (`PagesApart`). TLC checked `Traversal` with
pages of one and of two rows first. To be reasoned about, a page is the rows with a
place in its window, not a segment of a sorted list. For a detail `DetailsHold`
compares what was counted when the row was read with the document as it is: a serial
given to a version is never given again, since a document's `last` only grows and an
id that is gone is not drawn again, so what is missing was taken away and what is
above the row's version came after.

The argument for the browser. A query's cached number is one the server has written,
what the user was told or shown was written, and an answer on its way was given when
the fetch had begun, so it knows of all that was known by then, whatever was answered
in between. `InOrder` says so of every key and is kept by each of the cache's
operations (one lemma each), so each handler that calls one of them keeps it. An
answer to a save or an upload is of a write that did not exist when it was asked for,
hence is newer than what was known (`SaveInOrder`, `RevisionInOrder`). That a late
answer may nevertheless be older than what is on the screen is no part of it: the code
lets it land, and section 3 shows what that does to a row just saved. The tray's
invariant is of one item at a time (`Stands`), of one batch on its way (`Travels`) and
of the server's documents (`DocsOf`). An answer pairs results with files by position,
and the files sent are the positions that passed the browser's check, in order.
Batches that overlap in one list are told apart by their items' ids. The list of them
is chosen, not computed, so that its existence needs a proof (`ListsExist`), by the
least set of positions without one.

The argument for the gate. A token is drawn once: a session that was signed out
does not come back, and a touch changes neither a row's absolute end nor makes a
row. So a token that was not alive when its request set out is found missing or
past its end (`Sought`), and a row of it that was read in spite of that is past
its end too (`Read`); both survive whatever the other requests do
(`OthersStaySound`), because uses and time only grow (`Moved`). The time written on
a row was judged before, so the idle deadline is never counted from later than
the last judgement (`World`). `Cleared` is that a role which meets a floor inside a
tenant is not super_admin, hence its account has a tenant, which the address
check has found to be the addressed one. What follows a call is a function of the
context, so each of these functions has one lemma (`GoesOn`), used by every step
that ends in it.

For the sessions that are kept, `Fresh` follows the touches: the request that reads a
row lands its touch at most `Lag` later (`Landings`), and writes a clock reading no
earlier than when it read the row and no later than now (`Timed`). So a row is never
further behind the latest use of its session than that. For the limits, the passes the
model remembers of a key are parted in two (`Parted`): those of the counter's window,
as many as its hits say up to the limit, and before them those of one earlier window,
again at most the limit, which are a window's length old by the time the present one
ends (`Running`). When a window ends, what is left is therefore at most the limit and
older than now (`Resting`). A pass needs `hits` at most the limit, so at most twice
the limit is ever remembered; a refusal needs `hits` beyond the limit, so the limit
has passed. Who waits for a limiter has yet to be judged by it, and who passes it goes
on with a request that was not at its end (`Waits`, `Queues`).

The argument for the reader. A body's own description says where each delimiter ends,
and that no delimiter begins earlier than the one meant (`FirstAt`). The invariant
`ReaderInv` keeps three things: the bytes read off the wire are a beginning of the
body, of which the buffer holds the end (`Cut`); the buffer begins where the reader's
`pc` says, at the end of the k-th delimiter, in the headers or so many bytes into the
content of the next part (`Place`); and the items are the first k parts' files, in
their order (`Itemized`). The hazard is what is forgotten between two chunks. In the
preamble and the headers it is where to search on from: `searchStart` never passes the
place where the pattern begins. In a content it is what is let go before the delimiter
has been seen: `SafeLen` holds back one byte less than a delimiter has, so a delimiter
of which any byte is still on the wire begins in what is held back, and one that is
wholly in the buffer would have been found. So what is let go is content. What is kept of it is
`KeptSoFar`: all within the limit, beyond it a beginning that is long enough to sniff.

The argument for the scan. What was given to the socket and not read by the daemon is
the daemon's `unread` followed by what is `pending`. `Frames` says that these bytes are
a row of chunks of the file, each after its length, and maps the beginning of every
frame to its position in the file; `Follows` says what comes after the last of them,
by the writer's `pc`: nothing, the length of the chunk in hand, or the length zero when the
file is written. The daemon's copy is the file up to the position of the first frame.
So a partial write moves bytes from one side to the other and changes neither
(`FlushPendingKeeps`), a frame read moves the row on by one (`FramesShift`), and a
length zero is read only when the copy is the file (`DaemonReadsWhatWasWritten`).
`Means` carries that to the answer, of which only a piece with its terminator settles
the promise, as what its first piece said. Once settled nothing changes what it says
(`SettledStays`), and the timer, an error or the end of the connection settles it as
failed only. `JourneyInv` joins the two: the file scanned is a collected item not larger than the
limit, hence whole.

The argument for administration. The schema is a record of tables that a reset drops,
creates bare and fills. `Whole` says that every committed schema is one that
transactions make (`Schema`): subdomains, names and ids are apart, every document's
uploader, version and category is there and of its tenant. It needs that two seeds
share neither names nor users, since the second may run over what the first, a
tenant's creation or both have left. `Requests` and `Runners` are the records of
handlers and jobs. `Parameters` accounts for every value in force: it is a seed's, or
there is an event that tells it, recorded or still with the handler that wrote it, or
the newest one of that parameter was lost. `Lonely` follows a reset that nobody else
disturbs (`alone`): after its drop the schema is bare, after its seed it is the seed's
(`SeededWhole`), and the objects still stored, whoever put them there before, are
among those of the page in hand, unless that page was full. `SeedsComplete` is proved
of a seed as an operator on schemas: it finds, by subdomain, the tenant that an
interrupted run or an administrator made, and writes every row of its own over
whatever is there, so a second run finds what it would write.

Assumptions: the named `ASSUME`s of the modules only, which say that constants have
their types, `TTL` is positive, a caller waits less than the lifetime for the lock,
every file and every new version has an id of its own (`randomUUID`), no two seeded
versions are of one content (the unique index), exactly the super_admins are without a
tenant (`users_role_tenant_check`), no cookie is no token, and requests come from the
clients and name operations the API registers. For administration: that the two seeds
refer to their own rows, bear different names and subdomains and share no user
(`SeedsAssumption`; `RowsFit` in `MCAdministration` has TLC check it of all the rows
the code seeds, while the run itself uses fewer), that what they configure and what is
asked for are parameters the code knows, the seeds' values in range
(`SeededConfigAssumption`, `SettingsAssumption`), and that the objects are finitely
many (`ResetAssumption`). For a file's journey: that a body is what a browser sends
(`BodiesAssumption`: a boundary its contents do not hold, and a last delimiter with
its two dashes; a preamble may hold anything else; a connection that is lost ends it
anywhere), that sniffing wants no more of a file than the limit allows
(`SizesAssumption`: 64 KiB, where the limit is at least a megabyte), and that all
lengths are written in as many bytes and no two alike (`LengthAssumption`: four bytes,
big-endian). The browser's theorems assume nothing of the constants. Seven theorems
assume more, and say so in their statement: `QuotaHolds` and `LedgerImplementsPool`
that commits are prompt, which `upload_slow` shows the code not to ensure;
`FollowsQuotaProtocolHolds` and `CounterIsTheAcceptedBytes` that no compensation
throws and no commit's answer is lost, and that the tenant starts empty;
`PurgeIsOrderedHolds`, `NoDocumentIsForgottenHolds` and `AccountsSettleHolds` what is
said above.

Model-checked only: `AccountsSettle` when versions are added, and all liveness
(`AbandonedCapacityReturns`, `RequestsFinish`, `EveryUploadIsDecided`,
`DocumentsAreScanned`, `InfectedIsTold`); liveness and `ENABLED` are out of the
prover's reach.

## 5. Not modelled, and the plan

Not modelled, and why:

* **The text of the SQL migrations**: taken to be the schema the code declares.
* **The document list, the tenant screens and all rendering of the web client**:
  the pages modelled are those that write, poll or keep something; the others show
  one query's answer.
* **Filters and the other sort orders of the list**: the traversal is modelled for
  the default order, newest first; a filter adds a condition on a row, as
  visibility already is one.
* **The enrichment state machine** (`isTransient`, `canTransition`, `truncateTags`):
  pure tables that nothing in the repository calls yet.
* **Search, classification, the mocks, and the loading of configuration**:
  scaffolds without behaviour, canned answers, and the parsing of environment
  variables.
* **The command line that opens clamd's stream, password hashing, sniffing,
  content hashing, OpenAPI generation and logging**: data without control.
* **The processing queue's own guarantees**: the adapter in the repository is a
  stub; the models assume delivery at least once of a job it takes, and that it
  takes an enqueue whenever no worker has that document's job.
* **What two replicas' resets leave when they mix**: the steps are in the model and
  the schema is checked to be whole after each; the code promises nothing else of
  them, and no property states more.
* **The previous value in a parameter's event**, which another administrator may
  have replaced before the write.
* **A hidden tab**, in which the polls of accepted files pause
  (`refetchInterval`): the fairness of polls is that of a tab in view.
* **The denied event of a super_admin**: 01-conventions.md:185 has every 403 recorded,
  but a principal without a tenant has no trail to be recorded in, in the code as in
  `AccessIsAccountedFor`.

Planned next:

1. **Rollbacks beside workers**: a batch of two whose first document is revised
   before the session expires; a revision rolled back during a scan.
2. **Theorems**: `AccountsSettle` with revisions, which needs to know of every
   version, not only of every document, whose hands it is in.
