---------------------------- MODULE CatalogStore ----------------------------
(***************************************************************************)
(* The state the catalog's handlers share: the documents and               *)
(* document_versions tables (packages/catalog/src/repository.ts), the blob *)
(* store, the processing queue and the audit trail, beside the quota       *)
(* ledger.  One operator per repository transaction.  The tenant is fixed: *)
(* every query below carries WHERE tenant_id.                              *)
(*                                                                         *)
(* One upload attempt of one file is one id: it names the attempt's        *)
(* reservation, its version and its blob (blobKey() is injective in the    *)
(* version id), and for a first version its document.  The columns a       *)
(* version never changes, its hash and its size, are functions of the id.  *)
(***************************************************************************)
EXTENDS QuotaLedger

CONSTANTS
    tenant,      \* the tenant all requests belong to
    Contents,    \* content hashes
    Content,     \* [ReservationIds -> Contents]: what the attempt uploads
    Size,        \* [Contents -> Nat]: bytes
    Refusable,   \* contents refused for their type or size
    Seeded,      \* ids that are stored, scanned documents to begin with
    FaultPoints, \* the calls that may throw in this instance
    MaxFaults    \* bound: how many of them do

ASSUME StoreAssumption ==
    /\ tenant \in Tenants
    /\ Content \in [ReservationIds -> Contents]
    /\ Size \in [Contents -> Nat]
    /\ Refusable \subseteq Contents
    /\ Seeded \subseteq ReservationIds
    /\ \A v, w \in Seeded : Content[v] = Content[w] => v = w
    /\ MaxFaults \in Nat

VARIABLES
    documents,  \* table: document id -> [currentVersionId, processingState]
    versions,   \* table: version id -> [documentId, versionNumber, malware columns]
    blobs,      \* keys present in the blob store
    queue,      \* documents with a job waiting for a worker
    audit,      \* audit events: <<action, subject>>
    faults      \* how often each call has thrown so far

storeVars == <<documents, versions, blobs, queue, audit>>

SizeOf(id) == Size[Content[id]]
StoredBytes(ids) == TotalBytes([id \in ids |-> SizeOf(id)])

\* malwareScannedAt and malwareSignature: set or NULL.
NewVersion(d, n) == [documentId |-> d, versionNumber |-> n,
                     malwareScannedAt |-> FALSE, malwareSignature |-> FALSE]

SeededDocument(d) == [currentVersionId |-> d, processingState |-> "ready"]
StoreInit ==
    /\ used = [t \in Tenants |-> IF t = tenant THEN StoredBytes(Seeded) ELSE 0]
    /\ reservations = EmptyTable /\ reversals = {} /\ now = 0
    /\ documents = [d \in Seeded |-> SeededDocument(d)]
    /\ versions = [v \in Seeded |-> [NewVersion(v, 1) EXCEPT !.malwareScannedAt = TRUE]]
    /\ blobs = Seeded
    /\ queue = {} /\ audit = {} /\ faults = [point \in FaultPoints |-> 0]

\* None of these calls has thrown.
NeverThrew(points) == \A p \in points \cap FaultPoints : faults[p] = 0

\* A call named by `point` throws and changes nothing.
Throws(point) ==
    /\ point \in FaultPoints
    /\ TotalBytes(faults) < MaxFaults
    /\ faults' = [faults EXCEPT ![point] = @ + 1]

VersionsOf(d) == {v \in DOMAIN versions : versions[v].documentId = d}

\* prepareBlobUpload, before any effect: the type, the size limit, and last the
\* reservation's own check of the quota.
Accepted(id) == Content[id] \notin Refusable
Admissible(id) == Accepted(id) /\ Fits(tenant, SizeOf(id), now)

\* UNIQUE (tenant_id, content_hash), over the versions of every document.
ContentStored(id) == \E v \in DOMAIN versions : Content[v] = Content[id]

\* Mutant of InsertDocumentWithVersion: no unique index on the hash.
InsertWithoutUniqueHash(id) ==
    /\ documents' = Insert(documents, id,
           [currentVersionId |-> id, processingState |-> "queued"])
    /\ versions' = Insert(versions, id, NewVersion(id, 1))
    /\ UNCHANGED <<blobs, queue, audit>>

\* insertDocumentWithVersion: three statements, one transaction.
InsertDocumentWithVersion(id) ==
    /\ ~ContentStored(id)
    /\ documents' = Insert(documents, id,
           [currentVersionId |-> id, processingState |-> "queued"])
    /\ versions' = Insert(versions, id, NewVersion(id, 1))
    /\ UNCHANGED <<blobs, queue, audit>>

\* deleteDocument: the row and every version it has at that moment.
DeleteDocument(d) ==
    /\ documents' = Delete(documents, d)
    /\ versions' = DeleteAll(versions, VersionsOf(d))
    /\ UNCHANGED <<blobs, queue, audit>>

PutBlob(id) ==
    /\ blobs' = blobs \cup {id}
    /\ UNCHANGED <<documents, versions, queue, audit>>

\* Mutant of DeleteBlob: keys are shared by identical contents.
DeleteBlobByContent(id) ==
    /\ blobs' = {k \in blobs : Content[k] # Content[id]}
    /\ UNCHANGED <<documents, versions, queue, audit>>

\* Deleting a key that is absent is no error.
DeleteBlob(id) ==
    /\ blobs' = blobs \ {id}
    /\ UNCHANGED <<documents, versions, queue, audit>>

Enqueue(d) ==
    /\ queue' = queue \cup {d}
    /\ UNCHANGED <<documents, versions, blobs, audit>>

\* activity.record never throws; a failed insert is logged and lost.
Record(action, subject) ==
    /\ \/ audit' = audit \cup {<<action, subject>>} /\ UNCHANGED faults
       \/ Throws("audit") /\ UNCHANGED audit
    /\ UNCHANGED <<documents, versions, blobs, queue>>

States == {"queued", "processing", "ready", "failed"}

StoreTypeOK ==
    /\ LedgerTypeOK
    /\ DOMAIN documents \subseteq ReservationIds
    /\ \A d \in DOMAIN documents :
          documents[d] \in [currentVersionId : DOMAIN versions, processingState : States]
    /\ DOMAIN versions \subseteq ReservationIds
    /\ \A v \in DOMAIN versions :
          versions[v] \in [documentId : DOMAIN documents, versionNumber : Nat \ {0},
                           malwareScannedAt : BOOLEAN, malwareSignature : BOOLEAN]
    /\ blobs \subseteq ReservationIds /\ queue \subseteq ReservationIds
    /\ faults \in [FaultPoints -> 0 .. MaxFaults]
=============================================================================
