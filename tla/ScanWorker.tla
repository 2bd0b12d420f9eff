----------------------------- MODULE ScanWorker -----------------------------
(***************************************************************************)
(* The worker: createProcessDocumentHandler (apps/worker) and the scan     *)
(* stage it runs (packages/enrichment), one action per awaited call.       *)
(*                                                                         *)
(*   deliver -> load -> claim -> scan -> mark clean -> done                *)
(*                                    -> mark infected                     *)
(*       -> audit -> debit -> delete blob -> delete document -> done       *)
(*                                                                         *)
(* The queue is outside the repository.  It delivers at least once: a job  *)
(* whose handler throws, or whose worker dies, is delivered again, and a   *)
(* job thought stalled is delivered to a second worker beside the first.   *)
(* Attempts are not counted.  What it does of an enqueue during a run is   *)
(* left to the module that composes the two.                               *)
(***************************************************************************)
EXTENDS CatalogStore

CONSTANTS
    Workers,
    Infected   \* contents in which the scanner finds a signature

ASSUME WorkerAssumption == Infected \subseteq Contents

VARIABLE wk  \* [Workers -> the handler's local state]

\* job is the document named by the job; version, scanned and signature are
\* the handler's snapshot of its current version.
NoJob == "none"
Idle == [pc |-> "idle", job |-> NoJob, version |-> NoJob,
         scanned |-> FALSE, signature |-> FALSE]
WorkerInit == wk = [w \in Workers |-> Idle]

AtWorker(w, pc) == wk[w].pc = pc
WorkerTo(w, pc) == wk' = [wk EXCEPT ![w].pc = pc]

\* The handler returns and the job is done with.
Return(w) == wk' = [wk EXCEPT ![w] = Idle]

Deliver(w) ==
    /\ AtWorker(w, "idle")
    /\ \E d \in queue :
          /\ queue' = queue \ {d}
          /\ wk' = [wk EXCEPT ![w] = [Idle EXCEPT !.pc = "load", !.job = d]]
    /\ UNCHANGED <<ledgerVars, documents, versions, blobs, audit, faults>>

\* Mutant of Load: a document being processed is left to the run that claimed it.
LoadQueuedOnly(w) ==
    LET d == wk[w].job
    IN  /\ AtWorker(w, "load")
        /\ IF d \notin DOMAIN documents \/ documents[d].processingState # "queued"
           THEN Return(w)
           ELSE LET v == documents[d].currentVersionId
                IN  wk' = [wk EXCEPT ![w] =
                       [pc |-> "claim", job |-> d, version |-> v,
                        scanned |-> versions[v].malwareScannedAt,
                        signature |-> versions[v].malwareSignature]]
        /\ UNCHANGED <<ledgerVars, storeVars, faults>>

\* findTenantByDocumentId, findDocumentForProcessing: the snapshot.
Load(w) ==
    LET d == wk[w].job
    IN  /\ AtWorker(w, "load")
        /\ IF d \notin DOMAIN documents \/ documents[d].processingState \in {"ready", "failed"}
           THEN Return(w)
           ELSE LET v == documents[d].currentVersionId
                IN  wk' = [wk EXCEPT ![w] =
                       [pc |-> IF documents[d].processingState = "queued"
                               THEN "claim" ELSE "stage",
                        job |-> d, version |-> v,
                        scanned |-> versions[v].malwareScannedAt,
                        signature |-> versions[v].malwareSignature]]
        /\ UNCHANGED <<ledgerVars, storeVars, faults>>

\* claimQueuedDocument: only a row that is still queued.
Claim(w) ==
    LET d == wk[w].job
    IN  /\ AtWorker(w, "claim")
        /\ IF d \in DOMAIN documents /\ documents[d].processingState = "queued"
           THEN /\ documents' = [documents EXCEPT ![d].processingState = "processing"]
                /\ WorkerTo(w, "stage")
           ELSE /\ UNCHANGED documents
                /\ Return(w)
        /\ UNCHANGED <<ledgerVars, versions, blobs, queue, audit, faults>>

\* executeScanStage: a known signature goes straight to the cleanup, a version
\* already scanned is clean, and any other is read and scanned.
Scan(w) ==
    LET s == wk[w]
    IN  /\ AtWorker(w, "stage")
        /\ \/ s.signature /\ WorkerTo(w, "audit")
           \/ ~s.signature /\ s.scanned /\ Return(w)
           \/ /\ ~s.signature /\ ~s.scanned
              /\ s.version \in blobs
              /\ WorkerTo(w, IF Content[s.version] \in Infected
                             THEN "markInfected" ELSE "markClean")
        /\ UNCHANGED <<ledgerVars, storeVars, faults>>

\* The EXISTS both marks end in: the version is current and being processed.
IsClaimed(d, v) ==
    /\ d \in DOMAIN documents /\ v \in DOMAIN versions
    /\ documents[d] = [currentVersionId |-> v, processingState |-> "processing"]

CanMarkScanned(d, v) == IsClaimed(d, v) /\ ~versions[v].malwareSignature
MarkScanComplete(w) ==
    LET d == wk[w].job
        v == wk[w].version
    IN  /\ AtWorker(w, "markClean")
        /\ versions' = IF CanMarkScanned(d, v)
                       THEN [versions EXCEPT ![v].malwareScannedAt = TRUE] ELSE versions
        /\ Return(w)
        /\ UNCHANGED <<ledgerVars, documents, blobs, queue, audit, faults>>

CanMarkInfected(d, v) ==
    IsClaimed(d, v) /\ ~versions[v].malwareScannedAt /\ ~versions[v].malwareSignature
\* Mutant of MarkMalwareDetected: the verdict is put on whatever version is current.
MarkCurrentVersion(w) ==
    LET d == wk[w].job
    IN  /\ AtWorker(w, "markInfected")
        /\ IF d \in DOMAIN documents /\ documents[d].processingState = "processing"
           THEN /\ versions' = [versions EXCEPT ![documents[d].currentVersionId].malwareSignature = TRUE]
                /\ WorkerTo(w, "audit")
           ELSE UNCHANGED versions /\ Return(w)
        /\ UNCHANGED <<ledgerVars, documents, blobs, queue, audit, faults>>

MarkMalwareDetected(w) ==
    LET d == wk[w].job
        v == wk[w].version
    IN  /\ AtWorker(w, "markInfected")
        /\ IF CanMarkInfected(d, v)
           THEN /\ versions' = [versions EXCEPT ![v].malwareSignature = TRUE]
                /\ WorkerTo(w, "audit")
           ELSE UNCHANGED versions /\ Return(w)
        /\ UNCHANGED <<ledgerVars, documents, blobs, queue, audit, faults>>

\* The trail holds one malware event per document: a repeat is ignored.
AuditMalware(w) ==
    /\ AtWorker(w, "audit")
    /\ Record("malware.detected", wk[w].job)
    /\ WorkerTo(w, "debit")
    /\ UNCHANGED ledgerVars

\* Mutant of DebitQuota: the blob is left behind.
DebitThenDeleteDocument(w) ==
    /\ AtWorker(w, "debit")
    /\ RevertCommittedDocumentQuota(wk[w].job, tenant, SizeOf(wk[w].version))
    /\ WorkerTo(w, "deleteDocument")
    /\ UNCHANGED <<storeVars, faults>>

DebitQuota(w) ==
    /\ AtWorker(w, "debit")
    /\ RevertCommittedDocumentQuota(wk[w].job, tenant, SizeOf(wk[w].version))
    /\ WorkerTo(w, "deleteBlob")
    /\ UNCHANGED <<storeVars, faults>>

DeleteInfectedBlob(w) ==
    /\ AtWorker(w, "deleteBlob")
    /\ DeleteBlob(wk[w].version)
    /\ WorkerTo(w, "deleteDocument")
    /\ UNCHANGED <<ledgerVars, faults>>

DeleteInfectedDocument(w) ==
    /\ AtWorker(w, "deleteDocument")
    /\ DeleteDocument(wk[w].job)
    /\ Return(w)
    /\ UNCHANGED <<ledgerVars, faults>>

\* The blob is gone, or the counter does not hold the bytes: the call throws.
MustThrow(w) ==
    \/ AtWorker(w, "stage") /\ ~wk[w].signature /\ ~wk[w].scanned
          /\ wk[w].version \notin blobs
    \/ AtWorker(w, "debit") /\ ~AlreadyReversed(tenant, wk[w].job)
          /\ ~Debitable(tenant, SizeOf(wk[w].version))

\* The handler throws (a database, the scanner or the blob store is away, and
\* scanning fails closed) or its process dies, at any call: the job is
\* delivered again.
WorkerFails(w) ==
    /\ ~AtWorker(w, "idle")
    /\ \/ MustThrow(w) /\ UNCHANGED faults
       \/ Throws("worker")
    /\ queue' = queue \cup {wk[w].job}
    /\ Return(w)
    /\ UNCHANGED <<ledgerVars, documents, versions, blobs, audit>>

\* The queue takes a live worker for dead.
Stall(w) ==
    /\ ~AtWorker(w, "idle")
    /\ Throws("stall")
    /\ Enqueue(wk[w].job)
    /\ UNCHANGED <<ledgerVars, wk>>

WorkerStep(w) ==
    \/ Deliver(w) \/ Load(w) \/ Claim(w) \/ Scan(w)
    \/ MarkScanComplete(w) \/ MarkMalwareDetected(w)
    \/ AuditMalware(w) \/ DebitQuota(w)
    \/ DeleteInfectedBlob(w) \/ DeleteInfectedDocument(w)
    \/ WorkerFails(w) \/ Stall(w)

WorkerNext == \E w \in Workers : WorkerStep(w)
=============================================================================
