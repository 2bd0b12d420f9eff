-------------------------- MODULE DocumentPipeline --------------------------
(***************************************************************************)
(* Uploads, revisions and scan workers over the same stores: what becomes  *)
(* of a document between the request that accepts it and the verdict on    *)
(* its contents, with workers that die, jobs delivered twice and requests  *)
(* that revise a document while it is being scanned.                       *)
(*                                                                         *)
(* The queue may, and need not, ignore an enqueue while a job for that     *)
(* document is in flight: the specification's queue does (the job's id is  *)
(* the document's, 12-document-processing-pipeline.md 12.3, 12.6), and no  *)
(* adapter is in the repository.                                           *)
(***************************************************************************)
EXTENDS UploadBatch, AddVersion, ScanWorker

\* A new version's attempt is no file of an upload (randomUUID).
ASSUME PipelineAssumption ==
    \A r \in Revisions, u \in Uploads : \A k \in DOMAIN Files[u] : Files[u][k] # Revision[r]

VARIABLE dropped  \* documents an enqueue of which was ignored since they last waited

vars == <<ledgerVars, storeVars, faults, up, av, wk, dropped>>

Init == StoreInit /\ UploadInit /\ AddVersionInit /\ WorkerInit /\ dropped = {}

Working(d) == \E w \in Workers : wk[w].job = d

\* A waiting job makes up for an enqueue that was ignored.
Waits == dropped' = dropped \ queue'
UploadsAct   == UploadNext /\ Waits /\ UNCHANGED <<av, wk>>
RevisionsAct == AddVersionNext /\ Waits /\ UNCHANGED <<up, wk>>
WorkersAct   == WorkerNext /\ Waits /\ UNCHANGED <<up, av>>

\* queue.enqueue(d) returns and adds no job: one for d is with a worker.
Ignored(d) ==
    /\ Working(d) /\ d \notin queue
    /\ dropped' = dropped \cup {d}
    /\ UNCHANGED <<ledgerVars, storeVars, faults, wk>>
UploadIgnored(u) ==
    /\ At(u, "enqueue") /\ Ignored(Current(u))
    /\ Goto(u, "audit") /\ UNCHANGED av
RevisionIgnored(r) ==
    /\ AtRevision(r, "enqueue") /\ Ignored(Target[r])
    /\ RevisionTo(r, "audit") /\ UNCHANGED up

Next ==
    \/ UploadsAct \/ RevisionsAct \/ WorkersAct
    \/ \E u \in Uploads : UploadIgnored(u)
    \/ \E r \in Revisions : RevisionIgnored(r)

Spec == Init /\ [][Next]_vars

\* Requests being served go on, and so does every worker that has, or could
\* take, a job: a worker that dies is restarted.
FairSpec ==
    /\ Spec
    /\ \A u \in Uploads : WF_vars(UploadStep(u) /\ Waits /\ UNCHANGED <<av, wk>>)
    /\ \A r \in Revisions : WF_vars(RevisionStep(r) /\ Waits /\ UNCHANGED <<up, wk>>)
    /\ \A w \in Workers : WF_vars(WorkerStep(w) /\ Waits /\ UNCHANGED <<up, av>>)
-----------------------------------------------------------------------------
Scanned(d) ==
    d \in DOMAIN documents /\ versions[documents[d].currentVersionId].malwareScannedAt

\* Requests that have a document in hand and may still enqueue it.
Emitting(d) == \E u \in Uploads : ~Finished(u) /\ d \in {Files[u][k] : k \in DOMAIN Files[u]}
Revising(d) == \E r \in Revisions : ~RevisionDone(r) /\ Target[r] = d

InSomeHands(d) ==
    Scanned(d) \/ d \in queue \/ Working(d) \/ Emitting(d) \/ Revising(d)

\* Nothing is in flight and no job waits.
Quiet ==
    /\ \A u \in Uploads : Finished(u)
    /\ \A r \in Revisions : RevisionDone(r)
    /\ \A w \in Workers : AtWorker(w, "idle")
    /\ queue = {}

TypeOK ==
    /\ StoreTypeOK
    /\ \A w \in Workers :
          /\ wk[w].pc = "idle" <=> wk[w].job = NoJob
          /\ wk[w].pc \notin {"idle", "load"} => wk[w].version \in ReservationIds
          /\ ~(wk[w].scanned /\ wk[w].signature)
    /\ dropped \subseteq ReservationIds \ queue

\* A version is on record as scanned clean only if its own content is clean,
\* however often it was delivered and whatever was uploaded over it meanwhile
\* ("scanning fails closed", 12-document-processing-pipeline.md 12.7).
VerdictsAreTrue ==
    \A v \in DOMAIN versions \ Seeded :
        /\ versions[v].malwareScannedAt => Content[v] \notin Infected
        /\ versions[v].malwareSignature => Content[v] \in Infected

\* A document whose current version awaits its verdict, or the cleanup after
\* it, is in somebody's hands: a job waits, a worker has it, or a request will
\* still enqueue it.  No crash, repeat or superseded run lets it go, only a queue
\* that ignored its last enqueue: true of one worker at a time, and of several
\* as long as no version is added.
NoDocumentIsForgotten ==
    \A d \in DOMAIN documents \ (Seeded \cup dropped) : InSomeHands(d)

\* The cleanup of an infected document is done in the order that a crash
\* cannot spoil: once an accepted document's row is gone, its capacity has
\* been returned and its blob deleted; and its capacity is returned only
\* after the event is on record or lost.
PurgeIsOrdered ==
    \A u \in Uploads : At(u, "ok") => \A d \in CreatedIds(u) :
        /\ d \notin DOMAIN documents =>
              AlreadyReversed(tenant, d) /\ d \notin blobs
        /\ AlreadyReversed(tenant, d) /\ NeverThrew({"audit"}) =>
              <<"malware.detected", d>> \in audit

\* No commit has lost its answer and no compensation has failed: the code
\* compensates neither.
Compensable == NeverThrew({"commitAnswer", "undo"})

\* When all is quiet the accounts agree, one debit per infected document
\* included: the counter and the blobs are those of the versions on record.
AccountsSettle ==
    Compensable /\ Quiet =>
        /\ blobs = DOMAIN versions
        /\ used[tenant] = StoredBytes(DOMAIN versions)
        /\ reservations = EmptyTable

\* Every document an upload reports accepted is in the end scanned, or gone if
\* it is infected; none is left as it was.
EveryUploadIsDecided ==
    \A u \in Uploads : \A d \in {Files[u][k] : k \in DOMAIN Files[u]} :
        <>[](Compensable =>
             IF Content[d] \in Infected THEN d \notin DOMAIN documents \cup blobs
             ELSE d \in DOMAIN documents => Scanned(d))

\* In the end the current version of every document has its verdict, unless the
\* queue ignored its last enqueue: a revised document too, whatever state it was
\* in and whichever run it interrupted.
DocumentsAreScanned == <>[](\A d \in DOMAIN documents \ dropped : Scanned(d))

\* "Safe to call twice; the queue de-duplicates on jobId" (12-document-
\* processing-pipeline.md 12.3): a document that awaits its verdict is held,
\* whichever enqueue the queue ignores.
EnqueueTwiceIsSafe == \A d \in DOMAIN documents \ Seeded : InSomeHands(d)

\* A detected signature stays "until the blob, quota, audit event and document
\* are purged" (12-document-processing-pipeline.md 12.1): when all is quiet the
\* counter holds no byte of a document that is gone.
PurgeReturnsQuota == Quiet => used[tenant] = StoredBytes(DOMAIN versions)
=============================================================================
