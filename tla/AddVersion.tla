----------------------------- MODULE AddVersion -----------------------------
(***************************************************************************)
(* POST /documents/:id/versions: addVersion of packages/catalog and the    *)
(* two repository transactions it uses, one process per request, one       *)
(* action per awaited call.  Requests for the same document run at once;   *)
(* the parent row's lock orders their inserts and nothing else of them.    *)
(***************************************************************************)
EXTENDS CatalogStore, FiniteSetsExt

CONSTANTS
    Revisions,  \* requests for a new version
    Target,     \* [Revisions -> ReservationIds]: the document named
    Revision    \* [Revisions -> ReservationIds]: the attempt

ASSUME RevisionAssumption ==
    /\ Target \in [Revisions -> ReservationIds]
    /\ Revision \in [Revisions -> ReservationIds]
    /\ \A r, s \in Revisions : Revision[r] = Revision[s] => r = s
    /\ \A r \in Revisions : Revision[r] \notin Seeded

VARIABLE av  \* [Revisions -> the request's local state]

\* previous: the receipt of the insert, previousCurrentVersionId and
\* previousProcessingState, as read under the row lock.
NoReceipt == [currentVersionId |-> "none", processingState |-> "none"]
AddVersionInit ==
    av = [r \in Revisions |-> [pc |-> "precheck", todo |-> {}, after |-> "precheck",
                               previous |-> NoReceipt]]

RevisionDone(r) == av[r].pc \in {"ok", "refused", "threw"}

AtRevision(r, pc) == av[r].pc = pc
RevisionTo(r, pc) == av' = [av EXCEPT ![r].pc = pc]
UndoRevision(r, calls, after) ==
    av' = [av EXCEPT ![r].pc = "undo", ![r].todo = calls, ![r].after = after]

\* insertVersionAndUpdateDocument: one transaction under the lock of the
\* document's row.  It refuses an unknown document and stored content, be it
\* the current version's (IdenticalContent) or any other's (DuplicateContent).
CanInsertVersion(d, id) == d \in DOMAIN documents /\ ~ContentStored(id)
\* Mutant of NextVersionNumber: the versions are counted.
CountedVersionNumber(d) == 1 + Cardinality(VersionsOf(d))

NextVersionNumber(d) ==
    1 + Max({0} \cup {versions[v].versionNumber : v \in VersionsOf(d)})
\* Mutant of InsertVersion: the processing state is left as it was.
InsertVersionKeepsState(d, id) ==
    /\ CanInsertVersion(d, id)
    /\ versions' = Insert(versions, id, NewVersion(d, NextVersionNumber(d)))
    /\ documents' = [documents EXCEPT ![d].currentVersionId = id]
    /\ UNCHANGED <<blobs, queue, audit>>

InsertVersion(d, id) ==
    /\ CanInsertVersion(d, id)
    /\ versions' = Insert(versions, id, NewVersion(d, NextVersionNumber(d)))
    /\ documents' = [documents EXCEPT ![d] =
                        [currentVersionId |-> id, processingState |-> "queued"]]
    /\ UNCHANGED <<blobs, queue, audit>>

\* Mutant of Repoints: a version added since is not noticed.
RepointsAlways(d, id) == d \in DOMAIN documents

\* rollbackVersionInsert: the document is repointed only if it still points at
\* this version; then the version is deleted.  Repointing at a version that is
\* gone violates the foreign key, and the transaction changes nothing.
Repoints(d, id) == d \in DOMAIN documents /\ documents[d].currentVersionId = id
\* Mutant of RollbackVersionInsert: the state is not restored.
RollbackLeavesState(d, id, previous) ==
    IF Repoints(d, id) /\ previous.currentVersionId \notin DOMAIN versions
    THEN UNCHANGED storeVars
    ELSE /\ documents' = IF Repoints(d, id)
                         THEN [documents EXCEPT ![d].currentVersionId = previous.currentVersionId]
                         ELSE documents
         /\ versions' = Delete(versions, id)
         /\ UNCHANGED <<blobs, queue, audit>>

\* Mutant of RollbackVersionInsert: the versions added since go with it.
RollbackToReceipt(d, id, previous) ==
    /\ documents' = IF d \in DOMAIN documents /\ id \in DOMAIN versions
                    THEN [documents EXCEPT ![d] = previous] ELSE documents
    /\ versions' = DeleteAll(versions, {v \in VersionsOf(d) : id \in DOMAIN versions
                        /\ versions[v].versionNumber >= versions[id].versionNumber})
    /\ UNCHANGED <<blobs, queue, audit>>

RollbackVersionInsert(d, id, previous) ==
    IF Repoints(d, id) /\ previous.currentVersionId \notin DOMAIN versions
    THEN UNCHANGED storeVars
    ELSE /\ documents' = IF Repoints(d, id) THEN [documents EXCEPT ![d] = previous]
                         ELSE documents
         /\ versions' = Delete(versions, id)
         /\ UNCHANGED <<blobs, queue, audit>>

\* handleGetDocument: a document that is unknown, or hidden from the viewer, is
\* not found.
Precheck(r) ==
    /\ AtRevision(r, "precheck")
    /\ \/ Target[r] \in DOMAIN documents /\ RevisionTo(r, "reserve")
       \/ RevisionTo(r, "refused")
    /\ UNCHANGED <<ledgerVars, storeVars, faults>>

ReserveRevision(r) ==
    /\ AtRevision(r, "reserve")
    /\ Accepted(Revision[r])
    /\ TryReserve(Revision[r], tenant, SizeOf(Revision[r]), now)
    /\ RevisionTo(r, "put")
    /\ UNCHANGED <<storeVars, faults>>

RefuseRevision(r) ==
    /\ AtRevision(r, "reserve")
    /\ ~Admissible(Revision[r])
    /\ RevisionTo(r, "refused")
    /\ UNCHANGED <<ledgerVars, storeVars, faults>>

PutRevision(r) ==
    /\ AtRevision(r, "put")
    /\ PutBlob(Revision[r])
    /\ RevisionTo(r, "insert")
    /\ UNCHANGED <<ledgerVars, faults>>

PutRevisionThrows(r) ==
    /\ AtRevision(r, "put")
    /\ Throws("put")
    /\ \/ PutBlob(Revision[r])
       \/ UNCHANGED storeVars
    /\ UndoRevision(r, {"release", "deleteBlob"}, "threw")
    /\ UNCHANGED ledgerVars

InsertRevision(r) ==
    /\ AtRevision(r, "insert")
    /\ InsertVersion(Target[r], Revision[r])
    /\ av' = [av EXCEPT ![r].pc = "commit", ![r].previous = documents[Target[r]]]
    /\ UNCHANGED <<ledgerVars, faults>>

InsertRevisionRefused(r) ==
    /\ AtRevision(r, "insert")
    /\ ~CanInsertVersion(Target[r], Revision[r])
    /\ UndoRevision(r, {"release", "deleteBlob"}, "refused")
    /\ UNCHANGED <<ledgerVars, storeVars, faults>>

InsertRevisionThrows(r) ==
    /\ AtRevision(r, "insert")
    /\ Throws("insert")
    /\ UndoRevision(r, {"release", "deleteBlob"}, "threw")
    /\ UNCHANGED <<ledgerVars, storeVars>>

\* Mutant of CommitRevision: the job already queued is thought enough.
CommitWithoutEnqueue(r) ==
    /\ AtRevision(r, "commit")
    /\ CommitReservation(Revision[r], tenant, SizeOf(Revision[r]))
    /\ RevisionTo(r, "audit")
    /\ UNCHANGED <<storeVars, faults>>

CommitRevision(r) ==
    /\ AtRevision(r, "commit")
    /\ CommitReservation(Revision[r], tenant, SizeOf(Revision[r]))
    /\ RevisionTo(r, "enqueue")
    /\ UNCHANGED <<storeVars, faults>>

\* Mutant of CommitRevisionThrows: the reservation is not released.
CommitThrowsKeepsReservation(r) ==
    /\ AtRevision(r, "commit")
    /\ Throws("commit")
    /\ UndoRevision(r, {"deleteBlob", "rollbackVersion"}, "threw")
    /\ UNCHANGED <<ledgerVars, storeVars>>

\* The transaction rolls back, or commits and its answer is lost.
CommitRevisionThrows(r) ==
    /\ AtRevision(r, "commit")
    /\ \/ Throws("commit") /\ UNCHANGED ledgerVars
       \/ Throws("commitAnswer")
             /\ CommitReservation(Revision[r], tenant, SizeOf(Revision[r]))
    /\ UndoRevision(r, {"release", "deleteBlob", "rollbackVersion"}, "threw")
    /\ UNCHANGED storeVars

CompensateRevision(r, call) ==
    CASE call = "release"    -> ReleaseReservation(Revision[r]) /\ UNCHANGED storeVars
      [] call = "deleteBlob" -> DeleteBlob(Revision[r]) /\ UNCHANGED ledgerVars
      [] call = "rollbackVersion" ->
            /\ RollbackVersionInsert(Target[r], Revision[r], av[r].previous)
            /\ UNCHANGED ledgerVars

SettleRevision(r, call) ==
    /\ call \in av[r].todo
    /\ \/ CompensateRevision(r, call) /\ UNCHANGED faults
       \/ Throws("undo") /\ UNCHANGED <<ledgerVars, storeVars>>
    /\ av' = [av EXCEPT ![r].todo = @ \ {call},
                        ![r].pc = IF av[r].todo = {call} THEN av[r].after ELSE @]

EnqueueRevision(r) ==
    /\ AtRevision(r, "enqueue")
    /\ Enqueue(Target[r])
    /\ RevisionTo(r, "audit")
    /\ UNCHANGED <<ledgerVars, faults>>

\* reserveQuota and enqueue are called outside any try.
RevisionCallThrows(r) ==
    /\ \/ AtRevision(r, "reserve") /\ Throws("reserve")
       \/ AtRevision(r, "enqueue") /\ Throws("enqueue")
    /\ RevisionTo(r, "threw")
    /\ UNCHANGED <<ledgerVars, storeVars>>

\* The event's subject is the document and its metadata the version number;
\* together they name the attempt.
AuditRevision(r) ==
    /\ AtRevision(r, "audit")
    /\ Record("document.version_add", Revision[r])
    /\ RevisionTo(r, "ok")
    /\ UNCHANGED ledgerVars

RevisionStep(r) ==
    \/ Precheck(r)
    \/ ReserveRevision(r) \/ RefuseRevision(r)
    \/ PutRevision(r) \/ PutRevisionThrows(r)
    \/ InsertRevision(r) \/ InsertRevisionRefused(r) \/ InsertRevisionThrows(r)
    \/ CommitRevision(r) \/ CommitRevisionThrows(r) \/ RevisionCallThrows(r)
    \/ \E call \in av[r].todo : SettleRevision(r, call)
    \/ EnqueueRevision(r) \/ AuditRevision(r)

AddVersionNext == \E r \in Revisions : RevisionStep(r)
=============================================================================
