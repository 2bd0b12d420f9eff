---------------------------- MODULE UploadBatch ----------------------------
(***************************************************************************)
(* POST /documents: uploadBatch and uploadSingleFile of packages/catalog,  *)
(* one process per request, one action per awaited call.  Any number of    *)
(* requests run at once; between two calls of one request the others, and  *)
(* time, may move.                                                         *)
(*                                                                         *)
(*   reserve -> put -> validate -> insert -> commit -> (next file)         *)
(*   after the last file: enqueue -> audit, per accepted document -> ok    *)
(*                                                                         *)
(* A failed call is compensated by Promise.allSettled over some calls; the *)
(* ones that have not settled are `todo`, and they settle in any order.    *)
(* A process that crashes simply takes no further step: every property     *)
(* that does not ask for fairness holds for it too.                        *)
(***************************************************************************)
EXTENDS CatalogStore, Sequences

CONSTANTS
    Uploads,   \* upload requests
    Files,     \* [Uploads -> Seq(ReservationIds)]: one attempt per file
    MaxBatch   \* MAX_BATCH

ASSUME UploadAssumption ==
    /\ Files \in [Uploads -> Seq(ReservationIds)]
    /\ \A u \in Uploads : Files[u] # <<>>
    \* every file of every request is an attempt of its own (randomUUID)
    /\ \A u, w \in Uploads : \A k \in DOMAIN Files[u], l \in DOMAIN Files[w] :
          Files[u][k] = Files[w][l] => u = w /\ k = l
    /\ \A u \in Uploads : \A k \in DOMAIN Files[u] : Files[u][k] \notin Seeded
    /\ MaxBatch \in Nat

VARIABLE up  \* [Uploads -> the request's local state]

(* pc:      the call about to be made                                      *)
(* i:       index of the file, or of the accepted document being emitted   *)
(*          or rolled back                                                 *)
(* results: per file handled: "accepted", "refused" (type, size, quota) or *)
(*          "duplicate"                                                    *)
(* created: createdDocuments, the accepted files                           *)
(* todo:    compensating calls that have not settled                       *)
(* after:   the pc once todo is empty                                      *)
UploadInit ==
    up = [u \in Uploads |-> [pc |-> "start", i |-> 1, results |-> <<>>, created |-> <<>>,
                             todo |-> {}, after |-> "start"]]

Terminal == {"ok", "expired", "threw", "tooLarge"}
Finished(u) == up[u].pc \in Terminal

CreatedIds(u) == {up[u].created[j] : j \in DOMAIN up[u].created}

\* The attempt the request is working on.
Current(u) ==
    IF up[u].pc \in {"rollback", "undoAccepted", "enqueue", "audit"}
    THEN up[u].created[up[u].i] ELSE Files[u][up[u].i]

At(u, pc) == up[u].pc = pc
Goto(u, pc) == up' = [up EXCEPT ![u].pc = pc]

\* Promise.allSettled(calls), and then `after`.
Undo(u, pc, calls, after) ==
    up' = [up EXCEPT ![u].pc = pc, ![u].todo = calls, ![u].after = after]

\* The outcome of a file is recorded and the loop goes on, or emits.
Outcome(u, result) ==
    LET last == up[u].i = Len(Files[u])
    IN  up' = [up EXCEPT ![u].results = Append(@, result),
                         ![u].created = IF result = "accepted" THEN Append(@, Current(u))
                                        ELSE @,
                         ![u].pc = IF last THEN "emit" ELSE "reserve",
                         ![u].i  = IF last THEN 1 ELSE @ + 1]

Begin(u) ==
    /\ At(u, "start")
    /\ Goto(u, IF Len(Files[u]) > MaxBatch THEN "tooLarge" ELSE "reserve")
    /\ UNCHANGED <<ledgerVars, storeVars, faults>>

\* prepareBlobUpload: sniffing and the size limit come before the reservation.
Reserve(u) ==
    LET id == Current(u)
    IN  /\ At(u, "reserve")
        /\ Accepted(id)
        /\ TryReserve(id, tenant, SizeOf(id), now)
        /\ Goto(u, "put")
        /\ UNCHANGED <<storeVars, faults>>

\* Mutant of Refuse: the loop does not move on.
RefuseWithoutOutcome(u) ==
    /\ At(u, "reserve")
    /\ ~Admissible(Current(u))
    /\ UNCHANGED <<ledgerVars, storeVars, faults, up>>

Refuse(u) ==
    /\ At(u, "reserve")
    /\ ~Admissible(Current(u))
    /\ Outcome(u, "refused")
    /\ UNCHANGED <<ledgerVars, storeVars, faults>>

Put(u) ==
    /\ At(u, "put")
    /\ PutBlob(Current(u))
    /\ Goto(u, "validate")
    /\ UNCHANGED <<ledgerVars, faults>>

\* A put that throws may have written the object.
PutThrows(u) ==
    /\ At(u, "put")
    /\ Throws("put")
    /\ \/ PutBlob(Current(u))
       \/ UNCHANGED storeVars
    /\ Undo(u, "undo", {"release", "deleteBlob"}, "threw")
    /\ UNCHANGED ledgerVars

SessionValid(u) ==
    /\ At(u, "validate")
    /\ Goto(u, "insert")
    /\ UNCHANGED <<ledgerVars, storeVars, faults>>

SessionExpired(u) ==
    /\ At(u, "validate")
    /\ Undo(u, "undo", {"release", "deleteBlob"}, "rollback")
    /\ UNCHANGED <<ledgerVars, storeVars, faults>>

InsertDocument(u) ==
    /\ At(u, "insert")
    /\ InsertDocumentWithVersion(Current(u))
    /\ Goto(u, "commit")
    /\ UNCHANGED <<ledgerVars, faults>>

\* Mutant of InsertDuplicate: the reservation is not released.
DuplicateKeepsReservation(u) ==
    /\ At(u, "insert")
    /\ ContentStored(Current(u))
    /\ Undo(u, "undo", {"deleteBlob"}, "duplicate")
    /\ UNCHANGED <<ledgerVars, storeVars, faults>>

InsertDuplicate(u) ==
    /\ At(u, "insert")
    /\ ContentStored(Current(u))
    /\ Undo(u, "undo", {"release", "deleteBlob"}, "duplicate")
    /\ UNCHANGED <<ledgerVars, storeVars, faults>>

\* Mutant of Commit: the document is queued at once, before the batch is through.
CommitAndEnqueue(u) ==
    LET id == Current(u)
    IN  /\ At(u, "commit")
        /\ CommitReservation(id, tenant, SizeOf(id))
        /\ Outcome(u, "accepted")
        /\ Enqueue(id)
        /\ UNCHANGED faults

Commit(u) ==
    LET id == Current(u)
    IN  /\ At(u, "commit")
        /\ CommitReservation(id, tenant, SizeOf(id))
        /\ Outcome(u, "accepted")
        /\ UNCHANGED <<storeVars, faults>>

\* Mutant of CommitThrows: the document is not deleted.
CommitThrowsKeepsDocument(u) ==
    /\ At(u, "commit")
    /\ Throws("commit")
    /\ Undo(u, "undo", {"release", "deleteBlob"}, "threw")
    /\ UNCHANGED <<ledgerVars, storeVars>>

\* The transaction rolls back, or commits and its answer is lost.
CommitThrows(u) ==
    LET id == Current(u)
    IN  /\ At(u, "commit")
        /\ \/ Throws("commit") /\ UNCHANGED ledgerVars
           \/ Throws("commitAnswer") /\ CommitReservation(id, tenant, SizeOf(id))
        /\ Undo(u, "undo", {"release", "deleteBlob", "deleteDocument"}, "threw")
        /\ UNCHANGED storeVars

\* The calls nothing catches: reserveQuota, validateSession, the insert (a
\* database error other than the unique violation) and enqueue.  The throw
\* leaves the request with what its earlier calls have done.
Uncaught == [reserve |-> "reserve", validate |-> "validate",
             insert |-> "insert", enqueue |-> "enqueue"]
CallThrows(u) ==
    /\ up[u].pc \in DOMAIN Uncaught
    /\ Throws(Uncaught[up[u].pc])
    /\ Goto(u, "threw")
    /\ UNCHANGED <<ledgerVars, storeVars>>

\* One compensating call settles: its effect, or, when it throws, none.
Compensate(id, call) ==
    CASE call = "release"        -> ReleaseReservation(id) /\ UNCHANGED storeVars
      [] call = "deleteBlob"     -> DeleteBlob(id) /\ UNCHANGED ledgerVars
      [] call = "deleteDocument" -> DeleteDocument(id) /\ UNCHANGED ledgerVars
      [] call = "revert"         -> /\ UNCHANGED storeVars
                                    /\ IF Debitable(tenant, SizeOf(id))
                                       THEN RevertCommitReservation(id, tenant, SizeOf(id))
                                       ELSE UNCHANGED ledgerVars

Settle(u, call) ==
    /\ call \in up[u].todo
    /\ \/ Compensate(Current(u), call) /\ UNCHANGED faults
       \/ Throws("undo") /\ UNCHANGED <<ledgerVars, storeVars>>
    /\ up' = [up EXCEPT ![u].todo = @ \ {call}]

\* allSettled resolves: a duplicate is rejected, an expired session rolls
\* back the files accepted before, a throw surfaces.
Settled(u) ==
    /\ up[u].pc \in {"undo", "undoAccepted"} /\ up[u].todo = {}
    /\ CASE up[u].after = "duplicate" -> Outcome(u, "duplicate")
         [] up[u].after = "rollback"  -> up' = [up EXCEPT ![u].pc = "rollback", ![u].i = 1]
         [] up[u].after = "next"      -> up' = [up EXCEPT ![u].pc = "rollback", ![u].i = @ + 1]
         [] OTHER                     -> Goto(u, up[u].after)
    /\ UNCHANGED <<ledgerVars, storeVars, faults>>

\* Mutant of RollbackBatch: the last accepted file is forgotten.
RollbackBatchShort(u) ==
    /\ At(u, "rollback")
    /\ IF up[u].i < Len(up[u].created)
       THEN Undo(u, "undoAccepted", {"deleteDocument", "deleteBlob", "revert"}, "next")
       ELSE Goto(u, "expired")
    /\ UNCHANGED <<ledgerVars, storeVars, faults>>

\* rollbackBatch: document after document.
RollbackBatch(u) ==
    /\ At(u, "rollback")
    /\ IF up[u].i <= Len(up[u].created)
       THEN Undo(u, "undoAccepted", {"deleteDocument", "deleteBlob", "revert"}, "next")
       ELSE Goto(u, "expired")
    /\ UNCHANGED <<ledgerVars, storeVars, faults>>

\* Mutant of Emit: the last accepted file is forgotten.
EmitShort(u) ==
    /\ At(u, "emit")
    /\ Goto(u, IF up[u].i < Len(up[u].created) THEN "enqueue" ELSE "ok")
    /\ UNCHANGED <<ledgerVars, storeVars, faults>>

\* emitPostBatch: enqueue, then audit, document after document.
Emit(u) ==
    /\ At(u, "emit")
    /\ Goto(u, IF up[u].i <= Len(up[u].created) THEN "enqueue" ELSE "ok")
    /\ UNCHANGED <<ledgerVars, storeVars, faults>>

EnqueueDocument(u) ==
    /\ At(u, "enqueue")
    /\ Enqueue(Current(u))
    /\ Goto(u, "audit")
    /\ UNCHANGED <<ledgerVars, faults>>

AuditUpload(u) ==
    /\ At(u, "audit")
    /\ Record("document.upload", Current(u))
    /\ up' = [up EXCEPT ![u].pc = "emit", ![u].i = @ + 1]
    /\ UNCHANGED ledgerVars

UploadStep(u) ==
    \/ Begin(u)
    \/ Reserve(u) \/ Refuse(u)
    \/ Put(u) \/ PutThrows(u)
    \/ SessionValid(u) \/ SessionExpired(u)
    \/ InsertDocument(u) \/ InsertDuplicate(u)
    \/ Commit(u) \/ CommitThrows(u) \/ CallThrows(u)
    \/ (\E call \in up[u].todo : Settle(u, call)) \/ Settled(u)
    \/ RollbackBatch(u)
    \/ Emit(u) \/ EnqueueDocument(u) \/ AuditUpload(u)

UploadNext == \E u \in Uploads : UploadStep(u)
=============================================================================
