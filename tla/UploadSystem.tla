---------------------------- MODULE UploadSystem ----------------------------
(***************************************************************************)
(* Concurrent upload requests over the shared stores, and what they must   *)
(* leave behind.  The requests are shown to use the ledger as              *)
(* QuotaProtocol allows, so its theorems hold of them.                     *)
(***************************************************************************)
EXTENDS UploadBatch

vars == <<ledgerVars, storeVars, faults, up>>

Init == StoreInit /\ UploadInit

Elapse == Tick /\ UNCHANGED <<storeVars, faults, up>>

Next == UploadNext \/ Elapse

Spec == Init /\ [][Next]_vars

\* A request that is being served goes on: each awaited call returns or throws.
FairSpec == Spec /\ \A u \in Uploads : WF_vars(UploadStep(u))
-----------------------------------------------------------------------------
FileIds(u) == {Files[u][k] : k \in DOMAIN Files[u]}
Attempts == UNION {FileIds(u) : u \in Uploads}
RequestOf == [id \in Attempts |-> CHOOSE u \in Uploads : id \in FileIds(u)]
IndexOf == [id \in Attempts |->
    CHOOSE k \in DOMAIN Files[RequestOf[id]] : Files[RequestOf[id]][k] = id]
SizesOf == [id \in Attempts |-> SizeOf(id)]
OwnerOf == [id \in Attempts |-> tenant]

\* Has rollbackBatch taken the attempt's bytes back?
RolledBack(u, id) ==
    /\ up[u].pc \in {"rollback", "undoAccepted", "expired"}
    /\ \E j \in DOMAIN up[u].created :
          /\ up[u].created[j] = id
          /\ j < up[u].i \/ (j = up[u].i /\ At(u, "undoAccepted") /\ "revert" \notin up[u].todo)

\* The attempt's phase in the quota protocol; a file refused for its type or
\* size never asks for capacity.
PhaseOf(id) ==
    LET u == RequestOf[id]
        r == up[u]
        k == IndexOf[id]
        n == Len(r.results)
    IN  CASE k <= n /\ r.results[k] = "refused"   ->
                IF Accepted(id) THEN "refused" ELSE "idle"
          [] k <= n /\ r.results[k] = "duplicate" -> "released"
          [] k <= n /\ r.results[k] = "accepted"  ->
                IF RolledBack(u, id) THEN "reverted" ELSE "committed"
          [] k > n + 1                            -> "idle"
          [] OTHER ->
                CASE r.pc \in {"start", "reserve", "tooLarge"}        -> "idle"
                  [] r.pc \in {"put", "validate", "insert", "commit"} -> "open"
                  [] r.pc = "undo" /\ "release" \in r.todo            -> "open"
                  [] r.pc = "threw" /\ id \in DOMAIN reservations     -> "open"
                  [] /\ r.pc = "threw" /\ id \notin DOMAIN reservations
                     /\ r.after # "threw"                             -> "idle"
                  [] OTHER                                            -> "released"

Protocol == INSTANCE QuotaProtocol
    WITH ReservationIds <- Attempts,
         Owner <- OwnerOf,
         Bytes <- SizesOf,
         LockWait <- 0, LateCommits <- TRUE, MaxTime <- MaxTime + TTL,
         phase <- [id \in Attempts |-> PhaseOf(id)]

\* Every request uses its reservations as the protocol allows, whatever
\* throws before the compensation: it commits only what it holds, releases or
\* commits at most once, and reverts only what it committed.
FollowsQuotaProtocol == Protocol!Spec
-----------------------------------------------------------------------------
TypeOK ==
    /\ StoreTypeOK
    /\ \A u \in Uploads :
          /\ up[u].i \in 1 .. Len(Files[u]) + 1
          /\ Len(up[u].results) <= Len(Files[u])
          /\ up[u].todo \subseteq {"release", "deleteBlob", "deleteDocument", "revert"}
          /\ up[u].todo # {} => up[u].pc \in {"undo", "undoAccepted"}

\* The row, the blob and the charge of an attempt stand or fall together once
\* its request has finished, however the files before and after it fared, and
\* nothing stays reserved (uploadSingleFile's compensations, rollbackBatch).
\* The code compensates neither a session check or an insert that throws, nor
\* a compensation that does, nor a commit whose answer is lost.
StandOrFallTogether ==
    NeverThrew({"validate", "insert", "commitAnswer", "undo"}) =>
    \A u \in Uploads : Finished(u) =>
        \A id \in FileIds(u) :
            /\ id \notin DOMAIN reservations
            /\ id \in DOMAIN versions <=> PhaseOf(id) = "committed"
            /\ id \in blobs <=> PhaseOf(id) = "committed"

\* A version row has its blob, except while that very attempt is being undone:
\* the blob is written before the row and no other request deletes it.
RowHasBlob ==
    NeverThrew({"undo"}) =>
    \A v \in DOMAIN versions :
        v \in blobs \/ \E u \in Uploads :
            up[u].pc \in {"undo", "undoAccepted"} /\ Current(u) = v

\* AC-01.08: a request that ends SESSION_EXPIRED leaves nothing behind, of its
\* earlier files either: no row, blob, charge, reservation, job or event.
ExpiredLeavesNothing ==
    NeverThrew({"undo"}) =>
    \A u \in Uploads : At(u, "expired") =>
        \A id \in FileIds(u) :
            /\ id \notin DOMAIN documents \cup DOMAIN versions \cup blobs
            /\ id \notin DOMAIN reservations \cup queue
            /\ PhaseOf(id) # "committed"
            /\ <<"document.upload", id>> \notin audit

\* 05-documents.md 5.2: what a response reports accepted is stored, queued for
\* processing and, unless the audit insert was lost, on record; what it
\* reports refused has no trace.
AcceptedIsDurable ==
    \A u \in Uploads : At(u, "ok") =>
        \A k \in DOMAIN Files[u] :
            LET id == Files[u][k]
                accepted == up[u].results[k] = "accepted"
            IN  /\ accepted <=> id \in DOMAIN documents
                /\ accepted <=> id \in queue
                /\ <<"document.upload", id>> \in audit => accepted
                /\ accepted /\ NeverThrew({"audit"}) => <<"document.upload", id>> \in audit

\* A job is queued only for a document that exists and is paid for: no later
\* step of any request takes back a document it has enqueued.
JobsArePaidFor ==
    \A d \in queue : d \in DOMAIN documents /\ d \in blobs /\ PhaseOf(d) = "committed"

\* Of identical files uploaded at once, exactly one is stored when all their
\* requests succeed and none of them was refused (AC-03.04).
OneOfIdenticalWins ==
    \A c \in Contents :
        LET same == {id \in Attempts : Content[id] = c}
            decided(id) == /\ At(RequestOf[id], "ok")
                           /\ up[RequestOf[id]].results[IndexOf[id]] # "refused"
        IN  same # {} /\ (\A id \in same : decided(id)) =>
                Cardinality({v \in DOMAIN versions : Content[v] = c}) = 1

\* Every document a finished request leaves behind has a job
\* (12-document-processing-pipeline.md 12.2: "upload committed, job enqueued").
EveryDocumentIsQueued ==
    \A u \in Uploads : Finished(u) =>
        \A id \in FileIds(u) \cap DOMAIN documents : id \in queue

\* Every request comes to an end, whichever files are refused and whatever
\* throws: nothing is retried and no compensation holds the batch up.
RequestsFinish == \A u \in Uploads : <>Finished(u)
=============================================================================
