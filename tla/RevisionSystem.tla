--------------------------- MODULE RevisionSystem ---------------------------
(***************************************************************************)
(* Concurrent requests for new versions of the stored documents, and what  *)
(* the document, its numbering and the accounts look like whatever the     *)
(* order in which they insert, commit, fail and are rolled back.           *)
(***************************************************************************)
EXTENDS AddVersion

vars == <<ledgerVars, storeVars, faults, av>>

Init == StoreInit /\ AddVersionInit

Next == AddVersionNext

Spec == Init /\ [][Next]_vars
-----------------------------------------------------------------------------
AllDone == \A r \in Revisions : RevisionDone(r)

\* The requests past their commit; a throw that was not compensated came from
\* the reservation, which leaves no receipt, or from the enqueue.
Charged == {r \in Revisions :
    \/ av[r].pc \in {"enqueue", "audit", "ok"}
    \/ av[r].pc = "threw" /\ av[r].after # "threw" /\ av[r].previous # NoReceipt}

TypeOK ==
    /\ StoreTypeOK
    /\ \A r \in Revisions :
          /\ av[r].todo \subseteq {"release", "deleteBlob", "rollbackVersion"}
          /\ av[r].todo # {} => AtRevision(r, "undo")
          /\ av[r].previous \in [currentVersionId : ReservationIds \cup {"none"},
                                 processingState : States \cup {"none"}]

\* No two versions of a document bear one number, under concurrent inserts and
\* rollbacks of versions that are not the last (AC-21.04).
VersionNumbersUnique ==
    \A v, w \in DOMAIN versions :
        /\ versions[v].documentId = versions[w].documentId
        /\ versions[v].versionNumber = versions[w].versionNumber
        => v = w

\* A document points at its newest version, whatever has been rolled back: a
\* rollback never takes the document away from a version added after it, and
\* never leaves it on one that is not the last.
CurrentIsNewest ==
    \A d \in DOMAIN documents : \A v \in VersionsOf(d) :
        versions[v].versionNumber <= versions[documents[d].currentVersionId].versionNumber

\* A version whose commit succeeded keeps its row, its blob and its place in
\* the counter for good, whatever fails in the other requests for the document
\* and in their compensation.
ChargedVersionStays ==
    LET charged == Seeded \cup {Revision[r] : r \in Charged}
    IN  /\ charged \subseteq DOMAIN versions \cap blobs
        /\ used[tenant] >= StoredBytes(charged)

\* The code compensates one failed commit; it does not compensate one whose
\* answer is lost, nor a compensation that fails, and two commits that fail
\* may defeat each other's compensation (NoVersionPointsAtNothing).
Compensable == NeverThrew({"undo", "commitAnswer"}) /\ faults["commit"] <= 1

\* Once every request has been answered the accounts agree: the counter, the
\* version rows and the blobs are of the same attempts, those that were not
\* refused and did not fail; nothing is reserved.
RevisionsSettle ==
    Compensable /\ AllDone =>
        LET kept == Seeded \cup {Revision[r] : r \in Charged}
        IN  /\ DOMAIN versions = kept /\ blobs = kept
            /\ used[tenant] = StoredBytes(kept)
            /\ reservations = EmptyTable

\* When every request for a document has failed, the document is as it was:
\* state included, so that a document that was ready is still ready.
FailedRevisionsLeaveNoTrace ==
    Compensable =>
    \A d \in Seeded :
        (\A r \in Revisions : Target[r] = d => RevisionDone(r) /\ r \notin Charged) =>
            documents[d] = SeededDocument(d)

\* A request answered with success has its document queued behind a job, and
\* its version is current or was superseded by one that is queued as well.
AcceptedRevisionIsQueued ==
    \A r \in Revisions : AtRevision(r, "ok") =>
        /\ Target[r] \in queue
        /\ documents[Target[r]].processingState = "queued"

\* Never a row pointing at nothing (10-integration-points.md), once all is quiet.
NoVersionPointsAtNothing == AllDone => DOMAIN versions \subseteq blobs
=============================================================================
