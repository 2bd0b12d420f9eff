--------------------------- MODULE PipelineProofs ---------------------------
(***************************************************************************)
(* Theorems about documents on their way through uploads, revisions and    *)
(* scan workers, for any number of each.                                   *)
(*                                                                         *)
(* An attempt is unknown until its version is inserted: no receipt names   *)
(* it and no worker has it in hand (Unknown).  Hence a blob that was       *)
(* deleted is not written again, a version that was rolled back does not   *)
(* return, and a document's current version is one of its own (Pointers):  *)
(* the invariant Basics.  On it rest five more, each of which a theorem    *)
(* at the end of its part draws on:                                        *)
(*   Verdicts   what the rows and the workers say of a version is so;      *)
(*   Cleanup    what was done of a purge stays done;                       *)
(*   Attended   who will decide a document, whatever dies or repeats;      *)
(*   Sure       with no version added, who purges an infected row, and     *)
(*              that a worker only touches what a request has left behind; *)
(*   Books      what tables, counter and blobs owe to the rows on record   *)
(*              and to what the requests under way hold.                   *)
(***************************************************************************)
EXTENDS DocumentPipeline, TablesTheorems, TLAPS

-----------------------------------------------------------------------------
(* The local states. *)

UploadPcs == {"start", "reserve", "put", "validate", "insert", "commit", "undo", "emit",
              "enqueue", "audit", "ok", "rollback", "undoAccepted", "expired", "threw", "tooLarge"}
UploadCalls == {"release", "deleteBlob", "deleteDocument", "revert"}
Results == {"accepted", "refused", "duplicate"}
UploadLocal == [pc : UploadPcs, i : Nat \ {0}, results : Seq(Results),
                created : Seq(ReservationIds), todo : SUBSET UploadCalls,
                after : {"start", "threw", "rollback", "duplicate", "next"}]

RevisionPcs == {"precheck", "reserve", "put", "insert", "undo", "commit",
                "enqueue", "audit", "ok", "refused", "threw"}
RevisionCalls == {"release", "deleteBlob", "rollbackVersion"}
Rows == [currentVersionId : ReservationIds, processingState : States]
RevisionLocal == [pc : RevisionPcs, todo : SUBSET RevisionCalls,
                  after : {"precheck", "refused", "threw"}, previous : Rows \cup {NoReceipt}]

WorkerPcs == {"idle", "load", "claim", "stage", "markClean", "markInfected",
              "audit", "debit", "deleteBlob", "deleteDocument"}
WorkerLocal == [pc : WorkerPcs, job : ReservationIds \cup {NoJob},
                version : ReservationIds \cup {NoJob}, scanned : BOOLEAN, signature : BOOLEAN]

\* A row of the versions' table, with its two malware columns set or NULL.
IsVersion(row) ==
    /\ row = [column \in DOMAIN row |-> row[column]]
    /\ DOMAIN row = {"documentId", "versionNumber", "malwareScannedAt", "malwareSignature"}
    /\ row.malwareScannedAt \in BOOLEAN /\ row.malwareSignature \in BOOLEAN

Locals ==
    /\ up \in [Uploads -> UploadLocal] /\ av \in [Revisions -> RevisionLocal]
    /\ wk \in [Workers -> WorkerLocal]
    /\ \A w \in Workers : ~AtWorker(w, "idle") => wk[w].job \in ReservationIds

Tables ==
    /\ documents \in [DOMAIN documents -> Rows]
    /\ DOMAIN documents \cup DOMAIN versions \cup queue \subseteq ReservationIds
    /\ \A v \in DOMAIN versions : IsVersion(versions[v])
    /\ faults \in [FaultPoints -> Nat]
-----------------------------------------------------------------------------
(* The attempts whose version is yet to be inserted. *)

Filing == {"reserve", "put", "validate", "insert", "commit", "undo"}
AfterBatch == {"enqueue", "audit", "undoAccepted"}

\* The files of a request, up to the k-th excluded, or from it on.
Before(u, k) == {Files[u][j] : j \in 1 .. k - 1}
From(u, k)   == {Files[u][j] : j \in k .. Len(Files[u])}

\* The file in hand is the one after those with an outcome.
UploadLine(u) ==
    /\ Len(up[u].results) <= Len(Files[u])
    /\ up[u].pc \in Filing => up[u].i = Len(up[u].results) + 1 /\ up[u].i <= Len(Files[u])
    /\ At(u, "start") => up[u].i = 1 /\ up[u].results = <<>>
    /\ At(u, "undo") => up[u].after \in {"threw", "rollback", "duplicate"}
    /\ At(u, "undoAccepted") => up[u].after = "next"
    /\ up[u].todo # {} => up[u].pc \in {"undo", "undoAccepted"}
    /\ CreatedIds(u) \subseteq Before(u, Len(up[u].results) + 1)
    /\ up[u].pc \in AfterBatch => up[u].i \in 1 .. Len(up[u].created)

HasReceipt(r) == av[r].previous # NoReceipt
Pending(r) == av[r].pc \in {"precheck", "reserve", "put", "insert"}
RevisionLine(r) ==
    /\ Pending(r) => ~HasReceipt(r)
    /\ AtRevision(r, "commit") \/ "rollbackVersion" \in av[r].todo => HasReceipt(r)
    /\ av[r].todo # {} => AtRevision(r, "undo")
    /\ AtRevision(r, "undo") => av[r].after \in {"refused", "threw"}

\* The files whose version a request has not tried to insert.
Early == {"start", "reserve", "put", "validate", "insert"}
Coming(u) == IF up[u].pc \in Early THEN Len(up[u].results) + 1 ELSE Len(up[u].results) + 2
Ahead(u) == From(u, Coming(u))
Unborn == (UNION {Ahead(u) : u \in Uploads}) \cup {Revision[r] : r \in {q \in Revisions : Pending(q)}}

\* No row, receipt or worker has it.
Holding(w) == wk[w].pc \notin {"idle", "load"}
Unknown(id) ==
    /\ id \notin DOMAIN versions
    /\ \A r \in Revisions : HasReceipt(r) => av[r].previous.currentVersionId # id
    /\ \A w \in Workers : Holding(w) => wk[w].version # id

InOrder ==
    /\ \A u \in Uploads : UploadLine(u)
    /\ \A r \in Revisions : RevisionLine(r)
    /\ \A id \in Unborn : Unknown(id)

\* Whose a version is: a revision is of the document it revises, and a first
\* version of the document with its id.
RevisionIds == {Revision[r] : r \in Revisions}
OfDocument(v, d) ==
    IF v \in RevisionIds THEN \E r \in Revisions : v = Revision[r] /\ Target[r] = d ELSE v = d

\* The foreign key of documents.current_version_id, and what a receipt names.
Pointers ==
    /\ \A v \in DOMAIN versions : OfDocument(v, versions[v].documentId)
    /\ \A d \in DOMAIN documents : /\ documents[d].currentVersionId \in DOMAIN versions
                                   /\ versions[documents[d].currentVersionId].documentId = d
    /\ \A r \in Revisions : HasReceipt(r) =>
          LET last == av[r].previous.currentVersionId
          IN  last # Revision[r] /\ (last \in DOMAIN versions => versions[last].documentId = Target[r])
    /\ \A w \in Workers : Holding(w) => OfDocument(wk[w].version, wk[w].job)

Basics == Locals /\ Tables /\ InOrder /\ Pointers
-----------------------------------------------------------------------------
(* Verdicts. *)

\* What the malware columns and the workers say of a version's content.
Verdicts ==
    /\ \A v \in DOMAIN versions :
          /\ v \notin Seeded /\ versions[v].malwareScannedAt => Content[v] \notin Infected
          /\ versions[v].malwareSignature => Content[v] \in Infected
    /\ \A w \in Workers : Holding(w) =>
          /\ wk[w].signature => Content[wk[w].version] \in Infected
          /\ AtWorker(w, "markClean") => Content[wk[w].version] \notin Infected
          /\ wk[w].pc \in {"markInfected", "audit", "debit", "deleteBlob", "deleteDocument"} =>
                Content[wk[w].version] \in Infected
-----------------------------------------------------------------------------
(* The cleanup, when only first versions are infected. *)

Recorded(d) == NeverThrew({"audit"}) => <<"malware.detected", d>> \in audit
Purged(d) == AlreadyReversed(tenant, d) /\ d \notin blobs
Rolling == {"rollback", "undoAccepted", "expired"}
Ordered(w) ==
    /\ wk[w].pc \in {"debit", "deleteBlob", "deleteDocument"} => Recorded(wk[w].job)
    /\ wk[w].pc \in {"deleteBlob", "deleteDocument"} => AlreadyReversed(tenant, wk[w].job)
    /\ AtWorker(w, "deleteDocument") => Purged(wk[w].job)

Cleanup ==
    /\ \A d \in ReservationIds : AlreadyReversed(tenant, d) => Recorded(d)
    /\ \A w \in Workers : Ordered(w)
    /\ \A u \in Uploads : up[u].pc \notin Rolling =>
          \A d \in CreatedIds(u) \cup (IF At(u, "commit") THEN {Current(u)} ELSE {}) :
             d \in DOMAIN documents \/ Purged(d)
-----------------------------------------------------------------------------
(* In whose hands a document is, when no request throws. *)

\* A run of the worker that will decide the document's current version.
Decides(w, d) ==
    LET v == documents[d].currentVersionId
        state == documents[d].processingState
    IN  /\ wk[w].job = d
        /\ \/ wk[w].pc \in {"load", "audit", "debit", "deleteBlob", "deleteDocument"}
           \/ /\ wk[w].version = v
              /\ \/ AtWorker(w, "claim") /\ state = "queued"
                 \/ AtWorker(w, "stage") /\ state = "processing"
              /\ versions[v].malwareSignature => wk[w].signature
           \/ /\ wk[w].version = v /\ wk[w].pc \in {"markClean", "markInfected"}
              /\ state = "processing" /\ ~versions[v].malwareSignature

\* An upload that will enqueue the document, or delete it.
Carries(u, d) ==
    \/ At(u, "commit") /\ d = Current(u)
    \/ up[u].pc \in Filing /\ d \in CreatedIds(u)
    \/ \E j \in DOMAIN up[u].created :
          /\ up[u].created[j] = d
          /\ \/ up[u].pc \in {"emit", "enqueue", "rollback"} /\ j >= up[u].i
             \/ up[u].pc \in {"audit", "undoAccepted"} /\ j > up[u].i
             \/ At(u, "undoAccepted") /\ j = up[u].i /\ "deleteDocument" \in up[u].todo

\* A revision that will enqueue it.
Renews(r, d) == av[r].pc \in {"commit", "enqueue"} /\ Target[r] = d

Held(d) ==
    \/ Scanned(d) \/ d \in queue \cup dropped
    \/ \E w \in Workers : Decides(w, d)
    \/ \E u \in Uploads : Carries(u, d)
    \/ \E r \in Revisions : Renews(r, d)

\* No request throws, so none leaves its loop by a throw, and no version is
\* rolled back.
Calm == FaultPoints \subseteq {"worker", "stall", "audit"}
Throwless ==
    /\ \A u \in Uploads : up[u].pc # "threw" /\ up[u].after # "threw"
    /\ \A r \in Revisions : "rollbackVersion" \notin av[r].todo

\* A handler that found its version scanned finds it so; and every document is
\* on its way to a verdict, which none has before it is claimed.
ScannedStays(w) ==
    Holding(w) /\ wk[w].scanned /\ wk[w].version \in DOMAIN versions =>
       versions[wk[w].version].malwareScannedAt
UnderWay(d) ==
    /\ documents[d].processingState \in {"queued", "processing"}
    /\ documents[d].processingState = "queued" =>
          ~versions[documents[d].currentVersionId].malwareSignature
Attended ==
    /\ \A w \in Workers : ScannedStays(w)
    /\ \A d \in DOMAIN documents \ Seeded : UnderWay(d) /\ Held(d)
-----------------------------------------------------------------------------
(* Steps of an upload. *)

Hops == {<<"start", "reserve">>, <<"start", "tooLarge">>, <<"reserve", "put">>,
         <<"put", "validate">>, <<"validate", "insert">>, <<"insert", "commit">>,
         <<"reserve", "threw">>, <<"validate", "threw">>, <<"insert", "threw">>,
         <<"enqueue", "threw">>, <<"undo", "threw">>, <<"rollback", "expired">>,
         <<"emit", "enqueue">>, <<"emit", "ok">>, <<"enqueue", "audit">>}

\* The ways a step takes its own request on.
HopsTo(u, pc) ==
    /\ <<up[u].pc, pc>> \in Hops /\ up[u].todo = {} /\ Goto(u, pc)
    /\ pc = "enqueue" => up[u].i <= Len(up[u].created)
GivesUp(u, calls, after) == up[u].pc \in Filing /\ Undo(u, "undo", calls, after)
TakesBack(u) ==
    /\ At(u, "rollback") /\ up[u].i <= Len(up[u].created)
    /\ Undo(u, "undoAccepted", {"deleteDocument", "deleteBlob", "revert"}, "next")
Settling(u, call) == call \in up[u].todo /\ up' = [up EXCEPT ![u].todo = @ \ {call}]
Concludes(u, result) ==
    /\ up[u].pc \in {"reserve", "commit", "undo"} /\ up[u].todo = {}
    /\ result = "accepted" <=> At(u, "commit")
    /\ Outcome(u, result)
RollsFrom(u, i) ==
    /\ up[u].pc \in {"undo", "undoAccepted"} /\ up[u].todo = {}
    /\ i = IF At(u, "undo") THEN 1 ELSE up[u].i + 1
    /\ up' = [up EXCEPT ![u].pc = "rollback", ![u].i = i]
Emitted(u) == At(u, "audit") /\ up' = [up EXCEPT ![u].pc = "emit", ![u].i = @ + 1]

LEMMA UploadMoves ==
    ASSUME Locals, NEW u \in Uploads, UploadLine(u), UploadStep(u)
    PROVE  \/ \E pc \in UploadPcs : HopsTo(u, pc)
           \/ \E calls \in SUBSET UploadCalls, after \in {"threw", "rollback", "duplicate"} :
                 GivesUp(u, calls, after)
           \/ TakesBack(u) \/ Emitted(u)
           \/ \E call \in up[u].todo : Settling(u, call) /\ Settle(u, call)
           \/ \E result \in Results : Concludes(u, result)
           \/ \E i \in Nat \ {0} : RollsFrom(u, i)
<1> USE DEF At, UploadPcs, Hops, HopsTo
<1>1. CASE Begin(u) \/ Reserve(u) \/ Put(u) \/ SessionValid(u) \/ InsertDocument(u) \/ Emit(u)
           \/ EnqueueDocument(u) \/ CallThrows(u)
  <2>1. \E pc \in UploadPcs : HopsTo(u, pc)
    BY <1>1 DEF Begin, Reserve, Put, SessionValid, InsertDocument, Emit, EnqueueDocument,
       CallThrows, Uncaught, UploadLine
  <2> QED
    BY <2>1
<1>2. CASE PutThrows(u) \/ SessionExpired(u) \/ InsertDuplicate(u) \/ CommitThrows(u)
  <2>1. \E calls \in SUBSET UploadCalls, after \in {"threw", "rollback", "duplicate"} :
           GivesUp(u, calls, after)
    BY <1>2 DEF PutThrows, SessionExpired, InsertDuplicate, CommitThrows, GivesUp, Filing, UploadCalls
  <2> QED
    BY <2>1
<1>3. CASE Refuse(u) \/ Commit(u)
  <2>1. up[u].todo = {}
    BY <1>3 DEF Refuse, Commit, UploadLine
  <2>2. \E result \in Results : Concludes(u, result)
    BY <1>3, <2>1 DEF Refuse, Commit, Concludes, Results
  <2> QED
    BY <2>2
<1>4. CASE \E call \in up[u].todo : Settle(u, call)
  BY <1>4 DEF Settle, Settling
<1>5. CASE RollbackBatch(u)
  <2>1. CASE up[u].i <= Len(up[u].created)
    BY <1>5, <2>1 DEF RollbackBatch, TakesBack
  <2>2. CASE ~(up[u].i <= Len(up[u].created))
    BY <1>5, <2>2 DEF RollbackBatch, UploadLine
  <2> QED
    BY <2>1, <2>2
<1>6. CASE AuditUpload(u)
  BY <1>6 DEF AuditUpload, Emitted
<1>7. CASE Settled(u)
  <2>1. up[u].i \in Nat \ {0}
    BY DEF Locals, UploadLocal
  <2>2. CASE At(u, "undoAccepted")
    <3>1. up' = [up EXCEPT ![u].pc = "rollback", ![u].i = up[u].i + 1]
      BY <1>7, <2>2 DEF Settled, UploadLine, Locals
    <3>2. RollsFrom(u, up[u].i + 1) /\ up[u].i + 1 \in Nat \ {0}
      BY <1>7, <2>1, <2>2, <3>1 DEF RollsFrom, Settled
    <3> QED
      BY <3>2
  <2>3. CASE At(u, "undo") /\ up[u].after = "rollback"
    <3>1. PICK one \in Nat \ {0} : one = 1
      OBVIOUS
    <3>2. up' = [up EXCEPT ![u].pc = "rollback", ![u].i = one]
      BY <1>7, <2>3, <3>1 DEF Settled
    <3>3. RollsFrom(u, one)
      BY <1>7, <2>3, <3>1, <3>2 DEF RollsFrom, Settled
    <3> QED
      BY <3>3
  <2>4. CASE At(u, "undo") /\ up[u].after = "duplicate"
    BY <1>7, <2>4 DEF Settled, Concludes, Results
  <2>5. CASE At(u, "undo") /\ up[u].after = "threw"
    BY <1>7, <2>5 DEF Settled
  <2> QED
    BY <1>7, <2>2, <2>3, <2>4, <2>5 DEF Settled, UploadLine
<1> QED
  BY <1>1, <1>2, <1>3, <1>4, <1>5, <1>6, <1>7 DEF UploadStep

\* The files of the requests and the revisions are attempts of their own.
LEMMA AttemptsApart ==
    /\ \A u \in Uploads : /\ Len(Files[u]) \in Nat \ {0} /\ DOMAIN Files[u] = 1 .. Len(Files[u])
                          /\ \A k \in 1 .. Len(Files[u]) :
                                Files[u][k] \in ReservationIds \ (Seeded \cup RevisionIds)
    /\ \A u, w \in Uploads : \A k \in 1 .. Len(Files[u]), l \in 1 .. Len(Files[w]) :
          Files[u][k] = Files[w][l] => u = w /\ k = l
    /\ RevisionIds \subseteq ReservationIds \ Seeded
    /\ \A r, q \in Revisions : Revision[r] = Revision[q] => r = q
<1>1. ASSUME NEW u \in Uploads
      PROVE  /\ Len(Files[u]) \in Nat \ {0} /\ DOMAIN Files[u] = 1 .. Len(Files[u])
             /\ Files[u] \in Seq(ReservationIds)
  BY UploadAssumption
<1>2. ASSUME NEW u \in Uploads, NEW k \in 1 .. Len(Files[u])
      PROVE  Files[u][k] \in ReservationIds \ (Seeded \cup RevisionIds)
  BY <1>1, UploadAssumption, PipelineAssumption DEF RevisionIds
<1>3. \A u, w \in Uploads : \A k \in 1 .. Len(Files[u]), l \in 1 .. Len(Files[w]) :
         Files[u][k] = Files[w][l] => u = w /\ k = l
  BY <1>1, UploadAssumption
<1> QED
  BY <1>1, <1>2, <1>3, RevisionAssumption DEF RevisionIds

\* The fields of a request's local state.
LEMMA UploadFields ==
    ASSUME up \in [Uploads -> UploadLocal], NEW u \in Uploads
    PROVE  /\ up[u].pc \in UploadPcs /\ up[u].i \in Nat \ {0}
           /\ up[u].results \in Seq(Results) /\ up[u].created \in Seq(ReservationIds)
           /\ Len(up[u].results) \in Nat /\ DOMAIN up[u].created = 1 .. Len(up[u].created)
           /\ Len(up[u].created) \in Nat
           /\ up[u].todo \subseteq UploadCalls
           /\ up[u].after \in {"start", "threw", "rollback", "duplicate", "next"}
<1>1. up[u] \in UploadLocal
  OBVIOUS
<1>2. up[u].results \in Seq(Results) /\ up[u].created \in Seq(ReservationIds)
  BY <1>1 DEF UploadLocal
<1> QED
  BY <1>1, <1>2 DEF UploadLocal

\* The file in hand.
LEMMA InHand ==
    ASSUME up \in [Uploads -> UploadLocal], NEW u \in Uploads, UploadLine(u), up[u].pc \in Filing
    PROVE  /\ Current(u) = Files[u][up[u].i] /\ up[u].i \in 1 .. Len(Files[u])
           /\ Current(u) \in ReservationIds \ (Seeded \cup RevisionIds)
           /\ Current(u) \notin CreatedIds(u)
           /\ Current(u) \in Ahead(u) <=> up[u].pc \in {"reserve", "put", "validate", "insert"}
<1>1. Current(u) = Files[u][up[u].i] /\ up[u].i \in 1 .. Len(Files[u])
  BY UploadFields DEF UploadLine, Filing, Current
<1>2. up[u].i = Len(up[u].results) + 1 /\ Len(up[u].results) \in Nat /\ Len(Files[u]) \in Nat
  BY UploadFields, AttemptsApart DEF UploadLine
<1>3. \A k \in 1 .. Len(Files[u]) : Files[u][k] = Current(u) => k = up[u].i
  BY <1>1, AttemptsApart
<1>4. Current(u) \notin Before(u, Len(up[u].results) + 1)
  BY <1>1, <1>2, <1>3 DEF Before
<1>5. CASE up[u].pc \in {"reserve", "put", "validate", "insert"}
  <2>1. Coming(u) = up[u].i
    BY <1>2, <1>5 DEF Coming, Early
  <2>2. Current(u) \in Ahead(u)
    BY <1>1, <1>2, <2>1 DEF Ahead, From
  <2> QED
    BY <1>1, <1>4, <1>5, <2>2, AttemptsApart DEF UploadLine
<1>6. CASE up[u].pc \in {"commit", "undo"}
  <2>1. Coming(u) = up[u].i + 1
    BY <1>2, <1>6 DEF Coming, Early
  <2>2. Current(u) \notin Ahead(u)
    BY <1>1, <1>2, <1>3, <2>1 DEF Ahead, From
  <2> QED
    BY <1>1, <1>4, <1>6, <2>2, AttemptsApart DEF UploadLine
<1> QED
  BY <1>5, <1>6 DEF Filing

\* A step takes its own request on along its line, and never back to a file.
LEMMA UploadKeepsLine ==
    ASSUME Locals, NEW u \in Uploads, UploadLine(u), UploadStep(u)
    PROVE  /\ up' \in [Uploads -> UploadLocal]
           /\ \A w \in Uploads \ {u} : up'[w] = up[w]
           /\ UploadLine(u)' /\ Ahead(u)' \subseteq Ahead(u)
           /\ InsertDocument(u) => Current(u) \notin Ahead(u)'
           /\ CreatedIds(u)' \subseteq
                 CreatedIds(u) \cup (IF At(u, "commit") THEN {Current(u)} ELSE {})
<1> DEFINE Goal == /\ up' \in [Uploads -> UploadLocal]
                   /\ \A w \in Uploads \ {u} : up'[w] = up[w]
                   /\ UploadLine(u)' /\ Ahead(u)' \subseteq Ahead(u)
                   /\ CreatedIds(u)' \subseteq
                        CreatedIds(u) \cup (IF At(u, "commit") THEN {Current(u)} ELSE {})
<1>1. up \in [Uploads -> UploadLocal]
  BY DEF Locals
<1>2. /\ Len(up[u].results) \in Nat /\ up[u].i \in Nat \ {0} /\ Len(Files[u]) \in Nat \ {0}
      /\ up[u].results \in Seq(Results) /\ up[u].created \in Seq(ReservationIds)
      /\ Len(up[u].created) \in Nat
  BY <1>1, UploadFields, AttemptsApart
<1>3. ASSUME NEW pc \in UploadPcs, NEW i \in Nat \ {0}, NEW todo \in SUBSET UploadCalls,
             NEW after \in {"start", "threw", "rollback", "duplicate", "next"},
             up' = [up EXCEPT ![u].pc = pc, ![u].i = i, ![u].todo = todo, ![u].after = after],
             pc \in Filing => i = Len(up[u].results) + 1 /\ i <= Len(Files[u]),
             pc # "start", up[u].pc \notin Early =>
                pc \notin {"reserve", "put", "validate", "insert"},
             pc = "undo" => after \in {"threw", "rollback", "duplicate"},
             pc = "undoAccepted" => after = "next",
             todo # {} => pc \in {"undo", "undoAccepted"},
             pc \in AfterBatch => i <= Len(up[u].created)
      PROVE  Goal
  <2>1. /\ up' \in [Uploads -> UploadLocal] /\ \A w \in Uploads \ {u} : up'[w] = up[w]
        /\ up'[u].results = up[u].results /\ up'[u].created = up[u].created
        /\ up'[u].pc = pc /\ up'[u].i = i /\ up'[u].todo = todo /\ up'[u].after = after
    BY <1>1, <1>3, ZenonT(40) DEF UploadLocal
  <2>2. CreatedIds(u)' = CreatedIds(u)
    BY <2>1 DEF CreatedIds
  <2>3. UploadLine(u)'
    BY <1>2, <1>3, <2>1, <2>2 DEF UploadLine, At, Before
  <2>4. Coming(u)' >= Coming(u) /\ Coming(u) \in Nat /\ Coming(u)' \in Nat
    <3>1. Coming(u)' = IF pc \in Early THEN Len(up[u].results) + 1 ELSE Len(up[u].results) + 2
      BY <2>1 DEF Coming
    <3>2. pc \in Early => up[u].pc \in Early
      BY <1>3 DEF Early
    <3> QED
      BY <1>2, <3>1, <3>2, SMTT(30) DEF Coming
  <2>5. Ahead(u)' \subseteq Ahead(u)
    BY <1>2, <2>4 DEF Ahead, From
  <2> QED
    BY <2>1, <2>2, <2>3, <2>5
<1>4. ASSUME NEW result \in Results, Concludes(u, result) PROVE Goal
  <2> DEFINE last == up[u].i = Len(Files[u])
             pc == IF last THEN "emit" ELSE "reserve"
             i == IF last THEN 1 ELSE up[u].i + 1
             created == IF result = "accepted" THEN Append(up[u].created, Current(u)) ELSE up[u].created
  <2>1. up[u].pc \in Filing /\ up[u].i = Len(up[u].results) + 1 /\ up[u].i <= Len(Files[u])
    BY <1>4 DEF Concludes, UploadLine, Filing
  <2>2. /\ Current(u) = Files[u][up[u].i] /\ up[u].i \in 1 .. Len(Files[u])
        /\ Current(u) \in ReservationIds
    BY <1>1, <2>1, InHand
  <2>3. /\ Append(up[u].results, result) \in Seq(Results)
        /\ Len(Append(up[u].results, result)) = Len(up[u].results) + 1
    BY <1>2
  <2>4. created \in Seq(ReservationIds)
        /\ {created[j] : j \in DOMAIN created}
              \subseteq CreatedIds(u) \cup (IF At(u, "commit") THEN {Current(u)} ELSE {})
    <3>1. CASE result = "accepted"
      <4> DEFINE m == Len(up[u].created)
      <4>1. /\ created \in Seq(ReservationIds) /\ DOMAIN created = 1 .. m + 1
            /\ \A j \in 1 .. m : created[j] = up[u].created[j]
            /\ created[m + 1] = Current(u) /\ DOMAIN up[u].created = 1 .. m /\ m \in Nat
        BY <1>2, <2>2, <3>1
      <4>2. At(u, "commit")
        BY <1>4, <3>1 DEF Concludes
      <4> HIDE DEF created, m
      <4>3. ASSUME NEW j \in DOMAIN created PROVE created[j] \in CreatedIds(u) \cup {Current(u)}
        <5>1. j = m + 1 \/ j \in 1 .. m
          BY <4>1
        <5> QED
          BY <4>1, <5>1 DEF CreatedIds
      <4> QED
        BY <4>1, <4>2, <4>3
    <3>2. CASE result # "accepted"
      BY <1>2, <3>2 DEF CreatedIds
    <3> QED
      BY <3>1, <3>2
  <2>5. up' = [up EXCEPT ![u].results = Append(@, result), ![u].created = created,
                         ![u].pc = pc, ![u].i = i]
    BY <1>4 DEF Concludes, Outcome
  <2>6. pc \in UploadPcs /\ i \in Nat \ {0} /\ (pc = "reserve" => i = up[u].i + 1 /\ i <= Len(Files[u]))
    BY <1>2, <2>1 DEF UploadPcs
  <2>7. pc \in {"emit", "reserve"}
    OBVIOUS
  <2> HIDE DEF created, pc, i, last
  <2>8. /\ up' \in [Uploads -> UploadLocal] /\ \A w \in Uploads \ {u} : up'[w] = up[w]
        /\ up'[u].results = Append(up[u].results, result) /\ up'[u].created = created
        /\ up'[u].pc = pc /\ up'[u].i = i /\ up'[u].todo = up[u].todo /\ up'[u].after = up[u].after
    BY <1>1, <2>3, <2>4, <2>5, <2>6, ZenonT(40) DEF UploadLocal
  <2>9. Len(up'[u].results) = Len(up[u].results) + 1
    BY <2>3, <2>8
  <2>10. CreatedIds(u)' \subseteq CreatedIds(u) \cup (IF At(u, "commit") THEN {Current(u)} ELSE {})
    BY <2>4, <2>8 DEF CreatedIds
  <2>11. CreatedIds(u)' \subseteq Before(u, Len(up'[u].results) + 1)
    <3>1. Before(u, Len(up[u].results) + 1) \cup {Current(u)} \subseteq Before(u, Len(up'[u].results) + 1)
      BY <1>2, <2>1, <2>2, <2>9 DEF Before
    <3> QED
      BY <2>10, <3>1 DEF UploadLine
  <2>12. UploadLine(u)'
    <3>1. up'[u].todo = {}
      BY <1>4, <2>8 DEF Concludes
    <3>2. Before(u, Len(up[u].results) + 1)' = Before(u, Len(up'[u].results) + 1)
      BY DEF Before
    <3> QED
      BY <1>2, <2>1, <2>6, <2>7, <2>8, <2>9, <2>11, <3>1, <3>2 DEF UploadLine, At, Filing, AfterBatch
  <2>13. Coming(u)' >= Coming(u) /\ Coming(u) \in Nat /\ Coming(u)' \in Nat
    <3>1. Coming(u)' = Len(up'[u].results) + 1 \/ Coming(u)' = Len(up'[u].results) + 2
      BY DEF Coming
    <3>2. Coming(u) = Len(up[u].results) + 1 \/ Coming(u) = Len(up[u].results) + 2
      BY DEF Coming
    <3> QED
      BY <1>2, <2>9, <3>1, <3>2
  <2>14. Ahead(u)' \subseteq Ahead(u)
    BY <1>2, <2>13 DEF Ahead, From
  <2> QED
    BY <2>8, <2>10, <2>12, <2>14
<1>5. ASSUME NEW pc \in UploadPcs, HopsTo(u, pc) PROVE Goal
  <2>1. up' = [up EXCEPT ![u].pc = pc, ![u].i = up[u].i, ![u].todo = up[u].todo,
                         ![u].after = up[u].after]
    BY <1>1, <1>5 DEF HopsTo, Goto, UploadLocal
  <2>2. pc \in Filing => up[u].i = Len(up[u].results) + 1 /\ up[u].i <= Len(Files[u])
    <3>1. CASE At(u, "start")
      BY <1>2, <3>1 DEF UploadLine
    <3>2. CASE up[u].pc \in Filing
      BY <3>2 DEF UploadLine
    <3> QED
      BY <1>5, <3>1, <3>2 DEF HopsTo, Hops, Filing, At
  <2>3. /\ up[u].todo = {} /\ pc \notin {"start", "undo", "undoAccepted"}
        /\ up[u].pc \notin Early =>
              pc \notin {"reserve", "put", "validate", "insert"}
    BY <1>5 DEF HopsTo, Hops, Early
  <2>4. /\ up[u].i \in Nat \ {0} /\ up[u].todo \in SUBSET UploadCalls
        /\ up[u].after \in {"start", "threw", "rollback", "duplicate", "next"}
    BY <1>1, UploadFields
  <2>5. pc = "undo" => up[u].after \in {"threw", "rollback", "duplicate"}
    BY <2>3
  <2>6. pc = "undoAccepted" => up[u].after = "next"
    BY <2>3
  <2>7. pc # "start" /\ (up[u].todo # {} => pc \in {"undo", "undoAccepted"})
    BY <2>3
  <2>8. up[u].pc \notin Early => pc \notin {"reserve", "put", "validate", "insert"}
    BY <2>3
  <2>9. pc \in AfterBatch => up[u].i <= Len(up[u].created)
    BY <1>2, <1>5 DEF HopsTo, Hops, AfterBatch, UploadLine
  <2> HIDE DEF Goal
  <2> QED
    BY <1>3, <2>1, <2>2, <2>4, <2>5, <2>6, <2>7, <2>8, <2>9
<1>6. ASSUME NEW calls \in SUBSET UploadCalls, NEW after \in {"threw", "rollback", "duplicate"},
             GivesUp(u, calls, after)
      PROVE  Goal
  <2>1. up' = [up EXCEPT ![u].pc = "undo", ![u].i = up[u].i, ![u].todo = calls, ![u].after = after]
    BY <1>1, <1>6 DEF GivesUp, Undo, UploadLocal
  <2>2. up[u].i = Len(up[u].results) + 1 /\ up[u].i <= Len(Files[u])
    BY <1>6 DEF GivesUp, UploadLine
  <2>3. "undo" \in UploadPcs /\ "undo" \notin Early
    BY DEF UploadPcs, Early
  <2>5. "undo" \notin AfterBatch
    BY DEF AfterBatch
  <2>4. after \in {"start", "threw", "rollback", "duplicate", "next"}
    OBVIOUS
  <2> HIDE DEF Goal
  <2> QED
    BY <1>2, <1>3, <2>1, <2>2, <2>3, <2>4, <2>5
<1>7. ASSUME TakesBack(u) PROVE Goal
  <2> DEFINE calls == {"deleteDocument", "deleteBlob", "revert"}
  <2>1. up' = [up EXCEPT ![u].pc = "undoAccepted", ![u].i = up[u].i, ![u].todo = calls,
                         ![u].after = "next"]
    BY <1>1, <1>7 DEF TakesBack, Undo, UploadLocal
  <2>2. /\ "undoAccepted" \in UploadPcs /\ calls \in SUBSET UploadCalls
        /\ "undoAccepted" \notin Filing
    BY DEF UploadPcs, UploadCalls, Filing
  <2>3. up[u].i <= Len(up[u].created)
    BY <1>7 DEF TakesBack
  <2> HIDE DEF Goal, calls
  <2> QED
    BY <1>2, <1>3, <2>1, <2>2, <2>3
<1>8. ASSUME Emitted(u) PROVE Goal
  <2>1. up' = [up EXCEPT ![u].pc = "emit", ![u].i = up[u].i + 1, ![u].todo = up[u].todo,
                         ![u].after = up[u].after]
    BY <1>1, <1>8 DEF Emitted, UploadLocal
  <2>2. "emit" \in UploadPcs /\ "emit" \notin Filing \cup Early \cup AfterBatch /\ up[u].i + 1 \in Nat \ {0}
        /\ up[u].todo = {} /\ up[u].todo \in SUBSET UploadCalls
    BY <1>2, <1>8 DEF UploadPcs, Filing, Early, AfterBatch, Emitted, At, UploadLine
  <2>3. up[u].after \in {"start", "threw", "rollback", "duplicate", "next"}
    BY <1>1, UploadFields
  <2> HIDE DEF Goal
  <2> QED
    BY <1>3, <2>1, <2>2, <2>3
<1>9. ASSUME NEW call \in up[u].todo, Settling(u, call) PROVE Goal
  <2>1. up' = [up EXCEPT ![u].pc = up[u].pc, ![u].i = up[u].i, ![u].todo = up[u].todo \ {call},
                         ![u].after = up[u].after]
    BY <1>1, <1>9 DEF Settling, UploadLocal
  <2>2. up[u].pc \in {"undo", "undoAccepted"}
    BY DEF UploadLine
  <2>3. up[u].pc \in UploadPcs /\ up[u].i \in Nat \ {0} /\ up[u].todo \ {call} \in SUBSET UploadCalls
        /\ up[u].after \in {"start", "threw", "rollback", "duplicate", "next"}
    BY <1>1, UploadFields
  <2>4. /\ up[u].pc \in Filing => up[u].i = Len(up[u].results) + 1 /\ up[u].i <= Len(Files[u])
        /\ up[u].pc = "undo" => up[u].after \in {"threw", "rollback", "duplicate"}
        /\ up[u].pc = "undoAccepted" => up[u].after = "next"
        /\ up[u].pc \in AfterBatch => up[u].i <= Len(up[u].created)
    BY <1>2 DEF UploadLine, At
  <2> HIDE DEF Goal
  <2> QED
    BY <1>3, <2>1, <2>2, <2>3, <2>4
<1>10. ASSUME NEW i \in Nat \ {0}, RollsFrom(u, i) PROVE Goal
  <2>1. up' = [up EXCEPT ![u].pc = "rollback", ![u].i = i, ![u].todo = up[u].todo,
                         ![u].after = up[u].after]
    BY <1>1, <1>10 DEF RollsFrom, UploadLocal
  <2>2. "rollback" \in UploadPcs /\ "rollback" \notin Filing \cup AfterBatch /\ up[u].todo = {}
    BY <1>10 DEF UploadPcs, Filing, AfterBatch, RollsFrom
  <2>3. up[u].todo \in SUBSET UploadCalls
        /\ up[u].after \in {"start", "threw", "rollback", "duplicate", "next"}
    BY <1>1, UploadFields
  <2> HIDE DEF Goal
  <2> QED
    BY <1>3, <2>1, <2>2, <2>3
<1>11. InsertDocument(u) => Current(u) \notin Ahead(u)'
  <2> SUFFICES ASSUME InsertDocument(u) PROVE Current(u) \notin Ahead(u)'
    OBVIOUS
  <2>1. At(u, "insert") /\ up'[u].pc = "commit" /\ up'[u].results = up[u].results
    BY <1>1 DEF InsertDocument, Goto, At, UploadLocal
  <2>2. /\ Current(u) = Files[u][up[u].i] /\ up[u].i \in 1 .. Len(Files[u])
        /\ up[u].i = Len(up[u].results) + 1
    BY <1>1, <2>1, InHand DEF At, Filing, UploadLine
  <2>3. Coming(u)' = up[u].i + 1
    BY <1>2, <2>1, <2>2 DEF Coming, Early
  <2>4. \A k \in 1 .. Len(Files[u]) : Files[u][k] = Current(u) => k = up[u].i
    BY <2>2, AttemptsApart
  <2> QED
    BY <1>2, <2>2, <2>3, <2>4, SMTT(30) DEF Ahead, From
<1> HIDE DEF Goal
<1>12. Goal
  BY <1>4, <1>5, <1>6, <1>7, <1>8, <1>9, <1>10, UploadMoves
<1> QED
  BY <1>11, <1>12 DEF Goal

\* The fields of a revision's local state.
LEMMA RevisionFields ==
    ASSUME av \in [Revisions -> RevisionLocal], NEW r \in Revisions
    PROVE  /\ av[r].pc \in RevisionPcs /\ av[r].todo \subseteq RevisionCalls
           /\ av[r].after \in {"precheck", "refused", "threw"}
           /\ av[r].previous \in Rows \cup {NoReceipt}
<1>1. av[r] \in RevisionLocal
  OBVIOUS
<1> QED
  BY <1>1 DEF RevisionLocal

\* A receipt is a row; NoReceipt is none.
LEMMA Receipts == NoReceipt \notin Rows
BY DEF NoReceipt, Rows, States

\* A step takes its own revision on; it has a receipt from its insert on.
LEMMA RevisionKeepsLine ==
    ASSUME Locals, Tables, NEW r \in Revisions, RevisionLine(r), RevisionStep(r)
    PROVE  /\ av' \in [Revisions -> RevisionLocal]
           /\ \A q \in Revisions \ {r} : av'[q] = av[q]
           /\ RevisionLine(r)' /\ (Pending(r)' => Pending(r))
           /\ InsertRevision(r) => /\ ~Pending(r)' /\ documents[Target[r]] \in Rows
                                   /\ av'[r].previous = documents[Target[r]]
           /\ InsertRevision(r) \/ av'[r].previous = av[r].previous
<1> DEFINE Goal(row) == /\ av' \in [Revisions -> RevisionLocal]
                        /\ \A q \in Revisions \ {r} : av'[q] = av[q]
                        /\ RevisionLine(r)' /\ (Pending(r)' => Pending(r))
                        /\ av'[r].previous = row
<1>1. av \in [Revisions -> RevisionLocal]
  BY DEF Locals
<1>2. ASSUME NEW pc \in RevisionPcs, NEW todo \in SUBSET RevisionCalls,
             NEW after \in {"precheck", "refused", "threw"}, NEW row \in Rows \cup {NoReceipt},
             av' = [av EXCEPT ![r].pc = pc, ![r].todo = todo, ![r].after = after, ![r].previous = row],
             pc \in {"precheck", "reserve", "put", "insert"} => Pending(r) /\ row = NoReceipt,
             pc = "commit" \/ "rollbackVersion" \in todo => row # NoReceipt,
             todo # {} => pc = "undo",
             pc = "undo" => after \in {"refused", "threw"}
      PROVE  Goal(row)
  <2>1. /\ av' \in [Revisions -> RevisionLocal] /\ \A q \in Revisions \ {r} : av'[q] = av[q]
        /\ av'[r].pc = pc /\ av'[r].todo = todo /\ av'[r].after = after /\ av'[r].previous = row
    BY <1>1, <1>2 DEF RevisionLocal
  <2> QED
    BY <1>2, <2>1 DEF RevisionLine, Pending, HasReceipt, AtRevision
<1>3. /\ av[r].pc \in RevisionPcs /\ av[r].todo \in SUBSET RevisionCalls
      /\ av[r].after \in {"precheck", "refused", "threw"}
      /\ av[r].previous \in Rows \cup {NoReceipt}
  BY <1>1, RevisionFields
<1> HIDE DEF Goal
<1>4. ASSUME NEW pc \in RevisionPcs, RevisionTo(r, pc), av[r].pc # "undo", av[r].todo = {},
             pc \in {"reserve", "put", "insert"} => Pending(r),
             pc = "commit" => HasReceipt(r), pc \notin {"precheck", "undo"}
      PROVE  Goal(av[r].previous)
  <2>1. av' = [av EXCEPT ![r].pc = pc, ![r].todo = av[r].todo, ![r].after = av[r].after,
                         ![r].previous = av[r].previous]
    BY <1>1, <1>4 DEF RevisionTo, RevisionLocal
  <2>2. pc \in {"precheck", "reserve", "put", "insert"} => Pending(r) /\ av[r].previous = NoReceipt
    BY <1>4 DEF RevisionLine, HasReceipt
  <2> QED
    BY <1>2, <1>3, <1>4, <2>1, <2>2 DEF HasReceipt
<1>5. ASSUME NEW calls \in SUBSET RevisionCalls, NEW after \in {"refused", "threw"},
             UndoRevision(r, calls, after), "rollbackVersion" \in calls => HasReceipt(r)
      PROVE  Goal(av[r].previous)
  <2>1. av' = [av EXCEPT ![r].pc = "undo", ![r].todo = calls, ![r].after = after,
                         ![r].previous = av[r].previous]
    BY <1>1, <1>5 DEF UndoRevision, RevisionLocal
  <2>2. "undo" \in RevisionPcs /\ after \in {"precheck", "refused", "threw"}
    BY DEF RevisionPcs
  <2> QED
    BY <1>2, <1>3, <1>5, <2>1, <2>2 DEF HasReceipt
<1>6. CASE Precheck(r) \/ ReserveRevision(r) \/ RefuseRevision(r) \/ PutRevision(r)
           \/ CommitRevision(r) \/ RevisionCallThrows(r) \/ EnqueueRevision(r) \/ AuditRevision(r)
  <2>1. PICK pc \in RevisionPcs : /\ RevisionTo(r, pc)
                                  /\ <<av[r].pc, pc>> \in
                                        {<<"precheck", "reserve">>, <<"precheck", "refused">>,
                                         <<"reserve", "put">>, <<"reserve", "refused">>,
                                         <<"put", "insert">>, <<"commit", "enqueue">>,
                                         <<"reserve", "threw">>, <<"enqueue", "threw">>,
                                         <<"enqueue", "audit">>, <<"audit", "ok">>}
    BY <1>6 DEF Precheck, ReserveRevision, RefuseRevision, PutRevision, CommitRevision,
       RevisionCallThrows, EnqueueRevision, AuditRevision, AtRevision, RevisionPcs
  <2>2. /\ av[r].pc # "undo" /\ av[r].todo = {} /\ pc \notin {"precheck", "undo", "commit"}
        /\ pc \in {"reserve", "put", "insert"} => Pending(r)
    BY <2>1 DEF RevisionLine, Pending, AtRevision
  <2>3. Goal(av[r].previous)
    BY <1>4, <2>1, <2>2
  <2>4. ~InsertRevision(r)
    BY <2>2, <2>1, <1>1 DEF InsertRevision, RevisionTo, AtRevision, RevisionLocal
  <2> QED
    BY <2>3, <2>4 DEF Goal
<1>7. CASE PutRevisionThrows(r) \/ InsertRevisionRefused(r) \/ InsertRevisionThrows(r)
           \/ CommitRevisionThrows(r)
  <2>1. PICK calls \in SUBSET RevisionCalls, after \in {"refused", "threw"} :
           /\ UndoRevision(r, calls, after) /\ ("rollbackVersion" \in calls => HasReceipt(r))
    BY <1>7 DEF PutRevisionThrows, InsertRevisionRefused, InsertRevisionThrows,
       CommitRevisionThrows, RevisionCalls, RevisionLine
  <2>2. Goal(av[r].previous)
    BY <1>5, <2>1
  <2>3. ~InsertRevision(r)
    BY <1>1, <2>1 DEF InsertRevision, UndoRevision, RevisionLocal
  <2> QED
    BY <2>2, <2>3 DEF Goal
<1>8. ASSUME InsertRevision(r)
      PROVE  Goal(documents[Target[r]]) /\ ~Pending(r)' /\ documents[Target[r]] \in Rows
  <2> DEFINE row == documents[Target[r]]
  <2>1. row \in Rows /\ row # NoReceipt
    BY <1>8, Receipts DEF InsertRevision, InsertVersion, CanInsertVersion, Tables
  <2>2. AtRevision(r, "insert") /\ av[r].todo = {} /\ Pending(r)
    BY <1>8 DEF InsertRevision, RevisionLine, AtRevision, Pending
  <2> HIDE DEF row
  <2>3. av' = [av EXCEPT ![r].pc = "commit", ![r].todo = {}, ![r].after = av[r].after,
                         ![r].previous = row]
    BY <1>1, <1>8, <2>2 DEF InsertRevision, RevisionLocal, row
  <2>4. "commit" \in RevisionPcs /\ {} \in SUBSET RevisionCalls
    BY DEF RevisionPcs
  <2>5. Goal(row)
    BY <1>2, <1>3, <2>1, <2>3, <2>4
  <2>6. av'[r].pc = "commit"
    BY <1>1, <2>3 DEF RevisionLocal
  <2> QED
    BY <2>1, <2>5, <2>6 DEF row, Pending
<1>9. ASSUME NEW call \in av[r].todo, SettleRevision(r, call) PROVE Goal(av[r].previous)
  <2> DEFINE pc == IF av[r].todo = {call} THEN av[r].after ELSE av[r].pc
  <2>1. av' = [av EXCEPT ![r].pc = pc, ![r].todo = av[r].todo \ {call}, ![r].after = av[r].after,
                         ![r].previous = av[r].previous]
    BY <1>1, <1>9 DEF SettleRevision, RevisionLocal
  <2>2. av[r].pc = "undo" /\ av[r].after \in {"refused", "threw"}
    BY <1>9 DEF RevisionLine, AtRevision
  <2>3. pc \in {"undo", "refused", "threw"} /\ pc \in RevisionPcs
        /\ (av[r].todo \ {call} # {} => pc = "undo")
    BY <2>2 DEF RevisionPcs
  <2>4. "rollbackVersion" \in av[r].todo \ {call} => av[r].previous # NoReceipt
    BY DEF RevisionLine, HasReceipt
  <2>5. av[r].todo \ {call} \in SUBSET RevisionCalls
    BY <1>3
  <2> HIDE DEF pc
  <2> QED
    BY <1>2, <1>3, <2>1, <2>2, <2>3, <2>4, <2>5
<1>10. ASSUME NEW call \in av[r].todo, SettleRevision(r, call) PROVE ~InsertRevision(r)
  BY <1>10 DEF RevisionLine, InsertRevision, AtRevision
<1> QED
  <2>1. CASE InsertRevision(r)
    BY <1>8, <2>1 DEF Goal
  <2>2. CASE \E call \in av[r].todo : SettleRevision(r, call)
    BY <1>9, <1>10, <2>2 DEF Goal
  <2> QED
    BY <1>6, <1>7, <2>1, <2>2 DEF RevisionStep
-----------------------------------------------------------------------------
(* Steps of a worker. *)

\* The fields of a worker's local state.
LEMMA WorkerFields ==
    ASSUME wk \in [Workers -> WorkerLocal], NEW w \in Workers
    PROVE  /\ wk[w].pc \in WorkerPcs /\ wk[w].job \in ReservationIds \cup {NoJob}
           /\ wk[w].version \in ReservationIds \cup {NoJob}
           /\ wk[w].scanned \in BOOLEAN /\ wk[w].signature \in BOOLEAN
<1>1. wk[w] \in WorkerLocal
  OBVIOUS
<1> QED
  BY <1>1 DEF WorkerLocal

\* What a handler has in hand is the snapshot it took, of the version that was
\* current then.
Snapshot(w) ==
    /\ AtWorker(w, "load") /\ wk[w].job \in DOMAIN documents
    /\ wk'[w].job = wk[w].job /\ wk'[w].version = documents[wk[w].job].currentVersionId
    /\ wk'[w].scanned = versions[wk'[w].version].malwareScannedAt
    /\ wk'[w].signature = versions[wk'[w].version].malwareSignature
HandsOn(w) ==
    /\ Holding(w)
    /\ wk'[w].job = wk[w].job /\ wk'[w].version = wk[w].version
    /\ wk'[w].scanned = wk[w].scanned /\ wk'[w].signature = wk[w].signature

\* The moves of a worker's program counter from one call to the next.
WorkerHops == {<<"claim", "stage">>, <<"stage", "audit">>, <<"stage", "markInfected">>,
               <<"stage", "markClean">>, <<"markInfected", "audit">>, <<"audit", "debit">>,
               <<"debit", "deleteBlob">>, <<"deleteBlob", "deleteDocument">>}

LEMMA WorkerKeepsHold ==
    ASSUME Basics, NEW w \in Workers, WorkerStep(w)
    PROVE  /\ wk' \in [Workers -> WorkerLocal]
           /\ \A x \in Workers \ {w} : wk'[x] = wk[x]
           /\ ~AtWorker(w, "idle")' => wk'[w].job \in ReservationIds
           /\ Holding(w)' => HandsOn(w) \/ Snapshot(w)
           /\ queue' \subseteq ReservationIds
<1> DEFINE Goal == /\ wk' \in [Workers -> WorkerLocal]
                   /\ \A x \in Workers \ {w} : wk'[x] = wk[x]
                   /\ ~AtWorker(w, "idle")' => wk'[w].job \in ReservationIds
                   /\ Holding(w)' => HandsOn(w) \/ Snapshot(w)
<1>1. /\ wk \in [Workers -> WorkerLocal] /\ queue \subseteq ReservationIds
      /\ ~AtWorker(w, "idle") => wk[w].job \in ReservationIds
  BY DEF Basics, Locals, Tables
<1>2. ASSUME Return(w) PROVE Goal
  <2>1. Idle \in WorkerLocal
    BY DEF Idle, WorkerLocal, WorkerPcs
  <2>2. wk' \in [Workers -> WorkerLocal] /\ wk'[w] = Idle /\ \A x \in Workers \ {w} : wk'[x] = wk[x]
    BY <1>1, <1>2, <2>1 DEF Return
  <2> QED
    BY <2>2 DEF Idle, Holding, AtWorker
<1>3. ASSUME NEW pc \in WorkerPcs, WorkerTo(w, pc), <<wk[w].pc, pc>> \in WorkerHops PROVE Goal
  <2>1. /\ wk' \in [Workers -> WorkerLocal] /\ \A x \in Workers \ {w} : wk'[x] = wk[x]
        /\ wk'[w].pc = pc /\ wk'[w].job = wk[w].job /\ wk'[w].version = wk[w].version
        /\ wk'[w].scanned = wk[w].scanned /\ wk'[w].signature = wk[w].signature
    BY <1>1, <1>3 DEF WorkerTo, WorkerLocal
  <2>2. wk[w].pc \notin {"idle", "load"}
    BY <1>3 DEF WorkerHops
  <2> QED
    BY <1>1, <2>1, <2>2 DEF HandsOn, Holding, AtWorker
<1>4. ASSUME Deliver(w) PROVE Goal
  <2>1. PICK d \in queue : wk' = [wk EXCEPT ![w] = [Idle EXCEPT !.pc = "load", !.job = d]]
    BY <1>4 DEF Deliver
  <2> DEFINE new == [Idle EXCEPT !.pc = "load", !.job = d]
  <2>2. new \in WorkerLocal /\ new.pc = "load" /\ new.job = d
    BY <1>1, <2>1 DEF Idle, WorkerLocal, WorkerPcs
  <2> HIDE DEF new
  <2>3. wk' \in [Workers -> WorkerLocal] /\ wk'[w] = new /\ \A x \in Workers \ {w} : wk'[x] = wk[x]
    BY <1>1, <2>1, <2>2 DEF new
  <2> QED
    BY <1>1, <2>2, <2>3 DEF Holding, AtWorker
<1>5. ASSUME Load(w) PROVE Goal
  <2> DEFINE d == wk[w].job
             v == documents[d].currentVersionId
             new == [pc |-> IF documents[d].processingState = "queued" THEN "claim" ELSE "stage",
                     job |-> d, version |-> v, scanned |-> versions[v].malwareScannedAt,
                     signature |-> versions[v].malwareSignature]
  <2>1. CASE Return(w)
    BY <1>2, <2>1
  <2>2. CASE ~Return(w)
    <3>1. d \in DOMAIN documents /\ wk' = [wk EXCEPT ![w] = new] /\ AtWorker(w, "load")
      BY <1>5, <2>2 DEF Load
    <3>2. v \in DOMAIN versions /\ v \in ReservationIds /\ d \in ReservationIds
      BY <3>1 DEF Basics, Pointers, Tables
    <3>3. versions[v].malwareScannedAt \in BOOLEAN /\ versions[v].malwareSignature \in BOOLEAN
      BY <3>2 DEF Basics, Tables, IsVersion
    <3>4. /\ new \in WorkerLocal /\ new.job = d /\ new.version = v
          /\ new.scanned = versions[v].malwareScannedAt /\ new.signature = versions[v].malwareSignature
      BY <3>2, <3>3 DEF WorkerLocal, WorkerPcs
    <3> HIDE DEF new
    <3>5. wk' \in [Workers -> WorkerLocal] /\ wk'[w] = new /\ \A x \in Workers \ {w} : wk'[x] = wk[x]
      BY <1>1, <3>1, <3>4
    <3>6. Snapshot(w)
      BY <3>1, <3>4, <3>5 DEF Snapshot
    <3>7. wk'[w].job \in ReservationIds
      BY <3>2, <3>4, <3>5
    <3> QED
      BY <3>5, <3>6, <3>7
  <2> QED
    BY <2>1, <2>2
<1> HIDE DEF Goal
<1>6. ASSUME \/ Claim(w) \/ Scan(w) \/ MarkScanComplete(w) \/ MarkMalwareDetected(w)
             \/ AuditMalware(w) \/ DebitQuota(w) \/ DeleteInfectedBlob(w)
             \/ DeleteInfectedDocument(w) \/ WorkerFails(w)
      PROVE  Goal
  <2>1. Return(w) \/ \E pc \in WorkerPcs : WorkerTo(w, pc) /\ <<wk[w].pc, pc>> \in WorkerHops
    BY <1>6 DEF Claim, Scan, MarkScanComplete, MarkMalwareDetected, AuditMalware, DebitQuota,
       DeleteInfectedBlob, DeleteInfectedDocument, WorkerFails, AtWorker, WorkerPcs, WorkerHops
  <2> QED
    BY <1>2, <1>3, <2>1
<1>7. ASSUME Stall(w) PROVE Goal
  BY <1>1, <1>7 DEF Stall, Goal, HandsOn, Holding, AtWorker
<1>8. queue' \subseteq ReservationIds
  <2> DEFINE Sound == \A d \in queue' : d \in queue \/ (~AtWorker(w, "idle") /\ d = wk[w].job)
  <2>1. ASSUME UNCHANGED queue \/ Deliver(w) PROVE Sound
    BY <2>1 DEF Deliver
  <2>2. ASSUME WorkerFails(w) \/ Stall(w) PROVE Sound
    BY <2>2 DEF WorkerFails, Stall, Enqueue
  <2>3. ASSUME Load(w) \/ Claim(w) \/ Scan(w) \/ MarkScanComplete(w) \/ MarkMalwareDetected(w) \/ DebitQuota(w)
        PROVE  UNCHANGED queue
    BY <2>3 DEF Load, Claim, Scan, MarkScanComplete, MarkMalwareDetected, DebitQuota, storeVars
  <2>4. ASSUME AuditMalware(w) \/ DeleteInfectedBlob(w) \/ DeleteInfectedDocument(w)
        PROVE  UNCHANGED queue
    BY <2>4 DEF AuditMalware, DeleteInfectedBlob, DeleteInfectedDocument, Record, DeleteBlob, DeleteDocument
  <2> HIDE DEF Sound
  <2>5. Sound
    BY <2>1, <2>2, <2>3, <2>4 DEF WorkerStep
  <2> QED
    BY <1>1, <2>5 DEF Sound
<1>9. Goal
  BY <1>4, <1>5, <1>6, <1>7 DEF WorkerStep
<1> QED
  BY <1>8, <1>9 DEF Goal
-----------------------------------------------------------------------------
(* What a step makes of the tables. *)

\* The two tables after a step that inserts the versions `born`.
Evolves(born) ==
    /\ documents' \in [DOMAIN documents' -> Rows]
    /\ DOMAIN documents' \cup DOMAIN versions' \subseteq ReservationIds
    /\ \A v \in DOMAIN versions' :
          IsVersion(versions'[v]) /\ OfDocument(v, versions'[v].documentId)
    /\ \A d \in DOMAIN documents' : /\ documents'[d].currentVersionId \in DOMAIN versions'
                                    /\ versions'[documents'[d].currentVersionId].documentId = d
    /\ \A v \in DOMAIN versions' : \/ v \in born
                                   \/ /\ v \in DOMAIN versions
                                      /\ versions'[v].documentId = versions[v].documentId

LEMMA SameEvolves == ASSUME Basics, UNCHANGED <<documents, versions>> PROVE Evolves({})
BY DEF Basics, Tables, Pointers, Evolves

\* The row of a version just inserted.
LEMMA NewVersions ==
    ASSUME NEW d, NEW n
    PROVE  /\ IsVersion(NewVersion(d, n)) /\ NewVersion(d, n).documentId = d
           /\ ~NewVersion(d, n).malwareScannedAt /\ ~NewVersion(d, n).malwareSignature
BY DEF NewVersion, IsVersion

\* A first version comes with the document it is of.
LEMMA FiledEvolves ==
    ASSUME Basics, NEW id \in ReservationIds \ RevisionIds, InsertDocumentWithVersion(id)
    PROVE  Evolves({id})
<1> DEFINE row == [currentVersionId |-> id, processingState |-> "queued"]
           new == NewVersion(id, 1)
<1>1. /\ documents' = Insert(documents, id, row) /\ versions' = Insert(versions, id, new)
      /\ row \in Rows /\ row.currentVersionId = id
  BY DEF InsertDocumentWithVersion, Rows, States
<1>2. IsVersion(new) /\ new.documentId = id /\ OfDocument(id, id)
  BY NewVersions DEF OfDocument
<1> HIDE DEF row, new
<1>3. /\ DOMAIN documents' = DOMAIN documents \cup {id} /\ DOMAIN versions' = DOMAIN versions \cup {id}
      /\ documents'[id] = row /\ versions'[id] = new
      /\ \A d \in DOMAIN documents \ {id} : documents'[d] = documents[d]
      /\ \A v \in DOMAIN versions \ {id} : versions'[v] = versions[v]
      /\ documents' = [d \in DOMAIN documents' |-> documents'[d]]
  BY <1>1 DEF Insert
<1>4. ~ContentStored(id)
  BY DEF InsertDocumentWithVersion
<1>5. id \notin DOMAIN versions
  BY <1>4 DEF ContentStored
<1> QED
  BY <1>1, <1>2, <1>3, <1>5 DEF Evolves, Basics, Tables, Pointers

\* A new version is of the document it revises, and becomes current.
LEMMA RevisedEvolves ==
    ASSUME Basics, NEW r \in Revisions, InsertVersion(Target[r], Revision[r])
    PROVE  Evolves({Revision[r]}) /\ Target[r] \in DOMAIN documents
<1> DEFINE id == Revision[r]
           t == Target[r]
           row == [currentVersionId |-> id, processingState |-> "queued"]
           n == NextVersionNumber(t)
           new == NewVersion(t, n)
<1>1. /\ documents' = [documents EXCEPT ![t] = row] /\ versions' = Insert(versions, id, new)
      /\ row \in Rows /\ row.currentVersionId = id /\ id \in ReservationIds
      /\ t \in DOMAIN documents /\ ~ContentStored(id)
  BY AttemptsApart DEF InsertVersion, CanInsertVersion, Rows, States, RevisionIds
<1>2. IsVersion(new) /\ new.documentId = t /\ OfDocument(id, t)
  BY NewVersions DEF OfDocument, RevisionIds
<1> HIDE DEF row, new, n, id, t
<1>3. /\ DOMAIN documents' = DOMAIN documents /\ DOMAIN versions' = DOMAIN versions \cup {id}
      /\ documents'[t] = row /\ versions'[id] = new
      /\ \A d \in DOMAIN documents \ {t} : documents'[d] = documents[d]
      /\ \A v \in DOMAIN versions \ {id} : versions'[v] = versions[v]
      /\ documents' = [d \in DOMAIN documents' |-> documents'[d]]
  BY <1>1 DEF Insert
<1>5. id \notin DOMAIN versions
  BY <1>1 DEF ContentStored
<1> QED
  BY <1>1, <1>2, <1>3, <1>5 DEF Evolves, Basics, Tables, Pointers, id, t

\* A document goes with every version it has.
LEMMA DeletedEvolves ==
    ASSUME Basics, NEW d, DeleteDocument(d)
    PROVE  Evolves({})
<1>1. /\ DOMAIN documents' = DOMAIN documents \ {d}
      /\ DOMAIN versions' = {v \in DOMAIN versions : versions[v].documentId # d}
      /\ \A e \in DOMAIN documents' : documents'[e] = documents[e]
      /\ \A v \in DOMAIN versions' : versions'[v] = versions[v]
      /\ documents' = [e \in DOMAIN documents' |-> documents'[e]]
  BY DEF DeleteDocument, Delete, DeleteAll, VersionsOf
<1> QED
  BY <1>1 DEF Evolves, Basics, Tables, Pointers

\* A version is rolled back: its document points at the version before, which
\* is still there, or at another of its versions already.
LEMMA RolledBackEvolves ==
    ASSUME Basics, NEW r \in Revisions, HasReceipt(r),
           RollbackVersionInsert(Target[r], Revision[r], av[r].previous)
    PROVE  Evolves({})
<1> DEFINE id == Revision[r]
           t == Target[r]
           row == av[r].previous
<1>1. CASE Repoints(t, id) /\ row.currentVersionId \notin DOMAIN versions
  BY <1>1, SameEvolves DEF RollbackVersionInsert, storeVars
<1>2. CASE ~(Repoints(t, id) /\ row.currentVersionId \notin DOMAIN versions)
  <2>1. /\ documents' = IF Repoints(t, id) THEN [documents EXCEPT ![t] = row] ELSE documents
        /\ versions' = Delete(versions, id)
    BY <1>2 DEF RollbackVersionInsert
  <2>2. row \in Rows /\ row.currentVersionId # id
        /\ (row.currentVersionId \in DOMAIN versions =>
               versions[row.currentVersionId].documentId = t)
    <3>1. row \in Rows \cup {NoReceipt}
      BY RevisionFields DEF Basics, Locals
    <3> QED
      BY <3>1 DEF Basics, Pointers, HasReceipt
  <2>3. \A d \in DOMAIN documents : documents[d].currentVersionId = id => d = t
    BY AttemptsApart DEF Basics, Pointers, OfDocument, RevisionIds
  <2> HIDE DEF id, t, row
  <2>4. /\ DOMAIN versions' = DOMAIN versions \ {id}
        /\ \A v \in DOMAIN versions' : versions'[v] = versions[v]
    BY <2>1 DEF Delete, DeleteAll
  <2>5. CASE Repoints(t, id)
    <3>1. /\ DOMAIN documents' = DOMAIN documents /\ t \in DOMAIN documents
          /\ documents'[t] = row /\ \A d \in DOMAIN documents \ {t} : documents'[d] = documents[d]
          /\ documents' = [d \in DOMAIN documents' |-> documents'[d]]
      BY <2>1, <2>5 DEF Repoints
    <3>2. row.currentVersionId \in DOMAIN versions
      BY <1>2, <2>5 DEF id, t, row
    <3> QED
      BY <2>2, <2>3, <2>4, <3>1, <3>2 DEF Evolves, Basics, Tables, Pointers
  <2>6. CASE ~Repoints(t, id)
    <3>1. documents' = documents
      BY <2>1, <2>6
    <3>2. \A d \in DOMAIN documents : documents[d].currentVersionId # id
      BY <2>3, <2>6 DEF Repoints
    <3> QED
      BY <2>4, <3>1, <3>2 DEF Evolves, Basics, Tables, Pointers
  <2> QED
    BY <2>5, <2>6
<1> QED
  BY <1>1, <1>2

\* A document is claimed.
LEMMA ClaimedEvolves ==
    ASSUME Basics, NEW w \in Workers, Claim(w)
    PROVE  Evolves({})
<1> DEFINE d == wk[w].job
<1>1. CASE UNCHANGED documents
  BY <1>1, SameEvolves DEF Claim
<1>2. CASE ~UNCHANGED documents
  <2>1. /\ d \in DOMAIN documents /\ UNCHANGED versions
        /\ documents' = [documents EXCEPT ![d].processingState = "processing"]
    BY <1>2 DEF Claim
  <2>2. documents \in [DOMAIN documents -> Rows]
    BY DEF Basics, Tables
  <2> HIDE DEF d
  <2>3. /\ documents' \in [DOMAIN documents -> Rows] /\ DOMAIN documents' = DOMAIN documents
        /\ \A e \in DOMAIN documents : documents'[e].currentVersionId = documents[e].currentVersionId
    BY <2>1, <2>2 DEF Rows, States
  <2> QED
    BY <2>1, <2>3 DEF Evolves, Basics, Tables, Pointers
<1> QED
  BY <1>1, <1>2

\* Marking a row sets one of its malware columns.
LEMMA MarkedVersions ==
    ASSUME NEW row, IsVersion(row)
    PROVE  /\ LET clean == [row EXCEPT !.malwareScannedAt = TRUE]
              IN  /\ IsVersion(clean) /\ clean.documentId = row.documentId
                  /\ clean.malwareScannedAt = TRUE
                  /\ clean.malwareSignature = row.malwareSignature
           /\ LET caught == [row EXCEPT !.malwareSignature = TRUE]
              IN  /\ IsVersion(caught) /\ caught.documentId = row.documentId
                  /\ caught.malwareSignature = TRUE
                  /\ caught.malwareScannedAt = row.malwareScannedAt
<1>1. /\ row = [column \in DOMAIN row |-> row[column]]
      /\ DOMAIN row = {"documentId", "versionNumber", "malwareScannedAt", "malwareSignature"}
      /\ row.malwareScannedAt \in BOOLEAN /\ row.malwareSignature \in BOOLEAN
  BY DEF IsVersion
<1> DEFINE clean == [row EXCEPT !.malwareScannedAt = TRUE]
           caught == [row EXCEPT !.malwareSignature = TRUE]
<1>2. /\ clean.documentId = row.documentId /\ clean.malwareScannedAt = TRUE
      /\ clean.malwareSignature = row.malwareSignature
      /\ caught.documentId = row.documentId /\ caught.malwareSignature = TRUE
      /\ caught.malwareScannedAt = row.malwareScannedAt
      /\ DOMAIN clean = DOMAIN row /\ DOMAIN caught = DOMAIN row
  BY <1>1
<1>3. clean = [column \in DOMAIN clean |-> clean[column]] /\ caught = [column \in DOMAIN caught |-> caught[column]]
  OBVIOUS
<1> HIDE DEF clean, caught
<1>4. IsVersion(clean) /\ IsVersion(caught)
  BY <1>1, <1>2, <1>3 DEF IsVersion
<1> QED
  BY <1>2, <1>4 DEF clean, caught

\* A version is marked.
LEMMA MarkedEvolves ==
    ASSUME Basics, NEW w \in Workers, MarkScanComplete(w) \/ MarkMalwareDetected(w)
    PROVE  /\ Evolves({})
           /\ DOMAIN versions' = DOMAIN versions /\ UNCHANGED documents
           /\ \A x \in DOMAIN versions :
                 /\ versions[x].malwareScannedAt => versions'[x].malwareScannedAt
                 /\ versions[x].malwareSignature => versions'[x].malwareSignature
                 /\ versions'[x].malwareScannedAt =>
                       versions[x].malwareScannedAt \/ (x = wk[w].version /\ AtWorker(w, "markClean"))
                 /\ versions'[x].malwareSignature =>
                       versions[x].malwareSignature \/ (x = wk[w].version /\ AtWorker(w, "markInfected"))
<1> DEFINE v == wk[w].version
<1>1. CASE UNCHANGED versions
  <2>1. UNCHANGED documents
    BY DEF MarkScanComplete, MarkMalwareDetected
  <2> QED
    BY <1>1, <2>1, SameEvolves
<1>2. CASE ~UNCHANGED versions
  <2>1. /\ v \in DOMAIN versions /\ UNCHANGED documents
        /\ \/ versions' = [versions EXCEPT ![v].malwareScannedAt = TRUE] /\ AtWorker(w, "markClean")
           \/ versions' = [versions EXCEPT ![v].malwareSignature = TRUE] /\ AtWorker(w, "markInfected")
    BY <1>2 DEF MarkScanComplete, MarkMalwareDetected, CanMarkScanned, CanMarkInfected, IsClaimed
  <2> DEFINE row == versions[v]
  <2>2. IsVersion(row)
    BY <2>1 DEF Basics, Tables
  <2> HIDE DEF v
  <2>3. DOMAIN versions' = DOMAIN versions /\ \A x \in DOMAIN versions \ {v} : versions'[x] = versions[x]
    BY <2>1
  <2>4. /\ IsVersion(versions'[v]) /\ versions'[v].documentId = row.documentId
        /\ \/ /\ versions'[v].malwareScannedAt = TRUE /\ AtWorker(w, "markClean")
              /\ versions'[v].malwareSignature = row.malwareSignature
           \/ /\ versions'[v].malwareSignature = TRUE /\ AtWorker(w, "markInfected")
              /\ versions'[v].malwareScannedAt = row.malwareScannedAt
    <3> DEFINE clean == [row EXCEPT !.malwareScannedAt = TRUE]
               caught == [row EXCEPT !.malwareSignature = TRUE]
    <3>1. \/ versions'[v] = clean /\ AtWorker(w, "markClean")
          \/ versions'[v] = caught /\ AtWorker(w, "markInfected")
      BY <2>1
    <3>2. /\ IsVersion(clean) /\ clean.documentId = row.documentId
          /\ clean.malwareScannedAt = TRUE /\ clean.malwareSignature = row.malwareSignature
          /\ IsVersion(caught) /\ caught.documentId = row.documentId
          /\ caught.malwareSignature = TRUE /\ caught.malwareScannedAt = row.malwareScannedAt
      BY <2>2, MarkedVersions
    <3> HIDE DEF clean, caught, row
    <3> QED
      BY <3>1, <3>2
  <2> HIDE DEF row
  <2>5. Evolves({})
    BY <2>1, <2>3, <2>4 DEF Evolves, Basics, Tables, Pointers, row
  <2>6. /\ row.malwareScannedAt => versions'[v].malwareScannedAt
        /\ row.malwareSignature => versions'[v].malwareSignature
        /\ versions'[v].malwareScannedAt => (row.malwareScannedAt \/ AtWorker(w, "markClean"))
        /\ versions'[v].malwareSignature => (row.malwareSignature \/ AtWorker(w, "markInfected"))
    BY <2>4, Zenon
  <2>7. ASSUME NEW x \in DOMAIN versions, x # v PROVE versions'[x] = versions[x]
    BY <2>3, <2>7
  <2> QED
    BY <2>1, <2>3, <2>5, <2>6, <2>7, Zenon DEF v, row
<1> QED
  BY <1>1, <1>2
-----------------------------------------------------------------------------
(* The invariant of the order things happen in. *)

\* Which steps of a request touch the two tables.
LEMMA UploadTables ==
    ASSUME Locals, NEW u \in Uploads, UploadStep(u)
    PROVE  \/ UNCHANGED <<documents, versions>>
           \/ InsertDocument(u)
           \/ "deleteDocument" \in up[u].todo /\ DeleteDocument(Current(u))
<1>1. CASE \E call \in up[u].todo : Settle(u, call)
  <2>1. PICK call \in up[u].todo : Settle(u, call)
    BY <1>1
  <2>2. Compensate(Current(u), call) \/ UNCHANGED storeVars
    BY <2>1 DEF Settle
  <2>3. ASSUME Compensate(Current(u), call), call \in {"release", "deleteBlob", "revert"}
        PROVE  UNCHANGED <<documents, versions>>
    BY <2>3 DEF Compensate, storeVars, DeleteBlob
  <2>4. ASSUME Compensate(Current(u), call), call = "deleteDocument"
        PROVE  DeleteDocument(Current(u))
    BY <2>4 DEF Compensate
  <2>5. call \in UploadCalls
    BY UploadFields DEF Locals
  <2> QED
    BY <2>2, <2>3, <2>4, <2>5, <2>1 DEF UploadCalls, storeVars
<1>2. CASE Begin(u) \/ Reserve(u) \/ Refuse(u) \/ Put(u) \/ PutThrows(u) \/ SessionValid(u)
           \/ SessionExpired(u) \/ InsertDuplicate(u) \/ Commit(u) \/ CommitThrows(u)
           \/ CallThrows(u) \/ Settled(u) \/ RollbackBatch(u) \/ Emit(u)
           \/ EnqueueDocument(u) \/ AuditUpload(u)
  BY <1>2 DEF Begin, Reserve, Refuse, Put, PutThrows, SessionValid, SessionExpired, InsertDuplicate,
     Commit, CommitThrows, CallThrows, Settled, RollbackBatch, Emit, EnqueueDocument, AuditUpload,
     storeVars, PutBlob, Enqueue, Record
<1> QED
  BY <1>1, <1>2 DEF UploadStep

LEMMA RevisionTables ==
    ASSUME Locals, NEW r \in Revisions, RevisionStep(r)
    PROVE  \/ UNCHANGED <<documents, versions>>
           \/ InsertRevision(r)
           \/ /\ "rollbackVersion" \in av[r].todo
              /\ RollbackVersionInsert(Target[r], Revision[r], av[r].previous)
<1>1. CASE \E call \in av[r].todo : SettleRevision(r, call)
  <2>1. PICK call \in av[r].todo : SettleRevision(r, call)
    BY <1>1
  <2>2. call \in RevisionCalls
    BY RevisionFields DEF Locals
  <2>3. CompensateRevision(r, call) \/ UNCHANGED storeVars
    BY <2>1 DEF SettleRevision
  <2> QED
    BY <2>2, <2>3 DEF CompensateRevision, RevisionCalls, DeleteBlob, storeVars
<1>2. CASE Precheck(r) \/ ReserveRevision(r) \/ RefuseRevision(r) \/ PutRevision(r)
           \/ PutRevisionThrows(r) \/ InsertRevisionRefused(r) \/ InsertRevisionThrows(r)
           \/ CommitRevision(r) \/ CommitRevisionThrows(r) \/ RevisionCallThrows(r)
           \/ EnqueueRevision(r) \/ AuditRevision(r)
  BY <1>2 DEF Precheck, ReserveRevision, RefuseRevision, PutRevision, PutRevisionThrows,
     InsertRevisionRefused, InsertRevisionThrows, CommitRevision, CommitRevisionThrows,
     RevisionCallThrows, EnqueueRevision, AuditRevision, storeVars, PutBlob, Enqueue, Record
<1> QED
  BY <1>1, <1>2 DEF RevisionStep

LEMMA WorkerTables ==
    ASSUME NEW w \in Workers, WorkerStep(w)
    PROVE  \/ UNCHANGED <<documents, versions>>
           \/ Claim(w) \/ MarkScanComplete(w) \/ MarkMalwareDetected(w)
           \/ DeleteInfectedDocument(w)
BY DEF WorkerStep, Deliver, Load, Scan, AuditMalware, DebitQuota, DeleteInfectedBlob, WorkerFails,
   Stall, storeVars, Record, DeleteBlob, Enqueue

\* A request enqueues nothing but the document in hand.
LEMMA UploadQueue ==
    ASSUME Locals, NEW u \in Uploads, UploadStep(u)
    PROVE  queue' = queue \/ (EnqueueDocument(u) /\ queue' = queue \cup {Current(u)})
<1>1. CASE \E call \in up[u].todo : Settle(u, call)
  <2>1. PICK call \in up[u].todo : Settle(u, call)
    BY <1>1
  <2>2. call \in UploadCalls
    BY UploadFields DEF Locals
  <2>3. Compensate(Current(u), call) \/ UNCHANGED storeVars
    BY <2>1 DEF Settle
  <2> QED
    BY <2>2, <2>3 DEF Compensate, UploadCalls, DeleteBlob, DeleteDocument, storeVars
<1>2. CASE \/ Begin(u) \/ Reserve(u) \/ Refuse(u) \/ Put(u) \/ PutThrows(u) \/ SessionValid(u)
           \/ SessionExpired(u) \/ InsertDocument(u) \/ InsertDuplicate(u) \/ Commit(u)
           \/ CommitThrows(u) \/ CallThrows(u) \/ Settled(u) \/ RollbackBatch(u) \/ Emit(u)
           \/ AuditUpload(u)
  BY <1>2 DEF Begin, Reserve, Refuse, Put, PutThrows, SessionValid, SessionExpired, InsertDocument,
     InsertDuplicate, Commit, CommitThrows, CallThrows, Settled, RollbackBatch, Emit, AuditUpload,
     InsertDocumentWithVersion, storeVars, PutBlob, Record
<1>3. CASE EnqueueDocument(u)
  BY <1>3 DEF EnqueueDocument, Enqueue
<1> QED
  BY <1>1, <1>2, <1>3 DEF UploadStep

\* The counts of faults stay counts.
LEMMA FaultsCounted ==
    ASSUME faults \in [FaultPoints -> Nat], (\E point \in FaultPoints : Throws(point)) \/ UNCHANGED faults
    PROVE  faults' \in [FaultPoints -> Nat] /\ \A p \in FaultPoints : faults'[p] >= faults[p]
<1>1. CASE \E point \in FaultPoints : Throws(point)
  <2>1. PICK point \in FaultPoints : faults' = [faults EXCEPT ![point] = @ + 1]
    BY <1>1 DEF Throws
  <2> QED
    BY <2>1
<1>2. CASE UNCHANGED faults
  BY <1>2
<1> QED
  BY <1>1, <1>2

\* A step that evolves the tables, hands no attempt back and reads receipts and
\* snapshots from the rows keeps the invariant.
LEMMA BasicsGrow ==
    ASSUME Basics, Locals', NEW born \in SUBSET Unborn, Evolves(born),
           faults' \in [FaultPoints -> Nat], queue' \subseteq ReservationIds,
           \A u \in Uploads : UploadLine(u)', \A r \in Revisions : RevisionLine(r)',
           Unborn' \subseteq Unborn \ born,
           \A r \in Revisions : \/ av'[r].previous = av[r].previous
                                \/ /\ av'[r].previous = documents[Target[r]]
                                   /\ Revision[r] \in born /\ Target[r] \in DOMAIN documents,
           \A w \in Workers : Holding(w)' =>
              \/ Holding(w) /\ wk'[w].version = wk[w].version /\ wk'[w].job = wk[w].job
              \/ /\ wk'[w].job \in DOMAIN documents
                 /\ wk'[w].version = documents[wk'[w].job].currentVersionId
    PROVE  Basics'
<1>1. Tables'
  BY DEF Evolves, Tables
<1>2. ASSUME NEW id \in Unborn' PROVE Unknown(id)'
  <2>1. id \in Unborn /\ id \notin born /\ Unknown(id)
    BY DEF Basics, InOrder
  <2>2. id \notin DOMAIN versions'
    BY <2>1 DEF Evolves, Unknown
  <2>3. \A d \in DOMAIN documents : documents[d].currentVersionId # id
    BY <2>1 DEF Basics, Pointers, Unknown
  <2>4. \A r \in Revisions : HasReceipt(r)' => av'[r].previous.currentVersionId # id
    BY <2>1, <2>3 DEF Unknown, HasReceipt
  <2>5. \A w \in Workers : Holding(w)' => wk'[w].version # id
    BY <2>1, <2>3 DEF Unknown
  <2> QED
    BY <2>2, <2>4, <2>5 DEF Unknown
<1>3. InOrder'
  BY <1>2 DEF InOrder
<1>4. ASSUME NEW r \in Revisions, HasReceipt(r)'
      PROVE  LET last == av'[r].previous.currentVersionId
             IN  last # Revision[r] /\ (last \in DOMAIN versions' => versions'[last].documentId = Target[r])
  <2> DEFINE last == av'[r].previous.currentVersionId
  <2>1. CASE av'[r].previous = av[r].previous
    <3>1. /\ last # Revision[r] /\ (last \in DOMAIN versions => versions[last].documentId = Target[r])
          /\ last \notin born
      BY <1>4, <2>1 DEF Basics, Pointers, InOrder, Unknown, HasReceipt
    <3> QED
      BY <3>1 DEF Evolves
  <2>2. CASE /\ av'[r].previous = documents[Target[r]]
             /\ Revision[r] \in born /\ Target[r] \in DOMAIN documents
    <3>1. last \in DOMAIN versions /\ versions[last].documentId = Target[r]
      BY <2>2 DEF Basics, Pointers
    <3>2. \A id \in born : id \notin DOMAIN versions
      BY DEF Basics, InOrder, Unknown
    <3>3. last # Revision[r] /\ last \notin born
      BY <2>2, <3>1, <3>2
    <3> QED
      BY <3>1, <3>3 DEF Evolves
  <2> QED
    BY <2>1, <2>2
<1>5. ASSUME NEW w \in Workers, Holding(w)' PROVE OfDocument(wk'[w].version, wk'[w].job)
  <2>1. \A d \in DOMAIN documents : OfDocument(documents[d].currentVersionId, d)
    BY DEF Basics, Pointers
  <2> QED
    BY <1>5, <2>1 DEF Basics, Pointers
<1>6. Pointers'
  BY <1>4, <1>5 DEF Pointers, Evolves, OfDocument
<1> QED
  BY <1>1, <1>3, <1>6 DEF Basics

\* The attempts of other requests and of the revisions stay as they are.
LEMMA UploadUnborn ==
    ASSUME Basics, NEW u \in Uploads, UploadStep(u), UNCHANGED <<av, wk>>
    PROVE  /\ Unborn' \subseteq Unborn
           /\ InsertDocument(u) => /\ Current(u) \in Unborn /\ Current(u) \notin Unborn'
                                   /\ Current(u) \in ReservationIds \ (Seeded \cup RevisionIds)
<1>1. /\ up \in [Uploads -> UploadLocal] /\ UploadLine(u) /\ Locals
  BY DEF Basics, Locals, InOrder
<1>2. /\ \A w \in Uploads \ {u} : up'[w] = up[w] /\ Ahead(w)' = Ahead(w)
      /\ Ahead(u)' \subseteq Ahead(u) /\ (InsertDocument(u) => Current(u) \notin Ahead(u)')
  <2>1. \A w \in Uploads \ {u} : up'[w] = up[w]
    BY <1>1, UploadKeepsLine
  <2>2. \A w \in Uploads \ {u} : Ahead(w)' = Ahead(w)
    BY <2>1 DEF Ahead, From, Coming
  <2> QED
    BY <1>1, <2>1, <2>2, UploadKeepsLine
<1>3. Unborn = (UNION {Ahead(w) : w \in Uploads}) \cup {Revision[r] : r \in {q \in Revisions : Pending(q)}}
  BY DEF Unborn
<1>4. Unborn' = (UNION {Ahead(w)' : w \in Uploads}) \cup {Revision[r] : r \in {q \in Revisions : Pending(q)}}
  BY DEF Unborn, Pending
<1>5. Unborn' \subseteq Unborn
  BY <1>2, <1>3, <1>4
<1>6. ASSUME InsertDocument(u)
      PROVE  /\ Current(u) \in Unborn /\ Current(u) \notin Unborn'
             /\ Current(u) \in ReservationIds \ (Seeded \cup RevisionIds)
  <2>1. up[u].pc = "insert" /\ up[u].pc \in Filing
    BY <1>6 DEF InsertDocument, At, Filing
  <2>2. /\ Current(u) = Files[u][up[u].i] /\ up[u].i \in 1 .. Len(Files[u])
        /\ Current(u) \in ReservationIds \ (Seeded \cup RevisionIds) /\ Current(u) \in Ahead(u)
    BY <1>1, <2>1, InHand
  <2>3. ASSUME NEW w \in Uploads \ {u} PROVE Current(u) \notin Ahead(w)'
    <3>1. Coming(w) \in Nat \ {0}
      BY <1>1, UploadFields DEF Coming
    <3>2. \A k \in 1 .. Len(Files[w]) : Files[w][k] # Current(u)
      BY <2>2, AttemptsApart
    <3>3. Current(u) \notin Ahead(w)
      BY <3>1, <3>2, AttemptsApart DEF Ahead, From
    <3> QED
      BY <1>2, <3>3
  <2>4. Current(u) \notin {Revision[r] : r \in {q \in Revisions : Pending(q)}}
    BY <2>2 DEF RevisionIds
  <2>5. Current(u) \in Unborn
    BY <1>3, <2>2
  <2>6. \A w \in Uploads : Current(u) \notin Ahead(w)'
    BY <1>2, <1>6, <2>3
  <2>7. Current(u) \notin Unborn'
    BY <1>4, <2>4, <2>6
  <2> QED
    BY <2>2, <2>5, <2>7
<1> QED
  BY <1>5, <1>6

LEMMA RevisionUnborn ==
    ASSUME Basics, NEW r \in Revisions, RevisionStep(r), UNCHANGED <<up, wk>>
    PROVE  /\ Unborn' \subseteq Unborn
           /\ InsertRevision(r) => Revision[r] \in Unborn /\ Revision[r] \notin Unborn'
<1>1. /\ \A q \in Revisions \ {r} : av'[q] = av[q]
      /\ Pending(r)' => Pending(r)
      /\ InsertRevision(r) => ~Pending(r)'
  BY RevisionKeepsLine DEF Basics, InOrder
<1>2. \A q \in Revisions : Pending(q)' => Pending(q)
  BY <1>1 DEF Pending
<1>3. /\ Unborn = (UNION {Ahead(w) : w \in Uploads}) \cup {Revision[q] : q \in {p \in Revisions : Pending(p)}}
      /\ Unborn' = (UNION {Ahead(w) : w \in Uploads}) \cup {Revision[q] : q \in {p \in Revisions : Pending(p)'}}
  BY DEF Unborn, Ahead, From, Coming
<1>4. ASSUME NEW w \in Uploads PROVE Revision[r] \notin Ahead(w)
  <2>1. Coming(w) \in Nat \ {0}
    BY UploadFields DEF Coming, Basics, Locals
  <2>2. \A k \in 1 .. Len(Files[w]) : Files[w][k] # Revision[r]
    BY AttemptsApart DEF RevisionIds
  <2> QED
    BY <2>1, <2>2, AttemptsApart DEF Ahead, From
<1>5. InsertRevision(r) => Pending(r) /\ ~Pending(r)'
  BY <1>1 DEF InsertRevision, AtRevision, Pending
<1>6. \A q \in Revisions : Revision[q] = Revision[r] => q = r
  BY AttemptsApart
<1> QED
  BY <1>2, <1>3, <1>4, <1>5, <1>6

\* A step of a request keeps the order.
LEMMA UploadBasics ==
    ASSUME Basics, NEW u \in Uploads, UploadStep(u), UNCHANGED <<av, wk>>
    PROVE  Basics'
<1>1. Locals /\ UploadLine(u) /\ Locals'
  BY UploadKeepsLine DEF Basics, Locals, InOrder, AtWorker
<1>2. \A w \in Uploads : UploadLine(w)'
  <2>1. \A w \in Uploads \ {u} : up'[w] = up[w] /\ UploadLine(w)
    BY <1>1, UploadKeepsLine DEF Basics, InOrder
  <2>2. ASSUME NEW w \in Uploads \ {u} PROVE UploadLine(w)'
    <3>1. CreatedIds(w)' = CreatedIds(w)
      BY <2>1 DEF CreatedIds
    <3> QED
      BY <2>1, <3>1 DEF UploadLine, At, Before
  <2> QED
    BY <1>1, <2>2, UploadKeepsLine
<1>3. \A r \in Revisions : RevisionLine(r)'
  BY DEF Basics, InOrder, RevisionLine, Pending, HasReceipt, AtRevision
<1>4. faults' \in [FaultPoints -> Nat]
  <2>1. (\E point \in FaultPoints : Throws(point)) \/ UNCHANGED faults
    BY DEF UploadStep, Begin, Reserve, Refuse, Put, PutThrows, SessionValid, SessionExpired,
       InsertDocument, InsertDuplicate, Commit, CommitThrows, CallThrows, Settle, Settled,
       RollbackBatch, Emit, EnqueueDocument, AuditUpload, Record, Throws
  <2> QED
    BY <2>1, FaultsCounted DEF Basics, Tables
<1>5. queue' \subseteq ReservationIds
  <2>1. queue' = queue \/ (EnqueueDocument(u) /\ queue' = queue \cup {Current(u)})
    BY <1>1, UploadQueue
  <2>2. ASSUME EnqueueDocument(u) PROVE Current(u) \in ReservationIds
    <3>1. Current(u) = up[u].created[up[u].i] /\ up[u].i \in 1 .. Len(up[u].created)
      BY <1>1, <2>2 DEF EnqueueDocument, At, Current, UploadLine, AfterBatch
    <3> QED
      BY <1>1, <3>1, UploadFields DEF Locals
  <2> QED
    BY <2>1, <2>2 DEF Basics, Tables
<1>6. ASSUME NEW born \in SUBSET Unborn, Evolves(born), Unborn' \subseteq Unborn \ born PROVE Basics'
  <2>1. \A r \in Revisions : av'[r].previous = av[r].previous
    OBVIOUS
  <2>2. \A w \in Workers : Holding(w)' =>
           Holding(w) /\ wk'[w].version = wk[w].version /\ wk'[w].job = wk[w].job
    BY DEF Holding
  <2> QED
    BY <1>1, <1>2, <1>3, <1>4, <1>5, <1>6, <2>1, <2>2, BasicsGrow
<1>7. CASE UNCHANGED <<documents, versions>>
  BY <1>6, <1>7, SameEvolves, UploadUnborn
<1>8. CASE InsertDocument(u)
  <2> DEFINE id == Current(u)
  <2>1. id \in Unborn /\ id \notin Unborn' /\ Unborn' \subseteq Unborn
        /\ id \in ReservationIds \ RevisionIds
    BY <1>8, UploadUnborn
  <2>2. Evolves({id})
    BY <1>8, <2>1, FiledEvolves DEF InsertDocument
  <2> HIDE DEF id
  <2> QED
    BY <1>6, <2>1, <2>2
<1>9. CASE DeleteDocument(Current(u))
  BY <1>6, <1>9, DeletedEvolves, UploadUnborn
<1> QED
  BY <1>1, <1>7, <1>8, <1>9, UploadTables

LEMMA RevisionBasics ==
    ASSUME Basics, NEW r \in Revisions, RevisionStep(r), UNCHANGED <<up, wk>>
    PROVE  Basics'
<1>1. /\ Locals /\ Tables /\ RevisionLine(r) /\ Locals'
  BY RevisionKeepsLine DEF Basics, Locals, InOrder, AtWorker
<1>2. \A q \in Revisions : RevisionLine(q)'
  <2>1. \A q \in Revisions \ {r} : av'[q] = av[q] /\ RevisionLine(q)
    BY <1>1, RevisionKeepsLine DEF Basics, InOrder
  <2>2. \A q \in Revisions \ {r} : RevisionLine(q)'
    BY <2>1 DEF RevisionLine, Pending, HasReceipt, AtRevision
  <2> QED
    BY <1>1, <2>2, RevisionKeepsLine
<1>3. \A u \in Uploads : UploadLine(u)'
  BY DEF Basics, InOrder, UploadLine, At, CreatedIds, Before
<1>4. faults' \in [FaultPoints -> Nat]
  <2>1. (\E point \in FaultPoints : Throws(point)) \/ UNCHANGED faults
    BY DEF RevisionStep, Precheck, ReserveRevision, RefuseRevision, PutRevision,
       PutRevisionThrows, InsertRevision, InsertRevisionRefused, InsertRevisionThrows,
       CommitRevision, CommitRevisionThrows, RevisionCallThrows, SettleRevision,
       EnqueueRevision, AuditRevision, Record, Throws
  <2> QED
    BY <2>1, FaultsCounted DEF Basics, Tables
<1>5. queue' \subseteq ReservationIds
  <2>1. av[r].todo \subseteq RevisionCalls
    BY <1>1, RevisionFields DEF Locals
  <2>2. UNCHANGED queue \/ queue' = queue \cup {Target[r]}
    BY <2>1 DEF RevisionStep, Precheck, ReserveRevision, RefuseRevision, PutRevision,
       PutRevisionThrows, InsertRevision, InsertRevisionRefused, InsertRevisionThrows,
       CommitRevision, CommitRevisionThrows, RevisionCallThrows, SettleRevision,
       EnqueueRevision, AuditRevision, Record, storeVars, Enqueue, PutBlob, InsertVersion,
       CompensateRevision, RevisionCalls, DeleteBlob, RollbackVersionInsert
  <2> QED
    BY <2>2, RevisionAssumption DEF Basics, Tables
<1>6. ASSUME NEW born \in SUBSET Unborn, Evolves(born), Unborn' \subseteq Unborn \ born,
             InsertRevision(r) => Revision[r] \in born /\ Target[r] \in DOMAIN documents
      PROVE  Basics'
  <2>1. \A q \in Revisions : \/ av'[q].previous = av[q].previous
                             \/ /\ av'[q].previous = documents[Target[q]]
                                /\ Revision[q] \in born /\ Target[q] \in DOMAIN documents
    BY <1>1, <1>6, RevisionKeepsLine
  <2> QED
    BY <1>1, <1>2, <1>3, <1>4, <1>5, <1>6, <2>1, BasicsGrow DEF Holding
<1>7. CASE UNCHANGED <<documents, versions>>
  <2>1. ~InsertRevision(r)
    <3>1. ASSUME InsertRevision(r) PROVE FALSE
      <4>1. ~ContentStored(Revision[r]) /\ versions' = Insert(versions, Revision[r], versions'[Revision[r]])
        BY <3>1 DEF InsertRevision, InsertVersion, CanInsertVersion, Insert
      <4>2. Revision[r] \in DOMAIN versions' /\ Revision[r] \notin DOMAIN versions
        BY <4>1 DEF Insert, ContentStored
      <4> QED
        BY <1>7, <4>2
    <3> QED
      BY <3>1
  <2> QED
    BY <1>6, <1>7, <2>1, SameEvolves, RevisionUnborn
<1>8. CASE InsertRevision(r)
  BY <1>6, <1>8, RevisedEvolves, RevisionUnborn DEF InsertRevision
<1>9. CASE /\ "rollbackVersion" \in av[r].todo
           /\ RollbackVersionInsert(Target[r], Revision[r], av[r].previous)
  <2>1. HasReceipt(r) /\ AtRevision(r, "undo")
    BY <1>1, <1>9 DEF RevisionLine
  <2>2. ~InsertRevision(r)
    BY <2>1 DEF InsertRevision, AtRevision
  <2> QED
    BY <1>6, <1>9, <2>1, <2>2, RolledBackEvolves, RevisionUnborn
<1> QED
  BY <1>1, <1>7, <1>8, <1>9, RevisionTables

LEMMA WorkerBasics ==
    ASSUME Basics, NEW w \in Workers, WorkerStep(w), UNCHANGED <<up, av>>
    PROVE  Basics'
<1>1. Locals'
  BY WorkerKeepsHold DEF Basics, Locals, AtWorker
<1>2. \A r \in Revisions : RevisionLine(r)'
  BY DEF Basics, InOrder, RevisionLine, Pending, HasReceipt, AtRevision
<1>3. \A u \in Uploads : UploadLine(u)'
  BY DEF Basics, InOrder, UploadLine, At, CreatedIds, Before
<1>4. faults' \in [FaultPoints -> Nat]
  <2>1. (\E point \in FaultPoints : Throws(point)) \/ UNCHANGED faults
    BY DEF WorkerStep, Deliver, Load, Claim, Scan, MarkScanComplete, MarkMalwareDetected,
       AuditMalware, DebitQuota, DeleteInfectedBlob, DeleteInfectedDocument, WorkerFails, Stall,
       Record, Throws
  <2> QED
    BY <2>1, FaultsCounted DEF Basics, Tables
<1>5. queue' \subseteq ReservationIds
  BY WorkerKeepsHold
<1>6. Unborn' = Unborn
  BY DEF Unborn, Ahead, From, Coming, Pending
<1>7. \A x \in Workers : Holding(x)' =>
         \/ Holding(x) /\ wk'[x].version = wk[x].version /\ wk'[x].job = wk[x].job
         \/ /\ wk'[x].job \in DOMAIN documents
            /\ wk'[x].version = documents[wk'[x].job].currentVersionId
  <2>1. \A x \in Workers \ {w} : wk'[x] = wk[x]
    BY WorkerKeepsHold
  <2>2. Holding(w)' => HandsOn(w) \/ Snapshot(w)
    BY WorkerKeepsHold
  <2> QED
    BY <2>1, <2>2 DEF Holding, HandsOn, Snapshot
<1>8. ASSUME Evolves({}) PROVE Basics'
  BY <1>1, <1>2, <1>3, <1>4, <1>5, <1>6, <1>7, <1>8, BasicsGrow
<1> QED
  BY <1>8, WorkerTables, SameEvolves, ClaimedEvolves, MarkedEvolves, DeletedEvolves
     DEF DeleteInfectedDocument

\* A request whose enqueue is ignored goes on; nothing else changes.
UploadsOn(u) ==
    /\ At(u, "enqueue") /\ Goto(u, "audit")
    /\ UNCHANGED <<ledgerVars, storeVars, faults, av, wk>>
RevisionsOn(r) ==
    /\ AtRevision(r, "enqueue") /\ RevisionTo(r, "audit")
    /\ UNCHANGED <<ledgerVars, storeVars, faults, up, wk>>

LEMMA IgnoredGoesOn ==
    ASSUME \/ \E u \in Uploads : UploadIgnored(u)
           \/ \E r \in Revisions : RevisionIgnored(r)
    PROVE  (\E u \in Uploads : UploadsOn(u)) \/ (\E r \in Revisions : RevisionsOn(r))
BY DEF UploadIgnored, RevisionIgnored, Ignored, UploadsOn, RevisionsOn

LEMMA UploadOn ==
    ASSUME Basics, NEW u \in Uploads, UploadsOn(u)
    PROVE  /\ up \in [Uploads -> UploadLocal] /\ up' \in [Uploads -> UploadLocal]
           /\ \A w \in Uploads \ {u} : up'[w] = up[w]
           /\ up[u].pc = "enqueue" /\ up'[u].pc = "audit"
           /\ up'[u].i = up[u].i /\ up'[u].results = up[u].results
           /\ up'[u].created = up[u].created /\ up'[u].todo = up[u].todo
           /\ up'[u].after = up[u].after /\ UploadLine(u)
           /\ CreatedIds(u)' = CreatedIds(u) /\ Current(u)' = Current(u)
<1>1. up \in [Uploads -> UploadLocal] /\ up[u] \in UploadLocal /\ UploadLine(u)
  BY DEF Basics, Locals, InOrder
<1>2. /\ up' \in [Uploads -> UploadLocal] /\ \A w \in Uploads \ {u} : up'[w] = up[w]
      /\ up[u].pc = "enqueue" /\ up'[u].pc = "audit"
      /\ up'[u].i = up[u].i /\ up'[u].results = up[u].results
      /\ up'[u].created = up[u].created /\ up'[u].todo = up[u].todo
      /\ up'[u].after = up[u].after
  BY <1>1 DEF UploadsOn, At, Goto, UploadLocal, UploadPcs
<1> QED
  BY <1>1, <1>2 DEF CreatedIds, Current

LEMMA RevisionOn ==
    ASSUME Basics, NEW r \in Revisions, RevisionsOn(r)
    PROVE  /\ av' \in [Revisions -> RevisionLocal]
           /\ \A q \in Revisions \ {r} : av'[q] = av[q]
           /\ av[r].pc = "enqueue" /\ av'[r].pc = "audit"
           /\ av'[r].todo = av[r].todo /\ av'[r].after = av[r].after
           /\ av'[r].previous = av[r].previous /\ RevisionLine(r)
<1>1. av \in [Revisions -> RevisionLocal] /\ av[r] \in RevisionLocal /\ RevisionLine(r)
  BY DEF Basics, Locals, InOrder
<1> QED
  BY <1>1 DEF RevisionsOn, AtRevision, RevisionTo, RevisionLocal, RevisionPcs

\* It leaves the order as it is.
LEMMA OnBasics ==
    ASSUME Basics,
           (\E u \in Uploads : UploadsOn(u)) \/ (\E r \in Revisions : RevisionsOn(r))
    PROVE  Basics'
<1>1. UNCHANGED <<documents, versions, queue, faults, wk>>
  BY DEF UploadsOn, RevisionsOn, storeVars
<1>2. Evolves({})
  BY <1>1, SameEvolves
<1>3. faults' \in [FaultPoints -> Nat] /\ queue' \subseteq ReservationIds
  BY <1>1 DEF Basics, Tables
<1>4. \A w \in Workers : Holding(w)' =>
         Holding(w) /\ wk'[w].version = wk[w].version /\ wk'[w].job = wk[w].job
  BY <1>1 DEF Holding
<1>5. ASSUME Locals', \A u \in Uploads : UploadLine(u)', \A r \in Revisions : RevisionLine(r)',
             Unborn' \subseteq Unborn, \A r \in Revisions : av'[r].previous = av[r].previous
      PROVE  Basics'
  BY <1>2, <1>3, <1>4, <1>5, BasicsGrow
<1>6. ASSUME NEW u \in Uploads, UploadsOn(u) PROVE Basics'
  <2>1. UNCHANGED av
    BY <1>6 DEF UploadsOn
  <2>2. Locals'
    BY <1>1, <1>6, <2>1, UploadOn DEF Basics, Locals, AtWorker
  <2>3. UploadLine(u)'
    BY <1>6, UploadOn DEF UploadLine, At, Before, Filing, AfterBatch
  <2>4. ASSUME NEW w \in Uploads \ {u} PROVE UploadLine(w)'
    <3>1. up'[w] = up[w] /\ UploadLine(w)
      BY <1>6, UploadOn DEF Basics, InOrder
    <3> QED
      BY <3>1 DEF UploadLine, At, Before, CreatedIds
  <2>5. \A r \in Revisions : RevisionLine(r)'
    BY <2>1 DEF Basics, InOrder, RevisionLine, Pending, HasReceipt, AtRevision
  <2>6. \A w \in Uploads : Coming(w)' = Coming(w)
    BY <1>6, UploadOn DEF Coming, Early
  <2>7. Unborn' = Unborn
    BY <2>1, <2>6 DEF Unborn, Ahead, From, Pending
  <2> QED
    BY <1>5, <2>1, <2>2, <2>3, <2>4, <2>5, <2>7
<1>7. ASSUME NEW r \in Revisions, RevisionsOn(r) PROVE Basics'
  <2>1. UNCHANGED up
    BY <1>7 DEF RevisionsOn
  <2>2. Locals'
    BY <1>1, <1>7, <2>1, RevisionOn DEF Basics, Locals, AtWorker
  <2>3. \A u \in Uploads : UploadLine(u)'
    BY <2>1 DEF Basics, InOrder, UploadLine, At, CreatedIds, Before
  <2>4. \A q \in Revisions : RevisionLine(q)'
    BY <1>7, RevisionOn DEF Basics, InOrder, RevisionLine, Pending, HasReceipt, AtRevision
  <2>5. \A q \in Revisions : Pending(q)' <=> Pending(q)
    BY <1>7, RevisionOn DEF Pending
  <2>6. Unborn' = Unborn
    BY <2>1, <2>5 DEF Unborn, Ahead, From, Coming
  <2>7. \A q \in Revisions : av'[q].previous = av[q].previous
    BY <1>7, RevisionOn
  <2> QED
    BY <1>5, <2>2, <2>3, <2>4, <2>6, <2>7
<1> QED
  BY <1>6, <1>7

\* The order is kept from the first state on.
LEMMA BasicsStep == Basics /\ [Next]_vars => Basics'
<1> SUFFICES ASSUME Basics, [Next]_vars PROVE Basics'
  OBVIOUS
<1>1. CASE UNCHANGED vars
  <2>1. UNCHANGED <<documents, versions, queue, faults, up, av, wk>>
    BY <1>1 DEF vars, storeVars
  <2>2. Locals' /\ Tables'
    BY <2>1 DEF Basics, Locals, Tables, AtWorker
  <2>3. \A u \in Uploads : UploadLine(u)'
    BY <2>1 DEF Basics, InOrder, UploadLine, At, CreatedIds, Before
  <2>4. \A r \in Revisions : RevisionLine(r)'
    BY <2>1 DEF Basics, InOrder, RevisionLine, Pending, HasReceipt, AtRevision
  <2>5. Unborn' = Unborn
    BY <2>1 DEF Unborn, Ahead, From, Coming, Pending
  <2>6. Evolves({})
    BY <2>1, SameEvolves
  <2>7. \A r \in Revisions : av'[r].previous = av[r].previous
    BY <2>1
  <2>8. \A w \in Workers : Holding(w)' =>
           Holding(w) /\ wk'[w].version = wk[w].version /\ wk'[w].job = wk[w].job
    BY <2>1 DEF Holding
  <2>9. faults' \in [FaultPoints -> Nat] /\ queue' \subseteq ReservationIds
    BY <2>2 DEF Tables
  <2> QED
    BY <2>2, <2>3, <2>4, <2>5, <2>6, <2>7, <2>8, <2>9, BasicsGrow
<1> QED
  BY <1>1, UploadBasics, RevisionBasics, WorkerBasics, IgnoredGoesOn, OnBasics
     DEF Next, UploadsAct, RevisionsAct, WorkersAct, UploadNext, AddVersionNext, WorkerNext

LEMMA BasicsInit == Init => Basics
<1> SUFFICES ASSUME Init PROVE Basics
  OBVIOUS
<1> USE DEF Init, StoreInit, UploadInit, AddVersionInit, WorkerInit
<1>1. /\ up \in [Uploads -> UploadLocal] /\ av \in [Revisions -> RevisionLocal]
      /\ wk \in [Workers -> WorkerLocal]
  <2>1. PICK one \in Nat \ {0} : one = 1
    OBVIOUS
  <2>2. [pc |-> "start", i |-> one, results |-> <<>>, created |-> <<>>, todo |-> {},
         after |-> "start"] \in UploadLocal
    BY DEF UploadLocal, UploadPcs
  <2> QED
    BY <2>1, <2>2 DEF UploadLocal, RevisionLocal, RevisionPcs, WorkerLocal, WorkerPcs, Idle
<1>2. /\ \A u \in Uploads : At(u, "start") /\ up[u].i = 1 /\ up[u].results = <<>>
                            /\ up[u].created = <<>> /\ up[u].todo = {}
      /\ \A r \in Revisions : av[r].pc = "precheck" /\ av[r].todo = {} /\ av[r].previous = NoReceipt
      /\ \A w \in Workers : wk[w].pc = "idle"
  BY DEF At, Idle
<1>3. Locals
  BY <1>1, <1>2 DEF Locals, AtWorker
<1>4. /\ DOMAIN documents = Seeded /\ DOMAIN versions = Seeded /\ queue = {}
      /\ \A d \in Seeded : documents[d] = SeededDocument(d)
      /\ \A v \in Seeded : versions[v] = [NewVersion(v, 1) EXCEPT !.malwareScannedAt = TRUE]
      /\ Seeded \subseteq ReservationIds
  BY StoreAssumption
<1>5. \A v \in Seeded : IsVersion(versions[v]) /\ versions[v].documentId = v
  <2> SUFFICES ASSUME NEW v \in Seeded PROVE IsVersion(versions[v]) /\ versions[v].documentId = v
    OBVIOUS
  <2> DEFINE new == NewVersion(v, 1)
  <2>1. IsVersion(new) /\ new.documentId = v
    BY NewVersions
  <2>2. versions[v] = [new EXCEPT !.malwareScannedAt = TRUE]
    BY <1>4
  <2> HIDE DEF new
  <2> QED
    BY <2>1, <2>2, MarkedVersions
<1>6. Tables
  <2>1. \A d \in Seeded : SeededDocument(d) \in Rows
    BY <1>4 DEF SeededDocument, Rows, States
  <2> QED
    BY <1>4, <1>5, <2>1 DEF Tables
<1>7. \A u \in Uploads : UploadLine(u)
  BY <1>2, AttemptsApart DEF UploadLine, At, Filing, AfterBatch, CreatedIds
<1>8. \A r \in Revisions : RevisionLine(r)
  BY <1>2 DEF RevisionLine, AtRevision, HasReceipt
<1>9. Unborn \cap Seeded = {}
  <2>1. \A u \in Uploads : Coming(u) = 1
    BY <1>2 DEF Coming, Early, At
  <2>2. \A u \in Uploads : Ahead(u) \cap Seeded = {}
    BY <2>1, AttemptsApart DEF Ahead, From
  <2>3. \A r \in Revisions : Revision[r] \notin Seeded
    BY AttemptsApart DEF RevisionIds
  <2> QED
    BY <2>2, <2>3 DEF Unborn
<1>10. InOrder
  BY <1>2, <1>4, <1>7, <1>8, <1>9 DEF InOrder, Unknown, HasReceipt, Holding
<1>11. Pointers
  <2>1. \A v \in Seeded : OfDocument(v, v)
    BY AttemptsApart DEF OfDocument
  <2> QED
    BY <1>2, <1>4, <1>5, <2>1, ZenonT(40) DEF Pointers, HasReceipt, Holding, SeededDocument
<1> QED
  BY <1>3, <1>6, <1>10, <1>11 DEF Basics

\* What is stored, received and in hand is in order in every state.
THEOREM BasicsHold == Spec => []Basics
BY BasicsInit, BasicsStep, PTL DEF Spec
-----------------------------------------------------------------------------
(* The verdicts. *)

\* A version that was there before is as it was, and a new one has no verdict.
Fresh(v) ==
    /\ v \in Unborn /\ v \notin DOMAIN versions \cup Seeded
    /\ ~versions'[v].malwareScannedAt /\ ~versions'[v].malwareSignature
RowsKept == \A v \in DOMAIN versions' : Fresh(v) \/ (v \in DOMAIN versions /\ versions'[v] = versions[v])

LEMMA UploadRows ==
    ASSUME Basics, NEW u \in Uploads, UploadStep(u), UNCHANGED <<av, wk>>
    PROVE  RowsKept
<1>1. CASE InsertDocument(u)
  <2> DEFINE id == Current(u)
             new == NewVersion(id, 1)
  <2>1. id \in Unborn /\ id \notin Seeded
    BY <1>1, UploadUnborn
  <2>2. id \notin DOMAIN versions
    BY <2>1 DEF Basics, InOrder, Unknown
  <2>3. ~new.malwareScannedAt /\ ~new.malwareSignature
    BY NewVersions
  <2>4. versions' = Insert(versions, id, new)
    BY <1>1 DEF InsertDocument, InsertDocumentWithVersion
  <2> HIDE DEF id, new
  <2>5. /\ DOMAIN versions' = DOMAIN versions \cup {id} /\ versions'[id] = new
        /\ \A v \in DOMAIN versions \ {id} : versions'[v] = versions[v]
    BY <2>4 DEF Insert
  <2>6. Fresh(id)
    BY <2>1, <2>2, <2>3, <2>5 DEF Fresh
  <2> QED
    BY <2>5, <2>6 DEF RowsKept
<1>2. CASE DeleteDocument(Current(u))
  BY <1>2 DEF DeleteDocument, Delete, DeleteAll, RowsKept
<1>3. CASE UNCHANGED versions
  BY <1>3 DEF RowsKept
<1> QED
  BY <1>1, <1>2, <1>3, UploadTables DEF Basics

LEMMA RevisionRows ==
    ASSUME Basics, NEW r \in Revisions, RevisionStep(r), UNCHANGED <<up, wk>>
    PROVE  RowsKept
<1>1. CASE InsertRevision(r)
  <2> DEFINE id == Revision[r]
             n == NextVersionNumber(Target[r])
             new == NewVersion(Target[r], n)
  <2>1. id \in Unborn /\ id \notin Seeded
    BY <1>1, RevisionUnborn, AttemptsApart DEF RevisionIds
  <2>2. id \notin DOMAIN versions
    BY <2>1 DEF Basics, InOrder, Unknown
  <2>3. ~new.malwareScannedAt /\ ~new.malwareSignature
    BY NewVersions
  <2>4. versions' = Insert(versions, id, new)
    BY <1>1 DEF InsertRevision, InsertVersion
  <2> HIDE DEF id, new, n
  <2>5. /\ DOMAIN versions' = DOMAIN versions \cup {id} /\ versions'[id] = new
        /\ \A v \in DOMAIN versions \ {id} : versions'[v] = versions[v]
    BY <2>4 DEF Insert
  <2>6. Fresh(id)
    BY <2>1, <2>2, <2>3, <2>5 DEF Fresh
  <2> QED
    BY <2>5, <2>6 DEF RowsKept
<1>2. CASE RollbackVersionInsert(Target[r], Revision[r], av[r].previous)
  BY <1>2 DEF RollbackVersionInsert, storeVars, Delete, DeleteAll, RowsKept
<1>3. CASE UNCHANGED versions
  BY <1>3 DEF RowsKept
<1> QED
  BY <1>1, <1>2, <1>3, RevisionTables DEF Basics

\* What a handler in hand stands for.
Judges(w) ==
    Holding(w) =>
       /\ wk[w].signature => Content[wk[w].version] \in Infected
       /\ AtWorker(w, "markClean") => Content[wk[w].version] \notin Infected
       /\ wk[w].pc \in {"markInfected", "audit", "debit", "deleteBlob", "deleteDocument"} =>
             Content[wk[w].version] \in Infected

LEMMA JudgesKept ==
    ASSUME Basics, Verdicts, NEW w \in Workers, WorkerStep(w)
    PROVE  Judges(w)'
<1>1. wk \in [Workers -> WorkerLocal] /\ Judges(w)
  BY DEF Basics, Locals, Verdicts, Judges
<1>2. ASSUME NEW pc \in WorkerPcs, WorkerTo(w, pc), Holding(w),
             pc \in {"audit", "markInfected"} =>
                wk[w].signature \/ AtWorker(w, "markInfected") \/ Content[wk[w].version] \in Infected,
             pc \in {"debit", "deleteBlob", "deleteDocument"} =>
                wk[w].pc \in {"audit", "debit", "deleteBlob"},
             pc = "markClean" => Content[wk[w].version] \notin Infected
      PROVE  Judges(w)'
  <2>1. /\ wk'[w].pc = pc /\ wk'[w].version = wk[w].version /\ wk'[w].signature = wk[w].signature
    BY <1>1, <1>2 DEF WorkerTo, WorkerLocal
  <2>2. pc \in {"markInfected", "audit", "debit", "deleteBlob", "deleteDocument"} =>
           Content[wk[w].version] \in Infected
    BY <1>1, <1>2 DEF Judges, AtWorker
  <2> QED
    BY <1>1, <1>2, <2>1, <2>2 DEF Judges, AtWorker
<1>3. ASSUME Return(w) PROVE Judges(w)'
  BY <1>1, <1>3 DEF Return, Judges, Holding, Idle
<1>4. CASE Deliver(w)
  <2>1. PICK d \in queue : wk' = [wk EXCEPT ![w] = [Idle EXCEPT !.pc = "load", !.job = d]]
    BY <1>4 DEF Deliver
  <2>2. wk'[w].pc = "load"
    BY <1>1, <2>1 DEF Idle
  <2> QED
    BY <2>2 DEF Judges, Holding
<1>5. CASE Load(w) /\ ~Return(w)
  <2>1. wk'[w].pc \in {"claim", "stage"} /\ Holding(w)'
    BY <1>1, <1>5 DEF Load, Holding
  <2>2. Snapshot(w) \/ HandsOn(w)
    BY <2>1, WorkerKeepsHold
  <2>3. Snapshot(w)
    BY <1>5, <2>2 DEF HandsOn, Load, Holding, AtWorker
  <2>4. wk'[w].version \in DOMAIN versions /\ wk'[w].signature = versions[wk'[w].version].malwareSignature
    BY <2>3 DEF Snapshot, Basics, Pointers
  <2> QED
    BY <2>1, <2>4 DEF Judges, AtWorker, Verdicts
<1>6. CASE Stall(w)
  BY <1>1, <1>6 DEF Stall, Judges, Holding, AtWorker
<1>7. CASE Claim(w) /\ ~Return(w)
  BY <1>2, <1>7 DEF Claim, WorkerPcs, Holding, AtWorker
<1>8. CASE Scan(w) /\ ~Return(w)
  BY <1>2, <1>8 DEF Scan, WorkerPcs, Holding, AtWorker
<1>9. CASE MarkMalwareDetected(w) /\ ~Return(w)
  BY <1>2, <1>9 DEF MarkMalwareDetected, WorkerPcs, Holding, AtWorker
<1>10. CASE AuditMalware(w) \/ DebitQuota(w) \/ DeleteInfectedBlob(w)
  BY <1>2, <1>10 DEF AuditMalware, DebitQuota, DeleteInfectedBlob, WorkerPcs, Holding, AtWorker
<1>11. CASE Return(w)
  BY <1>3, <1>11
<1>12. MarkScanComplete(w) \/ DeleteInfectedDocument(w) \/ WorkerFails(w) => Return(w)
  BY DEF MarkScanComplete, DeleteInfectedDocument, WorkerFails
<1> QED
  BY <1>4, <1>5, <1>6, <1>7, <1>8, <1>9, <1>10, <1>11, <1>12 DEF WorkerStep

\* A version that was scanned clean or found infected is so.
LEMMA VerdictsStep ==
    ASSUME Basics, Verdicts, [Next]_vars
    PROVE  Verdicts'
<1>1. ASSUME RowsKept, UNCHANGED wk PROVE Verdicts'
  <2>1. \A v \in DOMAIN versions' :
           /\ v \notin Seeded /\ versions'[v].malwareScannedAt => Content[v] \notin Infected
           /\ versions'[v].malwareSignature => Content[v] \in Infected
    BY <1>1 DEF RowsKept, Fresh, Verdicts
  <2> QED
    BY <1>1, <2>1 DEF Verdicts, Holding, AtWorker
<1>2. CASE UNCHANGED vars
  BY <1>1, <1>2 DEF vars, storeVars, RowsKept
<1>3. ASSUME NEW u \in Uploads, UploadStep(u), UNCHANGED <<av, wk>> PROVE Verdicts'
  BY <1>1, <1>3, UploadRows
<1>4. ASSUME NEW r \in Revisions, RevisionStep(r), UNCHANGED <<up, wk>> PROVE Verdicts'
  BY <1>1, <1>4, RevisionRows
<1>5. ASSUME NEW w \in Workers, WorkerStep(w), UNCHANGED <<up, av>> PROVE Verdicts'
  <2>1. \A x \in Workers : Judges(x)'
    <3>1. \A x \in Workers \ {w} : wk'[x] = wk[x]
      BY <1>5, WorkerKeepsHold
    <3>2. \A x \in Workers \ {w} : Judges(x)'
      BY <3>1 DEF Verdicts, Judges, Holding, AtWorker
    <3> QED
      BY <1>5, <3>2, JudgesKept
  <2>2. CASE MarkScanComplete(w) \/ MarkMalwareDetected(w)
    <3>1. Judges(w)
      BY DEF Verdicts, Judges
    <3>2. ASSUME NEW x \in DOMAIN versions'
          PROVE  /\ x \notin Seeded /\ versions'[x].malwareScannedAt => Content[x] \notin Infected
                 /\ versions'[x].malwareSignature => Content[x] \in Infected
      <4>1. x \in DOMAIN versions
        BY <2>2, MarkedEvolves
      <4>2. /\ AtWorker(w, "markClean") => Content[wk[w].version] \notin Infected
            /\ AtWorker(w, "markInfected") => Content[wk[w].version] \in Infected
        BY <3>1 DEF Judges, Holding, AtWorker
      <4> QED
        BY <2>2, <4>1, <4>2, MarkedEvolves DEF Verdicts
    <3> QED
      BY <2>1, <3>2 DEF Verdicts, Judges
  <2>3. CASE RowsKept
    <3>1. \A v \in DOMAIN versions' :
             /\ v \notin Seeded /\ versions'[v].malwareScannedAt => Content[v] \notin Infected
             /\ versions'[v].malwareSignature => Content[v] \in Infected
      BY <2>3 DEF RowsKept, Fresh, Verdicts
    <3> QED
      BY <2>1, <3>1 DEF Verdicts, Judges
  <2>4. UNCHANGED versions \/ DeleteDocument(wk[w].job) => RowsKept
    BY DEF RowsKept, DeleteDocument, Delete, DeleteAll
  <2> QED
    BY <1>5, <2>2, <2>3, <2>4, WorkerTables DEF Claim, DeleteInfectedDocument
<1>6. ASSUME (\E u \in Uploads : UploadsOn(u)) \/ (\E r \in Revisions : RevisionsOn(r))
      PROVE  Verdicts'
  BY <1>1, <1>6 DEF UploadsOn, RevisionsOn, storeVars, RowsKept
<1> QED
  BY <1>2, <1>3, <1>4, <1>5, <1>6, IgnoredGoesOn
     DEF Next, UploadsAct, RevisionsAct, WorkersAct, UploadNext, AddVersionNext, WorkerNext

LEMMA VerdictsInit == Init => Verdicts
<1> SUFFICES ASSUME Init PROVE Verdicts
  OBVIOUS
<1> USE DEF Init, StoreInit, WorkerInit
<1>1. DOMAIN versions = Seeded /\ \A w \in Workers : wk[w].pc = "idle"
  BY DEF Idle
<1>2. ASSUME NEW v \in Seeded PROVE versions[v].malwareSignature = FALSE
  <2> DEFINE new == NewVersion(v, 1)
  <2>1. IsVersion(new) /\ new.malwareSignature = FALSE
    BY NewVersions DEF NewVersion
  <2>2. versions[v] = [new EXCEPT !.malwareScannedAt = TRUE]
    OBVIOUS
  <2>3. [new EXCEPT !.malwareScannedAt = TRUE].malwareSignature = new.malwareSignature
    BY DEF NewVersion
  <2> HIDE DEF new
  <2> QED
    BY <2>1, <2>2, <2>3
<1> QED
  BY <1>1, <1>2 DEF Verdicts, Holding

\* A version on record as clean is clean and one on record as infected is, for
\* every mix of requests, workers, repeats and faults: a verdict is put on the
\* version whose content was read, and on no other that is current meanwhile.
THEOREM VerdictsAreTrueHolds == Spec => []VerdictsAreTrue
<1>1. Verdicts => VerdictsAreTrue
  BY DEF Verdicts, VerdictsAreTrue
<1>2. Init => Basics /\ Verdicts
  BY BasicsInit, VerdictsInit
<1>3. Basics /\ Verdicts /\ [Next]_vars => (Basics /\ Verdicts)'
  BY BasicsStep, VerdictsStep
<1> QED
  BY <1>1, <1>2, <1>3, PTL DEF Spec
-----------------------------------------------------------------------------
(* The order of the cleanup. *)

\* What no step takes back: events, reversals, and the loss of an event; and no
\* step writes a blob but for an attempt whose version is yet to come.
Onward ==
    /\ audit \subseteq audit' /\ reversals \subseteq reversals'
    /\ \A b \in blobs' : b \in blobs \/ b \in Unborn
    /\ NeverThrew({"audit"})' => NeverThrew({"audit"})

LEMMA AuditNeverThrew ==
    ASSUME faults \in [FaultPoints -> Nat], \A p \in FaultPoints : faults'[p] >= faults[p] /\ faults'[p] \in Nat,
           NeverThrew({"audit"})'
    PROVE  NeverThrew({"audit"})
<1> SUFFICES ASSUME NEW p \in {"audit"} \cap FaultPoints PROVE faults[p] = 0
  BY DEF NeverThrew
<1>1. faults'[p] = 0 /\ faults'[p] >= faults[p] /\ faults[p] \in Nat
  BY DEF NeverThrew
<1> QED
  BY <1>1

LEMMA UploadOnward ==
    ASSUME Basics, NEW u \in Uploads, UploadStep(u)
    PROVE  Onward /\ UNCHANGED reversals
<1> USE DEF Onward
<1>1. Locals /\ UploadLine(u) /\ faults \in [FaultPoints -> Nat]
  BY DEF Basics, InOrder, Tables
<1>2. \A p \in FaultPoints : faults'[p] >= faults[p] /\ faults'[p] \in Nat
  <2>1. (\E point \in FaultPoints : Throws(point)) \/ UNCHANGED faults
    BY DEF UploadStep, Begin, Reserve, Refuse, Put, PutThrows, SessionValid, SessionExpired,
       InsertDocument, InsertDuplicate, Commit, CommitThrows, CallThrows, Settle, Settled,
       RollbackBatch, Emit, EnqueueDocument, AuditUpload, Record, Throws
  <2> QED
    BY <1>1, <2>1, FaultsCounted
<1>3. NeverThrew({"audit"})' => NeverThrew({"audit"})
  BY <1>1, <1>2, AuditNeverThrew
<1>4. CASE \E call \in up[u].todo : Settle(u, call)
  <2>1. PICK call \in up[u].todo : Settle(u, call)
    BY <1>4
  <2>2. call \in UploadCalls
    BY <1>1, UploadFields DEF Locals
  <2>3. Compensate(Current(u), call) \/ UNCHANGED <<ledgerVars, storeVars>>
    BY <2>1 DEF Settle
  <2>4. UNCHANGED reversals /\ audit' = audit /\ blobs' \subseteq blobs
    BY <2>2, <2>3 DEF Compensate, UploadCalls, DeleteBlob, DeleteDocument, storeVars, ledgerVars,
       ReleaseReservation, RevertCommitReservation
  <2> QED
    BY <1>3, <2>4
<1>5. CASE Put(u) \/ PutThrows(u)
  <2>1. UNCHANGED reversals /\ audit' = audit /\ blobs' \subseteq blobs \cup {Current(u)}
        /\ up[u].pc = "put"
    BY <1>5 DEF Put, PutThrows, PutBlob, storeVars, ledgerVars, At
  <2>2. Current(u) \in Ahead(u)
    BY <1>1, <2>1, InHand DEF Locals, Filing
  <2> QED
    BY <1>3, <2>1, <2>2 DEF Unborn
<1>6. CASE \/ Begin(u) \/ Reserve(u) \/ Refuse(u) \/ SessionValid(u) \/ SessionExpired(u)
           \/ InsertDocument(u) \/ InsertDuplicate(u) \/ Commit(u) \/ CommitThrows(u)
           \/ CallThrows(u) \/ Settled(u) \/ RollbackBatch(u) \/ Emit(u) \/ EnqueueDocument(u)
           \/ AuditUpload(u)
  <2>1. UNCHANGED reversals /\ audit \subseteq audit' /\ blobs' = blobs
    BY <1>6 DEF Begin, Reserve, Refuse, SessionValid, SessionExpired, InsertDocument,
       InsertDuplicate, Commit, CommitThrows, CallThrows, Settled, RollbackBatch, Emit,
       EnqueueDocument, AuditUpload, Record, Enqueue, InsertDocumentWithVersion, TryReserve,
       CommitReservation, storeVars, ledgerVars
  <2> QED
    BY <1>3, <2>1
<1> QED
  BY <1>4, <1>5, <1>6 DEF UploadStep

LEMMA RevisionOnward ==
    ASSUME Basics, NEW r \in Revisions, RevisionStep(r)
    PROVE  Onward /\ UNCHANGED reversals
<1> USE DEF Onward
<1>1. Locals /\ RevisionLine(r) /\ faults \in [FaultPoints -> Nat]
  BY DEF Basics, InOrder, Tables
<1>2. \A p \in FaultPoints : faults'[p] >= faults[p] /\ faults'[p] \in Nat
  <2>1. (\E point \in FaultPoints : Throws(point)) \/ UNCHANGED faults
    BY DEF RevisionStep, Precheck, ReserveRevision, RefuseRevision, PutRevision,
       PutRevisionThrows, InsertRevision, InsertRevisionRefused, InsertRevisionThrows,
       CommitRevision, CommitRevisionThrows, RevisionCallThrows, SettleRevision,
       EnqueueRevision, AuditRevision, Record, Throws
  <2> QED
    BY <1>1, <2>1, FaultsCounted
<1>3. NeverThrew({"audit"})' => NeverThrew({"audit"})
  BY <1>1, <1>2, AuditNeverThrew
<1>4. CASE \E call \in av[r].todo : SettleRevision(r, call)
  <2>1. PICK call \in av[r].todo : SettleRevision(r, call)
    BY <1>4
  <2>2. call \in RevisionCalls
    BY <1>1, RevisionFields DEF Locals
  <2>3. CompensateRevision(r, call) \/ UNCHANGED <<ledgerVars, storeVars>>
    BY <2>1 DEF SettleRevision
  <2>4. UNCHANGED reversals /\ audit' = audit /\ blobs' \subseteq blobs
    BY <2>2, <2>3 DEF CompensateRevision, RevisionCalls, DeleteBlob, RollbackVersionInsert, storeVars,
       ledgerVars, ReleaseReservation
  <2> QED
    BY <1>3, <2>4
<1>5. CASE PutRevision(r) \/ PutRevisionThrows(r)
  <2>1. UNCHANGED reversals /\ audit' = audit /\ blobs' \subseteq blobs \cup {Revision[r]}
        /\ Pending(r)
    BY <1>5 DEF PutRevision, PutRevisionThrows, PutBlob, storeVars, ledgerVars, AtRevision, Pending
  <2> QED
    BY <1>3, <2>1 DEF Unborn
<1>6. CASE \/ Precheck(r) \/ ReserveRevision(r) \/ RefuseRevision(r) \/ InsertRevision(r)
           \/ InsertRevisionRefused(r) \/ InsertRevisionThrows(r) \/ CommitRevision(r)
           \/ CommitRevisionThrows(r) \/ RevisionCallThrows(r) \/ EnqueueRevision(r)
           \/ AuditRevision(r)
  <2>1. UNCHANGED reversals /\ audit \subseteq audit' /\ blobs' = blobs
    BY <1>6 DEF Precheck, ReserveRevision, RefuseRevision, InsertRevision, InsertRevisionRefused,
       InsertRevisionThrows, CommitRevision, CommitRevisionThrows, RevisionCallThrows,
       EnqueueRevision, AuditRevision, Record, Enqueue, InsertVersion, TryReserve,
       CommitReservation, storeVars, ledgerVars
  <2> QED
    BY <1>3, <2>1
<1> QED
  BY <1>4, <1>5, <1>6 DEF RevisionStep

LEMMA WorkerOnward ==
    ASSUME Basics, NEW w \in Workers, WorkerStep(w)
    PROVE  /\ Onward /\ blobs' \subseteq blobs
           /\ \A t, d : <<t, d>> \in reversals' =>
                 <<t, d>> \in reversals \/ (DebitQuota(w) /\ t = tenant /\ d = wk[w].job)
<1> USE DEF Onward
<1>1. faults \in [FaultPoints -> Nat]
  BY DEF Basics, Tables
<1>2. \A p \in FaultPoints : faults'[p] >= faults[p] /\ faults'[p] \in Nat
  <2>1. (\E point \in FaultPoints : Throws(point)) \/ UNCHANGED faults
    BY DEF WorkerStep, Deliver, Load, Claim, Scan, MarkScanComplete, MarkMalwareDetected,
       AuditMalware, DebitQuota, DeleteInfectedBlob, DeleteInfectedDocument, WorkerFails, Stall,
       Record, Throws
  <2> QED
    BY <1>1, <2>1, FaultsCounted
<1>3. NeverThrew({"audit"})' => NeverThrew({"audit"})
  BY <1>1, <1>2, AuditNeverThrew
<1>4. CASE DebitQuota(w)
  BY <1>3, <1>4 DEF DebitQuota, RevertCommittedDocumentQuota, storeVars, ledgerVars
<1>5. CASE \/ Deliver(w) \/ Load(w) \/ Claim(w) \/ Scan(w) \/ MarkScanComplete(w)
           \/ MarkMalwareDetected(w) \/ AuditMalware(w) \/ DeleteInfectedBlob(w)
           \/ DeleteInfectedDocument(w) \/ WorkerFails(w) \/ Stall(w)
  <2>1. UNCHANGED reversals /\ audit \subseteq audit' /\ blobs' \subseteq blobs
    BY <1>5 DEF Deliver, Load, Claim, Scan, MarkScanComplete, MarkMalwareDetected,
       AuditMalware, DeleteInfectedBlob, DeleteInfectedDocument, WorkerFails, Stall,
       Record, Enqueue, DeleteBlob, DeleteDocument, storeVars, ledgerVars
  <2> QED
    BY <1>3, <2>1
<1> QED
  BY <1>4, <1>5 DEF WorkerStep

\* An event that was recorded or lost, and a cleanup that was done, stay so.
LEMMA RecordedStays == ASSUME Onward, NEW d, Recorded(d) PROVE Recorded(d)'
BY DEF Onward, Recorded

LEMMA PurgedStays == ASSUME Onward, NEW d, d \notin Unborn, Purged(d) PROVE Purged(d)'
BY DEF Onward, Purged, AlreadyReversed

\* The accepted files of a request, and the one being committed.
Taken(u) == CreatedIds(u) \cup (IF At(u, "commit") THEN {Current(u)} ELSE {})

\* They are files of that request, and their versions have been inserted.
LEMMA TakenAreFiled ==
    ASSUME Basics, NEW u \in Uploads, NEW d \in Taken(u)
    PROVE  /\ d \in ReservationIds \ (Seeded \cup RevisionIds) /\ d \notin Unborn
           /\ \E k \in 1 .. Len(Files[u]) : d = Files[u][k]
<1>1. up \in [Uploads -> UploadLocal] /\ UploadLine(u)
  BY DEF Basics, Locals, InOrder
<1>2. Len(up[u].results) \in Nat /\ Len(Files[u]) \in Nat /\ Len(up[u].results) <= Len(Files[u])
  BY <1>1, UploadFields, AttemptsApart DEF UploadLine
<1>3. d \notin Ahead(u) /\ \E k \in 1 .. Len(Files[u]) : d = Files[u][k]
  <2>1. CASE At(u, "commit") /\ d = Current(u)
    BY <1>1, <2>1, InHand DEF At, Filing
  <2>2. CASE d \in CreatedIds(u)
    <3>1. PICK j \in 1 .. Len(up[u].results) + 1 - 1 : d = Files[u][j]
      BY <1>1, <2>2 DEF UploadLine, Before
    <3>2. j \in 1 .. Len(up[u].results) /\ j \in 1 .. Len(Files[u])
      BY <1>2, <3>1
    <3>3. \A k \in 1 .. Len(Files[u]) : Files[u][k] = d => k = j
      BY <3>1, <3>2, AttemptsApart
    <3>4. Coming(u) >= Len(up[u].results) + 1 /\ Coming(u) \in Nat
      BY <1>2 DEF Coming
    <3>5. d \notin Ahead(u)
      BY <1>2, <3>2, <3>3, <3>4 DEF Ahead, From
    <3> QED
      BY <3>1, <3>2, <3>5
  <2> QED
    BY <2>1, <2>2 DEF Taken
<1>4. d \in ReservationIds \ (Seeded \cup RevisionIds)
  BY <1>3, AttemptsApart
<1>5. ASSUME NEW w \in Uploads \ {u} PROVE d \notin Ahead(w)
  <2>1. Coming(w) \in Nat \ {0}
    BY UploadFields DEF Coming, Basics, Locals
  <2>2. \A k \in 1 .. Len(Files[w]) : Files[w][k] # d
    BY <1>3, AttemptsApart
  <2> QED
    BY <2>1, <2>2, AttemptsApart DEF Ahead, From
<1>6. \A r \in Revisions : Revision[r] # d
  BY <1>4 DEF RevisionIds
<1> QED
  BY <1>3, <1>4, <1>5, <1>6 DEF Unborn

\* A worker that cleans up has the document's first version in hand.
CleanRevisions == \A r \in Revisions : Content[Revision[r]] \notin Infected

LEMMA CleansFirstVersion ==
    ASSUME CleanRevisions, Basics, Verdicts, NEW w \in Workers,
           wk[w].pc \in {"audit", "debit", "deleteBlob", "deleteDocument"}
    PROVE  wk[w].version = wk[w].job /\ wk[w].job \notin Unborn
<1>1. Holding(w) /\ Content[wk[w].version] \in Infected
  BY DEF Verdicts, Holding
<1>2. wk[w].version = wk[w].job
  BY <1>1 DEF Basics, Pointers, OfDocument, RevisionIds, CleanRevisions
<1>3. wk[w].version \notin Unborn
  BY <1>1 DEF Basics, InOrder, Unknown
<1> QED
  BY <1>2, <1>3

\* The documents of the files taken, as a step of others leaves them.
LEMMA CleanupOfOthers ==
    ASSUME CleanRevisions, Basics, Verdicts, Cleanup, Onward, UNCHANGED <<wk, reversals>>
    PROVE  /\ \A d \in ReservationIds : AlreadyReversed(tenant, d)' => Recorded(d)'
           /\ \A w \in Workers : Ordered(w)'
<1>1. ASSUME NEW d \in ReservationIds, AlreadyReversed(tenant, d)' PROVE Recorded(d)'
  BY <1>1, RecordedStays DEF Cleanup, AlreadyReversed
<1>2. ASSUME NEW w \in Workers PROVE Ordered(w)'
  <2> DEFINE d == wk[w].job
  <2>1. Ordered(w) /\ wk'[w] = wk[w]
    BY DEF Cleanup
  <2>2. Recorded(d) => Recorded(d)'
    BY RecordedStays
  <2>3. AlreadyReversed(tenant, d) => AlreadyReversed(tenant, d)'
    BY DEF AlreadyReversed
  <2>4. AtWorker(w, "deleteDocument") /\ Purged(d) => Purged(d)'
    BY PurgedStays, CleansFirstVersion DEF AtWorker
  <2> QED
    BY <2>1, <2>2, <2>3, <2>4 DEF Ordered, AtWorker, Recorded, Purged, AlreadyReversed
<1> QED
  BY <1>1, <1>2

\* A compensating deletion is of a file of its own request.
LEMMA UndoesOwnFile ==
    ASSUME Locals, NEW u \in Uploads, UploadLine(u), up[u].todo # {}
    PROVE  \E k \in 1 .. Len(Files[u]) : Current(u) = Files[u][k]
<1>1. up \in [Uploads -> UploadLocal] /\ up[u].pc \in {"undo", "undoAccepted"}
  BY DEF Locals, UploadLine
<1>2. CASE up[u].pc = "undo"
  BY <1>1, <1>2, InHand DEF Filing
<1>3. CASE up[u].pc = "undoAccepted"
  <2>1. Current(u) = up[u].created[up[u].i] /\ up[u].i \in DOMAIN up[u].created
    BY <1>1, <1>3, UploadFields DEF Current, UploadLine, AfterBatch
  <2>2. Current(u) \in Before(u, Len(up[u].results) + 1)
    BY <2>1 DEF UploadLine, CreatedIds
  <2> QED
    BY <1>1, <2>2, UploadFields, AttemptsApart DEF Before, UploadLine
<1> QED
  BY <1>1, <1>2, <1>3

\* A request that rolls its batch back does nothing else any more.
LEMMA RollingLasts ==
    ASSUME Locals, NEW u \in Uploads, UploadLine(u), UploadStep(u), up[u].pc \in Rolling
    PROVE  up'[u].pc \in Rolling
<1>1. up \in [Uploads -> UploadLocal]
  BY DEF Locals
<1>2. ASSUME NEW pc \in UploadPcs, HopsTo(u, pc) PROVE up'[u].pc \in Rolling
  BY <1>1, <1>2 DEF HopsTo, Hops, Rolling, Goto, UploadLocal
<1>3. ASSUME NEW calls, NEW after, GivesUp(u, calls, after) PROVE FALSE
  BY <1>3 DEF GivesUp, Filing, Rolling
<1>4. ASSUME TakesBack(u) PROVE up'[u].pc \in Rolling
  BY <1>1, <1>4 DEF TakesBack, Undo, Rolling, UploadLocal
<1>5. ASSUME NEW call, Settling(u, call) PROVE up'[u].pc \in Rolling
  BY <1>1, <1>5 DEF Settling, UploadLocal
<1>6. ASSUME NEW result, Concludes(u, result) PROVE FALSE
  BY <1>6 DEF Concludes, Rolling
<1>7. ASSUME NEW i, RollsFrom(u, i) PROVE up'[u].pc \in Rolling
  BY <1>1, <1>7 DEF RollsFrom, Rolling, UploadLocal
<1>8. ~Emitted(u)
  BY DEF Emitted, At, Rolling
<1> QED
  BY <1>2, <1>3, <1>4, <1>5, <1>6, <1>7, <1>8, UploadMoves

\* A request comes to commit by its insert.
LEMMA CommitFollowsInsert ==
    ASSUME Locals, NEW u \in Uploads, UploadLine(u), UploadStep(u), At(u, "commit")'
    PROVE  InsertDocument(u)
<1>1. up \in [Uploads -> UploadLocal] /\ up'[u].pc = "commit"
  BY DEF Locals, At
<1>2. CASE \/ Begin(u) \/ Reserve(u) \/ Put(u) \/ PutThrows(u) \/ SessionValid(u) \/ SessionExpired(u)
           \/ InsertDuplicate(u) \/ CommitThrows(u) \/ CallThrows(u) \/ RollbackBatch(u) \/ Emit(u)
           \/ EnqueueDocument(u) \/ AuditUpload(u)
  BY <1>1, <1>2 DEF Begin, Reserve, Put, PutThrows, SessionValid, SessionExpired, InsertDuplicate,
     CommitThrows, CallThrows, RollbackBatch, Emit, EnqueueDocument, AuditUpload, Goto, Undo, UploadLocal
<1>3. CASE Refuse(u) \/ Commit(u)
  BY <1>1, <1>3 DEF Refuse, Commit, Outcome, UploadLocal
<1>4. CASE \E call \in up[u].todo : Settle(u, call)
  <2>1. up'[u].pc = up[u].pc /\ up[u].todo # {}
    BY <1>1, <1>4 DEF Settle, UploadLocal
  <2> QED
    BY <1>1, <2>1 DEF UploadLine
<1>5. CASE Settled(u)
  <2>1. up[u].after \in {"threw", "rollback", "duplicate", "next"}
    BY <1>5 DEF Settled, UploadLine, At
  <2> QED
    BY <1>1, <1>5, <2>1 DEF Settled, Outcome, Goto, UploadLocal
<1> QED
  BY <1>2, <1>3, <1>4, <1>5 DEF UploadStep

\* A document whose row goes in a step is one an upload takes back, or one that
\* was purged.
LEMMA UploadCleanup ==
    ASSUME CleanRevisions, Basics, Verdicts, Cleanup,
           NEW u \in Uploads, UploadStep(u), UNCHANGED <<av, wk>>
    PROVE  Cleanup'
<1>1. up \in [Uploads -> UploadLocal] /\ UploadLine(u) /\ Locals
  BY DEF Basics, Locals, InOrder
<1>2. Onward /\ UNCHANGED reversals
  BY UploadOnward
<1>3. /\ \A w \in Uploads \ {u} : up'[w] = up[w]
      /\ CreatedIds(u)' \subseteq Taken(u)
  BY <1>1, UploadKeepsLine DEF Taken
<1>4. ASSUME NEW w \in Uploads, w # u, NEW d \in Taken(w), d \in DOMAIN documents \/ Purged(d)
      PROVE  d \in DOMAIN documents' \/ Purged(d)'
  <2>1. d \notin Unborn /\ \E k \in 1 .. Len(Files[w]) : d = Files[w][k]
    BY TakenAreFiled
  <2>2. CASE Purged(d)
    BY <1>2, <2>1, <2>2, PurgedStays
  <2>3. CASE d \in DOMAIN documents
    <3>1. "deleteDocument" \in up[u].todo => d # Current(u)
      <4>1. SUFFICES ASSUME "deleteDocument" \in up[u].todo PROVE d # Current(u)
        OBVIOUS
      <4>2. \E k \in 1 .. Len(Files[u]) : Current(u) = Files[u][k]
        BY <1>1, <4>1, UndoesOwnFile
      <4> QED
        BY <1>4, <2>1, <4>2, AttemptsApart
    <3>2. CASE InsertDocument(u)
      BY <2>3, <3>2 DEF InsertDocument, InsertDocumentWithVersion, Insert
    <3>3. CASE "deleteDocument" \in up[u].todo /\ DeleteDocument(Current(u))
      BY <2>3, <3>1, <3>3 DEF DeleteDocument, Delete, DeleteAll
    <3> QED
      BY <1>1, <2>3, <3>2, <3>3, UploadTables
  <2> QED
    BY <1>4, <2>2, <2>3
<1>5. ASSUME up'[u].pc \notin Rolling, NEW d \in Taken(u)' PROVE d \in DOMAIN documents' \/ Purged(d)'
  <2>1. up[u].pc \notin Rolling
    BY <1>1, <1>5, RollingLasts
  <2>2. CASE d \in Taken(u) /\ d \in DOMAIN documents'
    BY <2>2
  <2>3. CASE d \in Taken(u) /\ Purged(d)
    BY <1>2, <2>3, PurgedStays, TakenAreFiled
  <2>4. CASE d \in Taken(u) /\ d \in DOMAIN documents /\ d \notin DOMAIN documents'
    <3>1. "deleteDocument" \in up[u].todo /\ d = Current(u)
      BY <1>1, <2>4, UploadTables DEF InsertDocument, InsertDocumentWithVersion, Insert,
         DeleteDocument, Delete, DeleteAll
    <3>2. At(u, "undo")
      BY <1>1, <2>1, <3>1 DEF UploadLine, Rolling, At
    <3>3. Current(u) \notin CreatedIds(u) /\ ~At(u, "commit")
      BY <1>1, <3>2, InHand DEF At, Filing
    <3> QED
      BY <2>4, <3>1, <3>3 DEF Taken
  <2>5. CASE d \notin Taken(u)
    <3>1. At(u, "commit")' /\ d = Current(u)'
      BY <1>3, <1>5, <2>5 DEF Taken
    <3>2. InsertDocument(u)
      BY <1>1, <3>1, CommitFollowsInsert
    <3>3. Current(u)' = Current(u) /\ Current(u) \in DOMAIN documents'
      BY <1>1, <3>2 DEF InsertDocument, InsertDocumentWithVersion, Insert, Goto, Current, At, UploadLocal
    <3> QED
      BY <3>1, <3>3
  <2>6. d \in Taken(u) => d \in DOMAIN documents \/ Purged(d)
    BY <2>1 DEF Cleanup, Taken
  <2> QED
    BY <2>2, <2>3, <2>4, <2>5, <2>6
<1>6. ASSUME NEW w \in Uploads, up'[w].pc \notin Rolling, NEW d \in Taken(w)'
      PROVE  d \in DOMAIN documents' \/ Purged(d)'
  <2>1. CASE w = u
    BY <1>5, <1>6, <2>1
  <2>2. CASE w # u
    <3>1. up'[w] = up[w]
      BY <1>3, <2>2
    <3>2. Taken(w)' = Taken(w)
      BY <3>1 DEF Taken, CreatedIds, At, Current
    <3> QED
      BY <1>4, <1>6, <2>2, <3>1, <3>2 DEF Cleanup, Taken
  <2> QED
    BY <2>1, <2>2
<1>7. UNCHANGED <<wk, reversals>>
  BY <1>2
<1> QED
  BY <1>2, <1>6, <1>7, CleanupOfOthers DEF Cleanup, Taken

LEMMA RevisionCleanup ==
    ASSUME CleanRevisions, Basics, Verdicts, Cleanup,
           NEW r \in Revisions, RevisionStep(r), UNCHANGED <<up, wk>>
    PROVE  Cleanup'
<1>1. Onward /\ UNCHANGED reversals
  BY RevisionOnward
<1>2. DOMAIN documents' = DOMAIN documents
  BY RevisionTables DEF Basics, InsertRevision, InsertVersion, RollbackVersionInsert, storeVars
<1>3. ASSUME NEW u \in Uploads, up'[u].pc \notin Rolling, NEW d \in Taken(u)'
      PROVE  d \in DOMAIN documents' \/ Purged(d)'
  <2>1. d \in Taken(u) /\ up[u].pc \notin Rolling
    BY <1>3 DEF Taken, CreatedIds, At, Current
  <2>2. d \in DOMAIN documents \/ Purged(d)
    BY <2>1 DEF Cleanup, Taken
  <2> QED
    BY <1>1, <1>2, <2>1, <2>2, PurgedStays, TakenAreFiled
<1> QED
  BY <1>1, <1>3, CleanupOfOthers DEF Cleanup, Taken

\* The step of a worker that has a call of the cleanup behind it.
LEMMA WorkerCleanup ==
    ASSUME CleanRevisions, Basics, Verdicts, Cleanup,
           NEW w \in Workers, WorkerStep(w), UNCHANGED <<up, av>>
    PROVE  Cleanup'
<1>1. /\ wk \in [Workers -> WorkerLocal] /\ \A x \in Workers \ {w} : wk'[x] = wk[x]
      /\ faults \in [FaultPoints -> Nat]
  BY WorkerKeepsHold DEF Basics, Locals, Tables
<1>2. /\ Onward /\ blobs' \subseteq blobs
      /\ \A d : AlreadyReversed(tenant, d)' => AlreadyReversed(tenant, d) \/ (DebitQuota(w) /\ d = wk[w].job)
  BY WorkerOnward DEF AlreadyReversed
<1>3. ASSUME NEW d \in ReservationIds, AlreadyReversed(tenant, d)' PROVE Recorded(d)'
  <2>1. Recorded(d)
    BY <1>2, <1>3 DEF Cleanup, Ordered, DebitQuota, AtWorker
  <2> QED
    BY <1>2, <2>1, RecordedStays
<1>4. ASSUME NEW x \in Workers
      PROVE  /\ /\ wk[x].pc \in {"debit", "deleteBlob", "deleteDocument"}
                /\ NeverThrew({"audit"})'
                => <<"malware.detected", wk[x].job>> \in audit'
             /\ wk[x].pc \in {"deleteBlob", "deleteDocument"} => <<tenant, wk[x].job>> \in reversals'
             /\ wk[x].pc = "deleteDocument" => wk[x].job \notin blobs'
  <2>1. Ordered(x)
    BY DEF Cleanup
  <2> QED
    BY <1>2, <2>1 DEF Ordered, Recorded, AlreadyReversed, Purged, AtWorker, Onward
<1>5. ASSUME NEW x \in Workers, wk'[x] = wk[x] PROVE Ordered(x)'
  BY <1>4, <1>5 DEF Ordered, AtWorker, Recorded, AlreadyReversed, Purged
<1>6. ASSUME wk'[w].pc \notin {"debit", "deleteBlob", "deleteDocument"} PROVE Ordered(w)'
  BY <1>6 DEF Ordered, AtWorker
<1> DEFINE job == wk[w].job
<1>7. ASSUME AuditMalware(w) PROVE Ordered(w)'
  <2>1. wk'[w].pc = "debit" /\ wk'[w].job = job
    BY <1>1, <1>7 DEF AuditMalware, WorkerTo, WorkerLocal
  <2>2. NeverThrew({"audit"})' => <<"malware.detected", job>> \in audit'
    <3>1. CASE audit' = audit \cup {<<"malware.detected", job>>}
      BY <3>1
    <3>2. CASE Throws("audit")
      <4>1. "audit" \in FaultPoints /\ faults'["audit"] = faults["audit"] + 1 /\ faults["audit"] \in Nat
        BY <1>1, <3>2 DEF Throws
      <4> QED
        BY <4>1 DEF NeverThrew
    <3> QED
      BY <1>7, <3>1, <3>2 DEF AuditMalware, Record
  <2> QED
    BY <2>1, <2>2 DEF Ordered, Recorded, AtWorker
<1>8. ASSUME DebitQuota(w) PROVE Ordered(w)'
  <2>1. wk'[w].pc = "deleteBlob" /\ wk'[w].job = job /\ wk[w].pc = "debit"
    BY <1>1, <1>8 DEF DebitQuota, WorkerTo, WorkerLocal, AtWorker
  <2>2. <<tenant, job>> \in reversals'
    BY <1>8 DEF DebitQuota, RevertCommittedDocumentQuota, AlreadyReversed, ledgerVars
  <2>3. NeverThrew({"audit"})' => <<"malware.detected", job>> \in audit'
    BY <1>4, <2>1
  <2> QED
    BY <2>1, <2>2, <2>3 DEF Ordered, AtWorker, AlreadyReversed, Recorded
<1>9. ASSUME DeleteInfectedBlob(w) PROVE Ordered(w)'
  <2>1. wk'[w].pc = "deleteDocument" /\ wk'[w].job = job /\ wk[w].pc = "deleteBlob"
    BY <1>1, <1>9 DEF DeleteInfectedBlob, WorkerTo, WorkerLocal, AtWorker
  <2>2. wk[w].version = job
    BY <2>1, CleansFirstVersion
  <2>3. job \notin blobs'
    BY <1>9, <2>2 DEF DeleteInfectedBlob, DeleteBlob
  <2>4. /\ <<tenant, job>> \in reversals'
        /\ NeverThrew({"audit"})' => <<"malware.detected", job>> \in audit'
    BY <1>4, <2>1
  <2> QED
    BY <2>1, <2>3, <2>4 DEF Ordered, AtWorker, AlreadyReversed, Recorded, Purged
<1>10. ASSUME Return(w) PROVE Ordered(w)'
  BY <1>1, <1>6, <1>10 DEF Return, Idle
<1>11. ASSUME Deliver(w) PROVE Ordered(w)'
  <2>1. PICK d \in queue : wk' = [wk EXCEPT ![w] = [Idle EXCEPT !.pc = "load", !.job = d]]
    BY <1>11 DEF Deliver
  <2>2. wk'[w].pc = "load"
    BY <1>1, <2>1 DEF Idle
  <2> QED
    BY <1>6, <2>2
<1>12. ASSUME Load(w), ~Return(w) PROVE Ordered(w)'
  <2>1. wk'[w].pc \in {"claim", "stage"}
    BY <1>1, <1>12 DEF Load
  <2> QED
    BY <1>6, <2>1
<1>13. ASSUME Claim(w) \/ Scan(w) \/ MarkMalwareDetected(w), ~Return(w) PROVE Ordered(w)'
  <2>1. \E pc \in {"stage", "markClean", "markInfected", "audit"} : WorkerTo(w, pc)
    BY <1>13 DEF Claim, Scan, MarkMalwareDetected
  <2>2. wk'[w].pc \in {"stage", "markClean", "markInfected", "audit"}
    BY <1>1, <2>1 DEF WorkerTo, WorkerLocal
  <2> QED
    BY <1>6, <2>2
<1>14. ASSUME Stall(w) PROVE Ordered(w)'
  BY <1>5, <1>14 DEF Stall
<1>15. MarkScanComplete(w) \/ DeleteInfectedDocument(w) \/ WorkerFails(w) => Return(w)
  BY DEF MarkScanComplete, DeleteInfectedDocument, WorkerFails
<1>16. Ordered(w)'
  BY <1>7, <1>8, <1>9, <1>10, <1>11, <1>12, <1>13, <1>14, <1>15 DEF WorkerStep
<1>17. \A x \in Workers : Ordered(x)'
  BY <1>1, <1>5, <1>16
<1>18. ASSUME NEW u \in Uploads, up'[u].pc \notin Rolling, NEW d \in Taken(u)'
       PROVE  d \in DOMAIN documents' \/ Purged(d)'
  <2>1. d \in Taken(u) /\ up[u].pc \notin Rolling
    BY <1>18 DEF Taken, CreatedIds, At, Current
  <2>2. d \in DOMAIN documents \/ Purged(d)
    BY <2>1 DEF Cleanup, Taken
  <2>3. Purged(d) => Purged(d)'
    BY <1>2, <2>1, PurgedStays, TakenAreFiled
  <2>4. CASE DeleteInfectedDocument(w)
    <3>1. Purged(wk[w].job) /\ DOMAIN documents' = DOMAIN documents \ {wk[w].job}
      BY <2>4 DEF Cleanup, Ordered, DeleteInfectedDocument, DeleteDocument, Delete, DeleteAll
    <3> QED
      BY <2>2, <2>3, <3>1
  <2>5. CASE Claim(w) \/ MarkScanComplete(w) \/ MarkMalwareDetected(w) \/ UNCHANGED documents
    <3>1. DOMAIN documents' = DOMAIN documents
      BY <2>5 DEF Claim, MarkScanComplete, MarkMalwareDetected
    <3> QED
      BY <2>2, <2>3, <3>1
  <2> QED
    BY <2>4, <2>5, WorkerTables
<1> QED
  BY <1>3, <1>17, <1>18 DEF Cleanup, Taken

LEMMA CleanupStep ==
    ASSUME CleanRevisions, Basics, Verdicts, Cleanup, [Next]_vars
    PROVE  Cleanup'
<1>1. CASE UNCHANGED vars
  BY <1>1 DEF vars, ledgerVars, storeVars, Cleanup, Ordered, Recorded, Purged, AlreadyReversed,
     NeverThrew, CreatedIds, Current, At, AtWorker
<1>2. ASSUME (\E u \in Uploads : UploadsOn(u)) \/ (\E r \in Revisions : RevisionsOn(r))
      PROVE  Cleanup'
  <2>1. UNCHANGED <<reversals, audit, faults, documents, blobs, wk>>
    BY <1>2 DEF UploadsOn, RevisionsOn, ledgerVars, storeVars
  <2>2. ASSUME NEW w \in Uploads, up'[w].pc \notin Rolling, NEW d \in Taken(w)'
        PROVE  up[w].pc \notin Rolling /\ d \in Taken(w)
    <3>1. CASE \E u \in Uploads : UploadsOn(u)
      <4>1. PICK u \in Uploads : UploadsOn(u)
        BY <3>1
      <4>2. CASE w = u
        BY <2>2, <4>1, <4>2, UploadOn DEF Rolling, Taken, At
      <4>3. CASE w # u
        BY <2>2, <4>1, <4>3, UploadOn DEF Taken, At, CreatedIds, Current
      <4> QED
        BY <4>2, <4>3
    <3>2. CASE \E r \in Revisions : RevisionsOn(r)
      BY <2>2, <3>2 DEF RevisionsOn, Taken, At, CreatedIds, Current
    <3> QED
      BY <1>2, <3>1, <3>2
  <2>3. \A d : /\ Purged(d)' <=> Purged(d)
               /\ Recorded(d)' <=> Recorded(d)
               /\ AlreadyReversed(tenant, d)' <=> AlreadyReversed(tenant, d)
    BY <2>1 DEF Purged, Recorded, AlreadyReversed, NeverThrew
  <2>4. \A w \in Workers : Ordered(w)'
    BY <2>1, <2>3 DEF Cleanup, Ordered, AtWorker
  <2> QED
    BY <2>1, <2>2, <2>3, <2>4 DEF Cleanup, Taken
<1> QED
  BY <1>1, <1>2, UploadCleanup, RevisionCleanup, WorkerCleanup, IgnoredGoesOn
     DEF Next, UploadsAct, RevisionsAct, WorkersAct, UploadNext, AddVersionNext, WorkerNext

LEMMA CleanupInit == Init => Cleanup
<1> SUFFICES ASSUME Init PROVE Cleanup
  OBVIOUS
<1>1. /\ reversals = {} /\ \A w \in Workers : wk[w].pc = "idle"
      /\ \A u \in Uploads : up[u].pc = "start" /\ up[u].created = <<>>
  BY DEF Init, StoreInit, WorkerInit, UploadInit, Idle
<1> QED
  BY <1>1 DEF Cleanup, Ordered, AlreadyReversed, AtWorker, At, CreatedIds

\* As long as no revision is infected, an accepted document that is gone was
\* purged: the tenant has its bytes back, its blob is deleted and the event is
\* on record or lost.  So it is wherever a worker dies, and whoever goes on.
THEOREM PurgeIsOrderedHolds ==
    ASSUME \A r \in Revisions : Content[Revision[r]] \notin Infected
    PROVE  Spec => []PurgeIsOrdered
<1>1. CleanRevisions
  BY DEF CleanRevisions
<1> DEFINE Inv == Basics /\ Verdicts /\ Cleanup
<1>2. Init => Inv
  BY BasicsInit, VerdictsInit, CleanupInit
<1>3. Inv /\ [Next]_vars => Inv'
  BY <1>1, BasicsStep, VerdictsStep, CleanupStep
<1>4. Inv => PurgeIsOrdered
  <2> SUFFICES ASSUME Inv, NEW u \in Uploads, At(u, "ok"), NEW d \in CreatedIds(u)
               PROVE  /\ d \notin DOMAIN documents => AlreadyReversed(tenant, d) /\ d \notin blobs
                      /\ AlreadyReversed(tenant, d) /\ NeverThrew({"audit"}) =>
                            <<"malware.detected", d>> \in audit
    BY DEF PurgeIsOrdered
  <2>1. d \in ReservationIds
    BY TakenAreFiled DEF Taken
  <2>2. d \in DOMAIN documents \/ Purged(d)
    BY DEF Cleanup, At, Rolling
  <2> QED
    BY <2>1, <2>2 DEF Cleanup, Recorded, Purged
<1> HIDE DEF Inv
<1> QED
  BY <1>2, <1>3, <1>4, PTL DEF Spec
-----------------------------------------------------------------------------
(* No document is forgotten, when no request throws. *)

\* A step leaves a document's row, and that of its current version, alone.
SameRow(d) ==
    /\ d \in DOMAIN documents /\ d \in DOMAIN documents' /\ documents'[d] = documents[d]
    /\ versions'[documents[d].currentVersionId] = versions[documents[d].currentVersionId]

LEMMA SameRowUnderWay == ASSUME NEW d, SameRow(d), UnderWay(d) PROVE UnderWay(d)'
BY DEF SameRow, UnderWay

LEMMA SameRowScanned == ASSUME NEW d, SameRow(d), Scanned(d) PROVE Scanned(d)'
BY DEF SameRow, Scanned

LEMMA SameRowDecides ==
    ASSUME NEW d, SameRow(d), NEW w \in Workers, Decides(w, d), wk'[w] = wk[w]
    PROVE  Decides(w, d)'
BY DEF SameRow, Decides, AtWorker

\* An upload leaves every row alone but the one it inserts or deletes.
LEMMA UploadSameRow ==
    ASSUME Basics, NEW u \in Uploads, UploadStep(u), NEW d \in DOMAIN documents'
    PROVE  SameRow(d) \/ (InsertDocument(u) /\ d = Current(u))
<1>1. CASE UNCHANGED <<documents, versions>>
  BY <1>1 DEF SameRow
<1>2. CASE InsertDocument(u) /\ d # Current(u)
  <2> DEFINE id == Current(u)
             v == documents[d].currentVersionId
  <2>1. /\ \E row : documents' = Insert(documents, id, row)
        /\ \E row : versions' = Insert(versions, id, row)
        /\ ~ContentStored(id)
    BY <1>2 DEF InsertDocument, InsertDocumentWithVersion
  <2>2. d \in DOMAIN documents /\ documents'[d] = documents[d]
    BY <1>2, <2>1 DEF Insert
  <2>3. v \in DOMAIN versions /\ v # id
    BY <2>1, <2>2 DEF Basics, Pointers, ContentStored
  <2>4. versions'[v] = versions[v]
    <3> HIDE DEF v, id
    <3> QED
      BY <2>1, <2>3 DEF Insert
  <2> QED
    BY <2>2, <2>4 DEF SameRow
<1>3. CASE DeleteDocument(Current(u))
  <2>1. d \in DOMAIN documents /\ d # Current(u) /\ documents'[d] = documents[d]
    BY <1>3 DEF DeleteDocument, Delete, DeleteAll
  <2>2. documents[d].currentVersionId \in DOMAIN versions \ VersionsOf(Current(u))
    BY <2>1 DEF Basics, Pointers, VersionsOf
  <2> QED
    BY <1>3, <2>1, <2>2 DEF DeleteDocument, DeleteAll, SameRow
<1> QED
  BY <1>1, <1>2, <1>3, UploadTables DEF Basics

\* A step of a request that does not throw.
LEMMA CalmUpload ==
    ASSUME Calm, Locals, NEW u \in Uploads, UploadLine(u), UploadStep(u),
           up[u].pc # "threw", up[u].after # "threw"
    PROVE  /\ up'[u].pc # "threw" /\ up'[u].after # "threw"
           /\ ~PutThrows(u) /\ ~CommitThrows(u) /\ ~CallThrows(u)
           /\ \A call \in up[u].todo : Settle(u, call) => Compensate(Current(u), call)
<1>1. ~PutThrows(u) /\ ~CommitThrows(u) /\ ~CallThrows(u) /\ ~Throws("undo")
  BY DEF Calm, PutThrows, CommitThrows, CallThrows, Throws, Uncaught
<1>2. \A call \in up[u].todo : Settle(u, call) => Compensate(Current(u), call)
  BY <1>1 DEF Settle
<1>3. up \in [Uploads -> UploadLocal] /\ up[u].after \in {"start", "rollback", "duplicate", "next"}
  BY UploadFields DEF Locals
<1>4. CASE \/ Begin(u) \/ Reserve(u) \/ Put(u) \/ SessionValid(u) \/ SessionExpired(u)
           \/ InsertDocument(u) \/ InsertDuplicate(u) \/ RollbackBatch(u) \/ Emit(u)
           \/ EnqueueDocument(u) \/ AuditUpload(u)
  <2>1. up'[u].pc # "threw" /\ up'[u].after # "threw"
    BY <1>3, <1>4 DEF Begin, Reserve, Put, SessionValid, SessionExpired, InsertDocument,
       InsertDuplicate, RollbackBatch, Emit, EnqueueDocument, AuditUpload, Goto, Undo, UploadLocal
  <2> QED
    BY <1>1, <1>2, <2>1
<1>5. CASE Refuse(u) \/ Commit(u)
  <2>1. up'[u].pc # "threw" /\ up'[u].after # "threw"
    BY <1>3, <1>5 DEF Refuse, Commit, Outcome, UploadLocal
  <2> QED
    BY <1>1, <1>2, <2>1
<1>6. CASE \E call \in up[u].todo : Settle(u, call)
  <2>1. up'[u].pc # "threw" /\ up'[u].after # "threw"
    BY <1>3, <1>6 DEF Settle, UploadLocal
  <2> QED
    BY <1>1, <1>2, <2>1
<1>7. CASE Settled(u)
  <2>1. up'[u].pc # "threw" /\ up'[u].after # "threw"
    BY <1>3, <1>7 DEF Settled, Outcome, Goto, UploadLocal, UploadLine, At
  <2> QED
    BY <1>1, <1>2, <2>1
<1> QED
  BY <1>1, <1>4, <1>5, <1>6, <1>7 DEF UploadStep

\* Which documents a request may have in hand.
LEMMA CarriesFiles ==
    ASSUME Basics, NEW u \in Uploads, NEW d, Carries(u, d)
    PROVE  ~Finished(u) /\ d \in {Files[u][k] : k \in DOMAIN Files[u]}
<1>1. d \in Taken(u)
  BY DEF Carries, Taken, CreatedIds
<1>2. \E k \in 1 .. Len(Files[u]) : d = Files[u][k]
  BY <1>1, TakenAreFiled
<1> QED
  BY <1>2, AttemptsApart DEF Carries, Finished, Terminal, Filing, At

\* A request that has the document among those it accepted carries it as long as
\* it handles its files, and from the first of them on when it emits them.
LEMMA AcceptedIsCarried ==
    ASSUME up' \in [Uploads -> UploadLocal], NEW u \in Uploads, NEW d,
           \E j \in DOMAIN up'[u].created : up'[u].created[j] = d,
           up'[u].pc \in Filing \/ (up'[u].pc \in {"emit", "rollback"} /\ up'[u].i = 1)
    PROVE  Carries(u, d)'
<1>1. PICK j \in DOMAIN up'[u].created : up'[u].created[j] = d
  OBVIOUS
<1>2. up'[u] \in UploadLocal
  OBVIOUS
<1>3. up'[u].created \in Seq(ReservationIds)
  BY <1>2 DEF UploadLocal
<1>4. j \in Nat /\ j >= 1
  BY <1>1, <1>3
<1> QED
  BY <1>1, <1>4 DEF Carries, CreatedIds

\* What a request carries it carries on, until it enqueues or deletes it.
LEMMA CarriedOn ==
    ASSUME Calm, Basics, NEW u \in Uploads, UploadStep(u), NEW d, Carries(u, d),
           up[u].pc # "threw", up[u].after # "threw"
    PROVE  Carries(u, d)' \/ d \in queue' \/ d \notin DOMAIN documents'
<1>1. /\ up \in [Uploads -> UploadLocal] /\ up' \in [Uploads -> UploadLocal] /\ Locals /\ UploadLine(u)
  BY UploadKeepsLine DEF Basics, Locals, InOrder
<1>2. /\ up[u].created \in Seq(ReservationIds) /\ DOMAIN up[u].created = 1 .. Len(up[u].created)
      /\ up[u].i \in Nat \ {0} /\ Len(up[u].created) \in Nat
  BY <1>1, UploadFields
<1>3. ~PutThrows(u) /\ ~CommitThrows(u) /\ ~CallThrows(u)
  BY <1>1, CalmUpload
<1> DEFINE Accepted1 == \E j \in DOMAIN up[u].created : up[u].created[j] = d
<1>4. up[u].pc \in Filing /\ ~At(u, "commit") => Accepted1
  BY DEF Carries, CreatedIds, At, Filing
<1>5. CASE \/ Reserve(u) \/ Put(u) \/ SessionValid(u) \/ InsertDocument(u)
           \/ SessionExpired(u) \/ InsertDuplicate(u)
  <2>1. up[u].pc \in Filing /\ ~At(u, "commit")
    BY <1>5 DEF Reserve, Put, SessionValid, InsertDocument, SessionExpired, InsertDuplicate, At, Filing
  <2>2. up'[u].created = up[u].created /\ up'[u].pc \in Filing
    BY <1>1, <1>5 DEF Reserve, Put, SessionValid, InsertDocument, SessionExpired, InsertDuplicate,
       Goto, Undo, UploadLocal, Filing
  <2> QED
    BY <1>1, <1>4, <2>1, <2>2, AcceptedIsCarried
<1>6. CASE Refuse(u)
  <2>1. up[u].pc \in Filing /\ ~At(u, "commit")
    BY <1>6 DEF Refuse, At, Filing
  <2>2. /\ up'[u].created = up[u].created
        /\ up'[u].pc \in Filing \/ (up'[u].pc = "emit" /\ up'[u].i = 1)
    BY <1>1, <1>6 DEF Refuse, Outcome, UploadLocal, Filing
  <2> QED
    BY <1>1, <1>4, <2>1, <2>2, AcceptedIsCarried
<1>7. CASE Commit(u)
  <2>1. /\ up'[u].created = Append(up[u].created, Current(u))
        /\ up'[u].pc \in Filing \/ (up'[u].pc = "emit" /\ up'[u].i = 1)
    BY <1>1, <1>7 DEF Commit, Outcome, UploadLocal, Filing
  <2>2. Accepted1 \/ d = Current(u)
    BY <1>7 DEF Carries, CreatedIds, Commit, At
  <2>3. Current(u) \in ReservationIds
    BY <1>1, <1>7, InHand DEF Commit, At, Filing
  <2>4. \E j \in DOMAIN up'[u].created : up'[u].created[j] = d
    BY <1>2, <2>1, <2>2, <2>3
  <2> QED
    BY <1>1, <2>1, <2>4, AcceptedIsCarried
<1>8. CASE \E call \in up[u].todo : Settle(u, call)
  <2>1. PICK call \in up[u].todo : Settle(u, call)
    BY <1>8
  <2>2. /\ up'[u].pc = up[u].pc /\ up'[u].i = up[u].i /\ up'[u].created = up[u].created
        /\ up'[u].todo = up[u].todo \ {call} /\ up[u].pc \in {"undo", "undoAccepted"}
    BY <1>1, <2>1 DEF Settle, UploadLocal, UploadLine
  <2>3. CASE At(u, "undo")
    BY <1>1, <1>4, <2>2, <2>3, AcceptedIsCarried DEF At, Filing
  <2>4. CASE At(u, "undoAccepted")
    <3>1. PICK j \in DOMAIN up[u].created :
             /\ up[u].created[j] = d
             /\ j > up[u].i \/ (j = up[u].i /\ "deleteDocument" \in up[u].todo)
      BY <2>4 DEF Carries, At, Filing
    <3>2. CASE j > up[u].i
      BY <2>2, <2>4, <3>1, <3>2 DEF Carries, At
    <3>3. CASE j = up[u].i /\ call # "deleteDocument" /\ "deleteDocument" \in up[u].todo
      BY <2>2, <2>4, <3>1, <3>3 DEF Carries, At
    <3>4. CASE j = up[u].i /\ call = "deleteDocument"
      <4>1. DeleteDocument(Current(u)) /\ Current(u) = d
        BY <1>1, <2>1, <2>4, <3>1, <3>4, CalmUpload DEF Compensate, Current, At
      <4> QED
        BY <4>1 DEF DeleteDocument, Delete, DeleteAll
    <3> QED
      BY <3>1, <3>2, <3>3, <3>4
  <2> QED
    BY <2>2, <2>3, <2>4 DEF At
<1>9. CASE Settled(u) /\ At(u, "undo")
  <2>1. up[u].after \in {"rollback", "duplicate"}
    BY <1>1, <1>9 DEF UploadLine
  <2>2. /\ up'[u].created = up[u].created
        /\ \/ up'[u].pc \in Filing \/ (up'[u].pc \in {"emit", "rollback"} /\ up'[u].i = 1)
    BY <1>1, <1>9, <2>1 DEF Settled, Outcome, UploadLocal, Filing
  <2> QED
    BY <1>1, <1>4, <1>9, <2>2, AcceptedIsCarried DEF At, Filing
<1>10. CASE Settled(u) /\ At(u, "undoAccepted")
  <2>1. /\ up'[u].created = up[u].created /\ up'[u].pc = "rollback" /\ up'[u].i = up[u].i + 1
        /\ up[u].todo = {}
    BY <1>1, <1>10 DEF Settled, UploadLine, UploadLocal
  <2>2. PICK j \in DOMAIN up[u].created : up[u].created[j] = d /\ j > up[u].i
    BY <1>10, <2>1 DEF Carries, At, Filing
  <2>3. j >= up'[u].i
    BY <1>2, <2>1, <2>2
  <2> QED
    BY <2>1, <2>2, <2>3 DEF Carries
<1>11. CASE RollbackBatch(u) \/ Emit(u)
  <2>1. PICK j \in DOMAIN up[u].created : up[u].created[j] = d /\ j >= up[u].i
    BY <1>11 DEF Carries, At, Filing, RollbackBatch, Emit
  <2>2. up[u].i <= Len(up[u].created)
    BY <1>2, <2>1
  <2>3. up'[u].created = up[u].created /\ up'[u].i = up[u].i
    BY <1>1, <1>11 DEF RollbackBatch, Emit, Goto, Undo, UploadLocal
  <2>4. \/ up'[u].pc = "undoAccepted" /\ "deleteDocument" \in up'[u].todo
        \/ up'[u].pc = "enqueue"
    BY <1>1, <1>11, <2>2 DEF RollbackBatch, Emit, Goto, Undo, UploadLocal
  <2>5. j = up[u].i \/ j > up[u].i
    BY <1>2, <2>1
  <2> QED
    BY <2>1, <2>3, <2>4, <2>5 DEF Carries, At
<1>12. CASE EnqueueDocument(u)
  <2>1. PICK j \in DOMAIN up[u].created : up[u].created[j] = d /\ j >= up[u].i
    BY <1>12 DEF Carries, At, Filing, EnqueueDocument
  <2>2. up'[u].created = up[u].created /\ up'[u].i = up[u].i /\ up'[u].pc = "audit"
    BY <1>1, <1>12 DEF EnqueueDocument, Goto, UploadLocal
  <2>3. CASE j = up[u].i
    <3>1. Current(u) = d
      BY <1>12, <2>1, <2>3 DEF EnqueueDocument, At, Current
    <3> QED
      BY <1>12, <3>1 DEF EnqueueDocument, Enqueue
  <2>4. CASE j > up[u].i
    BY <2>1, <2>2, <2>4 DEF Carries
  <2> QED
    BY <1>2, <2>1, <2>3, <2>4
<1>13. CASE AuditUpload(u)
  <2>1. PICK j \in DOMAIN up[u].created : up[u].created[j] = d /\ j > up[u].i
    BY <1>13 DEF Carries, At, Filing, AuditUpload
  <2>2. up'[u].created = up[u].created /\ up'[u].i = up[u].i + 1 /\ up'[u].pc = "emit"
    BY <1>1, <1>13 DEF AuditUpload, UploadLocal
  <2>3. j >= up'[u].i
    BY <1>2, <2>1, <2>2
  <2> QED
    BY <2>1, <2>2, <2>3 DEF Carries
<1>14. ~Begin(u)
  BY DEF Begin, Carries, At, Filing
<1> QED
  BY <1>1, <1>3, <1>5, <1>6, <1>7, <1>8, <1>9, <1>10, <1>11, <1>12, <1>13, <1>14
     DEF UploadStep, Settled, At

\* The handlers' scanned snapshots, as a step of a request leaves them.
LEMMA SnapshotsStay ==
    ASSUME Basics, RowsKept, UNCHANGED wk, NEW w \in Workers, ScannedStays(w)
    PROVE  ScannedStays(w)'
<1>1. Holding(w) => \A v \in Unborn : wk[w].version # v
  BY DEF Basics, InOrder, Unknown
<1> QED
  BY <1>1 DEF ScannedStays, Holding, RowsKept, Fresh

\* A row a request leaves alone is attended to as before.
LEMMA HeldByOthers ==
    ASSUME NEW d, SameRow(d), UNCHANGED wk, queue \cup dropped \subseteq queue' \cup dropped',
           Scanned(d) \/ d \in queue \cup dropped \/ \E w \in Workers : Decides(w, d)
    PROVE  Held(d)'
<1>1. CASE Scanned(d)
  BY <1>1, SameRowScanned DEF Held
<1>2. CASE d \in queue \cup dropped
  BY <1>2 DEF Held
<1>3. CASE \E w \in Workers : Decides(w, d)
  <2>1. PICK w \in Workers : Decides(w, d)
    BY <1>3
  <2>2. Decides(w, d)'
    BY <2>1, SameRowDecides
  <2> QED
    BY <2>2 DEF Held
<1> QED
  BY <1>1, <1>2, <1>3

\* The row of a version just inserted awaits its verdict.
LEMMA FiledUnderWay ==
    ASSUME NEW id, InsertDocumentWithVersion(id)
    PROVE  UnderWay(id)'
<1> DEFINE new == NewVersion(id, 1)
           row == [currentVersionId |-> id, processingState |-> "queued"]
<1>1. documents' = Insert(documents, id, row) /\ versions' = Insert(versions, id, new)
  BY DEF InsertDocumentWithVersion
<1>2. ~new.malwareSignature /\ row.currentVersionId = id /\ row.processingState = "queued"
  BY NewVersions
<1> HIDE DEF new, row
<1>3. documents'[id] = row /\ versions'[id] = new
  BY <1>1 DEF Insert
<1> QED
  BY <1>2, <1>3 DEF UnderWay

LEMMA UploadAttended ==
    ASSUME Calm, Basics, Throwless, Attended, NEW u \in Uploads, UploadStep(u), Waits,
           UNCHANGED <<av, wk>>
    PROVE  Throwless' /\ Attended'
<1>1. /\ up \in [Uploads -> UploadLocal] /\ up' \in [Uploads -> UploadLocal] /\ Locals /\ UploadLine(u)
      /\ \A x \in Uploads \ {u} : up'[x] = up[x]
  BY UploadKeepsLine DEF Basics, Locals, InOrder
<1>2. up[u].pc # "threw" /\ up[u].after # "threw"
  BY DEF Throwless
<1>3. Throwless'
  BY <1>1, <1>2, CalmUpload DEF Throwless
<1>4. \A w \in Workers : ScannedStays(w)'
  BY UploadRows, SnapshotsStay DEF Attended
<1>5. ASSUME NEW d \in DOMAIN documents' \ Seeded PROVE UnderWay(d)' /\ Held(d)'
  <2>1. CASE InsertDocument(u) /\ d = Current(u)
    <3>1. UnderWay(d)'
      BY <2>1, FiledUnderWay DEF InsertDocument
    <3>2. up'[u].pc = "commit" /\ up'[u].i = up[u].i /\ up[u].pc = "insert"
      BY <1>1, <2>1 DEF InsertDocument, Goto, At, UploadLocal
    <3>3. Carries(u, d)'
      BY <2>1, <3>2 DEF Carries, At, Current
    <3> QED
      BY <3>1, <3>3 DEF Held
  <2>2. CASE SameRow(d)
    <3>1. UnderWay(d) /\ Held(d)
      BY <2>2 DEF Attended, SameRow
    <3>2. queue \cup dropped \subseteq queue' \cup dropped'
      BY <1>1, UploadQueue DEF Waits
    <3>3. CASE Scanned(d) \/ d \in queue \cup dropped \/ \E w \in Workers : Decides(w, d)
      BY <2>2, <3>1, <3>2, <3>3, SameRowUnderWay, HeldByOthers
    <3>4. CASE \E x \in Uploads : Carries(x, d)
      <4>1. PICK x \in Uploads : Carries(x, d)
        BY <3>4
      <4>2. Carries(x, d)' \/ d \in queue'
        <5>1. CASE x = u
          BY <1>2, <4>1, <5>1, CarriedOn
        <5>2. CASE x # u
          BY <1>1, <4>1, <5>2 DEF Carries, CreatedIds, At, Current
        <5> QED
          BY <5>1, <5>2
      <4> QED
        BY <2>2, <3>1, <4>2, SameRowUnderWay DEF Held
    <3>5. CASE \E r \in Revisions : Renews(r, d)
      BY <2>2, <3>1, <3>5, SameRowUnderWay DEF Held, Renews
    <3> QED
      BY <3>1, <3>3, <3>4, <3>5 DEF Held
  <2> QED
    BY <2>1, <2>2, UploadSameRow
<1> QED
  BY <1>3, <1>4, <1>5 DEF Attended

\* The current version a revision inserts awaits its verdict; every other row
\* is left alone when no version is rolled back.
LEMMA RevisionSameRow ==
    ASSUME Basics, NEW r \in Revisions, RevisionStep(r), "rollbackVersion" \notin av[r].todo,
           NEW d \in DOMAIN documents'
    PROVE  \/ SameRow(d)
           \/ InsertRevision(r) /\ d = Target[r] /\ UnderWay(d)'
<1>1. CASE UNCHANGED <<documents, versions>>
  BY <1>1 DEF SameRow
<1>2. CASE InsertRevision(r)
  <2> DEFINE t == Target[r]
             id == Revision[r]
             n == NextVersionNumber(t)
             new == NewVersion(t, n)
             row == [currentVersionId |-> id, processingState |-> "queued"]
  <2>1. /\ documents' = [documents EXCEPT ![t] = row] /\ versions' = Insert(versions, id, new)
        /\ t \in DOMAIN documents /\ ~ContentStored(id)
    BY <1>2 DEF InsertRevision, InsertVersion, CanInsertVersion
  <2>2. ~new.malwareSignature /\ row.currentVersionId = id /\ row.processingState = "queued"
    BY NewVersions
  <2>3. d \in DOMAIN documents
    BY <2>1
  <2>4. documents[d].currentVersionId \in DOMAIN versions /\ documents[d].currentVersionId # id
    BY <2>1, <2>3 DEF Basics, Pointers, ContentStored
  <2> HIDE DEF new, row, n, id, t
  <2>5. CASE d = t
    <3>1. documents'[d] = row /\ versions'[id] = new
      BY <2>1, <2>5 DEF Insert
    <3>2. UnderWay(d)'
      BY <2>2, <3>1 DEF UnderWay
    <3> QED
      BY <1>2, <2>5, <3>2 DEF t
  <2>6. CASE d # t
    <3>1. documents'[d] = documents[d]
      BY <2>1, <2>3, <2>6
    <3>2. versions'[documents[d].currentVersionId] = versions[documents[d].currentVersionId]
      BY <2>1, <2>4 DEF Insert
    <3> QED
      BY <2>3, <3>1, <3>2 DEF SameRow
  <2> QED
    BY <2>5, <2>6
<1> QED
  BY <1>1, <1>2, RevisionTables DEF Basics

\* A step of a revision that does not throw, and what it carries.
LEMMA CalmRevision ==
    ASSUME Calm, Basics, NEW r \in Revisions, RevisionStep(r), "rollbackVersion" \notin av[r].todo
    PROVE  /\ "rollbackVersion" \notin av'[r].todo
           /\ InsertRevision(r) => av'[r].pc = "commit"
           /\ av[r].pc \in {"commit", "enqueue"} =>
                 av'[r].pc \in {"commit", "enqueue"} \/ Target[r] \in queue'
           /\ queue \subseteq queue'
<1>1. av \in [Revisions -> RevisionLocal] /\ Locals /\ RevisionLine(r)
  BY DEF Basics, Locals, InOrder
<1>2. ~PutRevisionThrows(r) /\ ~InsertRevisionThrows(r) /\ ~CommitRevisionThrows(r)
      /\ ~RevisionCallThrows(r) /\ ~Throws("undo")
  BY DEF Calm, PutRevisionThrows, InsertRevisionThrows, CommitRevisionThrows, RevisionCallThrows, Throws
<1>3. CASE Precheck(r) \/ ReserveRevision(r) \/ RefuseRevision(r) \/ PutRevision(r)
           \/ InsertRevision(r) \/ InsertRevisionRefused(r)
  <2>1. av[r].pc \in {"precheck", "reserve", "put", "insert"} /\ UNCHANGED queue
    BY <1>3 DEF Precheck, ReserveRevision, RefuseRevision, PutRevision, InsertRevision,
       InsertRevisionRefused, AtRevision, storeVars, PutBlob, InsertVersion
  <2>2. "rollbackVersion" \notin av'[r].todo /\ (InsertRevision(r) => av'[r].pc = "commit")
    BY <1>1, <1>3 DEF Precheck, ReserveRevision, RefuseRevision, PutRevision, InsertRevision,
       InsertRevisionRefused, RevisionTo, UndoRevision, RevisionLocal
  <2> QED
    BY <2>1, <2>2
<1>4. CASE CommitRevision(r) \/ EnqueueRevision(r) \/ AuditRevision(r)
  <2>1. "rollbackVersion" \notin av'[r].todo /\ ~InsertRevision(r)
    BY <1>1, <1>4 DEF CommitRevision, EnqueueRevision, AuditRevision, RevisionTo, RevisionLocal,
       InsertRevision, AtRevision
  <2>2. queue \subseteq queue'
    BY <1>4 DEF CommitRevision, EnqueueRevision, AuditRevision, storeVars, Enqueue, Record
  <2>3. av[r].pc \in {"commit", "enqueue"} => av'[r].pc \in {"commit", "enqueue"} \/ Target[r] \in queue'
    BY <1>1, <1>4 DEF CommitRevision, EnqueueRevision, AuditRevision, RevisionTo, RevisionLocal,
       AtRevision, Enqueue
  <2> QED
    BY <2>1, <2>2, <2>3
<1>5. CASE \E call \in av[r].todo : SettleRevision(r, call)
  <2>1. PICK call \in av[r].todo : SettleRevision(r, call)
    BY <1>5
  <2>2. call \in {"release", "deleteBlob"} /\ CompensateRevision(r, call)
    BY <1>1, <1>2, <2>1, RevisionFields DEF SettleRevision, RevisionCalls
  <2>3. av[r].pc = "undo" /\ av'[r].todo \subseteq av[r].todo
    BY <1>1, <2>1 DEF SettleRevision, RevisionLine, AtRevision, RevisionLocal
  <2>4. UNCHANGED queue
    BY <2>2 DEF CompensateRevision, storeVars, DeleteBlob
  <2> QED
    BY <2>3, <2>4 DEF InsertRevision, AtRevision
<1> QED
  BY <1>2, <1>3, <1>4, <1>5 DEF RevisionStep

LEMMA RevisionAttended ==
    ASSUME Calm, Basics, Throwless, Attended, NEW r \in Revisions, RevisionStep(r),
           Waits, UNCHANGED <<up, wk>>
    PROVE  Throwless' /\ Attended'
<1>1. /\ \A q \in Revisions \ {r} : av'[q] = av[q]
      /\ "rollbackVersion" \notin av[r].todo
  BY RevisionKeepsLine DEF Basics, Locals, InOrder, Throwless
<1>2. Throwless'
  BY <1>1, CalmRevision DEF Throwless
<1>3. \A w \in Workers : ScannedStays(w)'
  BY RevisionRows, SnapshotsStay DEF Attended
<1>4. ASSUME NEW d \in DOMAIN documents' \ Seeded PROVE UnderWay(d)' /\ Held(d)'
  <2>1. CASE InsertRevision(r) /\ d = Target[r] /\ UnderWay(d)'
    <3>1. Renews(r, d)'
      BY <1>1, <2>1, CalmRevision DEF Renews
    <3> QED
      BY <2>1, <3>1 DEF Held
  <2>2. CASE SameRow(d)
    <3>1. UnderWay(d) /\ Held(d)
      BY <2>2 DEF Attended, SameRow
    <3>2. queue \cup dropped \subseteq queue' \cup dropped'
      BY <1>1, CalmRevision DEF Waits
    <3>3. CASE Scanned(d) \/ d \in queue \cup dropped \/ \E w \in Workers : Decides(w, d)
      BY <2>2, <3>1, <3>2, <3>3, SameRowUnderWay, HeldByOthers
    <3>4. CASE \E u \in Uploads : Carries(u, d)
      <4>1. PICK u \in Uploads : Carries(u, d)
        BY <3>4
      <4>2. Carries(u, d)'
        BY <4>1 DEF Carries, CreatedIds, At, Current
      <4> QED
        BY <2>2, <3>1, <4>2, SameRowUnderWay DEF Held
    <3>5. CASE \E q \in Revisions : Renews(q, d)
      <4>1. PICK q \in Revisions : Renews(q, d)
        BY <3>5
      <4>2. Renews(q, d)' \/ d \in queue'
        BY <1>1, <4>1, CalmRevision DEF Renews
      <4> QED
        BY <2>2, <3>1, <4>2, SameRowUnderWay DEF Held
    <3> QED
      BY <3>1, <3>3, <3>4, <3>5 DEF Held
  <2> QED
    BY <1>1, <2>1, <2>2, RevisionSameRow
<1> QED
  BY <1>2, <1>3, <1>4 DEF Attended

\* What a step of a worker makes of a document's row: it is left alone, or
\* claimed, or its current version is marked by the worker that has it.
LEMMA WorkerRow ==
    ASSUME Basics, NEW w \in Workers, WorkerStep(w), NEW d \in DOMAIN documents'
    PROVE  \/ SameRow(d)
           \/ /\ Claim(w) /\ d = wk[w].job /\ d \in DOMAIN documents
              /\ documents[d].processingState = "queued"
              /\ documents'[d].processingState = "processing"
              /\ documents'[d].currentVersionId = documents[d].currentVersionId
              /\ UNCHANGED versions /\ wk'[w].pc = "stage"
           \/ MarkScanComplete(w) /\ d = wk[w].job /\ UNCHANGED documents /\ Scanned(d)'
           \/ /\ MarkMalwareDetected(w) /\ d = wk[w].job /\ UNCHANGED documents
              /\ documents[d].processingState = "processing" /\ wk'[w].pc = "audit"
<1>0. wk \in [Workers -> WorkerLocal] /\ documents \in [DOMAIN documents -> Rows]
  BY DEF Basics, Locals, Tables
<1>1. CASE UNCHANGED <<documents, versions>>
  BY <1>1 DEF SameRow
<1>2. CASE Claim(w) /\ ~UNCHANGED documents
  <2> DEFINE j == wk[w].job
  <2>1. /\ j \in DOMAIN documents /\ documents[j].processingState = "queued" /\ UNCHANGED versions
        /\ documents' = [documents EXCEPT ![j].processingState = "processing"]
        /\ WorkerTo(w, "stage")
    BY <1>2 DEF Claim
  <2>2. wk'[w].pc = "stage"
    BY <1>0, <2>1 DEF WorkerTo, WorkerLocal
  <2> HIDE DEF j
  <2>3. CASE d # j
    BY <2>1, <2>3 DEF SameRow
  <2>4. CASE d = j
    <3>1. documents[d] \in Rows
      BY <1>0, <2>1, <2>4
    <3>2. documents'[d] = [documents[d] EXCEPT !.processingState = "processing"]
      BY <2>1, <2>4
    <3>3. /\ documents'[d].processingState = "processing"
          /\ documents'[d].currentVersionId = documents[d].currentVersionId
      BY <3>1, <3>2 DEF Rows
    <3> QED
      BY <1>2, <2>1, <2>2, <2>4, <3>3 DEF j
  <2> QED
    BY <2>3, <2>4
<1>3. CASE DeleteInfectedDocument(w)
  <2> DEFINE j == wk[w].job
  <2>1. DeleteDocument(j)
    BY <1>3 DEF DeleteInfectedDocument
  <2> HIDE DEF j
  <2>2. d \in DOMAIN documents /\ d # j /\ documents'[d] = documents[d]
    BY <2>1 DEF DeleteDocument, Delete, DeleteAll
  <2>3. documents[d].currentVersionId \in DOMAIN versions \ VersionsOf(j)
    BY <2>2 DEF Basics, Pointers, VersionsOf
  <2> QED
    BY <2>1, <2>2, <2>3 DEF DeleteDocument, DeleteAll, SameRow
<1>4. CASE (MarkScanComplete(w) \/ MarkMalwareDetected(w)) /\ ~UNCHANGED versions
  <2> DEFINE j == wk[w].job
             v == wk[w].version
  <2>1. /\ IsClaimed(j, v) /\ UNCHANGED documents
        /\ \/ /\ versions' = [versions EXCEPT ![v].malwareScannedAt = TRUE]
              /\ MarkScanComplete(w)
           \/ /\ versions' = [versions EXCEPT ![v].malwareSignature = TRUE]
              /\ MarkMalwareDetected(w) /\ WorkerTo(w, "audit")
    BY <1>4 DEF MarkScanComplete, MarkMalwareDetected, CanMarkScanned, CanMarkInfected
  <2>2. /\ v \in DOMAIN versions /\ j \in DOMAIN documents /\ documents[j].currentVersionId = v
        /\ documents[j].processingState = "processing"
    BY <2>1 DEF IsClaimed
  <2>3. CASE d # j
    <3>1. documents[d].currentVersionId \in DOMAIN versions \ {v}
      BY <2>1, <2>2, <2>3 DEF Basics, Pointers
    <3> HIDE DEF v, j
    <3> QED
      BY <2>1, <3>1 DEF SameRow
  <2>4. CASE d = j /\ MarkScanComplete(w)
    <3>1. IsVersion(versions[v])
      BY <2>2 DEF Basics, Tables
    <3>2. versions' = [versions EXCEPT ![v].malwareScannedAt = TRUE]
      BY <1>4, <2>1, <2>4 DEF MarkScanComplete, MarkMalwareDetected, AtWorker
    <3>3. versions'[v] = [versions[v] EXCEPT !.malwareScannedAt = TRUE]
      BY <2>2, <3>2
    <3> DEFINE row == versions[v]
    <3> HIDE DEF row
    <3>4. [row EXCEPT !.malwareScannedAt = TRUE].malwareScannedAt = TRUE
      BY <3>1, MarkedVersions DEF row
    <3>5. versions'[v].malwareScannedAt
      BY <3>3, <3>4 DEF row
    <3>6. Scanned(d)'
      BY <2>1, <2>2, <2>4, <3>5 DEF Scanned
    <3> QED
      BY <2>1, <2>4, <3>6
  <2>5. CASE d = j /\ MarkMalwareDetected(w)
    <3>1. WorkerTo(w, "audit")
      BY <2>1, <2>5 DEF MarkScanComplete, MarkMalwareDetected, AtWorker
    <3>2. wk'[w].pc = "audit"
      BY <1>0, <3>1 DEF WorkerTo, WorkerLocal
    <3> QED
      BY <2>1, <2>2, <2>5, <3>2
  <2> QED
    BY <1>4, <2>3, <2>4, <2>5
<1>5. Claim(w) => UNCHANGED versions
  BY DEF Claim
<1>6. MarkScanComplete(w) \/ MarkMalwareDetected(w) => UNCHANGED documents
  BY DEF MarkScanComplete, MarkMalwareDetected
<1> QED
  BY <1>1, <1>2, <1>3, <1>4, <1>5, <1>6, WorkerTables

\* The worker that decides a document decides it, passes it on to its next call,
\* or hands the job back.
LEMMA OwnWork ==
    ASSUME Basics, NEW w \in Workers, WorkerStep(w), ScannedStays(w),
           NEW d \in DOMAIN documents, d \in DOMAIN documents', UnderWay(d), Decides(w, d)
    PROVE  Held(d)'
<1> DEFINE v == documents[d].currentVersionId
<1>1. /\ wk \in [Workers -> WorkerLocal] /\ wk[w].job = d
      /\ documents[d] \in Rows /\ v \in DOMAIN versions /\ IsVersion(versions[v])
  BY DEF Basics, Locals, Tables, Pointers, Decides
<1>2. Decides(w, d)' => Held(d)'
  BY DEF Held
<1>3. ASSUME NEW pc \in WorkerPcs, WorkerTo(w, pc)
      PROVE  /\ wk'[w].pc = pc /\ wk'[w].job = d /\ wk'[w].version = wk[w].version
             /\ wk'[w].scanned = wk[w].scanned /\ wk'[w].signature = wk[w].signature
  BY <1>1, <1>3 DEF WorkerTo, WorkerLocal
<1>4. CASE Load(w)
  <2> DEFINE new == [pc |-> IF documents[d].processingState = "queued" THEN "claim" ELSE "stage",
                     job |-> d, version |-> v, scanned |-> versions[v].malwareScannedAt,
                     signature |-> versions[v].malwareSignature]
  <2>1. wk' = [wk EXCEPT ![w] = new] /\ UNCHANGED <<documents, versions>>
    BY <1>1, <1>4 DEF Load, UnderWay, storeVars
  <2>2. /\ new.job = d /\ new.version = v /\ new.signature = versions[v].malwareSignature
        /\ \/ new.pc = "claim" /\ documents[d].processingState = "queued"
           \/ new.pc = "stage" /\ documents[d].processingState = "processing"
    BY DEF UnderWay
  <2> HIDE DEF new
  <2>3. wk'[w] = new
    BY <1>1, <2>1
  <2>4. Decides(w, d)'
    BY <1>1, <2>1, <2>2, <2>3 DEF Decides, AtWorker
  <2> QED
    BY <1>2, <2>4
<1>5. CASE Claim(w)
  <2>1. /\ documents[d].processingState = "queued" /\ wk[w].version = v
        /\ versions[v].malwareSignature => wk[w].signature
    BY <1>5 DEF Decides, Claim, AtWorker
  <2>2. /\ documents' = [documents EXCEPT ![d].processingState = "processing"]
        /\ WorkerTo(w, "stage") /\ UNCHANGED versions
    BY <1>1, <1>5, <2>1 DEF Claim
  <2>3. /\ wk'[w].pc = "stage" /\ wk'[w].job = d /\ wk'[w].version = v
        /\ wk'[w].signature = wk[w].signature
    BY <1>3, <2>1, <2>2 DEF WorkerPcs
  <2>4. documents'[d].processingState = "processing" /\ documents'[d].currentVersionId = v
    BY <1>1, <2>2 DEF Rows
  <2>5. Decides(w, d)'
    BY <2>1, <2>2, <2>3, <2>4 DEF Decides, AtWorker
  <2> QED
    BY <1>2, <2>5
<1>6. CASE Scan(w)
  <2>1. /\ documents[d].processingState = "processing" /\ wk[w].version = v
        /\ versions[v].malwareSignature => wk[w].signature
        /\ UNCHANGED <<documents, versions>>
    BY <1>6 DEF Decides, Scan, AtWorker, storeVars
  <2>2. CASE WorkerTo(w, "audit")
    <3>1. wk'[w].pc = "audit" /\ wk'[w].job = d
      BY <1>3, <2>2 DEF WorkerPcs
    <3> QED
      BY <1>2, <3>1 DEF Decides
  <2>3. CASE wk[w].scanned
    <3>1. Holding(w)
      BY <1>6 DEF Scan, Holding, AtWorker
    <3>2. versions[v].malwareScannedAt
      BY <1>1, <2>1, <2>3, <3>1 DEF ScannedStays
    <3>3. Scanned(d)'
      BY <2>1, <3>2 DEF Scanned
    <3> QED
      BY <3>3 DEF Held
  <2>4. CASE ~wk[w].signature /\ \E pc \in {"markInfected", "markClean"} : WorkerTo(w, pc)
    <3>1. PICK pc \in {"markInfected", "markClean"} : WorkerTo(w, pc)
      BY <2>4
    <3>2. wk'[w].pc = pc /\ wk'[w].job = d /\ wk'[w].version = v
      BY <1>3, <2>1, <3>1 DEF WorkerPcs
    <3>3. Decides(w, d)'
      BY <2>1, <2>4, <3>2 DEF Decides, AtWorker
    <3> QED
      BY <1>2, <3>3
  <2> QED
    BY <1>6, <2>2, <2>3, <2>4 DEF Scan
<1>7. ASSUME MarkScanComplete(w) \/ MarkMalwareDetected(w)
      PROVE  IsClaimed(d, v) /\ wk[w].version = v /\ ~versions[v].malwareSignature
  <2>1. /\ wk[w].version = v /\ documents[d].processingState = "processing"
        /\ ~versions[v].malwareSignature
    BY <1>7 DEF Decides, MarkScanComplete, MarkMalwareDetected, AtWorker
  <2>2. documents[d] = [currentVersionId |-> v, processingState |-> "processing"]
    BY <1>1, <2>1 DEF Rows
  <2> QED
    BY <1>1, <2>1, <2>2 DEF IsClaimed
<1>8. CASE MarkScanComplete(w)
  <2>1. versions' = [versions EXCEPT ![v].malwareScannedAt = TRUE] /\ UNCHANGED documents
    BY <1>1, <1>7, <1>8 DEF MarkScanComplete, CanMarkScanned
  <2> DEFINE row == versions[v]
             last == v
  <2>2. versions' = [versions EXCEPT ![last] = [row EXCEPT !.malwareScannedAt = TRUE]]
    BY <2>1
  <2>3. [row EXCEPT !.malwareScannedAt = TRUE].malwareScannedAt = TRUE
    <3> HIDE DEF row
    <3> QED
      BY <1>1, MarkedVersions DEF row
  <2> HIDE DEF row, last
  <2>4. last \in DOMAIN versions /\ last = documents[d].currentVersionId
    BY <1>1 DEF last
  <2>5. versions'[last].malwareScannedAt
    BY <2>2, <2>3, <2>4
  <2>6. Scanned(d)'
    BY <2>1, <2>4, <2>5 DEF Scanned
  <2> QED
    BY <2>6 DEF Held
<1>9. CASE MarkMalwareDetected(w)
  <2>1. UNCHANGED documents
    BY <1>9 DEF MarkMalwareDetected
  <2>2. CASE WorkerTo(w, "audit")
    <3>1. wk'[w].pc = "audit" /\ wk'[w].job = d
      BY <1>3, <2>2 DEF WorkerPcs
    <3> QED
      BY <1>2, <3>1 DEF Decides
  <2>3. CASE ~CanMarkInfected(d, v)
    <3>1. versions[v].malwareScannedAt
      BY <1>7, <1>9, <2>3 DEF CanMarkInfected
    <3>2. UNCHANGED versions
      BY <1>1, <1>7, <1>9, <2>3 DEF MarkMalwareDetected
    <3>3. Scanned(d)'
      BY <2>1, <3>1, <3>2 DEF Scanned
    <3> QED
      BY <3>3 DEF Held
  <2> QED
    BY <1>1, <1>7, <1>9, <2>2, <2>3 DEF MarkMalwareDetected
<1>10. CASE AuditMalware(w) \/ DebitQuota(w) \/ DeleteInfectedBlob(w)
  <2>1. \E pc \in {"debit", "deleteBlob", "deleteDocument"} : WorkerTo(w, pc)
    BY <1>10 DEF AuditMalware, DebitQuota, DeleteInfectedBlob
  <2>2. wk'[w].pc \in {"debit", "deleteBlob", "deleteDocument"} /\ wk'[w].job = d
    BY <1>3, <2>1 DEF WorkerPcs
  <2> QED
    BY <1>2, <2>2 DEF Decides
<1>11. CASE WorkerFails(w) \/ Stall(w)
  <2>1. d \in queue'
    BY <1>1, <1>11 DEF WorkerFails, Stall, Enqueue
  <2> QED
    BY <2>1 DEF Held
<1>12. ~Deliver(w)
  BY DEF Deliver, Decides, AtWorker
<1>13. ~DeleteInfectedDocument(w)
  BY <1>1 DEF DeleteInfectedDocument, DeleteDocument, Delete, DeleteAll
<1> QED
  BY <1>4, <1>5, <1>6, <1>8, <1>9, <1>10, <1>11, <1>12, <1>13 DEF WorkerStep

\* Versions are not added while two workers are at it: each has the document's
\* first version in hand, and it is current.
LonelyOrUnrevised == Revisions = {} \/ \A v, w \in Workers : v = w

LEMMA FirstIsCurrent ==
    ASSUME Basics, Revisions = {}, NEW w \in Workers, Holding(w), wk[w].job \in DOMAIN documents
    PROVE  wk[w].version = documents[wk[w].job].currentVersionId
BY DEF Basics, Pointers, OfDocument, RevisionIds

LEMMA ScansStay ==
    ASSUME Basics, NEW w \in Workers, WorkerStep(w)
    PROVE  \A v \in DOMAIN versions' :
              v \in DOMAIN versions /\ (versions[v].malwareScannedAt => versions'[v].malwareScannedAt)
<1>1. CASE MarkScanComplete(w) \/ MarkMalwareDetected(w)
  BY <1>1, MarkedEvolves
<1>2. CASE DeleteInfectedDocument(w)
  BY <1>2 DEF DeleteInfectedDocument, DeleteDocument, DeleteAll
<1>3. CASE UNCHANGED versions
  BY <1>3
<1> QED
  BY <1>1, <1>2, <1>3, WorkerTables DEF Claim

LEMMA WorkerAttended ==
    ASSUME LonelyOrUnrevised, Basics, Throwless, Attended, NEW w \in Workers, WorkerStep(w),
           Waits, UNCHANGED <<up, av>>
    PROVE  Throwless' /\ Attended'
<1>1. Throwless'
  BY DEF Throwless
<1>2. /\ \A x \in Workers \ {w} : wk'[x] = wk[x]
      /\ Holding(w)' => HandsOn(w) \/ Snapshot(w)
  BY WorkerKeepsHold
<1>3. ASSUME NEW x \in Workers PROVE ScannedStays(x)'
  <2>1. SUFFICES ASSUME Holding(x)', wk'[x].scanned, wk'[x].version \in DOMAIN versions'
                 PROVE  versions'[wk'[x].version].malwareScannedAt
    BY DEF ScannedStays
  <2>2. ScannedStays(x)
    BY DEF Attended
  <2>3. /\ wk'[x].version \in DOMAIN versions
        /\ versions[wk'[x].version].malwareScannedAt => versions'[wk'[x].version].malwareScannedAt
    BY <2>1, ScansStay
  <2>4. CASE x = w /\ Snapshot(w)
    BY <2>1, <2>3, <2>4 DEF Snapshot
  <2>5. CASE x # w \/ HandsOn(w)
    <3>1. Holding(x) /\ wk'[x].scanned = wk[x].scanned /\ wk'[x].version = wk[x].version
      BY <1>2, <2>1, <2>5 DEF HandsOn, Holding
    <3> QED
      BY <2>1, <2>2, <2>3, <3>1 DEF ScannedStays
  <2> QED
    BY <1>2, <2>1, <2>4, <2>5
<1>4. ASSUME NEW d \in DOMAIN documents' \ Seeded PROVE UnderWay(d)' /\ Held(d)'
  <2> DEFINE Claimed == /\ Claim(w) /\ d = wk[w].job /\ d \in DOMAIN documents
                        /\ documents[d].processingState = "queued"
                        /\ documents'[d].processingState = "processing"
                        /\ documents'[d].currentVersionId = documents[d].currentVersionId
                        /\ UNCHANGED versions /\ wk'[w].pc = "stage"
             Cleared == MarkScanComplete(w) /\ d = wk[w].job /\ UNCHANGED documents /\ Scanned(d)'
             Caught == /\ MarkMalwareDetected(w) /\ d = wk[w].job /\ UNCHANGED documents
                       /\ documents[d].processingState = "processing" /\ wk'[w].pc = "audit"
  <2>1. SameRow(d) \/ Claimed \/ Cleared \/ Caught
    BY WorkerRow
  <2> HIDE DEF Claimed, Cleared, Caught
  <2>2. d \in DOMAIN documents
    BY <2>1 DEF SameRow, Claimed, Cleared, Caught
  <2>3. UnderWay(d) /\ Held(d) /\ documents[d].currentVersionId \in DOMAIN versions
    BY <2>2 DEF Attended, Basics, Pointers
  <2>4. UnderWay(d)'
    <3>1. CASE SameRow(d)
      BY <2>3, <3>1, SameRowUnderWay
    <3>2. CASE Claimed
      BY <3>2 DEF Claimed, UnderWay
    <3>3. CASE Cleared
      <4>1. UNCHANGED documents /\ ~AtWorker(w, "markInfected") /\ MarkScanComplete(w)
        BY <3>3 DEF Cleared, MarkScanComplete, AtWorker
      <4>2. versions'[documents[d].currentVersionId].malwareSignature =>
               versions[documents[d].currentVersionId].malwareSignature
        BY <2>3, <4>1, MarkedEvolves
      <4> QED
        BY <2>3, <4>1, <4>2 DEF UnderWay
    <3>4. CASE Caught
      BY <3>4 DEF Caught, UnderWay
    <3> QED
      BY <2>1, <3>1, <3>2, <3>3, <3>4
  <2> SUFFICES Held(d)'
    BY <2>4
  <2>5. CASE Scanned(d)
    <3>1. CASE SameRow(d)
      BY <2>5, <3>1, SameRowScanned DEF Held
    <3>2. CASE Claimed
      <4>1. Scanned(d)'
        BY <2>5, <3>2 DEF Claimed, Scanned
      <4> QED
        BY <4>1 DEF Held
    <3>3. CASE Cleared
      BY <3>3 DEF Held, Cleared
    <3>4. CASE Caught
      <4>1. MarkMalwareDetected(w) /\ UNCHANGED documents
        BY <3>4 DEF Caught
      <4>2. versions[documents[d].currentVersionId].malwareScannedAt =>
               versions'[documents[d].currentVersionId].malwareScannedAt
        BY <2>3, <4>1, MarkedEvolves
      <4>3. Scanned(d)'
        BY <2>5, <4>1, <4>2 DEF Scanned
      <4> QED
        BY <4>3 DEF Held
    <3> QED
      BY <2>1, <3>1, <3>2, <3>3, <3>4
  <2>6. CASE d \in queue
    <3>1. CASE Deliver(w) /\ d \notin queue'
      <4>1. PICK e \in queue : /\ queue' = queue \ {e}
                               /\ wk' = [wk EXCEPT ![w] = [Idle EXCEPT !.pc = "load", !.job = e]]
        BY <3>1 DEF Deliver
      <4>2. e = d
        BY <2>6, <3>1, <4>1
      <4>3. wk'[w].pc = "load" /\ wk'[w].job = d
        BY <4>1, <4>2 DEF Idle, Basics, Locals
      <4>4. Decides(w, d)'
        BY <4>3 DEF Decides
      <4> QED
        BY <4>4 DEF Held
    <3>2. ~Deliver(w) => queue \subseteq queue'
      BY DEF WorkerStep, Load, Claim, Scan, MarkScanComplete, MarkMalwareDetected, AuditMalware,
         DebitQuota, DeleteInfectedBlob, DeleteInfectedDocument, WorkerFails, Stall, Record,
         DeleteBlob, DeleteDocument, Enqueue, storeVars
    <3> QED
      BY <2>6, <3>1, <3>2 DEF Held
  <2>7. CASE Decides(w, d)
    BY <2>2, <2>3, <2>7, OwnWork DEF Attended
  <2>8. ASSUME NEW x \in Workers \ {w}, Decides(x, d) PROVE Held(d)'
    <3>1. Revisions = {}
      BY DEF LonelyOrUnrevised
    <3>2. CASE SameRow(d)
      BY <1>2, <2>8, <3>2, SameRowDecides DEF Held
    <3>3. CASE Claimed
      <4>1. Holding(w) /\ wk[w].job = d /\ wk'[w].pc = "stage" /\ UNCHANGED versions
        BY <3>3 DEF Claimed, Claim, Holding, AtWorker
      <4>2. wk'[w].job = d /\ wk'[w].version = wk[w].version
        BY <1>2, <4>1 DEF HandsOn, Snapshot, Holding, AtWorker
      <4>3. wk'[w].version = documents[d].currentVersionId
        BY <2>2, <3>1, <4>1, <4>2, FirstIsCurrent
      <4>4. ~versions[documents[d].currentVersionId].malwareSignature
        BY <2>3, <3>3 DEF Claimed, UnderWay
      <4>5. /\ documents'[d].processingState = "processing"
            /\ documents'[d].currentVersionId = documents[d].currentVersionId
        BY <3>3 DEF Claimed
      <4>6. Decides(w, d)'
        BY <4>1, <4>2, <4>3, <4>4, <4>5 DEF Decides, AtWorker
      <4> QED
        BY <4>6 DEF Held
    <3>4. CASE Cleared
      BY <3>4 DEF Held, Cleared
    <3>5. CASE Caught
      <4>1. Holding(w) /\ wk[w].job = d /\ wk'[w].pc = "audit"
        BY <3>5 DEF Caught, MarkMalwareDetected, Holding, AtWorker
      <4>2. wk'[w].job = d
        BY <1>2, <4>1 DEF HandsOn, Snapshot, Holding, AtWorker
      <4>3. Decides(w, d)'
        BY <4>1, <4>2 DEF Decides
      <4> QED
        BY <4>3 DEF Held
    <3> QED
      BY <2>1, <3>2, <3>3, <3>4, <3>5
  <2>9. ASSUME NEW u \in Uploads, Carries(u, d) PROVE Held(d)'
    <3>1. Carries(u, d)'
      BY <2>9 DEF Carries, CreatedIds, At, Current
    <3> QED
      BY <3>1 DEF Held
  <2>10. ASSUME NEW r \in Revisions, Renews(r, d) PROVE Held(d)'
    BY <2>10 DEF Held, Renews
  <2>11. CASE d \in dropped
    BY <2>11 DEF Held, Waits
  <2> QED
    BY <2>3, <2>5, <2>6, <2>7, <2>8, <2>9, <2>10, <2>11 DEF Held
<1> QED
  BY <1>1, <1>3, <1>4 DEF Attended

\* A request whose enqueue is ignored had the document in hand.
LEMMA IgnoredAttended ==
    ASSUME Basics, Throwless, Attended,
           \/ \E u \in Uploads : UploadIgnored(u)
           \/ \E r \in Revisions : RevisionIgnored(r)
    PROVE  Throwless' /\ Attended'
<1>1. UNCHANGED <<documents, versions, queue, wk>> /\ dropped \subseteq dropped'
  BY DEF UploadIgnored, RevisionIgnored, Ignored, storeVars
<1>2. \A w \in Workers : ScannedStays(w)'
  BY <1>1 DEF Attended, ScannedStays, Holding
<1>3. ASSUME NEW d \in DOMAIN documents' \ Seeded,
             \A u \in Uploads : Carries(u, d) => Carries(u, d)' \/ d \in dropped',
             \A r \in Revisions : Renews(r, d) => Renews(r, d)' \/ d \in dropped'
      PROVE  UnderWay(d)' /\ Held(d)'
  <2>1. SameRow(d) /\ UnderWay(d) /\ Held(d)
    BY <1>1 DEF SameRow, Attended
  <2>2. queue \cup dropped \subseteq queue' \cup dropped'
    BY <1>1
  <2> QED
    BY <1>1, <1>3, <2>1, <2>2, SameRowUnderWay, HeldByOthers DEF Held
<1>4. ASSUME NEW u \in Uploads, UploadIgnored(u) PROVE Throwless' /\ Attended'
  <2>1. UploadsOn(u) /\ dropped' = dropped \cup {Current(u)} /\ UNCHANGED av
    BY <1>4 DEF UploadIgnored, Ignored, UploadsOn
  <2>2. Throwless'
    BY <2>1, UploadOn DEF Throwless
  <2>3. ASSUME NEW d, NEW x \in Uploads, Carries(x, d) PROVE Carries(x, d)' \/ d \in dropped'
    <3>1. CASE x # u
      BY <2>1, <2>3, <3>1, UploadOn DEF Carries, CreatedIds, At, Current
    <3>2. CASE x = u
      <4>1. PICK j \in DOMAIN up[u].created : up[u].created[j] = d /\ j >= up[u].i
        BY <2>1, <2>3, <3>2, UploadOn DEF Carries, At, Filing
      <4>2. Current(u) = up[u].created[up[u].i]
        BY <2>1, UploadOn DEF Current
      <4>3. j \in Nat /\ up[u].i \in Nat
        BY <2>1, UploadOn, UploadFields
      <4>4. CASE j = up[u].i
        BY <2>1, <4>1, <4>2, <4>4
      <4>5. CASE j > up[u].i
        BY <2>1, <3>2, <4>1, <4>5, UploadOn DEF Carries, At
      <4> QED
        BY <4>1, <4>3, <4>4, <4>5
    <3> QED
      BY <3>1, <3>2
  <2>4. \A d : \A r \in Revisions : Renews(r, d)' <=> Renews(r, d)
    BY <2>1 DEF Renews
  <2> QED
    BY <1>2, <1>3, <2>2, <2>3, <2>4 DEF Attended
<1>5. ASSUME NEW r \in Revisions, RevisionIgnored(r) PROVE Throwless' /\ Attended'
  <2>1. RevisionsOn(r) /\ dropped' = dropped \cup {Target[r]} /\ UNCHANGED up
    BY <1>5 DEF RevisionIgnored, Ignored, RevisionsOn
  <2>2. Throwless'
    BY <2>1, RevisionOn DEF Throwless
  <2>3. ASSUME NEW d, NEW u \in Uploads, Carries(u, d) PROVE Carries(u, d)'
    BY <2>1, <2>3 DEF Carries, CreatedIds, At, Current
  <2>4. ASSUME NEW d, NEW q \in Revisions, Renews(q, d) PROVE Renews(q, d)' \/ d \in dropped'
    BY <2>1, <2>4, RevisionOn DEF Renews
  <2> QED
    BY <1>2, <1>3, <2>2, <2>3, <2>4 DEF Attended
<1> QED
  BY <1>4, <1>5

LEMMA AttendedStep ==
    ASSUME Calm, LonelyOrUnrevised, Basics, Throwless, Attended, [Next]_vars
    PROVE  Throwless' /\ Attended'
<1>1. CASE UNCHANGED vars
  <2>1. Throwless'
    BY <1>1 DEF vars, Throwless
  <2>2. \A w \in Workers : ScannedStays(w)'
    BY <1>1 DEF vars, storeVars, Attended, ScannedStays, Holding
  <2>3. ASSUME NEW d \in DOMAIN documents' \ Seeded PROVE UnderWay(d)' /\ Held(d)'
    <3>1. SameRow(d) /\ UnderWay(d) /\ Held(d)
      BY <1>1 DEF vars, storeVars, SameRow, Attended
    <3>2. UNCHANGED <<wk, queue, up, av, dropped>>
      BY <1>1 DEF vars, storeVars
    <3>3. ASSUME NEW u \in Uploads, Carries(u, d) PROVE Carries(u, d)'
      BY <3>2, <3>3 DEF Carries, CreatedIds, At, Current
    <3>4. ASSUME NEW r \in Revisions, Renews(r, d) PROVE Renews(r, d)'
      BY <3>2, <3>4 DEF Renews
    <3> QED
      BY <3>1, <3>2, <3>3, <3>4, SameRowUnderWay, HeldByOthers DEF Held
  <2> QED
    BY <2>1, <2>2, <2>3 DEF Attended
<1> QED
  BY <1>1, UploadAttended, RevisionAttended, WorkerAttended, IgnoredAttended
     DEF Next, UploadsAct, RevisionsAct, WorkersAct, UploadNext, AddVersionNext, WorkerNext

LEMMA AttendedInit == Init => Throwless /\ Attended
<1> SUFFICES ASSUME Init PROVE Throwless /\ Attended
  OBVIOUS
<1>1. /\ DOMAIN documents = Seeded /\ \A w \in Workers : wk[w].pc = "idle"
      /\ \A u \in Uploads : up[u].pc = "start" /\ up[u].after = "start"
      /\ \A r \in Revisions : av[r].todo = {}
  BY DEF Init, StoreInit, WorkerInit, UploadInit, AddVersionInit, Idle
<1> QED
  BY <1>1 DEF Throwless, Attended, ScannedStays, Holding

\* As long as no request throws, and no version is added while two workers are
\* at it, a document whose current version awaits its verdict is in somebody's
\* hands, unless the queue has ignored its last enqueue: its job waits, a worker
\* has it, or the request that inserted the version is still to enqueue it.
\* Workers may die and jobs be repeated at any call, and an event of the audit
\* trail may be lost.
THEOREM NoDocumentIsForgottenHolds ==
    ASSUME FaultPoints \subseteq {"worker", "stall", "audit"},
           Revisions = {} \/ \A v, w \in Workers : v = w
    PROVE  Spec => []NoDocumentIsForgotten
<1>1. Calm /\ LonelyOrUnrevised
  BY DEF Calm, LonelyOrUnrevised
<1> DEFINE Inv == Basics /\ Throwless /\ Attended
<1>2. Init => Inv
  BY BasicsInit, AttendedInit
<1>3. Inv /\ [Next]_vars => Inv'
  BY <1>1, BasicsStep, AttendedStep
<1>4. Inv => NoDocumentIsForgotten
  <2> SUFFICES ASSUME Inv, NEW d \in DOMAIN documents \ (Seeded \cup dropped)
               PROVE  Scanned(d) \/ d \in queue \/ Working(d) \/ Emitting(d) \/ Revising(d)
    BY DEF NoDocumentIsForgotten, InSomeHands
  <2>1. Held(d)
    BY DEF Attended
  <2>2. ASSUME NEW u \in Uploads, Carries(u, d) PROVE Emitting(d)
    BY <2>2, CarriesFiles DEF Emitting
  <2>3. ASSUME NEW r \in Revisions, Renews(r, d) PROVE Revising(d)
    BY <2>3 DEF Revising, Renews, RevisionDone
  <2>4. ASSUME NEW w \in Workers, Decides(w, d) PROVE Working(d)
    BY <2>4 DEF Decides, Working
  <2> QED
    BY <2>1, <2>2, <2>3, <2>4 DEF Held
<1> HIDE DEF Inv
<1> QED
  BY <1>2, <1>3, <1>4, PTL DEF Spec

-----------------------------------------------------------------------------
(* The accounts, when no version is added.                                 *)

\* A request that is past its last file: what it accepted stays accepted.
Sealed == {"emit", "enqueue", "audit", "ok", "threw"}
Past(d) == \A u \in Uploads : \A k \in 1 .. Len(Files[u]) : Files[u][k] = d => up[u].pc \in Sealed

\* A run of the worker that will purge the document, or has begun to.
Cleaning(w) ==
    \/ wk[w].pc \in {"audit", "debit", "deleteBlob", "deleteDocument"}
    \/ AtWorker(w, "stage") /\ wk[w].signature
Purges(w, d) == wk[w].job = d /\ (AtWorker(w, "load") \/ Cleaning(w))

\* A row on record as infected is being purged; what has a job, or had its
\* bytes returned, is of a request that is past; and a document that had a job
\* goes only after its bytes were returned.
Infections ==
    /\ DOMAIN versions \subseteq DOMAIN documents
    /\ \A v \in DOMAIN versions : versions[v].malwareSignature =>
          /\ documents[v].processingState = "processing"
          /\ v \in queue \/ \E w \in Workers : Purges(w, v)
    /\ \A w \in Workers : Cleaning(w) /\ wk[w].version \in DOMAIN versions =>
          versions[wk[w].version].malwareSignature
    /\ \A w \in Workers : AtWorker(w, "claim") => ~wk[w].signature
Kept(d) == d \in DOMAIN versions \/ AlreadyReversed(tenant, d)
JobsOfPast ==
    /\ \A d \in queue : Past(d) /\ Kept(d)
    /\ \A w \in Workers : ~AtWorker(w, "idle") => Past(wk[w].job) /\ Kept(wk[w].job)
    /\ \A d \in ReservationIds : AlreadyReversed(tenant, d) =>
          Past(d) /\ (d \in DOMAIN versions => versions[d].malwareSignature)

Unrevised == Revisions = {}
Sure == Basics /\ Verdicts /\ Cleanup /\ Infections /\ JobsOfPast
-----------------------------------------------------------------------------
\* A version has the id of its document.
LEMMA OneVersion ==
    ASSUME Unrevised, Basics
    PROVE  /\ CleanRevisions
           /\ \A v \in DOMAIN versions : versions[v].documentId = v
           /\ \A d \in DOMAIN documents : documents[d].currentVersionId = d /\ d \in DOMAIN versions
           /\ \A w \in Workers : Holding(w) => wk[w].version = wk[w].job
BY DEF Unrevised, Basics, Pointers, OfDocument, RevisionIds, CleanRevisions

\* Nothing leads back from being past.
LEMMA SealedStays ==
    ASSUME Locals, NEW u \in Uploads, UploadLine(u), UploadStep(u), up[u].pc \in Sealed
    PROVE  up'[u].pc \in Sealed /\ up[u].todo = {}
<1>1. up \in [Uploads -> UploadLocal]
  BY DEF Locals
<1>2. up[u].todo = {} /\ up[u].pc \notin {"undo", "undoAccepted"}
  BY DEF UploadLine, Sealed
<1>3. ASSUME NEW pc \in UploadPcs, HopsTo(u, pc) PROVE up'[u].pc \in Sealed
  BY <1>1, <1>3 DEF HopsTo, Hops, Sealed, Goto, UploadLocal
<1>4. ASSUME NEW calls, NEW after, GivesUp(u, calls, after) PROVE FALSE
  BY <1>4 DEF GivesUp, Filing, Sealed
<1>5. ~TakesBack(u)
  BY DEF TakesBack, At, Sealed
<1>6. ASSUME Emitted(u) PROVE up'[u].pc \in Sealed
  BY <1>1, <1>6 DEF Emitted, Sealed, UploadLocal
<1>7. ASSUME NEW result, Concludes(u, result) PROVE FALSE
  BY <1>7 DEF Concludes, Sealed
<1>8. ASSUME NEW i, RollsFrom(u, i) PROVE FALSE
  BY <1>2, <1>8 DEF RollsFrom
<1> QED
  BY <1>2, <1>3, <1>4, <1>5, <1>6, <1>7, <1>8, UploadMoves

LEMMA PastStays ==
    ASSUME Basics, NEW u \in Uploads, UploadStep(u), NEW d, Past(d)
    PROVE  /\ Past(d)'
           /\ up[u].todo # {} => d # Current(u)
           /\ up[u].pc \in Filing => d # Current(u)
<1>1. /\ Locals /\ UploadLine(u) /\ up \in [Uploads -> UploadLocal]
      /\ \A w \in Uploads \ {u} : up'[w] = up[w]
  BY UploadKeepsLine DEF Basics, InOrder, Locals
<1>2. up[u].pc \in Sealed => up'[u].pc \in Sealed
  BY <1>1, SealedStays
<1>3. \A w \in Uploads : up[w].pc \in Sealed => up'[w].pc \in Sealed
  BY <1>1, <1>2
<1>4. Past(d)'
  BY <1>3 DEF Past
<1>5. up[u].todo # {} => d # Current(u)
  BY <1>1, UndoesOwnFile DEF Past, Sealed, UploadLine
<1>6. up[u].pc \in Filing => d # Current(u)
  BY <1>1, InHand DEF Past, Sealed, Filing
<1> QED
  BY <1>4, <1>5, <1>6

\* What a step of an upload does to the two tables.
LEMMA UploadRowsOf ==
    ASSUME Unrevised, Basics, NEW u \in Uploads, UploadStep(u)
    PROVE  \/ UNCHANGED <<documents, versions>>
           \/ /\ InsertDocument(u) /\ Current(u) \notin DOMAIN versions
              /\ Current(u) \notin Seeded
              /\ DOMAIN versions' = DOMAIN versions \cup {Current(u)}
              /\ DOMAIN documents' = DOMAIN documents \cup {Current(u)}
              /\ ~versions'[Current(u)].malwareSignature
              /\ \A w \in Workers : Holding(w) => wk[w].version # Current(u)
              /\ \A v \in DOMAIN versions : versions'[v] = versions[v]
              /\ \A v \in DOMAIN documents \ {Current(u)} : documents'[v] = documents[v]
           \/ /\ "deleteDocument" \in up[u].todo
              /\ DOMAIN versions' = DOMAIN versions \ {Current(u)}
              /\ DOMAIN documents' = DOMAIN documents \ {Current(u)}
              /\ \A v \in DOMAIN versions' : versions'[v] = versions[v]
              /\ \A v \in DOMAIN documents' : documents'[v] = documents[v]
<1>1. Locals /\ UploadLine(u) /\ up \in [Uploads -> UploadLocal]
  BY DEF Basics, InOrder, Locals
<1>2. CASE InsertDocument(u)
  <2> DEFINE id == Current(u)
             new == NewVersion(id, 1)
             row == [currentVersionId |-> id, processingState |-> "queued"]
  <2>1. /\ versions' = Insert(versions, id, new) /\ documents' = Insert(documents, id, row)
        /\ ~ContentStored(id)
    BY <1>2 DEF InsertDocument, InsertDocumentWithVersion
  <2>2. id \notin DOMAIN versions
    BY <2>1 DEF ContentStored
  <2>3. id \in Ahead(u) /\ id \notin Seeded
    BY <1>1, <1>2, InHand DEF InsertDocument, At, Filing
  <2>4. \A w \in Workers : Holding(w) => wk[w].version # id
    BY <2>3 DEF Basics, InOrder, Unborn, Unknown
  <2>5. ~new.malwareSignature
    BY NewVersions
  <2> HIDE DEF id, new, row
  <2>6. /\ DOMAIN versions' = DOMAIN versions \cup {id} /\ versions'[id] = new
        /\ DOMAIN documents' = DOMAIN documents \cup {id}
        /\ \A v \in DOMAIN versions \ {id} : versions'[v] = versions[v]
        /\ \A v \in DOMAIN documents \ {id} : documents'[v] = documents[v]
    BY <2>1 DEF Insert
  <2> QED
    BY <1>2, <2>2, <2>3, <2>4, <2>5, <2>6 DEF id
<1>3. CASE "deleteDocument" \in up[u].todo /\ DeleteDocument(Current(u))
  <2>1. VersionsOf(Current(u)) = DOMAIN versions \cap {Current(u)}
    BY OneVersion DEF VersionsOf
  <2> QED
    BY <1>3, <2>1 DEF DeleteDocument, Delete, DeleteAll
<1> QED
  BY <1>1, <1>2, <1>3, UploadTables

LEMMA UploadInfections ==
    ASSUME Unrevised, Sure, NEW u \in Uploads, UploadStep(u), UNCHANGED <<av, wk>>
    PROVE  Infections' /\ JobsOfPast'
<1>1. /\ Basics /\ Locals /\ UploadLine(u) /\ up \in [Uploads -> UploadLocal]
      /\ \A w \in Uploads \ {u} : up'[w] = up[w]
  BY UploadKeepsLine DEF Sure, Basics, InOrder, Locals
<1>2. UNCHANGED reversals
  BY <1>1, UploadOnward
<1>3. \A d : AlreadyReversed(tenant, d)' <=> AlreadyReversed(tenant, d)
  BY <1>2 DEF AlreadyReversed
<1>4. ASSUME NEW d, Past(d)
      PROVE  /\ Past(d)'
             /\ d \in DOMAIN versions <=> d \in DOMAIN versions'
             /\ d \in DOMAIN versions => versions'[d] = versions[d]
             /\ Kept(d) => Kept(d)'
  <2>1. Past(d)' /\ (up[u].todo # {} => d # Current(u)) /\ (up[u].pc \in Filing => d # Current(u))
    BY <1>1, <1>4, PastStays
  <2>2. /\ d \in DOMAIN versions <=> d \in DOMAIN versions'
        /\ d \in DOMAIN versions => versions'[d] = versions[d]
    BY <1>1, <2>1, UploadRowsOf DEF InsertDocument, At, Filing
  <2> QED
    BY <1>3, <2>1, <2>2 DEF Kept
<1>5. queue' = queue \/ (EnqueueDocument(u) /\ queue' = queue \cup {Current(u)})
  BY <1>1, UploadQueue
<1>6. ASSUME EnqueueDocument(u) PROVE Past(Current(u)) /\ Kept(Current(u))
  <2> DEFINE d == Current(u)
  <2>1. up[u].pc = "enqueue" /\ d = up[u].created[up[u].i] /\ up[u].i \in DOMAIN up[u].created
    BY <1>1, <1>6, UploadFields DEF EnqueueDocument, At, Current, UploadLine, AfterBatch
  <2>2. d \in CreatedIds(u) /\ d \in Taken(u)
    BY <2>1 DEF CreatedIds, Taken
  <2>3. d \in DOMAIN documents \/ Purged(d)
    BY <2>1, <2>2 DEF Sure, Cleanup, Rolling
  <2>4. PICK k \in 1 .. Len(Files[u]) : d = Files[u][k]
    BY <1>1, <2>2, TakenAreFiled
  <2>5. \A w \in Uploads : \A l \in 1 .. Len(Files[w]) : Files[w][l] = d => w = u
    BY <2>4, AttemptsApart
  <2>6. Kept(d)
    BY <1>1, <2>3, OneVersion DEF Kept, Purged
  <2> QED
    BY <2>1, <2>5, <2>6 DEF Past, Sealed
<1>7. \A d \in queue' : Past(d)' /\ Kept(d)'
  BY <1>4, <1>5, <1>6 DEF Sure, JobsOfPast
<1>8. \A w \in Workers : wk'[w] = wk[w] /\ (wk[w].pc # "idle" => Past(wk[w].job) /\ Kept(wk[w].job))
  BY DEF Sure, JobsOfPast, AtWorker
<1>9. ASSUME NEW w \in Workers, wk'[w].pc # "idle" PROVE Past(wk[w].job)' /\ Kept(wk[w].job)'
  <2> DEFINE d == wk[w].job
  <2>1. Past(d) /\ Kept(d) /\ d = wk'[w].job
    BY <1>8, <1>9
  <2>2. PICK e : e = d
    OBVIOUS
  <2>3. Past(e)' /\ Kept(e)' /\ e = wk'[w].job
    BY <1>4, <2>1, <2>2
  <2> QED
    BY <2>3 DEF Past, Kept, AlreadyReversed
<1>10. ASSUME NEW d \in ReservationIds, AlreadyReversed(tenant, d)
       PROVE  Past(d)' /\ (d \in DOMAIN versions' => versions'[d].malwareSignature)
  BY <1>4, <1>10 DEF Sure, JobsOfPast
<1>11. JobsOfPast'
  BY <1>3, <1>7, <1>9, <1>10 DEF JobsOfPast, AtWorker
<1>12. ASSUME NEW v \in DOMAIN versions'
       PROVE  /\ v \in DOMAIN documents'
              /\ versions'[v].malwareSignature =>
                    /\ v \in DOMAIN versions /\ versions[v].malwareSignature
                    /\ documents'[v] = documents[v]
  BY <1>1, <1>12, UploadRowsOf DEF Sure, Infections
<1>13. ASSUME NEW v \in DOMAIN versions', versions'[v].malwareSignature
       PROVE  /\ documents'[v].processingState = "processing"
              /\ v \in queue' \/ \E w \in Workers : Purges(w, v)'
  <2>1. v \in DOMAIN versions /\ versions[v].malwareSignature /\ documents'[v] = documents[v]
    BY <1>12, <1>13
  <2>2. \A w \in Workers : Purges(w, v) => Purges(w, v)'
    BY <1>8 DEF Purges, Cleaning, AtWorker
  <2> QED
    BY <1>5, <2>1, <2>2 DEF Sure, Infections
<1>14. ASSUME NEW w \in Workers, Cleaning(w)', wk'[w].version \in DOMAIN versions'
       PROVE  versions'[wk'[w].version].malwareSignature
  <2>1. Cleaning(w) /\ Holding(w) /\ wk[w].version \in DOMAIN versions'
    BY <1>8, <1>14 DEF Cleaning, AtWorker, Holding
  <2>2. wk[w].version \in DOMAIN versions /\ versions'[wk[w].version] = versions[wk[w].version]
    BY <1>1, <2>1, UploadRowsOf
  <2> QED
    BY <1>8, <2>1, <2>2 DEF Sure, Infections
<1> QED
  BY <1>8, <1>11, <1>12, <1>13, <1>14 DEF Sure, Infections, AtWorker

\* The mark takes effect.
Marks(w) == MarkMalwareDetected(w) /\ CanMarkInfected(wk[w].job, wk[w].version)

\* What a step of a worker does to the two tables.
LEMMA WorkerRowsOf ==
    ASSUME Unrevised, Basics, NEW w \in Workers, WorkerStep(w)
    PROVE  /\ \A v \in DOMAIN versions' :
                 /\ v \in DOMAIN versions
                 /\ versions'[v].malwareSignature =>
                       versions[v].malwareSignature \/ (Marks(w) /\ v = wk[w].job)
                 /\ versions[v].malwareSignature => versions'[v].malwareSignature
           /\ \A v \in DOMAIN versions : v \in DOMAIN versions' \/ (DeleteInfectedDocument(w) /\ v = wk[w].job)
           /\ DeleteInfectedDocument(w) => wk[w].job \notin DOMAIN versions'
           /\ \A d \in DOMAIN documents :
                 \/ /\ d \in DOMAIN documents'
                    /\ documents[d].processingState = "processing" => documents'[d] = documents[d]
                 \/ d \notin DOMAIN versions'
           /\ Marks(w) => /\ wk[w].version = wk[w].job /\ wk[w].job \in DOMAIN documents
                          /\ documents[wk[w].job].processingState = "processing"
<1> DEFINE job == wk[w].job
<1>0. /\ wk \in [Workers -> WorkerLocal] /\ documents \in [DOMAIN documents -> Rows]
      /\ \A v \in DOMAIN versions : IsVersion(versions[v])
  BY DEF Basics, Locals, Tables
<1>1. Marks(w) => /\ wk[w].version = job /\ job \in DOMAIN documents
                  /\ documents[job].processingState = "processing"
  BY OneVersion DEF Marks, MarkMalwareDetected, Holding, AtWorker, CanMarkInfected, IsClaimed
<1>2. CASE UNCHANGED <<documents, versions>>
  <2>1. ~Marks(w) \/ Marks(w)
    OBVIOUS
  <2>2. DeleteInfectedDocument(w) => job \notin DOMAIN versions'
    BY OneVersion DEF DeleteInfectedDocument, DeleteDocument, DeleteAll, VersionsOf
  <2> QED
    BY <1>1, <1>2, <2>2
<1>3. CASE Claim(w)
  <2>1. ~DeleteInfectedDocument(w) /\ UNCHANGED versions
    BY <1>3 DEF Claim, DeleteInfectedDocument, AtWorker
  <2>2. ASSUME NEW d \in DOMAIN documents
        PROVE  d \in DOMAIN documents' /\ (documents[d].processingState = "processing" => documents'[d] = documents[d])
    <3>1. CASE UNCHANGED documents
      BY <3>1
    <3>2. CASE /\ documents' = [documents EXCEPT ![job].processingState = "processing"]
               /\ documents[job].processingState = "queued"
      <4> HIDE DEF job
      <4>1. CASE d = job
        BY <3>2, <4>1
      <4>2. CASE d # job
        BY <3>2, <4>2
      <4> QED
        BY <4>1, <4>2
    <3> QED
      BY <1>3, <3>1, <3>2 DEF Claim
  <2> QED
    BY <1>1, <2>1, <2>2
<1>4. CASE MarkScanComplete(w) \/ MarkMalwareDetected(w)
  <2> DEFINE x == wk[w].version
  <2>1. UNCHANGED documents /\ ~DeleteInfectedDocument(w)
    BY <1>4 DEF MarkScanComplete, MarkMalwareDetected, DeleteInfectedDocument, AtWorker
  <2>2. \/ UNCHANGED versions
        \/ versions' = [versions EXCEPT ![x].malwareScannedAt = TRUE]
        \/ versions' = [versions EXCEPT ![x].malwareSignature = TRUE] /\ Marks(w) /\ x = job
    BY <1>1, <1>4 DEF MarkScanComplete, MarkMalwareDetected, Marks
  <2>3. DOMAIN versions' = DOMAIN versions
    BY <2>2
  <2>4. ASSUME NEW v \in DOMAIN versions
        PROVE  /\ versions'[v].malwareSignature =>
                     versions[v].malwareSignature \/ (Marks(w) /\ v = job)
               /\ versions[v].malwareSignature => versions'[v].malwareSignature
    <3>1. DOMAIN versions[v] = {"documentId", "versionNumber", "malwareScannedAt", "malwareSignature"}
      BY <1>0 DEF IsVersion
    <3>2. CASE UNCHANGED versions
      BY <3>2
    <3> HIDE DEF x, job
    <3>3. CASE versions' = [versions EXCEPT ![x].malwareScannedAt = TRUE]
      <4>1. versions'[v].malwareSignature = versions[v].malwareSignature
        BY <3>1, <3>3
      <4> QED
        BY <4>1
    <3>4. CASE versions' = [versions EXCEPT ![x].malwareSignature = TRUE] /\ Marks(w) /\ x = job
      <4>1. CASE v = x
        <5>1. versions'[v].malwareSignature = TRUE
          BY <3>1, <3>4, <4>1
        <5> QED
          BY <3>4, <4>1, <5>1
      <4>2. CASE v # x
        BY <3>4, <4>2
      <4> QED
        BY <4>1, <4>2
    <3> QED
      BY <2>2, <3>2, <3>3, <3>4
  <2> QED
    BY <1>1, <2>1, <2>3, <2>4
<1>5. CASE DeleteInfectedDocument(w)
  <2>1. VersionsOf(job) = DOMAIN versions \cap {job}
    BY OneVersion DEF VersionsOf
  <2>2. /\ DOMAIN versions' = DOMAIN versions \ {job} /\ DOMAIN documents' = DOMAIN documents \ {job}
        /\ \A v \in DOMAIN versions' : versions'[v] = versions[v]
        /\ \A d \in DOMAIN documents' : documents'[d] = documents[d]
    BY <1>5, <2>1 DEF DeleteInfectedDocument, DeleteDocument, Delete, DeleteAll
  <2> QED
    BY <1>1, <1>5, <2>2
<1> QED
  BY <1>2, <1>3, <1>4, <1>5, WorkerTables

\* What it does to the jobs.
LEMMA WorkerJobs ==
    ASSUME Basics, NEW w \in Workers, WorkerStep(w)
    PROVE  /\ wk' \in [Workers -> WorkerLocal] /\ \A x \in Workers \ {w} : wk'[x] = wk[x]
           /\ \A d \in queue' : d \in queue \/ (wk[w].pc # "idle" /\ d = wk[w].job)
           /\ wk'[w].pc # "idle" => \/ wk[w].pc # "idle" /\ wk'[w].job = wk[w].job
                                    \/ wk'[w].job \in queue
           /\ \A d \in queue : d \in queue' \/ (wk'[w].job = d /\ wk'[w].pc = "load")
<1>1. /\ wk \in [Workers -> WorkerLocal] /\ wk' \in [Workers -> WorkerLocal]
      /\ \A x \in Workers \ {w} : wk'[x] = wk[x]
  BY WorkerKeepsHold DEF Basics, Locals
<1>2. CASE Deliver(w)
  <2>1. PICK d \in queue : /\ queue' = queue \ {d}
                           /\ wk' = [wk EXCEPT ![w] = [Idle EXCEPT !.pc = "load", !.job = d]]
    BY <1>2 DEF Deliver
  <2>2. wk'[w].job = d /\ wk'[w].pc = "load"
    BY <1>1, <2>1 DEF Idle
  <2> QED
    BY <1>1, <2>1, <2>2
<1>3. CASE WorkerFails(w)
  BY <1>1, <1>3 DEF WorkerFails, Return, Idle, AtWorker
<1>4. CASE Stall(w)
  BY <1>1, <1>4 DEF Stall, Enqueue, AtWorker
<1>5. CASE \/ Load(w) \/ Claim(w) \/ Scan(w) \/ MarkScanComplete(w) \/ MarkMalwareDetected(w)
           \/ AuditMalware(w) \/ DebitQuota(w) \/ DeleteInfectedBlob(w) \/ DeleteInfectedDocument(w)
  <2>1. UNCHANGED queue /\ wk[w].pc # "idle"
    BY <1>5 DEF Load, Claim, Scan, MarkScanComplete, MarkMalwareDetected, AuditMalware, DebitQuota,
       DeleteInfectedBlob, DeleteInfectedDocument, storeVars, Record, DeleteBlob, DeleteDocument, AtWorker
  <2>2. Return(w) \/ wk'[w].job = wk[w].job
    <3>1. Load(w) => Return(w) \/ wk'[w].job = wk[w].job
      BY <1>1 DEF Load
    <3>2. ASSUME ~Load(w) PROVE Return(w) \/ \E pc \in WorkerPcs : WorkerTo(w, pc)
      BY <1>5, <3>2 DEF Claim, Scan, MarkScanComplete, MarkMalwareDetected, AuditMalware, DebitQuota,
         DeleteInfectedBlob, DeleteInfectedDocument, WorkerPcs
    <3>3. ASSUME NEW pc \in WorkerPcs, WorkerTo(w, pc) PROVE wk'[w].job = wk[w].job
      BY <1>1, <3>3 DEF WorkerTo, WorkerLocal
    <3> QED
      BY <3>1, <3>2, <3>3
  <2>3. Return(w) => wk'[w].pc = "idle"
    BY <1>1 DEF Return, Idle
  <2> QED
    BY <1>1, <2>1, <2>2, <2>3
<1> QED
  BY <1>2, <1>3, <1>4, <1>5 DEF WorkerStep

\* How a run comes to clean up, and what it does until the row is gone.
LEMMA WorkerCleans ==
    ASSUME Unrevised, Basics, Infections, NEW w \in Workers, WorkerStep(w)
    PROVE  /\ AtWorker(w, "claim")' => ~wk'[w].signature
           /\ Cleaning(w)' => \/ Cleaning(w) /\ wk'[w].version = wk[w].version
                              \/ Marks(w) /\ wk'[w].version = wk[w].job
                              \/ /\ wk'[w].version \in DOMAIN versions
                                 /\ versions[wk'[w].version].malwareSignature
           /\ Marks(w) => wk'[w].job = wk[w].job /\ Cleaning(w)'
           /\ \A d \in DOMAIN documents :
                 /\ Purges(w, d) /\ versions[d].malwareSignature
                 /\ documents[d].processingState = "processing"
                 => Purges(w, d)' \/ d \in queue' \/ DeleteInfectedDocument(w)
<1>1. wk \in [Workers -> WorkerLocal] /\ wk' \in [Workers -> WorkerLocal]
  BY WorkerKeepsHold DEF Basics, Locals
<1> DEFINE s == wk[w]
           Goal(d) == Purges(w, d)' \/ d \in queue' \/ DeleteInfectedDocument(w)
           Came == \/ Cleaning(w) /\ wk'[w].version = wk[w].version
                   \/ Marks(w) /\ wk'[w].version = wk[w].job
                   \/ /\ wk'[w].version \in DOMAIN versions
                      /\ versions[wk'[w].version].malwareSignature
<1>2. ASSUME NEW pc \in WorkerPcs, WorkerTo(w, pc)
      PROVE  /\ wk'[w].pc = pc /\ wk'[w].job = s.job /\ wk'[w].version = s.version
             /\ wk'[w].signature = s.signature
  BY <1>1, <1>2 DEF WorkerTo, WorkerLocal
<1>3. ASSUME Return(w) PROVE ~Cleaning(w)' /\ wk'[w].pc = "idle" /\ ~AtWorker(w, "claim")'
  BY <1>1, <1>3 DEF Return, Idle, Cleaning, AtWorker
<1>4. CASE Load(w)
  <2> DEFINE d == s.job
             v == documents[d].currentVersionId
             to == IF documents[d].processingState = "queued" THEN "claim" ELSE "stage"
             snap == [pc |-> to, job |-> d, version |-> v, scanned |-> versions[v].malwareScannedAt,
                      signature |-> versions[v].malwareSignature]
  <2>1. ~Marks(w) /\ ~DeleteInfectedDocument(w) /\ s.pc = "load"
    BY <1>4 DEF Load, Marks, MarkMalwareDetected, DeleteInfectedDocument, AtWorker
  <2>2. CASE Return(w) /\ (d \notin DOMAIN documents \/ documents[d].processingState \in {"ready", "failed"})
    BY <1>3, <2>1, <2>2 DEF Purges
  <2>3. CASE d \in DOMAIN documents /\ wk' = [wk EXCEPT ![w] = snap]
    <3>1. /\ wk'[w].pc = to /\ wk'[w].job = d /\ wk'[w].version = v
          /\ wk'[w].signature = versions[v].malwareSignature
      <4> HIDE DEF to, v, d
      <4> QED
        BY <1>1, <2>3
    <3>2. v = d /\ v \in DOMAIN versions
      BY <2>3, OneVersion
    <3> HIDE DEF v, d
    <3>3. Cleaning(w)' => versions[v].malwareSignature
      BY <3>1 DEF Cleaning, AtWorker, to
    <3>4. ASSUME NEW e \in DOMAIN documents, Purges(w, e), versions[e].malwareSignature,
                 documents[e].processingState = "processing"
          PROVE  Purges(w, e)'
      <4>1. e = d
        BY <3>4 DEF Purges, d
      <4>2. wk'[w].pc = "stage" /\ wk'[w].signature /\ wk'[w].job = e
        BY <3>1, <3>2, <3>4, <4>1 DEF to
      <4> QED
        BY <4>2 DEF Purges, Cleaning, AtWorker
    <3>5. wk'[w].pc = "claim" => ~wk'[w].signature
      BY <2>3, <3>1, <3>2 DEF Infections, to
    <3> QED
      BY <2>1, <3>1, <3>2, <3>3, <3>4, <3>5 DEF AtWorker
  <2> QED
    BY <1>4, <2>2, <2>3 DEF Load
<1>5. CASE Scan(w)
  <2>1. ~Marks(w) /\ s.pc = "stage"
    BY <1>5 DEF Scan, Marks, MarkMalwareDetected, AtWorker
  <2>2. CASE s.signature /\ WorkerTo(w, "audit")
    <3>1. wk'[w].pc = "audit" /\ wk'[w].job = s.job /\ wk'[w].version = s.version
      BY <1>2, <2>2 DEF WorkerPcs
    <3> QED
      BY <2>1, <2>2, <3>1 DEF Cleaning, Purges, AtWorker
  <2>3. CASE ~s.signature
    <3>1. Return(w) \/ \E pc \in {"markClean", "markInfected"} : WorkerTo(w, pc)
      BY <1>5, <2>3 DEF Scan
    <3>2. ~Cleaning(w)' /\ wk'[w].pc # "claim"
      BY <1>2, <1>3, <3>1 DEF Cleaning, WorkerPcs, AtWorker
    <3> QED
      BY <2>1, <2>3, <3>2 DEF Purges, Cleaning, AtWorker
  <2> QED
    BY <1>5, <2>2, <2>3 DEF Scan
<1>6. CASE AuditMalware(w) \/ DebitQuota(w) \/ DeleteInfectedBlob(w)
  <2>1. Cleaning(w) /\ \E pc \in {"debit", "deleteBlob", "deleteDocument"} : WorkerTo(w, pc)
    BY <1>6 DEF AuditMalware, DebitQuota, DeleteInfectedBlob, Cleaning, AtWorker
  <2>2. /\ Cleaning(w)' /\ wk'[w].job = s.job /\ wk'[w].version = s.version
        /\ wk'[w].pc # "claim"
    BY <1>2, <2>1 DEF Cleaning, WorkerPcs
  <2>3. ~Marks(w)
    BY <1>6 DEF AuditMalware, DebitQuota, DeleteInfectedBlob, Marks, MarkMalwareDetected, AtWorker
  <2> QED
    BY <2>1, <2>2, <2>3 DEF Purges, AtWorker
<1>7. CASE MarkMalwareDetected(w)
  <2>1. ASSUME Marks(w) PROVE wk'[w].pc = "audit" /\ wk'[w].job = s.job /\ wk'[w].version = s.version /\ s.version = s.job
    BY <1>2, <1>7, <2>1, WorkerRowsOf DEF Marks, MarkMalwareDetected, WorkerPcs
  <2>2. ~Marks(w) => Return(w)
    BY <1>7 DEF Marks, MarkMalwareDetected
  <2>3. ~Cleaning(w) /\ ~AtWorker(w, "load")
    BY <1>7 DEF MarkMalwareDetected, Cleaning, AtWorker
  <2> QED
    BY <1>3, <2>1, <2>2, <2>3 DEF Cleaning, Purges, AtWorker
<1>8. CASE Deliver(w) \/ MarkScanComplete(w) \/ Claim(w)
  <2>1. ~Marks(w) /\ ~Cleaning(w) /\ ~AtWorker(w, "load")
    BY <1>8 DEF Deliver, MarkScanComplete, Claim, Marks, MarkMalwareDetected, Cleaning, AtWorker
  <2>2. Claim(w) => ~s.signature /\ (Return(w) \/ WorkerTo(w, "stage"))
    BY DEF Claim, Infections
  <2>3. Deliver(w) => wk'[w].pc = "load"
    BY <1>1 DEF Deliver, Idle
  <2>4. wk'[w].pc # "claim" /\ ~Cleaning(w)'
    BY <1>2, <1>3, <1>8, <2>2, <2>3 DEF MarkScanComplete, Cleaning, AtWorker, WorkerPcs
  <2> QED
    BY <2>1, <2>4 DEF Purges, AtWorker
<1>9. CASE WorkerFails(w)
  <2>1. Return(w) /\ s.job \in queue' /\ ~Marks(w)
    BY <1>1, <1>9 DEF WorkerFails, Marks, MarkMalwareDetected, Return, WorkerTo, Idle, WorkerLocal
  <2> QED
    BY <1>3, <2>1 DEF Purges
<1>10. CASE Stall(w)
  <2>1. wk' = wk /\ ~Marks(w)
    BY <1>1, <1>10 DEF Stall, Marks, MarkMalwareDetected, Return, WorkerTo, Idle, WorkerLocal, AtWorker
  <2> QED
    BY <2>1 DEF Purges, Cleaning, AtWorker, Infections
<1>11. CASE DeleteInfectedDocument(w)
  <2>1. Return(w) /\ ~Marks(w)
    BY <1>11 DEF DeleteInfectedDocument, Marks, MarkMalwareDetected, AtWorker
  <2> QED
    BY <1>3, <1>11, <2>1
<1> QED
  BY <1>4, <1>5, <1>6, <1>7, <1>8, <1>9, <1>10, <1>11 DEF WorkerStep

LEMMA WorkerInfections ==
    ASSUME Unrevised, Sure, NEW w \in Workers, WorkerStep(w), UNCHANGED <<up, av>>
    PROVE  Infections' /\ JobsOfPast'
<1> DEFINE job == wk[w].job
<1>1. /\ Basics /\ Infections /\ \A x \in Workers : Ordered(x)
      /\ \A x \in Workers \ {w} : wk'[x] = wk[x]
      /\ \A x \in Workers : x = w \/ wk'[x] = wk[x]
      /\ DOMAIN documents' \subseteq ReservationIds /\ DOMAIN versions \subseteq ReservationIds
  BY WorkerJobs, WorkerBasics DEF Sure, Cleanup, Basics, Tables
<1>2. \A d : Past(d)' <=> Past(d)
  BY DEF Past
<1>3. \A d : /\ AlreadyReversed(tenant, d) => AlreadyReversed(tenant, d)'
             /\ AlreadyReversed(tenant, d)' => AlreadyReversed(tenant, d) \/ (DebitQuota(w) /\ d = job)
  BY <1>1, WorkerOnward DEF AlreadyReversed, Onward
<1>4. DeleteInfectedDocument(w) => AlreadyReversed(tenant, job)
  BY <1>1 DEF DeleteInfectedDocument, Ordered, AtWorker
<1>5. ASSUME NEW d, Kept(d) PROVE Kept(d)'
  <2>1. CASE d \in DOMAIN versions
    BY <1>1, <1>3, <1>4, <2>1, WorkerRowsOf DEF Kept
  <2>2. CASE AlreadyReversed(tenant, d)
    BY <1>3, <2>2 DEF Kept
  <2> QED
    BY <1>5, <2>1, <2>2 DEF Kept
<1>6. wk[w].pc # "idle" => Past(job) /\ Kept(job)
  BY DEF Sure, JobsOfPast, AtWorker
<1>7. ASSUME NEW d \in queue' PROVE Past(d)' /\ Kept(d)'
  <2>1. d \in queue \/ (wk[w].pc # "idle" /\ d = job)
    BY <1>1, WorkerJobs
  <2>2. Past(d) /\ Kept(d)
    BY <1>6, <2>1 DEF Sure, JobsOfPast
  <2> QED
    BY <1>2, <1>5, <2>2
<1>8. ASSUME NEW x \in Workers, wk'[x].pc # "idle" PROVE Past(wk[x].job)' /\ Kept(wk[x].job)'
  <2>1. PICK d : d = wk'[x].job
    OBVIOUS
  <2>2. \/ wk[x].pc # "idle" /\ d = wk[x].job
        \/ d \in queue
    BY <1>1, <1>8, <2>1, WorkerJobs
  <2>3. Past(d) /\ Kept(d)
    BY <2>2 DEF Sure, JobsOfPast, AtWorker
  <2>4. Past(d)' /\ Kept(d)'
    BY <1>2, <1>5, <2>3
  <2> QED
    BY <2>1, <2>4 DEF Past, Kept, AlreadyReversed
<1>9. ASSUME NEW d \in ReservationIds, AlreadyReversed(tenant, d)'
      PROVE  Past(d)' /\ (d \in DOMAIN versions' => versions'[d].malwareSignature)
  <2>1. CASE AlreadyReversed(tenant, d)
    BY <1>1, <1>2, <2>1, WorkerRowsOf DEF Sure, JobsOfPast
  <2>2. CASE DebitQuota(w) /\ d = job
    <3>1. Cleaning(w) /\ Holding(w) /\ wk[w].pc # "idle" /\ UNCHANGED versions
      BY <2>2 DEF DebitQuota, Cleaning, Holding, AtWorker, storeVars
    <3>2. wk[w].version = job
      BY <1>1, <3>1, OneVersion
    <3>3. job \in DOMAIN versions => versions[job].malwareSignature
      BY <1>1, <3>1, <3>2 DEF Infections
    <3> QED
      BY <1>2, <1>6, <2>2, <3>1, <3>3
  <2> QED
    BY <1>3, <1>9, <2>1, <2>2
<1>10. JobsOfPast'
  BY <1>7, <1>8, <1>9 DEF JobsOfPast, AtWorker
<1>11. DOMAIN versions' \subseteq DOMAIN documents'
  BY <1>1, WorkerRowsOf DEF Infections
<1>12. ASSUME NEW v \in DOMAIN versions', versions'[v].malwareSignature
       PROVE  /\ documents'[v].processingState = "processing"
              /\ v \in queue' \/ \E x \in Workers : Purges(x, v)'
  <2>1. v \in DOMAIN versions /\ v \in DOMAIN documents
    BY <1>1, <1>12, WorkerRowsOf DEF Infections
  <2>2. CASE Marks(w) /\ v = job
    <3>1. documents[v].processingState = "processing"
      BY <1>1, <2>2, WorkerRowsOf
    <3>2. Purges(w, v)'
      BY <1>1, <2>2, WorkerCleans DEF Purges
    <3> QED
      BY <1>1, <1>12, <2>1, <3>1, <3>2, WorkerRowsOf
  <2>3. CASE versions[v].malwareSignature
    <3>1. documents[v].processingState = "processing"
      BY <1>1, <2>1, <2>3 DEF Infections
    <3>2. documents'[v].processingState = "processing"
      BY <1>1, <1>12, <2>1, <3>1, WorkerRowsOf
    <3>3. CASE v \in queue
      <4>1. v \in queue' \/ Purges(w, v)'
        BY <1>1, <3>3, WorkerJobs DEF Purges, AtWorker
      <4> QED
        BY <3>2, <4>1
    <3>4. CASE Purges(w, v)
      <4>1. ~DeleteInfectedDocument(w)
        BY <1>1, <1>12, <3>4, WorkerRowsOf DEF Purges
      <4>2. Purges(w, v)' \/ v \in queue'
        BY <1>1, <2>1, <2>3, <3>1, <3>4, <4>1, WorkerCleans
      <4> QED
        BY <3>2, <4>2
    <3>5. ASSUME NEW x \in Workers \ {w}, Purges(x, v) PROVE Purges(x, v)'
      BY <1>1, <3>5 DEF Purges, Cleaning, AtWorker
    <3> QED
      BY <1>1, <2>1, <2>3, <3>2, <3>3, <3>4, <3>5 DEF Infections
  <2> QED
    BY <1>1, <1>12, <2>2, <2>3, WorkerRowsOf
<1>13. ASSUME NEW x \in Workers, Cleaning(x)', wk'[x].version \in DOMAIN versions'
       PROVE  versions'[wk'[x].version].malwareSignature
  <2>1. PICK v : v = wk'[x].version
    OBVIOUS
  <2>2. v \in DOMAIN versions /\ (versions[v].malwareSignature => versions'[v].malwareSignature)
    BY <1>1, <1>13, <2>1, WorkerRowsOf
  <2>3. CASE x # w
    <3>1. Cleaning(x) /\ v = wk[x].version
      BY <1>1, <1>13, <2>1, <2>3 DEF Cleaning, AtWorker
    <3> QED
      BY <1>1, <2>1, <2>2, <3>1 DEF Infections
  <2>4. CASE x = w
    <3>1. CASE Cleaning(w) /\ v = wk[w].version
      BY <1>1, <2>1, <2>2, <3>1 DEF Infections
    <3>2. CASE Marks(w) /\ v = job
      <4>1. versions'[v].malwareSignature
        <5>2. wk[w].version = v
          BY <1>1, <3>2, WorkerRowsOf
        <5>3. versions' = [versions EXCEPT ![v].malwareSignature = TRUE]
          BY <3>2, <5>2 DEF Marks, MarkMalwareDetected
        <5>4. IsVersion(versions[v])
          BY <1>1, <2>2 DEF Basics, Tables
        <5>5. "malwareSignature" \in DOMAIN versions[v]
          BY <5>4 DEF IsVersion
        <5> QED
          BY <2>2, <5>3, <5>5
      <4> QED
        BY <2>1, <4>1
    <3>3. CASE v \in DOMAIN versions /\ versions[v].malwareSignature
      BY <2>1, <2>2, <3>3
    <3> QED
      BY <1>1, <1>13, <2>1, <2>4, <3>1, <3>2, <3>3, WorkerCleans
  <2> QED
    BY <2>3, <2>4
<1>14. ASSUME NEW x \in Workers, AtWorker(x, "claim")' PROVE ~wk'[x].signature
  BY <1>1, <1>14, WorkerCleans DEF Infections, AtWorker
<1> QED
  BY <1>10, <1>11, <1>12, <1>13, <1>14 DEF Infections

-----------------------------------------------------------------------------
(* The accounts. *)

\* What a request still holds of the attempt it works on: a reservation, a blob
\* without a row, a row it will delete, a row whose bytes the counter does not
\* have yet, or no longer, and bytes of a row that is gone.
Reserving(u) == up[u].pc \in {"put", "validate", "insert", "commit"} \/ "release" \in up[u].todo
Unfiled(u) == up[u].pc \in {"validate", "insert"} \/ "deleteBlob" \in up[u].todo
Doomed(u) == "deleteDocument" \in up[u].todo
Unpaid(u) == At(u, "commit") \/ (Doomed(u) /\ "revert" \notin up[u].todo)
Owed(u) == "revert" \in up[u].todo /\ ~Doomed(u)

\* The versions whose bytes the counter holds.
Charged(d) ==
    \/ /\ d \in DOMAIN versions /\ ~AlreadyReversed(tenant, d)
       /\ \A u \in Uploads : Unpaid(u) => Current(u) # d
    \/ \E u \in Uploads : Owed(u) /\ Current(u) = d
ChargedIds == {d \in ReservationIds : Charged(d)}

\* Where the attempt stands in the tables, and the ones to be taken back next.
InTables(u) ==
    /\ Doomed(u) \/ Unpaid(u) => Current(u) \in DOMAIN versions
    /\ up[u].todo # {} /\ Current(u) \in DOMAIN versions => Doomed(u)
    /\ up[u].pc \in {"validate", "insert"} => Current(u) \in blobs
    /\ up[u].todo # {} /\ "deleteBlob" \notin up[u].todo => Current(u) \notin blobs
ToUndo(u) ==
    \A j \in DOMAIN up[u].created :
       (At(u, "rollback") /\ j >= up[u].i) \/ (At(u, "undoAccepted") /\ j > up[u].i) =>
          up[u].created[j] \in DOMAIN versions
OnceEach(u) == \A j, k \in DOMAIN up[u].created : up[u].created[j] = up[u].created[k] => j = k

\* The tables and the counter, with what the requests hold.
HeldRows ==
    /\ reservations = [id \in DOMAIN reservations |-> reservations[id]]
    /\ \A d \in DOMAIN reservations : \E u \in Uploads : Reserving(u) /\ Current(u) = d
HeldBlobs ==
    /\ \A d \in blobs : d \in DOMAIN versions \/ \E u \in Uploads : Unfiled(u) /\ Current(u) = d
    /\ \A d \in DOMAIN versions : \/ d \in blobs \/ versions[d].malwareSignature
                                  \/ \E u \in Uploads : Doomed(u) /\ Current(u) = d
Counted == used \in [Tenants -> Int] /\ used[tenant] = StoredBytes(ChargedIds)
Books ==
    /\ HeldRows /\ HeldBlobs /\ Counted
    /\ \A u \in Uploads : InTables(u) /\ ToUndo(u) /\ OnceEach(u)
\* A request that holds something of its attempt.
Holds(u) == up[u].pc \in {"put", "validate", "insert", "commit"} \/ up[u].todo # {}

\* A column's sum with one row more.
LEMMA BytesWith ==
    ASSUME NEW S \in SUBSET ReservationIds, NEW d \in ReservationIds \ S
    PROVE  /\ StoredBytes(S) \in Nat /\ SizeOf(d) \in Nat
           /\ StoredBytes(S \cup {d}) = StoredBytes(S) + SizeOf(d)
<1> DEFINE T == S \cup {d}
           b == [x \in T |-> SizeOf(x)]
<1>1. \A x \in ReservationIds : SizeOf(x) \in Nat
  BY StoreAssumption DEF SizeOf
<1>2. IsFiniteSet(T) /\ IsFiniteSet(S) /\ T \subseteq ReservationIds
  BY FS_Subset, IdsAssumption
<1>3. b \in [T -> Nat] /\ d \in T /\ b[d] = SizeOf(d)
  BY <1>1, <1>2
<1>4. [x \in S |-> SizeOf(x)] \in [S -> Nat]
  BY <1>1
<1>5. StoredBytes(S) \in Nat
  BY <1>2, <1>4, TotalType DEF StoredBytes
<1>6. [x \in T \ {d} |-> b[x]] = [x \in S |-> SizeOf(x)]
  OBVIOUS
<1>7. StoredBytes(T) = TotalBytes(b)
  BY DEF StoredBytes
<1> HIDE DEF b, T
<1>8. TotalBytes(b) = TotalBytes([x \in T \ {d} |-> b[x]]) + b[d]
  BY <1>2, <1>3, TotalRemove
<1>9. TotalBytes(b) = StoredBytes(S) + SizeOf(d)
  BY <1>3, <1>6, <1>8 DEF StoredBytes
<1> QED
  BY <1>1, <1>5, <1>7, <1>9 DEF T

\* What a request holds is a file of its own, and it is not past.
LEMMA HoldsOwnFile ==
    ASSUME Basics, NEW u \in Uploads, Holds(u)
    PROVE  /\ \E k \in 1 .. Len(Files[u]) : Current(u) = Files[u][k]
           /\ Current(u) \in ReservationIds \ Seeded
           /\ ~Past(Current(u)) /\ up[u].pc \notin Sealed
           /\ \A w \in Uploads : Holds(w) /\ Current(w) = Current(u) => w = u
<1>1. ASSUME NEW w \in Uploads, Holds(w) PROVE \E k \in 1 .. Len(Files[w]) : Current(w) = Files[w][k]
  <2>1. up \in [Uploads -> UploadLocal] /\ UploadLine(w) /\ Locals
    BY DEF Basics, Locals, InOrder
  <2>2. CASE up[w].todo # {}
    BY <2>1, <2>2, UndoesOwnFile
  <2>3. CASE up[w].pc \in Filing
    BY <2>1, <2>3, InHand
  <2> QED
    BY <1>1, <2>2, <2>3 DEF Holds, Filing
<1>2. PICK k \in 1 .. Len(Files[u]) : Current(u) = Files[u][k]
  BY <1>1
<1>3. up[u].pc \notin Sealed
  BY DEF Basics, InOrder, UploadLine, Holds, Sealed
<1>4. ~Past(Current(u))
  BY <1>2, <1>3 DEF Past
<1>5. ASSUME NEW w \in Uploads, Holds(w), Current(w) = Current(u) PROVE w = u
  BY <1>1, <1>2, <1>5, AttemptsApart
<1> QED
  BY <1>2, <1>3, <1>4, <1>5, AttemptsApart

\* A request that has not moved holds what it held.
LEMMA SameRequest ==
    ASSUME NEW w \in Uploads, up'[w] = up[w]
    PROVE  /\ Current(w)' = Current(w) /\ Holds(w)' = Holds(w)
           /\ Reserving(w)' = Reserving(w) /\ Unfiled(w)' = Unfiled(w) /\ Doomed(w)' = Doomed(w)
           /\ Unpaid(w)' = Unpaid(w) /\ Owed(w)' = Owed(w)
BY DEF Current, Holds, Reserving, Unfiled, Doomed, Unpaid, Owed, At

\* Whatever is held is held by a request that holds something.
LEMMA HoldingIsHolds ==
    ASSUME Basics, NEW u \in Uploads
    PROVE  Reserving(u) \/ Unfiled(u) \/ Doomed(u) \/ Unpaid(u) \/ Owed(u) => Holds(u)
BY DEF Reserving, Unfiled, Doomed, Unpaid, Owed, Holds, At

\* As long as the accounts can settle, neither of the two calls has thrown.
LEMMA StaysCompensable ==
    ASSUME Basics, (\E point \in FaultPoints : Throws(point)) \/ UNCHANGED faults, Compensable'
    PROVE  Compensable /\ ~Throws("undo") /\ ~Throws("commitAnswer")
<1>1. /\ faults \in [FaultPoints -> Nat] /\ faults' \in [FaultPoints -> Nat]
      /\ \A p \in FaultPoints : faults'[p] >= faults[p]
  BY FaultsCounted DEF Basics, Tables
<1>2. \A p \in FaultPoints : faults[p] \in Nat /\ faults'[p] \in Nat
  BY <1>1
<1>3. \A p \in {"commitAnswer", "undo"} \cap FaultPoints : faults'[p] = 0
  BY DEF Compensable, NeverThrew
<1>4. \A p \in {"commitAnswer", "undo"} \cap FaultPoints : faults[p] = 0
  BY <1>1, <1>2, <1>3
<1>5. ASSUME NEW p \in {"commitAnswer", "undo"}, Throws(p) PROVE FALSE
  <2>1. p \in FaultPoints /\ faults' = [faults EXCEPT ![p] = @ + 1]
    BY <1>5 DEF Throws
  <2>2. faults'[p] = faults[p] + 1
    BY <1>1, <2>1
  <2> QED
    BY <1>2, <1>3, <1>4, <2>1, <2>2
<1> QED
  BY <1>4, <1>5 DEF Compensable, NeverThrew

LEMMA UploadFaults ==
    ASSUME NEW u \in Uploads, UploadStep(u)
    PROVE  (\E point \in FaultPoints : Throws(point)) \/ UNCHANGED faults
BY DEF UploadStep, Begin, Reserve, Refuse, Put, PutThrows, SessionValid, SessionExpired,
   InsertDocument, InsertDuplicate, Commit, CommitThrows, CallThrows, Settle, Settled,
   RollbackBatch, Emit, EnqueueDocument, AuditUpload, Record, Throws

LEMMA WorkerFaults ==
    ASSUME NEW w \in Workers, WorkerStep(w)
    PROVE  (\E point \in FaultPoints : Throws(point)) \/ UNCHANGED faults
BY DEF WorkerStep, Deliver, Load, Claim, Scan, MarkScanComplete, MarkMalwareDetected,
   AuditMalware, DebitQuota, DeleteInfectedBlob, DeleteInfectedDocument, WorkerFails, Stall,
   Record, Throws

LEMMA UploadBlobs ==
    ASSUME Basics, NEW u \in Uploads, UploadStep(u)
    PROVE  \/ UNCHANGED blobs
           \/ up[u].pc = "put" /\ blobs' = blobs \cup {Current(u)}
           \/ "deleteBlob" \in up[u].todo /\ blobs' = blobs \ {Current(u)}
<1>1. CASE \E call \in up[u].todo : Settle(u, call)
  <2>1. PICK call \in up[u].todo : Settle(u, call)
    BY <1>1
  <2>2. call \in UploadCalls
    BY UploadFields DEF Basics, Locals
  <2>3. Compensate(Current(u), call) \/ UNCHANGED storeVars
    BY <2>1 DEF Settle
  <2> QED
    BY <2>1, <2>2, <2>3 DEF Compensate, UploadCalls, DeleteBlob, DeleteDocument, storeVars
<1>2. CASE Put(u) \/ PutThrows(u)
  BY <1>2 DEF Put, PutThrows, PutBlob, storeVars, At
<1>3. CASE \/ Begin(u) \/ Reserve(u) \/ Refuse(u) \/ SessionValid(u) \/ SessionExpired(u)
           \/ InsertDocument(u) \/ InsertDuplicate(u) \/ Commit(u) \/ CommitThrows(u)
           \/ CallThrows(u) \/ Settled(u) \/ RollbackBatch(u) \/ Emit(u) \/ EnqueueDocument(u)
           \/ AuditUpload(u)
  BY <1>3 DEF Begin, Reserve, Refuse, SessionValid, SessionExpired, InsertDocument,
     InsertDuplicate, Commit, CommitThrows, CallThrows, Settled, RollbackBatch, Emit,
     EnqueueDocument, AuditUpload, Record, Enqueue, InsertDocumentWithVersion, storeVars
<1> QED
  BY <1>1, <1>2, <1>3 DEF UploadStep

\* What a request that rolls back has still to take back is on record, each once.
LEMMA RollbackLine ==
    ASSUME Unrevised, Sure, NEW u \in Uploads, UploadStep(u), OnceEach(u), ToUndo(u)
    PROVE  OnceEach(u)' /\ ToUndo(u)'
<1>1. /\ Basics /\ Locals /\ UploadLine(u) /\ up \in [Uploads -> UploadLocal] /\ up[u] \in UploadLocal
  BY DEF Sure, Basics, InOrder, Locals
<1>2. /\ up[u].i \in Nat \ {0} /\ Len(up[u].created) \in Nat
      /\ up[u].created \in Seq(ReservationIds) /\ DOMAIN up[u].created = 1 .. Len(up[u].created)
  BY <1>1, UploadFields
<1>3. ASSUME up'[u].created = up[u].created PROVE OnceEach(u)'
  BY <1>3 DEF OnceEach
<1>4. ASSUME up'[u].pc \notin {"rollback", "undoAccepted"} PROVE ToUndo(u)'
  BY <1>4 DEF ToUndo, At
<1>5. CASE \E pc \in UploadPcs : HopsTo(u, pc)
  <2>1. PICK pc \in UploadPcs : HopsTo(u, pc)
    BY <1>5
  <2>2. up'[u].pc = pc /\ up'[u].created = up[u].created /\ pc \notin {"rollback", "undoAccepted"}
    BY <1>1, <2>1 DEF HopsTo, Hops, Goto, UploadLocal
  <2> QED
    BY <1>3, <1>4, <2>2
<1>6. CASE \E calls \in SUBSET UploadCalls, after \in {"threw", "rollback", "duplicate"} :
              GivesUp(u, calls, after)
  <2>1. up'[u].pc = "undo" /\ up'[u].created = up[u].created
    BY <1>1, <1>6 DEF GivesUp, Undo, UploadLocal
  <2> QED
    BY <1>3, <1>4, <2>1
<1>7. CASE TakesBack(u)
  <2>1. /\ up'[u].pc = "undoAccepted" /\ up'[u].created = up[u].created /\ up'[u].i = up[u].i
        /\ up[u].pc = "rollback" /\ up[u].todo = {}
    BY <1>1, <1>7 DEF TakesBack, Undo, UploadLocal, UploadLine, At
  <2>2. UNCHANGED versions
    BY <1>1, <2>1, UploadRowsOf DEF InsertDocument, At
  <2>3. ToUndo(u)'
    BY <1>2, <2>1, <2>2 DEF ToUndo, At
  <2> QED
    BY <1>3, <2>1, <2>3
<1>8. CASE \E call \in up[u].todo : Settling(u, call)
  <2>1. /\ up'[u].pc = up[u].pc /\ up'[u].created = up[u].created /\ up'[u].i = up[u].i
        /\ up[u].pc \in {"undo", "undoAccepted"}
    BY <1>1, <1>8 DEF Settling, UploadLocal, UploadLine
  <2>2. CASE up[u].pc = "undoAccepted"
    <3>1. Current(u) = up[u].created[up[u].i] /\ up[u].i \in DOMAIN up[u].created
      BY <1>1, <1>2, <2>2 DEF Current, UploadLine, AfterBatch
    <3>2. \A v \in DOMAIN versions : v = Current(u) \/ v \in DOMAIN versions'
      BY <1>1, <2>2, UploadRowsOf DEF InsertDocument, At
    <3>3. ToUndo(u)'
      BY <1>2, <2>1, <2>2, <3>1, <3>2 DEF ToUndo, OnceEach, At
    <3> QED
      BY <1>3, <2>1, <3>3
  <2> QED
    BY <1>3, <1>4, <2>1, <2>2
<1>9. CASE \E result \in Results : Concludes(u, result)
  <2> DEFINE c == Current(u)
  <2>1. PICK result \in Results : Concludes(u, result)
    BY <1>9
  <2>2. c \notin CreatedIds(u) /\ c \in ReservationIds
    BY <1>1, <2>1, InHand DEF Concludes, Filing
  <2>3. /\ up'[u].pc \in {"emit", "reserve"}
        /\ up'[u].created \in {up[u].created, Append(up[u].created, c)}
    BY <1>1, <2>1 DEF Concludes, Outcome, UploadLocal
  <2> HIDE DEF c
  <2>4. ASSUME up'[u].created = Append(up[u].created, c) PROVE OnceEach(u)'
    <3>1. \A j \in DOMAIN up[u].created : up[u].created[j] # c
      BY <2>2 DEF CreatedIds
    <3>2. PICK s \in Seq(ReservationIds) : s = up[u].created
      BY <1>2
    <3>3. up'[u].created = Append(s, c)
      BY <2>4, <3>2
    <3>4. /\ DOMAIN Append(s, c) = 1 .. Len(s) + 1 /\ Append(s, c)[Len(s) + 1] = c
          /\ \A j \in 1 .. Len(s) : Append(s, c)[j] = s[j]
          /\ Len(s) \in Nat /\ DOMAIN s = 1 .. Len(s)
      BY <2>2
    <3>5. \A j, k \in 1 .. Len(s) : s[j] = s[k] => j = k
      BY <3>2, <3>4 DEF OnceEach
    <3>6. \A j \in 1 .. Len(s) + 1 : j \in 1 .. Len(s) \/ j = Len(s) + 1
      BY <3>4
    <3>7. \A j, k \in 1 .. Len(s) + 1 : Append(s, c)[j] = Append(s, c)[k] => j = k
      BY <3>1, <3>2, <3>4, <3>5, <3>6
    <3> QED
      BY <3>3, <3>4, <3>7 DEF OnceEach
  <2> QED
    BY <1>3, <1>4, <2>3, <2>4
<1>10. CASE \E i \in Nat \ {0} : RollsFrom(u, i)
  <2>1. PICK i \in Nat \ {0} : RollsFrom(u, i)
    BY <1>10
  <2>2. /\ up'[u].pc = "rollback" /\ up'[u].created = up[u].created /\ up'[u].i = i
        /\ up[u].pc \in {"undo", "undoAccepted"} /\ up[u].todo = {}
    BY <1>1, <2>1 DEF RollsFrom, UploadLocal
  <2>3. UNCHANGED versions
    BY <1>1, <2>2, UploadRowsOf DEF InsertDocument, At
  <2>4. ASSUME up[u].pc = "undo", NEW j \in DOMAIN up[u].created
        PROVE  up[u].created[j] \in DOMAIN versions
    <3> DEFINE d == up[u].created[j]
    <3>1. d \in CreatedIds(u) /\ d \in Taken(u)
      BY DEF CreatedIds, Taken
    <3>2. d \in ReservationIds /\ \E k \in 1 .. Len(Files[u]) : d = Files[u][k]
      BY <1>1, <3>1, TakenAreFiled
    <3>3. ~AlreadyReversed(tenant, d)
      BY <2>4, <3>2 DEF Past, Sealed, Sure, JobsOfPast
    <3>4. d \in DOMAIN documents
      BY <2>4, <3>1, <3>3 DEF Sure, Cleanup, Rolling, Purged
    <3> QED
      BY <1>1, <3>4, OneVersion
  <2>5. CASE up[u].pc = "undo"
    BY <1>3, <2>2, <2>3, <2>4, <2>5 DEF ToUndo, At
  <2>6. CASE up[u].pc = "undoAccepted"
    <3>1. i = up[u].i + 1
      BY <2>1, <2>6 DEF RollsFrom, At
    <3>2. \A j \in DOMAIN up[u].created : j >= i => j > up[u].i
      BY <1>2, <3>1
    <3>3. ToUndo(u)'
      BY <1>2, <2>2, <2>3, <2>6, <3>2 DEF ToUndo, At
    <3> QED
      BY <1>3, <2>2, <3>3
  <2> QED
    BY <2>2, <2>5, <2>6
<1>11. CASE Emitted(u)
  <2>1. up'[u].pc = "emit" /\ up'[u].created = up[u].created
    BY <1>1, <1>11 DEF Emitted, UploadLocal
  <2> QED
    BY <1>3, <1>4, <2>1
<1> QED
  BY <1>1, <1>5, <1>6, <1>7, <1>8, <1>9, <1>10, <1>11, UploadMoves

\* A step elsewhere, on a version and a blob that are none of its files, leaves a
\* request where it stands.
LEMMA LineStays ==
    ASSUME Basics, NEW w \in Uploads, up'[w] = up[w], InTables(w), ToUndo(w), OnceEach(w), NEW e,
           \A d : d # e => /\ d \in DOMAIN versions' <=> d \in DOMAIN versions
                           /\ d \in blobs' <=> d \in blobs,
           (\A k \in 1 .. Len(Files[w]) : Files[w][k] # e) \/ up[w].pc \in Sealed
    PROVE  InTables(w)' /\ ToUndo(w)' /\ OnceEach(w)'
<1>1. /\ Current(w)' = Current(w) /\ Doomed(w)' = Doomed(w) /\ Unpaid(w)' = Unpaid(w)
  BY SameRequest
<1>2. Holds(w) => Current(w) # e
  BY HoldsOwnFile
<1>3. /\ Doomed(w) \/ Unpaid(w) \/ up[w].todo # {} \/ up[w].pc \in {"validate", "insert"} => Holds(w)
  BY HoldingIsHolds DEF Holds
<1>4. InTables(w)'
  <2>1. PICK c : c = Current(w)
    OBVIOUS
  <2>2. Holds(w) => /\ c \in DOMAIN versions' <=> c \in DOMAIN versions
                    /\ c \in blobs' <=> c \in blobs
    BY <1>2, <2>1
  <2> QED
    BY <1>1, <1>3, <2>1, <2>2 DEF InTables
<1>5. ASSUME NEW j \in DOMAIN up[w].created, up[w].pc \in {"rollback", "undoAccepted"}
      PROVE  up[w].created[j] # e
  <2>1. up[w].created[j] \in Taken(w)
    BY DEF Taken, CreatedIds
  <2> QED
    BY <1>5, <2>1, TakenAreFiled DEF Sealed
<1>6. ToUndo(w)'
  BY <1>5 DEF ToUndo, At
<1>7. OnceEach(w)'
  BY DEF OnceEach
<1> QED
  BY <1>4, <1>6, <1>7

LEMMA OthersLine ==
    ASSUME Unrevised, Sure, NEW u \in Uploads, UploadStep(u), NEW w \in Uploads \ {u},
           InTables(w), ToUndo(w), OnceEach(w)
    PROVE  InTables(w)' /\ ToUndo(w)' /\ OnceEach(w)'
<1> DEFINE c == Current(u)
<1>1. Basics /\ up'[w] = up[w]
  BY UploadKeepsLine DEF Sure, Basics, InOrder
<1>2. \/ /\ Holds(u)
         /\ \A d : d # c => /\ d \in DOMAIN versions' <=> d \in DOMAIN versions
                            /\ d \in blobs' <=> d \in blobs
      \/ UNCHANGED <<versions, blobs>>
  BY <1>1, UploadRowsOf, UploadBlobs DEF Holds, InsertDocument, At
<1>3. CASE UNCHANGED <<versions, blobs>>
  <2>1. /\ Current(w)' = Current(w) /\ Doomed(w)' = Doomed(w) /\ Unpaid(w)' = Unpaid(w)
    BY <1>1, SameRequest
  <2> QED
    BY <1>1, <1>3, <2>1 DEF InTables, ToUndo, OnceEach, At
<1>4. CASE Holds(u) /\ ~UNCHANGED <<versions, blobs>>
  <2>1. \A k \in 1 .. Len(Files[w]) : Files[w][k] # c
    BY <1>1, <1>4, HoldsOwnFile, AttemptsApart
  <2> QED
    BY <1>1, <1>2, <1>4, <2>1, LineStays
<1> QED
  BY <1>2, <1>3, <1>4

\* A step of a request that holds nothing, neither before nor after, and that
\* leaves the tables alone.
LEMMA IdleTurn ==
    ASSUME Basics, HeldRows, HeldBlobs, Counted, NEW u \in Uploads, up \in [Uploads -> UploadLocal],
           \A w \in Uploads \ {u} : up'[w] = up[w],
           ~Holds(u), ~Holds(u)',
           UNCHANGED <<used, reservations, reversals, versions, blobs>>
    PROVE  HeldRows' /\ HeldBlobs' /\ Counted'
<1>1. /\ ~Reserving(u) /\ ~Unfiled(u) /\ ~Doomed(u) /\ ~Unpaid(u) /\ ~Owed(u)
  BY HoldingIsHolds
<1>2. /\ ~Reserving(u)' /\ ~Unfiled(u)' /\ ~Doomed(u)' /\ ~Unpaid(u)' /\ ~Owed(u)'
  BY DEF Holds, Reserving, Unfiled, Doomed, Unpaid, Owed, At
<1>3. ASSUME NEW w \in Uploads
      PROVE  /\ Reserving(w) => Reserving(w)' /\ Current(w)' = Current(w)
             /\ Unfiled(w) => Unfiled(w)' /\ Current(w)' = Current(w)
             /\ Doomed(w) => Doomed(w)' /\ Current(w)' = Current(w)
             /\ Unpaid(w) => Unpaid(w)' /\ Current(w)' = Current(w)
             /\ Unpaid(w)' => Unpaid(w) /\ Current(w)' = Current(w)
             /\ Owed(w) => Owed(w)' /\ Current(w)' = Current(w)
             /\ Owed(w)' => Owed(w) /\ Current(w)' = Current(w)
  BY <1>1, <1>2, SameRequest
<1>4. HeldRows'
  BY <1>3 DEF HeldRows
<1>5. HeldBlobs'
  BY <1>3 DEF HeldBlobs
<1>6. \A d : AlreadyReversed(tenant, d)' <=> AlreadyReversed(tenant, d)
  BY DEF AlreadyReversed
<1>7. \A d : Charged(d)' <=> Charged(d)
  BY <1>3, <1>6 DEF Charged
<1>8. ChargedIds' = ChargedIds
  BY <1>7 DEF ChargedIds
<1>9. StoredBytes(ChargedIds)' = StoredBytes(ChargedIds)
  BY <1>8 DEF StoredBytes, TotalBytes, Units, SizeOf
<1> QED
  BY <1>4, <1>5, <1>9 DEF Counted

\* The counter follows the one attempt whose charge changes.
LEMMA Recounted ==
    ASSUME Counted, NEW c \in ReservationIds, \A d : d # c => (Charged(d)' <=> Charged(d)),
           \/ (Charged(c)' <=> Charged(c)) /\ UNCHANGED used
           \/ ~Charged(c) /\ Charged(c)' /\ used' = [used EXCEPT ![tenant] = @ + SizeOf(c)]
           \/ Charged(c) /\ ~Charged(c)' /\ used' = [used EXCEPT ![tenant] = @ - SizeOf(c)]
    PROVE  Counted'
<1>1. PICK S : S = ChargedIds
  OBVIOUS
<1>2. PICK T : T = ChargedIds'
  OBVIOUS
<1>3. /\ S \in SUBSET ReservationIds /\ T \in SUBSET ReservationIds
      /\ \A d : d # c => (d \in T <=> d \in S)
      /\ Charged(c) <=> c \in S
      /\ Charged(c)' <=> c \in T
  BY <1>1, <1>2 DEF ChargedIds
<1>4. used \in [Tenants -> Int] /\ used[tenant] = StoredBytes(S) /\ tenant \in Tenants
  BY <1>1, StoreAssumption DEF Counted
<1>5. StoredBytes(ChargedIds)' = StoredBytes(T)
  BY <1>2 DEF StoredBytes, TotalBytes, Units, SizeOf
<1>6. SizeOf(c) \in Nat
  BY StoreAssumption DEF SizeOf
<1>7. CASE (Charged(c)' <=> Charged(c)) /\ UNCHANGED used
  <2>1. S = T
    BY <1>3, <1>7
  <2> QED
    BY <1>4, <1>5, <1>7, <2>1 DEF Counted
<1>8. CASE ~Charged(c) /\ Charged(c)' /\ used' = [used EXCEPT ![tenant] = @ + SizeOf(c)]
  <2>1. T = S \cup {c} /\ c \notin S
    BY <1>3, <1>8
  <2>2. StoredBytes(T) = StoredBytes(S) + SizeOf(c)
    BY <1>3, <2>1, BytesWith
  <2>3. used' \in [Tenants -> Int] /\ used'[tenant] = used[tenant] + SizeOf(c)
    BY <1>4, <1>6, <1>8
  <2> QED
    BY <1>4, <1>5, <2>2, <2>3 DEF Counted
<1>9. CASE Charged(c) /\ ~Charged(c)' /\ used' = [used EXCEPT ![tenant] = @ - SizeOf(c)]
  <2>1. S = T \cup {c} /\ c \notin T
    BY <1>3, <1>9
  <2>2. StoredBytes(S) = StoredBytes(T) + SizeOf(c) /\ StoredBytes(T) \in Nat
    BY <1>3, <2>1, BytesWith
  <2>3. used' \in [Tenants -> Int] /\ used'[tenant] = used[tenant] - SizeOf(c)
    BY <1>4, <1>6, <1>9
  <2> QED
    BY <1>4, <1>5, <1>6, <2>2, <2>3 DEF Counted
<1> QED
  BY <1>7, <1>8, <1>9

\* The counter holds what it charges.
LEMMA ChargedIsDebitable ==
    ASSUME Counted, NEW c \in ReservationIds, Charged(c)
    PROVE  Debitable(tenant, SizeOf(c))
<1> DEFINE T == ChargedIds \ {c}
<1>1. T \in SUBSET ReservationIds /\ ChargedIds = T \cup {c} /\ c \notin T
  BY DEF ChargedIds
<1> HIDE DEF T
<1>2. used[tenant] = StoredBytes(T) + SizeOf(c) /\ StoredBytes(T) \in Nat /\ SizeOf(c) \in Nat
  BY <1>1, BytesWith DEF Counted
<1> QED
  BY <1>2 DEF Debitable

\* A step of a request that works on one of its files.
FileTurns(u, c) ==
    /\ \A w \in Uploads \ {u} : up'[w] = up[w]
    /\ \E k \in 1 .. Len(Files[u]) : c = Files[u][k]
    /\ (Holds(u) => Current(u) = c) /\ (Holds(u)' => Current(u)' = c)
    /\ UNCHANGED reversals
    /\ reservations' = [id \in DOMAIN reservations' |-> reservations'[id]]
    /\ \A d : d # c => /\ d \in DOMAIN reservations' => d \in DOMAIN reservations
                       /\ d \in blobs' <=> d \in blobs
                       /\ d \in DOMAIN versions' <=> d \in DOMAIN versions
                       /\ d \in DOMAIN versions => versions'[d] = versions[d]
    /\ c \in DOMAIN reservations' => Reserving(u)'
    /\ c \in blobs' => c \in DOMAIN versions' \/ Unfiled(u)'
    /\ c \in DOMAIN versions' => c \in blobs' \/ versions'[c].malwareSignature \/ Doomed(u)'

LEMMA FileTurn ==
    ASSUME Basics, HeldRows, HeldBlobs, NEW u \in Uploads, NEW c, FileTurns(u, c)
    PROVE  /\ HeldRows' /\ HeldBlobs'
           /\ \A d : d # c => (Charged(d)' <=> Charged(d))
           /\ Charged(c) <=> \/ c \in DOMAIN versions /\ ~AlreadyReversed(tenant, c) /\ ~(Holds(u) /\ Unpaid(u))
                             \/ Holds(u) /\ Owed(u)
           /\ Charged(c)' <=> \/ c \in DOMAIN versions' /\ ~AlreadyReversed(tenant, c) /\ ~Unpaid(u)'
                              \/ Owed(u)'
<1> USE DEF FileTurns
<1>1. ASSUME NEW w \in Uploads \ {u}
      PROVE  /\ Current(w)' = Current(w) /\ Holds(w)' = Holds(w)
             /\ Reserving(w)' = Reserving(w) /\ Unfiled(w)' = Unfiled(w) /\ Doomed(w)' = Doomed(w)
             /\ Unpaid(w)' = Unpaid(w) /\ Owed(w)' = Owed(w)
             /\ Holds(w) => Current(w) # c
             /\ Reserving(w) \/ Unfiled(w) \/ Doomed(w) \/ Unpaid(w) \/ Owed(w) => Holds(w)
  <2>1. Holds(w) => Current(w) # c
    BY HoldsOwnFile, AttemptsApart
  <2> QED
    BY <2>1, SameRequest, HoldingIsHolds
<1>2. Reserving(u) \/ Unfiled(u) \/ Doomed(u) \/ Unpaid(u) \/ Owed(u) => Holds(u) /\ Current(u) = c
  BY HoldingIsHolds
<1>3. /\ Reserving(u)' \/ Unfiled(u)' \/ Doomed(u)' \/ Unpaid(u)' \/ Owed(u)' => Current(u)' = c
      /\ Reserving(u)' \/ Unfiled(u)' \/ Doomed(u)' \/ Unpaid(u)' \/ Owed(u)' => Holds(u)'
  BY DEF Holds, Reserving, Unfiled, Doomed, Unpaid, Owed, At
<1>4. HeldRows'
  <2>1. ASSUME NEW d \in DOMAIN reservations' PROVE \E w \in Uploads : Reserving(w)' /\ Current(w)' = d
    <3>1. CASE d = c
      BY <1>3, <2>1, <3>1
    <3>2. CASE d # c
      <4>1. PICK w \in Uploads : Reserving(w) /\ Current(w) = d
        BY <2>1, <3>2 DEF HeldRows
      <4>2. w # u
        BY <1>2, <3>2, <4>1
      <4> QED
        BY <1>1, <4>1, <4>2
    <3> QED
      BY <3>1, <3>2
  <2> QED
    BY <2>1 DEF HeldRows
<1>5. HeldBlobs'
  <2>1. ASSUME NEW d \in blobs'
        PROVE  d \in DOMAIN versions' \/ \E w \in Uploads : Unfiled(w)' /\ Current(w)' = d
    <3>1. CASE d = c
      BY <1>3, <2>1, <3>1
    <3>2. CASE d # c /\ d \notin DOMAIN versions
      <4>1. PICK w \in Uploads : Unfiled(w) /\ Current(w) = d
        BY <2>1, <3>2 DEF HeldBlobs
      <4>2. w # u
        BY <1>2, <3>2, <4>1
      <4> QED
        BY <1>1, <4>1, <4>2
    <3> QED
      BY <3>1, <3>2
  <2>2. ASSUME NEW d \in DOMAIN versions'
        PROVE  \/ d \in blobs' \/ versions'[d].malwareSignature
               \/ \E w \in Uploads : Doomed(w)' /\ Current(w)' = d
    <3>1. CASE d = c
      BY <1>3, <2>2, <3>1
    <3>2. CASE d # c /\ d \notin blobs' /\ ~versions'[d].malwareSignature
      <4>1. PICK w \in Uploads : Doomed(w) /\ Current(w) = d
        BY <2>2, <3>2 DEF HeldBlobs
      <4>2. w # u
        BY <1>2, <3>2, <4>1
      <4> QED
        BY <1>1, <4>1, <4>2
    <3> QED
      BY <3>1, <3>2
  <2> QED
    BY <2>1, <2>2 DEF HeldBlobs
<1>6. \A d : AlreadyReversed(tenant, d)' <=> AlreadyReversed(tenant, d)
  BY DEF AlreadyReversed
<1>7. ASSUME NEW d, d # c PROVE Charged(d)' <=> Charged(d)
  <2>1. \A w \in Uploads : (Unpaid(w) /\ Current(w) = d) <=> (Unpaid(w)' /\ Current(w)' = d)
    BY <1>1, <1>2, <1>3, <1>7
  <2>2. \A w \in Uploads : (Owed(w) /\ Current(w) = d) <=> (Owed(w)' /\ Current(w)' = d)
    BY <1>1, <1>2, <1>3, <1>7
  <2> QED
    BY <1>6, <1>7, <2>1, <2>2 DEF Charged
<1>8. Charged(c) <=> \/ c \in DOMAIN versions /\ ~AlreadyReversed(tenant, c) /\ ~(Holds(u) /\ Unpaid(u))
                     \/ Holds(u) /\ Owed(u)
  BY <1>1, <1>2 DEF Charged
<1>9. Charged(c)' <=> \/ c \in DOMAIN versions' /\ ~AlreadyReversed(tenant, c) /\ ~Unpaid(u)'
                      \/ Owed(u)'
  <2>1. \A w \in Uploads : (Unpaid(w)' /\ Current(w)' = c) <=> (w = u /\ Unpaid(u)')
    BY <1>1, <1>3
  <2>2. \A w \in Uploads : (Owed(w)' /\ Current(w)' = c) <=> (w = u /\ Owed(u)')
    BY <1>1, <1>3
  <2> QED
    BY <1>6, <2>1, <2>2 DEF Charged
<1> QED
  BY <1>4, <1>5, <1>7, <1>8, <1>9

\* The two calls that nothing catches while something is held do not throw.
Caught == {"validate", "insert"} \cap FaultPoints = {}

\* A turn of a request keeps the accounts.
Turned(u) == HeldRows' /\ HeldBlobs' /\ Counted' /\ InTables(u)'

LEMMA IdleKeeps ==
    ASSUME Basics, Books, NEW u \in Uploads, UploadStep(u), ~Holds(u), ~Holds(u)',
           UNCHANGED <<used, reservations, reversals, versions, blobs>>
    PROVE  Turned(u)
<1>1. up \in [Uploads -> UploadLocal] /\ \A w \in Uploads \ {u} : up'[w] = up[w]
  BY UploadKeepsLine DEF Basics, InOrder, Locals
<1>2. HeldRows' /\ HeldBlobs' /\ Counted'
  BY <1>1, IdleTurn DEF Books
<1>3. InTables(u)'
  BY DEF InTables, Holds, Doomed, Unpaid, At
<1> QED
  BY <1>2, <1>3 DEF Turned

LEMMA IdleSteps ==
    ASSUME Caught, Basics, Books, NEW u \in Uploads,
           \/ Begin(u) \/ Refuse(u) \/ CallThrows(u) \/ Settled(u) \/ Emit(u)
           \/ EnqueueDocument(u) \/ AuditUpload(u)
    PROVE  Turned(u)
<1>1. /\ up \in [Uploads -> UploadLocal] /\ up[u] \in UploadLocal /\ UploadLine(u) /\ UploadStep(u)
  BY DEF Basics, InOrder, Locals, UploadStep
<1>2. CASE Begin(u) \/ CallThrows(u) \/ Emit(u) \/ EnqueueDocument(u) \/ AuditUpload(u)
  <2>1. up[u].pc \in {"start", "reserve", "enqueue", "emit", "audit"} /\ up[u].todo = {}
    BY <1>1, <1>2 DEF Begin, CallThrows, Emit, EnqueueDocument, AuditUpload, Caught, Throws,
       Uncaught, UploadLine, At
  <2>2. /\ up'[u].pc \in {"tooLarge", "reserve", "threw", "enqueue", "ok", "audit", "emit"}
        /\ up'[u].todo = up[u].todo
    BY <1>1, <1>2 DEF Begin, CallThrows, Emit, EnqueueDocument, AuditUpload, Goto, UploadLocal
  <2>3. UNCHANGED <<used, reservations, reversals, versions, blobs>>
    BY <1>2 DEF Begin, CallThrows, Emit, EnqueueDocument, AuditUpload, ledgerVars, storeVars,
       Enqueue, Record
  <2> QED
    BY <1>1, <2>1, <2>2, <2>3, IdleKeeps DEF Holds
<1>3. CASE Refuse(u)
  <2>1. up[u].pc = "reserve" /\ up[u].todo = {}
    BY <1>1, <1>3 DEF Refuse, UploadLine, At
  <2>2. up'[u].pc \in {"emit", "reserve"} /\ up'[u].todo = up[u].todo
    BY <1>1, <1>3 DEF Refuse, Outcome, UploadLocal
  <2>3. UNCHANGED <<used, reservations, reversals, versions, blobs>>
    BY <1>3 DEF Refuse, ledgerVars, storeVars
  <2> QED
    BY <1>1, <2>1, <2>2, <2>3, IdleKeeps DEF Holds
<1>4. CASE Settled(u)
  <2> UploadLine(u)
    BY <1>1
  <2>1. up[u].pc \in {"undo", "undoAccepted"} /\ up[u].todo = {}
        /\ up[u].after \in {"threw", "rollback", "duplicate", "next"}
    BY <1>4 DEF Settled, UploadLine, At
  <2>2. up'[u].pc \in {"emit", "reserve", "rollback", "threw"} /\ up'[u].todo = up[u].todo
    <3>1. CASE up[u].after = "duplicate"
      <4>1. Outcome(u, "duplicate")
        BY <1>4, <3>1 DEF Settled
      <4> QED
        BY <1>1, <4>1 DEF Outcome, UploadLocal
    <3>2. CASE up[u].after \in {"rollback", "next"}
      <4>1. \E i : up' = [up EXCEPT ![u].pc = "rollback", ![u].i = i]
        BY <1>4, <3>2 DEF Settled
      <4> QED
        BY <1>1, <4>1 DEF UploadLocal
    <3>3. CASE up[u].after = "threw"
      <4>1. Goto(u, "threw")
        BY <1>4, <3>3 DEF Settled
      <4> QED
        BY <1>1, <4>1 DEF Goto, UploadLocal
    <3> QED
      BY <2>1, <3>1, <3>2, <3>3
  <2>3. UNCHANGED <<used, reservations, reversals, versions, blobs>>
    BY <1>4 DEF Settled, ledgerVars, storeVars
  <2> QED
    BY <1>1, <2>1, <2>2, <2>3, IdleKeeps DEF Holds
<1> QED
  BY <1>2, <1>3, <1>4

\* The file in hand, before its version is inserted.
LEMMA NotYet ==
    ASSUME Basics, NEW u \in Uploads, up[u].pc \in {"reserve", "put", "validate", "insert"}
    PROVE  Current(u) \notin DOMAIN versions
<1>1. Current(u) \in Unborn
  BY InHand DEF Basics, Locals, InOrder, Filing, Unborn
<1> QED
  BY <1>1 DEF Basics, InOrder, Unknown

\* What the tables say of an attempt its request holds, or is about to.
LEMMA AttemptFacts ==
    ASSUME Sure, Books, NEW u \in Uploads, NEW c \in ReservationIds,
           \E k \in 1 .. Len(Files[u]) : c = Files[u][k], up[u].pc \notin Sealed,
           Holds(u) => Current(u) = c
    PROVE  /\ ~AlreadyReversed(tenant, c)
           /\ c \in DOMAIN reservations => Holds(u) /\ Reserving(u)
           /\ c \in blobs => c \in DOMAIN versions \/ (Holds(u) /\ Unfiled(u))
           /\ c \in DOMAIN versions => \/ c \in blobs \/ versions[c].malwareSignature
                                       \/ Holds(u) /\ Doomed(u)
<1>1. ~AlreadyReversed(tenant, c)
  BY DEF Past, Sure, JobsOfPast
<1>2. ASSUME NEW w \in Uploads, Current(w) = c,
             Reserving(w) \/ Unfiled(w) \/ Doomed(w) \/ Unpaid(w) \/ Owed(w)
      PROVE  w = u /\ Holds(u)
  BY <1>2, HoldingIsHolds, HoldsOwnFile, AttemptsApart DEF Sure
<1>3. c \in DOMAIN reservations => Holds(u) /\ Reserving(u)
  BY <1>2 DEF Books, HeldRows
<1>4. c \in blobs => c \in DOMAIN versions \/ (Holds(u) /\ Unfiled(u))
  BY <1>2 DEF Books, HeldBlobs
<1>5. c \in DOMAIN versions => \/ c \in blobs \/ versions[c].malwareSignature
                               \/ Holds(u) /\ Doomed(u)
  BY <1>2 DEF Books, HeldBlobs
<1> QED
  BY <1>1, <1>3, <1>4, <1>5

\* The rows of the reservations stay a table.
LEMMA StillATable ==
    ASSUME NEW t, NEW id, NEW row, t = [k \in DOMAIN t |-> t[k]]
    PROVE  /\ Insert(t, id, row) = [k \in DOMAIN t \cup {id} |-> Insert(t, id, row)[k]]
           /\ DOMAIN Insert(t, id, row) = DOMAIN t \cup {id}
           /\ Delete(t, id) = [k \in DOMAIN t \ {id} |-> Delete(t, id)[k]]
           /\ DOMAIN Delete(t, id) = DOMAIN t \ {id}
BY DEF Insert, Delete, DeleteAll

\* A request reserves, writes its blob and comes to its insert, or gives up.
LEMMA FilingTurns ==
    ASSUME Sure, Books, NEW u \in Uploads,
           \/ Reserve(u) \/ Put(u) \/ PutThrows(u) \/ SessionValid(u) \/ SessionExpired(u)
           \/ InsertDuplicate(u)
    PROVE  Turned(u)
<1> DEFINE c == Current(u)
<1>1. /\ Basics /\ up \in [Uploads -> UploadLocal] /\ up[u] \in UploadLocal /\ UploadLine(u)
      /\ UploadStep(u) /\ up[u].pc \in {"reserve", "put", "validate", "insert"} /\ up[u].todo = {}
      /\ \A w \in Uploads \ {u} : up'[w] = up[w]
  <2>1. /\ Basics /\ Locals /\ up \in [Uploads -> UploadLocal] /\ up[u] \in UploadLocal /\ UploadLine(u)
        /\ UploadStep(u) /\ up[u].pc \in {"reserve", "put", "validate", "insert"}
    BY DEF Sure, Basics, InOrder, Locals, UploadStep, Reserve, Put, PutThrows, SessionValid,
       SessionExpired, InsertDuplicate, At
  <2> QED
    BY <2>1, UploadKeepsLine DEF UploadLine
<1>2. /\ \E k \in 1 .. Len(Files[u]) : c = Files[u][k]
      /\ c \in ReservationIds /\ c \notin DOMAIN versions /\ up[u].pc \notin Sealed
  BY <1>1, InHand, NotYet DEF Filing, Sealed
<1>3. /\ ~AlreadyReversed(tenant, c)
      /\ c \in DOMAIN reservations => Holds(u) /\ Reserving(u)
      /\ c \in blobs => Holds(u) /\ Unfiled(u)
  BY <1>2, AttemptFacts
<1>4. /\ up'[u].i = up[u].i
      /\ up'[u].pc \in {"put", "validate", "insert", "undo"}
      /\ up'[u].pc = "put" => Reserve(u)
      /\ up'[u].pc = "undo" => up'[u].todo = {"release", "deleteBlob"}
      /\ up'[u].pc # "undo" => up'[u].todo = {}
  <2>1. CASE Reserve(u) \/ Put(u) \/ SessionValid(u)
    <3>1. \E pc \in {"put", "validate", "insert"} : Goto(u, pc) /\ (pc = "put" => Reserve(u))
      BY <2>1 DEF Reserve, Put, SessionValid
    <3> QED
      BY <1>1, <3>1 DEF Goto, UploadLocal
  <2>2. CASE PutThrows(u) \/ SessionExpired(u) \/ InsertDuplicate(u)
    <3>1. \E after : Undo(u, "undo", {"release", "deleteBlob"}, after)
      BY <2>2 DEF PutThrows, SessionExpired, InsertDuplicate
    <3> QED
      BY <1>1, <3>1 DEF Undo, UploadLocal
  <2> QED
    BY <2>1, <2>2
<1>5. Current(u)' = c
  BY <1>1, <1>4 DEF Current
<1>6. /\ Reserving(u)' /\ ~Doomed(u)' /\ ~Unpaid(u)' /\ ~Owed(u)'
      /\ up'[u].pc # "put" => Unfiled(u)'
  BY <1>4 DEF Reserving, Unfiled, Doomed, Unpaid, Owed, At
<1>7. ~Unpaid(u) /\ ~Owed(u)
  BY <1>1 DEF Unpaid, Owed, Doomed, At
<1>8. UNCHANGED <<used, reversals, versions>>
  BY DEF Reserve, Put, PutThrows, SessionValid, SessionExpired, InsertDuplicate, TryReserve,
     PutBlob, ledgerVars, storeVars
<1>9. /\ blobs \subseteq blobs' /\ blobs' \subseteq blobs \cup {c}
      /\ up'[u].pc = "validate" => c \in blobs'
      /\ up'[u].pc = "put" => blobs' = blobs
      /\ up'[u].pc = "insert" => blobs' = blobs /\ up[u].pc = "validate"
  BY <1>1 DEF Reserve, Put, PutThrows, SessionValid, SessionExpired, InsertDuplicate,
     PutBlob, storeVars, Goto, Undo, At, UploadLocal
<1>10. /\ reservations' = [id \in DOMAIN reservations' |-> reservations'[id]]
       /\ DOMAIN reservations' \subseteq DOMAIN reservations \cup {c}
  <2>1. reservations = [id \in DOMAIN reservations |-> reservations[id]]
    BY DEF Books, HeldRows
  <2>2. CASE UNCHANGED reservations
    BY <2>1, <2>2
  <2>3. ASSUME NEW row, reservations' = Insert(reservations, c, row)
        PROVE  /\ reservations' = [id \in DOMAIN reservations' |-> reservations'[id]]
               /\ DOMAIN reservations' \subseteq DOMAIN reservations \cup {c}
    <3> HIDE DEF c
    <3> QED
      BY <2>3 DEF Insert
  <2>4. Reserve(u) => \E row : reservations' = Insert(reservations, c, row)
    BY DEF Reserve, TryReserve
  <2> QED
    BY <2>2, <2>3, <2>4 DEF Put, PutThrows, SessionValid, SessionExpired, InsertDuplicate, ledgerVars
<1>11. c \in blobs' => Unfiled(u)'
  <2>1. up[u].pc = "reserve" => ~Holds(u)
    BY <1>1 DEF Holds
  <2>2. up'[u].pc = "put" => c \notin blobs'
    BY <1>3, <1>4, <1>9, <2>1 DEF Reserve, At
  <2> QED
    BY <1>6, <2>2
<1>12. InTables(u)'
  <2>1. up'[u].pc \in {"validate", "insert"} => c \in blobs'
    BY <1>4, <1>9 DEF Books, InTables
  <2>2. c \notin DOMAIN versions'
    BY <1>2, <1>8
  <2> HIDE DEF c
  <2> QED
    BY <1>4, <1>5, <1>6, <2>1, <2>2 DEF InTables
<1>13. PICK d : d = c
  OBVIOUS
<1>14. FileTurns(u, d)
  <2>1. \A e : e # d => /\ e \in DOMAIN reservations' => e \in DOMAIN reservations
                        /\ e \in blobs' <=> e \in blobs
    BY <1>9, <1>10, <1>13
  <2> QED
    BY <1>1, <1>2, <1>5, <1>6, <1>8, <1>10, <1>11, <1>13, <2>1 DEF FileTurns
<1>15. /\ HeldRows' /\ HeldBlobs'
       /\ \A e : e # d => (Charged(e)' <=> Charged(e))
       /\ ~Charged(d) /\ ~Charged(d)'
  BY <1>1, <1>2, <1>6, <1>7, <1>8, <1>13, <1>14, FileTurn DEF Books
<1>16. Counted'
  BY <1>2, <1>8, <1>13, <1>15, Recounted DEF Books
<1> QED
  BY <1>12, <1>15, <1>16 DEF Turned

\* A request whose attempt has its row, or is given it.
LEMMA InsertTurns ==
    ASSUME Unrevised, Sure, Books, NEW u \in Uploads, InsertDocument(u)
    PROVE  Turned(u)
<1>1. /\ Basics /\ Locals /\ up \in [Uploads -> UploadLocal] /\ up[u] \in UploadLocal /\ UploadLine(u)
      /\ UploadStep(u) /\ up[u].pc = "insert"
  BY DEF Sure, Basics, InOrder, Locals, UploadStep, InsertDocument, At
<1>2. up[u].todo = {} /\ Holds(u) /\ \A w \in Uploads \ {u} : up'[w] = up[w]
  BY <1>1, UploadKeepsLine DEF UploadLine, Holds
<1>3. PICK c : c = Current(u)
  OBVIOUS
<1>4. /\ \E k \in 1 .. Len(Files[u]) : c = Files[u][k]
      /\ c \in ReservationIds /\ up[u].pc \notin Sealed
  BY <1>1, <1>3, InHand DEF Filing, Sealed
<1>5. /\ c \notin DOMAIN versions /\ DOMAIN versions' = DOMAIN versions \cup {c}
      /\ \A v \in DOMAIN versions : versions'[v] = versions[v]
  <2>1. c \notin DOMAIN versions
    BY <1>1, <1>3, NotYet
  <2>2. \E row : versions' = Insert(versions, c, row)
    BY <1>3 DEF InsertDocument, InsertDocumentWithVersion
  <2>3. ASSUME NEW row, versions' = Insert(versions, c, row)
        PROVE  /\ DOMAIN versions' = DOMAIN versions \cup {c}
               /\ \A v \in DOMAIN versions : v # c => versions'[v] = versions[v]
    BY <2>3 DEF Insert
  <2> QED
    BY <2>1, <2>2, <2>3
<1>6. UNCHANGED <<used, reservations, reversals, blobs>>
  BY DEF InsertDocument, InsertDocumentWithVersion, ledgerVars
<1>7. up'[u].pc = "commit" /\ up'[u].i = up[u].i /\ up'[u].todo = {}
  BY <1>1, <1>2 DEF InsertDocument, Goto, UploadLocal
<1>8. Current(u)' = c
  BY <1>1, <1>3, <1>7 DEF Current
<1>9. c \in blobs
  BY <1>1, <1>3 DEF Books, InTables
<1>10. /\ Reserving(u)' /\ ~Unfiled(u)' /\ ~Doomed(u)' /\ Unpaid(u)' /\ ~Owed(u)' /\ ~Owed(u)
  BY <1>2, <1>7 DEF Reserving, Unfiled, Doomed, Unpaid, Owed, At
<1>11. FileTurns(u, c)
  BY <1>2, <1>3, <1>4, <1>5, <1>6, <1>8, <1>9, <1>10 DEF FileTurns, Books, HeldRows
<1>12. /\ HeldRows' /\ HeldBlobs'
       /\ \A e : e # c => (Charged(e)' <=> Charged(e))
       /\ ~Charged(c) /\ ~Charged(c)'
  BY <1>1, <1>5, <1>10, <1>11, FileTurn DEF Books
<1>13. Counted'
  BY <1>4, <1>6, <1>12, Recounted DEF Books
<1>14. InTables(u)'
  BY <1>5, <1>7, <1>8, <1>10 DEF InTables
<1> QED
  BY <1>12, <1>13, <1>14 DEF Turned

LEMMA CommitTurns ==
    ASSUME Sure, Books, NEW u \in Uploads, Commit(u)
    PROVE  Turned(u)
<1>1. /\ Basics /\ Locals /\ up \in [Uploads -> UploadLocal] /\ up[u] \in UploadLocal /\ UploadLine(u)
      /\ UploadStep(u) /\ up[u].pc = "commit"
  BY DEF Sure, Basics, InOrder, Locals, UploadStep, Commit, At
<1>2. up[u].todo = {} /\ Holds(u) /\ \A w \in Uploads \ {u} : up'[w] = up[w]
  BY <1>1, UploadKeepsLine DEF UploadLine, Holds
<1>3. PICK c : c = Current(u)
  OBVIOUS
<1>4. /\ \E k \in 1 .. Len(Files[u]) : c = Files[u][k]
      /\ c \in ReservationIds /\ up[u].pc \notin Sealed
  BY <1>1, <1>3, InHand DEF Filing, Sealed
<1>5. /\ Unpaid(u) /\ ~Doomed(u) /\ ~Unfiled(u) /\ ~Owed(u)
  BY <1>1, <1>2 DEF Unfiled, Doomed, Unpaid, Owed, At
<1>6. /\ c \in DOMAIN versions /\ ~AlreadyReversed(tenant, c)
      /\ c \in blobs \/ versions[c].malwareSignature
  BY <1>2, <1>3, <1>4, <1>5, AttemptFacts DEF Books, InTables
<1>7. /\ UNCHANGED <<reversals, versions, blobs>>
      /\ reservations' = Delete(reservations, c)
      /\ used' = [used EXCEPT ![tenant] = @ + SizeOf(c)]
  BY <1>3 DEF Commit, CommitReservation, storeVars
<1>8. up'[u].pc \in {"emit", "reserve"} /\ up'[u].todo = {}
  BY <1>1, <1>2 DEF Commit, Outcome, UploadLocal
<1>9. ~Holds(u)' /\ ~Unpaid(u)' /\ ~Owed(u)' /\ ~Doomed(u)'
  BY <1>8 DEF Holds, Unpaid, Owed, Doomed, At
<1>10. /\ reservations' = [id \in DOMAIN reservations' |-> reservations'[id]]
       /\ DOMAIN reservations' = DOMAIN reservations \ {c}
  BY <1>7 DEF Delete, DeleteAll
<1>11. FileTurns(u, c)
  BY <1>2, <1>3, <1>4, <1>6, <1>7, <1>9, <1>10 DEF FileTurns
<1>12. /\ HeldRows' /\ HeldBlobs'
       /\ \A e : e # c => (Charged(e)' <=> Charged(e))
       /\ ~Charged(c) /\ Charged(c)'
  BY <1>1, <1>2, <1>5, <1>6, <1>7, <1>9, <1>11, FileTurn DEF Books
<1>13. Counted'
  BY <1>4, <1>7, <1>12, Recounted DEF Books
<1>14. InTables(u)'
  BY <1>8, <1>9 DEF InTables
<1> QED
  BY <1>12, <1>13, <1>14 DEF Turned

LEMMA CommitThrowsTurns ==
    ASSUME Sure, Books, NEW u \in Uploads, CommitThrows(u), ~Throws("commitAnswer")
    PROVE  Turned(u)
<1>1. /\ Basics /\ Locals /\ up \in [Uploads -> UploadLocal] /\ up[u] \in UploadLocal /\ UploadLine(u)
      /\ UploadStep(u) /\ up[u].pc = "commit"
  BY DEF Sure, Basics, InOrder, Locals, UploadStep, CommitThrows, At
<1>2. up[u].todo = {} /\ Holds(u) /\ \A w \in Uploads \ {u} : up'[w] = up[w]
  BY <1>1, UploadKeepsLine DEF UploadLine, Holds
<1>3. PICK c : c = Current(u)
  OBVIOUS
<1>4. /\ \E k \in 1 .. Len(Files[u]) : c = Files[u][k]
      /\ c \in ReservationIds /\ up[u].pc \notin Sealed
  BY <1>1, <1>3, InHand DEF Filing, Sealed
<1>5. Unpaid(u) /\ ~Owed(u) /\ c \in DOMAIN versions
  BY <1>1, <1>2, <1>3 DEF Doomed, Unpaid, Owed, At, Books, InTables
<1>6. UNCHANGED <<used, reservations, reversals, versions, blobs>>
  BY DEF CommitThrows, ledgerVars, storeVars
<1>7. up'[u].pc = "undo" /\ up'[u].i = up[u].i /\ up'[u].todo = {"release", "deleteBlob", "deleteDocument"}
  BY <1>1 DEF CommitThrows, Undo, UploadLocal
<1>8. Current(u)' = c
  BY <1>1, <1>3, <1>7 DEF Current
<1>9. Reserving(u)' /\ Unfiled(u)' /\ Doomed(u)' /\ Unpaid(u)' /\ ~Owed(u)'
  BY <1>7 DEF Reserving, Unfiled, Doomed, Unpaid, Owed, At
<1>10. FileTurns(u, c)
  BY <1>2, <1>3, <1>4, <1>6, <1>8, <1>9 DEF FileTurns, Books, HeldRows
<1>11. /\ HeldRows' /\ HeldBlobs'
       /\ \A e : e # c => (Charged(e)' <=> Charged(e))
       /\ ~Charged(c) /\ ~Charged(c)'
  BY <1>1, <1>2, <1>5, <1>9, <1>10, FileTurn DEF Books
<1>12. Counted'
  BY <1>4, <1>6, <1>11, Recounted DEF Books
<1>13. InTables(u)'
  BY <1>5, <1>6, <1>7, <1>8, <1>9 DEF InTables
<1> QED
  BY <1>11, <1>12, <1>13 DEF Turned

\* A request that rolls back takes up the next of its accepted files, or is done.
LEMMA RollbackTurns ==
    ASSUME Sure, Books, NEW u \in Uploads, RollbackBatch(u)
    PROVE  Turned(u)
<1>1. /\ Basics /\ Locals /\ up \in [Uploads -> UploadLocal] /\ up[u] \in UploadLocal /\ UploadLine(u)
      /\ UploadStep(u) /\ up[u].pc = "rollback"
  BY DEF Sure, Basics, InOrder, Locals, UploadStep, RollbackBatch, At
<1>2. up[u].todo = {} /\ ~Holds(u) /\ \A w \in Uploads \ {u} : up'[w] = up[w]
  BY <1>1, UploadKeepsLine DEF UploadLine, Holds
<1>3. UNCHANGED <<used, reservations, reversals, versions, blobs>>
  BY DEF RollbackBatch, ledgerVars, storeVars
<1>4. CASE ~(up[u].i <= Len(up[u].created))
  <2>1. Goto(u, "expired")
    BY <1>4 DEF RollbackBatch
  <2>2. up'[u].pc = "expired" /\ up'[u].todo = {}
    BY <1>1, <1>2, <2>1 DEF Goto, UploadLocal
  <2> QED
    BY <1>1, <1>2, <1>3, <2>2, IdleKeeps DEF Holds
<1>5. CASE up[u].i <= Len(up[u].created)
  <2>1. up[u].i \in DOMAIN up[u].created
    BY <1>1, <1>5, UploadFields
  <2>2. PICK c : c = up[u].created[up[u].i]
    OBVIOUS
  <2>3. /\ \E k \in 1 .. Len(Files[u]) : c = Files[u][k]
        /\ c \in ReservationIds /\ up[u].pc \notin Sealed
    <3>1. c \in Taken(u)
      BY <2>1, <2>2 DEF Taken, CreatedIds
    <3> QED
      BY <1>1, <3>1, TakenAreFiled DEF Sealed
  <2>4. c \in DOMAIN versions
    BY <1>1, <2>1, <2>2, UploadFields DEF Books, ToUndo, At
  <2>5. /\ ~AlreadyReversed(tenant, c) /\ c \notin DOMAIN reservations
    BY <1>2, <2>3, AttemptFacts
  <2>6. /\ up'[u].pc = "undoAccepted" /\ up'[u].i = up[u].i /\ up'[u].created = up[u].created
        /\ up'[u].todo = {"deleteDocument", "deleteBlob", "revert"}
    BY <1>1, <1>5 DEF RollbackBatch, Undo, UploadLocal
  <2>7. Current(u)' = c
    BY <2>2, <2>6 DEF Current
  <2>8. Unfiled(u)' /\ Doomed(u)' /\ ~Unpaid(u)' /\ ~Owed(u)'
    BY <2>6 DEF Unfiled, Doomed, Unpaid, Owed, At
  <2>9. FileTurns(u, c)
    BY <1>2, <1>3, <2>3, <2>5, <2>7, <2>8 DEF FileTurns, Books, HeldRows
  <2>10. /\ HeldRows' /\ HeldBlobs'
         /\ \A e : e # c => (Charged(e)' <=> Charged(e))
         /\ Charged(c) /\ Charged(c)'
    BY <1>1, <1>2, <1>3, <2>4, <2>5, <2>8, <2>9, FileTurn DEF Books
  <2>11. Counted'
    BY <1>3, <2>3, <2>10, Recounted DEF Books
  <2>12. InTables(u)'
    BY <1>3, <2>4, <2>6, <2>7, <2>8 DEF InTables
  <2> QED
    BY <2>10, <2>11, <2>12 DEF Turned
<1> QED
  BY <1>4, <1>5

\* A compensating call settles.
LEMMA SettleTurns ==
    ASSUME Unrevised, Sure, Books, NEW u \in Uploads, NEW call \in up[u].todo, Settle(u, call),
           ~Throws("undo")
    PROVE  Turned(u)
<1>1. /\ Basics /\ Locals /\ up \in [Uploads -> UploadLocal] /\ up[u] \in UploadLocal /\ UploadLine(u)
      /\ UploadStep(u) /\ up[u].pc \in {"undo", "undoAccepted"}
  BY DEF Sure, Basics, InOrder, Locals, UploadStep, UploadLine
<1>2. Holds(u) /\ \A w \in Uploads \ {u} : up'[w] = up[w]
  BY <1>1, UploadKeepsLine DEF Holds
<1>3. PICK c : c = Current(u)
  OBVIOUS
<1>4. /\ \E k \in 1 .. Len(Files[u]) : c = Files[u][k]
      /\ c \in ReservationIds /\ up[u].pc \notin Sealed
  BY <1>1, <1>2, <1>3, HoldsOwnFile
<1>5. /\ ~AlreadyReversed(tenant, c)
      /\ c \in DOMAIN reservations => Reserving(u)
      /\ c \in blobs => c \in DOMAIN versions \/ Unfiled(u)
      /\ c \in DOMAIN versions => c \in blobs \/ versions[c].malwareSignature \/ Doomed(u)
  BY <1>2, <1>3, <1>4, AttemptFacts
<1>6. /\ Doomed(u) => c \in DOMAIN versions
      /\ c \in DOMAIN versions => Doomed(u)
      /\ "deleteBlob" \notin up[u].todo => c \notin blobs
  BY <1>3 DEF Books, InTables
<1>7. Compensate(c, call) /\ call \in UploadCalls
  BY <1>1, <1>3, UploadFields DEF Settle
<1>8. /\ up'[u].pc = up[u].pc /\ up'[u].i = up[u].i /\ up'[u].created = up[u].created
      /\ up'[u].todo = up[u].todo \ {call}
  BY <1>1 DEF Settle, UploadLocal
<1>9. Current(u)' = c
  BY <1>3, <1>8 DEF Current
<1>10. reservations = [id \in DOMAIN reservations |-> reservations[id]]
  BY DEF Books, HeldRows
<1>11. CASE call = "release"
  <2>1. UNCHANGED <<used, reversals, versions, blobs>> /\ reservations' = Delete(reservations, c)
    BY <1>7, <1>11 DEF Compensate, ReleaseReservation, storeVars
  <2>2. /\ reservations' = [id \in DOMAIN reservations' |-> reservations'[id]]
        /\ DOMAIN reservations' = DOMAIN reservations \ {c}
    BY <2>1 DEF Delete, DeleteAll
  <2>3. /\ Unfiled(u)' = Unfiled(u) /\ Doomed(u)' = Doomed(u) /\ Unpaid(u)' = Unpaid(u) /\ Owed(u)' = Owed(u)
    BY <1>8, <1>11 DEF Unfiled, Doomed, Unpaid, Owed, At
  <2>4. FileTurns(u, c)
    BY <1>2, <1>3, <1>4, <1>5, <1>9, <2>1, <2>2, <2>3 DEF FileTurns
  <2>5. /\ HeldRows' /\ HeldBlobs'
        /\ \A e : e # c => (Charged(e)' <=> Charged(e))
        /\ Charged(c) <=> Charged(c)'
    BY <1>1, <1>2, <2>1, <2>3, <2>4, FileTurn DEF Books
  <2>6. Counted'
    BY <1>4, <2>1, <2>5, Recounted DEF Books
  <2>7. Unpaid(u) => Doomed(u)
    BY <1>1 DEF Unpaid, At
  <2>8. InTables(u)'
    BY <1>1, <1>6, <1>8, <1>9, <1>11, <2>1, <2>3, <2>7 DEF InTables
  <2> QED
    BY <2>5, <2>6, <2>8 DEF Turned
<1>12. CASE call = "deleteBlob"
  <2>1. UNCHANGED <<used, reservations, reversals, versions>> /\ blobs' = blobs \ {c}
    BY <1>7, <1>12 DEF Compensate, DeleteBlob, ledgerVars
  <2>2. /\ Reserving(u)' = Reserving(u) /\ Doomed(u)' = Doomed(u) /\ Unpaid(u)' = Unpaid(u) /\ Owed(u)' = Owed(u)
    BY <1>8, <1>12 DEF Reserving, Doomed, Unpaid, Owed, At
  <2>3. FileTurns(u, c)
    BY <1>2, <1>3, <1>4, <1>5, <1>6, <1>9, <1>10, <2>1, <2>2 DEF FileTurns
  <2>4. /\ HeldRows' /\ HeldBlobs'
        /\ \A e : e # c => (Charged(e)' <=> Charged(e))
        /\ Charged(c) <=> Charged(c)'
    BY <1>1, <1>2, <2>1, <2>2, <2>3, FileTurn DEF Books
  <2>5. Counted'
    BY <1>4, <2>1, <2>4, Recounted DEF Books
  <2>6. Unpaid(u) => Doomed(u)
    BY <1>1 DEF Unpaid, At
  <2>7. InTables(u)'
    BY <1>1, <1>6, <1>8, <1>9, <1>12, <2>1, <2>2, <2>6 DEF InTables
  <2> QED
    BY <2>4, <2>5, <2>7 DEF Turned
<1>13. CASE call = "deleteDocument"
  <2>1. UNCHANGED <<used, reservations, reversals, blobs>> /\ DeleteDocument(c)
    BY <1>7, <1>13 DEF Compensate, DeleteDocument, ledgerVars
  <2>2. /\ DOMAIN versions' = DOMAIN versions \ {c}
        /\ \A v \in DOMAIN versions' : versions'[v] = versions[v]
    <3>1. VersionsOf(c) = DOMAIN versions \cap {c}
      BY <1>1, OneVersion DEF VersionsOf
    <3> QED
      BY <2>1, <3>1 DEF DeleteDocument, DeleteAll
  <2>3. /\ Reserving(u)' = Reserving(u) /\ Unfiled(u)' = Unfiled(u) /\ ~Doomed(u)' /\ ~Unpaid(u)'
        /\ Owed(u)' <=> "revert" \in up[u].todo
        /\ Unpaid(u) <=> "revert" \notin up[u].todo
        /\ Doomed(u) /\ ~Owed(u)
    BY <1>1, <1>8, <1>13 DEF Reserving, Unfiled, Doomed, Unpaid, Owed, At
  <2>4. c \in blobs => Unfiled(u)
    BY <1>6 DEF Unfiled
  <2>5. FileTurns(u, c)
    BY <1>2, <1>3, <1>4, <1>5, <1>9, <1>10, <2>1, <2>2, <2>3, <2>4 DEF FileTurns
  <2>6. /\ HeldRows' /\ HeldBlobs'
        /\ \A e : e # c => (Charged(e)' <=> Charged(e))
        /\ Charged(c) <=> Charged(c)'
    BY <1>1, <1>2, <1>5, <1>6, <2>1, <2>2, <2>3, <2>5, FileTurn DEF Books
  <2>7. Counted'
    BY <1>4, <2>1, <2>6, Recounted DEF Books
  <2>8. InTables(u)'
    BY <1>1, <1>6, <1>8, <1>9, <1>13, <2>1, <2>2, <2>3 DEF InTables
  <2> QED
    BY <2>6, <2>7, <2>8 DEF Turned
<1>14. CASE call = "revert"
  <2>1. ~Unpaid(u) /\ (Owed(u) <=> ~Doomed(u))
    BY <1>1, <1>14 DEF Unpaid, Owed, At
  <2>2. \A w \in Uploads : Unpaid(w) /\ Current(w) = c => w = u
    BY <1>1, <1>2, <1>3, HoldsOwnFile, HoldingIsHolds
  <2>3. Charged(c)
    BY <1>3, <1>5, <1>6, <2>1, <2>2 DEF Charged
  <2>4. Debitable(tenant, SizeOf(c))
    BY <1>4, <2>3, ChargedIsDebitable DEF Books
  <2>5. /\ UNCHANGED <<reversals, versions, blobs>>
        /\ reservations' = Delete(reservations, c)
        /\ used' = [used EXCEPT ![tenant] = @ - SizeOf(c)]
    BY <1>7, <1>14, <2>4 DEF Compensate, RevertCommitReservation, Debit, storeVars
  <2>6. /\ reservations' = [id \in DOMAIN reservations' |-> reservations'[id]]
        /\ DOMAIN reservations' = DOMAIN reservations \ {c}
    BY <2>5 DEF Delete, DeleteAll
  <2>7. /\ Unfiled(u)' = Unfiled(u) /\ Doomed(u)' = Doomed(u) /\ ~Owed(u)'
        /\ Unpaid(u)' <=> Doomed(u)
    BY <1>1, <1>8, <1>14 DEF Unfiled, Doomed, Unpaid, Owed, At
  <2>8. FileTurns(u, c)
    BY <1>2, <1>3, <1>4, <1>5, <1>9, <2>5, <2>6, <2>7 DEF FileTurns
  <2>9. /\ HeldRows' /\ HeldBlobs'
        /\ \A e : e # c => (Charged(e)' <=> Charged(e))
        /\ ~Charged(c)'
    BY <1>1, <1>6, <2>5, <2>7, <2>8, FileTurn DEF Books
  <2>10. Counted'
    BY <1>4, <2>3, <2>5, <2>9, Recounted DEF Books
  <2>11. InTables(u)'
    BY <1>1, <1>6, <1>8, <1>9, <1>14, <2>5, <2>7 DEF InTables
  <2> QED
    BY <2>9, <2>10, <2>11 DEF Turned
<1> QED
  BY <1>7, <1>11, <1>12, <1>13, <1>14 DEF UploadCalls

\* A step of a request keeps the accounts, unless it spoils them for good.
LEMMA UploadBooks ==
    ASSUME Unrevised, Caught, Sure, Compensable => Books, NEW u \in Uploads, UploadStep(u),
           Compensable'
    PROVE  Books'
<1>1. /\ Compensable /\ Books /\ ~Throws("undo") /\ ~Throws("commitAnswer") /\ Basics
  BY UploadFaults, StaysCompensable DEF Sure
<1>2. Turned(u)
  BY <1>1, IdleSteps, FilingTurns, InsertTurns, CommitTurns, CommitThrowsTurns, RollbackTurns,
     SettleTurns DEF UploadStep
<1>3. OnceEach(u)' /\ ToUndo(u)'
  BY <1>1, RollbackLine DEF Books
<1>4. \A w \in Uploads \ {u} : InTables(w)' /\ ToUndo(w)' /\ OnceEach(w)'
  BY <1>1, OthersLine DEF Books
<1> QED
  BY <1>2, <1>3, <1>4 DEF Books, Turned

\* A worker's step does to the accounts what its purge of one document does: the
\* document is past, so no request holds anything of it.
WorkerTurns(w) ==
    \/ DebitQuota(w) /\ ~AlreadyReversed(tenant, wk[w].job)
    \/ DeleteInfectedBlob(w)
    \/ DeleteInfectedDocument(w)

LEMMA WorkerLeaves ==
    ASSUME Unrevised, Basics, NEW w \in Workers, WorkerStep(w), ~WorkerTurns(w)
    PROVE  /\ UNCHANGED <<used, reservations, reversals, blobs>>
           /\ DOMAIN versions' = DOMAIN versions
           /\ \A v \in DOMAIN versions : versions[v].malwareSignature => versions'[v].malwareSignature
<1>1. UNCHANGED <<used, reservations, reversals, blobs>>
  <2>1. CASE DebitQuota(w)
    BY <2>1 DEF WorkerTurns, DebitQuota, RevertCommittedDocumentQuota, ledgerVars, storeVars
  <2>2. CASE \/ Deliver(w) \/ Load(w) \/ Claim(w) \/ Scan(w) \/ MarkScanComplete(w)
             \/ MarkMalwareDetected(w) \/ AuditMalware(w) \/ WorkerFails(w) \/ Stall(w)
    BY <2>2 DEF Deliver, Load, Claim, Scan, MarkScanComplete, MarkMalwareDetected, AuditMalware,
       WorkerFails, Stall, Record, Enqueue, ledgerVars, storeVars
  <2> QED
    BY <2>1, <2>2 DEF WorkerStep, WorkerTurns
<1> QED
  BY <1>1, WorkerRowsOf DEF WorkerTurns

LEMMA WorkerBooks ==
    ASSUME Unrevised, Sure, Compensable => Books, NEW w \in Workers, WorkerStep(w), UNCHANGED <<up, av>>,
           Compensable'
    PROVE  Books'
<1>1. /\ Compensable /\ Books /\ Basics /\ Infections
  BY WorkerFaults, StaysCompensable DEF Sure
<1>2. \A u \in Uploads : up'[u] = up[u]
  OBVIOUS
<1>3. \A u \in Uploads :
         /\ Current(u)' = Current(u) /\ Holds(u)' = Holds(u)
         /\ Reserving(u)' = Reserving(u) /\ Unfiled(u)' = Unfiled(u) /\ Doomed(u)' = Doomed(u)
         /\ Unpaid(u)' = Unpaid(u) /\ Owed(u)' = Owed(u)
  BY <1>2, SameRequest
<1>4. CASE ~WorkerTurns(w)
  <2>1. /\ UNCHANGED <<used, reservations, reversals, blobs>>
        /\ DOMAIN versions' = DOMAIN versions
        /\ \A v \in DOMAIN versions : versions[v].malwareSignature => versions'[v].malwareSignature
    BY <1>1, <1>4, WorkerLeaves
  <2>2. HeldRows' /\ HeldBlobs'
    BY <1>1, <1>3, <2>1 DEF Books, HeldRows, HeldBlobs
  <2>3. \A d : Charged(d)' <=> Charged(d)
    BY <1>3, <2>1 DEF Charged, AlreadyReversed
  <2>4. Counted'
    <3>1. ChargedIds' = ChargedIds
      BY <2>3 DEF ChargedIds
    <3>2. StoredBytes(ChargedIds)' = StoredBytes(ChargedIds)
      BY <3>1 DEF StoredBytes, TotalBytes, Units, SizeOf
    <3> QED
      BY <1>1, <2>1, <3>2 DEF Books, Counted
  <2>5. ASSUME NEW u \in Uploads PROVE InTables(u)' /\ ToUndo(u)' /\ OnceEach(u)'
    BY <1>1, <1>2, <1>3, <2>1 DEF Books, InTables, ToUndo, OnceEach, At
  <2> QED
    BY <2>2, <2>4, <2>5 DEF Books
<1>5. CASE WorkerTurns(w)
  <2>1. PICK c : c = wk[w].job
    OBVIOUS
  <2>2. /\ wk[w].pc \in {"debit", "deleteBlob", "deleteDocument"}
    BY <1>5 DEF WorkerTurns, DebitQuota, DeleteInfectedBlob, DeleteInfectedDocument, AtWorker
  <2>3. /\ Cleaning(w) /\ wk[w].version = c /\ c \in ReservationIds /\ Past(c) /\ Kept(c)
        /\ c \in DOMAIN versions => versions[c].malwareSignature
    <3>1. wk[w].version = c
      BY <1>1, <2>1, <2>2, OneVersion DEF Holding
    <3>2. Cleaning(w)
      BY <2>2 DEF Cleaning
    <3> QED
      BY <1>1, <2>1, <2>2, <3>1, <3>2 DEF Basics, Locals, AtWorker, Sure, JobsOfPast, Infections
  <2>4. \A u \in Uploads : Holds(u) => Current(u) # c
    BY <1>1, <2>3, HoldsOwnFile
  <2>5. \A u \in Uploads : Reserving(u) \/ Unfiled(u) \/ Doomed(u) \/ Unpaid(u) \/ Owed(u) => Current(u) # c
    BY <1>1, <2>4, HoldingIsHolds
  <2>6. /\ UNCHANGED reservations
        /\ \A d : d # c => /\ d \in DOMAIN versions' <=> d \in DOMAIN versions
                           /\ d \in blobs' <=> d \in blobs
                           /\ AlreadyReversed(tenant, d)' <=> AlreadyReversed(tenant, d)
        /\ \A d \in DOMAIN versions' : d \in DOMAIN versions /\ versions'[d] = versions[d]
    <3>1. CASE DebitQuota(w)
      BY <2>1, <3>1 DEF DebitQuota, RevertCommittedDocumentQuota, ledgerVars, storeVars, AlreadyReversed
    <3>2. CASE DeleteInfectedBlob(w)
      BY <2>3, <3>2 DEF DeleteInfectedBlob, DeleteBlob, ledgerVars, AlreadyReversed
    <3>3. CASE DeleteInfectedDocument(w)
      <4>1. VersionsOf(c) = DOMAIN versions \cap {c}
        BY <1>1, OneVersion DEF VersionsOf
      <4> QED
        BY <2>1, <3>3, <4>1 DEF DeleteInfectedDocument, DeleteDocument, DeleteAll, ledgerVars, AlreadyReversed
    <3> QED
      BY <1>5, <3>1, <3>2, <3>3 DEF WorkerTurns
  <2>7. c \in blobs' => c \in DOMAIN versions'
    <3>1. CASE DeleteInfectedDocument(w)
      <4>1. c \notin blobs
        BY <2>1, <3>1 DEF DeleteInfectedDocument, Sure, Cleanup, Ordered, Purged
      <4> QED
        BY <3>1, <4>1 DEF DeleteInfectedDocument, DeleteDocument
    <3>2. CASE DeleteInfectedBlob(w)
      BY <2>3, <3>2 DEF DeleteInfectedBlob, DeleteBlob
    <3>3. CASE DebitQuota(w)
      BY <1>1, <2>5, <3>3 DEF DebitQuota, storeVars, Books, HeldBlobs
    <3> QED
      BY <1>5, <3>1, <3>2, <3>3 DEF WorkerTurns
  <2>8. HeldRows' /\ HeldBlobs'
    <3>1. HeldRows'
      BY <1>1, <1>3, <2>6 DEF Books, HeldRows
    <3>2. ASSUME NEW d \in blobs'
          PROVE  d \in DOMAIN versions' \/ \E u \in Uploads : Unfiled(u)' /\ Current(u)' = d
      BY <1>1, <1>3, <2>6, <2>7, <3>2 DEF Books, HeldBlobs
    <3>3. ASSUME NEW d \in DOMAIN versions'
          PROVE  \/ d \in blobs' \/ versions'[d].malwareSignature
                 \/ \E u \in Uploads : Doomed(u)' /\ Current(u)' = d
      BY <1>1, <1>3, <2>3, <2>6, <3>3 DEF Books, HeldBlobs
    <3> QED
      BY <3>1, <3>2, <3>3 DEF HeldBlobs
  <2>9. \A d : d # c => (Charged(d)' <=> Charged(d))
    BY <1>3, <2>6 DEF Charged
  <2>10. /\ Charged(c) <=> c \in DOMAIN versions /\ ~AlreadyReversed(tenant, c)
         /\ Charged(c)' <=> c \in DOMAIN versions' /\ ~AlreadyReversed(tenant, c)'
    BY <1>3, <2>5 DEF Charged
  <2>11. Counted'
    <3>1. CASE DebitQuota(w) /\ ~AlreadyReversed(tenant, c)
      <4>1. /\ used' = [used EXCEPT ![tenant] = @ - SizeOf(c)] /\ AlreadyReversed(tenant, c)'
        BY <2>1, <2>3, <3>1 DEF DebitQuota, RevertCommittedDocumentQuota, Debit, AlreadyReversed
      <4> QED
        BY <1>1, <2>3, <2>9, <2>10, <3>1, <4>1, Recounted DEF Books, Kept
    <3>2. CASE DeleteInfectedBlob(w)
      <4>1. UNCHANGED <<used, reversals, versions>>
        BY <3>2 DEF DeleteInfectedBlob, DeleteBlob, ledgerVars
      <4> QED
        BY <1>1, <2>3, <2>9, <2>10, <4>1, Recounted DEF Books, AlreadyReversed
    <3>3. CASE DeleteInfectedDocument(w)
      <4>1. UNCHANGED <<used, reversals>> /\ AlreadyReversed(tenant, c)
        BY <2>1, <3>3 DEF DeleteInfectedDocument, ledgerVars, Sure, Cleanup, Ordered, Purged
      <4> QED
        BY <1>1, <2>3, <2>9, <2>10, <4>1, Recounted DEF Books, AlreadyReversed
    <3> QED
      BY <1>5, <2>1, <3>1, <3>2, <3>3 DEF WorkerTurns
  <2>12. ASSUME NEW u \in Uploads PROVE InTables(u)' /\ ToUndo(u)' /\ OnceEach(u)'
    <3>1. (\A k \in 1 .. Len(Files[u]) : Files[u][k] # c) \/ up[u].pc \in Sealed
      BY <2>3 DEF Past
    <3> QED
      BY <1>1, <1>2, <2>6, <3>1, LineStays DEF Books
  <2> QED
    BY <2>8, <2>11, <2>12 DEF Books
<1> QED
  BY <1>4, <1>5

LEMMA SureInit == Unrevised /\ Init => Sure /\ Books
<1> SUFFICES ASSUME Unrevised, Init PROVE Sure /\ Books
  OBVIOUS
<1>1. Basics /\ Verdicts /\ Cleanup
  BY BasicsInit, VerdictsInit, CleanupInit
<1>2. /\ \A u \in Uploads : up[u].pc = "start" /\ up[u].todo = {} /\ up[u].created = <<>>
      /\ \A w \in Workers : wk[w].pc = "idle"
  BY DEF Init, UploadInit, WorkerInit, Idle
<1>3. /\ DOMAIN documents = Seeded /\ DOMAIN versions = Seeded /\ blobs = Seeded /\ queue = {}
      /\ \A v \in Seeded : versions[v] = [NewVersion(v, 1) EXCEPT !.malwareScannedAt = TRUE]
      /\ reservations = EmptyTable /\ reversals = {}
      /\ used = [t \in Tenants |-> IF t = tenant THEN StoredBytes(Seeded) ELSE 0]
      /\ Seeded \subseteq ReservationIds
  BY StoreAssumption DEF Init, StoreInit
<1>4. \A v \in Seeded : ~versions[v].malwareSignature
  BY <1>3 DEF NewVersion
<1>5. Infections /\ JobsOfPast
  BY <1>2, <1>3, <1>4 DEF Infections, JobsOfPast, Cleaning, AtWorker, AlreadyReversed
<1>6. \A u \in Uploads : /\ ~Reserving(u) /\ ~Unfiled(u) /\ ~Doomed(u) /\ ~Unpaid(u) /\ ~Owed(u)
                         /\ InTables(u) /\ ToUndo(u) /\ OnceEach(u)
  BY <1>2 DEF Reserving, Unfiled, Doomed, Unpaid, Owed, InTables, ToUndo, OnceEach, At
<1>7. HeldRows /\ HeldBlobs
  BY <1>3, <1>6 DEF HeldRows, HeldBlobs, EmptyTable
<1>8. Counted
  <2>1. ChargedIds = Seeded
    BY <1>3, <1>6 DEF ChargedIds, Charged, AlreadyReversed
  <2>2. StoredBytes(Seeded) \in Nat
    <3>1. IsFiniteSet(Seeded)
      BY <1>3, FS_Subset, IdsAssumption
    <3>2. [x \in Seeded |-> SizeOf(x)] \in [Seeded -> Nat]
      BY <1>3, StoreAssumption DEF SizeOf
    <3> QED
      BY <3>1, <3>2, TotalType DEF StoredBytes
  <2> QED
    BY <1>3, <2>1, <2>2, StoreAssumption DEF Counted
<1> QED
  BY <1>1, <1>5, <1>6, <1>7, <1>8 DEF Sure, Books

\* A request whose enqueue is ignored holds nothing and owes nothing.
LEMMA OnBooks ==
    ASSUME Unrevised, Sure, NEW u \in Uploads, UploadsOn(u)
    PROVE  Infections' /\ JobsOfPast' /\ (Books => Books') /\ (Compensable' => Compensable)
<1>1. /\ Basics /\ up \in [Uploads -> UploadLocal] /\ up[u].todo = {}
      /\ \A w \in Uploads \ {u} : up'[w] = up[w]
  BY UploadOn DEF Sure, UploadLine
<1>2. UNCHANGED <<used, reservations, reversals, documents, versions, blobs, queue, faults, wk>>
  BY DEF UploadsOn, ledgerVars, storeVars
<1>3. \A d : Past(d) => Past(d)'
  BY <1>1, UploadOn DEF Past, Sealed
<1>4. Infections' /\ JobsOfPast'
  BY <1>2, <1>3 DEF Sure, Infections, JobsOfPast, Cleaning, Purges, Kept, AlreadyReversed, AtWorker
<1>5. Compensable' => Compensable
  BY <1>2 DEF Compensable, NeverThrew
<1>6. ~Holds(u) /\ ~Holds(u)'
  BY <1>1, UploadOn DEF Holds
<1>7. ASSUME Books PROVE Books'
  <2>1. HeldRows' /\ HeldBlobs' /\ Counted'
    BY <1>1, <1>2, <1>6, <1>7, IdleTurn DEF Books
  <2>2. InTables(u)'
    BY <1>6 DEF InTables, Holds, Doomed, Unpaid, At
  <2>3. ToUndo(u)' /\ OnceEach(u)'
    BY <1>1, <1>7, UploadOn DEF Books, ToUndo, OnceEach, At
  <2>4. ASSUME NEW w \in Uploads \ {u} PROVE InTables(w)' /\ ToUndo(w)' /\ OnceEach(w)'
    <3>1. up'[w] = up[w] /\ InTables(w) /\ ToUndo(w) /\ OnceEach(w)
      BY <1>1, <1>7 DEF Books
    <3>2. Current(w)' = Current(w)
      BY <3>1 DEF Current
    <3> QED
      BY <1>2, <3>1, <3>2 DEF InTables, ToUndo, OnceEach, Doomed, Unpaid, At
  <2> QED
    BY <2>1, <2>2, <2>3, <2>4 DEF Books
<1> QED
  BY <1>4, <1>5, <1>7

LEMMA SureStep ==
    ASSUME Unrevised, Caught, Sure, Compensable => Books, [Next]_vars
    PROVE  Sure' /\ (Compensable' => Books')
<1>1. Basics /\ CleanRevisions /\ Verdicts /\ Cleanup
  BY OneVersion DEF Sure
<1>2. Basics' /\ Verdicts' /\ Cleanup'
  BY <1>1, BasicsStep, VerdictsStep, CleanupStep
<1>3. CASE UNCHANGED vars
  <2>1. Infections' /\ JobsOfPast'
    BY <1>3 DEF vars, ledgerVars, storeVars, Sure, Infections, JobsOfPast, Cleaning, Purges, Past,
       Kept, AlreadyReversed, AtWorker
  <2>2. \A u \in Uploads :
           /\ Current(u)' = Current(u)
           /\ Reserving(u)' = Reserving(u) /\ Unfiled(u)' = Unfiled(u) /\ Doomed(u)' = Doomed(u)
           /\ Unpaid(u)' = Unpaid(u) /\ Owed(u)' = Owed(u)
    BY <1>3, SameRequest DEF vars
  <2>3. \A d : Charged(d)' <=> Charged(d)
    BY <1>3, <2>2 DEF vars, ledgerVars, storeVars, Charged, AlreadyReversed
  <2>4. StoredBytes(ChargedIds)' = StoredBytes(ChargedIds)
    <3>1. ChargedIds' = ChargedIds
      BY <2>3 DEF ChargedIds
    <3> QED
      BY <3>1 DEF StoredBytes, TotalBytes, Units, SizeOf
  <2>5. Compensable' <=> Compensable
    BY <1>3 DEF vars, Compensable, NeverThrew
  <2>6. Books => Books'
    BY <1>3, <2>2, <2>4 DEF vars, ledgerVars, storeVars, Books, HeldRows, HeldBlobs, Counted,
       InTables, ToUndo, OnceEach, At
  <2> QED
    BY <1>2, <2>1, <2>5, <2>6 DEF Sure
<1>4. CASE UploadsAct
  BY <1>2, <1>4, UploadInfections, UploadBooks DEF UploadsAct, UploadNext, Sure
<1>5. CASE WorkersAct
  BY <1>2, <1>5, WorkerInfections, WorkerBooks DEF WorkersAct, WorkerNext, Sure
<1>6. CASE \E u \in Uploads : UploadIgnored(u)
  BY <1>1, <1>2, <1>6, IgnoredGoesOn, OnBooks DEF Sure, Unrevised
<1>7. ~RevisionsAct /\ ~\E r \in Revisions : RevisionIgnored(r)
  BY DEF RevisionsAct, AddVersionNext, Unrevised
<1> QED
  BY <1>3, <1>4, <1>5, <1>6, <1>7 DEF Next

\* When all is quiet nothing is held, and no purge is under way.
LEMMA QuietSettles ==
    ASSUME Unrevised, Sure, Books, Quiet
    PROVE  /\ blobs = DOMAIN versions /\ used[tenant] = StoredBytes(DOMAIN versions)
           /\ reservations = EmptyTable
<1>1. Basics /\ DOMAIN versions \subseteq ReservationIds
  BY DEF Sure, Basics, Tables
<1>2. \A u \in Uploads : ~Holds(u)
  BY <1>1 DEF Quiet, Finished, Terminal, Holds, Basics, InOrder, UploadLine
<1>3. \A u \in Uploads : ~Reserving(u) /\ ~Unfiled(u) /\ ~Doomed(u) /\ ~Unpaid(u) /\ ~Owed(u)
  BY <1>1, <1>2, HoldingIsHolds
<1>4. DOMAIN reservations = {}
  BY <1>3 DEF Books, HeldRows
<1>5. reservations = EmptyTable
  BY <1>4 DEF Books, HeldRows, EmptyTable
<1>6. \A v \in DOMAIN versions : ~versions[v].malwareSignature
  BY DEF Quiet, Sure, Infections, Purges, Cleaning, AtWorker
<1>7. blobs = DOMAIN versions
  BY <1>3, <1>6 DEF Books, HeldBlobs
<1>8. \A v \in DOMAIN versions : ~AlreadyReversed(tenant, v)
  BY <1>1, <1>6 DEF Sure, JobsOfPast
<1>9. ChargedIds = DOMAIN versions
  BY <1>1, <1>3, <1>8 DEF ChargedIds, Charged
<1> QED
  BY <1>5, <1>7, <1>9 DEF Books, Counted

\* As long as no version is added, and neither the session check nor the insert
\* fails uncaught, the accounts agree whenever all is quiet: whatever was taken
\* back, purged, repeated or left by a worker that died, the counter and the
\* blobs are those of the versions on record and nothing stays reserved.
THEOREM AccountsSettleHolds ==
    ASSUME Revisions = {}, {"validate", "insert"} \cap FaultPoints = {}
    PROVE  Spec => []AccountsSettle
<1>1. Unrevised /\ Caught
  BY DEF Unrevised, Caught
<1> DEFINE Inv == Sure /\ (Compensable => Books)
<1>2. Init => Inv
  BY <1>1, SureInit
<1>3. Inv /\ [Next]_vars => Inv'
  BY <1>1, SureStep
<1>4. Inv => AccountsSettle
  BY <1>1, QuietSettles DEF AccountsSettle
<1> HIDE DEF Inv
<1> QED
  BY <1>2, <1>3, <1>4, PTL DEF Spec
=============================================================================
