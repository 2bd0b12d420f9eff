---------------------------- MODULE UploadProofs ----------------------------
(***************************************************************************)
(* Theorems about concurrent uploads, for any requests, files, contents,   *)
(* sizes, quota, order of steps and calls that throw.                      *)
(*                                                                         *)
(* What a request holds of each store is a function of its local state:    *)
(* the files it has accepted and not taken back, and the file it works on. *)
(* The invariant says that the stores hold exactly that.  A step of one    *)
(* request touches its own file only, so the others' part of the invariant *)
(* is untouched (OthersStay); the request's own part follows its pc.       *)
(***************************************************************************)
EXTENDS UploadSystem, TablesTheorems

-----------------------------------------------------------------------------
(* The local state of a request. *)

Calls == {"release", "deleteBlob", "deleteDocument", "revert"}
Filing == {"reserve", "put", "validate", "insert", "commit", "undo"}
Emitting == {"emit", "enqueue", "audit", "ok"}
Rolling == {"rollback", "undoAccepted", "expired"}
Places == {"start", "tooLarge", "threw"} \cup Filing \cup Emitting \cup Rolling
Results == {"accepted", "refused", "duplicate"}

Local == [pc : Places, i : Nat \ {0}, results : Seq(Results), created : Seq(Attempts),
          todo : SUBSET Calls, after : {"start", "threw", "rollback", "duplicate", "next"}]

\* Where each pc stands in the batch: `n` files have an outcome, `m` of them
\* are accepted.
Placed(u) ==
    LET r == up[u]
        n == Len(r.results)
        m == Len(r.created)
        len == Len(Files[u])
    IN  /\ r.pc \in {"start", "tooLarge"} => n = 0 /\ r.i = 1
        /\ r.pc \in Filing => r.i = n + 1 /\ n < len
        /\ r.pc \in Emitting => n = len /\ r.i <= m + 1
        /\ r.pc \in {"enqueue", "audit", "undoAccepted"} => r.i <= m
        /\ r.pc \in Rolling => n < len /\ r.i <= m + 1
        /\ r.pc \in {"ok", "expired"} => r.i = m + 1
        /\ r.pc = "threw" => (n < len /\ r.i = n + 1) \/ (n = len /\ r.i <= m)

\* What a compensation has to do, and what comes after it.
Undoing(u) ==
    LET r == up[u]
    IN  /\ r.pc \notin {"undo", "undoAccepted"} => r.todo = {}
        /\ r.pc = "undo" =>
              /\ r.after \in {"threw", "rollback", "duplicate"}
              /\ "revert" \notin r.todo
              /\ "deleteDocument" \in r.todo => r.after = "threw"
        /\ r.pc = "undoAccepted" => r.after = "next" /\ "release" \notin r.todo
        /\ r.pc \in {"start", "reserve", "put", "validate", "insert", "commit"} =>
              r.after \in {"start", "duplicate"}

\* The accepted files are those with that outcome, each once.
Collected(u) ==
    LET r == up[u]
    IN  /\ \A j \in DOMAIN r.created : \E k \in DOMAIN r.results :
              r.results[k] = "accepted" /\ r.created[j] = Files[u][k]
        /\ \A k \in DOMAIN r.results : r.results[k] = "accepted" =>
              Files[u][k] \in CreatedIds(u)
        /\ \A j, l \in DOMAIN r.created : r.created[j] = r.created[l] => j = l

Orderly(u) == Placed(u) /\ Undoing(u) /\ Collected(u)
              /\ Len(up[u].results) <= Len(Files[u])

-----------------------------------------------------------------------------
(* What a request holds of each store. *)

\* The file in hand, while the request is at one of `pcs` or has `call` to do.
InHand(u, pcs, call) ==
    IF up[u].pc \in pcs \/ (up[u].pc = "undo" /\ call \in up[u].todo)
    THEN {Files[u][up[u].i]} ELSE {}

\* Has rollbackBatch made this call for the j-th accepted file?
TakenBack(u, j, call) ==
    /\ up[u].pc \in Rolling
    /\ j < up[u].i \/ (j = up[u].i /\ At(u, "undoAccepted") /\ call \notin up[u].todo)

\* The accepted files for which it has not.
Kept(u, call) ==
    {up[u].created[j] : j \in {l \in DOMAIN up[u].created : ~TakenBack(u, l, call)}}

\* The request will not succeed: it undoes an accepted file or its own throw.
Spoiled(u) ==
    \/ up[u].pc \in {"threw"} \cup Rolling
    \/ At(u, "undo") /\ up[u].after # "duplicate"

Rows(u) == Kept(u, "deleteDocument") \cup InHand(u, {"commit"}, "deleteDocument")
RowsKept(u) ==
    /\ Rows(u) \subseteq DOMAIN versions
    /\ (NeverThrew({"undo"}) \/ ~Spoiled(u)) => FileIds(u) \cap DOMAIN versions \subseteq Rows(u)

\* No call has thrown that leaves this request's file uncompensated.
Tidy(u) == NeverThrew({"undo"}) /\ (At(u, "threw") => NeverThrew({"validate", "insert"}))

Written == {"validate", "insert", "commit"}
BlobsKept(u) ==
    /\ Kept(u, "deleteBlob") \cup InHand(u, Written, "none") \subseteq blobs
    /\ Tidy(u) => FileIds(u) \cap blobs
                    \subseteq Kept(u, "deleteBlob") \cup InHand(u, Written, "deleteBlob")

Holding == {"put", "validate", "insert", "commit"}
HoldsKept(u) ==
    /\ InHand(u, Holding, "none") \subseteq DOMAIN reservations
    /\ Tidy(u) => FileIds(u) \cap DOMAIN reservations \subseteq InHand(u, Holding, "release")

\* Jobs and events are of accepted files of a batch that is through.
JobsKept(u) ==
    /\ \A id \in FileIds(u) : id \in queue \/ <<"document.upload", id>> \in audit =>
          id \in CreatedIds(u) /\ up[u].pc \in Emitting \cup {"threw"}
    /\ up[u].pc \in Emitting => \A j \in DOMAIN up[u].created :
          /\ j < up[u].i \/ (j = up[u].i /\ At(u, "audit")) => up[u].created[j] \in queue
          /\ j < up[u].i /\ NeverThrew({"audit"}) =>
                <<"document.upload", up[u].created[j]>> \in audit

StoresAgree(u) == RowsKept(u) /\ BlobsKept(u) /\ HoldsKept(u) /\ JobsKept(u)

\* The tables: one row of each kind per attempt, and what was there at first.
Whole ==
    /\ DOMAIN documents = DOMAIN versions
    /\ \A v \in DOMAIN versions : versions[v].documentId = v
    /\ Seeded \subseteq DOMAIN versions \cap blobs
    /\ DOMAIN versions \subseteq Seeded \cup Attempts
    /\ queue \subseteq Attempts
    /\ faults \in [FaultPoints -> Nat]

Batches ==
    /\ up \in [Uploads -> Local]
    /\ \A u \in Uploads : Orderly(u) /\ StoresAgree(u)
    /\ Whole

\* No two rows are of one content; and a duplicate is one of a row that is
\* there, or of a file of a request that will not succeed.
HasRival(id) ==
    \/ ContentStored(id)
    \/ \E w \in Uploads : Spoiled(w) /\ \E f \in FileIds(w) : Content[f] = Content[id]
Rivaled(u) ==
    /\ \A k \in DOMAIN up[u].results :
          up[u].results[k] = "duplicate" => HasRival(Files[u][k])
    /\ At(u, "undo") /\ up[u].after = "duplicate" => HasRival(Files[u][up[u].i])
Rivals ==
    /\ \A v, w \in DOMAIN versions : Content[v] = Content[w] => v = w
    /\ \A u \in Uploads : Rivaled(u)

-----------------------------------------------------------------------------
(* Steps. *)

\* A step of u leaves the other requests' files alone.
TouchesOnly(u) ==
    \A id \in Attempts \ FileIds(u) :
        /\ id \in DOMAIN versions' <=> id \in DOMAIN versions
        /\ id \in blobs' <=> id \in blobs
        /\ id \in DOMAIN reservations' <=> id \in DOMAIN reservations
        /\ id \in queue' <=> id \in queue
        /\ <<"document.upload", id>> \in audit' <=> <<"document.upload", id>> \in audit

\* What has thrown has thrown.
FaultsGrow ==
    /\ faults' \in [FaultPoints -> Nat]
    /\ \A p \in FaultPoints : faults'[p] = 0 => faults[p] = 0

\* The new local state of u; the others keep theirs.
Becomes(u, pc, i, todo, after) ==
    /\ up' \in [Uploads -> Local]
    /\ \A w \in Uploads : w # u => up'[w] = up[w]
    /\ up'[u].pc = pc /\ up'[u].i = i /\ up'[u].todo = todo /\ up'[u].after = after
    /\ up'[u].results = up[u].results /\ up'[u].created = up[u].created

\* The files of the requests: each has some, and no two have one in common.
LEMMA FilesAreApart ==
    /\ \A u \in Uploads : /\ Len(Files[u]) \in Nat \ {0}
                          /\ DOMAIN Files[u] = 1 .. Len(Files[u])
                          /\ FileIds(u) \subseteq Attempts
    /\ \A u \in Uploads : \A k \in 1 .. Len(Files[u]) : Files[u][k] \in FileIds(u)
    /\ \A u \in Uploads : \A k, l \in 1 .. Len(Files[u]) : Files[u][k] = Files[u][l] => k = l
    /\ \A u, w \in Uploads : u # w => FileIds(u) \cap FileIds(w) = {}
    /\ Attempts \subseteq ReservationIds /\ Attempts \cap Seeded = {}
<1>1. ASSUME NEW u \in Uploads
      PROVE  Len(Files[u]) \in Nat \ {0} /\ DOMAIN Files[u] = 1 .. Len(Files[u])
             /\ Files[u] \in Seq(ReservationIds)
  BY UploadAssumption
<1>2. ASSUME NEW u \in Uploads PROVE FileIds(u) \subseteq Attempts
  BY DEF Attempts
<1>3. \A u \in Uploads : \A k \in 1 .. Len(Files[u]) : Files[u][k] \in FileIds(u)
  BY <1>1 DEF FileIds
<1>4. \A u \in Uploads : \A k, l \in 1 .. Len(Files[u]) : Files[u][k] = Files[u][l] => k = l
  BY <1>1, UploadAssumption
<1>5. \A u, w \in Uploads : u # w => FileIds(u) \cap FileIds(w) = {}
  BY UploadAssumption DEF FileIds
<1>6. Attempts \subseteq ReservationIds /\ Attempts \cap Seeded = {}
  BY <1>1, UploadAssumption DEF Attempts, FileIds
<1> QED
  BY <1>1, <1>2, <1>3, <1>4, <1>5, <1>6

\* The fields of a local state.
LEMMA LocalFields ==
    ASSUME up \in [Uploads -> Local], NEW u \in Uploads
    PROVE  /\ up[u].pc \in Places /\ up[u].i \in Nat \ {0}
           /\ up[u].results \in Seq(Results) /\ up[u].created \in Seq(Attempts)
           /\ Len(up[u].results) \in Nat /\ DOMAIN up[u].results = 1 .. Len(up[u].results)
           /\ Len(up[u].created) \in Nat /\ DOMAIN up[u].created = 1 .. Len(up[u].created)
           /\ up[u].todo \subseteq Calls
           /\ up[u].after \in {"start", "threw", "rollback", "duplicate", "next"}
<1>1. up[u] \in Local
  OBVIOUS
<1>2. up[u].results \in Seq(Results) /\ up[u].created \in Seq(Attempts)
  BY <1>1 DEF Local
<1> QED
  BY <1>1, <1>2 DEF Local

\* The accepted files are files of the request with an outcome.
LEMMA CreatedAreFiles ==
    ASSUME up \in [Uploads -> Local], NEW u \in Uploads, Orderly(u)
    PROVE  /\ CreatedIds(u) \subseteq FileIds(u)
           /\ \A k \in DOMAIN Files[u] : Files[u][k] \in CreatedIds(u) <=>
                 k \in DOMAIN up[u].results /\ up[u].results[k] = "accepted"
<1>1. \A j \in DOMAIN up[u].created : \E k \in DOMAIN up[u].results :
         /\ up[u].results[k] = "accepted" /\ up[u].created[j] = Files[u][k]
         /\ k \in DOMAIN Files[u]
  BY FilesAreApart, LocalFields DEF Orderly, Collected
<1> QED
  BY <1>1, FilesAreApart DEF CreatedIds, FileIds, Orderly, Collected

LEMMA InHandIsFile ==
    ASSUME up \in [Uploads -> Local], NEW u \in Uploads, Orderly(u),
           NEW pcs \in SUBSET Filing, NEW call
    PROVE  InHand(u, pcs, call) \subseteq FileIds(u)
<1>1. up[u].pc \in Filing => up[u].i \in 1 .. Len(Files[u])
  BY FilesAreApart, LocalFields DEF Orderly, Placed
<1>2. up[u].pc \in Filing => Files[u][up[u].i] \in FileIds(u)
  BY <1>1, FilesAreApart
<1> QED
  BY <1>2 DEF InHand, Filing

\* Unless it is rolling back, a request keeps what it has accepted.
LEMMA KeepsAll ==
    ASSUME NEW u \in Uploads, up[u].pc \notin Rolling
    PROVE  \A call : Kept(u, call) = CreatedIds(u)
BY DEF Kept, TakenBack, CreatedIds

LEMMA KeptAreCreated ==
    ASSUME NEW u \in Uploads
    PROVE  \A call : Kept(u, call) \subseteq CreatedIds(u)
BY DEF Kept, CreatedIds

\* Goto and Undo change what they say.
LEMMA GotoBecomes ==
    ASSUME up \in [Uploads -> Local], NEW u \in Uploads, NEW pc \in Places, Goto(u, pc)
    PROVE  Becomes(u, pc, up[u].i, up[u].todo, up[u].after)
BY DEF Goto, Becomes, Local

LEMMA UndoBecomes ==
    ASSUME up \in [Uploads -> Local], NEW u \in Uploads, NEW pc \in Places,
           NEW calls \in SUBSET Calls, NEW after \in {"threw", "rollback", "duplicate", "next"},
           Undo(u, pc, calls, after)
    PROVE  Becomes(u, pc, up[u].i, calls, after)
BY ZenonT(40) DEF Undo, Becomes, Local

\* A step of another request leaves a request's part of the invariant alone.
LEMMA OthersStay ==
    ASSUME NEW u \in Uploads, NEW w \in Uploads, w # u, up'[w] = up[w],
           up \in [Uploads -> Local], Orderly(w), StoresAgree(w),
           TouchesOnly(u), FaultsGrow
    PROVE  Orderly(w)' /\ StoresAgree(w)'
<1>1. Orderly(w)'
  BY DEF Orderly, Placed, Undoing, Collected, CreatedIds
<1>2. /\ \A call : Kept(w, call)' = Kept(w, call)
      /\ CreatedIds(w)' = CreatedIds(w) /\ Spoiled(w)' = Spoiled(w)
      /\ \A pcs, call : InHand(w, pcs, call)' = InHand(w, pcs, call)
  BY DEF Kept, TakenBack, CreatedIds, Spoiled, InHand, At
<1>3. FileIds(w) \subseteq Attempts \ FileIds(u)
  BY FilesAreApart
<1>4. CreatedIds(w) \subseteq FileIds(w)
  BY CreatedAreFiles
<1>5. \A points : NeverThrew(points)' => NeverThrew(points)
  BY DEF NeverThrew, FaultsGrow
<1>6. \A call : Kept(w, call) \subseteq FileIds(w)
  BY <1>4, KeptAreCreated
<1>7. ASSUME NEW pcs \in SUBSET Filing, NEW call
      PROVE  InHand(w, pcs, call) \subseteq FileIds(w)
  BY InHandIsFile
<1>8. RowsKept(w)'
  <2>1. Rows(w)' = Rows(w) /\ Rows(w) \subseteq FileIds(w)
    BY <1>2, <1>6, <1>7 DEF Rows, Filing
  <2> QED
    BY <1>2, <1>3, <1>5, <2>1 DEF RowsKept, StoresAgree, TouchesOnly
<1>9. BlobsKept(w)'
  <2>1. /\ Kept(w, "deleteBlob")' = Kept(w, "deleteBlob")
        /\ InHand(w, Written, "none")' = InHand(w, Written, "none")
        /\ InHand(w, Written, "deleteBlob")' = InHand(w, Written, "deleteBlob")
        /\ Tidy(w)' => Tidy(w)
    BY <1>2, <1>5 DEF Tidy, At
  <2>2. Kept(w, "deleteBlob") \cup InHand(w, Written, "none") \subseteq FileIds(w)
    BY <1>6, <1>7 DEF Filing, Written
  <2> QED
    BY <1>3, <2>1, <2>2 DEF BlobsKept, StoresAgree, TouchesOnly
<1>10. HoldsKept(w)'
  <2>1. /\ InHand(w, Holding, "none")' = InHand(w, Holding, "none")
        /\ InHand(w, Holding, "release")' = InHand(w, Holding, "release")
        /\ Tidy(w)' => Tidy(w)
    BY <1>2, <1>5 DEF Tidy, At
  <2>2. InHand(w, Holding, "none") \subseteq FileIds(w)
    BY <1>7 DEF Filing, Holding
  <2> QED
    BY <1>3, <2>1, <2>2 DEF HoldsKept, StoresAgree, TouchesOnly
<1>11. JobsKept(w)'
  <2>1. \A j \in DOMAIN up[w].created : up[w].created[j] \in FileIds(w)
    BY <1>4 DEF CreatedIds
  <2> QED
    BY <1>2, <1>3, <1>5, <2>1 DEF JobsKept, StoresAgree, TouchesOnly, At
<1> QED
  BY <1>1, <1>8, <1>9, <1>10, <1>11 DEF StoresAgree

\* What a step of u must show: its own part of the invariant, that it touches
\* its own files only, and that the tables stay whole.
Advances(u) ==
    /\ up' \in [Uploads -> Local]
    /\ \A w \in Uploads : w # u => up'[w] = up[w]
    /\ Orderly(u)' /\ StoresAgree(u)'
    /\ TouchesOnly(u) /\ FaultsGrow /\ Whole'

LEMMA Throwing ==
    ASSUME Whole, NEW point, Throws(point)
    PROVE  /\ FaultsGrow
           /\ \A points : NeverThrew(points)' => NeverThrew(points) /\ point \notin points
BY DEF Whole, Throws, FaultsGrow, NeverThrew

LEMMA Calm ==
    ASSUME Whole, UNCHANGED faults
    PROVE  FaultsGrow /\ \A points : NeverThrew(points)' <=> NeverThrew(points)
BY DEF Whole, FaultsGrow, NeverThrew

\* The stores change for this attempt at most.
SparesAllBut(f) ==
    \A id \in Attempts \ {f} :
        /\ id \in DOMAIN versions' <=> id \in DOMAIN versions
        /\ id \in blobs' <=> id \in blobs
        /\ id \in DOMAIN reservations' <=> id \in DOMAIN reservations

\* What the stores hold of the file in hand, within the loop over the files.
FileAgrees(u) ==
    LET pc == up[u].pc
        f  == Files[u][up[u].i]
        undo(call) == pc = "undo" /\ call \in up[u].todo
        row == pc = "commit" \/ undo("deleteDocument")
    IN  /\ row => f \in DOMAIN versions
        /\ NeverThrew({"undo"}) \/ ~Spoiled(u) => (f \in DOMAIN versions => row)
        /\ pc \in Written => f \in blobs
        /\ Tidy(u) /\ f \in blobs => pc \in Written \/ undo("deleteBlob")
        /\ pc \in Holding => f \in DOMAIN reservations
        /\ Tidy(u) /\ f \in DOMAIN reservations => pc \in Holding \/ undo("release")

LEMMA FileIsApart ==
    ASSUME up \in [Uploads -> Local], NEW u \in Uploads, Orderly(u),
           up[u].pc \in Filing \cup {"start"}
    PROVE  /\ Files[u][up[u].i] \in FileIds(u) /\ Files[u][up[u].i] \in Attempts
           /\ Files[u][up[u].i] \notin CreatedIds(u)
<1>1. up[u].i \in 1 .. Len(Files[u]) /\ up[u].i \notin DOMAIN up[u].results
  BY FilesAreApart, LocalFields DEF Orderly, Placed
<1> QED
  BY <1>1, FilesAreApart, CreatedAreFiles

LEMMA FileAgreed ==
    ASSUME up \in [Uploads -> Local], NEW u \in Uploads, Orderly(u), StoresAgree(u),
           up[u].pc \in Filing \cup {"start"}
    PROVE  FileAgrees(u)
<1> DEFINE f == Files[u][up[u].i]
<1>1. f \in FileIds(u) /\ f \notin CreatedIds(u)
  BY FileIsApart
<1>2. \A call : Kept(u, call) = CreatedIds(u)
  BY KeepsAll DEF Filing, Rolling
<1> QED
  BY <1>1, <1>2 DEF StoresAgree, RowsKept, BlobsKept, HoldsKept, Rows, InHand, FileAgrees

\* A step within the loop over the files, or out of it by a throw, is judged by
\* what it does with the file in hand.
LEMMA FilingAgrees ==
    ASSUME up \in [Uploads -> Local], NEW u \in Uploads, Orderly(u), StoresAgree(u),
           up[u].pc \in Filing \cup {"start"},
           NEW pc \in Filing \cup {"threw", "tooLarge"}, NEW todo \in SUBSET Calls, NEW after,
           Becomes(u, pc, up[u].i, todo, after),
           FaultsGrow, UNCHANGED <<queue, audit>>, Spoiled(u) => Spoiled(u)',
           SparesAllBut(Files[u][up[u].i]), FileAgrees(u)'
    PROVE  StoresAgree(u)' /\ TouchesOnly(u)
<1> DEFINE C == CreatedIds(u)
           f == Files[u][up[u].i]
<1>1. f \in FileIds(u) /\ f \notin C
  BY FileIsApart
<1>2. C \subseteq FileIds(u) /\ FileIds(u) \subseteq Attempts
  BY CreatedAreFiles, FilesAreApart
<1>3. /\ up[u].pc \notin Rolling /\ pc \notin Rolling
      /\ up[u].pc \notin Emitting \cup {"threw"} /\ pc \notin Emitting
  BY DEF Filing, Rolling, Emitting
<1>4. CreatedIds(u)' = C
  BY DEF Becomes, CreatedIds
<1>5. /\ \A call : Kept(u, call) = C
      /\ Kept(u, "deleteDocument")' = C /\ Kept(u, "deleteBlob")' = C
  <2>1. up'[u].pc \notin Rolling
    BY <1>3 DEF Becomes
  <2> QED
    BY <1>3, <1>4, <2>1, KeepsAll DEF Kept, TakenBack, CreatedIds
<1>6. \A pcs, call : InHand(u, pcs, call) \subseteq {f}
  BY DEF InHand
<1>7. \A points : NeverThrew(points)' => NeverThrew(points)
  BY DEF NeverThrew, FaultsGrow
<1>8. RowsKept(u)'
  <2>1. Rows(u) \subseteq C \cup {f} /\ C \subseteq Rows(u)
    BY <1>5, <1>6 DEF Rows
  <2>2. Rows(u)' = C \cup (IF pc = "commit" \/ (pc = "undo" /\ "deleteDocument" \in todo)
                           THEN {f} ELSE {})
    BY <1>5 DEF Rows, InHand, Becomes
  <2> QED
    BY <1>1, <1>2, <1>7, <2>1, <2>2 DEF RowsKept, StoresAgree, SparesAllBut, FileAgrees, Becomes
<1>9. Tidy(u)' => Tidy(u)
  BY <1>3, <1>7 DEF Tidy, At
<1>10. BlobsKept(u)'
  <2>1. InHand(u, Written, "none")' = IF pc \in Written \/ (pc = "undo" /\ "none" \in todo)
                                     THEN {f} ELSE {}
    BY DEF InHand, Becomes
  <2>2. InHand(u, Written, "deleteBlob")'
          = IF pc \in Written \/ (pc = "undo" /\ "deleteBlob" \in todo) THEN {f} ELSE {}
    BY DEF InHand, Becomes
  <2>3. "none" \notin todo
    BY DEF Calls
  <2>4. InHand(u, Written, "deleteBlob") \subseteq {f}
    BY <1>6
  <2>5. C \subseteq blobs /\ (Tidy(u) => FileIds(u) \cap blobs \subseteq C \cup {f})
    BY <1>5, <2>4 DEF BlobsKept, StoresAgree
  <2> QED
    BY <1>1, <1>2, <1>5, <1>9, <2>1, <2>2, <2>3, <2>5
    DEF BlobsKept, SparesAllBut, FileAgrees, Becomes
<1>11. HoldsKept(u)'
  <2>1. InHand(u, Holding, "none")' = IF pc \in Holding \/ (pc = "undo" /\ "none" \in todo)
                                     THEN {f} ELSE {}
    BY DEF InHand, Becomes
  <2>2. InHand(u, Holding, "release")'
          = IF pc \in Holding \/ (pc = "undo" /\ "release" \in todo) THEN {f} ELSE {}
    BY DEF InHand, Becomes
  <2>3. "none" \notin todo
    BY DEF Calls
  <2>4. InHand(u, Holding, "release") \subseteq {f}
    BY <1>6
  <2>5. Tidy(u) => FileIds(u) \cap DOMAIN reservations \subseteq {f}
    BY <2>4 DEF HoldsKept, StoresAgree
  <2> QED
    BY <1>1, <1>2, <1>9, <2>1, <2>2, <2>3, <2>5
    DEF HoldsKept, SparesAllBut, FileAgrees, Becomes
<1>12. JobsKept(u)'
  BY <1>3 DEF JobsKept, StoresAgree, Becomes
<1>13. TouchesOnly(u)
  BY <1>1 DEF TouchesOnly, SparesAllBut
<1> QED
  BY <1>8, <1>10, <1>11, <1>12, <1>13 DEF StoresAgree

\* The rows of an attempt's own document are its only ones, so that deleting
\* the document deletes the one version.
LEMMA OneVersionEach ==
    ASSUME Whole, NEW d
    PROVE  VersionsOf(d) = {d} \cap DOMAIN versions
BY DEF Whole, VersionsOf

\* Where the stores are left as they are and the pc moves within the loop.
LEMMA BeginAdvances ==
    ASSUME Batches, NEW u \in Uploads, Begin(u)
    PROVE  Advances(u)
<1> DEFINE pc == IF Len(Files[u]) > MaxBatch THEN "tooLarge" ELSE "reserve"
           f == Files[u][up[u].i]
<1> USE DEF Batches
<1>1. up[u].pc = "start" /\ pc \in {"tooLarge", "reserve"}
  BY DEF Begin, At
<1>2. Becomes(u, pc, up[u].i, up[u].todo, up[u].after)
  <2>1. pc \in Places /\ Goto(u, pc)
    BY <1>1 DEF Begin, Places, Filing
  <2> HIDE DEF pc
  <2> QED
    BY <2>1, GotoBecomes
<1>3. UNCHANGED <<documents, versions, blobs, queue, audit, faults, reservations>>
  BY DEF Begin, storeVars, ledgerVars
<1> HIDE DEF pc
<1>4. Orderly(u)'
  BY <1>1, <1>2, FilesAreApart, LocalFields
  DEF Becomes, Orderly, Placed, Undoing, Collected, CreatedIds, Filing, Emitting, Rolling
<1>5. Whole' /\ FaultsGrow /\ SparesAllBut(f) /\ ~Spoiled(u)
  BY <1>1, <1>3, Calm DEF Whole, SparesAllBut, Spoiled, At, Rolling
<1>6. FileAgrees(u)'
  <2>1. FileAgrees(u)
    BY <1>1, FileAgreed
  <2>2. \A points : NeverThrew(points)' <=> NeverThrew(points)
    BY <1>3, Calm
  <2>3. (Tidy(u)' => Tidy(u)) /\ ~Spoiled(u)
    BY <1>1, <2>2 DEF Tidy, At, Spoiled, Rolling
  <2> QED
    BY <1>1, <1>2, <1>3, <2>1, <2>3 DEF FileAgrees, Becomes, Written, Holding
<1>7. StoresAgree(u)' /\ TouchesOnly(u)
  BY <1>1, <1>2, <1>3, <1>5, <1>6, LocalFields, FilingAgrees DEF Filing
<1> QED
  BY <1>2, <1>4, <1>5, <1>7 DEF Becomes, Advances

\* Within the loop the place in the batch does not change.
LEMMA FilingAdvances ==
    ASSUME Batches, NEW u \in Uploads, up[u].pc \in Filing,
           NEW pc \in Filing \cup {"threw"}, NEW todo \in SUBSET Calls, NEW after,
           Becomes(u, pc, up[u].i, todo, after), Undoing(u)',
           FaultsGrow, Whole', UNCHANGED <<queue, audit>>, Spoiled(u) => Spoiled(u)',
           SparesAllBut(Files[u][up[u].i]), FileAgrees(u)'
    PROVE  Advances(u)
<1> USE DEF Batches
<1>1. Orderly(u)
  OBVIOUS
<1>2. Placed(u)'
  <2>1. pc \notin {"start", "tooLarge"} \cup Emitting \cup Rolling
    BY DEF Filing, Emitting, Rolling
  <2>2. pc \notin {"ok", "expired", "enqueue", "audit", "undoAccepted"}
    BY DEF Filing
  <2>3. up[u].i = Len(up[u].results) + 1 /\ Len(up[u].results) < Len(Files[u])
    BY <1>1 DEF Orderly, Placed
  <2> QED
    BY <2>1, <2>2, <2>3 DEF Placed, Becomes
<1>3. Orderly(u)'
  BY <1>1, <1>2 DEF Orderly, Collected, CreatedIds, Becomes
<1>4. StoresAgree(u)' /\ TouchesOnly(u)
  BY <1>1, FilingAgrees
<1> QED
  BY <1>3, <1>4 DEF Becomes, Advances

\* The hypotheses a filing step starts from.
LEMMA FilingFacts ==
    ASSUME Batches, NEW u \in Uploads, up[u].pc \in Filing
    PROVE  /\ FileAgrees(u) /\ Undoing(u) /\ Current(u) = Files[u][up[u].i]
           /\ Current(u) \in FileIds(u) /\ Current(u) \in Attempts
           /\ Current(u) \in ReservationIds \ Seeded
           /\ Current(u) \notin CreatedIds(u)
           /\ up[u].todo \in SUBSET Calls
<1>1. Current(u) = Files[u][up[u].i]
  BY DEF Current, Filing
<1> QED
  BY <1>1, FileAgreed, FileIsApart, LocalFields, FilesAreApart DEF Batches, Orderly

LEMMA ReserveAdvances ==
    ASSUME Batches, NEW u \in Uploads, Reserve(u)
    PROVE  Advances(u)
<1> DEFINE f == Files[u][up[u].i]
<1>1. up[u].pc = "reserve" /\ up[u].pc \in Filing
  BY DEF Reserve, At, Filing
<1>2. Becomes(u, "put", up[u].i, up[u].todo, up[u].after)
  BY GotoBecomes DEF Reserve, Batches, Places, Filing
<1>3. /\ UNCHANGED <<documents, versions, blobs, queue, audit, faults>>
      /\ DOMAIN reservations' = DOMAIN reservations \cup {f}
  BY <1>1, FilingFacts DEF Reserve, storeVars, TryReserve, Insert
<1>4. Whole' /\ FaultsGrow /\ SparesAllBut(f) /\ ~Spoiled(u)
  BY <1>1, <1>3, Calm DEF Batches, Whole, SparesAllBut, Spoiled, At, Rolling
<1>5. Undoing(u)'
  BY <1>1, <1>2, FilingFacts DEF Undoing, Becomes
<1>6. FileAgrees(u)'
  <2>1. FileAgrees(u)
    BY <1>1, FilingFacts
  <2>2. \A points : NeverThrew(points)' <=> NeverThrew(points)
    BY <1>3, Calm DEF Batches
  <2>3. (Tidy(u)' => Tidy(u)) /\ ~Spoiled(u)
    BY <1>1, <1>4, <2>2 DEF Tidy, At
  <2> QED
    BY <1>1, <1>2, <1>3, <2>1, <2>3 DEF FileAgrees, Becomes, Written, Holding
<1> QED
  BY <1>1, <1>2, <1>3, <1>4, <1>5, <1>6, FilingFacts, FilingAdvances DEF Filing

LEMMA PutAdvances ==
    ASSUME Batches, NEW u \in Uploads, Put(u)
    PROVE  Advances(u)
<1> DEFINE f == Files[u][up[u].i]
<1>1. up[u].pc = "put" /\ up[u].pc \in Filing
  BY DEF Put, At, Filing
<1>2. Becomes(u, "validate", up[u].i, up[u].todo, up[u].after)
  BY GotoBecomes DEF Put, Batches, Places, Filing
<1>3. /\ UNCHANGED <<documents, versions, reservations, queue, audit, faults>>
      /\ blobs' = blobs \cup {f}
  BY <1>1, FilingFacts DEF Put, ledgerVars, PutBlob
<1>4. Whole' /\ FaultsGrow /\ SparesAllBut(f) /\ ~Spoiled(u)
  BY <1>1, <1>3, Calm DEF Batches, Whole, SparesAllBut, Spoiled, At, Rolling
<1>5. Undoing(u)'
  BY <1>1, <1>2, FilingFacts DEF Undoing, Becomes
<1>6. FileAgrees(u)'
  <2>1. FileAgrees(u)
    BY <1>1, FilingFacts
  <2>2. \A points : NeverThrew(points)' <=> NeverThrew(points)
    BY <1>3, Calm DEF Batches
  <2>3. (Tidy(u)' => Tidy(u)) /\ ~Spoiled(u)
    BY <1>1, <1>4, <2>2 DEF Tidy, At
  <2> QED
    BY <1>1, <1>2, <1>3, <2>1, <2>3 DEF FileAgrees, Becomes, Written, Holding
<1> QED
  BY <1>1, <1>2, <1>3, <1>4, <1>5, <1>6, FilingFacts, FilingAdvances DEF Filing

LEMMA PutThrowsAdvances ==
    ASSUME Batches, NEW u \in Uploads, PutThrows(u)
    PROVE  Advances(u)
<1> DEFINE f == Files[u][up[u].i]
           todo == {"release", "deleteBlob"}
<1>1. up[u].pc = "put" /\ up[u].pc \in Filing /\ todo \in SUBSET Calls
  BY DEF PutThrows, At, Filing, Calls
<1>2. Becomes(u, "undo", up[u].i, todo, "threw")
  BY <1>1, UndoBecomes DEF PutThrows, Batches, Places, Filing
<1>3. /\ UNCHANGED <<documents, versions, reservations, queue, audit>>
      /\ blobs' = blobs \cup {f} \/ blobs' = blobs
  BY <1>1, FilingFacts DEF PutThrows, ledgerVars, storeVars, PutBlob
<1>4. FaultsGrow /\ \A points : NeverThrew(points)' => NeverThrew(points)
  BY Throwing DEF PutThrows, Batches
<1>5. Whole' /\ SparesAllBut(f) /\ ~Spoiled(u)
  BY <1>1, <1>3, <1>4 DEF Batches, Whole, SparesAllBut, Spoiled, At, Rolling, FaultsGrow
<1>6. Undoing(u)'
  BY <1>1, <1>2, FilingFacts DEF Undoing, Becomes
<1>7. FileAgrees(u)'
  <2>1. FileAgrees(u)
    BY <1>1, FilingFacts
  <2> QED
    BY <1>1, <1>2, <1>3, <1>5, <2>1 DEF FileAgrees, Becomes, Written, Holding
<1> QED
  BY <1>1, <1>2, <1>3, <1>4, <1>5, <1>6, <1>7, FilingAdvances DEF Filing

LEMMA SessionAdvances ==
    ASSUME Batches, NEW u \in Uploads, SessionValid(u) \/ SessionExpired(u)
    PROVE  Advances(u)
<1> DEFINE f == Files[u][up[u].i]
           todo == {"release", "deleteBlob"}
<1>1. /\ up[u].pc = "validate" /\ up[u].pc \in Filing /\ todo \in SUBSET Calls
      /\ UNCHANGED <<documents, versions, blobs, reservations, queue, audit, faults>>
  BY DEF SessionValid, SessionExpired, At, Filing, Calls, storeVars, ledgerVars
<1>2. Whole' /\ FaultsGrow /\ SparesAllBut(f) /\ ~Spoiled(u)
  BY <1>1, Calm DEF Batches, Whole, SparesAllBut, Spoiled, At, Rolling
<1>3. /\ FileAgrees(u)
      /\ \A points : NeverThrew(points)' <=> NeverThrew(points)
  BY <1>1, FilingFacts, Calm DEF Batches
<1>4. CASE SessionValid(u)
  <2>1. Becomes(u, "insert", up[u].i, up[u].todo, up[u].after)
    BY <1>4, GotoBecomes DEF SessionValid, Batches, Places, Filing
  <2>2. Undoing(u)' /\ (Tidy(u)' => Tidy(u))
    BY <1>1, <1>3, <2>1, FilingFacts DEF Undoing, Becomes, Tidy, At
  <2>3. FileAgrees(u)'
    BY <1>1, <1>2, <1>3, <2>1, <2>2 DEF FileAgrees, Becomes, Written, Holding
  <2> QED
    BY <1>1, <1>2, <2>1, <2>2, <2>3, FilingFacts, FilingAdvances DEF Filing
<1>5. CASE SessionExpired(u)
  <2>1. Becomes(u, "undo", up[u].i, todo, "rollback")
    BY <1>1, <1>5, UndoBecomes DEF SessionExpired, Batches, Places, Filing
  <2>2. Undoing(u)' /\ (Tidy(u)' => Tidy(u))
    BY <1>1, <1>3, <2>1, FilingFacts DEF Undoing, Becomes, Tidy, At
  <2>3. FileAgrees(u)'
    BY <1>1, <1>2, <1>3, <2>1, <2>2 DEF FileAgrees, Becomes, Written, Holding
  <2> QED
    BY <1>1, <1>2, <2>1, <2>2, <2>3, FilingAdvances DEF Filing
<1> QED
  BY <1>4, <1>5

LEMMA InsertDocumentAdvances ==
    ASSUME Batches, NEW u \in Uploads, InsertDocument(u)
    PROVE  Advances(u)
<1> DEFINE f == Files[u][up[u].i]
<1>1. up[u].pc = "insert" /\ up[u].pc \in Filing
  BY DEF InsertDocument, At, Filing
<1>2. Becomes(u, "commit", up[u].i, up[u].todo, up[u].after)
  BY GotoBecomes DEF InsertDocument, Batches, Places, Filing
<1>3. /\ UNCHANGED <<blobs, reservations, queue, audit, faults>>
      /\ DOMAIN documents' = DOMAIN documents \cup {f}
      /\ DOMAIN versions' = DOMAIN versions \cup {f}
      /\ versions'[f].documentId = f
      /\ \A v \in DOMAIN versions : v # f => versions'[v] = versions[v]
  BY <1>1, FilingFacts
  DEF InsertDocument, ledgerVars, InsertDocumentWithVersion, Insert, NewVersion
<1>4. f \in Attempts
  BY <1>1, FilingFacts
<1>5. FaultsGrow /\ SparesAllBut(f) /\ ~Spoiled(u)
  BY <1>1, <1>3, Calm DEF Batches, SparesAllBut, Spoiled, At, Rolling
<1>6. Whole'
  BY <1>3, <1>4, <1>5 DEF Batches, Whole, FaultsGrow
<1>7. Undoing(u)'
  BY <1>1, <1>2, FilingFacts DEF Undoing, Becomes
<1>8. FileAgrees(u)'
  <2>1. FileAgrees(u)
    BY <1>1, FilingFacts
  <2>2. \A points : NeverThrew(points)' <=> NeverThrew(points)
    BY <1>3, Calm DEF Batches
  <2>3. (Tidy(u)' => Tidy(u)) /\ ~Spoiled(u)
    BY <1>1, <1>5, <2>2 DEF Tidy, At
  <2> QED
    BY <1>1, <1>2, <1>3, <2>1, <2>3 DEF FileAgrees, Becomes, Written, Holding
<1> QED
  BY <1>1, <1>2, <1>3, <1>5, <1>6, <1>7, <1>8, FilingFacts, FilingAdvances DEF Filing

LEMMA InsertDuplicateAdvances ==
    ASSUME Batches, NEW u \in Uploads, InsertDuplicate(u)
    PROVE  Advances(u)
<1> DEFINE f == Files[u][up[u].i]
           todo == {"release", "deleteBlob"}
<1>1. /\ up[u].pc = "insert" /\ up[u].pc \in Filing /\ todo \in SUBSET Calls
      /\ UNCHANGED <<documents, versions, blobs, reservations, queue, audit, faults>>
  BY DEF InsertDuplicate, At, Filing, Calls, storeVars, ledgerVars
<1>2. Becomes(u, "undo", up[u].i, todo, "duplicate")
  BY <1>1, UndoBecomes DEF InsertDuplicate, Batches, Places, Filing
<1>3. Whole' /\ FaultsGrow /\ SparesAllBut(f) /\ ~Spoiled(u)
  BY <1>1, Calm DEF Batches, Whole, SparesAllBut, Spoiled, At, Rolling
<1>4. /\ FileAgrees(u)
      /\ \A points : NeverThrew(points)' <=> NeverThrew(points)
  BY <1>1, FilingFacts, Calm DEF Batches
<1>5. Undoing(u)' /\ (Tidy(u)' => Tidy(u))
  BY <1>1, <1>2, <1>4, FilingFacts DEF Undoing, Becomes, Tidy, At
<1>6. FileAgrees(u)'
  BY <1>1, <1>2, <1>3, <1>4, <1>5 DEF FileAgrees, Becomes, Written, Holding
<1> QED
  BY <1>1, <1>2, <1>3, <1>5, <1>6, FilingAdvances DEF Filing

LEMMA CommitThrowsAdvances ==
    ASSUME Batches, NEW u \in Uploads, CommitThrows(u)
    PROVE  Advances(u)
<1> DEFINE f == Files[u][up[u].i]
           todo == {"release", "deleteBlob", "deleteDocument"}
<1>1. up[u].pc = "commit" /\ up[u].pc \in Filing /\ todo \in SUBSET Calls
  BY DEF CommitThrows, At, Filing, Calls
<1>2. Becomes(u, "undo", up[u].i, todo, "threw")
  BY <1>1, UndoBecomes DEF CommitThrows, Batches, Places, Filing
<1>3. /\ UNCHANGED <<documents, versions, blobs, queue, audit>>
      /\ DOMAIN reservations' = DOMAIN reservations \ {f} \/ reservations' = reservations
  BY <1>1, FilingFacts
  DEF CommitThrows, ledgerVars, storeVars, CommitReservation, Delete, DeleteAll
<1>4. FaultsGrow /\ \A points : NeverThrew(points)' => NeverThrew(points)
  BY Throwing DEF CommitThrows, Batches
<1>5. Whole' /\ SparesAllBut(f) /\ ~Spoiled(u)
  BY <1>1, <1>3, <1>4 DEF Batches, Whole, SparesAllBut, Spoiled, At, Rolling, FaultsGrow
<1>6. Undoing(u)'
  BY <1>1, <1>2, FilingFacts DEF Undoing, Becomes
<1>7. FileAgrees(u)'
  <2>1. FileAgrees(u)
    BY <1>1, FilingFacts
  <2> QED
    BY <1>1, <1>2, <1>3, <1>5, <2>1 DEF FileAgrees, Becomes, Written, Holding
<1> QED
  BY <1>1, <1>2, <1>3, <1>4, <1>5, <1>6, <1>7, FilingAdvances DEF Filing

LEMMA FilingCallThrowsAdvances ==
    ASSUME Batches, NEW u \in Uploads, CallThrows(u), up[u].pc # "enqueue"
    PROVE  Advances(u)
<1> DEFINE f == Files[u][up[u].i]
<1>1. up[u].pc \in {"reserve", "validate", "insert"} /\ up[u].pc \in Filing
  BY DEF CallThrows, Uncaught, Filing
<1>2. Becomes(u, "threw", up[u].i, up[u].todo, up[u].after)
  BY GotoBecomes DEF CallThrows, Batches, Places
<1>3. UNCHANGED <<documents, versions, blobs, reservations, queue, audit>>
  BY DEF CallThrows, ledgerVars, storeVars
<1>4. Throws(up[u].pc)
  BY <1>1 DEF CallThrows, Uncaught
<1>5. /\ FaultsGrow
      /\ \A points : NeverThrew(points)' => NeverThrew(points) /\ up[u].pc \notin points
  BY <1>4, Throwing DEF Batches
<1>6. Whole' /\ SparesAllBut(f) /\ ~Spoiled(u)
  BY <1>1, <1>3, <1>5 DEF Batches, Whole, SparesAllBut, Spoiled, At, Rolling, FaultsGrow
<1>7. Undoing(u)'
  BY <1>1, <1>2, FilingFacts DEF Undoing, Becomes
<1>8. FileAgrees(u)'
  <2>1. FileAgrees(u)
    BY <1>1, FilingFacts
  <2>2. Tidy(u)' => Tidy(u) /\ up[u].pc = "reserve"
    BY <1>1, <1>2, <1>5 DEF Tidy, At, Becomes
  <2> QED
    BY <1>1, <1>2, <1>3, <1>6, <2>1, <2>2 DEF FileAgrees, Becomes, Written, Holding
<1> QED
  BY <1>1, <1>2, <1>3, <1>5, <1>6, <1>7, <1>8, FilingFacts, FilingAdvances

\* Deleting one's own document.
LEMMA DeletesOwn ==
    ASSUME Whole, NEW d, DeleteDocument(d)
    PROVE  /\ DOMAIN documents' = DOMAIN documents \ {d}
           /\ DOMAIN versions' = DOMAIN versions \ {d}
           /\ \A v \in DOMAIN versions' : versions'[v] = versions[v]
           /\ UNCHANGED <<blobs, queue, audit>>
<1>1. VersionsOf(d) = {d} \cap DOMAIN versions
  BY OneVersionEach
<1> QED
  BY <1>1 DEF DeleteDocument, Delete, DeleteAll

LEMMA SettleFileAdvances ==
    ASSUME Batches, NEW u \in Uploads, At(u, "undo"), NEW call \in up[u].todo, Settle(u, call)
    PROVE  Advances(u)
<1> DEFINE f == Files[u][up[u].i]
           todo == up[u].todo \ {call}
<1>1. /\ up[u].pc = "undo" /\ up[u].pc \in Filing /\ todo \in SUBSET Calls
      /\ call \in {"release", "deleteBlob", "deleteDocument"} /\ f \in Attempts /\ f \notin Seeded
  BY FilingFacts DEF At, Filing, Calls, Undoing
<1>2. Becomes(u, "undo", up[u].i, todo, up[u].after)
  <2>1. up[u] \in Local
    BY DEF Batches
  <2>2. up' = [up EXCEPT ![u].todo = todo]
    BY DEF Settle
  <2> QED
    BY <1>1, <2>1, <2>2 DEF Becomes, Local, Batches
<1>3. \/ /\ UNCHANGED <<documents, versions, blobs, reservations, queue, audit>>
         /\ Throws("undo")
      \/ /\ UNCHANGED faults /\ call = "release"
         /\ UNCHANGED <<documents, versions, blobs, queue, audit>>
         /\ DOMAIN reservations' = DOMAIN reservations \ {f}
      \/ /\ UNCHANGED faults /\ call = "deleteBlob"
         /\ UNCHANGED <<documents, versions, reservations, queue, audit>>
         /\ blobs' = blobs \ {f}
      \/ /\ UNCHANGED faults /\ call = "deleteDocument"
         /\ UNCHANGED <<blobs, reservations, queue, audit>>
         /\ DeleteDocument(f)
  BY <1>1, FilingFacts
  DEF Settle, Compensate, ledgerVars, storeVars, ReleaseReservation, Delete, DeleteAll, DeleteBlob,
      DeleteDocument
<1>4. /\ FaultsGrow
      /\ \A points : NeverThrew(points)' => NeverThrew(points)
      /\ NeverThrew({"undo"})' => UNCHANGED faults
  BY <1>3, Throwing, Calm DEF Batches
<1>5. DeleteDocument(f) =>
         /\ DOMAIN documents' = DOMAIN documents \ {f}
         /\ DOMAIN versions' = DOMAIN versions \ {f}
         /\ \A v \in DOMAIN versions' : versions'[v] = versions[v]
  BY DeletesOwn DEF Batches
<1>6. Whole' /\ SparesAllBut(f)
  BY <1>1, <1>3, <1>4, <1>5 DEF Batches, Whole, SparesAllBut, FaultsGrow
<1>7. Undoing(u)' /\ (Spoiled(u) <=> Spoiled(u)')
  BY <1>1, <1>2, FilingFacts DEF Undoing, Becomes, Spoiled, At, Rolling
<1>8. FileAgrees(u)'
  <2>1. FileAgrees(u)
    BY <1>1, FilingFacts
  <2>2. Tidy(u)' => Tidy(u) /\ NeverThrew({"undo"})'
    BY <1>1, <1>4 DEF Tidy, At
  <2>3. /\ call = "deleteDocument" => Spoiled(u)'
        /\ "undo" \notin Written \cup Holding /\ "undo" # "commit"
    BY <1>1, <1>2, FilingFacts DEF Undoing, Becomes, Spoiled, At, Written, Holding
  <2>4. Throws("undo") => ~NeverThrew({"undo"})'
    BY Throwing DEF Batches
  <2> QED
    BY <1>1, <1>2, <1>3, <1>4, <1>5, <1>7, <2>1, <2>2, <2>3, <2>4 DEF FileAgrees, Becomes
<1> QED
  BY <1>1, <1>2, <1>3, <1>4, <1>5, <1>6, <1>7, <1>8, FilingAdvances

-----------------------------------------------------------------------------
(* The outcome of a file. *)

\* Outcome appends the result, and the file if it is accepted, and goes on with
\* the next file or, after the last, with the emission.
LEMMA OutcomeBecomes ==
    ASSUME Batches, NEW u \in Uploads, up[u].pc \in Filing, NEW result \in Results,
           Outcome(u, result)
    PROVE  /\ up' \in [Uploads -> Local]
           /\ \A w \in Uploads : w # u => up'[w] = up[w]
           /\ up'[u].results = Append(up[u].results, result)
           /\ up'[u].created = IF result = "accepted"
                               THEN Append(up[u].created, Files[u][up[u].i]) ELSE up[u].created
           /\ up'[u].todo = up[u].todo /\ up'[u].after = up[u].after
           /\ \/ up[u].i = Len(Files[u]) /\ up'[u].pc = "emit" /\ up'[u].i = 1
              \/ up[u].i < Len(Files[u]) /\ up'[u].pc = "reserve" /\ up'[u].i = up[u].i + 1
<1> DEFINE f == Files[u][up[u].i]
           last == up[u].i = Len(Files[u])
           r == [up[u] EXCEPT !.results = Append(@, result),
                              !.created = IF result = "accepted" THEN Append(@, f) ELSE @,
                              !.pc = IF last THEN "emit" ELSE "reserve",
                              !.i = IF last THEN 1 ELSE @ + 1]
<1>1. up \in [Uploads -> Local] /\ Orderly(u)
  BY DEF Batches
<1>2. Current(u) = f /\ f \in Attempts
  BY FilingFacts
<1>3. up' = [up EXCEPT ![u] = r]
  BY <1>2 DEF Outcome
<1>4. /\ up[u].i \in Nat \ {0} /\ up[u].i <= Len(Files[u]) /\ Len(Files[u]) \in Nat
      /\ up[u].results \in Seq(Results) /\ up[u].created \in Seq(Attempts)
  BY <1>1, LocalFields, FilesAreApart DEF Orderly, Placed
<1>5. Append(up[u].results, result) \in Seq(Results) /\ Append(up[u].created, f) \in Seq(Attempts)
  BY <1>2, <1>4
<1>6. r \in Local
  <2>1. up[u] \in Local
    BY <1>1
  <2>2. (IF last THEN "emit" ELSE "reserve") \in Places
    BY DEF Places, Emitting, Filing
  <2>3. (IF last THEN 1 ELSE up[u].i + 1) \in Nat \ {0}
    BY <1>4
  <2> HIDE DEF f, last
  <2> QED
    BY <1>5, <2>1, <2>2, <2>3 DEF Local
<1>7. /\ r.results = Append(up[u].results, result)
      /\ r.created = IF result = "accepted" THEN Append(up[u].created, f) ELSE up[u].created
      /\ r.todo = up[u].todo /\ r.after = up[u].after
      /\ \/ last /\ r.pc = "emit" /\ r.i = 1
         \/ ~last /\ r.pc = "reserve" /\ r.i = up[u].i + 1
  <2>1. up[u] \in Local
    BY <1>1
  <2> HIDE DEF f, last
  <2> QED
    BY <2>1 DEF Local
<1> HIDE DEF r
<1> QED
  BY <1>1, <1>3, <1>4, <1>6, <1>7

LEMMA OneMore ==
    ASSUME NEW n \in Nat
    PROVE  1 .. n + 1 = (1 .. n) \cup {n + 1} /\ n + 1 \notin 1 .. n
OBVIOUS

\* What an outcome asks of the stores.
OutcomeAgrees(u, f, result) ==
    /\ IF result = "accepted" THEN f \in DOMAIN versions /\ f \in blobs
       ELSE f \notin DOMAIN versions /\ (NeverThrew({"undo"}) => f \notin blobs)
    /\ NeverThrew({"undo"}) => f \notin DOMAIN reservations'

LEMMA OutcomeAdvances ==
    ASSUME Batches, NEW u \in Uploads, up[u].pc \in Filing, ~Spoiled(u), up[u].todo = {},
           up[u].after \in {"start", "duplicate"},
           NEW result \in Results, Outcome(u, result),
           UNCHANGED <<documents, versions, blobs, queue, audit, faults>>,
           SparesAllBut(Files[u][up[u].i]), OutcomeAgrees(u, Files[u][up[u].i], result)
    PROVE  Advances(u)
<1> DEFINE f == Files[u][up[u].i]
           C == CreatedIds(u)
           CN == IF result = "accepted" THEN C \cup {f} ELSE C
           n == Len(up[u].results)
           m == Len(up[u].created)
<1>1. up \in [Uploads -> Local] /\ Orderly(u) /\ StoresAgree(u)
  BY DEF Batches
<1>2. /\ f \in FileIds(u) /\ f \in Attempts /\ f \notin C
      /\ up[u].i = n + 1 /\ n < Len(Files[u])
      /\ n \in Nat /\ m \in Nat /\ Len(Files[u]) \in Nat
      /\ up[u].results \in Seq(Results) /\ up[u].created \in Seq(Attempts)
  BY <1>1, FilingFacts, LocalFields, FilesAreApart DEF Orderly, Placed
<1>3. /\ up' \in [Uploads -> Local]
      /\ \A w \in Uploads : w # u => up'[w] = up[w]
      /\ up'[u].results = Append(up[u].results, result)
      /\ up'[u].created = IF result = "accepted" THEN Append(up[u].created, f) ELSE up[u].created
      /\ up'[u].todo = {} /\ up'[u].after = up[u].after
      /\ \/ n + 1 = Len(Files[u]) /\ up'[u].pc = "emit" /\ up'[u].i = 1
         \/ n + 1 < Len(Files[u]) /\ up'[u].pc = "reserve" /\ up'[u].i = n + 2
  BY <1>2, OutcomeBecomes
<1> HIDE DEF f, C, CN
<1>4. /\ Len(up'[u].results) = n + 1 /\ DOMAIN up'[u].results = 1 .. n + 1
      /\ up'[u].results[n + 1] = result
      /\ \A k \in 1 .. n : up'[u].results[k] = up[u].results[k]
      /\ DOMAIN up[u].results = 1 .. n /\ DOMAIN up[u].created = 1 .. m
  BY <1>2, <1>3
<1>5. /\ result = "accepted" =>
            /\ Len(up'[u].created) = m + 1 /\ DOMAIN up'[u].created = 1 .. m + 1
            /\ up'[u].created[m + 1] = f
            /\ \A j \in 1 .. m : up'[u].created[j] = up[u].created[j]
      /\ result # "accepted" => up'[u].created = up[u].created
  BY <1>2, <1>3
<1>6. CreatedIds(u)' = CN
  <2>1. CASE result = "accepted"
    <3>1. \A e : e \in CreatedIds(u)' <=> \E j \in 1 .. m + 1 : up'[u].created[j] = e
      BY <1>5, <2>1 DEF CreatedIds
    <3>2. \A e : e \in C <=> \E j \in 1 .. m : up[u].created[j] = e
      BY <1>4 DEF CreatedIds, C
    <3>3. 1 .. m + 1 = (1 .. m) \cup {m + 1}
      BY <1>2
    <3> HIDE DEF m
    <3> QED
      BY <1>5, <2>1, <3>1, <3>2, <3>3 DEF CN
  <2>2. CASE result # "accepted"
    BY <1>5, <2>2 DEF CreatedIds, C, CN
  <2> QED
    BY <2>1, <2>2
<1>7. Placed(u)'
  BY <1>2, <1>3, <1>4, <1>5 DEF Placed, Filing, Emitting, Rolling
<1>8. Undoing(u)'
  BY <1>3 DEF Undoing
<1>9. Collected(u)'
  <2>1. Collected(u) /\ f = Files[u][n + 1]
    BY <1>1, <1>2 DEF Orderly, f
  <2>2. 1 .. n + 1 = (1 .. n) \cup {n + 1} /\ 1 .. m + 1 = (1 .. m) \cup {m + 1}
        /\ n + 1 \notin 1 .. n /\ m + 1 \notin 1 .. m
    BY <1>2, OneMore
  <2> HIDE DEF n, m
  <2>3. \A j \in 1 .. m : \E k \in 1 .. n :
           up[u].results[k] = "accepted" /\ up[u].created[j] = Files[u][k]
    BY <1>4, <2>1 DEF Collected
  <2>4. \A j \in 1 .. m : \E k \in 1 .. n + 1 :
           up'[u].results[k] = "accepted" /\ up[u].created[j] = Files[u][k]
    BY <1>4, <2>2, <2>3
  <2>5. \A j \in DOMAIN up'[u].created : \E k \in DOMAIN up'[u].results :
           up'[u].results[k] = "accepted" /\ up'[u].created[j] = Files[u][k]
    <3>1. CASE result = "accepted"
      <4>1. up'[u].results[n + 1] = "accepted" /\ up'[u].created[m + 1] = Files[u][n + 1]
        BY <1>4, <1>5, <2>1, <3>1
      <4> QED
        BY <1>4, <1>5, <2>2, <2>4, <3>1, <4>1, SMTT(30)
    <3>2. CASE result # "accepted"
      <4>1. up'[u].created = up[u].created /\ DOMAIN up[u].created = 1 .. m
            /\ DOMAIN up'[u].results = 1 .. n + 1
        BY <1>4, <1>5, <3>2
      <4> QED
        BY <2>4, <4>1
    <3> QED
      BY <3>1, <3>2
  <2>6. \A k \in DOMAIN up'[u].results : up'[u].results[k] = "accepted" => Files[u][k] \in CN
    <3>1. \A k \in 1 .. n : up[u].results[k] = "accepted" => Files[u][k] \in C
      BY <1>4, <2>1 DEF Collected, C
    <3> QED
      BY <1>4, <2>1, <2>2, <3>1 DEF CN
  <2>7. \A j, l \in DOMAIN up'[u].created : up'[u].created[j] = up'[u].created[l] => j = l
    <3>1. \A j \in 1 .. m : up[u].created[j] # f
      BY <1>2, <1>4 DEF C, CreatedIds
    <3>2. \A j, l \in 1 .. m : up[u].created[j] = up[u].created[l] => j = l
      BY <1>4, <2>1 DEF Collected
    <3>3. CASE result = "accepted"
      <4>1. DOMAIN up'[u].created = (1 .. m) \cup {m + 1} /\ m + 1 \notin 1 .. m
        BY <1>5, <2>2, <3>3
      <4>2. /\ up'[u].created[m + 1] = f
            /\ \A j \in 1 .. m : up'[u].created[j] = up[u].created[j]
        BY <1>5, <3>3
      <4> QED
        BY <3>1, <3>2, <4>1, <4>2
    <3>4. CASE result # "accepted"
      BY <1>4, <1>5, <3>2, <3>4
    <3> QED
      BY <3>3, <3>4
  <2> QED
    BY <1>6, <2>5, <2>6, <2>7 DEF Collected
<1>10. Orderly(u)'
  BY <1>2, <1>4, <1>7, <1>8, <1>9 DEF Orderly
<1>11. /\ \A call : Kept(u, call) = C
       /\ Kept(u, "deleteDocument")' = CN /\ Kept(u, "deleteBlob")' = CN
       /\ \A pcs, call : InHand(u, pcs, call) \subseteq {f}
       /\ InHand(u, {"commit"}, "deleteDocument")' = {}
       /\ InHand(u, Written, "none")' = {} /\ InHand(u, Written, "deleteBlob")' = {}
       /\ InHand(u, Holding, "none")' = {} /\ InHand(u, Holding, "release")' = {}
  <2>1. up[u].pc \notin Rolling /\ up'[u].pc \notin Rolling
    BY <1>3 DEF Filing, Rolling
  <2>2. \A call : Kept(u, call) = C
    BY <2>1, KeepsAll DEF C
  <2>3. Kept(u, "deleteDocument")' = CN /\ Kept(u, "deleteBlob")' = CN
    BY <1>6, <2>1 DEF Kept, TakenBack, CreatedIds
  <2>4. \A pcs, call : InHand(u, pcs, call) \subseteq {f}
    BY DEF InHand, f
  <2>5. up'[u].pc \notin {"commit", "undo"} \cup Written \cup Holding
    BY <1>3 DEF Written, Holding
  <2> QED
    BY <2>2, <2>3, <2>4, <2>5 DEF InHand
<1>12. FaultsGrow /\ \A points : NeverThrew(points)' <=> NeverThrew(points)
  BY Calm DEF Batches
<1>13. /\ C \subseteq CN /\ CN \subseteq C \cup {f} /\ C \subseteq FileIds(u)
       /\ Tidy(u)' => NeverThrew({"undo"})
  BY <1>1, <1>12, CreatedAreFiles DEF C, CN, Tidy
<1>14. RowsKept(u)'
  <2>1. Rows(u)' = CN /\ C \subseteq Rows(u) /\ Rows(u) \subseteq C \cup {f}
    BY <1>11 DEF Rows
  <2> QED
    BY <1>1, <1>2, <2>1 DEF RowsKept, StoresAgree, OutcomeAgrees, CN, f
<1>15. BlobsKept(u)'
  <2>1. C \subseteq blobs /\ (Tidy(u) => FileIds(u) \cap blobs \subseteq C \cup {f})
    BY <1>1, <1>11 DEF BlobsKept, StoresAgree
  <2>2. NeverThrew({"undo"}) => Tidy(u)
    BY DEF Tidy, At, Filing
  <2> QED
    BY <1>2, <1>11, <1>13, <2>1, <2>2 DEF BlobsKept, OutcomeAgrees, CN, f
<1>16. HoldsKept(u)'
  <2>1. Tidy(u) => FileIds(u) \cap DOMAIN reservations \subseteq {f}
    BY <1>1, <1>11 DEF HoldsKept, StoresAgree
  <2>2. NeverThrew({"undo"}) => Tidy(u)
    BY DEF Tidy, At, Filing
  <2>3. FileIds(u) \subseteq Attempts
    BY FilesAreApart
  <2> QED
    BY <1>2, <1>11, <1>13, <2>1, <2>2, <2>3 DEF HoldsKept, OutcomeAgrees, SparesAllBut, f
<1>17. JobsKept(u)'
  <2>1. up[u].pc \notin Emitting \cup {"threw"}
    BY DEF Filing, Emitting
  <2>2. up'[u].pc \in Emitting => up'[u].i = 1 /\ up'[u].pc = "emit"
    BY <1>3 DEF Emitting
  <2>3. DOMAIN up'[u].created \subseteq Nat \ {0}
    BY <1>2, <1>4, <1>5
  <2> QED
    BY <1>1, <2>1, <2>2, <2>3 DEF JobsKept, StoresAgree, At
<1>18. TouchesOnly(u) /\ Whole'
  BY <1>2, <1>12 DEF TouchesOnly, SparesAllBut, Batches, Whole, FaultsGrow, f
<1> QED
  BY <1>3, <1>10, <1>12, <1>14, <1>15, <1>16, <1>17, <1>18 DEF StoresAgree, Advances

LEMMA RefuseAdvances ==
    ASSUME Batches, NEW u \in Uploads, Refuse(u)
    PROVE  Advances(u)
<1> DEFINE f == Files[u][up[u].i]
<1>1. /\ up[u].pc = "reserve" /\ up[u].pc \in Filing /\ Outcome(u, "refused")
      /\ UNCHANGED <<documents, versions, blobs, reservations, queue, audit, faults>>
  BY DEF Refuse, At, Filing, storeVars, ledgerVars
<1>2. /\ ~Spoiled(u) /\ up[u].todo = {} /\ up[u].after \in {"start", "duplicate"}
      /\ FileAgrees(u)
  BY <1>1, FilingFacts DEF Spoiled, At, Rolling, Undoing
<1>3. OutcomeAgrees(u, f, "refused")
  <2>1. NeverThrew({"undo"}) => Tidy(u)
    BY <1>1 DEF Tidy, At
  <2> QED
    BY <1>1, <1>2, <2>1 DEF FileAgrees, OutcomeAgrees, Written, Holding
<1> QED
  BY <1>1, <1>2, <1>3, OutcomeAdvances DEF SparesAllBut, Results

LEMMA CommitAdvances ==
    ASSUME Batches, NEW u \in Uploads, Commit(u)
    PROVE  Advances(u)
<1> DEFINE f == Files[u][up[u].i]
<1>1. /\ up[u].pc = "commit" /\ up[u].pc \in Filing /\ Outcome(u, "accepted")
      /\ UNCHANGED <<documents, versions, blobs, queue, audit, faults>>
  BY DEF Commit, At, Filing, storeVars
<1>2. DOMAIN reservations' = DOMAIN reservations \ {f}
  BY <1>1, FilingFacts DEF Commit, CommitReservation, Delete, DeleteAll
<1>3. /\ ~Spoiled(u) /\ up[u].todo = {} /\ up[u].after \in {"start", "duplicate"}
      /\ FileAgrees(u)
  BY <1>1, FilingFacts DEF Spoiled, At, Rolling, Undoing
<1>4. OutcomeAgrees(u, f, "accepted")
  BY <1>1, <1>2, <1>3 DEF FileAgrees, OutcomeAgrees, Written
<1> QED
  BY <1>1, <1>2, <1>3, <1>4, OutcomeAdvances DEF SparesAllBut, Results

LEMMA DuplicateAdvances ==
    ASSUME Batches, NEW u \in Uploads, Settled(u), up[u].after = "duplicate"
    PROVE  Advances(u)
<1> DEFINE f == Files[u][up[u].i]
<1>1. /\ up[u].pc = "undo" /\ up[u].pc \in Filing /\ Outcome(u, "duplicate") /\ up[u].todo = {}
      /\ UNCHANGED <<documents, versions, blobs, reservations, queue, audit, faults>>
  <2>1. up[u].pc # "undoAccepted"
    BY DEF Batches, Orderly, Undoing
  <2> QED
    BY <2>1 DEF Settled, Filing, storeVars, ledgerVars
<1>2. ~Spoiled(u) /\ FileAgrees(u)
  BY <1>1, FilingFacts DEF Spoiled, At, Rolling
<1>3. OutcomeAgrees(u, f, "duplicate")
  <2>1. NeverThrew({"undo"}) => Tidy(u)
    BY <1>1 DEF Tidy, At
  <2> QED
    BY <1>1, <1>2, <2>1 DEF FileAgrees, OutcomeAgrees, Written, Holding
<1> QED
  BY <1>1, <1>2, <1>3, OutcomeAdvances DEF SparesAllBut, Results

LEMMA ThrewAdvances ==
    ASSUME Batches, NEW u \in Uploads, Settled(u), up[u].after = "threw"
    PROVE  Advances(u)
<1> DEFINE f == Files[u][up[u].i]
<1>1. /\ up[u].pc = "undo" /\ up[u].pc \in Filing /\ Goto(u, "threw") /\ up[u].todo = {}
      /\ UNCHANGED <<documents, versions, blobs, reservations, queue, audit, faults>>
  <2>1. up[u].pc # "undoAccepted"
    BY DEF Batches, Orderly, Undoing
  <2> QED
    BY <2>1 DEF Settled, Filing, storeVars, ledgerVars
<1>2. Becomes(u, "threw", up[u].i, {}, "threw")
  BY <1>1, GotoBecomes DEF Batches, Places
<1>3. /\ Whole' /\ FaultsGrow /\ SparesAllBut(f) /\ Spoiled(u) /\ Spoiled(u)'
      /\ \A points : NeverThrew(points)' <=> NeverThrew(points)
  BY <1>1, <1>2, Calm DEF Batches, Whole, SparesAllBut, Spoiled, At, Rolling, Becomes
<1>4. Undoing(u)' /\ FileAgrees(u)
  BY <1>1, <1>2, FilingFacts DEF Undoing, Becomes
<1>5. FileAgrees(u)'
  <2>1. Tidy(u)' => Tidy(u)
    BY <1>1, <1>3 DEF Tidy, At
  <2> QED
    BY <1>1, <1>2, <1>3, <1>4, <2>1 DEF FileAgrees, Becomes, Written, Holding
<1> QED
  BY <1>1, <1>2, <1>3, <1>4, <1>5, FilingFacts, FilingAdvances

-----------------------------------------------------------------------------
(* The rollback of an expired batch. *)

\* Nothing is in hand while a request rolls back, emits or is about to.
Idle(u) ==
    \/ up[u].pc \in Rolling \cup Emitting
    \/ At(u, "undo") /\ up[u].todo = {}

LEMMA IdleHoldsNothing ==
    ASSUME NEW u \in Uploads, Idle(u)
    PROVE  /\ InHand(u, {"commit"}, "deleteDocument") = {}
           /\ InHand(u, Written, "none") = {} /\ InHand(u, Written, "deleteBlob") = {}
           /\ InHand(u, Holding, "none") = {} /\ InHand(u, Holding, "release") = {}
<1>1. up[u].pc \notin {"commit"} \cup Written \cup Holding
  BY DEF Idle, At, Rolling, Emitting, Written, Holding
<1>2. ~(up[u].pc = "undo" /\ up[u].todo # {})
  BY DEF Idle, At, Rolling, Emitting
<1> QED
  BY <1>1, <1>2 DEF InHand

\* A step of the rollback that leaves the stores as they are and takes nothing
\* more back.
LEMMA RollsOn ==
    ASSUME Batches, NEW u \in Uploads, Idle(u), up[u].pc \notin Emitting,
           NEW pc \in Rolling, NEW i, NEW todo, NEW after,
           Becomes(u, pc, i, todo, after), Placed(u)', Undoing(u)',
           UNCHANGED <<documents, versions, blobs, reservations, queue, audit, faults>>,
           Spoiled(u),
           Kept(u, "deleteDocument")' = Kept(u, "deleteDocument"),
           Kept(u, "deleteBlob")' = Kept(u, "deleteBlob")
    PROVE  Advances(u)
<1>1. up \in [Uploads -> Local] /\ Orderly(u) /\ StoresAgree(u)
  BY DEF Batches
<1>2. Orderly(u)'
  BY <1>1 DEF Orderly, Collected, CreatedIds, Becomes
<1>3. FaultsGrow /\ Whole' /\ TouchesOnly(u)
      /\ \A points : NeverThrew(points)' <=> NeverThrew(points)
  BY Calm DEF Batches, Whole, TouchesOnly
<1>4. /\ InHand(u, {"commit"}, "deleteDocument") = {}
      /\ InHand(u, Written, "none") = {} /\ InHand(u, Written, "deleteBlob") = {}
      /\ InHand(u, Holding, "none") = {} /\ InHand(u, Holding, "release") = {}
  BY IdleHoldsNothing
<1>5. /\ InHand(u, {"commit"}, "deleteDocument")' = {}
      /\ InHand(u, Written, "none")' = {} /\ InHand(u, Written, "deleteBlob")' = {}
      /\ InHand(u, Holding, "none")' = {} /\ InHand(u, Holding, "release")' = {}
  <2>1. up'[u].pc \notin {"commit", "undo"} \cup Written \cup Holding
    BY DEF Becomes, Rolling, Written, Holding
  <2> QED
    BY <2>1 DEF InHand
<1>6. Tidy(u)' => Tidy(u)
  BY <1>3 DEF Tidy, At, Idle, Rolling
<1>7. RowsKept(u)' /\ BlobsKept(u)' /\ HoldsKept(u)'
  <2>1. Rows(u)' = Rows(u) /\ Spoiled(u)'
    BY <1>4, <1>5 DEF Rows, Spoiled, Becomes
  <2>2. RowsKept(u)'
    BY <1>1, <1>3, <2>1 DEF StoresAgree, RowsKept
  <2>3. BlobsKept(u)'
    BY <1>1, <1>4, <1>5, <1>6 DEF StoresAgree, BlobsKept
  <2>4. HoldsKept(u)'
    BY <1>1, <1>4, <1>5, <1>6 DEF StoresAgree, HoldsKept
  <2> QED
    BY <2>2, <2>3, <2>4
<1>8. JobsKept(u)'
  <2>1. pc \notin Emitting /\ up[u].pc \notin Emitting \cup {"threw"}
    BY DEF Idle, At, Rolling, Emitting
  <2> QED
    BY <1>1, <2>1 DEF StoresAgree, JobsKept, Becomes
<1> QED
  BY <1>2, <1>3, <1>7, <1>8 DEF StoresAgree, Advances, Becomes

LEMMA ExpiryAdvances ==
    ASSUME Batches, NEW u \in Uploads, Settled(u), up[u].after = "rollback"
    PROVE  Advances(u)
<1>1. /\ up[u].pc = "undo" /\ up[u].todo = {}
      /\ UNCHANGED <<documents, versions, blobs, reservations, queue, audit, faults>>
      /\ up' = [up EXCEPT ![u].pc = "rollback", ![u].i = 1]
  <2>1. up[u].pc # "undoAccepted"
    BY DEF Batches, Orderly, Undoing
  <2> QED
    BY <2>1 DEF Settled, storeVars, ledgerVars
<1>2. up[u] \in Local /\ Orderly(u) /\ up \in [Uploads -> Local]
  BY DEF Batches
<1>3. Becomes(u, "rollback", 1, {}, "rollback")
  <2>1. PICK one \in Nat \ {0} : one = 1
    OBVIOUS
  <2>2. up' = [up EXCEPT ![u] = [up[u] EXCEPT !.pc = "rollback", !.i = one]]
    BY <1>1, <2>1
  <2>3. [up[u] EXCEPT !.pc = "rollback", !.i = one] \in Local
    BY <1>2 DEF Local, Places, Rolling
  <2>6. up' \in [Uploads -> Local]
    BY <1>2, <2>2, <2>3
  <2>4. /\ up'[u].pc = "rollback" /\ up'[u].i = 1
        /\ up'[u].todo = up[u].todo /\ up'[u].after = up[u].after
        /\ up'[u].results = up[u].results /\ up'[u].created = up[u].created
    BY <1>2, <2>1, <2>2 DEF Local
  <2>5. \A w \in Uploads : w # u => up'[w] = up[w]
    BY <1>2, <2>2
  <2> QED
    BY <1>1, <2>4, <2>5, <2>6 DEF Becomes
<1>4. Placed(u)' /\ Undoing(u)'
  BY <1>1, <1>2, <1>3, LocalFields
  DEF Orderly, Placed, Undoing, Becomes, Filing, Emitting, Rolling
<1>5. Kept(u, "deleteDocument")' = Kept(u, "deleteDocument")
      /\ Kept(u, "deleteBlob")' = Kept(u, "deleteBlob")
  <2>1. \A call : Kept(u, call) = CreatedIds(u)
    BY <1>1, KeepsAll DEF Rolling
  <2>2. \A j \in DOMAIN up[u].created : ~(j < 1)
    BY <1>2, LocalFields
  <2>3. /\ \A j \in DOMAIN up[u].created : ~TakenBack(u, j, "deleteDocument")'
        /\ \A j \in DOMAIN up[u].created : ~TakenBack(u, j, "deleteBlob")'
    BY <1>3, <2>2 DEF TakenBack, Becomes, At
  <2> QED
    BY <1>3, <2>1, <2>3, SMTT(30) DEF Kept, CreatedIds, Becomes
<1>6. Idle(u) /\ Spoiled(u) /\ up[u].pc \notin Emitting /\ "rollback" \in Rolling
  BY <1>1 DEF Idle, Spoiled, At, Emitting, Rolling
<1> QED
  BY <1>1, <1>3, <1>4, <1>5, <1>6, RollsOn

LEMMA NextAdvances ==
    ASSUME Batches, NEW u \in Uploads, Settled(u), up[u].after = "next"
    PROVE  Advances(u)
<1>1. /\ up[u].pc = "undoAccepted" /\ up[u].todo = {}
      /\ UNCHANGED <<documents, versions, blobs, reservations, queue, audit, faults>>
      /\ up' = [up EXCEPT ![u].pc = "rollback", ![u].i = @ + 1]
  <2>1. up[u].pc # "undo"
    BY DEF Batches, Orderly, Undoing
  <2> QED
    BY <2>1 DEF Settled, storeVars, ledgerVars
<1>2. up[u] \in Local /\ Orderly(u) /\ up \in [Uploads -> Local] /\ up[u].i \in Nat \ {0}
  BY LocalFields DEF Batches
<1>3. Becomes(u, "rollback", up[u].i + 1, {}, "next")
  <2>1. up[u].i + 1 \in Nat \ {0}
    BY <1>2
  <2> QED
    BY <1>1, <1>2, <2>1 DEF Becomes, Local, Places, Rolling
<1>4. Placed(u)' /\ Undoing(u)'
  BY <1>1, <1>2, <1>3, LocalFields
  DEF Orderly, Placed, Undoing, Becomes, Filing, Emitting, Rolling
<1>5. Kept(u, "deleteDocument")' = Kept(u, "deleteDocument")
      /\ Kept(u, "deleteBlob")' = Kept(u, "deleteBlob")
  <2>1. \A j \in DOMAIN up[u].created : j < up[u].i + 1 <=> j < up[u].i \/ j = up[u].i
    BY <1>2, LocalFields
  <2>2. /\ \A j \in DOMAIN up[u].created :
              TakenBack(u, j, "deleteDocument")' <=> TakenBack(u, j, "deleteDocument")
        /\ \A j \in DOMAIN up[u].created :
              TakenBack(u, j, "deleteBlob")' <=> TakenBack(u, j, "deleteBlob")
    BY <1>1, <1>3, <2>1 DEF TakenBack, Becomes, At, Rolling
  <2> QED
    BY <1>3, <2>2 DEF Kept, Becomes
<1>6. Idle(u) /\ Spoiled(u) /\ up[u].pc \notin Emitting /\ "rollback" \in Rolling
  BY <1>1 DEF Idle, Spoiled, At, Emitting, Rolling
<1> QED
  BY <1>1, <1>3, <1>4, <1>5, <1>6, RollsOn

LEMMA RollbackBatchAdvances ==
    ASSUME Batches, NEW u \in Uploads, RollbackBatch(u)
    PROVE  Advances(u)
<1> DEFINE all == {"deleteDocument", "deleteBlob", "revert"}
<1>1. /\ up[u].pc = "rollback"
      /\ UNCHANGED <<documents, versions, blobs, reservations, queue, audit, faults>>
  BY DEF RollbackBatch, At, storeVars, ledgerVars
<1>2. /\ up[u] \in Local /\ Orderly(u) /\ up \in [Uploads -> Local] /\ up[u].i \in Nat \ {0}
      /\ up[u].todo = {}
  BY <1>1, LocalFields DEF Batches, Orderly, Undoing
<1>3. Idle(u) /\ Spoiled(u) /\ up[u].pc \notin Emitting
  BY <1>1 DEF Idle, Spoiled, At, Emitting, Rolling
<1>4. CASE up[u].i <= Len(up[u].created)
  <2>1. Becomes(u, "undoAccepted", up[u].i, all, "next")
    BY <1>2, <1>4, UndoBecomes DEF RollbackBatch, Places, Rolling, Calls
  <2>2. Placed(u)' /\ Undoing(u)'
    BY <1>1, <1>2, <1>4, <2>1, LocalFields
    DEF Orderly, Placed, Undoing, Becomes, Filing, Emitting, Rolling
  <2>3. Kept(u, "deleteDocument")' = Kept(u, "deleteDocument")
        /\ Kept(u, "deleteBlob")' = Kept(u, "deleteBlob")
    <3>1. /\ \A j \in DOMAIN up[u].created :
                TakenBack(u, j, "deleteDocument")' <=> TakenBack(u, j, "deleteDocument")
          /\ \A j \in DOMAIN up[u].created :
                TakenBack(u, j, "deleteBlob")' <=> TakenBack(u, j, "deleteBlob")
      BY <1>1, <2>1 DEF TakenBack, Becomes, At, Rolling
    <3> QED
      BY <2>1, <3>1 DEF Kept, Becomes
  <2> QED
    BY <1>1, <1>3, <2>1, <2>2, <2>3, RollsOn DEF Rolling
<1>5. CASE ~(up[u].i <= Len(up[u].created))
  <2>1. Becomes(u, "expired", up[u].i, {}, up[u].after)
    BY <1>2, <1>5, GotoBecomes DEF RollbackBatch, Places, Rolling
  <2>2. Placed(u)' /\ Undoing(u)'
    BY <1>1, <1>2, <1>5, <2>1, LocalFields
    DEF Orderly, Placed, Undoing, Becomes, Filing, Emitting, Rolling
  <2>3. Kept(u, "deleteDocument")' = Kept(u, "deleteDocument")
        /\ Kept(u, "deleteBlob")' = Kept(u, "deleteBlob")
    <3>1. /\ \A j \in DOMAIN up[u].created :
                TakenBack(u, j, "deleteDocument")' <=> TakenBack(u, j, "deleteDocument")
          /\ \A j \in DOMAIN up[u].created :
                TakenBack(u, j, "deleteBlob")' <=> TakenBack(u, j, "deleteBlob")
      BY <1>1, <2>1 DEF TakenBack, Becomes, At, Rolling
    <3> QED
      BY <2>1, <3>1 DEF Kept, Becomes
  <2> QED
    BY <1>1, <1>3, <2>1, <2>2, <2>3, RollsOn DEF Rolling
<1> QED
  BY <1>4, <1>5

\* A compensating call of an accepted file settles.
LEMMA SettleAcceptedAdvances ==
    ASSUME Batches, NEW u \in Uploads, At(u, "undoAccepted"), NEW call \in up[u].todo,
           Settle(u, call)
    PROVE  Advances(u)
<1> DEFINE i == up[u].i
           f == up[u].created[i]
           todo == up[u].todo \ {call}
<1>1. up \in [Uploads -> Local] /\ Orderly(u) /\ StoresAgree(u) /\ up[u].pc = "undoAccepted"
  BY DEF Batches, At
<1>2. /\ i \in DOMAIN up[u].created /\ i \in Nat /\ DOMAIN up[u].created \subseteq Nat
      /\ call \in {"deleteBlob", "deleteDocument", "revert"} /\ todo \in SUBSET Calls
      /\ up[u].after = "next" /\ "release" \notin todo
  BY <1>1, LocalFields DEF Orderly, Placed, Undoing, Calls
<1>3. f \in FileIds(u) /\ f \in Attempts /\ f \notin Seeded /\ Current(u) = f
  BY <1>1, <1>2, CreatedAreFiles, FilesAreApart DEF CreatedIds, Current
<1>4. Becomes(u, "undoAccepted", i, todo, "next")
  <2>1. up[u] \in Local
    BY <1>1
  <2>2. up' = [up EXCEPT ![u].todo = todo]
    BY DEF Settle
  <2> QED
    BY <1>1, <1>2, <2>1, <2>2 DEF Becomes, Local
<1>5. \/ /\ UNCHANGED <<documents, versions, blobs, reservations, queue, audit>>
         /\ Throws("undo")
      \/ /\ UNCHANGED faults /\ call = "revert"
         /\ UNCHANGED <<documents, versions, blobs, queue, audit>>
         /\ DOMAIN reservations' = DOMAIN reservations \ {f} \/ reservations' = reservations
      \/ /\ UNCHANGED faults /\ call = "deleteBlob"
         /\ UNCHANGED <<documents, versions, reservations, queue, audit>>
         /\ blobs' = blobs \ {f}
      \/ /\ UNCHANGED faults /\ call = "deleteDocument"
         /\ UNCHANGED <<blobs, reservations, queue, audit>>
         /\ DeleteDocument(f)
  BY <1>2, <1>3
  DEF Settle, Compensate, ledgerVars, storeVars, RevertCommitReservation, Delete, DeleteAll,
      DeleteBlob, DeleteDocument
<1>6. /\ FaultsGrow
      /\ \A points : NeverThrew(points)' => NeverThrew(points)
      /\ Throws("undo") => ~NeverThrew({"undo"})'
  BY <1>5, Throwing, Calm DEF Batches
<1>7. DeleteDocument(f) =>
         /\ DOMAIN documents' = DOMAIN documents \ {f}
         /\ DOMAIN versions' = DOMAIN versions \ {f}
         /\ \A v \in DOMAIN versions' : versions'[v] = versions[v]
  BY DeletesOwn DEF Batches
<1> HIDE DEF f, i, todo
<1>8. Whole' /\ TouchesOnly(u)
  BY <1>3, <1>5, <1>6, <1>7 DEF Batches, Whole, TouchesOnly, FaultsGrow
<1>9. Orderly(u)'
  <2>1. Placed(u)' /\ Undoing(u)'
    BY <1>1, <1>2, <1>4 DEF Orderly, Placed, Undoing, Becomes, Filing, Emitting, Rolling, i
  <2> QED
    BY <1>1, <1>4, <2>1 DEF Orderly, Collected, CreatedIds, Becomes
<1>10. ASSUME NEW c
       PROVE  LET after == {up[u].created[j] : j \in {l \in DOMAIN up[u].created :
                               ~(l < i \/ (l = i /\ c \notin todo))}}
              IN  IF c = call THEN after = Kept(u, c) \ {f} ELSE after = Kept(u, c)
  <2>1. \A l \in DOMAIN up[u].created :
           TakenBack(u, l, c) <=> l < i \/ (l = i /\ c \notin up[u].todo)
    BY <1>1 DEF TakenBack, At, Rolling, i
  <2>2. \A j, l \in DOMAIN up[u].created : up[u].created[j] = up[u].created[l] => j = l
    BY <1>1 DEF Orderly, Collected
  <2>3. CASE c = call
    BY <1>2, <2>1, <2>2, <2>3 DEF Kept, f, todo
  <2>4. CASE c # call
    BY <1>2, <2>1, <2>4 DEF Kept, todo
  <2> QED
    BY <2>3, <2>4
<1>11. ASSUME NEW c \in {"deleteDocument", "deleteBlob"}
       PROVE  IF c = call THEN Kept(u, c)' = Kept(u, c) \ {f} ELSE Kept(u, c)' = Kept(u, c)
  <2>1. \A l \in DOMAIN up[u].created :
           TakenBack(u, l, c)' <=> l < i \/ (l = i /\ c \notin todo)
    BY <1>4 DEF TakenBack, At, Rolling, Becomes
  <2>2. Kept(u, c)' = {up[u].created[j] : j \in {l \in DOMAIN up[u].created :
                           ~(l < i \/ (l = i /\ c \notin todo))}}
    BY <1>4, <2>1 DEF Kept, Becomes
  <2> QED
    BY <1>10, <2>2
<1>12. /\ Kept(u, "deleteDocument")' = IF call = "deleteDocument"
              THEN Kept(u, "deleteDocument") \ {f} ELSE Kept(u, "deleteDocument")
       /\ Kept(u, "deleteBlob")' = IF call = "deleteBlob"
              THEN Kept(u, "deleteBlob") \ {f} ELSE Kept(u, "deleteBlob")
  BY <1>11
<1>13. /\ InHand(u, {"commit"}, "deleteDocument") = {}
       /\ InHand(u, Written, "none") = {} /\ InHand(u, Written, "deleteBlob") = {}
       /\ InHand(u, Holding, "none") = {} /\ InHand(u, Holding, "release") = {}
  BY <1>1, IdleHoldsNothing DEF Idle, Rolling
<1>14. /\ InHand(u, {"commit"}, "deleteDocument")' = {}
       /\ InHand(u, Written, "none")' = {} /\ InHand(u, Written, "deleteBlob")' = {}
       /\ InHand(u, Holding, "none")' = {} /\ InHand(u, Holding, "release")' = {}
  <2>1. up'[u].pc \notin {"commit", "undo"} \cup Written \cup Holding
    BY <1>4 DEF Becomes, Written, Holding
  <2> QED
    BY <2>1 DEF InHand
<1>15. /\ Spoiled(u) /\ Spoiled(u)'
       /\ Tidy(u) <=> NeverThrew({"undo"})
       /\ Tidy(u)' <=> NeverThrew({"undo"})'
       /\ NeverThrew({"undo"})' => NeverThrew({"undo"}) /\ ~Throws("undo")
  BY <1>1, <1>4, <1>6 DEF Spoiled, Tidy, At, Rolling, Becomes
<1>16. RowsKept(u)'
  <2>1. Rows(u) = Kept(u, "deleteDocument") /\ Rows(u)' = Kept(u, "deleteDocument")'
    BY <1>13, <1>14 DEF Rows
  <2> QED
    BY <1>1, <1>5, <1>7, <1>12, <1>15, <2>1 DEF StoresAgree, RowsKept
<1>17. BlobsKept(u)'
  BY <1>1, <1>5, <1>12, <1>13, <1>14, <1>15 DEF StoresAgree, BlobsKept, DeleteDocument
<1>18. HoldsKept(u)'
  BY <1>1, <1>5, <1>13, <1>14, <1>15 DEF StoresAgree, HoldsKept
<1>19. JobsKept(u)'
  <2>1. up[u].pc \notin Emitting \cup {"threw"} /\ up'[u].pc \notin Emitting
    BY <1>1, <1>4 DEF Becomes, Emitting
  <2> QED
    BY <1>1, <1>5, <2>1 DEF StoresAgree, JobsKept
<1> QED
  BY <1>4, <1>6, <1>8, <1>9, <1>16, <1>17, <1>18, <1>19 DEF StoresAgree, Advances, Becomes

LEMMA SettledAdvances ==
    ASSUME Batches, NEW u \in Uploads, Settled(u)
    PROVE  Advances(u)
<1>1. up[u].after \in {"threw", "rollback", "duplicate", "next"}
  BY DEF Batches, Orderly, Undoing, Settled
<1> QED
  BY <1>1, ThrewAdvances, ExpiryAdvances, DuplicateAdvances, NextAdvances

LEMMA SettleAdvances ==
    ASSUME Batches, NEW u \in Uploads, NEW call \in up[u].todo, Settle(u, call)
    PROVE  Advances(u)
<1>1. At(u, "undo") \/ At(u, "undoAccepted")
  BY DEF Batches, Orderly, Undoing, At
<1> QED
  BY <1>1, SettleFileAdvances, SettleAcceptedAdvances

-----------------------------------------------------------------------------
(* The emission of a batch that is through. *)

\* A step of the emission keeps what the request has accepted; what it does to
\* the queue and the trail is judged apart.
LEMMA EmitsOn ==
    ASSUME Batches, NEW u \in Uploads, up[u].pc \in Emitting,
           NEW pc \in Emitting \cup {"threw"}, NEW i,
           Becomes(u, pc, i, {}, up[u].after), Placed(u)', JobsKept(u)',
           UNCHANGED <<documents, versions, blobs, reservations>>,
           FaultsGrow, queue' \subseteq Attempts, TouchesOnly(u)
    PROVE  Advances(u)
<1>1. up \in [Uploads -> Local] /\ Orderly(u) /\ StoresAgree(u)
  BY DEF Batches
<1>2. /\ up[u].pc \notin Rolling \cup Filing \cup {"threw"} /\ up[u].pc # "undo"
      /\ up'[u].pc \notin Rolling \cup Filing \cup {"undo"} /\ up'[u].pc = pc
  BY DEF Becomes, Emitting, Rolling, Filing
<1>3. Undoing(u)'
  BY <1>2 DEF Undoing, Becomes, Filing, Rolling, Emitting
<1>4. Orderly(u)'
  BY <1>1, <1>3 DEF Orderly, Collected, CreatedIds, Becomes
<1>5. /\ Kept(u, "deleteDocument")' = Kept(u, "deleteDocument")
      /\ Kept(u, "deleteBlob")' = Kept(u, "deleteBlob")
  BY <1>2 DEF Kept, TakenBack, Becomes
<1>6. /\ InHand(u, {"commit"}, "deleteDocument") = {}
      /\ InHand(u, Written, "none") = {} /\ InHand(u, Written, "deleteBlob") = {}
      /\ InHand(u, Holding, "none") = {} /\ InHand(u, Holding, "release") = {}
  BY IdleHoldsNothing DEF Idle
<1>7. /\ InHand(u, {"commit"}, "deleteDocument")' = {}
      /\ InHand(u, Written, "none")' = {} /\ InHand(u, Written, "deleteBlob")' = {}
      /\ InHand(u, Holding, "none")' = {} /\ InHand(u, Holding, "release")' = {}
  <2>1. up'[u].pc \notin {"commit", "undo"} \cup Written \cup Holding
    BY <1>2 DEF Filing, Written, Holding
  <2> QED
    BY <2>1 DEF InHand
<1>8. ~Spoiled(u) /\ (Tidy(u)' => Tidy(u))
  <2>1. \A points : NeverThrew(points)' => NeverThrew(points)
    BY DEF NeverThrew, FaultsGrow
  <2> QED
    BY <1>2, <2>1 DEF Spoiled, Tidy, At
<1>9. RowsKept(u)'
  <2>1. Rows(u)' = Rows(u)
    BY <1>5, <1>6, <1>7 DEF Rows
  <2> QED
    BY <1>1, <1>8, <2>1 DEF StoresAgree, RowsKept
<1>10. BlobsKept(u)' /\ HoldsKept(u)'
  BY <1>1, <1>5, <1>6, <1>7, <1>8 DEF StoresAgree, BlobsKept, HoldsKept
<1>11. Whole'
  BY DEF Batches, Whole, FaultsGrow
<1> QED
  BY <1>4, <1>9, <1>10, <1>11 DEF StoresAgree, Advances, Becomes

LEMMA EmissionFacts ==
    ASSUME Batches, NEW u \in Uploads, up[u].pc \in Emitting
    PROVE  /\ up \in [Uploads -> Local] /\ JobsKept(u)
           /\ up[u].todo = {} /\ up[u].i \in Nat \ {0}
           /\ DOMAIN up[u].created = 1 .. Len(up[u].created) /\ Len(up[u].created) \in Nat
           /\ Len(up[u].results) = Len(Files[u]) /\ up[u].i <= Len(up[u].created) + 1
           /\ up[u].pc \in {"enqueue", "audit"} =>
                 /\ up[u].i <= Len(up[u].created)
                 /\ Current(u) = up[u].created[up[u].i]
                 /\ Current(u) \in CreatedIds(u) \cap FileIds(u) \cap Attempts
<1>1. Orderly(u) /\ StoresAgree(u) /\ up \in [Uploads -> Local]
  BY DEF Batches
<1>2. CreatedIds(u) \subseteq FileIds(u) /\ FileIds(u) \subseteq Attempts
  BY <1>1, CreatedAreFiles, FilesAreApart
<1> QED
  BY <1>1, <1>2, LocalFields
  DEF Orderly, Placed, Undoing, Emitting, StoresAgree, Current, CreatedIds

LEMMA EmitAdvances ==
    ASSUME Batches, NEW u \in Uploads, Emit(u)
    PROVE  Advances(u)
<1> DEFINE more == up[u].i <= Len(up[u].created)
           pc == IF more THEN "enqueue" ELSE "ok"
<1>1. /\ up[u].pc = "emit" /\ up[u].pc \in Emitting /\ Goto(u, pc)
      /\ pc \in Emitting /\ pc \in Places
      /\ UNCHANGED <<documents, versions, blobs, reservations, queue, audit, faults>>
  BY DEF Emit, At, Emitting, Places, storeVars, ledgerVars
<1>2. Becomes(u, pc, up[u].i, {}, up[u].after)
  <2> HIDE DEF pc
  <2> QED
    BY <1>1, GotoBecomes, EmissionFacts
<1>3. Placed(u)'
  BY <1>1, <1>2, EmissionFacts DEF Placed, Becomes, Filing, Emitting, Rolling
<1>4. FaultsGrow /\ (\A points : NeverThrew(points)' <=> NeverThrew(points))
  BY <1>1, Calm DEF Batches
<1>5. JobsKept(u)'
  <2>1. JobsKept(u) /\ up'[u].pc # "audit"
    BY <1>1, <1>2, EmissionFacts DEF Becomes
  <2>2. CreatedIds(u)' = CreatedIds(u) /\ up'[u].pc \in Emitting
    BY <1>1, <1>2 DEF CreatedIds, Becomes
  <2> QED
    BY <1>1, <1>2, <1>4, <2>1, <2>2 DEF JobsKept, Becomes, At
<1> HIDE DEF pc
<1> QED
  BY <1>1, <1>2, <1>3, <1>4, <1>5, EmitsOn DEF TouchesOnly, Batches, Whole

LEMMA EnqueueAdvances ==
    ASSUME Batches, NEW u \in Uploads, EnqueueDocument(u)
    PROVE  Advances(u)
<1> DEFINE f == up[u].created[up[u].i]
<1>1. /\ up[u].pc = "enqueue" /\ up[u].pc \in Emitting /\ Goto(u, "audit")
      /\ "audit" \in Emitting /\ "audit" \in Places
      /\ UNCHANGED <<documents, versions, blobs, reservations, audit, faults>>
  BY DEF EnqueueDocument, At, Emitting, Places, Enqueue, ledgerVars
<1>2. Becomes(u, "audit", up[u].i, {}, up[u].after)
  BY <1>1, GotoBecomes, EmissionFacts
<1>3. queue' = queue \cup {f} /\ f \in CreatedIds(u) \cap FileIds(u) \cap Attempts
  BY <1>1, EmissionFacts DEF EnqueueDocument, Enqueue
<1>4. Placed(u)'
  BY <1>1, <1>2, EmissionFacts DEF Placed, Becomes, Filing, Emitting, Rolling
<1>5. FaultsGrow /\ (\A points : NeverThrew(points)' <=> NeverThrew(points))
  BY <1>1, Calm DEF Batches
<1>6. JobsKept(u)'
  <2>1. JobsKept(u)
    BY <1>1, EmissionFacts
  <2>2. CreatedIds(u)' = CreatedIds(u) /\ up'[u].pc \in Emitting
    BY <1>1, <1>2 DEF CreatedIds, Becomes
  <2> QED
    BY <1>1, <1>2, <1>3, <1>5, <2>1, <2>2 DEF JobsKept, Becomes, At
<1>7. queue' \subseteq Attempts /\ TouchesOnly(u)
  BY <1>1, <1>3 DEF TouchesOnly, Batches, Whole
<1> QED
  BY <1>1, <1>2, <1>4, <1>5, <1>6, <1>7, EmitsOn

LEMMA AuditAdvances ==
    ASSUME Batches, NEW u \in Uploads, AuditUpload(u)
    PROVE  Advances(u)
<1> DEFINE f == up[u].created[up[u].i]
           i == up[u].i
<1>1. /\ up[u].pc = "audit" /\ up[u].pc \in Emitting /\ "emit" \in Emitting
      /\ UNCHANGED <<documents, versions, blobs, reservations, queue>>
      /\ up' = [up EXCEPT ![u].pc = "emit", ![u].i = @ + 1]
  BY DEF AuditUpload, At, Emitting, Record, ledgerVars
<1>2. up[u] \in Local /\ up \in [Uploads -> Local] /\ i \in Nat \ {0}
      /\ f \in CreatedIds(u) \cap FileIds(u) \cap Attempts /\ i <= Len(up[u].created)
  BY <1>1, EmissionFacts
<1>3. Becomes(u, "emit", i + 1, {}, up[u].after)
  <2>1. i + 1 \in Nat \ {0} /\ up[u].todo = {}
    BY <1>1, <1>2, EmissionFacts
  <2> QED
    BY <1>1, <1>2, <2>1 DEF Becomes, Local, Places, Emitting
<1>4. \/ UNCHANGED faults /\ audit' = audit \cup {<<"document.upload", f>>}
      \/ Throws("audit") /\ UNCHANGED audit
  BY <1>1, EmissionFacts DEF AuditUpload, Record
<1>5. FaultsGrow /\ (\A points : NeverThrew(points)' => NeverThrew(points))
      /\ (NeverThrew({"audit"})' => audit' = audit \cup {<<"document.upload", f>>})
  BY <1>4, Calm, Throwing DEF Batches
<1>6. Placed(u)'
  BY <1>1, <1>2, <1>3, EmissionFacts DEF Placed, Becomes, Filing, Emitting, Rolling
<1>7. JobsKept(u)'
  <2>1. JobsKept(u)
    BY <1>1, EmissionFacts
  <2>2. CreatedIds(u)' = CreatedIds(u) /\ up'[u].pc \in Emitting /\ up'[u].pc # "audit"
        /\ up'[u].created = up[u].created /\ up'[u].i = i + 1
    BY <1>1, <1>3 DEF CreatedIds, Becomes
  <2>3. \A j \in DOMAIN up[u].created : j < i + 1 <=> j < i \/ j = i
    BY <1>1, <1>2, EmissionFacts
  <2>4. audit \subseteq audit' /\ audit' \subseteq audit \cup {<<"document.upload", f>>}
    BY <1>4
  <2>5. \A id : <<"document.upload", id>> = <<"document.upload", f>> => id = f
    OBVIOUS
  <2>6. \A id \in FileIds(u) : id \in queue' \/ <<"document.upload", id>> \in audit' =>
           id \in CreatedIds(u)
    <3> HIDE DEF f
    <3> QED
      BY <1>1, <1>2, <2>1, <2>4, <2>5 DEF JobsKept
  <2>7. \A j \in DOMAIN up[u].created :
          /\ j < i + 1 => up[u].created[j] \in queue'
          /\ j < i + 1 /\ NeverThrew({"audit"})' =>
                <<"document.upload", up[u].created[j]>> \in audit'
    BY <1>1, <1>5, <2>1, <2>3, <2>4 DEF JobsKept, At
  <2> HIDE DEF f, i
  <2> QED
    BY <2>2, <2>6, <2>7 DEF JobsKept, At
<1>8. queue' \subseteq Attempts /\ TouchesOnly(u)
  <2>1. \A id : <<"document.upload", id>> = <<"document.upload", f>> => id = f
    OBVIOUS
  <2> HIDE DEF f
  <2> QED
    BY <1>1, <1>2, <1>4, <2>1 DEF TouchesOnly, Batches, Whole
<1> QED
  BY <1>1, <1>3, <1>5, <1>6, <1>7, <1>8, EmitsOn

LEMMA EnqueueThrowsAdvances ==
    ASSUME Batches, NEW u \in Uploads, CallThrows(u), up[u].pc = "enqueue"
    PROVE  Advances(u)
<1>1. /\ up[u].pc \in Emitting /\ Goto(u, "threw") /\ "threw" \in Places
      /\ UNCHANGED <<documents, versions, blobs, reservations, queue, audit>>
      /\ Throws("enqueue")
  BY DEF CallThrows, Uncaught, Emitting, Places, storeVars, ledgerVars
<1>2. Becomes(u, "threw", up[u].i, {}, up[u].after)
  BY <1>1, GotoBecomes, EmissionFacts
<1>3. FaultsGrow
  BY <1>1, Throwing DEF Batches
<1>4. Placed(u)'
  BY <1>1, <1>2, EmissionFacts DEF Placed, Becomes, Filing, Emitting, Rolling
<1>5. JobsKept(u)'
  <2>1. JobsKept(u)
    BY <1>1, EmissionFacts
  <2>2. CreatedIds(u)' = CreatedIds(u) /\ up'[u].pc = "threw"
    BY <1>1, <1>2 DEF CreatedIds, Becomes
  <2> QED
    BY <1>1, <2>1, <2>2 DEF JobsKept, Emitting
<1> QED
  BY <1>1, <1>2, <1>3, <1>4, <1>5, EmitsOn DEF TouchesOnly, Batches, Whole

-----------------------------------------------------------------------------
(* The invariant. *)

LEMMA StepAdvances ==
    ASSUME Batches, NEW u \in Uploads, UploadStep(u)
    PROVE  Advances(u)
BY BeginAdvances, ReserveAdvances, RefuseAdvances, PutAdvances, PutThrowsAdvances,
   SessionAdvances, InsertDocumentAdvances, InsertDuplicateAdvances, CommitAdvances,
   CommitThrowsAdvances, FilingCallThrowsAdvances, EnqueueThrowsAdvances, SettleAdvances,
   SettledAdvances, RollbackBatchAdvances, EmitAdvances, EnqueueAdvances, AuditAdvances
DEF UploadStep

LEMMA NothingMoves ==
    ASSUME Batches,
           UNCHANGED <<documents, versions, blobs, reservations, queue, audit, faults, up>>
    PROVE  Batches'
<1>1. Whole'
  BY DEF Batches, Whole
<1>2. ASSUME NEW w \in Uploads PROVE Orderly(w)' /\ StoresAgree(w)'
  <2>1. Orderly(w) /\ StoresAgree(w)
    BY DEF Batches
  <2>2. Orderly(w)'
    BY <2>1 DEF Orderly, Placed, Undoing, Collected, CreatedIds
  <2>3. /\ \A call : Kept(w, call)' = Kept(w, call)
        /\ CreatedIds(w)' = CreatedIds(w) /\ Spoiled(w)' = Spoiled(w)
        /\ \A pcs, call : InHand(w, pcs, call)' = InHand(w, pcs, call)
        /\ \A points : NeverThrew(points)' = NeverThrew(points)
    BY DEF Kept, TakenBack, CreatedIds, Spoiled, InHand, At, NeverThrew
  <2>4. Rows(w)' = Rows(w) /\ Tidy(w)' = Tidy(w)
    BY <2>3 DEF Rows, Tidy, At
  <2> QED
    BY <2>1, <2>2, <2>3, <2>4 DEF StoresAgree, RowsKept, BlobsKept, HoldsKept, JobsKept, At
<1> QED
  BY <1>1, <1>2 DEF Batches

LEMMA BatchesStep == Batches /\ [Next]_vars => Batches'
<1> SUFFICES ASSUME Batches, [Next]_vars PROVE Batches'
  OBVIOUS
<1>1. ASSUME NEW u \in Uploads, UploadStep(u) PROVE Batches'
  <2>1. Advances(u)
    BY <1>1, StepAdvances
  <2>2. ASSUME NEW w \in Uploads, w # u PROVE Orderly(w)' /\ StoresAgree(w)'
    BY <2>1, <2>2, OthersStay DEF Advances, Batches
  <2> QED
    BY <2>1, <2>2 DEF Advances, Batches
<1>2. CASE Elapse \/ UNCHANGED vars
  BY <1>2, NothingMoves DEF Elapse, Tick, vars, storeVars, ledgerVars
<1> QED
  BY <1>1, <1>2 DEF Next, UploadNext

LEMMA BatchesInit == Init => Batches
<1> SUFFICES ASSUME Init PROVE Batches
  OBVIOUS
<1> USE DEF Init, StoreInit, UploadInit
<1>1. ASSUME NEW u \in Uploads
      PROVE  /\ up[u] = [pc |-> "start", i |-> 1, results |-> <<>>, created |-> <<>>,
                         todo |-> {}, after |-> "start"]
             /\ up[u] \in Local
  <2>1. 1 \in Nat \ {0}
    OBVIOUS
  <2> QED
    BY <2>1 DEF Local, Places
<1>2. up \in [Uploads -> Local]
  BY <1>1
<1>3. Whole
  <2>1. \A v \in Seeded : versions[v].documentId = v
    BY DEF NewVersion
  <2> QED
    BY <2>1 DEF Whole
<1>4. ASSUME NEW u \in Uploads PROVE Orderly(u) /\ StoresAgree(u)
  <2>1. /\ up[u].pc = "start" /\ up[u].i = 1 /\ up[u].todo = {} /\ up[u].after = "start"
        /\ up[u].results = <<>> /\ up[u].created = <<>>
    BY <1>1
  <2>2. Len(Files[u]) \in Nat \ {0} /\ FileIds(u) \cap Seeded = {}
    BY FilesAreApart
  <2>3. Orderly(u)
    BY <2>1, <2>2
    DEF Orderly, Placed, Undoing, Collected, Filing, Emitting, Rolling
  <2>4. CreatedIds(u) = {} /\ \A call : Kept(u, call) = {}
    BY <2>1 DEF CreatedIds, Kept
  <2>5. /\ InHand(u, {"commit"}, "deleteDocument") = {}
        /\ InHand(u, Written, "none") = {} /\ InHand(u, Written, "deleteBlob") = {}
        /\ InHand(u, Holding, "none") = {} /\ InHand(u, Holding, "release") = {}
    BY <2>1 DEF InHand, Written, Holding
  <2>6. DOMAIN reservations = {} /\ DOMAIN versions = Seeded
    BY DEF EmptyTable
  <2>7. RowsKept(u) /\ BlobsKept(u) /\ HoldsKept(u)
    BY <2>2, <2>4, <2>5, <2>6 DEF RowsKept, BlobsKept, HoldsKept, Rows
  <2>8. JobsKept(u)
    BY <2>1 DEF JobsKept, Emitting
  <2> QED
    BY <2>3, <2>7, <2>8 DEF StoresAgree
<1> QED
  BY <1>2, <1>3, <1>4 DEF Batches

\* What a request holds of the tables, the blob store, the ledger and the queue
\* is what its outcomes and its pc say, whatever the other requests do.
THEOREM BatchesHold == Spec => []Batches
<1> QED
  BY BatchesInit, BatchesStep, PTL DEF Spec

-----------------------------------------------------------------------------
(* What follows from it. *)

LEMMA RequestAndIndex ==
    ASSUME NEW u \in Uploads, NEW k \in DOMAIN Files[u]
    PROVE  Files[u][k] \in Attempts /\ RequestOf[Files[u][k]] = u /\ IndexOf[Files[u][k]] = k
<1> DEFINE id == Files[u][k]
<1>1. id \in FileIds(u) /\ id \in Attempts
  BY FilesAreApart
<1>2. \A w \in Uploads : id \in FileIds(w) => w = u
  BY <1>1, FilesAreApart
<1>3. RequestOf[id] = u
  BY <1>1, <1>2 DEF RequestOf
<1>4. \A l \in DOMAIN Files[u] : Files[u][l] = id => l = k
  BY FilesAreApart
<1> QED
  BY <1>1, <1>3, <1>4 DEF IndexOf

\* An attempt is charged while its file is accepted and its charge not reverted.
LEMMA ChargedIsKept ==
    ASSUME Batches, NEW u \in Uploads, NEW id \in FileIds(u)
    PROVE  PhaseOf(id) = "committed" <=> id \in Kept(u, "revert")
<1>1. up \in [Uploads -> Local] /\ Orderly(u)
  BY DEF Batches
<1>2. PICK k \in DOMAIN Files[u] : Files[u][k] = id
  BY DEF FileIds
<1>3. RequestOf[id] = u /\ IndexOf[id] = k /\ k \in Nat \ {0}
  BY <1>2, RequestAndIndex, FilesAreApart
<1>4. k <= Len(up[u].results) <=> k \in DOMAIN up[u].results
  BY <1>1, <1>3, LocalFields
<1>5. k \in DOMAIN up[u].results => up[u].results[k] \in Results
  BY <1>1, LocalFields
<1>6. PhaseOf(id) = "committed" <=>
         k \in DOMAIN up[u].results /\ up[u].results[k] = "accepted" /\ ~RolledBack(u, id)
  BY <1>3, <1>4, <1>5 DEF PhaseOf, Results
<1>7. PhaseOf(id) = "committed" <=> id \in CreatedIds(u) /\ ~RolledBack(u, id)
  BY <1>1, <1>2, <1>6, CreatedAreFiles
<1>8. \A j, l \in DOMAIN up[u].created : up[u].created[j] = up[u].created[l] => j = l
  BY <1>1 DEF Orderly, Collected
<1>9. RolledBack(u, id) <=>
         \E j \in DOMAIN up[u].created : up[u].created[j] = id /\ TakenBack(u, j, "revert")
  BY DEF RolledBack, TakenBack, Rolling
<1> QED
  BY <1>7, <1>8, <1>9 DEF Kept, CreatedIds

\* A finished request holds all it accepted or, if its session expired, nothing.
LEMMA FinishedKeeps ==
    ASSUME Batches, NEW u \in Uploads, Finished(u)
    PROVE  /\ ~At(u, "expired") => \A call : Kept(u, call) = CreatedIds(u)
           /\ At(u, "expired") => \A call : Kept(u, call) = {}
           /\ InHand(u, {"commit"}, "deleteDocument") = {}
           /\ InHand(u, Written, "none") = {} /\ InHand(u, Written, "deleteBlob") = {}
           /\ InHand(u, Holding, "none") = {} /\ InHand(u, Holding, "release") = {}
<1>1. up \in [Uploads -> Local] /\ Orderly(u)
  BY DEF Batches
<1>2. up[u].pc \in {"ok", "expired", "threw", "tooLarge"}
  BY DEF Finished, Terminal
<1>3. ~At(u, "expired") => \A call : Kept(u, call) = CreatedIds(u)
  BY <1>2, KeepsAll DEF At, Rolling
<1>4. ASSUME At(u, "expired") PROVE \A call : Kept(u, call) = {}
  <2>1. \A j \in DOMAIN up[u].created : j < up[u].i
    BY <1>1, <1>4, LocalFields DEF Orderly, Placed, At
  <2> QED
    BY <1>4, <2>1 DEF Kept, TakenBack, At, Rolling
<1>5. up[u].pc \notin {"commit", "undo"} \cup Written \cup Holding
  BY <1>2 DEF Written, Holding
<1> QED
  BY <1>3, <1>4, <1>5 DEF InHand

LEMMA WhollyOrNotAtAll == Batches => StandOrFallTogether
<1> SUFFICES ASSUME Batches, NeverThrew({"validate", "insert", "commitAnswer", "undo"}),
                    NEW u \in Uploads, Finished(u), NEW id \in FileIds(u)
             PROVE  /\ id \notin DOMAIN reservations
                    /\ id \in DOMAIN versions <=> PhaseOf(id) = "committed"
                    /\ id \in blobs <=> PhaseOf(id) = "committed"
  BY DEF StandOrFallTogether
<1>1. NeverThrew({"undo"}) /\ NeverThrew({"validate", "insert"}) /\ Tidy(u)
  BY DEF NeverThrew, Tidy
<1>2. StoresAgree(u)
  BY DEF Batches
<1>3. PhaseOf(id) = "committed" <=> id \in Kept(u, "revert")
  BY ChargedIsKept
<1>4. Kept(u, "revert") = Kept(u, "deleteDocument") /\ Kept(u, "revert") = Kept(u, "deleteBlob")
  BY FinishedKeeps
<1> QED
  BY <1>1, <1>2, <1>3, <1>4, FinishedKeeps
  DEF StoresAgree, RowsKept, BlobsKept, HoldsKept, Rows

LEMMA RowsHaveBlobs == Batches => RowHasBlob
<1> SUFFICES ASSUME Batches, NeverThrew({"undo"}), NEW v \in DOMAIN versions, v \notin blobs
             PROVE  \E u \in Uploads : up[u].pc \in {"undo", "undoAccepted"} /\ Current(u) = v
  BY DEF RowHasBlob
<1>1. v \in Attempts
  BY DEF Batches, Whole
<1>2. PICK u \in Uploads : v \in FileIds(u)
  BY <1>1 DEF Attempts
<1>3. StoresAgree(u)
  BY DEF Batches
<1>4. v \in Kept(u, "deleteDocument") \/ v \in InHand(u, {"commit"}, "deleteDocument")
  BY <1>2, <1>3 DEF StoresAgree, RowsKept, Rows
<1>5. v \notin Kept(u, "deleteBlob") /\ v \notin InHand(u, Written, "none")
  BY <1>3 DEF StoresAgree, BlobsKept
<1>6. CASE v \in Kept(u, "deleteDocument")
  <2>1. PICK j \in DOMAIN up[u].created :
           up[u].created[j] = v /\ ~TakenBack(u, j, "deleteDocument")
    BY <1>6 DEF Kept
  <2>2. TakenBack(u, j, "deleteBlob")
    BY <1>5, <2>1 DEF Kept
  <2> QED
    BY <2>1, <2>2 DEF TakenBack, At, Current
<1>7. CASE v \in InHand(u, {"commit"}, "deleteDocument")
  BY <1>5, <1>7 DEF InHand, Written, Current
<1> QED
  BY <1>4, <1>6, <1>7

LEMMA ExpiryLeavesNothing == Batches => ExpiredLeavesNothing
<1> SUFFICES ASSUME Batches, NeverThrew({"undo"}), NEW u \in Uploads, At(u, "expired"),
                    NEW id \in FileIds(u)
             PROVE  /\ id \notin DOMAIN documents \cup DOMAIN versions \cup blobs
                    /\ id \notin DOMAIN reservations \cup queue
                    /\ PhaseOf(id) # "committed"
                    /\ <<"document.upload", id>> \notin audit
  BY DEF ExpiredLeavesNothing
<1>1. StoresAgree(u) /\ DOMAIN documents = DOMAIN versions /\ Finished(u) /\ Tidy(u)
  BY DEF Batches, Whole, Finished, Terminal, At, Tidy
<1>2. PhaseOf(id) # "committed"
  BY <1>1, FinishedKeeps, ChargedIsKept
<1>3. id \notin DOMAIN versions \cup blobs \cup DOMAIN reservations
  BY <1>1, FinishedKeeps DEF StoresAgree, RowsKept, BlobsKept, HoldsKept, Rows
<1>4. id \notin queue /\ <<"document.upload", id>> \notin audit
  BY <1>1 DEF StoresAgree, JobsKept, At, Emitting
<1> QED
  BY <1>1, <1>2, <1>3, <1>4

LEMMA AcceptedStays == Batches => AcceptedIsDurable
<1> SUFFICES ASSUME Batches, NEW u \in Uploads, At(u, "ok"), NEW k \in DOMAIN Files[u]
             PROVE  LET id == Files[u][k]
                        accepted == up[u].results[k] = "accepted"
                    IN  /\ accepted <=> id \in DOMAIN documents
                        /\ accepted <=> id \in queue
                        /\ <<"document.upload", id>> \in audit => accepted
                        /\ accepted /\ NeverThrew({"audit"}) =>
                               <<"document.upload", id>> \in audit
  BY DEF AcceptedIsDurable
<1> DEFINE id == Files[u][k]
<1>1. up \in [Uploads -> Local] /\ Orderly(u) /\ StoresAgree(u) /\ up[u].pc = "ok"
      /\ DOMAIN documents = DOMAIN versions
  BY DEF Batches, Whole, At
<1>2. k \in DOMAIN up[u].results
  BY <1>1, LocalFields, FilesAreApart DEF Orderly, Placed, Emitting
<1>3. up[u].results[k] = "accepted" <=> id \in CreatedIds(u)
  BY <1>1, <1>2, CreatedAreFiles
<1>4. id \in FileIds(u)
  BY DEF FileIds
<1>5. id \in DOMAIN versions <=> id \in CreatedIds(u)
  <2>1. Rows(u) = CreatedIds(u) /\ ~Spoiled(u)
    BY <1>1, FinishedKeeps DEF Rows, Finished, Terminal, At, Spoiled, Rolling
  <2> QED
    BY <1>1, <1>4, <2>1 DEF StoresAgree, RowsKept
<1>6. \A j \in DOMAIN up[u].created : j < up[u].i
  BY <1>1, LocalFields DEF Orderly, Placed
<1>7. id \in CreatedIds(u) =>
         id \in queue /\ (NeverThrew({"audit"}) => <<"document.upload", id>> \in audit)
  BY <1>1, <1>6 DEF StoresAgree, JobsKept, CreatedIds, Emitting
<1>8. id \in queue \/ <<"document.upload", id>> \in audit => id \in CreatedIds(u)
  BY <1>1, <1>4 DEF StoresAgree, JobsKept
<1> QED
  BY <1>1, <1>3, <1>5, <1>7, <1>8

LEMMA JobsPaid == Batches => JobsArePaidFor
<1> SUFFICES ASSUME Batches, NEW d \in queue
             PROVE  d \in DOMAIN documents /\ d \in blobs /\ PhaseOf(d) = "committed"
  BY DEF JobsArePaidFor
<1>1. PICK u \in Uploads : d \in FileIds(u)
  BY DEF Batches, Whole, Attempts
<1>2. StoresAgree(u) /\ DOMAIN documents = DOMAIN versions
  BY DEF Batches, Whole
<1>3. d \in CreatedIds(u) /\ up[u].pc \notin Rolling
  BY <1>1, <1>2 DEF StoresAgree, JobsKept, Emitting, Rolling
<1>4. d \in Kept(u, "revert") /\ d \in Kept(u, "deleteDocument") /\ d \in Kept(u, "deleteBlob")
  BY <1>3, KeepsAll
<1> QED
  BY <1>1, <1>2, <1>4, ChargedIsKept DEF StoresAgree, RowsKept, BlobsKept, Rows

\* The row, the blob and the charge of an attempt stand or fall together once
\* its request has finished (uploadSingleFile's compensations, rollbackBatch).
THEOREM StandOrFallTogetherHolds == Spec => []StandOrFallTogether
<1> QED
  BY BatchesHold, WhollyOrNotAtAll, PTL

\* A version row has its blob, except while that very attempt is being undone.
THEOREM RowHasBlobHolds == Spec => []RowHasBlob
<1> QED
  BY BatchesHold, RowsHaveBlobs, PTL

\* A request that ends SESSION_EXPIRED leaves nothing behind (rollbackBatch).
THEOREM ExpiredLeavesNothingHolds == Spec => []ExpiredLeavesNothing
<1> QED
  BY BatchesHold, ExpiryLeavesNothing, PTL

\* What a response reports accepted is stored, queued and, unless the audit
\* insert was lost, on record; what it reports refused has no trace.
THEOREM AcceptedIsDurableHolds == Spec => []AcceptedIsDurable
<1> QED
  BY BatchesHold, AcceptedStays, PTL

\* A job is queued only for a document that exists and is paid for.
THEOREM JobsArePaidForHolds == Spec => []JobsArePaidFor
<1> QED
  BY BatchesHold, JobsPaid, PTL
-----------------------------------------------------------------------------
(* Of identical files one is stored. *)

\* What a step of u does to the rows, the duplicates and the spoiled requests.
Follows(u) ==
    /\ Spoiled(u) => Spoiled(u)'
    /\ \/ /\ DOMAIN versions' \subseteq DOMAIN versions
          /\ \A v \in DOMAIN versions : v \in DOMAIN versions' \/ (v \in FileIds(u) /\ Spoiled(u))
       \/ \E f : ~ContentStored(f) /\ DOMAIN versions' = DOMAIN versions \cup {f}
    /\ \A k \in DOMAIN up'[u].results : up'[u].results[k] = "duplicate" =>
          \/ k \in DOMAIN up[u].results /\ up[u].results[k] = "duplicate"
          \/ At(u, "undo") /\ up[u].after = "duplicate" /\ k = up[u].i
    /\ up'[u].pc = "undo" /\ up'[u].after = "duplicate" =>
          /\ up'[u].i = up[u].i
          /\ \/ At(u, "undo") /\ up[u].after = "duplicate"
             \/ ContentStored(Files[u][up[u].i])

\* The steps that neither file an outcome nor undo anything.
LEMMA QuietFollows ==
    ASSUME Batches, NEW u \in Uploads,
           \/ Begin(u) \/ Reserve(u) \/ Put(u) \/ PutThrows(u) \/ SessionValid(u)
           \/ SessionExpired(u) \/ CommitThrows(u) \/ CallThrows(u)
           \/ Emit(u) \/ EnqueueDocument(u) \/ AuditUpload(u)
    PROVE  Follows(u)
<1>1. up[u] \in Local /\ up \in [Uploads -> Local]
  BY DEF Batches
<1>2. UNCHANGED versions
  BY DEF Begin, Reserve, Put, PutThrows, SessionValid, SessionExpired, CommitThrows, CallThrows,
     Emit, EnqueueDocument, AuditUpload, storeVars, PutBlob, Enqueue, Record
<1>3. up[u].pc \notin {"undo", "threw"} \cup Rolling
  BY DEF Begin, Reserve, Put, PutThrows, SessionValid, SessionExpired, CommitThrows, CallThrows,
     Emit, EnqueueDocument, AuditUpload, At, Rolling, Uncaught
<1>4. up'[u].results = up[u].results
      /\ (up'[u].pc # "undo" \/ up'[u].after # "duplicate")
  <2>1. CASE \/ Begin(u) \/ Reserve(u) \/ Put(u) \/ SessionValid(u)
             \/ Emit(u) \/ EnqueueDocument(u) \/ CallThrows(u)
    <3>1. PICK pc \in Places \ {"undo"} : Goto(u, pc)
      BY <2>1 DEF Begin, Reserve, Put, SessionValid, Emit, EnqueueDocument, CallThrows,
         Places, Filing, Emitting
    <3> QED
      BY <1>1, <3>1, GotoBecomes DEF Becomes
  <2>2. CASE PutThrows(u) \/ SessionExpired(u) \/ CommitThrows(u)
    <3>1. PICK calls \in SUBSET Calls, after \in {"threw", "rollback"} :
             Undo(u, "undo", calls, after)
      BY <2>2 DEF PutThrows, SessionExpired, CommitThrows, Calls
    <3>2. "undo" \in Places /\ after # "duplicate"
      BY DEF Places, Filing
    <3> QED
      BY <1>1, <3>1, <3>2, UndoBecomes DEF Becomes
  <2>3. CASE AuditUpload(u)
    BY <1>1, <2>3 DEF AuditUpload, Local
  <2> QED
    BY <2>1, <2>2, <2>3
<1>5. ~Spoiled(u)
  BY <1>3 DEF Spoiled, At
<1> QED
  BY <1>2, <1>4, <1>5 DEF Follows

LEMMA InsertFollows ==
    ASSUME Batches, NEW u \in Uploads, InsertDocument(u) \/ InsertDuplicate(u)
    PROVE  Follows(u)
<1> DEFINE f == Files[u][up[u].i]
<1>1. up[u] \in Local /\ up \in [Uploads -> Local]
  BY DEF Batches
<1>2. /\ up[u].pc = "insert" /\ ~Spoiled(u) /\ up[u].pc \in Filing
      /\ {"release", "deleteBlob"} \in SUBSET Calls /\ "commit" \in Places /\ "undo" \in Places
  BY DEF InsertDocument, InsertDuplicate, At, Spoiled, Rolling, Filing, Calls, Places
<1>3. Current(u) = f
  BY <1>2, FilingFacts
<1>4. CASE InsertDocument(u)
  <2>1. DOMAIN versions' = DOMAIN versions \cup {f} /\ ~ContentStored(f)
    BY <1>3, <1>4 DEF InsertDocument, InsertDocumentWithVersion, Insert
  <2>2. Becomes(u, "commit", up[u].i, up[u].todo, up[u].after)
    BY <1>1, <1>2, <1>4, GotoBecomes DEF InsertDocument
  <2> QED
    BY <1>2, <2>1, <2>2 DEF Follows, Becomes
<1>5. CASE InsertDuplicate(u)
  <2>1. UNCHANGED versions /\ ContentStored(f)
    BY <1>3, <1>5 DEF InsertDuplicate, storeVars
  <2>2. Becomes(u, "undo", up[u].i, {"release", "deleteBlob"}, "duplicate")
    BY <1>1, <1>2, <1>5, UndoBecomes DEF InsertDuplicate
  <2> QED
    BY <1>2, <2>1, <2>2 DEF Follows, Becomes
<1> QED
  BY <1>4, <1>5

LEMMA OutcomeFollows ==
    ASSUME Batches, NEW u \in Uploads, up[u].pc \in Filing, UNCHANGED versions, ~Spoiled(u),
           NEW result \in Results, Outcome(u, result),
           result = "duplicate" => At(u, "undo") /\ up[u].after = "duplicate"
    PROVE  Follows(u)
<1> DEFINE n == Len(up[u].results)
<1>1. /\ up[u].i = n + 1 /\ n \in Nat
      /\ DOMAIN up[u].results = 1 .. n /\ up[u].results \in Seq(Results)
  BY LocalFields DEF Batches, Orderly, Placed
<1>2. up'[u].results = Append(up[u].results, result) /\ up'[u].pc # "undo"
  BY OutcomeBecomes
<1>3. \A k \in DOMAIN up'[u].results :
         \/ k \in DOMAIN up[u].results /\ up'[u].results[k] = up[u].results[k]
         \/ k = n + 1 /\ up'[u].results[k] = result
  BY <1>1, <1>2
<1> QED
  BY <1>1, <1>2, <1>3 DEF Follows

LEMMA OutcomesFollow ==
    ASSUME Batches, NEW u \in Uploads,
           Refuse(u) \/ Commit(u) \/ (Settled(u) /\ up[u].after = "duplicate")
    PROVE  Follows(u)
<1>1. UNCHANGED versions
  BY DEF Refuse, Commit, Settled, storeVars
<1>2. CASE Refuse(u)
  BY <1>1, <1>2, OutcomeFollows DEF Refuse, At, Filing, Spoiled, Rolling, Results
<1>3. CASE Commit(u)
  BY <1>1, <1>3, OutcomeFollows DEF Commit, At, Filing, Spoiled, Rolling, Results
<1>4. CASE Settled(u) /\ up[u].after = "duplicate"
  <2>1. up[u].pc = "undo" /\ Outcome(u, "duplicate")
    BY <1>4 DEF Settled, Batches, Orderly, Undoing
  <2> QED
    BY <1>1, <1>4, <2>1, OutcomeFollows DEF At, Filing, Spoiled, Rolling, Results
<1> QED
  BY <1>2, <1>3, <1>4

\* A request that is spoiled stays so.
LEMMA SpoiledFollows ==
    ASSUME Batches, NEW u \in Uploads,
           RollbackBatch(u) \/ (Settled(u) /\ up[u].after # "duplicate")
    PROVE  Follows(u)
<1>1. up[u] \in Local /\ up \in [Uploads -> Local]
  BY DEF Batches
<1>2. UNCHANGED versions
  BY DEF RollbackBatch, Settled, storeVars
<1>3. PICK pc \in {"threw"} \cup Rolling : up'[u].pc = pc /\ up'[u].results = up[u].results
  <2>1. CASE RollbackBatch(u)
    BY <1>1, <2>1 DEF RollbackBatch, Undo, Goto, Rolling, Local
  <2>2. CASE Settled(u) /\ up[u].after = "threw"
    <3>1. Goto(u, "threw")
      BY <2>2 DEF Settled
    <3> QED
      BY <1>1, <3>1 DEF Goto, Local
  <2>3. CASE Settled(u) /\ up[u].after = "rollback"
    <3>1. up' = [up EXCEPT ![u].pc = "rollback", ![u].i = 1]
      BY <2>3 DEF Settled
    <3> QED
      BY <1>1, <3>1 DEF Rolling, Local
  <2>4. CASE Settled(u) /\ up[u].after = "next"
    <3>1. up' = [up EXCEPT ![u].pc = "rollback", ![u].i = @ + 1]
      BY <2>4 DEF Settled
    <3> QED
      BY <1>1, <3>1 DEF Rolling, Local
  <2>5. Settled(u) => up[u].after \in {"threw", "rollback", "duplicate", "next"}
    BY DEF Settled, Batches, Orderly, Undoing
  <2> QED
    BY <2>1, <2>2, <2>3, <2>4, <2>5
<1>4. Spoiled(u)' /\ pc # "undo"
  BY <1>3 DEF Spoiled, At, Rolling
<1> QED
  BY <1>2, <1>3, <1>4 DEF Follows

LEMMA SettleFollows ==
    ASSUME Batches, NEW u \in Uploads, NEW call \in up[u].todo, Settle(u, call)
    PROVE  Follows(u)
<1>1. up[u] \in Local /\ up \in [Uploads -> Local] /\ Orderly(u)
  BY DEF Batches
<1>2. /\ up[u].pc \in {"undo", "undoAccepted"}
      /\ call = "deleteDocument" => Spoiled(u)
      /\ Current(u) \in FileIds(u)
  <2>1. up[u].pc \in {"undo", "undoAccepted"}
    BY <1>1 DEF Orderly, Undoing
  <2>2. call = "deleteDocument" => Spoiled(u)
    BY <1>1, <2>1 DEF Orderly, Undoing, Spoiled, At, Rolling
  <2>3. up[u].pc = "undo" => Current(u) \in FileIds(u)
    BY FilingFacts DEF Filing
  <2>4. up[u].pc = "undoAccepted" => Current(u) \in FileIds(u)
    BY <1>1, LocalFields, CreatedAreFiles DEF Orderly, Placed, CreatedIds, Current
  <2> QED
    BY <2>1, <2>2, <2>3, <2>4
<1>3. \/ UNCHANGED versions
      \/ call = "deleteDocument" /\ DeleteDocument(Current(u))
  <2>1. call \in Calls
    BY <1>1, LocalFields
  <2> QED
    BY <2>1 DEF Settle, Compensate, storeVars, DeleteBlob, Calls
<1>4. DeleteDocument(Current(u)) => DOMAIN versions' = DOMAIN versions \ {Current(u)}
  BY DeletesOwn DEF Batches
<1>5. /\ up'[u].pc = up[u].pc /\ up'[u].after = up[u].after /\ up'[u].i = up[u].i
      /\ up'[u].results = up[u].results
  BY <1>1 DEF Settle, Local
<1>6. Spoiled(u)' <=> Spoiled(u)
  BY <1>5 DEF Spoiled, At
<1> QED
  BY <1>2, <1>3, <1>4, <1>5, <1>6 DEF Follows, At

LEMMA StepFollows ==
    ASSUME Batches, NEW u \in Uploads, UploadStep(u)
    PROVE  Follows(u)
BY QuietFollows, InsertFollows, OutcomesFollow, SpoiledFollows, SettleFollows DEF UploadStep

LEMMA RivalsInit == Init => Rivals
<1> SUFFICES ASSUME Init PROVE Rivals
  OBVIOUS
<1>1. \A v, w \in DOMAIN versions : Content[v] = Content[w] => v = w
  BY StoreAssumption DEF Init, StoreInit
<1>2. \A u \in Uploads : up[u].results = <<>> /\ up[u].pc = "start"
  BY DEF Init, UploadInit
<1> QED
  BY <1>1, <1>2 DEF Rivals, Rivaled, At

LEMMA RivalsStep == Batches /\ Rivals /\ [Next]_vars => Rivals'
<1> SUFFICES ASSUME Batches, Rivals, [Next]_vars PROVE Rivals'
  OBVIOUS
<1>1. ASSUME NEW u \in Uploads, UploadStep(u) PROVE Rivals'
  <2>1. Follows(u) /\ \A w \in Uploads : w # u => up'[w] = up[w]
    BY <1>1, StepFollows, StepAdvances DEF Advances
  <2>2. ASSUME NEW w \in Uploads, Spoiled(w) PROVE Spoiled(w)'
    <3>1. CASE w = u
      BY <2>1, <2>2, <3>1 DEF Follows
    <3>2. CASE w # u
      BY <2>1, <2>2, <3>2 DEF Spoiled, At
    <3> QED
      BY <3>1, <3>2
  <2>3. \A v, w \in DOMAIN versions' : Content[v] = Content[w] => v = w
    <3>1. \/ DOMAIN versions' \subseteq DOMAIN versions
          \/ \E f : ~ContentStored(f) /\ DOMAIN versions' = DOMAIN versions \cup {f}
      BY <2>1 DEF Follows
    <3>2. \A v, w \in DOMAIN versions : Content[v] = Content[w] => v = w
      BY DEF Rivals
    <3> QED
      BY <3>1, <3>2 DEF ContentStored
  <2>4. ASSUME NEW id, HasRival(id) PROVE HasRival(id)'
    <3>1. CASE ContentStored(id)
      <4>1. PICK v \in DOMAIN versions : Content[v] = Content[id]
        BY <3>1 DEF ContentStored
      <4>2. v \in DOMAIN versions' \/ (v \in FileIds(u) /\ Spoiled(u))
        BY <2>1 DEF Follows
      <4> QED
        BY <2>2, <4>1, <4>2 DEF HasRival, ContentStored
    <3>2. CASE ~ContentStored(id)
      BY <2>2, <2>4, <3>2 DEF HasRival
    <3> QED
      BY <3>1, <3>2
  <2>5. ASSUME NEW w \in Uploads PROVE Rivaled(w)'
    <3>1. Rivaled(w)
      BY DEF Rivals
    <3>2. CASE w # u
      <4>1. up'[w] = up[w]
        BY <2>1, <3>2
      <4> QED
        BY <2>4, <3>1, <4>1 DEF Rivaled, At
    <3>3. CASE w = u
      <4>1. \A k : k \in DOMAIN up'[u].results /\ up'[u].results[k] = "duplicate" =>
               HasRival(Files[u][k])
        BY <2>1, <3>1, <3>3 DEF Follows, Rivaled
      <4>2. \A i : up'[u].pc = "undo" /\ up'[u].after = "duplicate" /\ i = up'[u].i =>
               HasRival(Files[u][i])
        BY <2>1, <3>1, <3>3 DEF Follows, Rivaled, HasRival
      <4>3. /\ \A k : k \in DOMAIN up'[u].results /\ up'[u].results[k] = "duplicate" =>
                  HasRival(Files[u][k])'
            /\ \A i : up'[u].pc = "undo" /\ up'[u].after = "duplicate" /\ i = up'[u].i =>
                  HasRival(Files[u][i])'
        BY <2>4, <4>1, <4>2
      <4> QED
        BY <3>3, <4>3 DEF Rivaled, At
    <3> QED
      BY <3>2, <3>3
  <2> QED
    BY <2>3, <2>5 DEF Rivals
<1>2. CASE Elapse \/ UNCHANGED vars
  <2>1. UNCHANGED <<versions, up>>
    BY <1>2 DEF Elapse, vars, storeVars
  <2>2. \A id : HasRival(id)' <=> HasRival(id)
    BY <2>1 DEF HasRival, ContentStored, Spoiled, At
  <2> QED
    BY <2>1, <2>2 DEF Rivals, Rivaled, At
<1> QED
  BY <1>1, <1>2 DEF Next, UploadNext

LEMMA IdenticalOnce == Batches /\ Rivals => OneOfIdenticalWins
<1> SUFFICES ASSUME Batches, Rivals, NEW c \in Contents,
                    NEW one \in {id \in Attempts : Content[id] = c},
                    \A id \in {e \in Attempts : Content[e] = c} :
                       /\ At(RequestOf[id], "ok")
                       /\ up[RequestOf[id]].results[IndexOf[id]] # "refused"
             PROVE  Cardinality({v \in DOMAIN versions : Content[v] = c}) = 1
  BY DEF OneOfIdenticalWins
<1>1. PICK u \in Uploads : one \in FileIds(u)
  BY DEF Attempts
<1>2. PICK k \in DOMAIN Files[u] : Files[u][k] = one
  BY <1>1 DEF FileIds
<1>3. RequestOf[one] = u /\ IndexOf[one] = k
  BY <1>2, RequestAndIndex
<1>4. up[u].pc = "ok" /\ up[u].results[k] # "refused" /\ Orderly(u) /\ up \in [Uploads -> Local]
  BY <1>3 DEF At, Batches
<1>5. k \in DOMAIN up[u].results /\ up[u].results[k] \in Results
  BY <1>4, LocalFields, FilesAreApart DEF Orderly, Placed, Emitting
<1>6. ContentStored(one)
  <2>1. CASE up[u].results[k] = "accepted"
    BY <1>2, <1>4, <2>1, AcceptedStays DEF AcceptedIsDurable, At, ContentStored, Batches, Whole
  <2>2. CASE up[u].results[k] = "duplicate"
    <3>1. HasRival(one)
      BY <1>2, <1>5, <2>2 DEF Rivals, Rivaled
    <3>2. ASSUME NEW w \in Uploads, Spoiled(w), NEW f \in FileIds(w), Content[f] = Content[one]
          PROVE  FALSE
      <4>1. f \in Attempts /\ Content[f] = c
        BY <3>2 DEF Attempts
      <4>2. PICK l \in DOMAIN Files[w] : Files[w][l] = f
        BY DEF FileIds
      <4>3. RequestOf[f] = w
        BY <4>2, RequestAndIndex
      <4>4. At(w, "ok")
        BY <4>1, <4>3
      <4> QED
        BY <3>2, <4>4 DEF Spoiled, At, Rolling
    <3> QED
      BY <3>1, <3>2 DEF HasRival
  <2> QED
    BY <1>4, <1>5, <2>1, <2>2 DEF Results
<1>7. PICK v \in DOMAIN versions : Content[v] = c
  BY <1>6 DEF ContentStored
<1>8. {w \in DOMAIN versions : Content[w] = c} = {v}
  BY <1>7 DEF Rivals
<1> QED
  BY <1>8, FS_Singleton

\* Of identical files uploaded at once, exactly one is stored when all their
\* requests succeed and none of them was refused (the unique index on the hash
\* and the compensation of the loser, AC-03.04).
THEOREM OneOfIdenticalWinsHolds == Spec => []OneOfIdenticalWins
<1>1. Init => Rivals
  BY RivalsInit
<1>2. Batches /\ Rivals /\ [Next]_vars => Rivals'
  BY RivalsStep
<1>3. Batches /\ Rivals => OneOfIdenticalWins
  BY IdenticalOnce
<1> QED
  BY <1>1, <1>2, <1>3, BatchesHold, PTL DEF Spec
-----------------------------------------------------------------------------
(* The requests keep to the quota protocol, in an instance where no          *)
(* compensation throws and no commit's answer is lost: the code looks at     *)
(* neither.  A request may revert what it has committed because the counter  *)
(* holds it, which is a theorem of the protocol; so the two are shown        *)
(* together, the protocol's invariants being taken from its proofs.          *)

Ledger == INSTANCE QuotaProofs
    WITH ReservationIds <- Attempts,
         Owner <- OwnerOf,
         Bytes <- SizesOf,
         LockWait <- 0, LateCommits <- TRUE, MaxTime <- MaxTime + TTL,
         phase <- [id \in Attempts |-> PhaseOf(id)]

\* What the protocol assumes of its constants holds of the uploads'.
LEMMA LedgerAssumptions ==
    /\ Ledger!QuotaAssumption /\ Ledger!ClockAssumption /\ Ledger!IdsAssumption
    /\ Ledger!AttemptAssumption /\ Ledger!LockWaitAssumption /\ Ledger!LateCommitsAssumption
<1>1. Ledger!QuotaAssumption
  BY QuotaAssumption DEF Ledger!QuotaAssumption
<1>2. Ledger!ClockAssumption
  BY ClockAssumption DEF Ledger!ClockAssumption
<1>3. Ledger!IdsAssumption
  <2>1. IsFiniteSet(Attempts)
    BY FilesAreApart, IdsAssumption, FS_Subset
  <2>2. Ledger!IsFiniteSet(Attempts)
    BY <2>1, Zenon DEF IsFiniteSet, Ledger!IsFiniteSet
  <2> QED
    BY <2>2 DEF Ledger!IdsAssumption
<1>4. Ledger!AttemptAssumption
  <2>1. OwnerOf \in [Attempts -> Tenants]
    BY StoreAssumption DEF OwnerOf
  <2>2. SizesOf \in [Attempts -> Nat]
    BY StoreAssumption, FilesAreApart DEF SizesOf, SizeOf
  <2> QED
    BY <2>1, <2>2 DEF Ledger!AttemptAssumption
<1>5. Ledger!LockWaitAssumption
  BY ClockAssumption DEF Ledger!LockWaitAssumption
<1>6. Ledger!LateCommitsAssumption
  BY DEF Ledger!LateCommitsAssumption
<1> QED
  BY <1>1, <1>2, <1>3, <1>4, <1>5, <1>6

\* The ledger's queries are the protocol's.
LEMMA SameFits ==
    ASSUME NEW t, NEW bytes, NEW at
    PROVE  Fits(t, bytes, at) <=> Ledger!Fits(t, bytes, at)
BY DEF Fits, Ledger!Fits, Outstanding, Ledger!Outstanding, LiveIds, Ledger!LiveIds,
       TotalBytes, Ledger!TotalBytes, Units, Ledger!Units, Cardinality, Ledger!Cardinality

\* The phase of the file that comes next, or is in hand.
FilePhase(u) ==
    LET r  == up[u]
        id == Files[u][Len(r.results) + 1]
    IN  IF r.pc \in {"start", "reserve", "tooLarge"} THEN "idle"
        ELSE IF \/ r.pc \in Holding
                \/ r.pc = "undo" /\ "release" \in r.todo
                \/ r.pc = "threw" /\ id \in DOMAIN reservations THEN "open"
        ELSE IF r.pc = "threw" /\ r.after # "threw" THEN "idle"
        ELSE "released"

\* The phase of the k-th file of u.
PhaseAt(u, k) ==
    LET n == Len(up[u].results)
        result == up[u].results[k]
    IN  IF k > n + 1 THEN "idle"
        ELSE IF k = n + 1 THEN FilePhase(u)
        ELSE IF result = "refused" THEN IF Accepted(Files[u][k]) THEN "refused" ELSE "idle"
        ELSE IF result = "duplicate" THEN "released"
        ELSE IF RolledBack(u, Files[u][k]) THEN "reverted" ELSE "committed"

Phases == \A u \in Uploads : \A k \in DOMAIN Files[u] : PhaseOf(Files[u][k]) = PhaseAt(u, k)

LEMMA PhasesAre == up \in [Uploads -> Local] => Phases
<1> SUFFICES ASSUME up \in [Uploads -> Local],
                    NEW u \in Uploads, NEW k \in DOMAIN Files[u]
             PROVE  PhaseOf(Files[u][k]) = PhaseAt(u, k)
  BY DEF Phases
<1> DEFINE id == Files[u][k]
           n == Len(up[u].results)
<1>1. RequestOf[id] = u /\ IndexOf[id] = k /\ k \in Nat \ {0} /\ n \in Nat
  BY RequestAndIndex, FilesAreApart, LocalFields
<1>2. k <= n => up[u].results[k] \in Results
  BY <1>1, LocalFields
<1>3. CASE k > n + 1
  <2>1. ~(k <= n)
    BY <1>1, <1>3
  <2> QED
    BY <1>1, <1>3, <2>1 DEF PhaseOf, PhaseAt
<1>4. CASE k = n + 1
  <2>1. ~(k <= n) /\ ~(k > n + 1)
    BY <1>1, <1>4
  <2> DEFINE r == up[u]
             asked == r.pc \in {"start", "reserve", "tooLarge"}
             held == r.pc \in {"put", "validate", "insert", "commit"}
             undone == r.pc = "undo" /\ "release" \in r.todo
             left == r.pc = "threw" /\ id \in DOMAIN reservations
             unasked == r.pc = "threw" /\ id \notin DOMAIN reservations /\ r.after # "threw"
             phase == CASE asked -> "idle" [] held -> "open" [] undone -> "open"
                        [] left -> "open" [] unasked -> "idle" [] OTHER -> "released"
  <2>2. PhaseOf(id) = phase
    <3>1. RequestOf[id] = u /\ IndexOf[id] = k
      BY <1>1
    <3> QED
      BY <2>1, <3>1, Zenon DEF PhaseOf
  <2>3. phase = IF asked THEN "idle" ELSE IF held \/ undone \/ left THEN "open"
                ELSE IF unasked THEN "idle" ELSE "released"
    <3>1. /\ asked => ~held /\ ~undone /\ ~left /\ ~unasked
          /\ held => ~undone /\ ~left /\ ~unasked
          /\ undone => ~left /\ ~unasked
      OBVIOUS
    <3>2. left => ~unasked
      OBVIOUS
    <3> HIDE DEF asked, held, undone, left, unasked
    <3> QED
      BY <3>1, <3>2
  <2>4. PhaseAt(u, k) = FilePhase(u)
    BY <1>4, <2>1 DEF PhaseAt
  <2> QED
    BY <1>4, <2>2, <2>3, <2>4 DEF FilePhase, Holding
<1>5. CASE k <= n
  <2>1. ~(k = n + 1) /\ ~(k > n + 1)
    BY <1>1, <1>5
  <2> QED
    BY <1>1, <1>2, <1>5, <2>1 DEF PhaseOf, PhaseAt, Results
<1> QED
  BY <1>1, <1>3, <1>4, <1>5

LEMMA PhasesAreNext == (up \in [Uploads -> Local])' => Phases'
BY PhasesAre, PTL

\* What no step of a request changes keeps its phase.
LEMMA OthersPhase ==
    ASSUME Batches, NEW u \in Uploads, Advances(u), NEW w \in Uploads, w # u,
           NEW k \in DOMAIN Files[w]
    PROVE  PhaseOf(Files[w][k])' = PhaseOf(Files[w][k])
<1> DEFINE id == Files[w][k]
<1>1. up'[w] = up[w]
  BY DEF Advances
<1>2. id \in Attempts \ FileIds(u)
  BY FilesAreApart
<1>3. id \in DOMAIN reservations' <=> id \in DOMAIN reservations
  BY <1>2 DEF Advances, TouchesOnly
<1>4. RequestOf[id] = w
  BY RequestAndIndex
<1>5. RolledBack(w, id)' <=> RolledBack(w, id)
  BY <1>1 DEF RolledBack, At
<1> QED
  BY <1>1, <1>3, <1>4, <1>5 DEF PhaseOf

\* A step after which every file of u has the phase it had.
LEMMA PhasesStay ==
    ASSUME Batches, NEW u \in Uploads, Advances(u),
           \A k \in DOMAIN Files[u] : PhaseAt(u, k)' = PhaseAt(u, k)
    PROVE  [id \in Attempts |-> PhaseOf(id)]' = [id \in Attempts |-> PhaseOf(id)]
<1>1. Phases /\ Phases'
  BY PhasesAre, PhasesAreNext DEF Batches, Advances
<1>2. ASSUME NEW id \in Attempts PROVE PhaseOf(id)' = PhaseOf(id)
  <2>1. PICK w \in Uploads : \E k \in DOMAIN Files[w] : Files[w][k] = id
    BY DEF Attempts, FileIds
  <2>2. PICK k \in DOMAIN Files[w] : Files[w][k] = id
    BY <2>1
  <2>3. CASE w = u
    BY <1>1, <2>2, <2>3 DEF Phases
  <2>4. CASE w # u
    BY <2>2, <2>4, OthersPhase
  <2> QED
    BY <2>3, <2>4
<1> QED
  BY <1>2

\* A step after which one file has another phase.
LEMMA PhaseMoves ==
    ASSUME Batches, NEW u \in Uploads, Advances(u), NEW l \in DOMAIN Files[u],
           \A k \in DOMAIN Files[u] : k # l => PhaseAt(u, k)' = PhaseAt(u, k),
           NEW from, NEW to, PhaseAt(u, l) = from, PhaseAt(u, l)' = to
    PROVE  Ledger!Moves(Files[u][l], {from}, to) /\ Files[u][l] \in Attempts
<1> DEFINE phase == [id \in Attempts |-> PhaseOf(id)]
<1>1. Phases /\ Phases'
  BY PhasesAre, PhasesAreNext DEF Batches, Advances
<1>2. ASSUME NEW id \in Attempts
      PROVE  PhaseOf(id)' = IF id = Files[u][l] THEN to ELSE PhaseOf(id)
  <2>1. PICK w \in Uploads : \E k \in DOMAIN Files[w] : Files[w][k] = id
    BY DEF Attempts, FileIds
  <2>2. PICK k \in DOMAIN Files[w] : Files[w][k] = id
    BY <2>1
  <2>3. CASE w = u
    <3>1. k = l <=> id = Files[u][l]
      BY <2>2, <2>3, FilesAreApart
    <3> QED
      BY <1>1, <2>2, <2>3, <3>1 DEF Phases
  <2>4. CASE w # u
    <3>1. id # Files[u][l]
      BY <2>2, <2>4, FilesAreApart
    <3> QED
      BY <2>2, <2>4, <3>1, OthersPhase
  <2> QED
    BY <2>3, <2>4
<1>3. Files[u][l] \in Attempts /\ PhaseOf(Files[u][l]) = from
  BY <1>1, RequestAndIndex DEF Phases
<1>4. phase' = [phase EXCEPT ![Files[u][l]] = to]
  BY <1>2
<1> QED
  BY <1>3, <1>4 DEF Ledger!Moves

\* Only the file in hand has another phase when no outcome is recorded and
\* nothing that was accepted is taken back.
LEMMA SameOutcomes ==
    ASSUME Batches, NEW u \in Uploads, Advances(u), up'[u].results = up[u].results,
           \A id \in Attempts : RolledBack(u, id)' <=> RolledBack(u, id)
    PROVE  \A k \in DOMAIN Files[u] :
              IF k = Len(up[u].results) + 1
              THEN PhaseAt(u, k) = FilePhase(u) /\ PhaseAt(u, k)' = FilePhase(u)'
              ELSE PhaseAt(u, k)' = PhaseAt(u, k)
<1>1. Len(up[u].results) \in Nat
  BY LocalFields DEF Batches
<1>2. ~(Len(up[u].results) + 1 > Len(up[u].results) + 1)
  BY <1>1
<1>3. \A k \in DOMAIN Files[u] : Files[u][k] \in Attempts
  BY FilesAreApart
<1> QED
  BY <1>1, <1>2, <1>3 DEF PhaseAt

\* A request that is not rolling back has taken nothing back.
LEMMA NothingRolledBack ==
    ASSUME NEW u \in Uploads, up[u].pc \notin Rolling, up'[u].pc \notin Rolling
    PROVE  \A id \in Attempts : RolledBack(u, id)' <=> RolledBack(u, id)
BY DEF RolledBack, Rolling

\* A step that leaves the ledger and the phase of the file in hand alone is no
\* step of the protocol.
LEMMA LeavesLedger ==
    ASSUME Batches, NEW u \in Uploads, Advances(u), up'[u].results = up[u].results,
           \A id \in Attempts : RolledBack(u, id)' <=> RolledBack(u, id),
           Len(up[u].results) < Len(Files[u]) => FilePhase(u)' = FilePhase(u),
           UNCHANGED ledgerVars
    PROVE  UNCHANGED Ledger!vars
<1> DEFINE n == Len(up[u].results)
<1>1. n \in Nat /\ Len(Files[u]) \in Nat /\ DOMAIN Files[u] = 1 .. Len(Files[u])
  BY LocalFields, FilesAreApart DEF Batches
<1>2. \A k \in DOMAIN Files[u] : PhaseAt(u, k)' = PhaseAt(u, k)
  BY <1>1, SameOutcomes
<1>3. [id \in Attempts |-> PhaseOf(id)]' = [id \in Attempts |-> PhaseOf(id)]
  BY <1>2, PhasesStay
<1> QED
  BY <1>3 DEF Ledger!vars, ledgerVars

\* A step that gives the file in hand another phase.
LEMMA FileMoves ==
    ASSUME Batches, NEW u \in Uploads, Advances(u), up[u].pc \in Filing,
           up'[u].pc \notin Rolling, up'[u].results = up[u].results,
           NEW from, NEW to, FilePhase(u) = from, FilePhase(u)' = to
    PROVE  Ledger!Moves(Current(u), {from}, to)
<1> DEFINE n == Len(up[u].results)
<1>1. up[u].i = n + 1 /\ Current(u) = Files[u][n + 1] /\ n + 1 \in DOMAIN Files[u]
  BY FilingFacts, LocalFields, FilesAreApart DEF Batches, Orderly, Placed
<1>2. PICK l \in DOMAIN Files[u] : l = n + 1 /\ Current(u) = Files[u][l]
  BY <1>1
<1>3. up[u].pc \notin Rolling
  BY DEF Filing, Rolling
<1>4. /\ \A k \in DOMAIN Files[u] : k # l => PhaseAt(u, k)' = PhaseAt(u, k)
      /\ PhaseAt(u, l) = from /\ PhaseAt(u, l)' = to
  BY <1>2, <1>3, NothingRolledBack, SameOutcomes
<1>5. Ledger!Moves(Files[u][l], {from}, to)
  BY <1>4, PhaseMoves
<1> QED
  BY <1>2, <1>5

\* The file in hand and its phase.
LEMMA FilePhaseIs ==
    ASSUME Batches, NEW u \in Uploads, up[u].pc \in Filing
    PROVE  /\ Files[u][Len(up[u].results) + 1] = Current(u)
           /\ OwnerOf[Current(u)] = tenant /\ SizesOf[Current(u)] = SizeOf(Current(u))
           /\ up[u].pc = "reserve" => FilePhase(u) = "idle"
           /\ up[u].pc \in Holding => FilePhase(u) = "open"
           /\ up[u].pc = "undo" => FilePhase(u) =
                 IF "release" \in up[u].todo THEN "open" ELSE "released"
<1>1. up[u].i = Len(up[u].results) + 1 /\ Current(u) \in Attempts
  BY FilingFacts DEF Batches, Orderly, Placed
<1>2. Current(u) = Files[u][up[u].i]
  BY FilingFacts
<1>3. OwnerOf[Current(u)] = tenant /\ SizesOf[Current(u)] = SizeOf(Current(u))
  BY <1>1 DEF OwnerOf, SizesOf
<1> QED
  BY <1>1, <1>2, <1>3 DEF FilePhase, Holding

\* The steps that keep the file in hand in its phase.
LEMMA WithinPhase ==
    ASSUME Batches, NEW u \in Uploads, UploadStep(u), UNCHANGED ledgerVars,
           NEW pc \in Places \ Rolling, NEW i, NEW todo, NEW after,
           Becomes(u, pc, i, todo, after), up[u].pc \notin Rolling,
           Len(up[u].results) < Len(Files[u]) => FilePhase(u)' = FilePhase(u)
    PROVE  UNCHANGED Ledger!vars
<1>1. Advances(u)
  BY StepAdvances
<1>2. up'[u].results = up[u].results /\ up'[u].pc \notin Rolling
  BY DEF Becomes
<1> QED
  BY <1>1, <1>2, NothingRolledBack, LeavesLedger

LEMMA BeginStutters ==
    ASSUME Batches, NEW u \in Uploads, Begin(u)
    PROVE  UNCHANGED Ledger!vars
<1>1. PICK pc \in {"tooLarge", "reserve"} : Goto(u, pc)
  BY DEF Begin
<1>2. pc \in Places \ Rolling
  BY DEF Places, Filing, Emitting, Rolling
<1>3. Becomes(u, pc, up[u].i, up[u].todo, up[u].after)
  BY <1>1, <1>2, GotoBecomes DEF Batches
<1>4. up[u].pc = "start" /\ up'[u].pc \in {"tooLarge", "reserve"} /\ UNCHANGED ledgerVars
  BY <1>3 DEF Begin, At, Becomes
<1>5. FilePhase(u) = "idle" /\ FilePhase(u)' = "idle"
  BY <1>4 DEF FilePhase
<1>6. up[u].pc \notin Rolling
  BY <1>4 DEF Rolling
<1> QED
  BY <1>2, <1>3, <1>4, <1>5, <1>6, WithinPhase DEF UploadStep

\* From the reservation to the commit, and at the start of a compensation, the
\* reservation is held.
LEMMA HoldingStutters ==
    ASSUME Batches, NEW u \in Uploads, up[u].pc \in Holding, UploadStep(u),
           UNCHANGED ledgerVars, NEW pc \in Holding \cup {"undo"}, NEW todo, NEW after,
           Becomes(u, pc, up[u].i, todo, after), pc = "undo" => "release" \in todo
    PROVE  UNCHANGED Ledger!vars
<1>1. up[u].pc \in Filing /\ up[u].pc \notin Rolling /\ pc \in Places \ Rolling
  BY DEF Holding, Filing, Places, Rolling
<1>2. FilePhase(u) = "open"
  BY <1>1, FilePhaseIs
<1>3. up'[u].pc \in Holding \/ (up'[u].pc = "undo" /\ "release" \in up'[u].todo)
  BY DEF Becomes
<1>4. FilePhase(u)' = "open"
  BY <1>3 DEF FilePhase, Holding
<1> QED
  BY <1>1, <1>2, <1>4, WithinPhase

LEMMA LoopStutters ==
    ASSUME Batches, NEW u \in Uploads, FaultPoints \cap {"undo", "commitAnswer"} = {},
           \/ Put(u) \/ PutThrows(u) \/ SessionValid(u) \/ SessionExpired(u)
           \/ InsertDocument(u) \/ InsertDuplicate(u) \/ CommitThrows(u)
    PROVE  UNCHANGED Ledger!vars
<1>1. UploadStep(u) /\ up[u].pc \in Holding
  BY DEF UploadStep, Put, PutThrows, SessionValid, SessionExpired, InsertDocument,
         InsertDuplicate, CommitThrows, At, Holding
<1>2. UNCHANGED ledgerVars
  BY DEF Put, PutThrows, SessionValid, SessionExpired, InsertDocument, InsertDuplicate,
         CommitThrows, Throws
<1>3. CASE \E pc \in Holding : Goto(u, pc)
  <2>1. PICK pc \in Holding : Goto(u, pc)
    BY <1>3
  <2>2. Becomes(u, pc, up[u].i, up[u].todo, up[u].after)
    BY <2>1, GotoBecomes DEF Batches, Holding, Places, Filing
  <2>3. pc # "undo"
    BY DEF Holding
  <2> QED
    BY <1>1, <1>2, <2>2, <2>3, HoldingStutters
<1>4. CASE \E calls \in SUBSET Calls, after \in {"threw", "rollback", "duplicate"} :
              "release" \in calls /\ Undo(u, "undo", calls, after)
  <2>1. PICK calls \in SUBSET Calls, after \in {"threw", "rollback", "duplicate"} :
           "release" \in calls /\ Undo(u, "undo", calls, after)
    BY <1>4
  <2>2. Becomes(u, "undo", up[u].i, calls, after)
    BY <2>1, UndoBecomes DEF Batches, Places, Filing
  <2> QED
    BY <1>1, <1>2, <2>1, <2>2, HoldingStutters
<1>5. ASSUME PutThrows(u) \/ SessionExpired(u) \/ InsertDuplicate(u) \/ CommitThrows(u)
      PROVE  \E calls \in SUBSET Calls, after \in {"threw", "rollback", "duplicate"} :
                "release" \in calls /\ Undo(u, "undo", calls, after)
  <2>1. {"release", "deleteBlob"} \in SUBSET Calls
        /\ {"release", "deleteBlob", "deleteDocument"} \in SUBSET Calls
    BY DEF Calls
  <2> QED
    BY <1>5, <2>1 DEF PutThrows, SessionExpired, InsertDuplicate, CommitThrows
<1> QED
  BY <1>3, <1>4, <1>5 DEF Put, SessionValid, InsertDocument, Holding

\* Before the reservation there is nothing to hold; afterwards the row stays,
\* and the file in hand with it.
LEMMA CallThrowsStutters ==
    ASSUME Batches, NEW u \in Uploads, FaultPoints \cap {"undo", "commitAnswer"} = {},
           CallThrows(u)
    PROVE  UNCHANGED Ledger!vars
<1>1. /\ up[u].pc \in {"reserve", "validate", "insert", "enqueue"}
      /\ Goto(u, "threw") /\ UNCHANGED ledgerVars /\ UploadStep(u)
  BY DEF CallThrows, Uncaught, UploadStep
<1>2. Becomes(u, "threw", up[u].i, up[u].todo, up[u].after)
  BY <1>1, GotoBecomes DEF Batches, Places
<1>3. up[u].pc \notin Rolling /\ "threw" \in Places \ Rolling
  BY <1>1 DEF Rolling, Places
<1>4. CASE up[u].pc = "enqueue"
  <2>1. ~(Len(up[u].results) < Len(Files[u]))
    BY <1>4, EmissionFacts, FilesAreApart DEF Emitting
  <2> QED
    BY <1>1, <1>2, <1>3, <2>1, WithinPhase
<1>5. CASE up[u].pc \in {"reserve", "validate", "insert"}
  <2>1. up[u].pc \in Filing
    BY <1>5 DEF Filing
  <2>2. /\ Files[u][Len(up[u].results) + 1] = Current(u) /\ Current(u) = Files[u][up[u].i]
        /\ up[u].pc = "reserve" => FilePhase(u) = "idle"
        /\ up[u].pc # "reserve" => FilePhase(u) = "open"
    BY <1>5, <2>1, FilePhaseIs, FilingFacts DEF Holding
  <2>3. up'[u].pc = "threw" /\ up'[u].results = up[u].results /\ up'[u].after = up[u].after
    BY <1>2 DEF Becomes
  <2>4. UNCHANGED reservations
    BY <1>1 DEF ledgerVars
  <2>5. Tidy(u)
    BY <1>5 DEF Tidy, NeverThrew, At
  <2>6. up[u].after # "threw"
    BY <1>5, <2>1, FilingFacts DEF Undoing
  <2>7. Current(u) \in DOMAIN reservations <=> up[u].pc # "reserve"
    BY <1>5, <2>1, <2>2, <2>5, FilingFacts DEF FileAgrees, Holding
  <2>8. FilePhase(u)' = IF Current(u) \in DOMAIN reservations THEN "open" ELSE "idle"
    BY <2>2, <2>3, <2>4, <2>6 DEF FilePhase, Holding
  <2> QED
    BY <1>1, <1>2, <1>3, <2>2, <2>7, <2>8, WithinPhase
<1> QED
  BY <1>1, <1>4, <1>5

LEMMA EmissionStutters ==
    ASSUME Batches, NEW u \in Uploads, Emit(u) \/ EnqueueDocument(u) \/ AuditUpload(u)
    PROVE  UNCHANGED Ledger!vars
<1>1. up[u].pc \in {"emit", "enqueue", "audit"} /\ UNCHANGED ledgerVars /\ UploadStep(u)
  BY DEF Emit, EnqueueDocument, AuditUpload, At, UploadStep
<1>2. ~(Len(up[u].results) < Len(Files[u])) /\ up[u].pc \notin Rolling /\ up[u] \in Local
  BY <1>1, EmissionFacts, FilesAreApart DEF Emitting, Rolling, Batches
<1>3. up'[u].pc \notin Rolling /\ up'[u].results = up[u].results
  BY <1>2 DEF Emit, EnqueueDocument, AuditUpload, Goto, Local, Rolling, Batches
<1>4. Advances(u)
  BY <1>1, StepAdvances
<1> QED
  BY <1>1, <1>2, <1>3, <1>4, NothingRolledBack, LeavesLedger

\* A request that is rolling back holds no file in hand.
LEMMA RollingStutters ==
    ASSUME Batches, NEW u \in Uploads, Advances(u), up[u].pc \in Rolling, up'[u].pc \in Rolling,
           up'[u].results = up[u].results, UNCHANGED ledgerVars,
           \A id \in Attempts : RolledBack(u, id)' <=> RolledBack(u, id)
    PROVE  UNCHANGED Ledger!vars
<1>1. FilePhase(u) = "released" /\ FilePhase(u)' = "released"
  BY DEF FilePhase, Rolling, Holding
<1> QED
  BY <1>1, LeavesLedger

LEMMA RollbackStutters ==
    ASSUME Batches, NEW u \in Uploads, RollbackBatch(u)
    PROVE  UNCHANGED Ledger!vars
<1>1. UNCHANGED ledgerVars /\ up[u].pc = "rollback" /\ UploadStep(u)
  BY DEF RollbackBatch, At, UploadStep
<1>2. /\ up'[u].pc \in {"undoAccepted", "expired"} /\ up'[u].i = up[u].i
      /\ up'[u].results = up[u].results /\ up'[u].created = up[u].created
      /\ up'[u].pc = "undoAccepted" => "revert" \in up'[u].todo
  <2>1. up[u] \in Local /\ up \in [Uploads -> Local]
    BY DEF Batches
  <2> QED
    BY <2>1 DEF RollbackBatch, Undo, Goto, Local
<1>3. \A id \in Attempts : RolledBack(u, id)' <=> RolledBack(u, id)
  BY <1>1, <1>2 DEF RolledBack, At
<1>4. Advances(u)
  BY <1>1, StepAdvances
<1> QED
  BY <1>1, <1>2, <1>3, <1>4, RollingStutters DEF Rolling

LEMMA NextStutters ==
    ASSUME Batches, NEW u \in Uploads, Settled(u), up[u].after = "next"
    PROVE  UNCHANGED Ledger!vars
<1>1. /\ UNCHANGED ledgerVars /\ up[u].pc = "undoAccepted" /\ up[u].todo = {} /\ UploadStep(u)
      /\ up' = [up EXCEPT ![u].pc = "rollback", ![u].i = @ + 1]
  BY DEF Settled, UploadStep, Batches, Orderly, Undoing
<1>2. /\ up'[u].pc = "rollback" /\ up'[u].i = up[u].i + 1
      /\ up'[u].results = up[u].results /\ up'[u].created = up[u].created
  <2>1. up[u] \in Local /\ up \in [Uploads -> Local]
    BY DEF Batches
  <2> QED
    BY <1>1, <2>1 DEF Local
<1>3. up[u].i \in Nat /\ DOMAIN up[u].created \subseteq Nat
  BY LocalFields DEF Batches
<1>4. \A j \in DOMAIN up[u].created : j < up[u].i + 1 <=> j < up[u].i \/ j = up[u].i
  BY <1>3
<1>5. \A id \in Attempts : RolledBack(u, id)' <=> RolledBack(u, id)
  BY <1>1, <1>2, <1>4 DEF RolledBack, At
<1>6. Advances(u)
  BY <1>1, StepAdvances
<1> QED
  BY <1>1, <1>2, <1>5, <1>6, RollingStutters DEF Rolling

\* The rollback begins with the file in hand released and nothing taken back.
LEMMA ExpiryStutters ==
    ASSUME Batches, NEW u \in Uploads, Settled(u), up[u].after = "rollback"
    PROVE  UNCHANGED Ledger!vars
<1>1. /\ UNCHANGED ledgerVars /\ up[u].pc = "undo" /\ up[u].todo = {} /\ UploadStep(u)
      /\ up' = [up EXCEPT ![u].pc = "rollback", ![u].i = 1]
  BY DEF Settled, UploadStep, Batches, Orderly, Undoing
<1>2. up'[u].pc = "rollback" /\ up'[u].i = 1 /\ up'[u].results = up[u].results
      /\ up'[u].created = up[u].created
  <2>1. up[u] \in Local /\ up \in [Uploads -> Local]
    BY DEF Batches
  <2> QED
    BY <1>1, <2>1 DEF Local
<1>3. \A j \in DOMAIN up[u].created : ~(j < 1)
  BY LocalFields DEF Batches
<1>4. \A id \in Attempts : ~RolledBack(u, id) /\ ~RolledBack(u, id)'
  BY <1>1, <1>2, <1>3 DEF RolledBack, At
<1>5. FilePhase(u) = "released" /\ FilePhase(u)' = "released"
  BY <1>1, <1>2 DEF FilePhase, Holding
<1>6. Advances(u)
  BY <1>1, StepAdvances
<1> QED
  BY <1>1, <1>2, <1>4, <1>5, <1>6, LeavesLedger

LEMMA ThrewStutters ==
    ASSUME Batches, NEW u \in Uploads, FaultPoints \cap {"undo", "commitAnswer"} = {},
           Settled(u), up[u].after = "threw"
    PROVE  UNCHANGED Ledger!vars
<1>1. /\ UNCHANGED ledgerVars /\ up[u].pc = "undo" /\ up[u].todo = {} /\ UploadStep(u)
      /\ Goto(u, "threw")
  BY DEF Settled, UploadStep, Batches, Orderly, Undoing
<1>2. Becomes(u, "threw", up[u].i, {}, "threw")
  BY <1>1, GotoBecomes DEF Batches, Places
<1>3. up[u].pc \in Filing /\ up[u].pc \notin Rolling /\ "threw" \in Places \ Rolling
  BY <1>1 DEF Filing, Rolling, Places
<1>4. Tidy(u)
  BY <1>1 DEF Tidy, NeverThrew, At
<1>5. Current(u) \notin DOMAIN reservations
  BY <1>1, <1>3, <1>4, FilingFacts DEF FileAgrees, Holding
<1>6. FilePhase(u) = "released"
  BY <1>1 DEF FilePhase, Holding
<1>7. up'[u].pc = "threw" /\ up'[u].results = up[u].results /\ up'[u].after = "threw"
  BY <1>2 DEF Becomes
<1>8. Files[u][Len(up[u].results) + 1] = Current(u)
  BY <1>3, FilePhaseIs
<1>9. FilePhase(u)' = "released"
  BY <1>1, <1>5, <1>7, <1>8 DEF FilePhase, Holding, ledgerVars
<1> QED
  BY <1>1, <1>2, <1>3, <1>6, <1>9, WithinPhase

\* An outcome settles the phase of the file in hand; the next one is idle.
LEMMA OutcomePhases ==
    ASSUME Batches, NEW u \in Uploads, up[u].pc \in Filing, NEW result \in Results,
           Outcome(u, result)
    PROVE  \A k \in DOMAIN Files[u] :
              IF k = Len(up[u].results) + 1
              THEN /\ PhaseAt(u, k) = FilePhase(u) /\ Files[u][k] = Current(u)
                   /\ PhaseAt(u, k)' = CASE result = "accepted"  -> "committed"
                                         [] result = "duplicate" -> "released"
                                         [] result = "refused"   ->
                                              IF Accepted(Current(u)) THEN "refused" ELSE "idle"
              ELSE PhaseAt(u, k)' = PhaseAt(u, k)
<1> DEFINE n == Len(up[u].results)
<1>1. /\ up'[u].results = Append(up[u].results, result)
      /\ up'[u].pc \in {"emit", "reserve"} /\ up'[u].i \in Nat
      /\ n < Len(Files[u]) /\ up[u].i = n + 1
      /\ up'[u].pc = "emit" => n + 1 = Len(Files[u])
  BY OutcomeBecomes, FilesAreApart, LocalFields DEF Batches, Orderly, Placed
<1>2. /\ n \in Nat /\ Len(up'[u].results) = n + 1 /\ up'[u].results[n + 1] = result
      /\ \A k \in 1 .. n : up'[u].results[k] = up[u].results[k]
      /\ DOMAIN Files[u] = 1 .. Len(Files[u]) /\ Len(Files[u]) \in Nat
  BY <1>1, LocalFields, FilesAreApart DEF Batches
<1>3. up[u].pc \notin Rolling /\ up'[u].pc \notin Rolling
  BY <1>1 DEF Filing, Rolling
<1>4. \A id \in Attempts : ~RolledBack(u, id) /\ ~RolledBack(u, id)'
  BY <1>3 DEF RolledBack, Rolling
<1>5. \A k \in DOMAIN Files[u] : Files[u][k] \in Attempts
  BY FilesAreApart
<1>6. ASSUME NEW k \in DOMAIN Files[u], k = n + 1
      PROVE  /\ PhaseAt(u, k) = FilePhase(u) /\ Files[u][k] = Current(u)
             /\ PhaseAt(u, k)' = CASE result = "accepted"  -> "committed"
                                   [] result = "duplicate" -> "released"
                                   [] result = "refused"   ->
                                        IF Accepted(Current(u)) THEN "refused" ELSE "idle"
  <2>1. ~(k > n + 1) /\ ~(k > n + 1 + 1) /\ k # n + 1 + 1
    BY <1>2, <1>6
  <2>2. Files[u][k] = Current(u)
    BY <1>6, FilePhaseIs
  <2>3. PhaseAt(u, k) = FilePhase(u)
    BY <1>6, <2>1 DEF PhaseAt
  <2>4. PhaseAt(u, k)' = IF result = "refused"
                         THEN IF Accepted(Current(u)) THEN "refused" ELSE "idle"
                         ELSE IF result = "duplicate" THEN "released" ELSE "committed"
    <3>1. /\ ~(k > Len(up'[u].results) + 1) /\ k # Len(up'[u].results) + 1
          /\ up'[u].results[k] = result /\ ~RolledBack(u, Files[u][k])'
      BY <1>2, <1>4, <1>5, <1>6, <2>1
    <3> QED
      BY <2>2, <3>1 DEF PhaseAt
  <2> QED
    BY <2>2, <2>3, <2>4 DEF Results
<1>7. ASSUME NEW k \in DOMAIN Files[u], k # n + 1
      PROVE  PhaseAt(u, k)' = PhaseAt(u, k)
  <2>1. CASE k > n + 1 + 1
    BY <1>2, <2>1 DEF PhaseAt
  <2>2. CASE k = n + 1 + 1
    <3>1. up'[u].pc = "reserve"
      BY <1>1, <1>2, <2>2
    <3>2. FilePhase(u)' = "idle"
      BY <3>1 DEF FilePhase
    <3>3. k > n + 1 /\ ~(k > Len(up'[u].results) + 1) /\ k = Len(up'[u].results) + 1
      BY <1>2, <2>2
    <3> QED
      BY <3>2, <3>3 DEF PhaseAt
  <2>3. CASE k <= n
    <3>1. /\ ~(k > Len(up'[u].results) + 1) /\ k # Len(up'[u].results) + 1 /\ ~(k > n + 1)
          /\ up'[u].results[k] = up[u].results[k]
          /\ ~RolledBack(u, Files[u][k])' /\ ~RolledBack(u, Files[u][k])
      BY <1>2, <1>4, <1>5, <2>3
    <3> QED
      BY <1>7, <3>1 DEF PhaseAt
  <2>4. k <= n \/ k = n + 1 \/ k = n + 1 + 1 \/ k > n + 1 + 1
    <3>1. k \in Nat /\ n \in Nat
      BY <1>2
    <3> HIDE DEF n
    <3> QED
      BY <3>1
  <2> QED
    BY <1>7, <2>1, <2>2, <2>3, <2>4
<1> QED
  BY <1>6, <1>7

LEMMA DuplicateStutters ==
    ASSUME Batches, NEW u \in Uploads, Settled(u), up[u].after = "duplicate"
    PROVE  UNCHANGED Ledger!vars
<1>1. /\ UNCHANGED ledgerVars /\ up[u].pc = "undo" /\ up[u].todo = {} /\ UploadStep(u)
      /\ Outcome(u, "duplicate")
  BY DEF Settled, UploadStep, Batches, Orderly, Undoing
<1>2. up[u].pc \in Filing /\ Advances(u)
  BY <1>1, StepAdvances DEF Filing
<1>3. FilePhase(u) = "released"
  BY <1>1 DEF FilePhase, Holding
<1>4. \A k \in DOMAIN Files[u] : PhaseAt(u, k)' = PhaseAt(u, k)
  BY <1>1, <1>2, <1>3, OutcomePhases DEF Results
<1>5. [id \in Attempts |-> PhaseOf(id)]' = [id \in Attempts |-> PhaseOf(id)]
  BY <1>2, <1>4, PhasesStay
<1> QED
  BY <1>1, <1>5 DEF Ledger!vars, ledgerVars

\* An outcome with which the file in hand leaves the phase it was in.
LEMMA OutcomeMoves ==
    ASSUME Batches, NEW u \in Uploads, up[u].pc \in Filing, UploadStep(u),
           NEW result \in {"accepted", "refused"}, Outcome(u, result),
           result = "refused" => Accepted(Current(u)),
           NEW from, FilePhase(u) = from
    PROVE  /\ Ledger!Moves(Current(u), {from}, IF result = "accepted" THEN "committed" ELSE "refused")
           /\ Current(u) \in Attempts
<1>1. Advances(u) /\ result \in Results
  BY StepAdvances DEF Results
<1>2. PICK l \in DOMAIN Files[u] : l = Len(up[u].results) + 1
  BY FilesAreApart, LocalFields DEF Batches, Orderly, Placed
<1>3. /\ \A k \in DOMAIN Files[u] : k # l => PhaseAt(u, k)' = PhaseAt(u, k)
      /\ PhaseAt(u, l) = from /\ Files[u][l] = Current(u)
      /\ PhaseAt(u, l)' = IF result = "accepted" THEN "committed" ELSE "refused"
  BY <1>1, <1>2, OutcomePhases
<1> QED
  BY <1>1, <1>3, PhaseMoves

LEMMA ReserveReserves ==
    ASSUME Batches, NEW u \in Uploads, Reserve(u), now \in 0 .. MaxTime
    PROVE  Ledger!Next
<1>1. At(u, "reserve") /\ Goto(u, "put") /\ TryReserve(Current(u), tenant, SizeOf(Current(u)), now)
  BY DEF Reserve
<1>2. up[u].pc \in Filing /\ Advances(u) /\ up[u].pc = "reserve"
  BY <1>1, StepAdvances DEF At, Filing, UploadStep
<1>3. Becomes(u, "put", up[u].i, up[u].todo, up[u].after)
  BY <1>1, GotoBecomes DEF Batches, Places, Filing
<1>4. up'[u].pc = "put" /\ up'[u].results = up[u].results
  BY <1>3 DEF Becomes
<1>5. FilePhase(u) = "idle" /\ FilePhase(u)' = "open"
  BY <1>2, <1>4, FilePhaseIs DEF FilePhase, Holding
<1>6. Ledger!Moves(Current(u), {"idle"}, "open")
  BY <1>2, <1>4, <1>5, FileMoves DEF Rolling
<1>7. /\ OwnerOf[Current(u)] = tenant /\ SizesOf[Current(u)] = SizeOf(Current(u))
      /\ Current(u) \in Attempts
  BY <1>2, FilePhaseIs, FilingFacts
<1>8. Ledger!TryReserve(Current(u), tenant, SizeOf(Current(u)), now)
  BY <1>1, SameFits DEF TryReserve, Ledger!TryReserve, Insert, Ledger!Insert
<1>9. now \in Ledger!ClockReadings
  BY ClockAssumption DEF Ledger!ClockReadings
<1>10. Ledger!Reserve(Current(u), now)
  BY <1>6, <1>7, <1>8 DEF Ledger!Reserve
<1> QED
  BY <1>7, <1>9, <1>10 DEF Ledger!Next

\* A file refused for its type or size never asks for capacity.
LEMMA RefuseRefuses ==
    ASSUME Batches, NEW u \in Uploads, Refuse(u), now \in 0 .. MaxTime
    PROVE  [Ledger!Next]_(Ledger!vars)
<1>1. /\ At(u, "reserve") /\ Outcome(u, "refused") /\ UNCHANGED ledgerVars
      /\ ~Admissible(Current(u)) /\ UploadStep(u)
  BY DEF Refuse, UploadStep
<1>2. up[u].pc \in Filing /\ Advances(u) /\ up[u].pc = "reserve"
  BY <1>1, StepAdvances DEF At, Filing
<1>3. /\ OwnerOf[Current(u)] = tenant /\ SizesOf[Current(u)] = SizeOf(Current(u))
      /\ FilePhase(u) = "idle"
  BY <1>2, FilePhaseIs
<1>4. CASE Accepted(Current(u))
  <2>1. Ledger!Moves(Current(u), {"idle"}, "refused") /\ Current(u) \in Attempts
    BY <1>1, <1>2, <1>3, <1>4, OutcomeMoves
  <2>2. ~Ledger!Fits(tenant, SizeOf(Current(u)), now)
    BY <1>1, <1>4, SameFits DEF Admissible
  <2>3. Ledger!Refuse(Current(u), now)
    BY <1>1, <1>3, <2>1, <2>2 DEF Ledger!Refuse, ledgerVars, Ledger!ledgerVars
  <2>4. now \in Ledger!ClockReadings
    BY ClockAssumption DEF Ledger!ClockReadings
  <2> QED
    BY <2>1, <2>3, <2>4 DEF Ledger!Next
<1>5. CASE ~Accepted(Current(u))
  <2>1. \A k \in DOMAIN Files[u] : PhaseAt(u, k)' = PhaseAt(u, k)
    BY <1>1, <1>2, <1>3, <1>5, OutcomePhases DEF Results
  <2>2. [id \in Attempts |-> PhaseOf(id)]' = [id \in Attempts |-> PhaseOf(id)]
    BY <1>2, <2>1, PhasesStay
  <2> QED
    BY <1>1, <2>2 DEF Ledger!vars, ledgerVars
<1> QED
  BY <1>4, <1>5

LEMMA CommitCommits ==
    ASSUME Batches, NEW u \in Uploads, Commit(u)
    PROVE  Ledger!Next
<1>1. /\ At(u, "commit") /\ Outcome(u, "accepted") /\ UploadStep(u)
      /\ CommitReservation(Current(u), tenant, SizeOf(Current(u)))
  BY DEF Commit, UploadStep
<1>2. up[u].pc \in Filing /\ up[u].pc \in Holding
  BY <1>1 DEF At, Filing, Holding
<1>3. /\ OwnerOf[Current(u)] = tenant /\ SizesOf[Current(u)] = SizeOf(Current(u))
      /\ FilePhase(u) = "open"
  BY <1>2, FilePhaseIs
<1>4. Ledger!Moves(Current(u), {"open"}, "committed") /\ Current(u) \in Attempts
  BY <1>1, <1>2, <1>3, OutcomeMoves
<1>5. Ledger!CommitReservation(Current(u), tenant, SizeOf(Current(u)))
  BY <1>1 DEF CommitReservation, Ledger!CommitReservation, Delete, DeleteAll,
              Ledger!Delete, Ledger!DeleteAll
<1>6. Ledger!Commit(Current(u))
  BY <1>3, <1>4, <1>5 DEF Ledger!Commit
<1> QED
  BY <1>4, <1>6 DEF Ledger!Next

\* A compensating call for the file in hand releases the reservation, or
\* leaves it as it is.
LEMMA SettleReleases ==
    ASSUME Batches, NEW u \in Uploads, At(u, "undo"), NEW call \in up[u].todo, Settle(u, call),
           FaultPoints \cap {"undo", "commitAnswer"} = {}
    PROVE  [Ledger!Next]_(Ledger!vars)
<1>1. /\ up[u].pc = "undo" /\ UploadStep(u) /\ Compensate(Current(u), call)
      /\ up' = [up EXCEPT ![u].todo = @ \ {call}]
  BY DEF Settle, At, UploadStep, Throws
<1>2. up[u].pc \in Filing /\ up[u].pc \notin Rolling
  BY <1>1 DEF Filing, Rolling
<1>3. call \in Calls /\ call # "revert"
  BY <1>1, <1>2, FilingFacts DEF Undoing
<1>4. /\ up'[u].pc = "undo" /\ up'[u].todo = up[u].todo \ {call}
      /\ up'[u].results = up[u].results /\ Becomes(u, "undo", up[u].i, up[u].todo \ {call}, up[u].after)
  <2>1. up[u] \in Local /\ up \in [Uploads -> Local] /\ up[u].todo \ {call} \in SUBSET Calls
    BY LocalFields DEF Batches
  <2>2. up' \in [Uploads -> Local]
    BY <1>1, <2>1 DEF Local
  <2> QED
    BY <1>1, <2>1, <2>2 DEF Local, Becomes
<1>5. /\ FilePhase(u) = IF "release" \in up[u].todo THEN "open" ELSE "released"
      /\ FilePhase(u)' = IF "release" \in up[u].todo \ {call} THEN "open" ELSE "released"
  BY <1>1, <1>4 DEF FilePhase, Holding
<1>6. CASE call = "release"
  <2>1. Ledger!Moves(Current(u), {"open"}, "released") /\ Current(u) \in Attempts
    <3>1. Advances(u)
      BY <1>1, StepAdvances
    <3>2. FilePhase(u) = "open" /\ FilePhase(u)' = "released"
      BY <1>5, <1>6
    <3>3. up'[u].pc \notin Rolling
      BY <1>4 DEF Rolling
    <3>4. Ledger!Moves(Current(u), {"open"}, "released")
      BY <1>2, <1>4, <3>1, <3>2, <3>3, FileMoves
    <3> QED
      BY <1>2, <3>4, FilingFacts
  <2>2. Ledger!ReleaseReservation(Current(u))
    BY <1>1, <1>6 DEF Compensate, ReleaseReservation, Ledger!ReleaseReservation, Delete,
                      DeleteAll, Ledger!Delete, Ledger!DeleteAll
  <2> QED
    BY <2>1, <2>2 DEF Ledger!Next, Ledger!Release
<1>7. CASE call # "release"
  <2>1. UNCHANGED ledgerVars
    BY <1>1, <1>3, <1>7 DEF Compensate, Calls
  <2>2. FilePhase(u)' = FilePhase(u)
    BY <1>5, <1>7
  <2>3. "undo" \in Places \ Rolling
    BY DEF Places, Filing, Rolling
  <2> QED
    BY <1>1, <1>2, <1>4, <2>1, <2>2, <2>3, WithinPhase
<1> QED
  BY <1>6, <1>7

\* The rollback takes each accepted file's bytes back once; the counter holds
\* them, as the protocol's theorem says.
LEMMA SettleReverts ==
    ASSUME Batches, NEW u \in Uploads, At(u, "undoAccepted"), NEW call \in up[u].todo,
           Settle(u, call), FaultPoints \cap {"undo", "commitAnswer"} = {},
           Ledger!TypeOK, Ledger!LedgerBalance
    PROVE  [Ledger!Next]_(Ledger!vars)
<1>0. PICK id \in Attempts : id = Current(u)
  <2>1. up[u].i \in DOMAIN up[u].created
    BY LocalFields DEF Batches, Orderly, Placed, At
  <2> QED
    BY <2>1, LocalFields DEF Batches, Current, At
<1>1. /\ up[u].pc = "undoAccepted" /\ UploadStep(u) /\ Compensate(id, call)
      /\ up' = [up EXCEPT ![u].todo = @ \ {call}] /\ Advances(u)
  BY <1>0, StepAdvances DEF Settle, At, UploadStep, Throws
<1>2. /\ up[u].i \in DOMAIN up[u].created /\ id = up[u].created[up[u].i]
      /\ up[u].i \in Nat /\ DOMAIN up[u].created \subseteq Nat
      /\ call \in Calls /\ call # "release" /\ Collected(u)
  BY <1>0, <1>1, LocalFields DEF Batches, Orderly, Placed, Undoing, Current
<1>3. /\ up'[u].pc = "undoAccepted" /\ up'[u].todo = up[u].todo \ {call}
      /\ up'[u].results = up[u].results /\ up'[u].created = up[u].created
      /\ up'[u].i = up[u].i
  <2>1. up[u] \in Local /\ up \in [Uploads -> Local]
    BY DEF Batches
  <2> QED
    BY <1>1, <2>1 DEF Local
<1>4. CASE call # "revert"
  <2>1. UNCHANGED ledgerVars
    BY <1>1, <1>2, <1>4 DEF Compensate, Calls
  <2>2. \A f \in Attempts : RolledBack(u, f)' <=> RolledBack(u, f)
    BY <1>1, <1>3, <1>4 DEF RolledBack, At
  <2> QED
    BY <1>1, <1>3, <2>1, <2>2, RollingStutters DEF Rolling
<1>5. CASE call = "revert"
  <2>1. PICK k \in DOMAIN Files[u] : Files[u][k] = id /\ k \in DOMAIN up[u].results
                                     /\ up[u].results[k] = "accepted"
    BY <1>2, FilesAreApart, LocalFields DEF Batches, Orderly, Collected
  <2>2. ~RolledBack(u, id) /\ RolledBack(u, id)'
    <3>1. \A j \in DOMAIN up[u].created : up[u].created[j] = id => j = up[u].i
      BY <1>2 DEF Collected
    <3>2. ~(up[u].i < up[u].i) /\ "revert" \in up[u].todo
      BY <1>2, <1>5
    <3>3. ~RolledBack(u, id)
      BY <3>1, <3>2 DEF RolledBack
    <3>4. RolledBack(u, id)'
      BY <1>2, <1>3, <1>5 DEF RolledBack, At
    <3> QED
      BY <3>3, <3>4
  <2>3. \A f \in Attempts : f # id => (RolledBack(u, f)' <=> RolledBack(u, f))
    BY <1>1, <1>2, <1>3 DEF RolledBack, At
  <2>4. /\ Len(up[u].results) \in Nat /\ k \in 1 .. Len(up[u].results)
        /\ ~(k > Len(up[u].results) + 1) /\ k # Len(up[u].results) + 1
    BY <2>1, LocalFields DEF Batches
  <2>5. PhaseAt(u, k) = "committed" /\ PhaseAt(u, k)' = "reverted"
    <3>1. ~RolledBack(u, Files[u][k]) /\ RolledBack(u, Files[u][k])'
      BY <2>1, <2>2
    <3>2. up'[u].results[k] = "accepted" /\ Len(up'[u].results) = Len(up[u].results)
      BY <1>3, <2>1
    <3> QED
      BY <2>1, <2>4, <3>1, <3>2 DEF PhaseAt
  <2>6. FilePhase(u) = "released" /\ FilePhase(u)' = "released"
    BY <1>1, <1>3 DEF FilePhase, Holding
  <2>7. ASSUME NEW l \in DOMAIN Files[u], l # k PROVE PhaseAt(u, l)' = PhaseAt(u, l)
    <3>1. Files[u][l] # id /\ Files[u][l] \in Attempts
      BY <2>1, <2>7, FilesAreApart
    <3> QED
      BY <1>3, <2>3, <2>6, <3>1 DEF PhaseAt
  <2>8. Ledger!Moves(id, {"committed"}, "reverted") /\ id \in Attempts
    <3>1. Ledger!Moves(Files[u][k], {"committed"}, "reverted") /\ Files[u][k] \in Attempts
      BY <1>1, <2>5, <2>7, PhaseMoves
    <3> QED
      BY <2>1, <3>1
  <2>9. OwnerOf[id] = tenant /\ SizesOf[id] = SizeOf(id)
    BY <2>8 DEF OwnerOf, SizesOf
  <2>10. Debitable(tenant, SizeOf(id))
    <3>1. Ledger!DebitNeverThrows
      BY Ledger!DebitsCovered, LedgerAssumptions
    <3>2. PhaseOf(id) = "committed"
      BY <2>8 DEF Ledger!Moves
    <3> QED
      BY <2>8, <2>9, <3>1, <3>2 DEF Ledger!DebitNeverThrows, Ledger!Debitable, Debitable
  <2>11. RevertCommitReservation(id, tenant, SizeOf(id))
    BY <1>1, <1>5, <2>10 DEF Compensate
  <2>12. Ledger!RevertCommitReservation(id, tenant, SizeOf(id))
    BY <2>11 DEF RevertCommitReservation, Ledger!RevertCommitReservation, Debitable,
       Ledger!Debitable, Debit, Ledger!Debit, Delete, DeleteAll, Ledger!Delete, Ledger!DeleteAll
  <2>13. Ledger!Revert(id)
    BY <2>8, <2>9, <2>12 DEF Ledger!Revert
  <2> QED
    BY <2>8, <2>13 DEF Ledger!Next
<1> QED
  BY <1>4, <1>5

\* A step of a request is a step of the protocol, or none.
LEMMA StepFollowsProtocol ==
    ASSUME Batches, Ledger!TypeOK, Ledger!LedgerBalance, now \in 0 .. MaxTime,
           FaultPoints \cap {"undo", "commitAnswer"} = {}, NEW u \in Uploads, UploadStep(u)
    PROVE  [Ledger!Next]_(Ledger!vars)
<1>1. ASSUME NEW call \in up[u].todo, Settle(u, call) PROVE [Ledger!Next]_(Ledger!vars)
  <2>1. At(u, "undo") \/ At(u, "undoAccepted")
    BY DEF Batches, Orderly, Undoing, At
  <2> QED
    BY <1>1, <2>1, SettleReleases, SettleReverts
<1>2. CASE Settled(u)
  <2>1. up[u].after \in {"threw", "rollback", "duplicate", "next"}
    BY <1>2 DEF Settled, Batches, Orderly, Undoing
  <2> QED
    BY <1>2, <2>1, ThrewStutters, ExpiryStutters, DuplicateStutters, NextStutters
<1>3. CASE Put(u) \/ PutThrows(u) \/ SessionValid(u) \/ SessionExpired(u)
           \/ InsertDocument(u) \/ InsertDuplicate(u) \/ CommitThrows(u)
  BY <1>3, LoopStutters
<1>4. CASE Begin(u) \/ CallThrows(u) \/ RollbackBatch(u)
           \/ Emit(u) \/ EnqueueDocument(u) \/ AuditUpload(u)
  BY <1>4, BeginStutters, CallThrowsStutters, RollbackStutters, EmissionStutters
<1>5. CASE Reserve(u) \/ Refuse(u) \/ Commit(u)
  BY <1>5, ReserveReserves, RefuseRefuses, CommitCommits
<1> QED
  BY <1>1, <1>2, <1>3, <1>4, <1>5 DEF UploadStep

\* What the requests and the protocol know together.
Together == Batches /\ Ledger!TypeOK /\ Ledger!Bookkeeping /\ Ledger!LedgerBalance
               /\ now \in 0 .. MaxTime

LEMMA ProtocolInit ==
    ASSUME Seeded = {}, Init
    PROVE  Ledger!Init
<1>1. ASSUME NEW id \in Attempts PROVE PhaseOf(id) = "idle"
  <2>1. PICK u \in Uploads : \E k \in DOMAIN Files[u] : Files[u][k] = id
    BY DEF Attempts, FileIds
  <2>2. PICK k \in DOMAIN Files[u] : Files[u][k] = id
    BY <2>1
  <2>3. PhaseOf(id) = PhaseAt(u, k)
    BY <2>2, BatchesInit, PhasesAre DEF Batches, Phases
  <2>4. up[u].results = <<>> /\ up[u].pc = "start"
    BY DEF Init, UploadInit
  <2>5. k \in Nat \ {0} /\ Len(up[u].results) = 0
    BY <2>4, FilesAreApart
  <2>6. k > 0 + 1 \/ k = 0 + 1
    BY <2>5
  <2>7. FilePhase(u) = "idle"
    BY <2>4 DEF FilePhase
  <2> QED
    BY <2>3, <2>5, <2>6, <2>7 DEF PhaseAt
<1>2. Ledger!LedgerInit
  <2>1. StoredBytes(Seeded) = 0
    BY TotalEmpty DEF StoredBytes
  <2> QED
    BY <2>1 DEF Init, StoreInit, LedgerInit, Ledger!LedgerInit, EmptyTable, Ledger!EmptyTable
<1> QED
  BY <1>1, <1>2 DEF Ledger!Init

LEMMA ProtocolStep ==
    ASSUME FaultPoints \cap {"undo", "commitAnswer"} = {}, Together, [Next]_vars
    PROVE  [Ledger!Next]_(Ledger!vars) /\ (now \in 0 .. MaxTime)'
<1>1. ASSUME NEW u \in Uploads, UploadStep(u)
      PROVE  [Ledger!Next]_(Ledger!vars) /\ (now \in 0 .. MaxTime)'
  <2>1. [Ledger!Next]_(Ledger!vars)
    BY <1>1, StepFollowsProtocol DEF Together
  <2>2. now' = now
    <3> USE DEF ledgerVars
    <3>1. CASE \E call \in up[u].todo : Settle(u, call)
      <4>1. PICK call \in up[u].todo : Settle(u, call)
        BY <3>1
      <4>2. call \in Calls
        BY LocalFields DEF Together, Batches
      <4> QED
        BY <4>1, <4>2 DEF Settle, Compensate, Calls, ReleaseReservation, RevertCommitReservation
    <3>2. CASE Reserve(u) \/ Commit(u) \/ CommitThrows(u) \/ CallThrows(u) \/ Settled(u)
      BY <3>2 DEF Reserve, TryReserve, Commit, CommitThrows, CommitReservation, CallThrows, Settled
    <3>3. CASE Begin(u) \/ Refuse(u) \/ Put(u) \/ PutThrows(u) \/ SessionValid(u)
               \/ SessionExpired(u) \/ InsertDocument(u) \/ InsertDuplicate(u)
      BY <3>3 DEF Begin, Refuse, Put, PutThrows, SessionValid, SessionExpired, InsertDocument,
                  InsertDuplicate
    <3>4. CASE RollbackBatch(u) \/ Emit(u) \/ EnqueueDocument(u) \/ AuditUpload(u)
      BY <3>4 DEF RollbackBatch, Emit, EnqueueDocument, AuditUpload
    <3> QED
      BY <1>1, <3>1, <3>2, <3>3, <3>4 DEF UploadStep
  <2> QED
    BY <2>1, <2>2 DEF Together
<1>2. CASE Elapse
  <2>1. /\ now < MaxTime /\ now' = now + 1 /\ UNCHANGED <<used, reservations, reversals, up>>
    BY <1>2 DEF Elapse, Tick
  <2>2. ASSUME NEW id \in Attempts PROVE PhaseOf(id)' = PhaseOf(id)
    BY <2>1 DEF PhaseOf, RolledBack, At
  <2>3. now \in Nat /\ now < MaxTime + TTL
    BY <2>1, ClockAssumption DEF Together
  <2>4. Ledger!Elapse
    BY <2>1, <2>2, <2>3 DEF Ledger!Elapse, Ledger!Tick
  <2> QED
    BY <2>1, <2>3, <2>4, ClockAssumption DEF Ledger!Next, Together
<1>3. CASE UNCHANGED vars
  <2>1. UNCHANGED <<used, reservations, reversals, now, up>>
    BY <1>3 DEF vars, ledgerVars
  <2>2. ASSUME NEW id \in Attempts PROVE PhaseOf(id)' = PhaseOf(id)
    BY <2>1 DEF PhaseOf, RolledBack, At
  <2> QED
    BY <2>1, <2>2 DEF Ledger!vars, Together
<1> QED
  BY <1>1, <1>2, <1>3 DEF Next, UploadNext

LEMMA TogetherInit ==
    ASSUME Seeded = {}, Init
    PROVE  Together
<1>1. now \in 0 .. MaxTime
  BY ClockAssumption DEF Init, StoreInit, LedgerInit
<1> QED
  BY <1>1, BatchesInit, ProtocolInit, LedgerAssumptions,
     Ledger!TypingInit, Ledger!BookkeepingInit, Ledger!BalanceInit DEF Together

LEMMA TogetherStep ==
    ASSUME FaultPoints \cap {"undo", "commitAnswer"} = {}, Together, [Next]_vars
    PROVE  Together'
<1>1. [Ledger!Next]_(Ledger!vars) /\ (now \in 0 .. MaxTime)'
  BY ProtocolStep
<1>2. Batches'
  BY BatchesStep DEF Together
<1>3. Ledger!TypeOK'
  BY <1>1, Ledger!TypingStep, LedgerAssumptions DEF Together
<1>4. Ledger!Bookkeeping'
  BY <1>1, Ledger!BookkeepingStep, LedgerAssumptions DEF Together
<1>5. Ledger!LedgerBalance'
  BY <1>1, Ledger!BalanceStep, LedgerAssumptions DEF Together
<1> QED
  BY <1>1, <1>2, <1>3, <1>4, <1>5 DEF Together

\* The protocol of the proofs is the one the runs check.
LEMMA SameProtocol ==
    /\ Ledger!Init => Protocol!Init
    /\ [Ledger!Next]_(Ledger!vars) => [Protocol!Next]_(Protocol!vars)
<1> USE DEF Ledger!Moves, Protocol!Moves, Ledger!ledgerVars, Protocol!ledgerVars,
            Ledger!Fits, Protocol!Fits, Ledger!Outstanding, Protocol!Outstanding,
            Ledger!LiveIds, Protocol!LiveIds, Ledger!TotalBytes, Protocol!TotalBytes,
            Ledger!Units, Protocol!Units, Ledger!Cardinality, Protocol!Cardinality,
            Ledger!Insert, Protocol!Insert, Ledger!Delete, Protocol!Delete,
            Ledger!DeleteAll, Protocol!DeleteAll, Ledger!Debitable, Protocol!Debitable,
            Ledger!Debit, Protocol!Debit
<1>1. Ledger!Init => Protocol!Init
  BY DEF Ledger!Init, Protocol!Init, Ledger!LedgerInit, Protocol!LedgerInit,
         Ledger!EmptyTable, Protocol!EmptyTable
<1>2. ASSUME NEW id \in Attempts, NEW at, Ledger!Reserve(id, at) PROVE Protocol!Reserve(id, at)
  BY <1>2 DEF Ledger!Reserve, Protocol!Reserve, Ledger!TryReserve, Protocol!TryReserve
<1>3. ASSUME NEW id \in Attempts, NEW at, Ledger!Refuse(id, at) PROVE Protocol!Refuse(id, at)
  BY <1>3 DEF Ledger!Refuse, Protocol!Refuse
<1>4. ASSUME NEW id \in Attempts, Ledger!Commit(id) PROVE Protocol!Commit(id)
  BY <1>4 DEF Ledger!Commit, Protocol!Commit,
              Ledger!CommitReservation, Protocol!CommitReservation
<1>5. ASSUME NEW id \in Attempts, Ledger!Release(id) PROVE Protocol!Release(id)
  BY <1>5 DEF Ledger!Release, Protocol!Release,
              Ledger!ReleaseReservation, Protocol!ReleaseReservation
<1>6. ASSUME NEW id \in Attempts, Ledger!Abandon(id) PROVE Protocol!Abandon(id)
  BY <1>6 DEF Ledger!Abandon, Protocol!Abandon
<1>7. ASSUME NEW id \in Attempts, Ledger!Revert(id) PROVE Protocol!Revert(id)
  BY <1>7 DEF Ledger!Revert, Protocol!Revert,
              Ledger!RevertCommitReservation, Protocol!RevertCommitReservation
<1>8. ASSUME NEW id \in Attempts, Ledger!DebitDocument(id) PROVE Protocol!DebitDocument(id)
  BY <1>8 DEF Ledger!DebitDocument, Protocol!DebitDocument,
              Ledger!RevertCommittedDocumentQuota, Protocol!RevertCommittedDocumentQuota,
              Ledger!AlreadyReversed, Protocol!AlreadyReversed
<1>9. Ledger!Sweep => Protocol!Sweep
  BY DEF Ledger!Sweep, Protocol!Sweep, Ledger!SweepExpiredReservations,
         Protocol!SweepExpiredReservations, Ledger!ExpiredIds, Protocol!ExpiredIds
<1>10. Ledger!Elapse => Protocol!Elapse
  BY DEF Ledger!Elapse, Protocol!Elapse, Ledger!Tick, Protocol!Tick
<1>11. Ledger!ClockReadings = Protocol!ClockReadings
  BY DEF Ledger!ClockReadings, Protocol!ClockReadings
<1>12. UNCHANGED Ledger!vars => UNCHANGED Protocol!vars
  BY DEF Ledger!vars, Protocol!vars
<1> QED
  BY <1>1, <1>2, <1>3, <1>4, <1>5, <1>6, <1>7, <1>8, <1>9, <1>10, <1>11, <1>12
  DEF Ledger!Next, Protocol!Next

\* Every request uses its reservations as the protocol allows, whichever other
\* requests run and whatever throws before a compensation: it commits what it
\* holds, releases or commits once, and reverts only what it has committed.
\* The stores are empty at first, no compensation throws and no commit's
\* answer is lost (uploadSingleFile and rollbackBatch look at neither).
THEOREM FollowsQuotaProtocolHolds ==
    ASSUME FaultPoints \cap {"undo", "commitAnswer"} = {}, Seeded = {}
    PROVE  Spec => FollowsQuotaProtocol
<1>1. Init => Together /\ Protocol!Init
  BY TogetherInit, ProtocolInit, SameProtocol
<1>2. Together /\ [Next]_vars => Together' /\ [Protocol!Next]_(Protocol!vars)
  BY TogetherStep, ProtocolStep, SameProtocol
<1> QED
  BY <1>1, <1>2, PTL DEF Spec, FollowsQuotaProtocol, Protocol!Spec

\* The counter of the tenant is exactly the bytes of the files that requests
\* have accepted and not rolled back, at every moment.
THEOREM CounterIsTheAcceptedBytes ==
    ASSUME FaultPoints \cap {"undo", "commitAnswer"} = {}, Seeded = {}
    PROVE  Spec => []Ledger!LedgerBalance
<1>1. Init => Together
  BY TogetherInit
<1>2. Together /\ [Next]_vars => Together'
  BY TogetherStep
<1>3. Together => Ledger!LedgerBalance
  BY DEF Together
<1> QED
  BY <1>1, <1>2, <1>3, PTL DEF Spec
=============================================================================
