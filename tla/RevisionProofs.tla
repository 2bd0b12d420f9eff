--------------------------- MODULE RevisionProofs ---------------------------
(***************************************************************************)
(* Theorems about concurrent revisions, for any number of documents and    *)
(* requests, any contents and sizes, and any calls that throw.             *)
(*                                                                         *)
(* The argument: a document points at its newest version because an insert *)
(* numbers its version above all others, and because a rollback restores   *)
(* a receipt.  What makes the receipt right is not that nothing happened   *)
(* since: it is that every version below the one rolled back is at most    *)
(* the receipt's (ReceiptsHold), which later inserts, being above it, and  *)
(* rollbacks of other versions cannot spoil.                               *)
(*                                                                         *)
(* A charged version keeps its row and its blob because what a request     *)
(* deletes is its own, and only while it is being undone (StepsKeepOthers),*)
(* and its bytes because the counter is only ever added to here.           *)
(*                                                                         *)
(* What is left when requests have ended rests on Traces: every row, blob, *)
(* reservation and receipt is some request's and says how far it has come, *)
(* and a document's state is the one it began with or "queued", since      *)
(* nothing else is written here, nor restored (Origins).  That a failed    *)
(* request's version is deleted needs the version its receipt names to be  *)
(* there still (ReceiptIsThere), which two failed commits can defeat.      *)
(***************************************************************************)
EXTENDS RevisionSystem, TablesTheorems

\* A non-empty finite set of natural numbers has a greatest element: the one
\* with the fewest above it.
LEMMA MaxOfFinite ==
    ASSUME NEW S \in SUBSET Nat, IsFiniteSet(S), S # {}
    PROVE  Max(S) \in S /\ \A n \in S : n <= Max(S)
<1> DEFINE above(n) == {m \in S : m > n}
           family   == {above(n) : n \in S}
<1>1. IsWellFoundedOn(StrictSubsetOrdering(S), FiniteSubsetsOf(S))
  BY FS_StrictSubsetOrderingWellFounded
<1>2. family \subseteq FiniteSubsetsOf(S) /\ family # {}
  <2>1. ASSUME NEW n \in S PROVE above(n) \in SUBSET S /\ IsFiniteSet(above(n))
    <3>1. above(n) \in SUBSET S
      OBVIOUS
    <3> QED
      BY <3>1, FS_Subset
  <2> QED
    BY <2>1 DEF FiniteSubsetsOf
<1>3. PICK U \in family : \A V \in family : <<V, U>> \notin StrictSubsetOrdering(S)
  <2> HIDE DEF family
  <2> QED
    BY <1>1, <1>2, WFMin
<1>4. PICK x \in S : U = above(x)
  BY <1>3
<1>5. \A n \in S : x >= n
  <2> SUFFICES ASSUME NEW n \in S, n > x PROVE FALSE
    OBVIOUS
  <2>0. x \in Nat /\ n \in Nat
    OBVIOUS
  <2>1. ASSUME NEW m \in above(n) PROVE m \in above(x)
    BY <2>0, m \in Nat
  <2>2. n \in above(x) /\ n \notin above(n)
    OBVIOUS
  <2>3. <<above(n), above(x)>> \in StrictSubsetOrdering(S)
    BY <2>1, <2>2 DEF StrictSubsetOrdering
  <2> QED
    BY <1>3, <1>4, <2>3
<1> QED
  BY <1>5 DEF Max
-----------------------------------------------------------------------------
(* The inductive invariant. *)

Pcs   == {"precheck", "reserve", "put", "insert", "undo", "commit",
          "enqueue", "audit", "ok", "refused", "threw"}
Calls == {"release", "deleteBlob", "rollbackVersion"}

Receipts == [currentVersionId : ReservationIds \cup {"none"},
             processingState : States \cup {"none"}]

Pending(r)     == av[r].pc \in {"precheck", "reserve", "put", "insert"}
MayRollBack(r) == av[r].pc = "commit" \/ "rollbackVersion" \in av[r].todo

Local == [pc : Pcs, todo : SUBSET Calls, after : {"precheck", "refused", "threw"},
          previous : Receipts]

Progress ==
    \A r \in Revisions :
        /\ av[r].todo # {} => av[r].pc = "undo" /\ av[r].after # "precheck"
        /\ Pending(r) => av[r].previous = NoReceipt

Columns ==
    /\ documents \in [DOMAIN documents -> Receipts]
    /\ DOMAIN versions \subseteq ReservationIds
    /\ \A v \in DOMAIN versions : versions[v].versionNumber \in Nat

Shape == av \in [Revisions -> Local] /\ Progress /\ Columns

\* The foreign key of documents.current_version_id.
CurrentIsStored ==
    \A d \in DOMAIN documents :
        /\ documents[d].currentVersionId \in DOMAIN versions
        /\ versions[documents[d].currentVersionId].documentId = d

\* What a receipt is worth when its request may still be rolled back.
ReceiptsHold ==
    \A r \in Revisions : MayRollBack(r) =>
        LET mine == Revision[r]
            last == av[r].previous.currentVersionId
        IN  /\ last # mine
            /\ mine \in DOMAIN versions => versions[mine].documentId = Target[r]
            /\ {mine, last} \subseteq DOMAIN versions =>
                  /\ versions[last].documentId = Target[r]
                  /\ \A v \in VersionsOf(Target[r]) :
                        versions[v].versionNumber < versions[mine].versionNumber
                        => versions[v].versionNumber <= versions[last].versionNumber

\* A version not inserted yet is nobody's receipt.
PendingAreUnknown ==
    \A r \in Revisions : Pending(r) =>
        /\ Revision[r] \notin DOMAIN versions
        /\ \A q \in Revisions : MayRollBack(q) => av[q].previous.currentVersionId # Revision[r]

Numbering ==
    /\ Shape /\ CurrentIsStored /\ ReceiptsHold /\ PendingAreUnknown
    /\ VersionNumbersUnique /\ CurrentIsNewest

LEMMA InitNumbering == Init => Numbering
<1> SUFFICES ASSUME Init PROVE Numbering
  OBVIOUS
<1> USE DEF Init, StoreInit, AddVersionInit
<1>1. Shape
  <2>1. documents \in [DOMAIN documents -> Receipts]
    BY StoreAssumption DEF Receipts, States, SeededDocument
  <2>2. DOMAIN versions \subseteq ReservationIds
    BY StoreAssumption
  <2>3. \A v \in DOMAIN versions : versions[v].versionNumber \in Nat
    BY DEF NewVersion
  <2>4. NoReceipt \in Receipts
    BY DEF NoReceipt, Receipts
  <2>5. av \in [Revisions -> Local]
    BY <2>4 DEF Local, Pcs, Calls
  <2> QED
    BY <2>1, <2>2, <2>3, <2>5 DEF Shape, Progress, Columns, Pending
<1>2. CurrentIsStored
  BY DEF CurrentIsStored, SeededDocument, NewVersion
<1>3. ReceiptsHold
  BY DEF ReceiptsHold, MayRollBack
<1>4. PendingAreUnknown
  BY RevisionAssumption DEF PendingAreUnknown, Pending, MayRollBack
<1>5. VersionNumbersUnique
  BY DEF VersionNumbersUnique, NewVersion
<1>6. CurrentIsNewest
  <2>1. \A v \in Seeded : versions[v].versionNumber = 1
    BY DEF NewVersion
  <2>2. \A d \in Seeded : documents[d].currentVersionId = d
    BY DEF SeededDocument
  <2>3. DOMAIN versions = Seeded /\ DOMAIN documents = Seeded
    OBVIOUS
  <2> HIDE DEF Init, StoreInit, AddVersionInit
  <2> QED
    BY <2>1, <2>2, <2>3 DEF CurrentIsNewest, VersionsOf
<1> QED
  BY <1>1, <1>2, <1>3, <1>4, <1>5, <1>6 DEF Numbering
-----------------------------------------------------------------------------
(* Steps that leave the tables alone. *)

\* The request goes on, and towards a rollback only if it was at its commit.
Quiet(r) ==
    /\ documents' = documents /\ versions' = versions
    /\ \A q \in Revisions \ {r} : av'[q] = av[q]
    /\ av'[r].previous = av[r].previous
    /\ MayRollBack(r)' => MayRollBack(r)
    /\ Pending(r)' => Pending(r)

LEMMA QuietKeepsNumbering ==
    ASSUME Numbering, NEW r \in Revisions, Quiet(r), Shape'
    PROVE  Numbering'
<1>1. \A q \in Revisions :
         /\ av'[q].previous = av[q].previous
         /\ MayRollBack(q)' => MayRollBack(q)
         /\ Pending(q)' => Pending(q)
  BY DEF Quiet, MayRollBack, Pending
<1>2. CurrentIsStored' /\ VersionNumbersUnique' /\ CurrentIsNewest'
  BY DEF Quiet, Numbering, CurrentIsStored, VersionNumbersUnique, CurrentIsNewest, VersionsOf
<1>3. ReceiptsHold'
  BY <1>1 DEF Quiet, Numbering, ReceiptsHold, VersionsOf
<1>4. PendingAreUnknown'
  BY <1>1 DEF Quiet, Numbering, PendingAreUnknown
<1> QED
  BY <1>2, <1>3, <1>4 DEF Numbering
-----------------------------------------------------------------------------
(* The two transactions. *)

\* The next number is above every number the document's versions have.
LEMMA NextNumberIsNext ==
    ASSUME Shape, NEW d
    PROVE  /\ NextVersionNumber(d) \in Nat
           /\ \A v \in VersionsOf(d) : versions[v].versionNumber < NextVersionNumber(d)
<1> DEFINE numbers == {versions[v].versionNumber : v \in VersionsOf(d)}
           S       == {0} \cup numbers
<1>1. IsFiniteSet(VersionsOf(d))
  <2>1. VersionsOf(d) \in SUBSET ReservationIds
    BY DEF Shape, Columns, VersionsOf
  <2> QED
    BY <2>1, IdsAssumption, FS_Subset
<1>2. IsFiniteSet(numbers)
  <2>1. [v \in VersionsOf(d) |-> versions[v].versionNumber] \in Surjection(VersionsOf(d), numbers)
    BY DEF Surjection
  <2> QED
    BY <1>1, <2>1, FS_Surjection
<1>3. IsFiniteSet(S)
  BY <1>2, FS_AddElement, S = numbers \cup {0}
<1>4. S \in SUBSET Nat /\ S # {}
  BY DEF Shape, Columns, VersionsOf
<1>5. Max(S) \in S /\ \A n \in S : n <= Max(S)
  <2> HIDE DEF S
  <2> QED
    BY <1>3, <1>4, MaxOfFinite
<1>6. NextVersionNumber(d) = 1 + Max(S)
  BY DEF NextVersionNumber
<1>7. \A v \in VersionsOf(d) : versions[v].versionNumber \in S
  OBVIOUS
<1> HIDE DEF S
<1>8. Max(S) \in Nat
  BY <1>4, <1>5
<1>9. ASSUME NEW v \in VersionsOf(d) PROVE versions[v].versionNumber < NextVersionNumber(d)
  <2> DEFINE m == versions[v].versionNumber
  <2>1. m \in S /\ m \in Nat /\ m <= Max(S)
    BY <1>4, <1>5, <1>7
  <2> HIDE DEF m
  <2>2. m < 1 + Max(S)
    BY <1>8, <2>1
  <2> QED
    BY <1>6, <2>2 DEF m
<1> QED
  BY <1>6, <1>8, <1>9

\* An insert, by a request that becomes one that may roll back to the version
\* that was current.
LEMMA InsertKeepsNumbering ==
    ASSUME Numbering, NEW r \in Revisions, InsertRevision(r), Shape'
    PROVE  Numbering'
<1> DEFINE d == Target[r]
           id == Revision[r]
           n == NextVersionNumber(d)
           last == documents[d].currentVersionId
<1>1. /\ d \in DOMAIN documents /\ id \notin DOMAIN versions
      /\ versions' = Insert(versions, id, NewVersion(d, n))
      /\ documents' = [documents EXCEPT ![d] = [currentVersionId |-> id, processingState |-> "queued"]]
      /\ av' = [av EXCEPT ![r].pc = "commit", ![r].previous = documents[d]]
      /\ Pending(r)
  BY DEF InsertRevision, InsertVersion, CanInsertVersion, ContentStored, Pending, AtRevision
<1>2. n \in Nat /\ \A v \in VersionsOf(d) : versions[v].versionNumber < n
  BY NextNumberIsNext DEF Numbering
<1>3. /\ DOMAIN versions' = DOMAIN versions \cup {id}
      /\ versions'[id].documentId = d /\ versions'[id].versionNumber = n
      /\ \A v \in DOMAIN versions : versions'[v] = versions[v]
  BY <1>1 DEF Insert, NewVersion
<1>4. /\ last \in DOMAIN versions /\ versions[last].documentId = d
      /\ \A v \in VersionsOf(d) : versions[v].versionNumber <= versions[last].versionNumber
  BY <1>1 DEF Numbering, CurrentIsStored, CurrentIsNewest
<1>5. /\ DOMAIN documents' = DOMAIN documents /\ documents'[d].currentVersionId = id
      /\ \A e \in DOMAIN documents \ {d} : documents'[e] = documents[e]
  BY <1>1
<1>6. /\ \A q \in Revisions \ {r} : av'[q] = av[q]
      /\ av'[r].previous.currentVersionId = last
      /\ ~Pending(r)'
      /\ \A q \in Revisions \ {r} : Revision[q] # id
  BY <1>1, RevisionAssumption DEF Numbering, Shape, Local, Pending
<1>7. \A v \in DOMAIN versions : versions[v].versionNumber \in Nat
  BY DEF Numbering, Shape, Columns
<1> HIDE DEF d, id, n, last
<1>8. CurrentIsStored'
  BY <1>3, <1>5 DEF Numbering, CurrentIsStored
<1>9. VersionNumbersUnique'
  BY <1>2, <1>3, <1>7 DEF Numbering, VersionNumbersUnique, VersionsOf
<1>10. CurrentIsNewest'
  BY <1>2, <1>3, <1>5, <1>7 DEF Numbering, CurrentIsNewest, CurrentIsStored, VersionsOf
<1>11. ReceiptsHold'
  <2> SUFFICES ASSUME NEW q \in Revisions, MayRollBack(q)'
               PROVE  LET mine == Revision[q]
                          lst == av'[q].previous.currentVersionId
                      IN  /\ lst # mine
                          /\ mine \in DOMAIN versions' => versions'[mine].documentId = Target[q]
                          /\ {mine, lst} \subseteq DOMAIN versions' =>
                                /\ versions'[lst].documentId = Target[q]
                                /\ \A v \in VersionsOf(Target[q])' :
                                      versions'[v].versionNumber < versions'[mine].versionNumber
                                      => versions'[v].versionNumber <= versions'[lst].versionNumber
    BY DEF ReceiptsHold
  <2>1. CASE q = r
    <3>1. Target[q] = d /\ Revision[q] = id /\ av'[q].previous.currentVersionId = last
      BY <1>6, <2>1 DEF d, id
    <3>2. last # id /\ versions'[last] = versions[last] /\ versions'[id].documentId = d
      BY <1>1, <1>3, <1>4
    <3>3. ASSUME NEW v \in VersionsOf(d)', versions'[v].versionNumber < versions'[id].versionNumber
          PROVE  versions'[v].versionNumber <= versions'[last].versionNumber
      <4>1. v # id
        BY <1>2, <1>3, <3>3
      <4>2. v \in VersionsOf(d) /\ versions'[v] = versions[v]
        BY <1>3, <4>1 DEF VersionsOf
      <4> QED
        BY <1>4, <3>2, <4>2
    <3> QED
      BY <1>4, <3>1, <3>2, <3>3
  <2>2. CASE q # r
    <3>1. MayRollBack(q)
      BY <1>6, <2>2 DEF MayRollBack
    <3>2. Revision[q] # id /\ av[q].previous.currentVersionId # id /\ av'[q] = av[q]
      BY <1>1, <1>6, <2>2, <3>1 DEF Numbering, PendingAreUnknown, id
    <3> QED
      BY <1>2, <1>3, <1>7, <3>1, <3>2 DEF Numbering, ReceiptsHold, VersionsOf
  <2> QED
    BY <2>1, <2>2
<1>12. PendingAreUnknown'
  <2> SUFFICES ASSUME NEW q \in Revisions, Pending(q)'
               PROVE  /\ Revision[q] \notin DOMAIN versions'
                      /\ \A p \in Revisions :
                            MayRollBack(p)' => av'[p].previous.currentVersionId # Revision[q]
    BY DEF PendingAreUnknown
  <2>1. q # r /\ Pending(q) /\ Revision[q] # id
    BY <1>6 DEF Pending
  <2>2. Revision[q] \notin DOMAIN versions'
    BY <1>3, <2>1 DEF Numbering, PendingAreUnknown
  <2>3. ASSUME NEW p \in Revisions, MayRollBack(p)'
        PROVE  av'[p].previous.currentVersionId # Revision[q]
    <3>1. CASE p = r
      BY <1>4, <1>6, <2>1, <3>1 DEF Numbering, PendingAreUnknown
    <3>2. CASE p # r
      BY <1>6, <2>1, <2>3, <3>2 DEF Numbering, PendingAreUnknown, MayRollBack
    <3> QED
      BY <3>1, <3>2
  <2> QED
    BY <2>2, <2>3
<1> QED
  BY <1>8, <1>9, <1>10, <1>11, <1>12 DEF Numbering

\* A rollback, refused by the foreign key or carried out.
LEMMA RollbackKeepsNumbering ==
    ASSUME Numbering, NEW r \in Revisions, MayRollBack(r), Shape',
           RollbackVersionInsert(Target[r], Revision[r], av[r].previous),
           \A q \in Revisions : /\ MayRollBack(q)' => MayRollBack(q)
                                /\ Pending(q)' => Pending(q)
                                /\ av'[q].previous = av[q].previous
    PROVE  Numbering'
<1> DEFINE d == Target[r]
           id == Revision[r]
           last == av[r].previous.currentVersionId
<1>1. CASE Repoints(d, id) /\ last \notin DOMAIN versions
  <2>1. versions' = versions /\ documents' = documents
    BY <1>1 DEF RollbackVersionInsert, storeVars
  <2>2. CurrentIsStored' /\ VersionNumbersUnique' /\ CurrentIsNewest'
    BY <2>1 DEF Numbering, CurrentIsStored, VersionNumbersUnique, CurrentIsNewest, VersionsOf
  <2>3. ReceiptsHold' /\ PendingAreUnknown'
    BY <2>1 DEF Numbering, ReceiptsHold, PendingAreUnknown, VersionsOf
  <2> QED
    BY <2>2, <2>3 DEF Numbering
<1>2. CASE ~(Repoints(d, id) /\ last \notin DOMAIN versions)
  <2>1. /\ versions' = Delete(versions, id)
        /\ documents' = IF Repoints(d, id) THEN [documents EXCEPT ![d] = av[r].previous] ELSE documents
    BY <1>2 DEF RollbackVersionInsert
  <2>2. /\ DOMAIN versions' = DOMAIN versions \ {id}
        /\ \A v \in DOMAIN versions' : versions'[v] = versions[v]
        /\ DOMAIN documents' = DOMAIN documents
    BY <2>1 DEF Delete, DeleteAll
  <2>3. /\ last # id
        /\ id \in DOMAIN versions => versions[id].documentId = d
        /\ {id, last} \subseteq DOMAIN versions =>
              /\ versions[last].documentId = d
              /\ \A v \in VersionsOf(d) : versions[v].versionNumber < versions[id].versionNumber
                                          => versions[v].versionNumber <= versions[last].versionNumber
    BY DEF Numbering, ReceiptsHold
  <2>4. ASSUME NEW e \in DOMAIN documents
        PROVE  LET cur == documents'[e].currentVersionId
               IN  /\ cur \in DOMAIN versions' /\ versions'[cur].documentId = e
                   /\ \A v \in VersionsOf(e)' : versions'[v].versionNumber <= versions'[cur].versionNumber
    <3>1. CASE e = d /\ Repoints(d, id)
      <4>1. documents'[e].currentVersionId = last /\ last \in DOMAIN versions'
        BY <1>2, <2>1, <2>2, <2>3, <3>1
      <4>2. id \in DOMAIN versions /\ documents[d].currentVersionId = id
        BY <3>1 DEF Numbering, CurrentIsStored, Repoints
      <4>3. versions'[last].documentId = d
        BY <2>2, <2>3, <4>1, <4>2
      <4>4. ASSUME NEW v \in VersionsOf(e)'
            PROVE  versions'[v].versionNumber <= versions'[last].versionNumber
        <5> DEFINE m == versions[v].versionNumber
                   n == versions[id].versionNumber
        <5>1. v \in VersionsOf(d) /\ v # id /\ v \in DOMAIN versions /\ versions'[v] = versions[v]
          BY <2>2, <3>1 DEF VersionsOf
        <5>2. m <= n
          BY <3>1, <4>2, <5>1 DEF Numbering, CurrentIsNewest
        <5>3. m # n
          BY <2>3, <4>2, <5>1 DEF Numbering, VersionNumbersUnique, VersionsOf
        <5>4. m \in Nat /\ n \in Nat
          BY <4>2, <5>1 DEF Numbering, Shape, Columns
        <5>5. m < n
          <6> HIDE DEF m, n
          <6> QED
            BY <5>2, <5>3, <5>4
        <5> QED
          BY <2>2, <2>3, <4>1, <4>2, <5>1, <5>5
      <4> QED
        BY <3>1, <4>1, <4>3, <4>4
    <3>2. CASE ~(e = d /\ Repoints(d, id))
      <4>1. documents'[e] = documents[e]
        BY <2>1, <3>2
      <4>2. documents[e].currentVersionId \in DOMAIN versions /\ documents[e].currentVersionId # id
        BY <2>3, <3>2 DEF Numbering, CurrentIsStored, Repoints
      <4> QED
        BY <2>2, <4>1, <4>2 DEF Numbering, CurrentIsStored, CurrentIsNewest, VersionsOf
    <3> QED
      BY <3>1, <3>2
  <2>5. CurrentIsStored' /\ CurrentIsNewest'
    BY <2>2, <2>4 DEF CurrentIsStored, CurrentIsNewest
  <2>6. VersionNumbersUnique'
    BY <2>2 DEF Numbering, VersionNumbersUnique
  <2>7. ReceiptsHold'
    <3> HIDE DEF d, id, last
    <3> QED
      BY <2>2 DEF Numbering, ReceiptsHold, VersionsOf
  <2>8. PendingAreUnknown'
    BY <2>2 DEF Numbering, PendingAreUnknown
  <2> QED
    BY <2>5, <2>6, <2>7, <2>8 DEF Numbering
<1> QED
  BY <1>1, <1>2
-----------------------------------------------------------------------------
(* Every step. *)

\* The requests' local state and the columns keep their types.
LEMMA ShapeIsKept ==
    ASSUME Numbering, NEW r \in Revisions, RevisionStep(r)
    PROVE  Shape'
<1> USE DEF Numbering, Shape
<1>0. /\ \A pc \in {"precheck", "reserve", "put", "insert", "undo", "commit",
                    "enqueue", "audit", "ok", "refused", "threw"} : pc \in Pcs
      /\ \A calls \in SUBSET {"release", "deleteBlob", "rollbackVersion"} : calls \in SUBSET Calls
  BY DEF Pcs, Calls
<1>1. CASE Precheck(r) \/ ReserveRevision(r) \/ RefuseRevision(r) \/ PutRevision(r)
           \/ CommitRevision(r) \/ EnqueueRevision(r) \/ AuditRevision(r) \/ RevisionCallThrows(r)
  <2>1. documents' = documents /\ versions' = versions
    BY <1>1 DEF Precheck, ReserveRevision, RefuseRevision, PutRevision, CommitRevision,
       EnqueueRevision, AuditRevision, RevisionCallThrows, storeVars, PutBlob, Enqueue, Record
  <2>2. PICK pc \in Pcs : /\ av' = [av EXCEPT ![r].pc = pc]
                          /\ av[r].pc # "undo"
                          /\ pc \in {"precheck", "reserve", "put", "insert"} => Pending(r)
    BY <1>0, <1>1 DEF Precheck, ReserveRevision, RefuseRevision, PutRevision, CommitRevision,
       EnqueueRevision, AuditRevision, RevisionCallThrows, AtRevision, RevisionTo, Pending
  <2>3. av' \in [Revisions -> Local]
    BY <2>2 DEF Local
  <2>4. \A q \in Revisions : /\ av'[q].todo = av[q].todo /\ av'[q].after = av[q].after
                              /\ av'[q].previous = av[q].previous
                              /\ q # r => av'[q].pc = av[q].pc
    BY <2>2 DEF Local
  <2>5. av'[r].pc = pc
    BY <2>2 DEF Local
  <2>6. av[r].todo = {}
    BY <2>2 DEF Progress
  <2>7. Progress'
    BY <2>2, <2>4, <2>5, <2>6 DEF Progress, Pending
  <2> QED
    BY <2>1, <2>3, <2>7 DEF Columns
<1>2. CASE PutRevisionThrows(r) \/ InsertRevisionRefused(r) \/ InsertRevisionThrows(r)
           \/ CommitRevisionThrows(r)
  <2>1. documents' = documents /\ versions' = versions
    BY <1>2 DEF PutRevisionThrows, InsertRevisionRefused, InsertRevisionThrows,
       CommitRevisionThrows, storeVars, PutBlob
  <2>2. PICK calls \in SUBSET Calls, after \in {"refused", "threw"} :
            av' = [av EXCEPT ![r].pc = "undo", ![r].todo = calls, ![r].after = after]
    BY <1>0, <1>2 DEF PutRevisionThrows, InsertRevisionRefused, InsertRevisionThrows,
       CommitRevisionThrows, UndoRevision
  <2>3. av' \in [Revisions -> Local]
    <3>1. "undo" \in Pcs
      BY <1>0
    <3> QED
      BY <2>2, <3>1, ZenonT(40) DEF Local
  <2>4. /\ av'[r].pc = "undo" /\ av'[r].after \in {"refused", "threw"}
        /\ \A q \in Revisions : q # r => av'[q] = av[q]
    BY <2>2 DEF Local
  <2>5. Progress'
    BY <2>4 DEF Progress, Pending
  <2> QED
    BY <2>1, <2>3, <2>5 DEF Columns
<1>3. CASE InsertRevision(r)
  <2>1. /\ Target[r] \in DOMAIN documents
        /\ versions' = Insert(versions, Revision[r], NewVersion(Target[r], NextVersionNumber(Target[r])))
        /\ documents' = [documents EXCEPT ![Target[r]] =
                            [currentVersionId |-> Revision[r], processingState |-> "queued"]]
        /\ av' = [av EXCEPT ![r].pc = "commit", ![r].previous = documents[Target[r]]]
        /\ av[r].pc = "insert"
    BY <1>3 DEF InsertRevision, InsertVersion, CanInsertVersion, AtRevision
  <2>2. NextVersionNumber(Target[r]) \in Nat
    BY NextNumberIsNext
  <2>3. [currentVersionId |-> Revision[r], processingState |-> "queued"] \in Receipts
    BY RevisionAssumption DEF Receipts, States
  <2>4. documents' \in [DOMAIN documents' -> Receipts]
    BY <2>1, <2>3 DEF Columns
  <2>5. DOMAIN versions' \subseteq ReservationIds
    BY <2>1, RevisionAssumption DEF Columns, Insert
  <2>6. \A v \in DOMAIN versions' : versions'[v].versionNumber \in Nat
    BY <2>1, <2>2 DEF Columns, Insert, NewVersion
  <2>7. documents[Target[r]] \in Receipts /\ "commit" \in Pcs
    BY <1>0, <2>1 DEF Columns
  <2>8. av' \in [Revisions -> Local]
    BY <2>1, <2>7 DEF Local
  <2>9. /\ av'[r].pc = "commit" /\ av'[r].todo = av[r].todo
        /\ \A q \in Revisions : q # r => av'[q] = av[q]
    BY <2>1 DEF Local
  <2>10. Progress'
    BY <2>1, <2>9 DEF Progress, Pending
  <2> QED
    BY <2>4, <2>5, <2>6, <2>8, <2>10 DEF Columns
<1>4. ASSUME NEW call \in av[r].todo, SettleRevision(r, call) PROVE Shape'
  <2>1. call \in {"release", "deleteBlob", "rollbackVersion"} /\ av[r].previous \in Receipts
    BY DEF Local, Calls
  <2>2. Columns'
    <3>1. CASE UNCHANGED <<documents, versions>>
      BY <3>1 DEF Columns
    <3>2. CASE RollbackVersionInsert(Target[r], Revision[r], av[r].previous)
      BY <2>1, <3>2 DEF Columns, RollbackVersionInsert, Delete, DeleteAll, storeVars
    <3> QED
      BY <1>4, <2>1, <3>1, <3>2 DEF SettleRevision, CompensateRevision, DeleteBlob, storeVars
  <2>3. PICK pc \in {"undo", "refused", "threw"} :
            /\ av' = [av EXCEPT ![r].todo = @ \ {call}, ![r].pc = pc]
            /\ av[r].todo # {call} => pc = "undo"
    BY <1>4 DEF SettleRevision, Progress, Local
  <2>4. pc \in Pcs
    BY <1>0
  <2>5. av' \in [Revisions -> Local]
    BY <2>3, <2>4 DEF Local
  <2>6. /\ av'[r].pc = pc /\ av'[r].after = av[r].after /\ av'[r].todo = av[r].todo \ {call}
        /\ \A q \in Revisions : q # r => av'[q] = av[q]
    BY <2>3 DEF Local
  <2>7. av[r].after # "precheck" /\ (av'[r].todo # {} => pc = "undo")
    BY <2>3, <2>6 DEF Progress
  <2>8. Progress'
    BY <2>6, <2>7 DEF Progress, Pending
  <2> QED
    BY <2>2, <2>5, <2>8
<1> QED
  BY <1>1, <1>2, <1>3, <1>4 DEF RevisionStep

\* Every other step than an insert and a rollback leaves the tables alone.
LEMMA OtherStepsAreQuiet ==
    ASSUME Numbering, NEW r \in Revisions,
           \/ /\ RevisionStep(r) /\ ~InsertRevision(r)
              /\ \A call \in av[r].todo : ~SettleRevision(r, call)
           \/ \E call \in av[r].todo : SettleRevision(r, call) /\ call # "rollbackVersion"
    PROVE  Quiet(r)
<1> USE DEF Numbering, Shape, Local, Quiet, MayRollBack, Pending, AtRevision
<1>1. CASE Precheck(r) \/ ReserveRevision(r) \/ RefuseRevision(r) \/ PutRevision(r)
           \/ CommitRevision(r) \/ EnqueueRevision(r) \/ AuditRevision(r) \/ RevisionCallThrows(r)
  <2>1. documents' = documents /\ versions' = versions
    BY <1>1 DEF Precheck, ReserveRevision, RefuseRevision, PutRevision, CommitRevision,
       EnqueueRevision, AuditRevision, RevisionCallThrows, storeVars, PutBlob, Enqueue, Record
  <2>2. PICK pc : /\ av' = [av EXCEPT ![r].pc = pc] /\ pc # "commit"
                  /\ pc \in {"precheck", "reserve", "put", "insert"} => Pending(r)
    BY <1>1 DEF Precheck, ReserveRevision, RefuseRevision, PutRevision, CommitRevision,
       EnqueueRevision, AuditRevision, RevisionCallThrows, RevisionTo
  <2> QED
    BY <2>1, <2>2
<1>2. CASE PutRevisionThrows(r) \/ InsertRevisionRefused(r) \/ InsertRevisionThrows(r)
           \/ CommitRevisionThrows(r)
  <2>1. documents' = documents /\ versions' = versions
    BY <1>2 DEF PutRevisionThrows, InsertRevisionRefused, InsertRevisionThrows,
       CommitRevisionThrows, storeVars, PutBlob
  <2>2. PICK calls, after :
            /\ av' = [av EXCEPT ![r].pc = "undo", ![r].todo = calls, ![r].after = after]
            /\ "rollbackVersion" \in calls => MayRollBack(r)
    <3>1. CASE CommitRevisionThrows(r)
      BY <3>1 DEF CommitRevisionThrows, UndoRevision
    <3>2. ASSUME NEW after, UndoRevision(r, {"release", "deleteBlob"}, after)
          PROVE  \E calls, aft :
                    /\ av' = [av EXCEPT ![r].pc = "undo", ![r].todo = calls, ![r].after = aft]
                    /\ "rollbackVersion" \in calls => MayRollBack(r)
      <4>1. "rollbackVersion" \notin {"release", "deleteBlob"}
        OBVIOUS
      <4> QED
        BY <3>2, <4>1, Zenon DEF UndoRevision
    <3> QED
      BY <1>2, <3>1, <3>2 DEF PutRevisionThrows, InsertRevisionRefused, InsertRevisionThrows
  <2>3. /\ av'[r].pc = "undo" /\ av'[r].todo = calls /\ av'[r].previous = av[r].previous
        /\ \A q \in Revisions \ {r} : av'[q] = av[q]
    <3>1. av' = [av EXCEPT ![r].pc = "undo", ![r].todo = calls, ![r].after = after]
      BY <2>2
    <3>2. av \in [Revisions -> Local]
      OBVIOUS
    <3> HIDE DEF Numbering, Shape, Quiet, MayRollBack, Pending
    <3> QED
      BY <3>1, <3>2
  <2> QED
    BY <2>1, <2>2, <2>3
<1>3. ASSUME NEW call \in av[r].todo, SettleRevision(r, call), call # "rollbackVersion"
      PROVE  Quiet(r)
  <2>1. call \in {"release", "deleteBlob", "rollbackVersion"}
    BY DEF Calls
  <2>2. documents' = documents /\ versions' = versions
    BY <1>3, <2>1 DEF SettleRevision, CompensateRevision, DeleteBlob, storeVars
  <2>3. PICK pc \in {"undo", "refused", "threw"} :
            av' = [av EXCEPT ![r].todo = @ \ {call}, ![r].pc = pc]
    BY <1>3 DEF SettleRevision, Progress
  <2> QED
    BY <2>2, <2>3
<1> QED
  BY <1>1, <1>2, <1>3 DEF RevisionStep

\* Every step keeps the numbering and what the receipts are worth.
THEOREM NumberingHolds == Spec => []Numbering
<1>1. Init => Numbering
  BY InitNumbering
<1>2. Numbering /\ [Next]_vars => Numbering'
  <2> SUFFICES ASSUME Numbering, [Next]_vars PROVE Numbering'
    OBVIOUS
  <2>1. ASSUME NEW r \in Revisions, RevisionStep(r) PROVE Numbering'
    <3>1. Shape'
      BY <2>1, ShapeIsKept
    <3>2. CASE InsertRevision(r)
      BY <3>1, <3>2, InsertKeepsNumbering
    <3>3. ASSUME NEW call \in av[r].todo, SettleRevision(r, call), call = "rollbackVersion",
                 RollbackVersionInsert(Target[r], Revision[r], av[r].previous)
          PROVE  Numbering'
      <4>1. MayRollBack(r)
        BY <3>3 DEF MayRollBack
      <4>2. PICK pc \in {"undo", "refused", "threw"} :
                av' = [av EXCEPT ![r].todo = @ \ {call}, ![r].pc = pc]
        BY <3>3 DEF SettleRevision, Numbering, Shape, Progress, Local
      <4>3. \A q \in Revisions : /\ MayRollBack(q)' => MayRollBack(q)
                                 /\ Pending(q)' => Pending(q)
                                 /\ av'[q].previous = av[q].previous
        BY <4>2 DEF MayRollBack, Pending, Numbering, Shape, Local
      <4> QED
        BY <3>1, <3>3, <4>1, <4>3, RollbackKeepsNumbering
    <3>4. ASSUME NEW call \in av[r].todo, SettleRevision(r, call), call = "rollbackVersion",
                 UNCHANGED <<documents, versions>>
          PROVE  Numbering'
      <4>1. PICK pc \in {"undo", "refused", "threw"} :
                av' = [av EXCEPT ![r].todo = @ \ {call}, ![r].pc = pc]
        BY <3>4 DEF SettleRevision, Numbering, Shape, Progress, Local
      <4>2. Quiet(r)
        BY <3>4, <4>1 DEF Quiet, MayRollBack, Pending, Numbering, Shape, Local
      <4> QED
        BY <3>1, <4>2, QuietKeepsNumbering
    <3>5. CASE Quiet(r)
      BY <3>1, <3>5, QuietKeepsNumbering
    <3>6. ASSUME NEW call \in av[r].todo, SettleRevision(r, call), call = "rollbackVersion"
          PROVE  \/ RollbackVersionInsert(Target[r], Revision[r], av[r].previous)
                 \/ UNCHANGED <<documents, versions>>
      BY <3>6 DEF SettleRevision, CompensateRevision, storeVars
    <3> QED
      BY <2>1, <3>2, <3>3, <3>4, <3>5, <3>6, OtherStepsAreQuiet
  <2>2. CASE UNCHANGED vars
    <3>1. UNCHANGED <<documents, versions, av>>
      BY <2>2 DEF vars, storeVars
    <3> QED
      BY <3>1 DEF Numbering, Shape, Progress, Columns, Pending, CurrentIsStored, ReceiptsHold,
         PendingAreUnknown, MayRollBack, VersionNumbersUnique, CurrentIsNewest, VersionsOf
  <2> QED
    BY <2>1, <2>2 DEF Next, AddVersionNext
<1> QED
  BY <1>1, <1>2, PTL DEF Spec

\* No two versions of a document bear one number, under concurrent inserts and
\* rollbacks in any order (insertVersionAndUpdateDocument's max + 1).
THEOREM NumbersAreUnique == Spec => []VersionNumbersUnique
<1>1. Numbering => VersionNumbersUnique
  BY DEF Numbering
<1> QED
  BY <1>1, NumberingHolds, PTL

\* A document points at its newest version, whatever is rolled back and when
\* (rollbackVersionInsert repoints only a document that still points at it).
THEOREM NewestIsCurrent == Spec => []CurrentIsNewest
<1>1. Numbering => CurrentIsNewest
  BY DEF Numbering
<1> QED
  BY <1>1, NumberingHolds, PTL
-----------------------------------------------------------------------------
(* Charged versions. *)

ChargedIds == Seeded \cup {Revision[r] : r \in Charged}

\* What a request has stored stays while it may still be charged for it, and
\* from then on.
Kept ==
    /\ used \in [Tenants -> Nat]
    /\ Seeded \subseteq DOMAIN versions \cap blobs
    /\ \A r \in Revisions :
          /\ av[r].pc \in {"insert", "commit"} => Revision[r] \in blobs
          /\ av[r].pc = "commit" => Revision[r] \in DOMAIN versions
          /\ r \in Charged => Revision[r] \in DOMAIN versions \cap blobs
    /\ used[tenant] >= StoredBytes(ChargedIds)

LEMMA ChargedIdsAreIds == ChargedIds \in SUBSET ReservationIds
BY StoreAssumption, RevisionAssumption DEF ChargedIds, Charged

\* The bytes of a set of attempts.
LEMMA StoredBytesAdd ==
    ASSUME NEW S \in SUBSET ReservationIds, NEW id \in ReservationIds
    PROVE  /\ StoredBytes(S) \in Nat /\ SizeOf(id) \in Nat
           /\ StoredBytes(S \cup {id}) <= StoredBytes(S) + SizeOf(id)
           /\ \A T \in SUBSET S : StoredBytes(T) <= StoredBytes(S)
<1> DEFINE all == S \cup {id}
           b == [i \in all |-> SizeOf(i)]
<1>1. \A i \in ReservationIds : SizeOf(i) \in Nat
  BY StoreAssumption DEF SizeOf
<1>2. /\ IsFiniteSet(S) /\ IsFiniteSet(all)
      /\ [i \in S |-> SizeOf(i)] \in [S -> Nat] /\ b \in [all -> Nat]
  BY <1>1, IdsAssumption, FS_Subset
<1>3. StoredBytes(S) \in Nat
  BY <1>2, TotalType DEF StoredBytes
<1>4. ASSUME NEW T \in SUBSET S PROVE StoredBytes(T) <= StoredBytes(S)
  <2> DEFINE c == [i \in S |-> SizeOf(i)]
  <2>1. TotalBytes([x \in T |-> c[x]]) <= TotalBytes(c)
    BY <1>2, TotalMonotone
  <2>2. [x \in T |-> c[x]] = [x \in T |-> SizeOf(x)]
    OBVIOUS
  <2> QED
    BY <2>1, <2>2 DEF StoredBytes
<1>5. StoredBytes(all) <= StoredBytes(S) + SizeOf(id)
  <2>1. /\ TotalBytes([x \in all \ {id} |-> b[x]]) \in Nat
        /\ TotalBytes(b) = TotalBytes([x \in all \ {id} |-> b[x]]) + b[id]
    BY <1>2, TotalRemove
  <2>2. [x \in all \ {id} |-> b[x]] = [x \in S \ {id} |-> SizeOf(x)] /\ b[id] = SizeOf(id)
    BY all \ {id} = S \ {id}
  <2>3. StoredBytes(S \ {id}) <= StoredBytes(S)
    BY <1>4
  <2>4. StoredBytes(all) = StoredBytes(S \ {id}) + SizeOf(id) /\ StoredBytes(S \ {id}) \in Nat
    BY <2>1, <2>2 DEF StoredBytes
  <2> QED
    BY <1>1, <1>3, <2>3, <2>4
<1> QED
  BY <1>1, <1>3, <1>4, <1>5

\* What one request does spoils nobody else's versions and blobs.
LEMMA StepsKeepOthers ==
    ASSUME Numbering, NEW r \in Revisions, RevisionStep(r)
    PROVE  /\ \A q \in Revisions \ {r} : av'[q] = av[q]
           /\ DOMAIN versions \ {Revision[r]} \subseteq DOMAIN versions'
           /\ blobs \ {Revision[r]} \subseteq blobs'
           /\ av[r].pc # "undo" => DOMAIN versions \subseteq DOMAIN versions' /\ blobs \subseteq blobs'
<1> USE DEF AtRevision, storeVars
<1>1. CASE \/ Precheck(r) \/ ReserveRevision(r) \/ RefuseRevision(r) \/ PutRevision(r)
           \/ CommitRevision(r) \/ EnqueueRevision(r) \/ AuditRevision(r) \/ RevisionCallThrows(r)
           \/ PutRevisionThrows(r) \/ InsertRevisionRefused(r) \/ InsertRevisionThrows(r)
           \/ CommitRevisionThrows(r)
  <2>1. versions' = versions /\ blobs \subseteq blobs'
    BY <1>1 DEF Precheck, ReserveRevision, RefuseRevision, PutRevision, CommitRevision,
       EnqueueRevision, AuditRevision, RevisionCallThrows, PutRevisionThrows,
       InsertRevisionRefused, InsertRevisionThrows, CommitRevisionThrows, PutBlob, Enqueue, Record
  <2>2. \A q \in Revisions \ {r} : av'[q] = av[q]
    BY <1>1 DEF Precheck, ReserveRevision, RefuseRevision, PutRevision, CommitRevision,
       EnqueueRevision, AuditRevision, RevisionCallThrows, PutRevisionThrows,
       InsertRevisionRefused, InsertRevisionThrows, CommitRevisionThrows,
       RevisionTo, UndoRevision, Numbering, Shape
  <2> QED
    BY <2>1, <2>2
<1>2. CASE InsertRevision(r)
  BY <1>2 DEF InsertRevision, InsertVersion, Insert, Numbering, Shape
<1>3. ASSUME NEW call \in av[r].todo, SettleRevision(r, call)
      PROVE  /\ \A q \in Revisions \ {r} : av'[q] = av[q]
             /\ DOMAIN versions \ {Revision[r]} \subseteq DOMAIN versions'
             /\ blobs \ {Revision[r]} \subseteq blobs'
             /\ av[r].pc = "undo"
  <2>1. call \in {"release", "deleteBlob", "rollbackVersion"}
    BY DEF Numbering, Shape, Local, Calls
  <2>2. /\ DOMAIN versions \ {Revision[r]} \subseteq DOMAIN versions'
        /\ blobs \ {Revision[r]} \subseteq blobs'
    BY <1>3, <2>1 DEF SettleRevision, CompensateRevision, DeleteBlob, RollbackVersionInsert,
       Delete, DeleteAll
  <2>3. \A q \in Revisions \ {r} : av'[q] = av[q]
    BY <1>3 DEF SettleRevision, Numbering, Shape
  <2> QED
    BY <1>3, <2>2, <2>3 DEF Numbering, Shape, Progress
<1> QED
  BY <1>1, <1>2, <1>3 DEF RevisionStep

\* Where a request may be after a step, and what it has then stored.
LEMMA StepsKeepOwn ==
    ASSUME Numbering, Kept, NEW r \in Revisions, RevisionStep(r)
    PROVE  /\ av'[r].pc \in {"insert", "commit"} => Revision[r] \in blobs'
           /\ av'[r].pc = "commit" => Revision[r] \in DOMAIN versions'
           /\ r \in Charged' => r \in Charged \/ CommitRevision(r)
<1> USE DEF AtRevision
<1>1. CASE \/ Precheck(r) \/ ReserveRevision(r) \/ RefuseRevision(r)
           \/ EnqueueRevision(r) \/ AuditRevision(r) \/ RevisionCallThrows(r)
  <2>1. PICK pc : /\ av' = [av EXCEPT ![r].pc = pc]
                  /\ pc \notin {"insert", "commit"}
                  /\ pc \in {"enqueue", "audit", "ok"} => av[r].pc \in {"enqueue", "audit"}
                  /\ pc = "threw" => av[r].pc = "enqueue" \/ Pending(r)
    BY <1>1 DEF Precheck, ReserveRevision, RefuseRevision, EnqueueRevision, AuditRevision,
       RevisionCallThrows, RevisionTo, Pending
  <2>2. av'[r].pc = pc /\ av'[r].after = av[r].after /\ av'[r].previous = av[r].previous
    BY <2>1 DEF Numbering, Shape, Local
  <2> QED
    BY <2>1, <2>2 DEF Charged, Numbering, Shape, Progress
<1>2. CASE PutRevision(r)
  BY <1>2 DEF PutRevision, PutBlob, RevisionTo, Charged, Numbering, Shape, Local
<1>3. CASE InsertRevision(r)
  BY <1>3 DEF InsertRevision, InsertVersion, Insert, Charged, Kept, Numbering, Shape, Local
<1>4. CASE CommitRevision(r)
  BY <1>4 DEF CommitRevision, RevisionTo, Numbering, Shape, Local
<1>5. CASE PutRevisionThrows(r) \/ InsertRevisionRefused(r) \/ InsertRevisionThrows(r)
           \/ CommitRevisionThrows(r)
  <2>1. av'[r].pc = "undo"
    BY <1>5 DEF PutRevisionThrows, InsertRevisionRefused, InsertRevisionThrows,
       CommitRevisionThrows, UndoRevision, Numbering, Shape, Local
  <2> QED
    BY <2>1 DEF Charged
<1>6. ASSUME NEW call \in av[r].todo, SettleRevision(r, call)
      PROVE  \/ av'[r].pc \in {"undo", "refused"}
             \/ av'[r].pc = "threw" /\ av'[r].after = "threw"
  <2>1. av[r].pc = "undo" /\ av[r].after \in {"refused", "threw"}
    BY DEF Numbering, Shape, Progress, Local
  <2>2. PICK pc \in {"undo", av[r].after} :
            av' = [av EXCEPT ![r].todo = @ \ {call}, ![r].pc = pc]
    BY <1>6, <2>1 DEF SettleRevision
  <2>3. av'[r].pc = pc /\ av'[r].after = av[r].after
    BY <2>2 DEF Numbering, Shape, Local
  <2> QED
    BY <2>1, <2>2, <2>3
<1> QED
  BY <1>1, <1>2, <1>3, <1>4, <1>5, <1>6 DEF RevisionStep, Charged

\* The counter is only ever added to, and by a commit with its version's bytes.
LEMMA StepsAddToCounter ==
    ASSUME Numbering, Kept, NEW r \in Revisions, RevisionStep(r)
    PROVE  /\ used' \in [Tenants -> Nat] /\ used'[tenant] >= used[tenant]
           /\ CommitRevision(r) => used'[tenant] = used[tenant] + SizeOf(Revision[r])
<1>1. SizeOf(Revision[r]) \in Nat /\ tenant \in Tenants
  BY StoreAssumption, RevisionAssumption DEF SizeOf
<1>2. CASE used' = [used EXCEPT ![tenant] = @ + SizeOf(Revision[r])]
  BY <1>1, <1>2 DEF Kept
<1>3. CASE used' = used /\ ~CommitRevision(r)
  BY <1>1, <1>3 DEF Kept
<1>4. CASE CommitRevision(r) \/ CommitRevisionThrows(r)
  BY <1>2, <1>3, <1>4 DEF CommitRevision, CommitRevisionThrows, CommitReservation, ledgerVars,
     UndoRevision, RevisionTo, Numbering, Shape, Local
<1>5. CASE ~(CommitRevision(r) \/ CommitRevisionThrows(r))
  <2>1. ASSUME NEW call \in av[r].todo, SettleRevision(r, call) PROVE used' = used
    <3>1. call \in {"release", "deleteBlob", "rollbackVersion"}
      BY DEF Numbering, Shape, Local, Calls
    <3> QED
      BY <2>1, <3>1 DEF SettleRevision, CompensateRevision, ReleaseReservation, ledgerVars
  <2>2. used' = used
    BY <1>5, <2>1 DEF RevisionStep, Precheck, ReserveRevision, TryReserve, RefuseRevision, PutRevision,
       PutRevisionThrows, InsertRevision, InsertRevisionRefused, InsertRevisionThrows,
       RevisionCallThrows, EnqueueRevision, AuditRevision, ledgerVars
  <2> QED
    BY <1>3, <1>5, <2>2
<1> QED
  BY <1>4, <1>5

\* What a request has stored stays as long as it may be charged for it.
THEOREM KeptHolds == Spec => []Kept
<1>1. Init => Kept
  <2> SUFFICES ASSUME Init PROVE Kept
    OBVIOUS
  <2>1. ChargedIds = Seeded
    BY DEF Init, AddVersionInit, ChargedIds, Charged
  <2>2. StoredBytes(Seeded) \in Nat
    <3>1. IsFiniteSet(Seeded) /\ [i \in Seeded |-> SizeOf(i)] \in [Seeded -> Nat]
      BY IdsAssumption, StoreAssumption, FS_Subset DEF SizeOf
    <3> QED
      BY <3>1, TotalType DEF StoredBytes
  <2>3. used \in [Tenants -> Nat] /\ used[tenant] = StoredBytes(Seeded)
    BY <2>2, StoreAssumption DEF Init, StoreInit
  <2>4. Seeded \subseteq DOMAIN versions \cap blobs
    BY DEF Init, StoreInit
  <2> QED
    BY <2>1, <2>2, <2>3, <2>4 DEF Init, AddVersionInit, Kept, Charged
<1>2. Numbering /\ Kept /\ [Next]_vars => Kept'
  <2> SUFFICES ASSUME Numbering, Kept, [Next]_vars PROVE Kept'
    OBVIOUS
  <2>1. ASSUME NEW r \in Revisions, RevisionStep(r) PROVE Kept'
    <3>1. \A q \in Revisions \ {r} : Revision[q] # Revision[r]
      BY RevisionAssumption
    <3>2. Revision[r] \notin Seeded
      BY RevisionAssumption
    <3>3. \A q \in Revisions \ {r} : q \in Charged' <=> q \in Charged
      BY <2>1, StepsKeepOthers DEF Charged
    <3>4. r \in Charged' => Revision[r] \in DOMAIN versions' \cap blobs'
      <4>1. CASE r \in Charged
        <5>1. av[r].pc # "undo"
          BY <4>1 DEF Charged
        <5> QED
          BY <2>1, <4>1, <5>1, StepsKeepOthers DEF Kept
      <4>2. CASE CommitRevision(r)
        <5>1. av[r].pc = "commit"
          BY <4>2 DEF CommitRevision, AtRevision
        <5> QED
          BY <2>1, <5>1, StepsKeepOthers DEF Kept
      <4> QED
        BY <2>1, <4>1, <4>2, StepsKeepOwn
    <3>5. Seeded \subseteq DOMAIN versions' \cap blobs'
      BY <2>1, <3>2, StepsKeepOthers DEF Kept
    <3>6. \A q \in Revisions :
             /\ av'[q].pc \in {"insert", "commit"} => Revision[q] \in blobs'
             /\ av'[q].pc = "commit" => Revision[q] \in DOMAIN versions'
             /\ q \in Charged' => Revision[q] \in DOMAIN versions' \cap blobs'
      <4>1. ASSUME NEW q \in Revisions \ {r}
            PROVE  /\ av'[q].pc \in {"insert", "commit"} => Revision[q] \in blobs'
                   /\ av'[q].pc = "commit" => Revision[q] \in DOMAIN versions'
                   /\ q \in Charged' => Revision[q] \in DOMAIN versions' \cap blobs'
        BY <2>1, <3>1, <3>3, StepsKeepOthers DEF Kept
      <4> QED
        BY <2>1, <3>4, <4>1, StepsKeepOwn
    <3>7. used'[tenant] >= StoredBytes(ChargedIds')
      <4>1. ChargedIds \in SUBSET ReservationIds /\ ChargedIds' \in SUBSET ReservationIds
        BY StoreAssumption, RevisionAssumption DEF ChargedIds, Charged
      <4>2. CASE CommitRevision(r)
        <5>1. ChargedIds' \in SUBSET (ChargedIds \cup {Revision[r]})
          BY <3>3 DEF ChargedIds, Charged
        <5>2. StoredBytes(ChargedIds') <= StoredBytes(ChargedIds \cup {Revision[r]})
          BY <4>1, <5>1, RevisionAssumption, StoredBytesAdd
        <5>3. /\ StoredBytes(ChargedIds \cup {Revision[r]}) <= StoredBytes(ChargedIds) + SizeOf(Revision[r])
              /\ SizeOf(Revision[r]) \in Nat /\ StoredBytes(ChargedIds) \in Nat
              /\ StoredBytes(ChargedIds \cup {Revision[r]}) \in Nat /\ StoredBytes(ChargedIds') \in Nat
          BY <4>1, RevisionAssumption, StoredBytesAdd
        <5>4. used'[tenant] = used[tenant] + SizeOf(Revision[r]) /\ used[tenant] \in Nat
          BY <2>1, <4>2, StepsAddToCounter, StoreAssumption DEF Kept
        <5> QED
          BY <5>2, <5>3, <5>4 DEF Kept
      <4>3. CASE ~CommitRevision(r)
        <5>1. r \in Charged' => r \in Charged
          BY <2>1, <4>3, StepsKeepOwn
        <5>2. ChargedIds' \in SUBSET ChargedIds
          BY <3>3, <5>1 DEF ChargedIds, Charged
        <5>3. /\ StoredBytes(ChargedIds') <= StoredBytes(ChargedIds)
              /\ StoredBytes(ChargedIds) \in Nat /\ StoredBytes(ChargedIds') \in Nat
          BY <4>1, <5>2, RevisionAssumption, StoredBytesAdd
        <5>4. used'[tenant] >= used[tenant] /\ used[tenant] \in Nat /\ used'[tenant] \in Nat
          BY <2>1, StepsAddToCounter, StoreAssumption DEF Kept
        <5> QED
          BY <5>3, <5>4 DEF Kept
      <4> QED
        BY <4>2, <4>3
    <3> QED
      BY <2>1, <3>5, <3>6, <3>7, StepsAddToCounter DEF Kept
  <2>2. CASE UNCHANGED vars
    BY <2>2 DEF vars, ledgerVars, storeVars, Kept, Charged, ChargedIds
  <2> QED
    BY <2>1, <2>2 DEF Next, AddVersionNext
<1> QED
  BY <1>1, <1>2, NumberingHolds, PTL DEF Spec

\* A version whose commit succeeded keeps its row, its blob and its place in the
\* counter for good, whatever the other requests do and undo.
THEOREM ChargedStays == Spec => []ChargedVersionStays
<1>1. Kept => ChargedVersionStays
  <2> SUFFICES ASSUME Kept PROVE ChargedVersionStays
    OBVIOUS
  <2>1. ChargedIds \subseteq DOMAIN versions \cap blobs
    <3>1. \A r \in Charged : Revision[r] \in DOMAIN versions \cap blobs
      BY DEF Kept, Charged
    <3> QED
      BY <3>1 DEF Kept, ChargedIds
  <2>2. used[tenant] >= StoredBytes(ChargedIds)
    BY DEF Kept
  <2> QED
    BY <2>1, <2>2, Zenon DEF ChargedVersionStays, ChargedIds
<1> QED
  BY <1>1, KeptHolds, PTL
-----------------------------------------------------------------------------
(* What a request leaves behind. *)

RevisionIds == {Revision[r] : r \in Revisions}

\* The request has inserted its version.
HasReceipt(r) == av[r].previous # NoReceipt

\* Its commit threw.
Failed(r) ==
    /\ HasReceipt(r)
    /\ AtRevision(r, "undo") \/ (AtRevision(r, "threw") /\ av[r].after = "threw")

\* What a pc says of the receipt, and of what comes after a compensation.
Course(r) ==
    /\ av[r].pc \in {"commit", "enqueue", "audit", "ok"} => HasReceipt(r)
    /\ AtRevision(r, "refused") => ~HasReceipt(r)
    /\ av[r].pc \notin {"undo", "refused", "threw"} => av[r].after = "precheck"
    /\ AtRevision(r, "undo") /\ HasReceipt(r) => av[r].after = "threw"
    /\ "rollbackVersion" \in av[r].todo => HasReceipt(r)

\* A document's row is the one it started with, or that of a version added
\* since: no state but these two is ever written, or restored.
Proper(d, row) ==
    \/ row = SeededDocument(d)
    \/ row.currentVersionId \notin Seeded /\ row.processingState = "queued"

Origins ==
    /\ DOMAIN documents = Seeded
    /\ DOMAIN versions \cup blobs \subseteq Seeded \cup RevisionIds
    /\ \A s \in Seeded : versions[s].documentId = s /\ versions[s].versionNumber = 1
    /\ \A d \in Seeded : Proper(d, documents[d])
    /\ \A r \in Revisions : Revision[r] \in DOMAIN versions =>
          /\ HasReceipt(r)
          /\ versions[Revision[r]].documentId = Target[r]
          /\ versions[Revision[r]].versionNumber > 1
    /\ \A r \in Revisions : HasReceipt(r) =>
          /\ Target[r] \in Seeded /\ Proper(Target[r], av[r].previous)
          /\ \/ av[r].previous.currentVersionId \in Seeded
             \/ \E q \in Revisions \ {r} :
                   HasReceipt(q) /\ av[r].previous.currentVersionId = Revision[q]

\* What a request holds of the ledger, the blob store and the queue.
Holdings ==
    /\ DOMAIN reservations \subseteq RevisionIds
    /\ reservations = [id \in DOMAIN reservations |-> reservations[id]]
    /\ NeverThrew({"commitAnswer"}) => used[tenant] = StoredBytes(ChargedIds)
    /\ \A r \in Revisions :
          /\ av[r].pc \in {"audit", "ok"} => Target[r] \in queue
          /\ NeverThrew({"undo"}) /\ Revision[r] \in blobs =>
                av[r].pc \in {"insert", "commit"} \/ r \in Charged \/ "deleteBlob" \in av[r].todo
          /\ NeverThrew({"undo"}) /\ Revision[r] \in DOMAIN reservations =>
                av[r].pc \in {"put", "insert", "commit"} \/ "release" \in av[r].todo

\* At most one commit has thrown, and every compensating call so far worked.
Mended == NeverThrew({"undo", "commitAnswer"})
          /\ ("commit" \in FaultPoints => faults["commit"] <= 1)

\* Then at most one version is rolled back, and the version its receipt names
\* is there.
Failures ==
    /\ faults \in [FaultPoints -> Nat]
    /\ NeverThrew({"commitAnswer"}) =>
          \A r \in Revisions : Failed(r) => "commit" \in FaultPoints /\ faults["commit"] > 0
    /\ Mended =>
          /\ \A r, s \in Revisions : Failed(r) /\ Failed(s) => r = s
          /\ \A r \in Revisions : Failed(r) /\ "rollbackVersion" \notin av[r].todo =>
                Revision[r] \notin DOMAIN versions

Traces == (\A r \in Revisions : Course(r)) /\ Origins /\ Holdings /\ Failures

\* How a step takes its own request on; the others stay where they are.
Goings == {<<"precheck", "reserve">>, <<"precheck", "refused">>, <<"reserve", "put">>,
           <<"reserve", "refused">>, <<"reserve", "threw">>, <<"put", "insert">>,
           <<"commit", "enqueue">>, <<"enqueue", "audit">>, <<"enqueue", "threw">>,
           <<"audit", "ok">>}
Goes(r) ==
    /\ <<av[r].pc, av'[r].pc>> \in Goings
    /\ av'[r].todo = av[r].todo /\ av'[r].after = av[r].after
    /\ av'[r].previous = av[r].previous
Undoes(r) ==
    /\ av[r].pc \in {"put", "insert", "commit"} /\ av'[r].pc = "undo"
    /\ av'[r].after \in {"refused", "threw"} /\ av'[r].previous = av[r].previous
    /\ av[r].pc = "commit" => av'[r].after = "threw"
    /\ {"release", "deleteBlob"} \subseteq av'[r].todo
    /\ "rollbackVersion" \in av'[r].todo <=> av[r].pc = "commit"
Inserts(r) ==
    /\ av[r].pc = "insert" /\ av'[r].pc = "commit"
    /\ av'[r].todo = av[r].todo /\ av'[r].after = av[r].after
    /\ Target[r] \in DOMAIN documents /\ av'[r].previous = documents[Target[r]]
Settles(r, call) ==
    /\ av[r].pc = "undo" /\ call \in av[r].todo /\ av[r].after \in {"refused", "threw"}
    /\ av'[r].todo = av[r].todo \ {call}
    /\ av'[r].after = av[r].after /\ av'[r].previous = av[r].previous
    /\ av'[r].pc = "undo" \/ (av'[r].pc = av[r].after /\ av'[r].todo = {})

LEMMA RevisionGoes ==
    ASSUME Numbering, NEW r \in Revisions,
           \/ Precheck(r) \/ ReserveRevision(r) \/ RefuseRevision(r) \/ PutRevision(r)
           \/ CommitRevision(r) \/ EnqueueRevision(r) \/ AuditRevision(r) \/ RevisionCallThrows(r)
    PROVE  Goes(r)
<1>1. PICK pc : av' = [av EXCEPT ![r].pc = pc] /\ <<av[r].pc, pc>> \in Goings
  BY DEF Precheck, ReserveRevision, RefuseRevision, PutRevision, CommitRevision,
     EnqueueRevision, AuditRevision, RevisionCallThrows, AtRevision, RevisionTo, Goings
<1>2. av \in [Revisions -> Local]
  BY DEF Numbering, Shape
<1> QED
  BY <1>1, <1>2 DEF Goes, Local

LEMMA RevisionUndoes ==
    ASSUME Numbering, NEW r \in Revisions,
           \/ PutRevisionThrows(r) \/ InsertRevisionRefused(r) \/ InsertRevisionThrows(r)
           \/ CommitRevisionThrows(r)
    PROVE  Undoes(r)
<1>1. av \in [Revisions -> Local]
  BY DEF Numbering, Shape
<1>2. ASSUME NEW calls, NEW after, UndoRevision(r, calls, after)
      PROVE  /\ av'[r].pc = "undo" /\ av'[r].todo = calls /\ av'[r].after = after
             /\ av'[r].previous = av[r].previous
  BY <1>1, <1>2 DEF UndoRevision, Local
<1>3. CASE CommitRevisionThrows(r)
  <2>1. av[r].pc = "commit" /\ UndoRevision(r, {"release", "deleteBlob", "rollbackVersion"}, "threw")
    BY <1>3 DEF CommitRevisionThrows, AtRevision
  <2> QED
    BY <1>2, <2>1 DEF Undoes
<1>4. CASE PutRevisionThrows(r) \/ InsertRevisionRefused(r) \/ InsertRevisionThrows(r)
  <2>1. PICK after \in {"refused", "threw"} : UndoRevision(r, {"release", "deleteBlob"}, after)
    BY <1>4 DEF PutRevisionThrows, InsertRevisionRefused, InsertRevisionThrows
  <2>2. av[r].pc \in {"put", "insert"}
    BY <1>4 DEF PutRevisionThrows, InsertRevisionRefused, InsertRevisionThrows, AtRevision
  <2> QED
    BY <1>2, <2>1, <2>2 DEF Undoes
<1> QED
  BY <1>3, <1>4

LEMMA RevisionInserts ==
    ASSUME Numbering, NEW r \in Revisions, InsertRevision(r)
    PROVE  Inserts(r)
<1>1. av \in [Revisions -> Local]
  BY DEF Numbering, Shape
<1>2. /\ av[r].pc = "insert" /\ Target[r] \in DOMAIN documents
      /\ av' = [av EXCEPT ![r].pc = "commit", ![r].previous = documents[Target[r]]]
  BY DEF InsertRevision, InsertVersion, CanInsertVersion, AtRevision
<1> QED
  BY <1>1, <1>2 DEF Inserts, Local

LEMMA RevisionSettles ==
    ASSUME Numbering, NEW r \in Revisions, NEW call \in av[r].todo, SettleRevision(r, call)
    PROVE  Settles(r, call) /\ call \in Calls
<1>1. av \in [Revisions -> Local]
  BY DEF Numbering, Shape
<1>2. av[r].pc = "undo" /\ av[r].after \in {"refused", "threw"} /\ call \in Calls
  BY <1>1 DEF Numbering, Shape, Progress, Local
<1>3. av' = [av EXCEPT ![r].todo = @ \ {call},
                       ![r].pc = IF av[r].todo = {call} THEN av[r].after ELSE @]
  BY DEF SettleRevision
<1>4. /\ av'[r].todo = av[r].todo \ {call} /\ av'[r].after = av[r].after
      /\ av'[r].previous = av[r].previous
      /\ av'[r].pc = IF av[r].todo = {call} THEN av[r].after ELSE av[r].pc
  BY <1>1, <1>3 DEF Local
<1> QED
  BY <1>2, <1>4 DEF Settles

\* The receipts, the failures and the charges of the other requests stay.
LEMMA OthersTraces ==
    ASSUME Numbering, NEW r \in Revisions, RevisionStep(r), NEW q \in Revisions \ {r}
    PROVE  /\ av'[q] = av[q] /\ Revision[q] # Revision[r]
           /\ HasReceipt(q)' <=> HasReceipt(q)
           /\ Failed(q)' <=> Failed(q)
           /\ q \in Charged' <=> q \in Charged
<1>1. av'[q] = av[q]
  BY StepsKeepOthers
<1> QED
  BY <1>1, RevisionAssumption DEF HasReceipt, Failed, Charged, AtRevision

\* The receipt, the failure and the charge of the request that moves.
LEMMA OwnTraces ==
    ASSUME Numbering, Origins, NEW r \in Revisions, RevisionStep(r), Course(r)
    PROVE  /\ Course(r)'
           /\ HasReceipt(r)' <=> HasReceipt(r) \/ InsertRevision(r)
           /\ Failed(r)' <=> Failed(r) \/ CommitRevisionThrows(r)
           /\ r \in Charged' <=> r \in Charged \/ CommitRevision(r)
           /\ ~InsertRevision(r) => av'[r].previous = av[r].previous
<1> USE DEF AtRevision
<1>1. CASE \/ Precheck(r) \/ ReserveRevision(r) \/ RefuseRevision(r) \/ PutRevision(r)
           \/ CommitRevision(r) \/ EnqueueRevision(r) \/ AuditRevision(r) \/ RevisionCallThrows(r)
  <2>1. Goes(r)
    BY <1>1, RevisionGoes
  <2>2. CommitRevision(r) <=> av[r].pc = "commit"
    BY <1>1, <2>1 DEF Precheck, ReserveRevision, RefuseRevision, PutRevision, CommitRevision,
       EnqueueRevision, AuditRevision, RevisionCallThrows
  <2>3. ~InsertRevision(r) /\ ~CommitRevisionThrows(r)
    BY <2>1 DEF InsertRevision, CommitRevisionThrows, UndoRevision, Goes, Goings,
       Numbering, Shape, Local
  <2> QED
    BY <2>1, <2>2, <2>3 DEF Goes, Goings, Course, HasReceipt, Failed, Charged, Pending,
       Numbering, Shape, Progress
<1>2. CASE PutRevisionThrows(r) \/ InsertRevisionRefused(r) \/ InsertRevisionThrows(r)
           \/ CommitRevisionThrows(r)
  <2>1. Undoes(r)
    BY <1>2, RevisionUndoes
  <2>2. CommitRevisionThrows(r) <=> av[r].pc = "commit"
    BY <1>2, <2>1 DEF PutRevisionThrows, InsertRevisionRefused, InsertRevisionThrows,
       CommitRevisionThrows
  <2>3. ~InsertRevision(r) /\ ~CommitRevision(r)
    BY <2>1 DEF InsertRevision, CommitRevision, RevisionTo, Undoes, Numbering, Shape, Local
  <2> QED
    BY <2>1, <2>2, <2>3 DEF Undoes, Course, HasReceipt, Failed, Charged, Pending,
       Numbering, Shape, Progress
<1>3. CASE InsertRevision(r)
  <2>1. Inserts(r)
    BY <1>3, RevisionInserts
  <2>2. documents[Target[r]].processingState # "none"
    BY <2>1 DEF Inserts, Origins, Proper, SeededDocument
  <2>3. av'[r].previous # NoReceipt /\ av[r].previous = NoReceipt
    BY <2>1, <2>2 DEF Inserts, NoReceipt, Numbering, Shape, Progress, Pending
  <2>4. ~CommitRevision(r) /\ ~CommitRevisionThrows(r)
    BY <2>1 DEF Inserts, CommitRevision, CommitRevisionThrows
  <2> QED
    BY <1>3, <2>1, <2>3, <2>4 DEF Inserts, Course, HasReceipt, Failed, Charged
<1>4. ASSUME NEW call \in av[r].todo, SettleRevision(r, call)
      PROVE  /\ Course(r)'
             /\ HasReceipt(r)' <=> HasReceipt(r) \/ InsertRevision(r)
             /\ Failed(r)' <=> Failed(r) \/ CommitRevisionThrows(r)
             /\ r \in Charged' <=> r \in Charged \/ CommitRevision(r)
             /\ ~InsertRevision(r) => av'[r].previous = av[r].previous
  <2>1. Settles(r, call)
    BY <1>4, RevisionSettles
  <2>2. ~InsertRevision(r) /\ ~CommitRevision(r) /\ ~CommitRevisionThrows(r)
    BY <2>1 DEF Settles, InsertRevision, CommitRevision, CommitRevisionThrows
  <2> QED
    BY <2>1, <2>2 DEF Settles, Course, HasReceipt, Failed, Charged
<1> QED
  BY <1>1, <1>2, <1>3, <1>4 DEF RevisionStep

\* What has thrown has thrown.
LEMMA FaultsMount ==
    ASSUME Failures, NEW r \in Revisions, RevisionStep(r)
    PROVE  /\ faults' \in [FaultPoints -> Nat]
           /\ \A p \in FaultPoints : faults'[p] >= faults[p]
           /\ \A points : NeverThrew(points)' => NeverThrew(points)
           /\ Mended' => Mended
<1>1. faults' = faults \/ \E p : Throws(p)
  BY DEF RevisionStep, Precheck, ReserveRevision, RefuseRevision, PutRevision,
     PutRevisionThrows, InsertRevision, InsertRevisionRefused, InsertRevisionThrows,
     CommitRevision, CommitRevisionThrows, RevisionCallThrows, SettleRevision,
     EnqueueRevision, AuditRevision, Record
<1>2. faults' \in [FaultPoints -> Nat] /\ \A p \in FaultPoints : faults'[p] >= faults[p]
  BY <1>1 DEF Failures, Throws
<1>3. \A points : NeverThrew(points)' => NeverThrew(points)
  BY <1>2 DEF NeverThrew, Failures
<1>4. "commit" \in FaultPoints /\ faults'["commit"] <= 1 => faults["commit"] <= 1
  BY <1>2 DEF Failures
<1> QED
  BY <1>2, <1>3, <1>4 DEF Mended

\* Where rows come from, when a step writes none of them.
LEMMA QuietOrigins ==
    ASSUME Numbering, Origins, \A q \in Revisions : Course(q),
           NEW r \in Revisions, RevisionStep(r), ~InsertRevision(r),
           documents' = documents, versions' = versions, blobs' \subseteq blobs \cup {Revision[r]}
    PROVE  Origins'
<1>1. \A q \in Revisions : /\ HasReceipt(q)' <=> HasReceipt(q)
                           /\ av'[q].previous = av[q].previous
  BY OthersTraces, OwnTraces
<1>2. DOMAIN versions' \cup blobs' \subseteq Seeded \cup RevisionIds
  BY DEF Origins, RevisionIds
<1>3. \A q \in Revisions : HasReceipt(q)' =>
         /\ Target[q] \in Seeded /\ Proper(Target[q], av'[q].previous)
         /\ \/ av'[q].previous.currentVersionId \in Seeded
            \/ \E p \in Revisions \ {q} :
                  HasReceipt(p)' /\ av'[q].previous.currentVersionId = Revision[p]
  BY <1>1 DEF Origins
<1> QED
  BY <1>1, <1>2, <1>3 DEF Origins, Proper

\* An insert writes a row of its own, above the others', and its receipt is of
\* a version that is there.
LEMMA InsertOrigins ==
    ASSUME Numbering, Origins, \A q \in Revisions : Course(q), Seeded \subseteq DOMAIN versions,
           NEW r \in Revisions, InsertRevision(r)
    PROVE  Origins'
<1> DEFINE d == Target[r]
           id == Revision[r]
           n == NextVersionNumber(d)
<1>1. /\ d \in DOMAIN documents /\ id \notin DOMAIN versions
      /\ versions' = Insert(versions, id, NewVersion(d, n))
      /\ documents' = [documents EXCEPT ![d] = [currentVersionId |-> id, processingState |-> "queued"]]
      /\ blobs' = blobs /\ RevisionStep(r)
  BY DEF InsertRevision, InsertVersion, CanInsertVersion, ContentStored, RevisionStep
<1>2. n \in Nat /\ \A v \in VersionsOf(d) : versions[v].versionNumber < n
  BY NextNumberIsNext DEF Numbering
<1>3. /\ DOMAIN versions' = DOMAIN versions \cup {id}
      /\ versions'[id].documentId = d /\ versions'[id].versionNumber = n
      /\ \A v \in DOMAIN versions : versions'[v] = versions[v]
  BY <1>1 DEF Insert, NewVersion
<1>4. d \in Seeded /\ id \notin Seeded /\ Inserts(r)
  BY <1>1, RevisionAssumption, RevisionInserts DEF Origins
<1>5. n > 1
  <2>1. d \in VersionsOf(d) /\ versions[d].versionNumber = 1
    BY <1>4 DEF Origins, VersionsOf
  <2> HIDE DEF d, n
  <2> QED
    BY <1>2, <2>1
<1>6. \A q \in Revisions \ {r} : Revision[q] # id /\ av'[q] = av[q]
                                  /\ (HasReceipt(q)' <=> HasReceipt(q))
  BY <1>1, OthersTraces
<1>7. HasReceipt(r)' /\ av'[r].previous = documents[d]
  BY <1>1, <1>4, OwnTraces DEF Inserts
<1>8. \A e \in Seeded : Proper(e, documents'[e])
  <2>1. Proper(d, documents'[d])
    BY <1>1, <1>4 DEF Proper
  <2>2. \A e \in Seeded \ {d} : documents'[e] = documents[e]
    BY <1>1 DEF Origins
  <2> QED
    BY <2>1, <2>2 DEF Origins
<1>9. \A q \in Revisions : Revision[q] \in DOMAIN versions' =>
         /\ HasReceipt(q)'
         /\ versions'[Revision[q]].documentId = Target[q]
         /\ versions'[Revision[q]].versionNumber > 1
  BY <1>3, <1>5, <1>6, <1>7 DEF Origins
<1>10. \/ documents[d].currentVersionId \in Seeded
       \/ \E q \in Revisions \ {r} :
             HasReceipt(q) /\ documents[d].currentVersionId = Revision[q]
  <2>1. documents[d].currentVersionId \in DOMAIN versions
    BY <1>1 DEF Numbering, CurrentIsStored
  <2>2. CASE documents[d].currentVersionId \in RevisionIds
    <3>1. PICK q \in Revisions : documents[d].currentVersionId = Revision[q]
      BY <2>2 DEF RevisionIds
    <3> QED
      BY <1>1, <2>1, <3>1 DEF Origins
  <2> QED
    BY <2>1, <2>2 DEF Origins
<1>11. ASSUME NEW q \in Revisions, HasReceipt(q)'
       PROVE  /\ Target[q] \in Seeded /\ Proper(Target[q], av'[q].previous)
              /\ \/ av'[q].previous.currentVersionId \in Seeded
                 \/ \E p \in Revisions \ {q} :
                       HasReceipt(p)' /\ av'[q].previous.currentVersionId = Revision[p]
  <2>1. CASE q = r
    BY <1>4, <1>6, <1>7, <1>10, <2>1 DEF Origins
  <2>2. CASE q # r
    BY <1>6, <1>7, <1>11, <2>2 DEF Origins
  <2> QED
    BY <2>1, <2>2
<1>12. DOMAIN documents' = Seeded
  BY <1>1 DEF Origins
<1>13. /\ DOMAIN versions' \cup blobs' \subseteq Seeded \cup RevisionIds
       /\ \A s \in Seeded : versions'[s].documentId = s /\ versions'[s].versionNumber = 1
  <2>1. id \in RevisionIds
    BY DEF RevisionIds
  <2>2. \A s \in Seeded : versions'[s] = versions[s]
    BY <1>3
  <2> QED
    BY <1>1, <1>3, <2>1, <2>2 DEF Origins
<1> QED
  BY <1>8, <1>9, <1>11, <1>12, <1>13 DEF Origins, Proper

\* A rollback restores a receipt or nothing.
LEMMA RollbackOrigins ==
    ASSUME Numbering, Origins, \A q \in Revisions : Course(q), Seeded \subseteq DOMAIN versions,
           NEW r \in Revisions, SettleRevision(r, "rollbackVersion"),
           "rollbackVersion" \in av[r].todo,
           RollbackVersionInsert(Target[r], Revision[r], av[r].previous)
    PROVE  Origins'
<1>1. RevisionStep(r) /\ ~InsertRevision(r)
  BY RevisionSettles DEF RevisionStep, Settles, InsertRevision, AtRevision
<1>2. HasReceipt(r) /\ Target[r] \in Seeded /\ Proper(Target[r], av[r].previous)
  BY DEF Course, Origins
<1>3. \A q \in Revisions : /\ HasReceipt(q)' <=> HasReceipt(q)
                           /\ av'[q].previous = av[q].previous
  BY <1>1, OthersTraces, OwnTraces
<1>4. /\ DOMAIN versions' \subseteq DOMAIN versions
      /\ \A v \in DOMAIN versions' : versions'[v] = versions[v]
      /\ Seeded \subseteq DOMAIN versions' /\ blobs' = blobs
  BY RevisionAssumption DEF RollbackVersionInsert, Delete, DeleteAll, storeVars
<1>5. /\ DOMAIN documents' = DOMAIN documents
      /\ \A d \in Seeded : documents'[d] = documents[d] \/ (d = Target[r] /\ documents'[d] = av[r].previous)
  BY DEF RollbackVersionInsert, storeVars, Origins
<1>6. \A d \in Seeded : Proper(d, documents'[d])
  BY <1>2, <1>5 DEF Origins
<1>7. \A q \in Revisions : HasReceipt(q)' =>
         /\ Target[q] \in Seeded /\ Proper(Target[q], av'[q].previous)
         /\ \/ av'[q].previous.currentVersionId \in Seeded
            \/ \E p \in Revisions \ {q} :
                  HasReceipt(p)' /\ av'[q].previous.currentVersionId = Revision[p]
  BY <1>3 DEF Origins
<1>8. /\ DOMAIN versions' \cup blobs' \subseteq Seeded \cup RevisionIds
      /\ \A s \in Seeded : versions'[s].documentId = s /\ versions'[s].versionNumber = 1
      /\ \A q \in Revisions : Revision[q] \in DOMAIN versions' =>
            /\ HasReceipt(q)'
            /\ versions'[Revision[q]].documentId = Target[q]
            /\ versions'[Revision[q]].versionNumber > 1
  BY <1>3, <1>4 DEF Origins
<1> QED
  BY <1>5, <1>6, <1>7, <1>8 DEF Origins, Proper

LEMMA OriginsStep ==
    ASSUME Numbering, Kept, Traces, NEW r \in Revisions, RevisionStep(r)
    PROVE  Origins'
<1> USE DEF Traces
<1>1. Seeded \subseteq DOMAIN versions
  BY DEF Kept
<1>2. CASE InsertRevision(r)
  BY <1>1, <1>2, InsertOrigins
<1>3. ASSUME NEW call \in av[r].todo, SettleRevision(r, call) PROVE Origins'
  <2>1. call \in Calls /\ ~InsertRevision(r)
    BY <1>3, RevisionSettles DEF Settles, InsertRevision, AtRevision
  <2>2. CASE RollbackVersionInsert(Target[r], Revision[r], av[r].previous) /\ call = "rollbackVersion"
    BY <1>1, <1>3, <2>2, RollbackOrigins
  <2>3. CASE documents' = documents /\ versions' = versions /\ blobs' \subseteq blobs
    BY <1>3, <2>1, <2>3, QuietOrigins
  <2> QED
    BY <1>3, <2>1, <2>2, <2>3 DEF SettleRevision, CompensateRevision, Calls, DeleteBlob, storeVars
<1>4. CASE \/ Precheck(r) \/ ReserveRevision(r) \/ RefuseRevision(r) \/ PutRevision(r)
           \/ PutRevisionThrows(r) \/ InsertRevisionRefused(r) \/ InsertRevisionThrows(r)
           \/ CommitRevision(r) \/ CommitRevisionThrows(r) \/ RevisionCallThrows(r)
           \/ EnqueueRevision(r) \/ AuditRevision(r)
  <2>1. documents' = documents /\ versions' = versions /\ blobs' \subseteq blobs \cup {Revision[r]}
    BY <1>4 DEF Precheck, ReserveRevision, RefuseRevision, PutRevision, PutRevisionThrows,
       InsertRevisionRefused, InsertRevisionThrows, CommitRevision, CommitRevisionThrows,
       RevisionCallThrows, EnqueueRevision, AuditRevision, PutBlob, Enqueue, Record, storeVars
  <2> QED
    BY <1>2, <2>1, QuietOrigins
<1> QED
  BY <1>2, <1>3, <1>4 DEF RevisionStep

\* What a step does to the stores that it does not write rows in.
LEMMA StoresTouched ==
    ASSUME Numbering, Holdings, NEW r \in Revisions, RevisionStep(r)
    PROVE  /\ queue \subseteq queue'
           /\ blobs' \subseteq blobs \cup {Revision[r]}
           /\ DOMAIN reservations' \subseteq DOMAIN reservations \cup {Revision[r]}
           /\ reservations' = [id \in DOMAIN reservations' |-> reservations'[id]]
<1> USE DEF Holdings
<1>1. CASE \/ Precheck(r) \/ ReserveRevision(r) \/ RefuseRevision(r) \/ PutRevision(r)
           \/ PutRevisionThrows(r) \/ InsertRevision(r) \/ InsertRevisionRefused(r)
           \/ InsertRevisionThrows(r) \/ CommitRevision(r) \/ CommitRevisionThrows(r)
           \/ RevisionCallThrows(r) \/ EnqueueRevision(r) \/ AuditRevision(r)
  <2>1. queue \subseteq queue' /\ blobs' \subseteq blobs \cup {Revision[r]}
    BY <1>1 DEF Precheck, ReserveRevision, RefuseRevision, PutRevision, PutRevisionThrows,
       InsertRevision, InsertVersion, InsertRevisionRefused, InsertRevisionThrows,
       CommitRevision, CommitRevisionThrows, RevisionCallThrows, EnqueueRevision,
       AuditRevision, PutBlob, Enqueue, Record, storeVars
  <2>2. \/ reservations' = reservations
        \/ \E row : reservations' = Insert(reservations, Revision[r], row)
        \/ reservations' = Delete(reservations, Revision[r])
    BY <1>1 DEF Precheck, ReserveRevision, RefuseRevision, PutRevision, PutRevisionThrows,
       InsertRevision, InsertRevisionRefused, InsertRevisionThrows, CommitRevision,
       CommitRevisionThrows, RevisionCallThrows, EnqueueRevision, AuditRevision, TryReserve,
       CommitReservation, ledgerVars
  <2> QED
    BY <2>1, <2>2 DEF Insert, Delete, DeleteAll
<1>2. ASSUME NEW call \in av[r].todo, SettleRevision(r, call)
      PROVE  /\ queue' = queue /\ blobs' \subseteq blobs
             /\ reservations' = reservations \/ reservations' = Delete(reservations, Revision[r])
  <2>1. call \in Calls
    BY <1>2, RevisionSettles
  <2> QED
    BY <1>2, <2>1 DEF SettleRevision, CompensateRevision, Calls, DeleteBlob,
       RollbackVersionInsert, ReleaseReservation, storeVars, ledgerVars
<1>3. ASSUME reservations' = reservations \/ reservations' = Delete(reservations, Revision[r])
      PROVE  /\ DOMAIN reservations' \subseteq DOMAIN reservations \cup {Revision[r]}
             /\ reservations' = [id \in DOMAIN reservations' |-> reservations'[id]]
  BY <1>3 DEF Delete, DeleteAll
<1> QED
  BY <1>1, <1>2, <1>3 DEF RevisionStep

\* What a request holds follows its pc.
LEMMA OwnHoldings ==
    ASSUME Numbering, Traces, NEW r \in Revisions, RevisionStep(r)
    PROVE  /\ av'[r].pc \in {"audit", "ok"} => Target[r] \in queue'
           /\ NeverThrew({"undo"})' /\ Revision[r] \in blobs' =>
                 \/ av'[r].pc \in {"insert", "commit"} \/ r \in Charged'
                 \/ "deleteBlob" \in av'[r].todo
           /\ NeverThrew({"undo"})' /\ Revision[r] \in DOMAIN reservations' =>
                 av'[r].pc \in {"put", "insert", "commit"} \/ "release" \in av'[r].todo
<1> USE DEF Traces, AtRevision
<1>1. /\ NeverThrew({"undo"})' => NeverThrew({"undo"})
      /\ r \in Charged' <=> r \in Charged \/ CommitRevision(r)
      /\ Charged \subseteq Revisions /\ Course(r) /\ Holdings
  BY FaultsMount, OwnTraces DEF Charged
<1>2. CASE Precheck(r) \/ ReserveRevision(r) \/ RefuseRevision(r) \/ PutRevision(r)
           \/ CommitRevision(r) \/ EnqueueRevision(r) \/ AuditRevision(r) \/ RevisionCallThrows(r)
  <2>1. Goes(r) /\ av[r].todo = {}
    <3>1. Goes(r)
      BY <1>2, RevisionGoes
    <3> QED
      BY <3>1 DEF Goes, Goings, Numbering, Shape, Progress
  <2>2. av'[r].pc \in {"audit", "ok"} => Target[r] \in queue'
    <3>1. CASE av'[r].pc = "audit"
      <4>1. av[r].pc = "enqueue" /\ av'[r].pc # "threw"
        BY <2>1, <3>1 DEF Goes, Goings
      <4>2. av \in [Revisions -> Local]
        BY DEF Numbering, Shape
      <4>3. EnqueueRevision(r)
        BY <1>2, <4>1, <4>2 DEF Precheck, ReserveRevision, RefuseRevision, PutRevision,
           CommitRevision, AuditRevision, RevisionCallThrows, RevisionTo, Local
      <4> QED
        BY <4>3 DEF EnqueueRevision, Enqueue
    <3>2. CASE av'[r].pc = "ok"
      BY <1>1, <2>1, <3>2, StoresTouched DEF Goes, Goings, Holdings
    <3> QED
      BY <3>1, <3>2
  <2>3. CASE PutRevision(r)
    <3>1. av[r].pc = "put" /\ av'[r].pc = "insert"
      BY <2>1, <2>3 DEF PutRevision, Goes, Goings
    <3> QED
      BY <3>1
  <2>4. CASE ~PutRevision(r)
    <3>1. blobs' = blobs
      BY <1>2, <2>4 DEF Precheck, ReserveRevision, RefuseRevision, CommitRevision,
         EnqueueRevision, AuditRevision, RevisionCallThrows, Enqueue, Record, storeVars
    <3>2. av[r].pc = "put" => PutRevision(r)
      BY <1>2 DEF Precheck, ReserveRevision, RefuseRevision, CommitRevision,
         EnqueueRevision, AuditRevision, RevisionCallThrows
    <3>3. av[r].pc = "commit" => CommitRevision(r)
      BY <1>2 DEF Precheck, ReserveRevision, RefuseRevision, PutRevision,
         EnqueueRevision, AuditRevision, RevisionCallThrows
    <3>4. NeverThrew({"undo"})' /\ Revision[r] \in blobs' => r \in Charged'
      BY <1>1, <2>1, <2>4, <3>1, <3>2, <3>3 DEF Holdings, Goes, Goings
    <3>5. NeverThrew({"undo"})' /\ Revision[r] \in DOMAIN reservations' => av'[r].pc = "put"
      <4>1. CASE ReserveRevision(r)
        BY <2>1, <4>1 DEF ReserveRevision, RevisionTo, Numbering, Shape, Local
      <4>2. CASE CommitRevision(r)
        BY <4>2 DEF CommitRevision, CommitReservation, Delete, DeleteAll
      <4>3. CASE ~ReserveRevision(r) /\ ~CommitRevision(r)
        <5>1. reservations' = reservations
          BY <1>2, <4>3 DEF Precheck, RefuseRevision, PutRevision, EnqueueRevision,
             AuditRevision, RevisionCallThrows, ledgerVars
        <5> QED
          BY <1>1, <2>1, <2>4, <3>2, <3>3, <4>3, <5>1 DEF Holdings, Goes, Goings
      <4> QED
        BY <4>1, <4>2, <4>3
    <3> QED
      BY <2>2, <3>4, <3>5
  <2> QED
    BY <2>2, <2>3, <2>4
<1>3. CASE PutRevisionThrows(r) \/ InsertRevisionRefused(r) \/ InsertRevisionThrows(r)
           \/ CommitRevisionThrows(r)
  <2>1. Undoes(r)
    BY <1>3, RevisionUndoes
  <2> QED
    BY <2>1 DEF Undoes
<1>4. CASE InsertRevision(r)
  BY <1>4, RevisionInserts DEF Inserts
<1>5. ASSUME NEW call \in av[r].todo, SettleRevision(r, call)
      PROVE  /\ ~(av'[r].pc \in {"audit", "ok"})
             /\ NeverThrew({"undo"})' /\ Revision[r] \in blobs' => "deleteBlob" \in av'[r].todo
             /\ NeverThrew({"undo"})' /\ Revision[r] \in DOMAIN reservations' =>
                   "release" \in av'[r].todo
  <2>1. Settles(r, call) /\ call \in Calls
    BY <1>5, RevisionSettles
  <2>2. NeverThrew({"undo"})' => CompensateRevision(r, call)
    BY <1>5 DEF SettleRevision, Throws, NeverThrew, Failures
  <2>3. NeverThrew({"undo"})' =>
           /\ call = "deleteBlob" => Revision[r] \notin blobs'
           /\ call # "deleteBlob" => blobs' = blobs
           /\ call = "release" => Revision[r] \notin DOMAIN reservations'
           /\ call # "release" => reservations' = reservations
    BY <2>1, <2>2 DEF CompensateRevision, Calls, DeleteBlob, ReleaseReservation, Delete,
       DeleteAll, RollbackVersionInsert, storeVars, ledgerVars
  <2>4. r \notin Charged
    BY <2>1 DEF Settles, Charged
  <2> QED
    BY <1>1, <2>1, <2>3, <2>4 DEF Settles, Holdings
<1> QED
  BY <1>2, <1>3, <1>4, <1>5 DEF RevisionStep

\* The bytes of one more attempt.
LEMMA StoredBytesOfNew ==
    ASSUME NEW S \in SUBSET ReservationIds, NEW id \in ReservationIds \ S
    PROVE  StoredBytes(S \cup {id}) = StoredBytes(S) + SizeOf(id)
<1> DEFINE all == S \cup {id}
           b == [i \in all |-> SizeOf(i)]
<1>1. \A i \in ReservationIds : SizeOf(i) \in Nat
  BY StoreAssumption DEF SizeOf
<1>2. IsFiniteSet(all) /\ b \in [all -> Nat]
  BY <1>1, IdsAssumption, FS_Subset
<1>3. TotalBytes(b) = TotalBytes([x \in all \ {id} |-> b[x]]) + b[id]
  BY <1>2, TotalRemove
<1>4. [x \in all \ {id} |-> b[x]] = [x \in S |-> SizeOf(x)] /\ b[id] = SizeOf(id)
  BY all \ {id} = S
<1> QED
  BY <1>3, <1>4 DEF StoredBytes

\* The counter moves with a commit, and with one whose answer is lost.
LEMMA CounterStays ==
    ASSUME Numbering, NEW r \in Revisions, RevisionStep(r),
           ~CommitRevision(r), ~Throws("commitAnswer")
    PROVE  used' = used
<1>1. ASSUME NEW call \in av[r].todo, SettleRevision(r, call) PROVE used' = used
  <2>1. call \in Calls
    BY <1>1, RevisionSettles
  <2> QED
    BY <1>1, <2>1 DEF SettleRevision, CompensateRevision, Calls, ReleaseReservation, ledgerVars
<1> QED
  BY <1>1 DEF RevisionStep, Precheck, ReserveRevision, TryReserve, RefuseRevision, PutRevision,
     PutRevisionThrows, InsertRevision, InsertRevisionRefused, InsertRevisionThrows,
     CommitRevisionThrows, RevisionCallThrows, EnqueueRevision, AuditRevision, ledgerVars

LEMMA HoldingsStep ==
    ASSUME Numbering, Kept, Traces, NEW r \in Revisions, RevisionStep(r)
    PROVE  Holdings'
<1> USE DEF Traces
<1>1. /\ DOMAIN reservations' \subseteq RevisionIds
      /\ reservations' = [id \in DOMAIN reservations' |-> reservations'[id]]
  BY StoresTouched DEF Holdings, RevisionIds
<1>2. \A q \in Revisions : q \in Charged' <=> q \in Charged \/ (q = r /\ CommitRevision(r))
  BY OthersTraces, OwnTraces
<1>3. ASSUME NeverThrew({"commitAnswer"})' PROVE used'[tenant] = StoredBytes(ChargedIds')
  <2>1. NeverThrew({"commitAnswer"}) /\ ~Throws("commitAnswer")
    BY <1>3, FaultsMount DEF NeverThrew, Throws, Failures
  <2>2. used[tenant] = StoredBytes(ChargedIds)
    BY <2>1 DEF Holdings
  <2>3. CASE CommitRevision(r)
    <3>1. r \notin Charged /\ Revision[r] \in ReservationIds
      BY <2>3, RevisionAssumption DEF CommitRevision, AtRevision, Charged
    <3>2. Revision[r] \notin ChargedIds
      BY <3>1, RevisionAssumption DEF ChargedIds, Charged
    <3>3. ChargedIds' = ChargedIds \cup {Revision[r]}
      BY <1>2, <2>3 DEF ChargedIds, Charged
    <3> QED
      BY <2>2, <2>3, <3>1, <3>2, <3>3, ChargedIdsAreIds, StoredBytesOfNew, StepsAddToCounter
  <2>4. CASE ~CommitRevision(r)
    <3>1. used' = used
      BY <2>1, <2>4, CounterStays
    <3>2. ChargedIds' = ChargedIds
      BY <1>2, <2>4 DEF ChargedIds, Charged
    <3> QED
      BY <2>2, <3>1, <3>2
  <2> QED
    BY <2>3, <2>4
<1>4. ASSUME NEW q \in Revisions \ {r}
      PROVE  /\ av'[q].pc \in {"audit", "ok"} => Target[q] \in queue'
             /\ NeverThrew({"undo"})' /\ Revision[q] \in blobs' =>
                   \/ av'[q].pc \in {"insert", "commit"} \/ q \in Charged'
                   \/ "deleteBlob" \in av'[q].todo
             /\ NeverThrew({"undo"})' /\ Revision[q] \in DOMAIN reservations' =>
                   av'[q].pc \in {"put", "insert", "commit"} \/ "release" \in av'[q].todo
  <2>1. /\ av'[q] = av[q] /\ Revision[q] # Revision[r] /\ (q \in Charged' <=> q \in Charged)
    BY OthersTraces
  <2>2. NeverThrew({"undo"})' => NeverThrew({"undo"})
    BY FaultsMount
  <2> QED
    BY <2>1, <2>2, StoresTouched DEF Holdings
<1> QED
  BY <1>1, <1>3, <1>4, OwnHoldings DEF Holdings, AtRevision

\* Only an insert adds a version.
LEMMA VersionsTouched ==
    ASSUME Numbering, NEW r \in Revisions, RevisionStep(r)
    PROVE  /\ DOMAIN versions' \subseteq DOMAIN versions \cup {Revision[r]}
           /\ ~InsertRevision(r) => DOMAIN versions' \subseteq DOMAIN versions
<1>1. ASSUME NEW call \in av[r].todo, SettleRevision(r, call)
      PROVE  DOMAIN versions' \subseteq DOMAIN versions
  <2>1. call \in Calls
    BY <1>1, RevisionSettles
  <2> QED
    BY <1>1, <2>1 DEF SettleRevision, CompensateRevision, Calls, DeleteBlob,
       RollbackVersionInsert, Delete, DeleteAll, storeVars
<1>2. CASE InsertRevision(r)
  BY <1>2 DEF InsertRevision, InsertVersion, Insert
<1>3. CASE \/ Precheck(r) \/ ReserveRevision(r) \/ RefuseRevision(r) \/ PutRevision(r)
           \/ PutRevisionThrows(r) \/ InsertRevisionRefused(r) \/ InsertRevisionThrows(r)
           \/ CommitRevision(r) \/ CommitRevisionThrows(r) \/ RevisionCallThrows(r)
           \/ EnqueueRevision(r) \/ AuditRevision(r)
  BY <1>3 DEF Precheck, ReserveRevision, RefuseRevision, PutRevision, PutRevisionThrows,
     InsertRevisionRefused, InsertRevisionThrows, CommitRevision, CommitRevisionThrows,
     RevisionCallThrows, EnqueueRevision, AuditRevision, PutBlob, Enqueue, Record, storeVars
<1> QED
  BY <1>1, <1>2, <1>3 DEF RevisionStep

\* A request being undone does what is left to undo, and a call leaves the list
\* by being made.
LEMMA OnlySettles ==
    ASSUME Numbering, NEW r \in Revisions, RevisionStep(r),
           NEW call \in av[r].todo, call \notin av'[r].todo
    PROVE  SettleRevision(r, call)
<1>1. av[r].pc = "undo"
  BY DEF Numbering, Shape, Progress
<1>2. PICK made \in av[r].todo : SettleRevision(r, made)
  BY <1>1 DEF RevisionStep, Precheck, ReserveRevision, RefuseRevision, PutRevision,
     PutRevisionThrows, InsertRevision, InsertRevisionRefused, InsertRevisionThrows,
     CommitRevision, CommitRevisionThrows, RevisionCallThrows, EnqueueRevision, AuditRevision,
     AtRevision
<1>3. av'[r].todo = av[r].todo \ {made}
  BY <1>2, RevisionSettles DEF Settles
<1> QED
  BY <1>2, <1>3

\* The version that the receipt of the one failed request names is there: it
\* was inserted, and nobody but its own request, which has not failed, deletes it.
LEMMA ReceiptIsThere ==
    ASSUME Numbering, Kept, Traces, Mended, NEW r \in Revisions, Failed(r)
    PROVE  av[r].previous.currentVersionId \in DOMAIN versions
<1> USE DEF Traces
<1>1. CASE av[r].previous.currentVersionId \in Seeded
  BY <1>1 DEF Kept
<1>2. CASE av[r].previous.currentVersionId \notin Seeded
  <2>1. PICK q \in Revisions \ {r} :
            HasReceipt(q) /\ av[r].previous.currentVersionId = Revision[q]
    BY <1>2 DEF Origins, Failed
  <2>2. ~Failed(q)
    BY DEF Failures
  <2>3. av[q] \in Local /\ ~Pending(q)
    BY <2>1 DEF Numbering, Shape, Progress, HasReceipt
  <2>4. av[q].pc = "commit" \/ q \in Charged
    BY <2>1, <2>2, <2>3 DEF Failed, Charged, HasReceipt, Course, AtRevision, Pending, Local, Pcs
  <2> QED
    BY <2>1, <2>4 DEF Kept
<1> QED
  BY <1>1, <1>2

LEMMA FailuresStep ==
    ASSUME Numbering, Kept, Traces, NEW r \in Revisions, RevisionStep(r)
    PROVE  Failures'
<1> USE DEF Traces
<1>1. /\ faults' \in [FaultPoints -> Nat]
      /\ \A p \in FaultPoints : faults'[p] >= faults[p]
      /\ NeverThrew({"commitAnswer"})' => NeverThrew({"commitAnswer"})
      /\ Mended' => Mended
  BY FaultsMount
<1>2. \A q \in Revisions : Failed(q)' <=> Failed(q) \/ (q = r /\ CommitRevisionThrows(r))
  BY OthersTraces, OwnTraces
<1>3. ASSUME NeverThrew({"commitAnswer"})', CommitRevisionThrows(r)
      PROVE  "commit" \in FaultPoints /\ faults'["commit"] = faults["commit"] + 1
  BY <1>1, <1>3 DEF CommitRevisionThrows, Throws, NeverThrew, Failures
<1>4. ASSUME NeverThrew({"commitAnswer"})', NEW q \in Revisions, Failed(q)'
      PROVE  "commit" \in FaultPoints /\ faults'["commit"] > 0
  <2>1. CASE Failed(q)
    BY <1>1, <1>4, <2>1 DEF Failures
  <2>2. CASE q = r /\ CommitRevisionThrows(r)
    BY <1>1, <1>3, <1>4, <2>2 DEF Failures
  <2> QED
    BY <1>2, <1>4, <2>1, <2>2
<1>5. ASSUME Mended'
      PROVE  /\ Mended /\ NeverThrew({"commitAnswer"})'
             /\ CommitRevisionThrows(r) => \A q \in Revisions : ~Failed(q)
  <2>1. Mended /\ NeverThrew({"commitAnswer"})' /\ NeverThrew({"commitAnswer"})
    BY <1>1, <1>5 DEF Mended, NeverThrew
  <2>2. ASSUME CommitRevisionThrows(r), NEW q \in Revisions, Failed(q) PROVE FALSE
    <3>1. "commit" \in FaultPoints /\ faults'["commit"] = faults["commit"] + 1
      BY <1>3, <2>1, <2>2
    <3>2. faults["commit"] \in Nat /\ faults["commit"] > 0
      BY <2>1, <2>2, <3>1 DEF Failures
    <3>3. faults'["commit"] <= 1
      BY <1>5, <3>1 DEF Mended
    <3> QED
      BY <3>1, <3>2, <3>3
  <2> QED
    BY <2>1, <2>2
<1>6. ASSUME Mended', NEW q \in Revisions, NEW s \in Revisions, Failed(q)', Failed(s)'
      PROVE  q = s
  BY <1>2, <1>5, <1>6 DEF Failures
<1>7. ASSUME Mended', NEW q \in Revisions, Failed(q)', "rollbackVersion" \notin av'[q].todo
      PROVE  Revision[q] \notin DOMAIN versions'
  <2>1. CASE q # r
    <3>1. av'[q] = av[q] /\ Revision[q] # Revision[r] /\ Failed(q)
      BY <1>7, <2>1, OthersTraces
    <3>2. Revision[q] \notin DOMAIN versions
      BY <1>5, <1>7, <3>1 DEF Failures
    <3>3. DOMAIN versions' \subseteq DOMAIN versions \cup {Revision[r]}
      BY VersionsTouched
    <3> QED
      BY <3>1, <3>2, <3>3
  <2>2. CASE q = r
    <3>1. ~CommitRevisionThrows(r)
      BY <1>7, <2>2, RevisionUndoes DEF Undoes, CommitRevisionThrows, AtRevision
    <3>2. Failed(r)
      BY <1>2, <1>7, <2>2, <3>1
    <3>3. ~InsertRevision(r)
      BY <3>2 DEF Failed, InsertRevision, AtRevision
    <3>4. CASE "rollbackVersion" \notin av[r].todo
      <4>1. Revision[r] \notin DOMAIN versions
        BY <1>5, <1>7, <3>2, <3>4 DEF Failures
      <4> QED
        BY <2>2, <3>3, <4>1, VersionsTouched
    <3>5. CASE "rollbackVersion" \in av[r].todo
      <4>1. SettleRevision(r, "rollbackVersion")
        BY <1>7, <2>2, <3>2, <3>5, OnlySettles
      <4>2. CompensateRevision(r, "rollbackVersion")
        <5>1. ~Throws("undo")
          BY <1>7 DEF Mended, NeverThrew, Throws, Failures
        <5> QED
          BY <4>1, <5>1 DEF SettleRevision
      <4>3. RollbackVersionInsert(Target[r], Revision[r], av[r].previous)
        BY <4>2 DEF CompensateRevision
      <4>4. av[r].previous.currentVersionId \in DOMAIN versions
        BY <1>5, <1>7, <3>2, ReceiptIsThere
      <4> QED
        BY <2>2, <4>3, <4>4 DEF RollbackVersionInsert, Delete, DeleteAll
    <3> QED
      BY <3>4, <3>5
  <2> QED
    BY <2>1, <2>2
<1> QED
  BY <1>1, <1>4, <1>6, <1>7 DEF Failures

LEMMA TracesInit == Init => Traces
<1> SUFFICES ASSUME Init PROVE Traces
  OBVIOUS
<1> USE DEF Init, StoreInit, AddVersionInit
<1>1. \A r \in Revisions : /\ av[r].pc = "precheck" /\ av[r].todo = {} /\ av[r].after = "precheck"
                           /\ ~HasReceipt(r) /\ ~Failed(r) /\ Course(r)
  BY DEF HasReceipt, Failed, Course, AtRevision
<1>2. Origins
  <2>1. \A s \in Seeded : versions[s].documentId = s /\ versions[s].versionNumber = 1
    BY DEF NewVersion
  <2> QED
    BY <1>1, <2>1, RevisionAssumption DEF Origins, Proper
<1>3. ChargedIds = Seeded
  BY <1>1 DEF ChargedIds, Charged
<1>4. Holdings
  <2>1. DOMAIN reservations = {} /\ reservations = [id \in {} |-> reservations[id]]
    BY DEF EmptyTable
  <2>2. used[tenant] = StoredBytes(Seeded)
    BY StoreAssumption
  <2> QED
    BY <1>1, <1>3, <2>1, <2>2, RevisionAssumption DEF Holdings
<1>5. Failures
  BY <1>1 DEF Failures
<1> QED
  BY <1>1, <1>2, <1>4, <1>5 DEF Traces

\* Every row, blob, reservation and byte of the counter is some request's, and
\* says how far that request has come.
THEOREM TracesHold == Spec => []Traces
<1>1. Numbering /\ Kept /\ Traces /\ [Next]_vars => Traces'
  <2> SUFFICES ASSUME Numbering, Kept, Traces, [Next]_vars PROVE Traces'
    OBVIOUS
  <2>1. ASSUME NEW r \in Revisions, RevisionStep(r) PROVE Traces'
    <3>1. \A q \in Revisions : Course(q)'
      <4>1. Course(r)'
        BY <2>1, OwnTraces DEF Traces
      <4>2. ASSUME NEW q \in Revisions \ {r} PROVE Course(q)'
        BY <2>1, OthersTraces DEF Traces, Course, HasReceipt, AtRevision
      <4> QED
        BY <4>1, <4>2
    <3> QED
      BY <2>1, <3>1, OriginsStep, HoldingsStep, FailuresStep DEF Traces
  <2>2. CASE UNCHANGED vars
    BY <2>2 DEF vars, ledgerVars, storeVars, Traces, Course, Origins, Holdings, Failures, Mended,
       Failed, HasReceipt, NeverThrew, Proper, Charged, ChargedIds, AtRevision
  <2> QED
    BY <2>1, <2>2 DEF Next, AddVersionNext
<1> QED
  BY <1>1, TracesInit, NumberingHolds, KeptHolds, PTL DEF Spec

\* A request that is done and was not charged has left no version, when every
\* compensating call worked and one commit at most threw.
LEMMA NothingIsLeft ==
    ASSUME Numbering, Traces, Mended, NEW r \in Revisions, RevisionDone(r), r \notin Charged
    PROVE  Revision[r] \notin DOMAIN versions
<1>1. CASE ~HasReceipt(r)
  BY <1>1 DEF Traces, Origins
<1>2. CASE HasReceipt(r)
  <2>1. Failed(r) /\ av[r].todo = {}
    BY <1>2 DEF RevisionDone, HasReceipt, Failed, Charged, Traces, Course, AtRevision,
       Numbering, Shape, Progress
  <2> QED
    BY <2>1 DEF Traces, Failures
<1> QED
  BY <1>1, <1>2

\* Once every request has been answered the counter, the rows and the blobs are
\* those of the requests that were charged, and nothing is reserved.
THEOREM RevisionsSettleHolds == Spec => []RevisionsSettle
<1>1. Numbering /\ Kept /\ Traces => RevisionsSettle
  <2> SUFFICES ASSUME Numbering, Kept, Traces, Compensable, AllDone
               PROVE  /\ DOMAIN versions = ChargedIds /\ blobs = ChargedIds
                      /\ used[tenant] = StoredBytes(ChargedIds)
                      /\ reservations = EmptyTable
    BY Zenon DEF RevisionsSettle, ChargedIds
  <2>1. Mended /\ NeverThrew({"undo"}) /\ NeverThrew({"commitAnswer"})
    BY DEF Compensable, Mended, NeverThrew
  <2>2. \A r \in Revisions : RevisionDone(r) /\ av[r].todo = {}
    BY DEF AllDone, RevisionDone, Numbering, Shape, Progress
  <2>3. ChargedIds \subseteq DOMAIN versions \cap blobs
    <3>1. \A r \in Charged : Revision[r] \in DOMAIN versions \cap blobs
      BY DEF Kept, Charged
    <3> QED
      BY <3>1 DEF Kept, ChargedIds
  <2>4. \A r \in Revisions : Revision[r] \in DOMAIN versions => r \in Charged
    BY <2>1, <2>2, NothingIsLeft
  <2>5. \A r \in Revisions : Revision[r] \in blobs => r \in Charged
    BY <2>1, <2>2 DEF Traces, Holdings, RevisionDone
  <2>6. DOMAIN versions = ChargedIds /\ blobs = ChargedIds
    <3>1. DOMAIN versions \cup blobs \subseteq Seeded \cup RevisionIds
      BY DEF Traces, Origins
    <3>2. \A id \in DOMAIN versions \cup blobs : id \in ChargedIds
      BY <2>4, <2>5, <3>1 DEF RevisionIds, ChargedIds
    <3> QED
      BY <2>3, <3>2
  <2>7. reservations = EmptyTable
    <3>1. \A r \in Revisions : Revision[r] \notin DOMAIN reservations
      BY <2>1, <2>2 DEF Traces, Holdings, RevisionDone
    <3>2. DOMAIN reservations = {} /\ reservations = [id \in DOMAIN reservations |-> reservations[id]]
      <4>1. DOMAIN reservations \subseteq RevisionIds
        BY DEF Traces, Holdings
      <4>2. reservations = [id \in DOMAIN reservations |-> reservations[id]]
        BY DEF Traces, Holdings
      <4> QED
        BY <3>1, <4>1, <4>2 DEF RevisionIds
    <3> QED
      BY <3>2 DEF EmptyTable
  <2> QED
    BY <2>1, <2>6, <2>7 DEF Traces, Holdings
<1> QED
  BY <1>1, NumberingHolds, KeptHolds, TracesHold, PTL

\* A document all of whose requests have failed is as it was, its state
\* included.
THEOREM FailedRevisionsLeaveNoTraceHolds == Spec => []FailedRevisionsLeaveNoTrace
<1>1. Numbering /\ Traces => FailedRevisionsLeaveNoTrace
  <2> SUFFICES ASSUME Numbering, Traces, Compensable, NEW d \in Seeded,
                      \A r \in Revisions : Target[r] = d => RevisionDone(r) /\ r \notin Charged
               PROVE  documents[d] = SeededDocument(d)
    BY DEF FailedRevisionsLeaveNoTrace
  <2> DEFINE current == documents[d].currentVersionId
  <2>1. Mended
    BY DEF Compensable, Mended
  <2>2. current \in DOMAIN versions /\ versions[current].documentId = d
    BY DEF Numbering, CurrentIsStored, Traces, Origins
  <2>3. ASSUME NEW r \in Revisions, current = Revision[r] PROVE FALSE
    <3>1. Target[r] = d
      BY <2>2, <2>3 DEF Traces, Origins
    <3> QED
      BY <2>1, <2>2, <2>3, <3>1, NothingIsLeft
  <2>4. current \in Seeded
    BY <2>2, <2>3 DEF Traces, Origins, RevisionIds
  <2> QED
    BY <2>4 DEF Traces, Origins, Proper
<1> QED
  BY <1>1, NumberingHolds, TracesHold, PTL

\* A request answered with success has its document queued behind a job.
THEOREM AcceptedRevisionIsQueuedHolds == Spec => []AcceptedRevisionIsQueued
<1>1. Numbering /\ Kept /\ Traces => AcceptedRevisionIsQueued
  <2> SUFFICES ASSUME Numbering, Kept, Traces, NEW r \in Revisions, AtRevision(r, "ok")
               PROVE  Target[r] \in queue /\ documents[Target[r]].processingState = "queued"
    BY DEF AcceptedRevisionIsQueued
  <2> DEFINE d == Target[r]
             current == documents[d].currentVersionId
  <2>1. Target[r] \in queue
    BY DEF Traces, Holdings, AtRevision
  <2>2. r \in Charged /\ HasReceipt(r)
    BY DEF Charged, AtRevision, Traces, Course
  <2>3. /\ d \in DOMAIN documents /\ d \in Seeded
        /\ Revision[r] \in VersionsOf(d) /\ versions[Revision[r]].versionNumber > 1
    BY <2>2 DEF Kept, Traces, Origins, VersionsOf
  <2>4. versions[Revision[r]].versionNumber <= versions[current].versionNumber
    BY <2>3 DEF Numbering, CurrentIsNewest
  <2>5. current \in DOMAIN versions /\ versions[current].versionNumber \in Nat
        /\ versions[Revision[r]].versionNumber \in Nat
    BY <2>3 DEF Numbering, CurrentIsStored, Shape, Columns, VersionsOf
  <2>6. versions[current].versionNumber # 1
    BY <2>3, <2>4, <2>5
  <2>7. current \notin Seeded
    BY <2>6 DEF Traces, Origins
  <2>8. Proper(d, documents[d])
    BY <2>3 DEF Traces, Origins
  <2>9. documents[d].processingState = "queued"
    BY <2>3, <2>7, <2>8 DEF Proper, SeededDocument
  <2> QED
    BY <2>1, <2>9
<1> QED
  BY <1>1, NumberingHolds, KeptHolds, TracesHold, PTL
=============================================================================
