---------------------------- MODULE QuotaProofs ----------------------------
(***************************************************************************)
(* Theorems about the quota protocol, for every set of tenants and upload  *)
(* attempts, every quota, every file size and every reservation TTL.       *)
(*                                                                         *)
(* The argument: TypeOK is inductive alone; with it, RowsAreUndecided and  *)
(* ReversalsAreDebits are; with those, LedgerBalance is, because every     *)
(* action moves at most one id into or out of the committed set and the    *)
(* counter by that id's bytes; with those and no late commit,              *)
(* NoOverAllocation is, because a commit moves bytes from the live rows to *)
(* the counter and only Reserve adds any, after checking that they fit.    *)
(***************************************************************************)
EXTENDS QuotaProtocol, TablesTheorems

-----------------------------------------------------------------------------
(* Sums over sets of ids. *)

\* The bytes of a set of ids are a natural number.
LEMMA BytesOfType ==
    ASSUME NEW S \in SUBSET ReservationIds
    PROVE  IsFiniteSet(S) /\ BytesOf(S) \in Nat
<1>1. IsFiniteSet(S)
  BY IdsAssumption, FS_Subset
<1>2. [id \in S |-> Bytes[id]] \in [S -> Nat]
  BY AttemptAssumption
<1> QED
  BY <1>1, <1>2, TotalType DEF BytesOf

\* One more id adds its bytes.
LEMMA BytesOfAdd ==
    ASSUME NEW S \in SUBSET ReservationIds, NEW id \in ReservationIds, id \notin S
    PROVE  BytesOf(S \cup {id}) = BytesOf(S) + Bytes[id]
<1> DEFINE T == S \cup {id}
           b == [i \in T |-> Bytes[i]]
<1>1. IsFiniteSet(T) /\ b \in [T -> Nat] /\ id \in T
  BY BytesOfType, AttemptAssumption
<1>2. TotalBytes(b) = TotalBytes([x \in T \ {id} |-> b[x]]) + b[id]
  BY <1>1, TotalRemove
<1>3. [x \in T \ {id} |-> b[x]] = [x \in S |-> Bytes[x]]
  BY T \ {id} = S
<1>4. b[id] = Bytes[id]
  OBVIOUS
<1> QED
  BY <1>2, <1>3, <1>4 DEF BytesOf

\* One id fewer takes its bytes away.
LEMMA BytesOfRemove ==
    ASSUME NEW S \in SUBSET ReservationIds, NEW id \in S
    PROVE  BytesOf(S) = BytesOf(S \ {id}) + Bytes[id]
BY BytesOfAdd, (S \ {id}) \cup {id} = S

\* Fewer ids hold no more bytes.
LEMMA BytesOfMonotone ==
    ASSUME NEW S \in SUBSET ReservationIds, NEW T \in SUBSET S
    PROVE  BytesOf(T) <= BytesOf(S)
<1> DEFINE b == [i \in S |-> Bytes[i]]
<1>1. IsFiniteSet(S) /\ b \in [S -> Nat]
  BY BytesOfType, AttemptAssumption
<1>2. TotalBytes([x \in T |-> b[x]]) <= TotalBytes(b)
  BY <1>1, TotalMonotone
<1>3. [x \in T |-> b[x]] = [x \in T |-> Bytes[x]]
  OBVIOUS
<1> QED
  BY <1>2, <1>3 DEF BytesOf
-----------------------------------------------------------------------------
(* Types. *)

LEMMA TypingInit == Init => TypeOK
BY DEF Init, LedgerInit, TypeOK, LedgerTypeOK, EmptyTable, Phases

LEMMA TypingStep == TypeOK /\ [Next]_vars => TypeOK'
<1> SUFFICES ASSUME TypeOK, [Next]_vars PROVE TypeOK'
  OBVIOUS
<1> USE ClockAssumption, LockWaitAssumption, AttemptAssumption
    DEF TypeOK, LedgerTypeOK, Phases, Moves
<1>1. ASSUME NEW id \in ReservationIds, NEW at \in ClockReadings, Reserve(id, at)
      PROVE  TypeOK'
  <2>1. at \in Nat /\ at + TTL \in Nat
    BY DEF ClockReadings
  <2> QED
    BY <1>1, <2>1 DEF Reserve, TryReserve, Insert, Row
<1>2. ASSUME NEW id \in ReservationIds, NEW at \in ClockReadings, Refuse(id, at)
      PROVE  TypeOK'
  BY <1>2 DEF Refuse, ledgerVars
<1>3. ASSUME NEW id \in ReservationIds, Commit(id) PROVE TypeOK'
  BY <1>3 DEF Commit, CommitReservation, Delete, DeleteAll
<1>4. ASSUME NEW id \in ReservationIds, Release(id) PROVE TypeOK'
  BY <1>4 DEF Release, ReleaseReservation, Delete, DeleteAll
<1>5. ASSUME NEW id \in ReservationIds, Abandon(id) PROVE TypeOK'
  BY <1>5 DEF Abandon, ledgerVars
<1>6. ASSUME NEW id \in ReservationIds, Revert(id) PROVE TypeOK'
  BY <1>6 DEF Revert, RevertCommitReservation, Debitable, Debit, Delete, DeleteAll
<1>7. ASSUME NEW id \in ReservationIds, DebitDocument(id) PROVE TypeOK'
  BY <1>7 DEF DebitDocument, RevertCommittedDocumentQuota, Debitable, Debit, ledgerVars
<1>8. CASE Sweep
  BY <1>8 DEF Sweep, SweepExpiredReservations, DeleteAll
<1>9. CASE Elapse
  BY <1>9 DEF Elapse, Tick
<1>10. CASE UNCHANGED vars
  BY <1>10 DEF vars
<1> QED
  BY <1>1, <1>2, <1>3, <1>4, <1>5, <1>6, <1>7, <1>8, <1>9, <1>10 DEF Next

\* Every step keeps the ledger and the phases in their types; the counter
\* stays a natural number because every debit is guarded.
THEOREM Typing == Spec => []TypeOK
<1> QED
  BY TypingInit, TypingStep, PTL DEF Spec
-----------------------------------------------------------------------------
(* Rows and reversals follow the phases of their callers. *)

Bookkeeping == RowsAreUndecided /\ ReversalsAreDebits

LEMMA BookkeepingInit == Init => Bookkeeping
BY DEF Init, LedgerInit, Bookkeeping, RowsAreUndecided, ReversalsAreDebits, EmptyTable

LEMMA BookkeepingStep == TypeOK /\ Bookkeeping /\ [Next]_vars => Bookkeeping'
<1> SUFFICES ASSUME TypeOK, Bookkeeping, [Next]_vars PROVE Bookkeeping'
  OBVIOUS
<1> USE AttemptAssumption
    DEF TypeOK, LedgerTypeOK, Bookkeeping, RowsAreUndecided, ReversalsAreDebits, Moves
<1>1. ASSUME NEW id \in ReservationIds, NEW at \in ClockReadings, Reserve(id, at)
      PROVE  Bookkeeping'
  <2>1. phase[id] = "idle" /\ phase' = [phase EXCEPT ![id] = "open"]
    BY <1>1 DEF Reserve
  <2>2. RowsAreUndecided'
    BY <1>1, <2>1 DEF Reserve, TryReserve, Insert, Row
  <2>3. {i \in ReservationIds : phase'[i] = "debited"} = {i \in ReservationIds : phase[i] = "debited"}
    BY <2>1
  <2>4. reversals' = reversals
    BY <1>1 DEF Reserve, TryReserve
  <2> QED
    BY <2>2, <2>3, <2>4, Zenon
<1>2. ASSUME NEW id \in ReservationIds, NEW at \in ClockReadings, Refuse(id, at)
      PROVE  Bookkeeping'
  BY <1>2 DEF Refuse, ledgerVars
<1>3. ASSUME NEW id \in ReservationIds, Commit(id) PROVE Bookkeeping'
  BY <1>3 DEF Commit, CommitReservation, Delete, DeleteAll
<1>4. ASSUME NEW id \in ReservationIds, Release(id) PROVE Bookkeeping'
  BY <1>4 DEF Release, ReleaseReservation, Delete, DeleteAll
<1>5. ASSUME NEW id \in ReservationIds, Abandon(id) PROVE Bookkeeping'
  BY <1>5 DEF Abandon, ledgerVars
<1>6. ASSUME NEW id \in ReservationIds, Revert(id) PROVE Bookkeeping'
  BY <1>6 DEF Revert, RevertCommitReservation, Delete, DeleteAll
<1>7. ASSUME NEW id \in ReservationIds, DebitDocument(id) PROVE Bookkeeping'
  <2>1. RowsAreUndecided'
    BY <1>7 DEF DebitDocument, RevertCommittedDocumentQuota, ledgerVars
  <2>2. reversals' = reversals \cup {<<Owner[id], id>>}
    BY <1>7 DEF DebitDocument, RevertCommittedDocumentQuota, AlreadyReversed, ledgerVars
  <2>3. {i \in ReservationIds : phase'[i] = "debited"}
           = {i \in ReservationIds : phase[i] = "debited"} \cup {id}
    BY <1>7 DEF DebitDocument
  <2> QED
    BY <2>1, <2>2, <2>3
<1>8. CASE Sweep
  BY <1>8 DEF Sweep, SweepExpiredReservations, DeleteAll
<1>9. CASE Elapse
  BY <1>9 DEF Elapse, Tick
<1>10. CASE UNCHANGED vars
  BY <1>10 DEF vars
<1> QED
  BY <1>1, <1>2, <1>3, <1>4, <1>5, <1>6, <1>7, <1>8, <1>9, <1>10 DEF Next

\* A row belongs to an undecided caller and a reversal to a debited one:
\* commit, release and rollback delete the row, the worker's debit records
\* its reversal in the same transaction.
THEOREM RowsFollowPhases == Spec => []Bookkeeping
<1> QED
  BY BookkeepingInit, BookkeepingStep, Typing, PTL DEF Spec
-----------------------------------------------------------------------------
(* The counter. *)

\* Entering the committed set credits, leaving it debits.
LEMMA CommittedStep ==
    ASSUME TypeOK, NEW id \in ReservationIds, NEW to, Moves(id, {phase[id]}, to)
    PROVE  \A t \in Tenants :
             CommittedIds(t)' = IF Owner[id] # t THEN CommittedIds(t)
                                ELSE IF to = "committed" THEN CommittedIds(t) \cup {id}
                                ELSE CommittedIds(t) \ {id}
BY AttemptAssumption DEF Moves, CommittedIds, TypeOK

LEMMA BalanceInit == Init => LedgerBalance
<1> SUFFICES ASSUME Init, NEW t \in Tenants PROVE used[t] = BytesOf(CommittedIds(t))
  BY DEF LedgerBalance
<1>1. CommittedIds(t) = {}
  BY DEF Init, CommittedIds
<1>2. BytesOf({}) = 0
  BY TotalEmpty DEF BytesOf
<1> QED
  BY <1>1, <1>2 DEF Init, LedgerInit

LEMMA BalanceStep == TypeOK /\ Bookkeeping /\ LedgerBalance /\ [Next]_vars => LedgerBalance'
<1> SUFFICES ASSUME TypeOK, Bookkeeping, LedgerBalance, [Next]_vars,
                    NEW t \in Tenants
             PROVE  used'[t] = BytesOf(CommittedIds(t)')
  BY DEF LedgerBalance, BytesOf
<1> USE AttemptAssumption DEF TypeOK, LedgerTypeOK, LedgerBalance, Phases
<1>1. used[t] = BytesOf(CommittedIds(t)) /\ CommittedIds(t) \in SUBSET ReservationIds
  BY DEF CommittedIds
<1>2. ASSUME UNCHANGED used, NEW id \in ReservationIds, phase[id] # "committed",
             NEW to, to # "committed", phase' = [phase EXCEPT ![id] = to]
      PROVE  used'[t] = BytesOf(CommittedIds(t)')
  <2>1. CommittedIds(t)' = CommittedIds(t)
    BY <1>2 DEF CommittedIds
  <2> QED
    BY <1>1, <1>2, <2>1
<1>3. ASSUME UNCHANGED <<used, phase>> PROVE used'[t] = BytesOf(CommittedIds(t)')
  <2>1. CommittedIds(t)' = CommittedIds(t)
    BY <1>3 DEF CommittedIds
  <2> QED
    BY <1>1, <1>3, <2>1
<1>4. ASSUME NEW id \in ReservationIds, Commit(id)
      PROVE  used'[t] = BytesOf(CommittedIds(t)')
  <2>1. phase[id] = "open" /\ Moves(id, {phase[id]}, "committed")
    BY <1>4 DEF Commit, Moves
  <2>2. used' = [used EXCEPT ![Owner[id]] = @ + Bytes[id]]
    BY <1>4 DEF Commit, CommitReservation
  <2>3. CASE Owner[id] = t
    <3>1. id \notin CommittedIds(t) /\ CommittedIds(t)' = CommittedIds(t) \cup {id}
      BY <2>1, <2>3, CommittedStep DEF CommittedIds
    <3>2. BytesOf(CommittedIds(t) \cup {id}) = BytesOf(CommittedIds(t)) + Bytes[id]
      BY <1>1, <3>1, BytesOfAdd
    <3> QED
      BY <1>1, <2>2, <2>3, <3>1, <3>2
  <2>4. CASE Owner[id] # t
    <3>1. CommittedIds(t)' = CommittedIds(t)
      BY <2>1, <2>4, CommittedStep
    <3> QED
      BY <1>1, <2>2, <2>4, <3>1
  <2> QED
    BY <2>3, <2>4
<1>5. ASSUME NEW id \in ReservationIds, phase[id] = "committed",
             NEW to, to # "committed", Moves(id, {phase[id]}, to),
             Debit(Owner[id], Bytes[id])
      PROVE  used'[t] = BytesOf(CommittedIds(t)')
  <2>1. CASE Owner[id] = t
    <3>1. id \in CommittedIds(t) /\ CommittedIds(t)' = CommittedIds(t) \ {id}
      BY <1>5, <2>1, CommittedStep DEF CommittedIds
    <3>2. BytesOf(CommittedIds(t)) = BytesOf(CommittedIds(t) \ {id}) + Bytes[id]
      BY <1>1, <3>1, BytesOfRemove
    <3>3. BytesOf(CommittedIds(t) \ {id}) \in Nat
      BY <1>1, BytesOfType
    <3>4. used'[t] = used[t] - Bytes[id]
      BY <1>5, <2>1 DEF Debit
    <3> QED
      BY <1>1, <3>1, <3>2, <3>3, <3>4
  <2>2. CASE Owner[id] # t
    <3>1. CommittedIds(t)' = CommittedIds(t)
      BY <1>5, <2>2, CommittedStep
    <3> QED
      BY <1>1, <1>5, <2>2, <3>1 DEF Debit
  <2> QED
    BY <2>1, <2>2
<1>6. ASSUME NEW id \in ReservationIds, Revert(id)
      PROVE  used'[t] = BytesOf(CommittedIds(t)')
  BY <1>5, <1>6 DEF Revert, RevertCommitReservation, Moves
<1>7. ASSUME NEW id \in ReservationIds, DebitDocument(id)
      PROVE  used'[t] = BytesOf(CommittedIds(t)')
  <2>1. CASE phase[id] = "committed"
    <3>1. ~AlreadyReversed(Owner[id], id)
      BY <2>1 DEF AlreadyReversed, Bookkeeping, ReversalsAreDebits
    <3> QED
      BY <1>5, <1>7, <2>1, <3>1 DEF DebitDocument, RevertCommittedDocumentQuota, Moves
  <2>2. CASE phase[id] = "debited"
    <3>1. AlreadyReversed(Owner[id], id)
      BY <2>2 DEF AlreadyReversed, Bookkeeping, ReversalsAreDebits
    <3> QED
      BY <1>2, <1>7, <2>2, <3>1
      DEF DebitDocument, RevertCommittedDocumentQuota, Moves, ledgerVars
  <2> QED
    BY <1>7, <2>1, <2>2 DEF DebitDocument, Moves
<1>8. ASSUME NEW id \in ReservationIds, NEW at \in ClockReadings,
             Reserve(id, at) \/ Refuse(id, at)
      PROVE  used'[t] = BytesOf(CommittedIds(t)')
  BY <1>2, <1>8 DEF Reserve, TryReserve, Refuse, ledgerVars, Moves
<1>9. ASSUME NEW id \in ReservationIds, Release(id) \/ Abandon(id)
      PROVE  used'[t] = BytesOf(CommittedIds(t)')
  BY <1>2, <1>9 DEF Release, ReleaseReservation, Abandon, ledgerVars, Moves
<1>10. CASE Sweep \/ Elapse \/ UNCHANGED vars
  BY <1>3, <1>10 DEF Sweep, SweepExpiredReservations, Elapse, Tick, vars
<1> QED
  BY <1>4, <1>6, <1>7, <1>8, <1>9, <1>10 DEF Next

\* The counter equals the bytes of the reservations committed and not taken
\* back, in every reachable state, late commits included.
THEOREM Balance == Spec => []LedgerBalance
<1> QED
  BY BalanceInit, BalanceStep, Typing, RowsFollowPhases, PTL DEF Spec

LEMMA DebitsCovered == TypeOK /\ LedgerBalance => DebitNeverThrows
<1> SUFFICES ASSUME TypeOK, LedgerBalance,
                    NEW id \in ReservationIds, phase[id] = "committed"
             PROVE  used[Owner[id]] >= Bytes[id]
  BY DEF DebitNeverThrows, Debitable
<1> DEFINE C == CommittedIds(Owner[id])
<1>1. C \in SUBSET ReservationIds /\ id \in C /\ Owner[id] \in Tenants
  BY AttemptAssumption DEF CommittedIds
<1>2. BytesOf(C) = BytesOf(C \ {id}) + Bytes[id]
  BY <1>1, BytesOfRemove
<1>3. BytesOf(C \ {id}) \in Nat /\ Bytes[id] \in Nat
  BY <1>1, BytesOfType, AttemptAssumption
<1>4. used[Owner[id]] = BytesOf(C)
  BY <1>1 DEF LedgerBalance
<1> QED
  BY <1>2, <1>3, <1>4

\* As long as a token is committed its tenant's counter holds its bytes, so the
\* guarded debit of a rollback or of the worker matches its row.
THEOREM DebitsSucceed == Spec => []DebitNeverThrows
<1> QED
  BY DebitsCovered, Typing, Balance, PTL
-----------------------------------------------------------------------------
(* No tenant is promised more than its quota. *)

\* What is outstanding is the bytes of the ids whose rows are live.
LEMMA OutstandingIsBytes ==
    ASSUME TypeOK, Bookkeeping, NEW t \in Tenants, NEW at \in Nat
    PROVE  /\ LiveIds(t, at) \in SUBSET ReservationIds
           /\ Outstanding(t, at) = BytesOf(LiveIds(t, at))
<1>1. LiveIds(t, at) \in SUBSET ReservationIds
  BY DEF LiveIds, TypeOK, LedgerTypeOK
<1>2. [id \in LiveIds(t, at) |-> reservations[id].bytes] = [id \in LiveIds(t, at) |-> Bytes[id]]
  BY DEF Bookkeeping, RowsAreUndecided, LiveIds
<1> QED
  BY <1>1, <1>2 DEF Outstanding, BytesOf

\* The same of the next state.
LEMMA OutstandingIsBytesNext ==
    ASSUME TypeOK', Bookkeeping', NEW t \in Tenants
    PROVE  /\ LiveIds(t, now)' \in SUBSET ReservationIds
           /\ Outstanding(t, now)' = BytesOf(LiveIds(t, now)')
<1>1. LiveIds(t, now)' \in SUBSET ReservationIds
  BY DEF LiveIds, TypeOK, LedgerTypeOK
<1>2. [id \in LiveIds(t, now) |-> reservations[id].bytes]'
        = [id \in LiveIds(t, now)' |-> Bytes[id]]
  BY DEF Bookkeeping, RowsAreUndecided, LiveIds
<1> QED
  BY <1>1, <1>2 DEF Outstanding, BytesOf

\* If no caller commits a reservation that has expired, then what is stored
\* plus what is reserved and unexpired never exceeds the quota.
THEOREM QuotaHolds ==
    ASSUME LateCommits = FALSE
    PROVE  Spec => []NoOverAllocation
<1>1. Init => NoOverAllocation
  <2> SUFFICES ASSUME Init, NEW t \in Tenants
               PROVE  used[t] + Outstanding(t, now) <= QuotaBytes
    BY DEF NoOverAllocation
  <2>1. LiveIds(t, now) = {}
    BY DEF Init, LedgerInit, LiveIds, EmptyTable
  <2>2. Outstanding(t, now) = 0
    BY <2>1, TotalEmpty DEF Outstanding
  <2> QED
    BY <2>2, QuotaAssumption DEF Init, LedgerInit
<1>2. TypeOK /\ Bookkeeping /\ NoOverAllocation /\ [Next]_vars /\ TypeOK' /\ Bookkeeping'
        => NoOverAllocation'
  <2> SUFFICES ASSUME TypeOK, Bookkeeping, NoOverAllocation, [Next]_vars,
                      TypeOK', Bookkeeping', NEW t \in Tenants
               PROVE  used'[t] + Outstanding(t, now)' <= QuotaBytes
    BY DEF NoOverAllocation
  <2> USE AttemptAssumption, QuotaAssumption, ClockAssumption, LockWaitAssumption
  <2> DEFINE L == LiveIds(t, now)
             LN == LiveIds(t, now)'
  <2>1. /\ L \in SUBSET ReservationIds /\ BytesOf(L) \in Nat
        /\ used[t] \in Nat /\ used'[t] \in Nat /\ now \in Nat
        /\ used[t] + BytesOf(L) <= QuotaBytes
    BY OutstandingIsBytes, BytesOfType DEF TypeOK, LedgerTypeOK, NoOverAllocation
  <2>2. LN \in SUBSET ReservationIds /\ BytesOf(LN) \in Nat /\ Outstanding(t, now)' = BytesOf(LN)
    BY OutstandingIsBytesNext, BytesOfType
  <2>3. ASSUME used'[t] <= used[t], LN \subseteq L
        PROVE  used'[t] + BytesOf(LN) <= QuotaBytes
    <3>1. BytesOf(LN) <= BytesOf(L)
      BY <2>1, <2>3, BytesOfMonotone
    <3> QED
      BY <2>1, <2>2, <2>3, <3>1
  <2>4. ASSUME NEW id \in ReservationIds, NEW at \in ClockReadings, Reserve(id, at)
        PROVE  used'[t] + BytesOf(LN) <= QuotaBytes
    <3>1. at \in Nat /\ at <= now /\ now' = now /\ used' = used
      BY <2>1, <2>4 DEF ClockReadings, Reserve, TryReserve
    <3>2. CASE Owner[id] # t
      <4>1. LN \subseteq L
        BY <2>4, <3>1, <3>2 DEF Reserve, TryReserve, Insert, LiveIds
      <4> QED
        BY <2>1, <2>3, <3>1, <4>1
    <3>3. CASE Owner[id] = t
      <4> DEFINE A == LiveIds(t, at)
      <4>1. A \in SUBSET ReservationIds /\ BytesOf(A) \in Nat
        BY <3>1, OutstandingIsBytes, BytesOfType
      <4>2. used[t] + BytesOf(A) + Bytes[id] <= QuotaBytes
        BY <2>4, <3>1, <3>3, OutstandingIsBytes DEF Reserve, TryReserve, Fits
      <4>3. id \notin A
        BY <2>4 DEF Reserve, Moves, Bookkeeping, RowsAreUndecided, LiveIds
      <4>4. L \subseteq A
        BY <2>1, <3>1 DEF LiveIds, TypeOK, LedgerTypeOK, Row
      <4>5. LN \subseteq L \cup {id}
        BY <2>4, <3>1 DEF Reserve, TryReserve, Insert, LiveIds
      <4>6. BytesOf(A \cup {id}) = BytesOf(A) + Bytes[id]
        BY <4>1, <4>3, BytesOfAdd
      <4>7. BytesOf(LN) <= BytesOf(A \cup {id})
        BY <4>1, <4>4, <4>5, BytesOfMonotone
      <4> QED
        BY <2>1, <2>2, <3>1, <4>1, <4>2, <4>6, <4>7
    <3> QED
      BY <3>2, <3>3
  <2>5. ASSUME NEW id \in ReservationIds, Commit(id)
        PROVE  used'[t] + BytesOf(LN) <= QuotaBytes
    <3>1. id \in LiveIds(Owner[id], now) /\ now' = now
      BY <2>5 DEF Commit, CommitReservation
    <3>2. CASE Owner[id] # t
      <4>1. used'[t] = used[t] /\ LN \subseteq L
        BY <2>5, <3>1, <3>2
        DEF Commit, CommitReservation, Delete, DeleteAll, LiveIds, TypeOK, LedgerTypeOK
      <4> QED
        BY <2>1, <2>3, <4>1
    <3>3. CASE Owner[id] = t
      <4>1. used'[t] = used[t] + Bytes[id]
        BY <2>5, <3>3 DEF Commit, CommitReservation, TypeOK, LedgerTypeOK
      <4>2. LN \subseteq L \ {id}
        BY <2>5, <3>1 DEF Commit, CommitReservation, Delete, DeleteAll, LiveIds
      <4>3. BytesOf(L) = BytesOf(L \ {id}) + Bytes[id]
        BY <2>1, <3>1, <3>3, BytesOfRemove
      <4>4. BytesOf(LN) <= BytesOf(L \ {id}) /\ BytesOf(L \ {id}) \in Nat
        BY <2>1, <4>2, BytesOfMonotone, BytesOfType
      <4> QED
        BY <2>1, <2>2, <4>1, <4>3, <4>4
    <3> QED
      BY <3>2, <3>3
  <2>6. ASSUME NEW id \in ReservationIds, Abandon(id) \/ Release(id)
        PROVE  used'[t] + BytesOf(LN) <= QuotaBytes
    <3>1. used'[t] <= used[t] /\ LN \subseteq L
      BY <2>1, <2>6
      DEF Abandon, Release, ReleaseReservation, Delete, DeleteAll, LiveIds, ledgerVars
    <3> QED
      BY <2>3, <3>1
  <2>7. ASSUME NEW id \in ReservationIds, NEW at \in ClockReadings, Refuse(id, at)
        PROVE  used'[t] + BytesOf(LN) <= QuotaBytes
    <3>1. used'[t] <= used[t] /\ LN \subseteq L
      BY <2>1, <2>7 DEF Refuse, LiveIds, ledgerVars
    <3> QED
      BY <2>3, <3>1
  <2>8. ASSUME NEW id \in ReservationIds, Revert(id) \/ DebitDocument(id)
        PROVE  used'[t] + BytesOf(LN) <= QuotaBytes
    <3>1. used'[t] <= used[t]
      BY <2>1, <2>8
      DEF Revert, RevertCommitReservation, DebitDocument, RevertCommittedDocumentQuota,
          Debitable, Debit, ledgerVars, TypeOK, LedgerTypeOK
    <3>2. LN \subseteq L
      BY <2>8
      DEF Revert, RevertCommitReservation, DebitDocument, RevertCommittedDocumentQuota,
          Delete, DeleteAll, LiveIds, ledgerVars
    <3> QED
      BY <2>3, <3>1, <3>2
  <2>9. CASE Sweep
    <3>1. used'[t] <= used[t] /\ LN \subseteq L
      BY <2>1, <2>9 DEF Sweep, SweepExpiredReservations, DeleteAll, LiveIds
    <3> QED
      BY <2>2, <2>3, <3>1
  <2>10. CASE Elapse
    <3>1. used' = used /\ reservations' = reservations /\ now' = now + 1
      BY <2>10 DEF Elapse, Tick
    <3>2. LN \subseteq L
      BY <2>1, <3>1 DEF LiveIds, TypeOK, LedgerTypeOK, Row
    <3>3. used'[t] <= used[t]
      BY <2>1, <3>1
    <3> QED
      BY <2>2, <2>3, <3>2, <3>3
  <2>11. CASE UNCHANGED vars
    <3>1. used'[t] <= used[t] /\ LN \subseteq L
      BY <2>1, <2>11 DEF vars, LiveIds
    <3> QED
      BY <2>2, <2>3, <3>1
  <2> QED
    BY <2>2, <2>4, <2>5, <2>6, <2>7, <2>8, <2>9, <2>10, <2>11 DEF Next
<1> QED
  BY <1>1, <1>2, Typing, RowsFollowPhases, PTL DEF Spec
-----------------------------------------------------------------------------
(* The protocol implements the capacity pool, for every instance in which no *)
(* caller commits late.  Every step is one of three: Reserve acquires, since *)
(* the bytes held now are among those its admission counted; a step that     *)
(* makes no new holder and activates no caller drops the holders that are    *)
(* gone, or stutters; and a prompt commit keeps its caller a holder, the     *)
(* only place where late commits would break the refinement.                 *)

\* The callers that have been admitted, whatever became of them.
Admitted == {id \in ReservationIds : phase[id] \notin {"idle", "refused"}}

\* Holders have been admitted; the admitted are holders or have dropped out.
LEMMA HoldersAreAdmitted ==
    ASSUME TypeOK, Bookkeeping
    PROVE  Holders \subseteq Admitted /\ Dropped = Admitted \ Holders
BY DEF Holders, Admitted, Dropped, TypeOK, LedgerTypeOK, Bookkeeping, RowsAreUndecided

\* A step that admits nobody and adds no holder drops holders or stutters.
LEMMA LosingHolders ==
    ASSUME Holders \subseteq Admitted, Dropped = Admitted \ Holders,
           Dropped' = Admitted' \ Holders',
           Holders' \subseteq Holders, Admitted' = Admitted
    PROVE  [Pool!Next]_<<Holders, Dropped>>
<1> DEFINE lost == Holders \ Holders'
<1>1. Holders' = Holders \ lost /\ Dropped' = Dropped \cup lost
  OBVIOUS
<1>2. CASE lost = {}
  BY <1>1, <1>2
<1>3. CASE lost # {}
  BY <1>1, <1>3 DEF Pool!Next, Pool!Drop
<1> QED
  BY <1>2, <1>3

\* The bytes of two disjoint sets of ids add up.
LEMMA BytesOfDisjoint ==
    ASSUME NEW S \in SUBSET ReservationIds, NEW T \in SUBSET ReservationIds, S \cap T = {}
    PROVE  BytesOf(S \cup T) = BytesOf(S) + BytesOf(T)
<1> DEFINE b == [i \in S \cup T |-> Bytes[i]]
<1>1. IsFiniteSet(S \cup T) /\ b \in [S \cup T -> Nat]
  BY BytesOfType, AttemptAssumption
<1>2. TotalBytes(b) = TotalBytes([x \in S |-> b[x]]) + TotalBytes([x \in T |-> b[x]])
  BY <1>1, TotalDisjoint
<1>3. [x \in S |-> b[x]] = [x \in S |-> Bytes[x]] /\ [x \in T |-> b[x]] = [x \in T |-> Bytes[x]]
  OBVIOUS
<1> QED
  BY <1>2, <1>3 DEF BytesOf

\* What a tenant's callers hold is at most what an admission counts, however
\* old the clock reading it is judged with.
LEMMA HeldIsCounted ==
    ASSUME TypeOK, Bookkeeping, LedgerBalance,
           NEW t \in Tenants, NEW at \in Nat, at <= now
    PROVE  /\ Pool!HeldBy(Holders, t) \in Nat
           /\ Pool!HeldBy(Holders, t) <= used[t] + Outstanding(t, at)
<1> DEFINE C == CommittedIds(t)
           L == LiveIds(t, now)
           A == LiveIds(t, at)
<1>1. now \in Nat /\ C \in SUBSET ReservationIds
  BY DEF TypeOK, LedgerTypeOK, CommittedIds
<1>2. L \in SUBSET ReservationIds /\ A \in SUBSET ReservationIds /\ Outstanding(t, at) = BytesOf(A)
  BY <1>1, OutstandingIsBytes
<1>3. C \cap L = {}
  BY DEF CommittedIds, LiveIds, Bookkeeping, RowsAreUndecided
<1>4. L \subseteq A
  BY <1>1 DEF LiveIds, TypeOK, LedgerTypeOK, Row
<1>5. {i \in Holders : Owner[i] = t} = C \cup L
  BY DEF Holders, CommittedIds, LiveIds, Bookkeeping, RowsAreUndecided
<1>6. Pool!HeldBy(Holders, t) = BytesOf(C \cup L)
  <2>1. ASSUME NEW S PROVE Pool!Cardinality(S) = Cardinality(S)
    BY DEF Pool!Cardinality, Cardinality
  <2> QED
    BY <1>5, <2>1 DEF Pool!HeldBy, Pool!TotalBytes, Pool!Units, TotalBytes, Units, BytesOf
<1>7. BytesOf(C \cup L) = BytesOf(C) + BytesOf(L)
  BY <1>1, <1>2, <1>3, BytesOfDisjoint
<1>8. BytesOf(L) <= BytesOf(A)
  BY <1>2, <1>4, BytesOfMonotone
<1>9. BytesOf(C) \in Nat /\ BytesOf(L) \in Nat /\ BytesOf(A) \in Nat
  BY <1>1, <1>2, BytesOfType
<1>10. used[t] = BytesOf(C)
  BY DEF LedgerBalance
<1> QED
  BY <1>2, <1>6, <1>7, <1>8, <1>9, <1>10

\* Without late commits the ledger behaves as a pool of capacity per tenant:
\* bytes are acquired in one step and only when they fit, and an upload that
\* has lost its hold never regains it.
THEOREM LedgerImplementsPool ==
    ASSUME LateCommits = FALSE
    PROVE  Spec => ImplementsPool
<1>1. Init => Pool!Init
  BY DEF Init, LedgerInit, Pool!Init, Holders, Dropped, EmptyTable
<1>2. TypeOK /\ Bookkeeping /\ LedgerBalance /\ [Next]_vars /\ TypeOK' /\ Bookkeeping'
        => [Pool!Next]_<<Holders, Dropped>>
  <2> SUFFICES ASSUME TypeOK, Bookkeeping, LedgerBalance, [Next]_vars, TypeOK', Bookkeeping'
               PROVE  [Pool!Next]_<<Holders, Dropped>>
    OBVIOUS
  <2> USE AttemptAssumption, ClockAssumption, LockWaitAssumption
  <2>1. Holders \subseteq Admitted /\ Dropped = Admitted \ Holders
    BY HoldersAreAdmitted
  <2>2. Dropped' = Admitted' \ Holders'
    BY DEF Dropped, Admitted
  <2>3. ASSUME Holders' \subseteq Holders, Admitted' = Admitted
        PROVE  [Pool!Next]_<<Holders, Dropped>>
    BY <2>1, <2>2, <2>3, LosingHolders
  <2>4. ASSUME NEW id \in ReservationIds, NEW at \in ClockReadings, Reserve(id, at)
        PROVE  [Pool!Next]_<<Holders, Dropped>>
    <3>1. at \in Nat /\ at <= now /\ now' = now /\ now \in Nat /\ at + TTL > now
      BY <2>4 DEF ClockReadings, Reserve, TryReserve, TypeOK, LedgerTypeOK
    <3>2. id \notin Admitted /\ Admitted' = Admitted \cup {id}
      BY <2>4 DEF Reserve, Moves, Admitted, TypeOK
    <3>3. Holders' = Holders \cup {id}
      <4>1. DOMAIN reservations' = DOMAIN reservations \cup {id} /\ id \notin DOMAIN reservations
        BY <2>4 DEF Reserve, TryReserve, Insert, Moves, Bookkeeping, RowsAreUndecided
      <4>2. reservations'[id].expiresAt > now'
        BY <2>4, <3>1 DEF Reserve, TryReserve, Insert
      <4>3. \A i \in DOMAIN reservations : reservations'[i] = reservations[i]
        BY <2>4, <4>1 DEF Reserve, TryReserve, Insert
      <4>4. \A i \in ReservationIds : phase'[i] = "committed" <=> phase[i] = "committed"
        BY <2>4 DEF Reserve, Moves, TypeOK
      <4> QED
        BY <3>1, <4>1, <4>2, <4>3, <4>4 DEF Holders
    <3>4. Dropped' = Dropped
      BY <2>1, <2>2, <3>2, <3>3
    <3>5. id \notin Holders \cup Dropped
      BY <2>1, <3>2
    <3>6. Owner[id] \in Tenants /\ Bytes[id] \in Nat
      OBVIOUS
    <3>7. used[Owner[id]] + Outstanding(Owner[id], at) + Bytes[id] <= QuotaBytes
      BY <2>4 DEF Reserve, TryReserve, Fits
    <3>8. Pool!HeldBy(Holders, Owner[id]) \in Nat
          /\ Pool!HeldBy(Holders, Owner[id]) <= used[Owner[id]] + Outstanding(Owner[id], at)
      BY <3>1, <3>6, HeldIsCounted
    <3>9. used[Owner[id]] \in Nat /\ Outstanding(Owner[id], at) \in Nat
      BY <3>1, <3>6, OutstandingIsBytes, BytesOfType DEF TypeOK, LedgerTypeOK
    <3>10. Pool!HeldBy(Holders, Owner[id]) + Bytes[id] <= QuotaBytes
      BY <3>6, <3>7, <3>8, <3>9, QuotaAssumption
    <3>11. Pool!Acquire(id)
      BY <3>3, <3>4, <3>5, <3>10 DEF Pool!Acquire
    <3> QED
      BY <3>11 DEF Pool!Next
  <2>5. ASSUME NEW id \in ReservationIds, Commit(id)
        PROVE  [Pool!Next]_<<Holders, Dropped>>
    <3>1. id \in Holders /\ now' = now
      BY <2>5 DEF Commit, CommitReservation, LiveIds, Holders
    <3>2. Admitted' = Admitted
      BY <2>5 DEF Commit, Moves, Admitted, TypeOK
    <3>3. \A i \in Holders' : i = id \/ i \in Holders
      BY <2>5, <3>1
      DEF Commit, CommitReservation, Moves, Delete, DeleteAll, Holders, TypeOK
    <3> QED
      BY <2>3, <3>1, <3>2, <3>3
  <2>6. ASSUME NEW id \in ReservationIds, NEW at \in ClockReadings, Refuse(id, at)
        PROVE  [Pool!Next]_<<Holders, Dropped>>
    <3>1. Holders' \subseteq Holders /\ Admitted' = Admitted
      BY <2>6 DEF Refuse, Moves, ledgerVars, Holders, Admitted, TypeOK
    <3> QED
      BY <2>3, <3>1
  <2>7. ASSUME NEW id \in ReservationIds,
               Abandon(id) \/ Release(id) \/ Revert(id) \/ DebitDocument(id)
        PROVE  [Pool!Next]_<<Holders, Dropped>>
    <3>1. Admitted' = Admitted
      BY <2>7 DEF Abandon, Release, Revert, DebitDocument, Moves, Admitted, TypeOK
    <3>2. \A i \in ReservationIds : phase'[i] = "committed" => phase[i] = "committed"
      BY <2>7 DEF Abandon, Release, Revert, DebitDocument, Moves, TypeOK
    <3>3. /\ now' = now
          /\ \A i \in DOMAIN reservations' :
                i \in DOMAIN reservations /\ reservations'[i] = reservations[i]
      BY <2>7
      DEF Abandon, Release, ReleaseReservation, Revert, RevertCommitReservation, DebitDocument,
          RevertCommittedDocumentQuota, Delete, DeleteAll, ledgerVars
    <3>4. Holders' \subseteq Holders
      BY <3>2, <3>3 DEF Holders
    <3> QED
      BY <2>3, <3>1, <3>4
  <2>8. CASE Sweep
    <3>1. Holders' \subseteq Holders /\ Admitted' = Admitted
      BY <2>8 DEF Sweep, SweepExpiredReservations, DeleteAll, Holders, Admitted
    <3> QED
      BY <2>3, <3>1
  <2>9. CASE Elapse
    <3>1. now' = now + 1 /\ UNCHANGED <<reservations, phase>> /\ now \in Nat
      BY <2>9 DEF Elapse, Tick, TypeOK, LedgerTypeOK
    <3>2. Holders' \subseteq Holders /\ Admitted' = Admitted
      BY <3>1 DEF Holders, Admitted, TypeOK, LedgerTypeOK, Row
    <3> QED
      BY <2>3, <3>2
  <2>10. CASE UNCHANGED vars
    BY <2>10 DEF vars, Holders, Dropped
  <2> QED
    BY <2>4, <2>5, <2>6, <2>7, <2>8, <2>9, <2>10 DEF Next
<1> QED
  BY <1>1, <1>2, Typing, RowsFollowPhases, Balance, PTL
  DEF Spec, ImplementsPool, Pool!Spec
=============================================================================
