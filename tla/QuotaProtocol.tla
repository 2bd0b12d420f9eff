--------------------------- MODULE QuotaProtocol ---------------------------
(***************************************************************************)
(* The quota protocol: what a holder of a reservation token may do with it *)
(* (packages/tenancy/src/service.ts, TenancyService), over the ledger.     *)
(*                                                                         *)
(*   idle -> open -> committed -> reverted   (batch rollback, at most once)*)
(*     \       | \             -> debited    (worker, any number of times) *)
(*      \      |  -> released                                              *)
(*   refused    -> abandoned                 (the process died)            *)
(*                                                                         *)
(* An id is one upload attempt; its tenant and size are fixed by the file. *)
(***************************************************************************)
EXTENDS QuotaLedger

CONSTANTS
    Owner,       \* [ReservationIds -> Tenants]
    Bytes,       \* [ReservationIds -> Nat]: the size of the file
    LockWait,    \* how old a clock reading may be once tryReserve has the lock
    LateCommits  \* may a caller commit after its reservation has expired?

ASSUME AttemptAssumption ==
    Owner \in [ReservationIds -> Tenants] /\ Bytes \in [ReservationIds -> Nat]
ASSUME LockWaitAssumption == LockWait \in Nat /\ LockWait < TTL
ASSUME LateCommitsAssumption == LateCommits \in BOOLEAN

VARIABLE phase  \* [ReservationIds -> Phases]: what the caller has done

vars == <<used, reservations, reversals, now, phase>>

Phases == {"idle", "refused", "open", "abandoned",
           "released", "committed", "reverted", "debited"}

Init == LedgerInit /\ phase = [id \in ReservationIds |-> "idle"]

Moves(id, from, to) ==
    /\ phase[id] \in from
    /\ phase' = [phase EXCEPT ![id] = to]

\* reserveQuota reads the clock, then waits for the row lock.  Bound: no
\* reservation is made that would outlive the model's clock.
ClockReadings == {at \in (now - LockWait) .. now : at >= 0 /\ at + TTL <= MaxTime}

Reserve(id, at) ==
    /\ Moves(id, {"idle"}, "open")
    /\ TryReserve(id, Owner[id], Bytes[id], at)

Refuse(id, at) ==
    /\ Moves(id, {"idle"}, "refused")
    /\ ~Fits(Owner[id], Bytes[id], at)
    /\ UNCHANGED ledgerVars

Commit(id) ==
    /\ Moves(id, {"open"}, "committed")
    /\ ~LateCommits => id \in LiveIds(Owner[id], now)
    /\ CommitReservation(id, Owner[id], Bytes[id])

Release(id) ==
    /\ Moves(id, {"open"}, "released")
    /\ ReleaseReservation(id)

\* The process dies between the reservation and its commit or release.
Abandon(id) ==
    /\ Moves(id, {"open"}, "abandoned")
    /\ UNCHANGED ledgerVars

Revert(id) ==
    /\ Moves(id, {"committed"}, "reverted")
    /\ RevertCommitReservation(id, Owner[id], Bytes[id])

\* The worker's debit, delivered at least once; one document per token.
DebitDocument(id) ==
    /\ Moves(id, {"committed", "debited"}, "debited")
    /\ RevertCommittedDocumentQuota(id, Owner[id], Bytes[id])

Sweep == SweepExpiredReservations /\ UNCHANGED phase

Elapse == Tick /\ UNCHANGED phase

Next ==
    \/ \E id \in ReservationIds :
          \/ \E at \in ClockReadings : Reserve(id, at) \/ Refuse(id, at)
          \/ Commit(id) \/ Release(id) \/ Abandon(id)
          \/ Revert(id) \/ DebitDocument(id)
    \/ Sweep
    \/ Elapse

Spec == Init /\ [][Next]_vars

\* The clock does not stop.
FairSpec == Spec /\ WF_vars(Elapse)
-----------------------------------------------------------------------------
BytesOf(ids) == TotalBytes([id \in ids |-> Bytes[id]])

CommittedIds(t) == {id \in ReservationIds : phase[id] = "committed" /\ Owner[id] = t}

\* Types of the ledger tables and of the callers' phases.
TypeOK ==
    /\ LedgerTypeOK
    /\ reversals \subseteq Tenants \X ReservationIds
    /\ phase \in [ReservationIds -> Phases]

\* The counter is exactly the bytes of the reservations committed and not
\* taken back: no commit, rollback or repeated worker debit is counted twice,
\* and none is lost (commitReservation, revertCommitReservation,
\* revertCommittedDocumentQuota).
LedgerBalance ==
    \A t \in Tenants : used[t] = BytesOf(CommittedIds(t))

\* The guarded debit never throws on a caller that keeps to the protocol: as
\* long as a token is committed, its tenant's counter holds its bytes
\* (the "used bytes below" errors of quota-repository.ts are unreachable).
DebitNeverThrows ==
    \A id \in ReservationIds :
        phase[id] = "committed" => Debitable(Owner[id], Bytes[id])

\* A row of quota_reservations belongs to a caller that has neither committed
\* nor released, and carries that caller's tenant and bytes.
RowsAreUndecided ==
    \A id \in DOMAIN reservations :
        /\ phase[id] \in {"open", "abandoned"}
        /\ reservations[id].tenantId = Owner[id]
        /\ reservations[id].bytes = Bytes[id]

\* A reversal is recorded for exactly the documents the worker has debited.
ReversalsAreDebits ==
    reversals = {<<Owner[id], id>> : id \in {i \in ReservationIds : phase[i] = "debited"}}

\* Sweeping is housekeeping: a step that only removes expired rows changes
\* nobody's admission, which is why a sweeper that never runs is harmless.
SweepIsInvisible ==
    [][UNCHANGED <<used, now, phase>> =>
          \A t \in Tenants : Outstanding(t, now)' = Outstanding(t, now)]_vars

\* An upload whose process died returns its capacity without anybody acting:
\* whatever the callers do or fail to do, in the end nothing is outstanding
\* (04-configuration.md 4.6).
AbandonedCapacityReturns == <>[](\A t \in Tenants : Outstanding(t, now) = 0)

\* The ledger as a pool: a caller holds capacity from its reservation on,
\* until it releases, reverts or expires.
Holders == {id \in ReservationIds : phase[id] = "committed"}
              \cup {id \in DOMAIN reservations : reservations[id].expiresAt > now}
Dropped == {id \in ReservationIds : phase[id] \notin {"idle", "refused"}} \ Holders

Pool == INSTANCE CapacityPool
            WITH Ids <- ReservationIds, Capacity <- QuotaBytes,
                 holders <- Holders, dropped <- Dropped

\* The ledger implements the pool when no caller commits late.
ImplementsPool == Pool!Spec
=============================================================================
