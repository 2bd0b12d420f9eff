---------------------------- MODULE QuotaLedger ----------------------------
(***************************************************************************)
(* The quota ledger of packages/tenancy: tenants.storage_used_bytes, the   *)
(* quota_reservations table and the quota_reversals table, with one action *)
(* per exported query of internal/quota-repository.ts.  Every query is one *)
(* database transaction, and the ones that touch the counter take the      *)
(* tenant's row lock (SELECT ... FOR UPDATE, UPDATE), so each is one step.  *)
(*                                                                         *)
(* The module holds the ledger only.  Who calls it, and in which order, is *)
(* QuotaProtocol (the contract of service.ts) and UploadBatch (catalog).   *)
(***************************************************************************)
EXTENDS Tables, Integers

CONSTANTS
    Tenants,         \* tenants.id
    ReservationIds,  \* quota_reservations.id
    QuotaBytes,      \* tenants.storage_quota_bytes, in abstract units
    TTL,             \* RESERVATION_TTL_MS, in clock ticks
    MaxTime          \* bound: the clock stops here

ASSUME QuotaAssumption == QuotaBytes \in Nat
ASSUME ClockAssumption == TTL \in Nat \ {0} /\ MaxTime \in Nat
ASSUME IdsAssumption   == IsFiniteSet(ReservationIds)

VARIABLES
    used,          \* [Tenants -> Nat]: storage_used_bytes
    reservations,  \* table: id -> [tenantId, bytes, expiresAt]
    reversals,     \* set of <<tenant, document>>: primary key of quota_reversals
    now            \* the clock every replica reads

ledgerVars == <<used, reservations, reversals, now>>

Row == [tenantId : Tenants, bytes : Nat, expiresAt : Nat]

LedgerTypeOK ==
    /\ used \in [Tenants -> Nat]
    /\ DOMAIN reservations \subseteq ReservationIds
    /\ reservations \in [DOMAIN reservations -> Row]
    /\ now \in Nat

LedgerInit ==
    /\ used = [t \in Tenants |-> 0]
    /\ reservations = EmptyTable
    /\ reversals = {}
    /\ now = 0

\* Mutant of LiveIds: expiry is not looked at.
LiveIdsIgnoringExpiry(t, at) == {id \in DOMAIN reservations : reservations[id].tenantId = t}

\* WHERE tenant_id = t AND expires_at > at
LiveIds(t, at) ==
    {id \in DOMAIN reservations :
        reservations[id].tenantId = t /\ reservations[id].expiresAt > at}

Outstanding(t, at) ==
    TotalBytes([id \in LiveIds(t, at) |-> reservations[id].bytes])

\* Mutant of Fits: what is reserved is not counted.
FitsIgnoringReserved(t, bytes, at) == used[t] + bytes <= QuotaBytes

\* Mutant of Fits: the new bytes are not counted.
FitsIgnoringNew(t, bytes, at) == used[t] + Outstanding(t, at) <= QuotaBytes

Fits(t, bytes, at) == used[t] + Outstanding(t, at) + bytes <= QuotaBytes

\* tryReserve.  `at` is the clock reading the service took before the
\* transaction, which may be older than the clock when the lock is granted.
TryReserve(id, t, bytes, at) ==
    /\ Fits(t, bytes, at)
    /\ reservations' = Insert(reservations, id,
           [tenantId |-> t, bytes |-> bytes, expiresAt |-> at + TTL])
    /\ UNCHANGED <<used, reversals, now>>

\* Mutant of CommitReservation: the counter is set, not incremented.
CommitOverwrites(id, t, bytes) ==
    /\ reservations' = Delete(reservations, id)
    /\ used' = [used EXCEPT ![t] = bytes]
    /\ UNCHANGED <<reversals, now>>

\* commitReservation: the count of deleted rows is never looked at, so a
\* reservation whose row has been swept is charged all the same.
CommitReservation(id, t, bytes) ==
    /\ reservations' = Delete(reservations, id)
    /\ used' = [used EXCEPT ![t] = @ + bytes]
    /\ UNCHANGED <<reversals, now>>

\* releaseReservation: deleting a row that is gone is no error.
ReleaseReservation(id) ==
    /\ reservations' = Delete(reservations, id)
    /\ UNCHANGED <<used, reversals, now>>

\* The guarded debit both reversals end in: UPDATE ... WHERE used >= bytes.
\* When no row matches the function throws and the transaction rolls back.
Debitable(t, bytes) == used[t] >= bytes
Debit(t, bytes) == used' = [used EXCEPT ![t] = @ - bytes]

\* revertCommitReservation
RevertCommitReservation(id, t, bytes) ==
    /\ Debitable(t, bytes)
    /\ reservations' = Delete(reservations, id)
    /\ Debit(t, bytes)
    /\ UNCHANGED <<reversals, now>>

\* revertCommittedDocumentQuota: the reversal row makes a repeat a no-op.
AlreadyReversed(t, doc) == <<t, doc>> \in reversals
\* Mutant of RevertCommittedDocumentQuota: a repeat is debited again.
RevertRepeatedly(doc, t, bytes) ==
    /\ Debitable(t, bytes)
    /\ reversals' = reversals \cup {<<t, doc>>}
    /\ used' = [used EXCEPT ![t] = @ - bytes]
    /\ UNCHANGED <<reservations, now>>

RevertCommittedDocumentQuota(doc, t, bytes) ==
    \/ /\ AlreadyReversed(t, doc)
       /\ UNCHANGED ledgerVars
    \/ /\ ~AlreadyReversed(t, doc)
       /\ Debitable(t, bytes)
       /\ reversals' = reversals \cup {<<t, doc>>}
       /\ Debit(t, bytes)
       /\ UNCHANGED <<reservations, now>>

\* sweepExpiredReservations: WHERE expires_at <= now
ExpiredIds(at) ==
    {id \in DOMAIN reservations : reservations[id].expiresAt <= at}
SweepExpiredReservations ==
    /\ ExpiredIds(now) # {}
    /\ reservations' = DeleteAll(reservations, ExpiredIds(now))
    /\ UNCHANGED <<used, reversals, now>>

\* Time passes.
Tick ==
    /\ now < MaxTime
    /\ now' = now + 1
    /\ UNCHANGED <<used, reservations, reversals>>
-----------------------------------------------------------------------------
\* No tenant is ever promised more than its quota: what is stored plus what is
\* reserved and unexpired fits (the race of AC-35.04).
NoOverAllocation ==
    \A t \in Tenants : used[t] + Outstanding(t, now) <= QuotaBytes

\* What is stored fits the quota: GET /storage never reports more than 100
\* percent to a tenant whose quota was not lowered.
NoOverUse == \A t \in Tenants : used[t] <= QuotaBytes
=============================================================================
