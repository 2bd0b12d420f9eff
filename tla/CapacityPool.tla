---------------------------- MODULE CapacityPool ----------------------------
(***************************************************************************)
(* What the quota ledger promises its callers: a pool of capacity per      *)
(* tenant.  A holder acquires its units in one step and only if they fit;  *)
(* holders may drop out, several at once, and one that has dropped out     *)
(* never holds again under the same id.                                    *)
(***************************************************************************)
EXTENDS Tables

CONSTANTS Tenants, Ids, Owner, Bytes, Capacity

VARIABLES holders, dropped

HeldBy(S, t) == TotalBytes([id \in {i \in S : Owner[i] = t} |-> Bytes[id]])

Init == holders = {} /\ dropped = {}

Acquire(id) ==
    /\ id \notin holders \cup dropped
    /\ HeldBy(holders, Owner[id]) + Bytes[id] <= Capacity
    /\ holders' = holders \cup {id}
    /\ UNCHANGED dropped

Drop(S) ==
    /\ S # {}
    /\ holders' = holders \ S
    /\ dropped' = dropped \cup S

Next == \/ \E id \in Ids : Acquire(id)
        \/ \E S \in SUBSET holders : Drop(S)

Spec == Init /\ [][Next]_<<holders, dropped>>
=============================================================================
