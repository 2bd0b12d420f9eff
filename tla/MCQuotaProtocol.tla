-------------------------- MODULE MCQuotaProtocol --------------------------
(* An instance of QuotaProtocol for TLC: three attempts of one tenant, of    *)
(* which only some pairs fit the quota.                                      *)
EXTENDS QuotaProtocol

CONSTANTS t1, a, b, c

OneOwner == [id \in {a, b, c} |-> t1]
MCBytes == [id \in {a, b, c} |-> IF id = b THEN 1 ELSE 2]
=============================================================================
