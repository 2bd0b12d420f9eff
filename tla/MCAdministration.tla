-------------------------- MODULE MCAdministration --------------------------
(* An instance of Administration for TLC with a sample of the seeds' rows. *)
(* One new tenant takes the dev seed's subdomain, the other its name.      *)
EXTENDS Administration

CONSTANTS p1, p2, b1, b2
Symmetry == Permutations(Replicas) \cup Permutations(Blobs)

\* A document read, of two versions, one queued and one of the other tenant.
Sample(rows, keys) == [rows EXCEPT !.documents = [key \in keys |-> rows.documents[key]]]
MCDevTenant == Sample(DevRows, {"proposal", "draft-kebijakan"})
MCQaTenantB == Sample(QaRowsB, {"rahasia-b"})

\* What the seeds assume of one another holds of every row they write, not only
\* of the sample.
ASSUME RowsFit == SeedsFit(DevRows, QaRowsB)

MCNewTenants ==
    {[name |-> "PT Lain", subdomain |-> "archiva-demo"],
     [name |-> "PT Archiva Demo", subdomain |-> "lain"]}

MCSettings ==
    {[key |-> "max_file_size_mb", value |-> 30], [key |-> "max_file_size_mb", value |-> 0],
     [key |-> "storage_quota_gb", value |-> 30]}

\* The indicator and the super_admin's list agree with a refusal of every
\* upload, at each usage up to half as much again as the quota.
ASSUME IndicatorAgreesWithRefusal ==
    \A quota \in 1 .. 120, used \in 0 .. 180 :
        /\ StorageLevel(used, quota) = "full" <=> used >= quota
        /\ ListedPercent(used, quota) = StoragePercent(used, quota)

H == INSTANCE Health

\* Readiness answers 503 exactly when a dependency the system cannot do without
\* was found down, whatever the providers do, and does not answer at all exactly
\* when one of the two probes without a timer meets silence.
ASSUME ReadinessIsReachability ==
    \A provider \in {"stub", "anthropic"},
       world \in [H!Probes -> {"success", "server error", "silent"}] :
        LET status == H!RunHealthCheck(provider, world)
            found(p) == H!Check(provider, p, world[p])
        IN  /\ status = "pending" <=> \E p \in {"postgres", "valkey"} : world[p] = "silent"
            /\ status # "pending" =>
                 (H!HealthHttpStatus(status) = 503
                    <=> \E p \in H!Probes \ H!CanDegrade : found(p) # "ok")
            /\ status = "ok" <=> \A p \in H!Probes : found(p) = "ok"
=============================================================================
