------------------------------- MODULE Health --------------------------------
(***************************************************************************)
(* The readiness check (platform, service.ts; apps/api,                    *)
(* dependency-probes.ts): seven probes, each of a dependency that answers  *)
(* with success, with an error of the client's or of its own, refuses the  *)
(* connection, or says nothing.                                            *)
(***************************************************************************)
Outcomes == {"success", "client error", "server error", "refused", "silent"}

Probes == {"postgres", "opensearch", "valkey", "blobStore", "clamav", "gotenberg", "aiProvider"}
CanDegrade == {"gotenberg", "aiProvider"}

\* "pending": nothing bounds the wait of the two clients of the process itself.
ClientProbe(outcome) ==
    CASE outcome = "success" -> "ok" [] outcome = "silent" -> "pending" [] OTHER -> "down"

CheckOpensearch(outcome) == IF outcome = "success" THEN "ok" ELSE "down"
CheckBlobStore(outcome) == IF outcome \in {"success", "client error"} THEN "ok" ELSE "down"

\* Whatever the daemon says is an answer; its silence ends with the timer.
CheckClamav(outcome) == IF outcome \in {"refused", "silent"} THEN "down" ELSE "ok"
CheckGotenberg(outcome) == IF outcome = "success" THEN "ok" ELSE "degraded"

\* Only one of the providers is asked; the others are taken to be there.
CheckAiProvider(provider, outcome) ==
    IF provider = "anthropic" /\ outcome \notin {"success", "client error"}
    THEN "degraded" ELSE "ok"

Check(provider, probe, outcome) ==
    CASE probe \in {"postgres", "valkey"} -> ClientProbe(outcome)
      [] probe = "opensearch" -> CheckOpensearch(outcome)
      [] probe = "blobStore"  -> CheckBlobStore(outcome)
      [] probe = "clamav"     -> CheckClamav(outcome)
      [] probe = "gotenberg"  -> CheckGotenberg(outcome)
      [] probe = "aiProvider" -> CheckAiProvider(provider, outcome)

\* The loop ends at the first probe that downs the report.
Aggregate(checks) ==
    IF \E p \in Probes \ CanDegrade : checks[p] = "down" THEN "down"
    ELSE IF \E p \in Probes : checks[p] # "ok" THEN "degraded"
    ELSE "ok"

\* The report waits for every probe, so one that is pending holds it back.
RunHealthCheck(provider, world) ==
    LET checks == [p \in Probes |-> Check(provider, p, world[p])]
    IN  IF \E p \in Probes : checks[p] = "pending" THEN "pending" ELSE Aggregate(checks)

HealthHttpStatus(status) == IF status = "down" THEN 503 ELSE 200
=============================================================================
