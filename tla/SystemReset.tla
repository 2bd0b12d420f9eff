---------------------------- MODULE SystemReset ----------------------------
(***************************************************************************)
(* POST and GET /admin/reset-state: each replica of the API runs its own   *)
(* ResetRunner, whose job takes the stages in order over stores that every *)
(* replica and every other request share.                                  *)
(***************************************************************************)
EXTENDS Configuration

CONSTANTS
    Replicas,    \* API processes
    Seeding,     \* the seeds asked for: a subset of {"dev", "qa"}
    Blobs,       \* names of objects under t/
    Page,        \* objects one list() of the blob store returns at most
    MaxResets    \* bound: jobs started

ASSUME ResetAssumption ==
    Seeding \subseteq {"dev", "qa"} /\ IsFiniteSet(Blobs) /\ Page \in Nat

VARIABLES
    journal,   \* external: the migration ledger says the migrations are applied
    stored,    \* objects under t/
    index,     \* the search index: "absent", "used" or "empty"
    queue,     \* Valkey holds jobs or counters
    job,       \* [Replicas -> the newest job, or NoJob]
    started    \* jobs started, at most MaxResets

stores == <<db, journal, stored, index, queue>>

NoJob == [status |-> "none"]
Running(p) == job[p].status = "running"
Stage(p, s) == Running(p) /\ job[p].stage = s

\* executeJob's sequence.  recordAudit writes a log line and comes first; each
\* transaction of the seed and each call to the index and the blob store is a
\* step of its own.
NextStage(s) ==
    CASE s = "drop" -> "migrate" [] s = "migrate" -> "seed" [] s = "seed" -> "list"
      [] s = "list" -> "purge"   [] s = "purge" -> "delete_index"
      [] s = "delete_index" -> "create_index" [] s = "create_index" -> "flush" [] OTHER -> "done"

\* A write by anybody else makes what a running reset leaves behind uncertain.
Disturbed(p) ==
    [q \in Replicas |-> IF q # p /\ job[q].status = "running" THEN [job[q] EXCEPT !.alone = FALSE] ELSE job[q]]

\* The catch and finally of executeJob: nothing reads the rest of a record.
Ended(p, status) ==
    job' = [Disturbed(p) EXCEPT ![p] = [status |-> status]]

\* The next stage, or success after the last.
Goes(p) ==
    \/ Stage(p, "flush") /\ Ended(p, "succeeded")
    \/ ~Stage(p, "flush") /\ job' = [Disturbed(p) EXCEPT ![p].stage = NextStage(@)]

\* start(), past the check of its token: this process's own active job is looked at.  The job
\* runs in a microtask, before any other request is served.
Start(p, seed) ==
    /\ ~Running(p) /\ started < MaxResets
    /\ job' = [job EXCEPT ![p] = [status |-> "running", stage |-> "drop", seed |-> seed, left |-> 0,
                                  listed |-> {}, full |-> FALSE, alone |-> \A q \in Replicas : ~Running(q)]]
    /\ started' = started + 1
    /\ UNCHANGED stores

\* A stage throws: its store is out of reach, or answers with an error or too late.
StageFails(p) ==
    /\ Running(p) /\ Ended(p, "failed")
    /\ UNCHANGED <<stores, started>>

\* DROP SCHEMA public CASCADE: the ledger of the migrations is in another schema.
Drop(p) ==
    /\ Stage(p, "drop") /\ Goes(p)
    /\ db' = [drawn |-> db.drawn]
    /\ UNCHANGED <<journal, stored, index, queue, started>>

\* runMigrations applies what the ledger does not list.
Migrate(p) ==
    /\ Stage(p, "migrate") /\ Goes(p)
    /\ db' = IF journal THEN db ELSE Migrated(db.drawn)
    /\ journal' = TRUE
    /\ UNCHANGED <<stored, index, queue, started>>

\* seedDev and seedQa, transaction by transaction; they throw on a missing
\* schema and on a name another tenant holds.
Seed(p) ==
    /\ Stage(p, "seed")
    /\ LET txs == Transactions(job[p].seed)
           seed == txs[job[p].left + 1]
       IN  \/ /\ ~(Exists /\ ~SeedThrows(db, seed))
              /\ Ended(p, "failed") /\ UNCHANGED db
           \/ /\ Exists /\ ~SeedThrows(db, seed)
              /\ db' = SeedTenant(db, seed)
              /\ IF job[p].left + 1 = Len(txs) THEN Goes(p)
                 ELSE job' = [Disturbed(p) EXCEPT ![p].left = @ + 1]
    /\ UNCHANGED <<journal, stored, index, queue, started>>

\* purgeBlobs lists one page of objects ...
ListBlobs(p) ==
    /\ Stage(p, "list")
    /\ \E listed \in SUBSET stored :
          /\ Cardinality(listed) = IF Cardinality(stored) > Page THEN Page ELSE Cardinality(stored)
          /\ job' = [job EXCEPT ![p].listed = listed, ![p].stage = "purge",
                                ![p].full = Cardinality(stored) > Page]
    /\ UNCHANGED <<stores, started>>

\* Mutant of PurgeBlobs: the objects are listed and stay.
PurgeNoBlobs(p) ==
    /\ Stage(p, "purge") /\ Goes(p)
    /\ UNCHANGED <<db, journal, stored, index, queue, started>>

\* ... and deletes those it listed.
PurgeBlobs(p) ==
    /\ Stage(p, "purge") /\ Goes(p)
    /\ stored' = stored \ job[p].listed
    /\ UNCHANGED <<db, journal, index, queue, started>>

\* recreateIndex: 404 on the deletion and 400 on the creation are fine.
DeleteIndex(p) ==
    /\ Stage(p, "delete_index") /\ Goes(p)
    /\ index' = "absent"
    /\ UNCHANGED <<db, journal, stored, queue, started>>

CreateIndex(p) ==
    /\ Stage(p, "create_index") /\ Goes(p)
    /\ index' = IF index = "absent" THEN "empty" ELSE index
    /\ UNCHANGED <<db, journal, stored, queue, started>>

\* flushdb: the queue, and the rate limit counters with it.
FlushQueue(p) ==
    /\ Stage(p, "flush") /\ Goes(p)
    /\ queue' = FALSE
    /\ UNCHANGED <<db, journal, stored, index, started>>

\* A record is gone: the process restarted, or getJob found it past its retention.
Forget(p) ==
    /\ job[p] # NoJob
    /\ job' = [job EXCEPT ![p] = NoJob]
    /\ UNCHANGED <<stores, started>>

ResetStep(p) ==
    \/ \E seed \in Seeding : Start(p, seed)
    \/ StageFails(p) \/ Drop(p) \/ Migrate(p) \/ Seed(p) \/ ListBlobs(p) \/ PurgeBlobs(p)
    \/ DeleteIndex(p) \/ CreateIndex(p) \/ FlushQueue(p) \/ Forget(p)
=============================================================================
