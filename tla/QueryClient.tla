---------------------------- MODULE QueryClient ----------------------------
(***************************************************************************)
(* One entry of the browser's query cache (lib/query-client.ts over the    *)
(* query library), whose data are numbered by the server's writes: for     *)
(* every key the number of the write shown, 0 before anything is loaded.   *)
(* A fetch reads the server when it is answered and shows when it lands.   *)
(*                                                                         *)
(* told, asked and due are for the properties: the newest write of each    *)
(* key that the user has been told of or shown, which it was when the      *)
(* fetch on its way was sent, and the oldest that the answer on the screen *)
(* may show, whose own request was sent earlier and maybe overtaken.       *)
(***************************************************************************)
EXTENDS Integers

Nothing(keys) == [k \in keys |-> 0]

NewQuery(keys) ==
    [data |-> Nothing(keys), phase |-> "idle", answer |-> Nothing(keys), failed |-> FALSE,
     told |-> Nothing(keys), asked |-> Nothing(keys), due |-> Nothing(keys)]

Loaded(q) == \E k \in DOMAIN q.data : q.data[k] > 0

\* A page that mounts fetches what was never loaded or has grown stale.  A
\* fetch under way is shared.
Fetched(q) ==
    IF q.phase = "idle" THEN [q EXCEPT !.phase = "asked", !.asked = q.told] ELSE q

Answered(q, data) == [q EXCEPT !.phase = "answered", !.answer = data]

Later(m, n) == IF m > n THEN m ELSE n

Shown(q) ==
    [q EXCEPT !.data = q.answer, !.phase = "idle", !.failed = FALSE,
              !.answer = Nothing(DOMAIN q.answer),
              !.told = [k \in DOMAIN q.told |-> Later(q.told[k], q.answer[k])],
              !.due = q.asked]

\* After its retries; the data stay.
Failed(q) == [q EXCEPT !.phase = "idle", !.failed = TRUE, !.answer = Nothing(DOMAIN q.answer)]

\* The answer to a write is put in the cache.  It does not cancel a fetch.
SetQueryData(q, key, n) == [q EXCEPT !.data[key] = n, !.failed = FALSE]

\* The user is told that write n of key is done, asked for when they had been
\* told of write asked: it must be a newer one.
Told(q, key, n, asked) ==
    [q EXCEPT !.told[key] = Later(@, n), !.due[key] = asked + 1]

\* What is shown knows of everything the user knew of when it was asked for.
KnowsWhatWasKnown(q) == \A k \in DOMAIN q.data : q.data[k] >= q.due[k]
=============================================================================
