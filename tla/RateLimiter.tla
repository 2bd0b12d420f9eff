---------------------------- MODULE RateLimiter ----------------------------
(***************************************************************************)
(* The fixed-window rate limits of the API: one counter per limiter and    *)
(* key in Valkey, shared by every replica, incremented by an atomic script *)
(* that also starts the window on its first hit.                           *)
(***************************************************************************)
EXTENDS Tables, Sequences, Integers

CONSTANTS
    Limit,    \* limiter -> hits allowed in a window; those absent never refuse
    Window    \* [limiter -> length of a window, in ticks]

ASSUME LimitAssumption ==
    /\ DOMAIN Limit \subseteq {"login-ip", "login-email", "search", "upload", "reset-state"}
    /\ Limit \in [DOMAIN Limit -> Nat \ {0}] /\ Window \in [DOMAIN Limit -> Nat \ {0}]

VARIABLE counters   \* table: <<limiter, key>> -> [hits, expiresAt]

LimitersInit == counters = EmptyTable

\* A key past its expiry is gone.
Hits(k, now) == IF k \in DOMAIN counters /\ counters[k].expiresAt > now THEN counters[k].hits ELSE 0

\* Mutant of Increment: every hit starts the expiry again.
IncrementSlides(k, now) ==
    LET hits == Hits(k, now) + 1
        most == Limit[k[1]] + 1
    IN  counters' = Insert(counters, k,
            [hits |-> IF hits > most THEN most ELSE hits, expiresAt |-> now + Window[k[1]]])

\* INCREMENT_SCRIPT.  Hits beyond the first refused one make no difference and
\* are not counted (bound: Limit + 1).
Increment(k, now) ==
    LET hits == Hits(k, now) + 1
        most == Limit[k[1]] + 1
    IN  counters' = Insert(counters, k,
            [hits |-> IF hits > most THEN most ELSE hits,
             expiresAt |-> IF hits = 1 THEN now + Window[k[1]] ELSE counters[k].expiresAt])

\* The limiter lets a request pass whose hit is within the limit.
Passes(k, now) == Hits(k, now) < Limit[k[1]]

\* The limiters mounted before an operation, in order.
LimitersOf(op) ==
    CASE op = "login"                                -> <<"login-ip", "login-email">>
      [] op \in {"searchTitles", "searchContent"}   -> <<"search">>
      [] op \in {"uploadDocuments", "uploadVersion"} -> <<"upload">>
      [] op = "resetState"                           -> <<"reset-state">>
      [] OTHER                                       -> <<>>
=============================================================================
