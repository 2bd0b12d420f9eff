---------------------------- MODULE RequestGate ----------------------------
(***************************************************************************)
(* What stands between a request and its handler in apps/api: the origin   *)
(* check, the address, the session, the tenant, the rate limits and the    *)
(* role floor, in the order createApp mounts them.  Requests are served    *)
(* concurrently, each awaited call being a step, while time passes and     *)
(* clients sign in and out.                                                *)
(***************************************************************************)
EXTENDS Sessions, RateLimiter

CONSTANTS
    Slots,      \* requests in flight at once
    Clients,    \* HTTP clients, each with a cookie jar
    TenantAt,   \* address -> Tenants \cup {NoTenant}; other addresses are unknown
    Requests,   \* the requests clients may send
    NoUser, NoToken,
    Lag         \* bound: ticks that pass between a session's read and its touch

\* users_role_tenant_check
ASSUME AccountAssumption ==
    \A u \in Users : UserRole[u] \in Roles /\ (UserTenant[u] = NoTenant <=> UserRole[u] = "super_admin")
ASSUME TokenAssumption == NoToken \notin Tokens
ASSUME RequestsAssumption == \A m \in Requests : m.client \in Clients /\ m.op \in DOMAIN FloorOf
ASSUME LagAssumption == Lag \in Nat

VARIABLES
    req,    \* [Slots -> request in service]
    jar,    \* [Clients -> Tokens \cup {NoToken}]: the session cookie
    use,    \* token issued -> the latest times its use was [judged, landed in
            \* its row], and whether it has been signed out
    recent  \* <<limiter, key>> -> times it let pass within the last window

vars == <<sessionVars, counters, req, jar, use, recent>>

Absent   == [kind |-> "absent",  user |-> NoUser]
Outdated == [kind |-> "expired", user |-> NoUser]
Authenticated(u) == [kind |-> "authenticated", user |-> u]

Idle == [pc |-> "idle"]

Init ==
    /\ SessionsInit /\ LimitersInit
    /\ req = [s \in Slots |-> Idle]
    /\ jar = [c \in Clients |-> NoToken]
    /\ use = EmptyTable /\ recent = EmptyTable

In(s, pc) == req[s].pc = pc
TenantOf(r) == TenantAt[r.m.address]
FloorFor(r) == FloorOf[r.m.op]
-----------------------------------------------------------------------------
(* Where a request goes next, as functions of what is known of it.         *)

To(r, pc) == [r EXCEPT !.pc = pc]

\* An answer that sets no cookie and is not a recorded refusal concerns nobody
\* any more: its slot is free.
Answered(r, code) ==
    IF \/ r.pc \in {"mismatch", "forbidden", "notEditable"}
       \/ code = "OK" /\ r.m.op \in {"login", "logout"}
    THEN [r EXCEPT !.pc = "answered", !.answer = code, !.row = <<>>, !.since = 0, !.readAt = 0, !.at = 0]
    ELSE Idle

\* Mutant of BelongsTo: a null tenant matches any address.
BelongsLoosely(u, tenant) == UserRole[u] = "super_admin" \/ tenant # NoTenant

\* belongsTo: a super_admin goes on at every address.
BelongsTo(u, tenant) == UserRole[u] = "super_admin" \/ UserTenant[u] = tenant

\* requireRole
RequireRole(r, floor) ==
    CASE r.session.kind = "absent"  -> Answered(r, "UNAUTHENTICATED")
      [] r.session.kind = "expired" -> Answered(r, "SESSION_EXPIRED")
      [] OTHER -> To(r, IF floor = "authenticated" \/ HasRoleAtLeast(UserRole[r.session.user], floor)
                        THEN "handle" ELSE "forbidden")

\* requireConfigRole: the parameter no tenant may set is refused before its role.
RequireConfigRole(r) ==
    IF r.session.kind = "authenticated" /\ r.m.param = "storage_quota_gb"
    THEN To(r, "notEditable") ELSE RequireRole(r, "admin_tenant")

\* The route's own guard; login and logout have none.
Guard(r) ==
    CASE FloorFor(r) = "public"        -> To(r, "handle")
      [] FloorFor(r) = "configuration" -> RequireConfigRole(r)
      [] OTHER                         -> RequireRole(r, FloorFor(r))

\* The key a limiter counts a request under; NoUser skips the limiter.
KeyOf(r, limiter) ==
    CASE limiter = "login-ip"    -> r.m.client
      [] limiter = "login-email" -> r.m.email
      [] limiter = "search"      -> IF r.session.kind = "authenticated" THEN r.token ELSE NoUser
      [] limiter = "upload"      -> r.session.user
      [] OTHER                   -> "all"

\* The places of the limiters that have a key for a request.
Counting(r, limiters) ==
    {i \in DOMAIN limiters : limiters[i] \in DOMAIN Limit /\ KeyOf(r, limiters[i]) # NoUser}

\* On to the next limiter that has a key, or to the guard.
Limited(r, limiters) ==
    LET left == Counting(r, limiters)
        next == CHOOSE i \in left : \A j \in left : i <= j
    IN  IF left = {} THEN Guard([r EXCEPT !.limits = <<>>])
        ELSE [r EXCEPT !.pc = "limit", !.limits = SubSeq(limiters, next, Len(limiters))]

\* Step 3 of requestContext, or, the second time, a batch upload's validateSession.
Resolved(r, session) ==
    LET q == [r EXCEPT !.session = session, !.row = <<>>, !.readAt = 0, !.at = 0,
                       !.since = 0, !.alive = TRUE]
    IN  CASE r.again -> Answered(q, IF session.kind = "authenticated" THEN "OK" ELSE "SESSION_EXPIRED")
          [] ~r.again /\ session.kind = "authenticated" /\ ~BelongsTo(session.user, TenantOf(r)) ->
                To(q, "mismatch")
          [] OTHER -> Limited(q, LimitersOf(r.m.op))

\* What is true of a session when a request sets out: it has not ended, and
\* its latest use on its row.
Alive(token) ==
    /\ token \in DOMAIN use /\ ~use[token].over
    /\ token \in DOMAIN sessions /\ clock <= sessions[token].expiresAt
Since(token) == IF Alive(token) THEN use[token].landed ELSE 0

\* originCheck, jsonBodyLimit and resolveAddress, for a request with the cookie
\* its client's jar holds.
Screened(m) ==
    LET token == jar[m.client]
        r == [pc |-> "find", m |-> m, token |-> token, session |-> Absent, limits |-> <<>>,
              row |-> <<>>, readAt |-> 0, at |-> 0, again |-> FALSE,
              answer |-> "none", denied |-> "none", gave |-> NoToken,
              alive |-> Alive(token), since |-> Since(token)]
    IN  CASE ~m.proper                                        -> Answered(r, "FORBIDDEN_ORIGIN")
          [] m.proper /\ m.address \notin DOMAIN TenantAt     -> Answered(r, "NOT_FOUND")
          [] m.proper /\ m.address \in DOMAIN TenantAt /\ token = NoToken -> Resolved(r, Absent)
          [] OTHER                                            -> r
-----------------------------------------------------------------------------
Send(s, m) ==
    /\ In(s, "idle")
    /\ req' = [req EXCEPT ![s] = Screened(m)]
    /\ UNCHANGED <<sessionVars, counters, jar, use, recent>>

\* findSessionByToken
FindSession(s) ==
    /\ In(s, "find")
    /\ LET r == req[s] IN
       req' = [req EXCEPT ![s] =
                  IF r.token \in DOMAIN sessions
                  THEN [r EXCEPT !.pc = "judge", !.row = sessions[r.token], !.readAt = clock]
                  ELSE Resolved(r, Outdated)]
    /\ UNCHANGED <<sessionVars, counters, jar, use, recent>>

\* clock.now() and the comparison with both deadlines
Judge(s) ==
    /\ In(s, "judge")
    /\ \/ /\ Expired(req[s].row, clock)
          /\ req' = [req EXCEPT ![s] = Resolved(@, Outdated)]
          /\ UNCHANGED use
       \/ /\ ~Expired(req[s].row, clock)
          /\ req' = [req EXCEPT ![s].pc = "touch", ![s].at = clock]
          /\ use' = [use EXCEPT ![req[s].token].judged = clock]
    /\ UNCHANGED <<sessionVars, counters, jar, recent>>

\* touchSession with the time of the judgement
Touch(s) ==
    /\ In(s, "touch")
    /\ TouchSession(req[s].token, req[s].row, req[s].at)
    /\ req' = [req EXCEPT ![s] = Resolved(@, Authenticated(@.row.user))]
    /\ use' = [use EXCEPT ![req[s].token].landed = IF req[s].at > @ THEN req[s].at ELSE @]
    /\ UNCHANGED <<clock, counters, jar, recent>>

\* limiter(spec): one increment in the store, and 429 over the limit.
Count(s) ==
    /\ In(s, "limit")
    /\ LET r == req[s]
           k == <<Head(r.limits), KeyOf(r, Head(r.limits))>>
       IN  /\ Increment(k, clock)
           /\ IF Passes(k, clock)
              THEN /\ req' = [req EXCEPT ![s] = Limited(@, Tail(@.limits))]
                   /\ recent' = Insert(recent, k,
                          Append(IF k \in DOMAIN recent THEN recent[k] ELSE <<>>, clock))
              ELSE /\ req' = [req EXCEPT ![s] = Answered(@, "RATE_LIMITED")]
                   /\ UNCHANGED recent
    /\ UNCHANGED <<sessionVars, jar, use>>

\* The denied audit event, then the refusal.  record() never throws: an event
\* it cannot insert is lost.  A super_admin has no tenant to record it in.
Deny(s) ==
    /\ req[s].pc \in {"mismatch", "forbidden", "notEditable"}
    /\ \E denied \in IF UserTenant[req[s].session.user] = NoTenant THEN {"none"} ELSE {"recorded", "lost"} :
          req' = [req EXCEPT ![s] = [Answered(@, CASE @.pc = "mismatch"  -> "NOT_FOUND"
                                                   [] @.pc = "forbidden" -> "FORBIDDEN"
                                                   [] OTHER              -> "NOT_EDITABLE_BY_TENANT")
                                     EXCEPT !.denied = denied]]
    /\ UNCHANGED <<sessionVars, counters, jar, use, recent>>

\* authRoutes.login
Login(s) ==
    /\ In(s, "handle") /\ req[s].m.op = "login"
    /\ \/ /\ ~Authenticates(req[s].m.email, req[s].m.passwordOk, TenantOf(req[s]))
          /\ req' = [req EXCEPT ![s] = Answered(@, "INVALID_CREDENTIALS")]
          /\ UNCHANGED <<sessions, use>>
       \/ /\ Authenticates(req[s].m.email, req[s].m.passwordOk, TenantOf(req[s]))
          /\ \E token \in Tokens \ DOMAIN use :
                /\ CreateSession(req[s].m.email, token)
                /\ use' = Insert(use, token, [judged |-> clock, landed |-> clock, over |-> FALSE])
                /\ req' = [req EXCEPT ![s] = [Answered(@, "OK") EXCEPT !.gave = token]]
    /\ UNCHANGED <<clock, counters, jar, recent>>

\* authRoutes.logout: the row goes when the session was resolved, and the
\* answer expires the cookie either way.
Logout(s) ==
    /\ In(s, "handle") /\ req[s].m.op = "logout"
    /\ \/ /\ req[s].session.kind = "authenticated"
          /\ DeleteSession(req[s].token)
          /\ use' = [use EXCEPT ![req[s].token].over = TRUE]
       \/ req[s].session.kind # "authenticated" /\ UNCHANGED <<sessions, use>>
    /\ req' = [req EXCEPT ![s] = Answered(@, "OK")]
    /\ UNCHANGED <<clock, counters, jar, recent>>

\* Every other handler, for the principal and the tenant of the context; the
\* upload of a batch, and no other, resolves its session again before it
\* accepts (validateSession).
Handle(s) ==
    /\ In(s, "handle") /\ req[s].m.op \notin {"login", "logout"}
    /\ req' = [req EXCEPT ![s] = IF @.m.op = "uploadDocuments"
                                 THEN [@ EXCEPT !.pc = "find", !.again = TRUE,
                                                !.alive = Alive(req[s].token), !.since = Since(req[s].token)]
                                 ELSE Answered(@, "OK")]
    /\ UNCHANGED <<sessionVars, counters, jar, use, recent>>

\* The client takes the answer, in any order, and stores the cookie it sets.
Receive(s) ==
    /\ In(s, "answered")
    /\ jar' = IF req[s].answer = "OK" THEN [jar EXCEPT ![req[s].m.client] = req[s].gave] ELSE jar
    /\ req' = [req EXCEPT ![s] = Idle]
    /\ UNCHANGED <<sessionVars, counters, use, recent>>

\* Of times in order, those within a window's length of the present.
Within(times, window, now) ==
    SubSeq(times, Cardinality({i \in DOMAIN times : times[i] + window <= now}) + 1, Len(times))

\* Time passes, and counters expire; a session's read, judgement and touch
\* take Lag ticks at most.
Elapse ==
    /\ clock < MaxTime
    /\ \A s \in Slots : req[s].pc \in {"judge", "touch"} => clock < req[s].readAt + Lag
    /\ clock' = clock + 1
    /\ counters' = DeleteAll(counters, {k \in DOMAIN counters : counters[k].expiresAt <= clock + 1})
    /\ recent' = [k \in {k \in DOMAIN recent : recent[k] # <<>>} |->
                     Within(recent[k], Window[k[1]], clock + 1)]
    /\ UNCHANGED <<sessions, req, jar, use>>

Step(s) ==
    \/ FindSession(s) \/ Judge(s) \/ Touch(s) \/ Count(s) \/ Deny(s)
    \/ Login(s) \/ Logout(s) \/ Handle(s) \/ Receive(s)

Next == Elapse \/ \E s \in Slots : Step(s) \/ \E m \in Requests : Send(s, m)

Spec == Init /\ [][Next]_vars
-----------------------------------------------------------------------------
SignedIn(s) == ~In(s, "idle") /\ req[s].session.kind = "authenticated"

TypeOK ==
    /\ SessionsTypeOK
    /\ jar \in [Clients -> Tokens \cup {NoToken}]
    /\ \A k \in DOMAIN counters :
          counters[k].hits \in 1 .. Limit[k[1]] + 1 /\ counters[k].expiresAt <= clock + Window[k[1]]
    /\ \A s \in Slots : SignedIn(s) => req[s].session.user \in Users
    /\ \A s \in Slots : req[s].pc \in {"judge", "touch"} =>
          req[s].row \in SessionRow /\ req[s].token \in Tokens

\* A session that was over when a request was sent, by a logout that had been
\* carried out or by its absolute end, does not admit it, whatever touches of
\* earlier requests are still on their way; and none is resolved longer after
\* its last use than the idle deadline (resolveSession, touchSession).
SessionsEnd ==
    [][\A s \in Slots : In(s, "judge") /\ In(s, "touch")' =>
          req[s].alive /\ clock <= use[req[s].token].judged + IdleTTL]_vars

\* Within its absolute lifetime, a session is not called expired when a use of
\* it was on its row, at the request's sending, that is younger than the idle
\* deadline less Lag: touches that land out of order cost it no more
\* (resolveSession, touchSession).
ActiveSessionsLast ==
    [][\A s \in Slots : In(s, "judge") /\ ~In(s, "judge")' /\ ~In(s, "touch")' =>
          clock > req[s].row.expiresAt \/ clock + Lag > req[s].since + IdleTTL]_vars

\* A handler with a floor inside a tenant runs for a principal of the addressed
\* tenant only, super_admin included (requestContext step 3, requireRole); and
\* a principal of a tenant who is turned away is on record by the time of the
\* answer, unless the insert was lost (AC-41.05).
AccessIsAccountedFor ==
    \A s \in Slots : SignedIn(s) =>
        /\ In(s, "handle") /\ FloorFor(req[s]) \notin {"public", "authenticated", "super_admin"} =>
              UserTenant[req[s].session.user] = TenantOf(req[s]) /\ TenantOf(req[s]) # NoTenant
        /\ In(s, "answered") /\ req[s].answer \in {"NOT_FOUND", "FORBIDDEN", "NOT_EDITABLE_BY_TENANT"} =>
              (req[s].denied = "none" <=> UserTenant[req[s].session.user] = NoTenant)

\* A limiter lets at most twice its limit pass in any window's length, and
\* refuses only after as many as its limit have passed within that length: no
\* counter is left without an expiry (INCREMENT_SCRIPT).
LimitsAreFair ==
    [][/\ \A k \in DOMAIN recent' : Len(recent'[k]) <= 2 * Limit[k[1]]
       /\ \A s \in Slots : In(s, "limit") /\ In(s, "idle")' =>
             LET limiter == Head(req[s].limits)
                 k       == <<limiter, KeyOf(req[s], limiter)>>
             IN  k \in DOMAIN recent /\ Len(recent[k]) >= Limit[limiter]]_vars
=============================================================================
