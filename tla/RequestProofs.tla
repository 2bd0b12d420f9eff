---------------------------- MODULE RequestProofs ----------------------------
(***************************************************************************)
(* Theorems about what a request meets: the gate, for any accounts,        *)
(* addresses, requests, lifetimes, limits and number of requests in        *)
(* service; and, from "A file's journey" on, the way of its files to the   *)
(* scanner's verdict, for any multipart bodies, limits and ways of writing *)
(* a length, however the bodies and the socket's bytes are cut up.         *)
(*                                                                         *)
(* The gate's argument: a token is never issued twice, so a session that has been *)
(* signed out stays away, and one past its absolute end cannot be touched  *)
(* into an earlier one; hence what was not alive when a request set out is *)
(* found neither in the table nor, if it was read before it went, within   *)
(* its deadline.  The last use written on a row is one that was judged, so *)
(* the idle deadline is never counted from later than the last judgement.  *)
(***************************************************************************)
EXTENDS RequestGate, FileJourney, FiniteSetTheorems, SequenceTheorems, TLAPS

Fields == {"pc", "m", "token", "session", "limits", "row", "readAt", "at", "again",
           "answer", "denied", "gave", "alive", "since"}

Sessionable == {Absent, Outdated} \cup {Authenticated(u) : u \in Users}

Uses == [judged : Nat, landed : Nat, over : BOOLEAN]

Known == DOMAIN use \cup {NoToken}

\* The sessions table and the record of what has been done with its tokens.
World ==
    /\ clock \in Nat
    /\ DOMAIN use \subseteq Tokens
    /\ use \in [DOMAIN use -> Uses]
    /\ DOMAIN sessions \subseteq DOMAIN use
    /\ sessions \in [DOMAIN sessions -> SessionRow]
    /\ \A t \in DOMAIN use : use[t].judged <= clock
    /\ \A t \in DOMAIN sessions : ~use[t].over /\ sessions[t].lastSeenAt <= use[t].judged

IsSignedIn(r) == r.session.kind = "authenticated"

\* A request that has passed the tenant check, and one that has passed its
\* operation's floor.
Admitted(r) == IsSignedIn(r) => BelongsTo(r.session.user, TenantOf(r))
Cleared(r) ==
    IsSignedIn(r) /\ FloorFor(r) \notin {"public", "authenticated", "super_admin"} =>
        UserTenant[r.session.user] = TenantOf(r) /\ TenantOf(r) # NoTenant
OnRecord(r) ==
    IsSignedIn(r) /\ r.answer \in {"NOT_FOUND", "FORBIDDEN", "NOT_EDITABLE_BY_TENANT"} =>
        (r.denied = "none" <=> UserTenant[r.session.user] = NoTenant)

\* What a request knows of its session, by how far the resolution has come.
Sought(r) ==
    r.alive \/ r.token \notin DOMAIN sessions \/ clock > sessions[r.token].expiresAt
Read(r) ==
    /\ r.row \in SessionRow /\ r.token \in DOMAIN use
    /\ r.alive \/ clock > r.row.expiresAt
    /\ r.row.lastSeenAt <= use[r.token].judged
Judged(r) ==
    /\ r.row \in SessionRow /\ r.token \in DOMAIN use
    /\ r.at \in Nat /\ r.at <= use[r.token].judged

\* The same of every request, wherever it is.
Typed(r) ==
    /\ DOMAIN r = Fields /\ r.token \in Known /\ r.gave \in Known
    /\ r.session \in Sessionable
Placed(r) ==
    \/ r.pc = "find" /\ Sought(r)
    \/ r.pc = "judge" /\ Read(r)
    \/ r.pc = "touch" /\ Judged(r)
    \/ r.pc = "limit" /\ Admitted(r)
    \/ r.pc = "handle" /\ Cleared(r)
    \/ r.pc \in {"mismatch", "forbidden", "notEditable"}
    \/ r.pc = "answered" /\ OnRecord(r)
Sound(r) == r = Idle \/ (Typed(r) /\ Placed(r))

Gate ==
    /\ World
    /\ req \in [Slots -> {req[s] : s \in Slots}]
    /\ jar \in [Clients -> Known]
    /\ \A s \in Slots : Sound(req[s])

-----------------------------------------------------------------------------
(* Where the functions of a request's context lead. *)

\* A request that goes on past its session without another look at it.
GoesOn(q, r) ==
    \/ q = Idle
    \/ /\ DOMAIN q = Fields /\ q.token = r.token /\ q.gave = r.gave
       /\ q.session = r.session
       /\ \/ q.pc = "limit" /\ Admitted(q)
          \/ q.pc = "handle" /\ Cleared(q)
          \/ q.pc \in {"mismatch", "forbidden", "notEditable"}
          \/ q.pc = "answered" /\ q.answer = "OK"

\* requireRole lets nobody of another tenant, nor a super_admin, past a floor
\* inside a tenant.
LEMMA RoleClears ==
    ASSUME NEW r, DOMAIN r = Fields, r.session \in Sessionable, Admitted(r), NEW floor,
           r.pc \in {"find", "judge", "touch", "limit"},
           floor = FloorFor(r) \/ floor = "admin_tenant"
    PROVE  GoesOn(RequireRole(r, floor), r)
<1>1. CASE ~IsSignedIn(r)
  <2>1. r.session \in {Absent, Outdated}
    BY <1>1 DEF IsSignedIn, Sessionable, Authenticated
  <2>2. RequireRole(r, floor) \in {Answered(r, "UNAUTHENTICATED"), Answered(r, "SESSION_EXPIRED")}
    BY <2>1 DEF RequireRole, Absent, Outdated
  <2>3. Answered(r, "UNAUTHENTICATED") = Idle /\ Answered(r, "SESSION_EXPIRED") = Idle
    BY DEF Answered
  <2> QED
    BY <2>2, <2>3 DEF GoesOn
<1>2. CASE IsSignedIn(r)
  <2>1. r.session.user \in Users
    BY <1>2 DEF IsSignedIn, Sessionable, Authenticated, Absent, Outdated
  <2>2. \/ RequireRole(r, floor) = To(r, "forbidden")
        \/ /\ RequireRole(r, floor) = To(r, "handle")
           /\ floor = "authenticated" \/ HasRoleAtLeast(UserRole[r.session.user], floor)
    BY <1>2 DEF RequireRole, IsSignedIn
  <2>3. CASE RequireRole(r, floor) = To(r, "forbidden")
    BY <2>3, Zenon DEF GoesOn, To, Fields
  <2>4. CASE /\ RequireRole(r, floor) = To(r, "handle")
             /\ floor = "authenticated" \/ HasRoleAtLeast(UserRole[r.session.user], floor)
    <3>1. /\ DOMAIN To(r, "handle") = Fields /\ To(r, "handle").pc = "handle"
          /\ To(r, "handle").m = r.m /\ To(r, "handle").session = r.session
          /\ To(r, "handle").token = r.token /\ To(r, "handle").gave = r.gave
      BY DEF To, Fields
    <3>2. ASSUME FloorFor(r) \notin {"public", "authenticated", "super_admin"}
          PROVE  UserTenant[r.session.user] = TenantOf(r) /\ TenantOf(r) # NoTenant
      <4>1. UserRole[r.session.user] # "super_admin"
        BY <2>4, <3>2 DEF HasRoleAtLeast
      <4> QED
        BY <1>2, <2>1, <4>1, AccountAssumption DEF Admitted, BelongsTo
    <3>3. Cleared(To(r, "handle"))
      BY <3>1, <3>2 DEF Cleared, FloorFor, TenantOf
    <3> QED
      BY <2>4, <3>1, <3>3 DEF GoesOn
  <2> QED
    BY <2>2, <2>3, <2>4
<1> QED
  BY <1>1, <1>2

LEMMA GuardClears ==
    ASSUME NEW r, DOMAIN r = Fields, r.session \in Sessionable, Admitted(r),
           r.pc \in {"find", "judge", "touch", "limit"}
    PROVE  GoesOn(Guard(r), r)
<1>1. CASE FloorFor(r) = "public"
  <2>1. /\ DOMAIN To(r, "handle") = Fields /\ To(r, "handle").pc = "handle"
        /\ To(r, "handle").m = r.m /\ To(r, "handle").session = r.session
        /\ To(r, "handle").token = r.token /\ To(r, "handle").gave = r.gave
    BY DEF To, Fields
  <2>2. Guard(r) = To(r, "handle")
    BY <1>1 DEF Guard
  <2>3. Cleared(To(r, "handle"))
    BY <1>1, <2>1 DEF Cleared, FloorFor
  <2> QED
    BY <2>1, <2>2, <2>3 DEF GoesOn
<1>2. CASE FloorFor(r) = "configuration"
  <2>1. Guard(r) \in {To(r, "notEditable"), RequireRole(r, "admin_tenant")}
    BY <1>2 DEF Guard, RequireConfigRole
  <2>2. GoesOn(To(r, "notEditable"), r)
    BY Zenon DEF GoesOn, To, Fields
  <2> QED
    BY <2>1, <2>2, RoleClears
<1>3. CASE FloorFor(r) \notin {"public", "configuration"}
  <2>1. Guard(r) = RequireRole(r, FloorFor(r))
    BY <1>3 DEF Guard
  <2> QED
    BY <2>1, RoleClears
<1> QED
  BY <1>1, <1>2, <1>3

LEMMA LimitedClears ==
    ASSUME NEW r, DOMAIN r = Fields, r.session \in Sessionable, Admitted(r), NEW limiters,
           r.pc \in {"find", "judge", "touch", "limit"}
    PROVE  GoesOn(Limited(r, limiters), r)
<1> DEFINE g == [r EXCEPT !.limits = <<>>]
           next == CHOOSE i \in Counting(r, limiters) : \A j \in Counting(r, limiters) : i <= j
           l == [r EXCEPT !.pc = "limit", !.limits = SubSeq(limiters, next, Len(limiters))]
<1>1. Limited(r, limiters) \in {Guard(g), l}
  BY DEF Limited
<1>2. /\ DOMAIN g = Fields /\ g.m = r.m /\ g.pc = r.pc
      /\ g.session = r.session /\ g.token = r.token /\ g.gave = r.gave
  BY DEF Fields
<1>3. /\ DOMAIN l = Fields /\ l.m = r.m /\ l.pc = "limit"
      /\ l.session = r.session /\ l.token = r.token /\ l.gave = r.gave
  BY DEF Fields
<1>4. Admitted(g) /\ Admitted(l)
  <2> HIDE DEF g, l
  <2> QED
    BY <1>2, <1>3 DEF Admitted, IsSignedIn, TenantOf
<1>5. GoesOn(l, r)
  <2> HIDE DEF l
  <2> QED
    BY <1>3, <1>4 DEF GoesOn
<1>6. GoesOn(Guard(g), g)
  <2> HIDE DEF g
  <2> QED
    BY <1>2, <1>4, GuardClears
<1>7. GoesOn(Guard(g), r)
  <2> HIDE DEF g
  <2> QED
    BY <1>2, <1>6 DEF GoesOn
<1> QED
  BY <1>1, <1>5, <1>7

\* A resolved session lets a request go on inside its tenant, turns it away, or
\* ends its second look.
LEMMA ResolvedClears ==
    ASSUME NEW r, DOMAIN r = Fields, r.pc \in {"find", "judge", "touch"},
           NEW session \in Sessionable
    PROVE  GoesOn(Resolved(r, session), [r EXCEPT !.session = session])
<1> DEFINE q == [r EXCEPT !.session = session, !.row = <<>>, !.readAt = 0, !.at = 0,
                          !.since = 0, !.alive = TRUE]
           p == [r EXCEPT !.session = session]
<1>1. /\ DOMAIN q = Fields /\ q.m = r.m /\ q.pc = r.pc
      /\ q.session = session /\ q.token = r.token /\ q.gave = r.gave
  BY DEF Fields
<1>2. /\ DOMAIN p = Fields /\ p.m = r.m /\ p.pc = r.pc
      /\ p.session = session /\ p.token = r.token /\ p.gave = r.gave
  BY DEF Fields
<1>3. CASE r.again
  <2>1. Resolved(r, session) \in {Answered(q, "OK"), Answered(q, "SESSION_EXPIRED")}
    BY <1>3 DEF Resolved
  <2>2. Answered(q, "SESSION_EXPIRED") = Idle
    <3> HIDE DEF q
    <3> QED
      BY <1>1 DEF Answered
  <2>3. GoesOn(Answered(q, "OK"), p)
    <3> HIDE DEF q, p
    <3>1. Answered(q, "OK") \in {Idle, [q EXCEPT !.pc = "answered", !.answer = "OK", !.row = <<>>,
                                               !.since = 0, !.readAt = 0, !.at = 0]}
      BY DEF Answered
    <3> QED
      BY <1>1, <1>2, <3>1 DEF GoesOn, Fields
  <2> QED
    BY <2>1, <2>2, <2>3 DEF GoesOn
<1>4. CASE ~r.again /\ session.kind = "authenticated" /\ ~BelongsTo(session.user, TenantOf(r))
  <2>1. Resolved(r, session) = To(q, "mismatch")
    BY <1>4 DEF Resolved
  <2> HIDE DEF q, p
  <2> QED
    BY <1>1, <1>2, <2>1 DEF GoesOn, To, Fields
<1>5. CASE ~r.again /\ ~(session.kind = "authenticated" /\ ~BelongsTo(session.user, TenantOf(r)))
  <2>1. Resolved(r, session) = Limited(q, LimitersOf(r.m.op))
    BY <1>5 DEF Resolved
  <2> HIDE DEF q, p
  <2>2. Admitted(q)
    BY <1>1, <1>5 DEF Admitted, IsSignedIn, TenantOf
  <2>3. GoesOn(Limited(q, LimitersOf(r.m.op)), q)
    BY <1>1, <2>2, LimitedClears
  <2> QED
    BY <1>1, <1>2, <2>1, <2>3 DEF GoesOn
<1> QED
  BY <1>3, <1>4, <1>5
-----------------------------------------------------------------------------
(* What a step does to the sessions and to the requests of others. *)

\* Uses and time only grow, and a token that has been issued is not issued again.
Moved ==
    /\ DOMAIN use \subseteq DOMAIN use' /\ clock' >= clock
    /\ \A t \in DOMAIN use : use'[t].judged >= use[t].judged
    /\ \A t \in Known : t \in DOMAIN sessions' =>
          t \in DOMAIN sessions /\ sessions'[t].expiresAt = sessions[t].expiresAt

LEMMA StillWorld ==
    ASSUME World, UNCHANGED <<sessions, clock, use>>
    PROVE  World' /\ Moved
<1>1. \A t \in DOMAIN use : use[t].judged \in Nat
  BY DEF World, Uses
<1>2. World'
  BY DEF World
<1>3. Moved
  BY <1>1 DEF World, Moved
<1> QED
  BY <1>2, <1>3

LEMMA JudgeMoves ==
    ASSUME Gate, NEW s \in Slots, Judge(s)
    PROVE  World' /\ Moved
<1>1. CASE UNCHANGED use
  BY <1>1, StillWorld DEF Judge, sessionVars, Gate
<1>2. CASE use' = [use EXCEPT ![req[s].token].judged = clock]
  <2>1. req[s].token \in DOMAIN use
    BY DEF Judge, In, Gate, Sound, Placed, Read, Idle
  <2>2. /\ UNCHANGED <<sessions, clock>> /\ DOMAIN use' = DOMAIN use
        /\ use'[req[s].token].judged = clock /\ use'[req[s].token].over = use[req[s].token].over
        /\ \A t \in DOMAIN use \ {req[s].token} : use'[t] = use[t]
        /\ use' \in [DOMAIN use -> Uses]
    BY <1>2, <2>1 DEF Judge, sessionVars, Gate, World, Uses
  <2>3. /\ \A t \in DOMAIN use : use[t].judged \in Nat /\ use[t].judged <= clock
        /\ \A t \in DOMAIN sessions : t \in DOMAIN use /\ sessions[t].lastSeenAt \in Nat
                                      /\ sessions[t].lastSeenAt <= use[t].judged /\ ~use[t].over
        /\ clock \in Nat
    BY DEF Gate, World, Uses, SessionRow
  <2>4. \A t \in DOMAIN use : use'[t].judged >= use[t].judged /\ use'[t].judged <= clock
                              /\ use'[t].over = use[t].over /\ use'[t].judged \in Nat
    BY <2>1, <2>2, <2>3
  <2>5. \A t \in DOMAIN sessions : sessions[t].lastSeenAt <= use'[t].judged
    BY <2>3, <2>4
  <2>6. World'
    BY <2>2, <2>3, <2>4, <2>5 DEF Gate, World
  <2> QED
    BY <2>2, <2>3, <2>4, <2>6 DEF Moved
<1> QED
  BY <1>1, <1>2 DEF Judge

LEMMA TouchMoves ==
    ASSUME Gate, NEW s \in Slots, Touch(s)
    PROVE  World' /\ Moved
<1> DEFINE token == req[s].token
           at == req[s].at
<1>1. token \in DOMAIN use /\ at \in Nat /\ at <= use[token].judged
  BY DEF Touch, In, Gate, Sound, Placed, Judged, Idle
<1>2. /\ clock' = clock /\ DOMAIN use' = DOMAIN use
      /\ \A t \in DOMAIN use : use'[t].judged = use[t].judged /\ use'[t].over = use[t].over
      /\ use' \in [DOMAIN use -> Uses]
  <2> HIDE DEF token, at
  <2>1. PICK n \in Nat : use' = [use EXCEPT ![token].landed = n]
    BY <1>1 DEF Touch, Gate, World, Uses, token, at
  <2>2. /\ use \in [DOMAIN use -> Uses] /\ use[token] \in Uses
    BY <1>1 DEF Gate, World
  <2>3. /\ DOMAIN use' = DOMAIN use /\ use'[token] = [use[token] EXCEPT !.landed = n]
        /\ \A t \in DOMAIN use \ {token} : use'[t] = use[t]
    BY <1>1, <2>1, <2>2
  <2>4. use'[token] \in Uses /\ use'[token].judged = use[token].judged /\ use'[token].over = use[token].over
    BY <2>2, <2>3 DEF Uses
  <2>5. use' \in [DOMAIN use -> Uses]
    BY <2>1, <2>2, <2>3, <2>4
  <2>6. clock' = clock
    BY DEF Touch
  <2> QED
    BY <2>3, <2>4, <2>5, <2>6
<1>3. /\ DOMAIN sessions' = DOMAIN sessions
      /\ \A t \in DOMAIN sessions :
            sessions'[t] = IF t = token THEN [sessions[t] EXCEPT !.lastSeenAt = at] ELSE sessions[t]
  BY DEF Touch, TouchSession
<1> HIDE DEF token, at
<1>4. \A t \in DOMAIN sessions :
         /\ sessions'[t] \in SessionRow /\ sessions'[t].expiresAt = sessions[t].expiresAt
         /\ sessions'[t].lastSeenAt <= use[t].judged
  BY <1>1, <1>3 DEF Gate, World, SessionRow
<1>5. sessions' \in [DOMAIN sessions' -> SessionRow]
  BY <1>3, <1>4 DEF Touch, TouchSession
<1>6. World'
  BY <1>2, <1>3, <1>4, <1>5 DEF Gate, World
<1>7. \A t \in DOMAIN use : use[t].judged \in Nat /\ clock \in Nat
  BY DEF Gate, World, Uses
<1> QED
  BY <1>2, <1>3, <1>4, <1>6, <1>7 DEF Moved, Gate, World

LEMMA LoginMoves ==
    ASSUME Gate, NEW s \in Slots, Login(s)
    PROVE  /\ World' /\ Moved
           /\ req' = [req EXCEPT ![s] = Answered(@, "INVALID_CREDENTIALS")] \/
              \E token \in DOMAIN use' : req' = [req EXCEPT ![s] = [Answered(@, "OK") EXCEPT !.gave = token]]
<1>1. CASE UNCHANGED <<sessions, use>>
  <2>1. World' /\ Moved
    BY <1>1, StillWorld DEF Login, Gate
  <2>2. ASSUME NEW token, token \notin DOMAIN use, use' = Insert(use, token, [judged |-> clock, landed |-> clock, over |-> FALSE])
        PROVE FALSE
    BY <1>1, <2>2 DEF Insert
  <2> QED
    BY <2>1, <2>2 DEF Login
<1>2. ASSUME NEW token \in Tokens \ DOMAIN use, NEW user \in Users, CreateSession(user, token),
             use' = Insert(use, token, [judged |-> clock, landed |-> clock, over |-> FALSE]),
             clock' = clock
      PROVE  World' /\ Moved /\ token \in DOMAIN use'
  <2>1. /\ DOMAIN use' = DOMAIN use \cup {token}
        /\ use'[token] = [judged |-> clock, landed |-> clock, over |-> FALSE]
        /\ \A t \in DOMAIN use : use'[t] = use[t]
    BY <1>2 DEF Insert
  <2>2. /\ DOMAIN sessions' = DOMAIN sessions \cup {token}
        /\ sessions'[token] = [user |-> user, expiresAt |-> clock + AbsoluteTTL, lastSeenAt |-> clock]
        /\ \A t \in DOMAIN sessions : sessions'[t] = sessions[t]
    BY <1>2 DEF CreateSession, Insert, Gate, World
  <2>3. clock \in Nat /\ clock + AbsoluteTTL \in Nat
    BY LifetimeAssumption DEF Gate, World
  <2>4. use' \in [DOMAIN use' -> Uses]
    BY <1>2, <2>1, <2>3 DEF Insert, Gate, World, Uses
  <2>5. sessions' \in [DOMAIN sessions' -> SessionRow]
    BY <1>2, <2>2, <2>3 DEF CreateSession, Insert, SessionRow, Gate, World
  <2>6. token # NoToken
    BY <1>2, TokenAssumption
  <2>7. \A t \in DOMAIN use : use[t].judged \in Nat
    BY DEF Gate, World, Uses
  <2>8. World'
    <3>1. DOMAIN use' \subseteq Tokens /\ DOMAIN sessions' \subseteq DOMAIN use' /\ clock' \in Nat
      BY <1>2, <2>1, <2>2, <2>3 DEF Gate, World
    <3>2. \A t \in DOMAIN use' : use'[t].judged <= clock'
      <4>1. use'[token].judged <= clock'
        BY <1>2, <2>1, <2>3
      <4>2. ASSUME NEW t \in DOMAIN use PROVE use'[t].judged <= clock'
        BY <1>2, <2>1 DEF Gate, World
      <4> QED
        BY <2>1, <4>1, <4>2
    <3>3. \A t \in DOMAIN sessions' : ~use'[t].over /\ sessions'[t].lastSeenAt <= use'[t].judged
      <4>1. ~use'[token].over /\ sessions'[token].lastSeenAt <= use'[token].judged
        BY <2>1, <2>2, <2>3
      <4>2. ASSUME NEW t \in DOMAIN sessions
            PROVE  ~use'[t].over /\ sessions'[t].lastSeenAt <= use'[t].judged
        BY <2>1, <2>2 DEF Gate, World
      <4> QED
        BY <2>2, <4>1, <4>2
    <3> QED
      BY <2>4, <2>5, <3>1, <3>2, <3>3 DEF World
  <2>9. Moved
    <3>1. \A t \in DOMAIN use : use'[t].judged >= use[t].judged
      BY <2>1, <2>7
    <3>2. \A t \in Known : t # token
      BY <1>2, <2>6 DEF Known
    <3>3. clock' >= clock
      BY <1>2, <2>3
    <3> QED
      BY <2>1, <2>2, <3>1, <3>2, <3>3 DEF Moved
  <2> QED
    BY <2>1, <2>8, <2>9
<1> QED
  BY <1>1, <1>2 DEF Login, Authenticates

LEMMA LogoutMoves ==
    ASSUME Gate, NEW s \in Slots, Logout(s)
    PROVE  World' /\ Moved
<1>1. CASE UNCHANGED <<sessions, use>>
  BY <1>1, StillWorld DEF Logout, Gate
<1>2. CASE DeleteSession(req[s].token) /\ use' = [use EXCEPT ![req[s].token].over = TRUE]
  <2> DEFINE token == req[s].token
  <2>1. DOMAIN sessions' = DOMAIN sessions \ {token} /\ \A t \in DOMAIN sessions' : sessions'[t] = sessions[t]
    BY <1>2 DEF DeleteSession, Delete, DeleteAll
  <2>2. /\ DOMAIN use' = DOMAIN use
        /\ \A t \in DOMAIN use : use'[t].judged = use[t].judged /\ (t # token => use'[t] = use[t])
        /\ use' \in [DOMAIN use -> Uses]
    BY <1>2 DEF Gate, World, Uses
  <2>3. sessions' \in [DOMAIN sessions' -> SessionRow]
    BY <1>2, <2>1 DEF DeleteSession, Delete, DeleteAll, Gate, World
  <2>4. clock' = clock
    BY DEF Logout
  <2> HIDE DEF token
  <2>5. World'
    BY <2>1, <2>2, <2>3, <2>4 DEF Gate, World
  <2>6. \A t \in DOMAIN use : use[t].judged \in Nat /\ clock \in Nat
    BY DEF Gate, World, Uses
  <2> QED
    BY <2>1, <2>2, <2>4, <2>5, <2>6 DEF Moved, Gate, World
<1> QED
  BY <1>1, <1>2 DEF Logout

LEMMA ElapseMoves ==
    ASSUME Gate, Elapse
    PROVE  World' /\ Moved
<1>1. clock \in Nat /\ clock' = clock + 1 /\ UNCHANGED <<sessions, use>>
  BY DEF Elapse, Gate, World
<1>2. \A t \in DOMAIN use : use[t].judged \in Nat /\ use[t].judged <= clock
  BY DEF Gate, World, Uses
<1>3. \A t \in DOMAIN use : use[t].judged <= clock'
  BY <1>1, <1>2
<1>4. World'
  BY <1>1, <1>3 DEF Gate, World
<1> QED
  BY <1>1, <1>2, <1>4 DEF Moved

\* A request that no step is about keeps what it knows of its session.
LEMMA OthersStaySound ==
    ASSUME World, World', Moved, NEW s \in Slots, Sound(req[s]), req'[s] = req[s]
    PROVE  Sound(req[s])'
<1> DEFINE r == req[s]
<1>1. r = Idle => Sound(req[s])'
  BY DEF Sound
<1>2. ASSUME Typed(r) PROVE Typed(req[s])'
  BY <1>2 DEF Typed, Known, Moved
<1>3. ASSUME Typed(r), Placed(r) PROVE Placed(req[s])'
  <2>1. CASE r.pc = "find" /\ Sought(r)
    <3>1. r.token \in DOMAIN sessions' => r.token \in DOMAIN sessions
                                          /\ sessions'[r.token].expiresAt = sessions[r.token].expiresAt
      BY <1>3 DEF Typed, Moved
    <3>2. r.token \in DOMAIN sessions => sessions[r.token].expiresAt \in Nat
      BY DEF World, SessionRow
    <3>3. Sought(req[s])'
      BY <2>1, <3>1, <3>2 DEF Sought, Moved, World
    <3> QED
      BY <2>1, <3>3 DEF Placed
  <2>2. CASE r.pc = "judge" /\ Read(r)
    <3>1. /\ r.token \in DOMAIN use' /\ use'[r.token].judged >= use[r.token].judged
          /\ use'[r.token].judged \in Nat /\ use[r.token].judged \in Nat
          /\ r.row.expiresAt \in Nat /\ r.row.lastSeenAt \in Nat
          /\ clock \in Nat /\ clock' \in Nat /\ clock' >= clock
      BY <2>2 DEF Read, Moved, World, Uses, SessionRow
    <3>2. Read(req[s])'
      BY <2>2, <3>1 DEF Read
    <3> QED
      BY <2>2, <3>2 DEF Placed
  <2>3. CASE r.pc = "touch" /\ Judged(r)
    <3>1. /\ r.token \in DOMAIN use' /\ use'[r.token].judged >= use[r.token].judged
          /\ use'[r.token].judged \in Nat /\ use[r.token].judged \in Nat
      BY <2>3 DEF Judged, Moved, World, Uses
    <3>2. Judged(req[s])'
      BY <2>3, <3>1 DEF Judged
    <3> QED
      BY <2>3, <3>2 DEF Placed
  <2>4. CASE r.pc \notin {"find", "judge", "touch"}
    BY <1>3, <2>4 DEF Placed, Admitted, Cleared, OnRecord, IsSignedIn, FloorFor, TenantOf
  <2> QED
    BY <1>3, <2>1, <2>2, <2>3, <2>4 DEF Placed
<1> QED
  BY <1>1, <1>2, <1>3 DEF Sound

\* A step that moves the context of a request on from a resolved session.
LEMMA OwnGoesOn ==
    ASSUME NEW s \in Slots, NEW q, NEW r, req'[s] = q, GoesOn(q, r),
           r.session \in Sessionable, r.token \in Known', r.gave \in Known'
    PROVE  Sound(req[s])'
<1>1. CASE q = Idle
  BY <1>1 DEF Sound
<1>2. CASE q # Idle
  <2>1. Typed(req[s])'
    BY <1>2 DEF GoesOn, Typed
  <2>2. Placed(req[s])'
    BY <1>2 DEF GoesOn, Placed, Admitted, Cleared, OnRecord, IsSignedIn, FloorFor, TenantOf
  <2> QED
    BY <2>1, <2>2 DEF Sound
<1> QED
  BY <1>1, <1>2
-----------------------------------------------------------------------------
(* One lemma per step: where it leaves its own request. *)

LEMMA SendIsSound ==
    ASSUME Gate, World', Moved, NEW s \in Slots, NEW m \in Requests, Send(s, m)
    PROVE  Sound(req[s])'
<1> DEFINE token == jar[m.client]
           r == [pc |-> "find", m |-> m, token |-> token, session |-> Absent, limits |-> <<>>,
                 row |-> <<>>, readAt |-> 0, at |-> 0, again |-> FALSE,
                 answer |-> "none", denied |-> "none", gave |-> NoToken,
                 alive |-> Alive(token), since |-> Since(token)]
<1>1. req'[s] = Screened(m)
  BY DEF Send, Gate
<1>2. token \in Known
  BY RequestsAssumption DEF Gate
<1>3. CASE Screened(m) = r /\ token # NoToken
  <2>1. Typed(req[s])'
    BY <1>1, <1>2, <1>3 DEF Typed, Fields, Known, Moved, Sessionable
  <2>2. r.alive \/ token \notin DOMAIN sessions' \/ clock' > sessions'[token].expiresAt
    <3>1. ASSUME ~Alive(token)
          PROVE  token \notin DOMAIN sessions \/ ~(clock <= sessions[token].expiresAt)
      BY <1>2, <1>3, <3>1 DEF Alive, Known, Gate, World
    <3>2. UNCHANGED <<sessions, clock>>
      BY DEF Send, sessionVars
    <3>3. token \in DOMAIN sessions => sessions[token].expiresAt \in Nat /\ clock \in Nat
      BY DEF Gate, World, SessionRow
    <3> QED
      BY <3>1, <3>2, <3>3
  <2>3. Placed(req[s])'
    BY <1>1, <1>3, <2>2 DEF Placed, Sought
  <2> QED
    BY <2>1, <2>3 DEF Sound
<1>4. CASE Screened(m) \in {Answered(r, "FORBIDDEN_ORIGIN"), Answered(r, "NOT_FOUND")}
  <2>1. Answered(r, "FORBIDDEN_ORIGIN") = Idle /\ Answered(r, "NOT_FOUND") = Idle
    BY DEF Answered
  <2> QED
    BY <1>1, <1>4, <2>1 DEF Sound
<1>5. CASE Screened(m) = Resolved(r, Absent)
  <2>1. GoesOn(Resolved(r, Absent), [r EXCEPT !.session = Absent])
    <3>1. DOMAIN r = Fields /\ r.pc = "find" /\ Absent \in Sessionable
      BY DEF Fields, Sessionable
    <3> HIDE DEF r
    <3> QED
      BY <3>1, ResolvedClears
  <2>2. LET p == [r EXCEPT !.session = Absent]
        IN  p.session \in Sessionable /\ p.token \in Known' /\ p.gave \in Known'
    BY <1>2 DEF Sessionable, Known, Moved
  <2> HIDE DEF r
  <2> QED
    BY <1>1, <1>5, <2>1, <2>2, OwnGoesOn
<1> QED
  BY <1>3, <1>4, <1>5 DEF Screened

LEMMA ResolvingIsSound ==
    ASSUME Gate, World', Moved, NEW s \in Slots, req[s].pc \in {"find", "judge", "touch"},
           NEW session \in Sessionable, req'[s] = Resolved(req[s], session)
    PROVE  Sound(req[s])'
<1> DEFINE r == req[s]
           p == [r EXCEPT !.session = session]
<1>1. Typed(r)
  BY DEF Gate, Sound, Idle
<1>2. GoesOn(Resolved(r, session), p)
  BY <1>1, ResolvedClears DEF Typed
<1>3. p.session \in Sessionable /\ p.token \in Known' /\ p.gave \in Known'
  BY <1>1 DEF Typed, Fields, Known, Moved
<1> HIDE DEF p
<1> QED
  BY <1>2, <1>3, OwnGoesOn

LEMMA FindIsSound ==
    ASSUME Gate, World', Moved, NEW s \in Slots, FindSession(s)
    PROVE  Sound(req[s])'
<1> DEFINE r == req[s]
<1>1. r.pc = "find" /\ Typed(r) /\ Sought(r) /\ UNCHANGED <<sessions, clock, use>>
  BY DEF FindSession, In, Gate, Sound, Placed, Idle, sessionVars
<1>2. CASE r.token \notin DOMAIN sessions
  <2>1. req'[s] = Resolved(r, Outdated)
    BY <1>2 DEF FindSession, Gate
  <2> QED
    BY <1>1, <2>1, ResolvingIsSound DEF Sessionable
<1>3. CASE r.token \in DOMAIN sessions
  <2>1. req'[s] = [r EXCEPT !.pc = "judge", !.row = sessions[r.token], !.readAt = clock]
    BY <1>3 DEF FindSession, Gate
  <2>2. /\ DOMAIN req'[s] = Fields /\ req'[s].pc = "judge" /\ req'[s].row = sessions[r.token]
        /\ req'[s].token = r.token /\ req'[s].gave = r.gave /\ req'[s].session = r.session
        /\ req'[s].alive = r.alive
    BY <1>1, <2>1 DEF Typed, Fields
  <2>3. Typed(req[s])'
    BY <1>1, <2>2 DEF Typed, Known
  <2>4. Read(req[s])'
    BY <1>1, <1>3, <2>2 DEF Read, Sought, Gate, World
  <2> QED
    BY <2>2, <2>3, <2>4 DEF Sound, Placed
<1> QED
  BY <1>2, <1>3

LEMMA JudgeIsSound ==
    ASSUME Gate, World', Moved, NEW s \in Slots, Judge(s)
    PROVE  Sound(req[s])'
<1> DEFINE r == req[s]
<1>1. r.pc = "judge" /\ Typed(r) /\ Read(r)
  BY DEF Judge, In, Gate, Sound, Placed, Idle
<1>2. CASE req' = [req EXCEPT ![s] = Resolved(@, Outdated)]
  <2>1. req'[s] = Resolved(r, Outdated)
    BY <1>2 DEF Gate
  <2> QED
    BY <1>1, <2>1, ResolvingIsSound DEF Sessionable
<1>3. CASE /\ req' = [req EXCEPT ![s].pc = "touch", ![s].at = clock]
           /\ use' = [use EXCEPT ![req[s].token].judged = clock]
  <2>1. /\ DOMAIN req'[s] = Fields /\ req'[s].pc = "touch" /\ req'[s].at = clock
        /\ req'[s].row = r.row /\ req'[s].token = r.token /\ req'[s].gave = r.gave
        /\ req'[s].session = r.session
    BY <1>1, <1>3 DEF Gate, Typed, Fields
  <2>2. Typed(req[s])'
    BY <1>1, <2>1 DEF Typed, Known, Moved
  <2>3. use'[r.token].judged = clock /\ r.token \in DOMAIN use' /\ clock \in Nat
    BY <1>1, <1>3 DEF Read, Gate, World, Uses
  <2>4. Judged(req[s])'
    BY <1>1, <2>1, <2>3 DEF Judged, Read
  <2> QED
    BY <2>1, <2>2, <2>4 DEF Sound, Placed
<1> QED
  BY <1>2, <1>3 DEF Judge

LEMMA TouchIsSound ==
    ASSUME Gate, World', Moved, NEW s \in Slots, Touch(s)
    PROVE  Sound(req[s])'
<1>1. req[s].pc = "touch" /\ Judged(req[s])
  BY DEF Touch, In, Gate, Sound, Placed, Idle
<1>2. req'[s] = Resolved(req[s], Authenticated(req[s].row.user))
  BY DEF Touch, Gate
<1>3. Authenticated(req[s].row.user) \in Sessionable
  BY <1>1 DEF Judged, SessionRow, Sessionable
<1> QED
  BY <1>1, <1>2, <1>3, ResolvingIsSound

LEMMA CountIsSound ==
    ASSUME Gate, World', Moved, NEW s \in Slots, Count(s)
    PROVE  Sound(req[s])'
<1> DEFINE r == req[s]
<1>1. r.pc = "limit" /\ Typed(r) /\ Admitted(r)
  BY DEF Count, In, Gate, Sound, Placed, Idle
<1>2. req'[s] \in {Limited(r, Tail(r.limits)), Answered(r, "RATE_LIMITED")}
  BY DEF Count, Gate
<1>3. Answered(r, "RATE_LIMITED") = Idle
  BY <1>1 DEF Answered
<1>4. GoesOn(Limited(r, Tail(r.limits)), r)
  BY <1>1, LimitedClears DEF Typed
<1>5. r.session \in Sessionable /\ r.token \in Known' /\ r.gave \in Known'
  BY <1>1 DEF Typed, Known, Moved
<1>6. CASE req'[s] = Idle
  BY <1>6 DEF Sound
<1> HIDE DEF r
<1> QED
  BY <1>2, <1>3, <1>4, <1>5, <1>6, OwnGoesOn

\* An answer, in general.
LEMMA AnsweredShape ==
    ASSUME NEW r, DOMAIN r = Fields, NEW code
    PROVE  \/ Answered(r, code) = Idle
           \/ /\ DOMAIN Answered(r, code) = Fields /\ Answered(r, code).pc = "answered"
              /\ Answered(r, code).answer = code /\ Answered(r, code).session = r.session
              /\ Answered(r, code).token = r.token /\ Answered(r, code).gave = r.gave
BY DEF Answered, Fields

LEMMA DenyIsSound ==
    ASSUME Gate, World', Moved, NEW s \in Slots, Deny(s)
    PROVE  Sound(req[s])'
<1> DEFINE r == req[s]
<1>1. r.pc \in {"mismatch", "forbidden", "notEditable"} /\ Typed(r)
  BY DEF Deny, Gate, Sound, Idle
<1>2. PICK denied \in IF UserTenant[r.session.user] = NoTenant THEN {"none"} ELSE {"recorded", "lost"},
           code \in {"NOT_FOUND", "FORBIDDEN", "NOT_EDITABLE_BY_TENANT"} :
               req'[s] = [Answered(r, code) EXCEPT !.denied = denied]
  BY DEF Deny, Gate
<1>3. /\ DOMAIN Answered(r, code) = Fields /\ Answered(r, code).pc = "answered"
      /\ Answered(r, code).session = r.session
      /\ Answered(r, code).token = r.token /\ Answered(r, code).gave = r.gave
  BY <1>1 DEF Answered, Fields, Typed
<1>4. /\ DOMAIN req'[s] = Fields /\ req'[s].pc = "answered" /\ req'[s].denied = denied
      /\ req'[s].session = r.session /\ req'[s].token = r.token /\ req'[s].gave = r.gave
  BY <1>2, <1>3 DEF Fields
<1>5. Typed(req[s])'
  BY <1>1, <1>4 DEF Typed, Known, Moved
<1>6. OnRecord(req[s])'
  BY <1>2, <1>4 DEF OnRecord
<1> QED
  BY <1>4, <1>5, <1>6 DEF Sound, Placed

\* An answer that is no refusal on record.
LEMMA PlainAnswerIsSound ==
    ASSUME Gate, Moved, NEW s \in Slots, req[s].pc = "handle", NEW code, NEW gave \in Known',
           code \in {"OK", "INVALID_CREDENTIALS"},
           \/ req'[s] = Answered(req[s], code)
           \/ req'[s] = [Answered(req[s], code) EXCEPT !.gave = gave] /\ Answered(req[s], code) # Idle
    PROVE  Sound(req[s])'
<1> DEFINE r == req[s]
           a == Answered(r, code)
<1>1. Typed(r)
  BY DEF Gate, Sound, Idle
<1>2. \/ a = Idle
      \/ /\ DOMAIN a = Fields /\ a.pc = "answered" /\ a.answer = code
         /\ a.session = r.session /\ a.token = r.token /\ a.gave = r.gave
  BY <1>1, AnsweredShape DEF Typed
<1> HIDE DEF a
<1>3. CASE req'[s] = Idle
  BY <1>3 DEF Sound
<1>4. CASE req'[s] # Idle
  <2>1. /\ DOMAIN req'[s] = Fields /\ req'[s].pc = "answered" /\ req'[s].answer = code
        /\ req'[s].session = r.session /\ req'[s].token = r.token /\ req'[s].gave \in {r.gave, gave}
    BY <1>2, <1>4 DEF a, Fields
  <2>2. Typed(req[s])'
    BY <1>1, <2>1 DEF Typed, Known, Moved
  <2>3. OnRecord(req[s])'
    BY <2>1 DEF OnRecord
  <2> QED
    BY <2>1, <2>2, <2>3 DEF Sound, Placed
<1> QED
  BY <1>3, <1>4

LEMMA HandleIsSound ==
    ASSUME Gate, World', Moved, NEW s \in Slots, Handle(s)
    PROVE  Sound(req[s])'
<1> DEFINE r == req[s]
           q == [r EXCEPT !.pc = "find", !.again = TRUE,
                          !.alive = Alive(r.token), !.since = Since(r.token)]
<1>1. r.pc = "handle" /\ Typed(r) /\ UNCHANGED <<sessions, clock, use>>
  BY DEF Handle, In, Gate, Sound, Idle, sessionVars
<1>2. req'[s] \in {q, Answered(r, "OK")}
  BY DEF Handle, Gate
<1>3. CASE req'[s] = Answered(r, "OK")
  <2>1. NoToken \in Known'
    BY DEF Known
  <2> QED
    BY <1>1, <1>3, <2>1, PlainAnswerIsSound
<1>4. CASE req'[s] = q
  <2>1. /\ DOMAIN req'[s] = Fields /\ req'[s].pc = "find" /\ req'[s].alive = Alive(r.token)
        /\ req'[s].token = r.token /\ req'[s].gave = r.gave /\ req'[s].session = r.session
    BY <1>1, <1>4 DEF Typed, Fields
  <2>2. Typed(req[s])'
    BY <1>1, <2>1 DEF Typed, Known
  <2>3. ASSUME ~Alive(r.token)
        PROVE  r.token \notin DOMAIN sessions \/ clock > sessions[r.token].expiresAt
    <3>1. r.token \in DOMAIN sessions => /\ r.token \in DOMAIN use /\ ~use[r.token].over
                                         /\ sessions[r.token].expiresAt \in Nat /\ clock \in Nat
      BY DEF Gate, World, SessionRow
    <3> QED
      BY <2>3, <3>1 DEF Alive
  <2>4. Sought(req[s])'
    BY <1>1, <2>1, <2>3 DEF Sought
  <2> QED
    BY <2>1, <2>2, <2>4 DEF Sound, Placed
<1> QED
  BY <1>2, <1>3, <1>4
-----------------------------------------------------------------------------
LEMMA StepsKeepGate ==
    ASSUME Gate, NEW s \in Slots, Step(s) \/ \E m \in Requests : Send(s, m)
    PROVE  Gate'
<1>1. World' /\ Moved
  <2>1. CASE FindSession(s) \/ Count(s) \/ Deny(s) \/ Handle(s) \/ Receive(s) \/ \E m \in Requests : Send(s, m)
    <3>1. UNCHANGED <<sessions, clock, use>>
      BY <2>1 DEF FindSession, Count, Deny, Handle, Receive, Send, sessionVars
    <3> QED
      BY <3>1, StillWorld DEF Gate
  <2> QED
    BY <2>1, JudgeMoves, TouchMoves, LoginMoves, LogoutMoves DEF Step
<1>2. Sound(req[s])'
  <2>1. CASE Login(s)
    <3>1. req[s].pc = "handle" /\ NoToken \in Known' /\ req[s].m.op = "login" /\ Typed(req[s])
      BY <2>1 DEF Login, In, Known, Gate, Sound, Idle
    <3>2. CASE req' = [req EXCEPT ![s] = Answered(@, "INVALID_CREDENTIALS")]
      <4>1. req'[s] = Answered(req[s], "INVALID_CREDENTIALS")
        BY <3>2 DEF Gate
      <4> QED
        BY <1>1, <3>1, <4>1, PlainAnswerIsSound
    <3>3. ASSUME NEW token \in DOMAIN use',
                 req' = [req EXCEPT ![s] = [Answered(@, "OK") EXCEPT !.gave = token]]
          PROVE  Sound(req[s])'
      <4>1. req'[s] = [Answered(req[s], "OK") EXCEPT !.gave = token]
        BY <3>3 DEF Gate
      <4>2. token \in Known' /\ Answered(req[s], "OK") # Idle
        BY <3>1 DEF Known, Answered, Idle, Typed, Fields
      <4> QED
        BY <1>1, <3>1, <4>1, <4>2, PlainAnswerIsSound
    <3> QED
      BY <2>1, <3>2, <3>3, LoginMoves
  <2>2. CASE Logout(s)
    <3>1. req'[s] = Answered(req[s], "OK") /\ req[s].pc = "handle" /\ NoToken \in Known'
      BY <2>2 DEF Logout, In, Gate, Known
    <3> QED
      BY <1>1, <3>1, PlainAnswerIsSound
  <2>3. CASE Receive(s)
    BY <2>3 DEF Receive, Gate, Sound
  <2> QED
    BY <1>1, <2>1, <2>2, <2>3, FindIsSound, JudgeIsSound, TouchIsSound, CountIsSound, DenyIsSound,
       HandleIsSound, SendIsSound DEF Step
<1>3. /\ DOMAIN req' = Slots /\ req' = [q \in Slots |-> req'[q]]
      /\ \A q \in Slots \ {s} : req'[q] = req[q]
  <2>1. \E x : req' = [req EXCEPT ![s] = x]
    BY DEF Step, FindSession, Judge, Touch, Count, Deny, Login, Logout, Handle, Receive, Send
  <2> QED
    BY <2>1 DEF Gate
<1>4. \A q \in Slots : Sound(req[q])'
  <2>1. ASSUME NEW q \in Slots \ {s} PROVE Sound(req[q])'
    BY <1>1, <1>3, OthersStaySound DEF Gate
  <2> QED
    BY <1>2, <2>1
<1>5. (jar \in [Clients -> Known])'
  <2>1. CASE jar' = jar
    BY <1>1, <2>1 DEF Gate, Known, Moved
  <2>2. CASE Receive(s)
    <3>1. req[s].gave \in Known
      BY <2>2 DEF Receive, In, Gate, Sound, Typed, Idle
    <3> QED
      BY <1>1, <2>2, <3>1 DEF Receive, Gate, Known, Moved
  <2> QED
    BY <2>1, <2>2 DEF Step, FindSession, Judge, Touch, Count, Deny, Login, Logout, Handle, Send
<1> QED
  BY <1>1, <1>3, <1>4, <1>5 DEF Gate

\* What a request in service knows of its session is so, by how far its
\* resolution has come, and no token is issued twice, in every state.
THEOREM GateHolds == Spec => []Gate
<1>1. Init => Gate
  <2> SUFFICES ASSUME Init PROVE Gate
    OBVIOUS
  <2>1. World
    BY DEF Init, SessionsInit, EmptyTable, World
  <2>2. req \in [Slots -> {req[s] : s \in Slots}] /\ \A s \in Slots : Sound(req[s])
    BY DEF Init, Sound
  <2>3. jar \in [Clients -> Known]
    BY DEF Init, Known
  <2> QED
    BY <2>1, <2>2, <2>3 DEF Gate
<1>2. Gate /\ [Next]_vars => Gate'
  <2> SUFFICES ASSUME Gate, [Next]_vars PROVE Gate'
    OBVIOUS
  <2>1. CASE Elapse
    <3>1. World' /\ Moved
      BY <2>1, ElapseMoves
    <3>2. req' = req /\ jar' = jar
      BY <2>1 DEF Elapse
    <3>3. \A s \in Slots : Sound(req[s])'
      BY <3>1, <3>2, OthersStaySound DEF Gate
    <3> QED
      BY <3>1, <3>2, <3>3 DEF Gate, Known, Moved
  <2>2. CASE UNCHANGED vars
    <3>1. World' /\ Moved
      BY <2>2, StillWorld DEF vars, sessionVars, Gate
    <3>2. req' = req /\ jar' = jar
      BY <2>2 DEF vars
    <3>3. \A s \in Slots : Sound(req[s])'
      BY <3>1, <3>2, OthersStaySound DEF Gate
    <3> QED
      BY <3>1, <3>2, <3>3 DEF Gate, Known, Moved
  <2> QED
    BY <2>1, <2>2, StepsKeepGate DEF Next
<1> QED
  BY <1>1, <1>2, PTL DEF Spec

\* Handlers with a floor inside a tenant run for its own principals only, and
\* principals of a tenant are not turned away unrecorded (requestContext,
\* requireRole, the denied event).
THEOREM AccessAccounted == Spec => []AccessIsAccountedFor
<1>1. Gate => AccessIsAccountedFor
  <2> SUFFICES ASSUME Gate, NEW s \in Slots, SignedIn(s)
               PROVE  /\ In(s, "handle") => Cleared(req[s])
                      /\ In(s, "answered") => OnRecord(req[s])
    BY DEF AccessIsAccountedFor, SignedIn, Cleared, OnRecord, IsSignedIn, In
  <2> QED
    BY DEF Gate, Sound, Placed, In, SignedIn, Idle
<1> QED
  BY <1>1, GateHolds, PTL

\* A request moves on by its own steps.
LEMMA OwnStep ==
    ASSUME Gate, Next, NEW s \in Slots, req'[s] # req[s]
    PROVE  Step(s) \/ \E m \in Requests : Send(s, m)
<1>1. ASSUME NEW q \in Slots \ {s}, Step(q) \/ \E m \in Requests : Send(q, m)
      PROVE  req'[s] = req[s]
  <2>1. \E x : req' = [req EXCEPT ![q] = x]
    BY <1>1 DEF Step, FindSession, Judge, Touch, Count, Deny, Login, Logout, Handle, Receive, Send
  <2> QED
    BY <2>1 DEF Gate
<1>2. ~Elapse
  BY DEF Elapse
<1> QED
  BY <1>1, <1>2 DEF Next

\* A session that has been read is judged next, a request that waits for a
\* limiter counted.
LEMMA OnlyJudgeLeaves ==
    ASSUME Gate, Next, NEW s \in Slots, req[s].pc = "judge", req'[s].pc # "judge"
    PROVE  Judge(s)
<1>1. Step(s) \/ \E m \in Requests : Send(s, m)
  BY OwnStep
<1> QED
  BY <1>1 DEF Step, FindSession, Touch, Count, Deny, Login, Logout, Handle, Receive, Send, In

LEMMA OnlyCountLeaves ==
    ASSUME Gate, Next, NEW s \in Slots, req[s].pc = "limit", req'[s].pc # "limit"
    PROVE  Count(s)
<1>1. Step(s) \/ \E m \in Requests : Send(s, m)
  BY OwnStep
<1> QED
  BY <1>1 DEF Step, FindSession, Judge, Touch, Deny, Login, Logout, Handle, Receive, Send, In

\* A session that was over when a request set out does not admit it, and none is
\* resolved longer after its last use than the idle deadline (resolveSession).
THEOREM EndedSessionsAdmitNobody == Spec => SessionsEnd
<1>1. Gate /\ [Next]_vars =>
        [\A s \in Slots : In(s, "judge") /\ In(s, "touch")' =>
            req[s].alive /\ clock <= use[req[s].token].judged + IdleTTL]_vars
  <2> SUFFICES ASSUME Gate, Next, NEW s \in Slots, In(s, "judge"), In(s, "touch")'
               PROVE  req[s].alive /\ clock <= use[req[s].token].judged + IdleTTL
    OBVIOUS
  <2>1. Judge(s)
    BY OnlyJudgeLeaves DEF In
  <2>2. Read(req[s])
    BY DEF In, Gate, Sound, Placed, Idle
  <2>3. ~Expired(req[s].row, clock)
    <3>1. ASSUME req' = [req EXCEPT ![s] = Resolved(@, Outdated)] PROVE FALSE
      <4>1. req'[s] = Resolved(req[s], Outdated) /\ req[s].pc = "judge" /\ Typed(req[s])
        BY <3>1 DEF In, Gate, Sound, Idle
      <4>2. GoesOn(req'[s], [req[s] EXCEPT !.session = Outdated])
        BY <4>1, ResolvedClears DEF Typed, Sessionable
      <4> QED
        BY <4>2 DEF GoesOn, In, Idle
    <3> QED
      BY <2>1, <3>1 DEF Judge
  <2> QED
    BY <2>2, <2>3, LifetimeAssumption DEF Expired, Read, SessionRow, Gate, World, Uses
<1> QED
  BY <1>1, GateHolds, PTL DEF Spec, SessionsEnd
-----------------------------------------------------------------------------
(* How late a touch can land, and what that can cost a session. *)

\* A request that is finding out about its session: the use that was on the
\* row when it set out, and the time since it read the row.
Timed(r) ==
    /\ r.pc = "find" => r.since \in Nat /\ (r.since # 0 => r.token \in DOMAIN use
                                                           /\ r.since <= use[r.token].landed)
    /\ r.pc = "judge" => r.since \in Nat /\ r.since <= r.row.lastSeenAt + Lag
    /\ r.pc \in {"judge", "touch"} => r.readAt \in Nat /\ clock <= r.readAt + Lag
    /\ r.pc = "judge" => r.readAt <= clock
    /\ r.pc = "touch" => r.readAt <= r.at

\* A touch overwrites one that is later by Lag at most.
Landings ==
    /\ \A t \in DOMAIN use : use[t].landed <= clock
    /\ \A t \in DOMAIN sessions : use[t].landed <= sessions[t].lastSeenAt + Lag

Fresh == Landings /\ \A s \in Slots : Timed(req[s])

\* Uses that are on their rows stay there.
LandedLater ==
    \A t \in DOMAIN use :
        t \in DOMAIN use' /\ use'[t].landed \in Nat /\ use'[t].landed >= use[t].landed

Pending == {"find", "judge", "touch"}

\* A step leaves its request with its session to find out about in three ways.
LEMMA PendingSteps ==
    ASSUME Gate, NEW s \in Slots, Step(s), req'[s].pc \in Pending
    PROVE  LET r == req[s]
           IN  \/ /\ r.pc = "find" /\ r.token \in DOMAIN sessions
                  /\ UNCHANGED <<sessions, clock, use>>
                  /\ req'[s] = [r EXCEPT !.pc = "judge", !.row = sessions[r.token], !.readAt = clock]
               \/ /\ r.pc = "judge" /\ UNCHANGED <<sessions, clock>>
                  /\ req'[s] = [r EXCEPT !.pc = "touch", !.at = clock]
                  /\ use' = [use EXCEPT ![r.token].judged = clock]
               \/ /\ r.pc = "handle" /\ UNCHANGED <<sessions, clock, use>>
                  /\ req'[s] = [r EXCEPT !.pc = "find", !.again = TRUE,
                                         !.alive = Alive(r.token), !.since = Since(r.token)]
<1> DEFINE r == req[s]
<1>1. \A q, p : GoesOn(q, p) => q.pc \notin Pending
  BY DEF GoesOn, Pending, Idle
<1>2. r.pc # "idle" => Typed(r)
  BY DEF Gate, Sound, Idle
<1>3. ASSUME Typed(r), NEW code PROVE Answered(r, code).pc \notin Pending
  BY <1>3, AnsweredShape DEF Typed, Pending, Idle
<1>4. ASSUME NEW session \in Sessionable, r.pc \in Pending, req'[s] = Resolved(r, session)
      PROVE  FALSE
  <2>1. GoesOn(Resolved(r, session), [r EXCEPT !.session = session])
    BY <1>2, <1>4, ResolvedClears DEF Typed, Pending
  <2> QED
    BY <1>1, <1>4, <2>1
<1>5. CASE FindSession(s)
  BY <1>4, <1>5 DEF FindSession, In, Gate, Sessionable, Pending, sessionVars
<1>6. CASE Judge(s)
  <2>1. r.pc = "judge" /\ Outdated \in Sessionable /\ UNCHANGED <<sessions, clock>>
    BY <1>6 DEF Judge, In, Sessionable, sessionVars
  <2>2. CASE req' = [req EXCEPT ![s] = Resolved(@, Outdated)]
    <3>1. req'[s] = Resolved(r, Outdated)
      BY <2>2 DEF Gate
    <3> QED
      BY <1>4, <2>1, <3>1 DEF Pending
  <2>3. CASE /\ req' = [req EXCEPT ![s].pc = "touch", ![s].at = clock]
             /\ use' = [use EXCEPT ![req[s].token].judged = clock]
    <3>1. req'[s] = [r EXCEPT !.pc = "touch", !.at = clock]
      BY <2>3 DEF Gate
    <3> QED
      BY <2>1, <2>3, <3>1
  <2> QED
    BY <1>6, <2>2, <2>3 DEF Judge
<1>7. CASE Touch(s)
  <2>1. r.pc = "touch" /\ Judged(r)
    BY <1>7 DEF Touch, In, Gate, Sound, Placed, Idle
  <2>2. Authenticated(r.row.user) \in Sessionable
    BY <2>1 DEF Judged, SessionRow, Sessionable
  <2>3. req'[s] = Resolved(r, Authenticated(r.row.user))
    BY <1>7 DEF Touch, Gate
  <2> QED
    BY <1>4, <2>1, <2>2, <2>3 DEF Pending
<1>8. CASE Count(s)
  <2>1. r.pc = "limit" /\ Typed(r) /\ Admitted(r)
    BY <1>8 DEF Count, In, Gate, Sound, Placed, Idle
  <2>2. req'[s] \in {Limited(r, Tail(r.limits)), Answered(r, "RATE_LIMITED")}
    BY <1>8 DEF Count, Gate
  <2>3. GoesOn(Limited(r, Tail(r.limits)), r)
    BY <2>1, LimitedClears DEF Typed
  <2> QED
    BY <1>1, <1>3, <2>1, <2>2, <2>3
<1>9. CASE Deny(s)
  <2>1. PICK denied \in {"none", "recorded", "lost"},
             code \in {"NOT_FOUND", "FORBIDDEN", "NOT_EDITABLE_BY_TENANT"} :
                 req'[s] = [Answered(r, code) EXCEPT !.denied = denied]
    BY <1>9 DEF Deny, Gate
  <2>2. Typed(r) /\ r.pc \in {"mismatch", "forbidden", "notEditable"}
    BY <1>2, <1>9 DEF Deny
  <2>3. DOMAIN Answered(r, code) = Fields /\ Answered(r, code).pc = "answered"
    BY <2>2 DEF Answered, Typed, Fields
  <2>4. req'[s].pc = "answered"
    BY <2>1, <2>3 DEF Fields
  <2> QED
    BY <2>4 DEF Pending
<1>10. CASE Login(s)
  <2>1. r.pc = "handle" /\ r.m.op = "login" /\ Typed(r)
    BY <1>2, <1>10 DEF Login, In
  <2>2. DOMAIN Answered(r, "OK") = Fields /\ Answered(r, "OK").pc = "answered"
    BY <2>1 DEF Answered, Typed, Fields
  <2>3. CASE req' = [req EXCEPT ![s] = Answered(@, "INVALID_CREDENTIALS")]
    <3>1. req'[s] = Answered(r, "INVALID_CREDENTIALS")
      BY <2>3 DEF Gate
    <3> QED
      BY <1>3, <2>1, <3>1
  <2>4. ASSUME NEW token, req' = [req EXCEPT ![s] = [Answered(@, "OK") EXCEPT !.gave = token]]
        PROVE  FALSE
    <3>1. req'[s] = [Answered(r, "OK") EXCEPT !.gave = token]
      BY <2>4 DEF Gate
    <3>2. req'[s].pc = "answered"
      BY <2>2, <3>1 DEF Fields
    <3> QED
      BY <3>2 DEF Pending
  <2> QED
    BY <1>10, <2>3, <2>4, LoginMoves
<1>11. CASE Logout(s)
  <2>1. req'[s] = Answered(r, "OK") /\ r.pc = "handle"
    BY <1>11 DEF Logout, In, Gate
  <2> QED
    BY <1>2, <1>3, <2>1
<1>12. CASE Handle(s)
  <2>1. r.pc = "handle" /\ Typed(r) /\ UNCHANGED <<sessions, clock, use>>
    BY <1>2, <1>12 DEF Handle, In, sessionVars
  <2>2. req'[s] \in {[r EXCEPT !.pc = "find", !.again = TRUE,
                               !.alive = Alive(r.token), !.since = Since(r.token)],
                    Answered(r, "OK")}
    BY <1>12 DEF Handle, Gate
  <2>3. req'[s] # Answered(r, "OK")
    BY <1>3, <2>1
  <2> QED
    BY <2>1, <2>2, <2>3
<1>13. CASE Receive(s)
  BY <1>13 DEF Receive, Gate, Idle, Pending
<1> QED
  BY <1>5, <1>6, <1>7, <1>8, <1>9, <1>10, <1>11, <1>12, <1>13 DEF Step

LEMMA StillLandings ==
    ASSUME Gate, Landings, UNCHANGED <<sessions, use>>, clock' \in {clock, clock + 1}
    PROVE  Landings' /\ LandedLater
<1>1. clock \in Nat /\ \A t \in DOMAIN use : use[t].landed \in Nat
  BY DEF Gate, World, Uses
<1>2. \A t \in DOMAIN use : use[t].landed <= clock'
  BY <1>1 DEF Landings
<1> QED
  BY <1>1, <1>2 DEF Landings, LandedLater

LEMMA JudgeLands ==
    ASSUME Gate, Landings, NEW s \in Slots, Judge(s)
    PROVE  Landings' /\ LandedLater
<1>1. CASE UNCHANGED use
  BY <1>1, StillLandings DEF Judge, sessionVars
<1>2. CASE use' = [use EXCEPT ![req[s].token].judged = clock]
  <2>1. req[s].token \in DOMAIN use
    BY DEF Judge, In, Gate, Sound, Placed, Read, Idle
  <2>2. /\ UNCHANGED <<sessions, clock>> /\ DOMAIN use' = DOMAIN use
        /\ \A t \in DOMAIN use : use[t].landed \in Nat /\ use'[t].landed = use[t].landed
    BY <1>2, <2>1 DEF Judge, sessionVars, Gate, World, Uses
  <2>3. DOMAIN sessions \subseteq DOMAIN use
    BY DEF Gate, World
  <2> QED
    BY <2>2, <2>3 DEF Landings, LandedLater
<1> QED
  BY <1>1, <1>2 DEF Judge

LEMMA TouchLands ==
    ASSUME Gate, Fresh, NEW s \in Slots, Touch(s)
    PROVE  Landings' /\ LandedLater
<1> DEFINE token == req[s].token
           at == req[s].at
           landed == IF at > use[token].landed THEN at ELSE use[token].landed
<1>1. /\ token \in DOMAIN use /\ at \in Nat /\ at <= use[token].judged
      /\ req[s].readAt \in Nat /\ req[s].readAt <= at /\ clock <= req[s].readAt + Lag
  BY DEF Touch, In, Gate, Sound, Placed, Judged, Idle, Fresh, Timed
<1>2. /\ use \in [DOMAIN use -> Uses] /\ clock \in Nat /\ use[token].judged <= clock
      /\ DOMAIN sessions \subseteq DOMAIN use /\ Lag \in Nat
      /\ sessions \in [DOMAIN sessions -> SessionRow]
  BY <1>1, LagAssumption DEF Gate, World
<1>3. use' = [use EXCEPT ![token].landed = landed] /\ clock' = clock
  BY DEF Touch
<1>4. /\ DOMAIN sessions' = DOMAIN sessions
      /\ \A t \in DOMAIN sessions :
            sessions'[t] = IF t = token THEN [sessions[t] EXCEPT !.lastSeenAt = at] ELSE sessions[t]
  BY DEF Touch, TouchSession
<1> HIDE DEF token, at
<1>5. use[token].landed \in Nat /\ use[token].judged \in Nat /\ use[token].landed <= clock
  BY <1>1, <1>2 DEF Uses, Fresh, Landings
<1>6. landed \in Nat /\ landed >= use[token].landed /\ landed <= clock
  BY <1>1, <1>2, <1>5
<1> HIDE DEF landed
<1>7. /\ DOMAIN use' = DOMAIN use /\ use'[token].landed = landed
      /\ \A t \in DOMAIN use \ {token} : use'[t].landed = use[t].landed
  BY <1>1, <1>2, <1>3 DEF Uses
<1>8. \A t \in DOMAIN use : use[t].landed \in Nat /\ use'[t].landed \in Nat
                            /\ use'[t].landed >= use[t].landed /\ use'[t].landed <= clock
  BY <1>2, <1>6, <1>7 DEF Uses, Fresh, Landings
<1>9. ASSUME NEW t \in DOMAIN sessions
      PROVE  use'[t].landed <= sessions'[t].lastSeenAt + Lag
  <2>1. CASE t = token
    <3>1. sessions'[t].lastSeenAt = at
      BY <1>2, <1>4, <2>1 DEF SessionRow
    <3>2. landed <= at + Lag
      BY <1>1, <1>2, <1>6
    <3> QED
      BY <1>7, <2>1, <3>1, <3>2
  <2>2. CASE t # token
    BY <1>2, <1>4, <1>7, <2>2 DEF Fresh, Landings
  <2> QED
    BY <2>1, <2>2
<1> QED
  BY <1>3, <1>4, <1>7, <1>8, <1>9 DEF Landings, LandedLater

LEMMA LoginLands ==
    ASSUME Gate, Landings, NEW s \in Slots, Login(s)
    PROVE  Landings' /\ LandedLater
<1>1. CASE UNCHANGED <<sessions, use>>
  BY <1>1, StillLandings DEF Login
<1>2. ASSUME NEW token \in Tokens \ DOMAIN use, NEW user, CreateSession(user, token),
             use' = Insert(use, token, [judged |-> clock, landed |-> clock, over |-> FALSE]),
             clock' = clock
      PROVE  Landings' /\ LandedLater
  <2>1. /\ DOMAIN use' = DOMAIN use \cup {token} /\ use'[token].landed = clock
        /\ \A t \in DOMAIN use : use'[t] = use[t]
    BY <1>2 DEF Insert
  <2>2. /\ DOMAIN sessions' = DOMAIN sessions \cup {token} /\ sessions'[token].lastSeenAt = clock
        /\ \A t \in DOMAIN sessions : t \in DOMAIN use /\ sessions'[t] = sessions[t]
    BY <1>2 DEF CreateSession, Insert, Gate, World
  <2>3. clock \in Nat /\ Lag \in Nat /\ \A t \in DOMAIN use : use[t].landed \in Nat
    BY LagAssumption DEF Gate, World, Uses
  <2>4. \A t \in DOMAIN use' : use'[t].landed <= clock'
    <3>1. use'[token].landed <= clock'
      BY <1>2, <2>1, <2>3
    <3>2. \A t \in DOMAIN use : use'[t].landed <= clock'
      BY <1>2, <2>1 DEF Landings
    <3> QED
      BY <2>1, <3>1, <3>2
  <2>5. \A t \in DOMAIN sessions' : use'[t].landed <= sessions'[t].lastSeenAt + Lag
    <3>1. use'[token].landed <= sessions'[token].lastSeenAt + Lag
      BY <2>1, <2>2, <2>3
    <3>2. \A t \in DOMAIN sessions : use'[t].landed <= sessions'[t].lastSeenAt + Lag
      BY <2>1, <2>2 DEF Landings
    <3> QED
      BY <2>2, <3>1, <3>2
  <2> QED
    BY <2>1, <2>3, <2>4, <2>5 DEF Landings, LandedLater
<1> QED
  BY <1>1, <1>2 DEF Login

LEMMA LogoutLands ==
    ASSUME Gate, Landings, NEW s \in Slots, Logout(s)
    PROVE  Landings' /\ LandedLater
<1>1. CASE UNCHANGED <<sessions, use>>
  BY <1>1, StillLandings DEF Logout
<1>2. CASE DeleteSession(req[s].token) /\ use' = [use EXCEPT ![req[s].token].over = TRUE]
  <2>1. /\ DOMAIN sessions' \subseteq DOMAIN sessions /\ clock' = clock
        /\ \A t \in DOMAIN sessions' : t \in DOMAIN use /\ sessions'[t] = sessions[t]
    BY <1>2 DEF DeleteSession, Delete, DeleteAll, Logout, Gate, World
  <2>2. /\ DOMAIN use' = DOMAIN use
        /\ \A t \in DOMAIN use : use'[t].landed = use[t].landed /\ use[t].landed \in Nat
    BY <1>2 DEF Gate, World, Uses
  <2> QED
    BY <2>1, <2>2 DEF Landings, LandedLater
<1> QED
  BY <1>1, <1>2 DEF Logout

LEMMA OthersStayTimed ==
    ASSUME Gate, LandedLater, NEW s \in Slots, Timed(req[s]), req'[s] = req[s],
           \/ clock' = clock
           \/ clock' = clock + 1 /\ (req[s].pc \in {"judge", "touch"} => clock < req[s].readAt + Lag)
    PROVE  Timed(req[s])'
<1> DEFINE r == req[s]
<1>1. clock \in Nat /\ Lag \in Nat /\ \A t \in DOMAIN use : use[t].landed \in Nat
  BY LagAssumption DEF Gate, World, Uses
<1>2. r.pc = "touch" => r.at \in Nat
  BY DEF Gate, Sound, Placed, Judged, Idle
<1>3. CASE r.pc = "find"
  <2>1. r.since # 0 => r.token \in DOMAIN use' /\ r.since <= use'[r.token].landed
    <3> SUFFICES ASSUME r.since # 0
                 PROVE  r.token \in DOMAIN use' /\ r.since <= use'[r.token].landed
      OBVIOUS
    <3>1. r.since \in Nat /\ r.token \in DOMAIN use /\ r.since <= use[r.token].landed
      BY <1>3 DEF Timed
    <3>2. /\ r.token \in DOMAIN use' /\ use'[r.token].landed \in Nat
          /\ use'[r.token].landed >= use[r.token].landed
      BY <3>1 DEF LandedLater
    <3> QED
      BY <1>1, <3>1, <3>2
  <2> QED
    BY <1>3, <2>1 DEF Timed
<1>4. CASE r.pc \in {"judge", "touch"}
  BY <1>1, <1>2, <1>4 DEF Timed
<1>5. CASE r.pc \notin {"find", "judge", "touch"}
  BY <1>5 DEF Timed
<1> QED
  BY <1>3, <1>4, <1>5

LEMMA SendIsTimed ==
    ASSUME Gate, NEW s \in Slots, NEW m \in Requests, Send(s, m)
    PROVE  Timed(req[s])'
<1> DEFINE token == jar[m.client]
           r == [pc |-> "find", m |-> m, token |-> token, session |-> Absent, limits |-> <<>>,
                 row |-> <<>>, readAt |-> 0, at |-> 0, again |-> FALSE,
                 answer |-> "none", denied |-> "none", gave |-> NoToken,
                 alive |-> Alive(token), since |-> Since(token)]
<1>1. req'[s] = Screened(m) /\ UNCHANGED use
  BY DEF Send, Gate
<1>2. CASE Screened(m) = r
  <2>1. Since(token) \in Nat /\ (Since(token) # 0 => token \in DOMAIN use
                                                     /\ Since(token) <= use[token].landed)
    BY DEF Since, Alive, Gate, World, Uses
  <2>2. r.pc = "find" /\ r.token = token /\ r.since = Since(token)
    OBVIOUS
  <2> QED
    BY <1>1, <1>2, <2>1, <2>2 DEF Timed
<1>3. CASE Screened(m) \in {Answered(r, "FORBIDDEN_ORIGIN"), Answered(r, "NOT_FOUND")}
  <2>1. Answered(r, "FORBIDDEN_ORIGIN") = Idle /\ Answered(r, "NOT_FOUND") = Idle
    BY DEF Answered
  <2> QED
    BY <1>1, <1>3, <2>1 DEF Timed, Idle
<1>4. CASE Screened(m) = Resolved(r, Absent)
  <2>1. DOMAIN r = Fields /\ r.pc = "find" /\ Absent \in Sessionable
    BY DEF Fields, Sessionable
  <2> HIDE DEF r
  <2>2. GoesOn(Resolved(r, Absent), [r EXCEPT !.session = Absent])
    BY <2>1, ResolvedClears
  <2>3. req'[s].pc \notin {"find", "judge", "touch"}
    BY <1>1, <1>4, <2>2 DEF GoesOn, Idle
  <2> QED
    BY <2>3 DEF Timed
<1> QED
  BY <1>2, <1>3, <1>4 DEF Screened

LEMMA StepIsTimed ==
    ASSUME Gate, Fresh, NEW s \in Slots, Step(s)
    PROVE  Timed(req[s])'
<1> DEFINE r == req[s]
<1>1. CASE req'[s].pc \notin Pending
  BY <1>1 DEF Timed, Pending
<1>2. CASE req'[s].pc \in Pending
  <2>1. /\ clock \in Nat /\ Lag \in Nat /\ Timed(r) /\ Landings
        /\ use \in [DOMAIN use -> Uses] /\ sessions \in [DOMAIN sessions -> SessionRow]
        /\ DOMAIN sessions \subseteq DOMAIN use
    BY LagAssumption DEF Gate, World, Fresh
  <2>2. r.pc # "idle" => DOMAIN r = Fields
    BY DEF Gate, Sound, Typed, Idle
  <2>3. CASE /\ r.pc = "find" /\ r.token \in DOMAIN sessions /\ UNCHANGED <<sessions, clock, use>>
             /\ req'[s] = [r EXCEPT !.pc = "judge", !.row = sessions[r.token], !.readAt = clock]
    <3>1. /\ req'[s].pc = "judge" /\ req'[s].row = sessions[r.token] /\ req'[s].readAt = clock
          /\ req'[s].since = r.since
      BY <2>2, <2>3 DEF Fields
    <3>2. /\ use[r.token].landed \in Nat /\ sessions[r.token].lastSeenAt \in Nat
          /\ use[r.token].landed <= sessions[r.token].lastSeenAt + Lag
      BY <2>1, <2>3 DEF Landings, Uses, SessionRow
    <3>3. r.since \in Nat /\ r.since <= sessions[r.token].lastSeenAt + Lag
      BY <2>1, <2>3, <3>2 DEF Timed
    <3> QED
      BY <2>1, <2>3, <3>1, <3>3 DEF Timed
  <2>4. CASE /\ r.pc = "judge" /\ UNCHANGED <<sessions, clock>>
             /\ req'[s] = [r EXCEPT !.pc = "touch", !.at = clock]
    <3>1. req'[s].pc = "touch" /\ req'[s].at = clock /\ req'[s].readAt = r.readAt
      BY <2>2, <2>4 DEF Fields
    <3> QED
      BY <2>1, <2>4, <3>1 DEF Timed
  <2>5. CASE /\ r.pc = "handle" /\ UNCHANGED <<sessions, clock, use>>
             /\ req'[s] = [r EXCEPT !.pc = "find", !.again = TRUE,
                                    !.alive = Alive(r.token), !.since = Since(r.token)]
    <3>1. req'[s].pc = "find" /\ req'[s].token = r.token /\ req'[s].since = Since(r.token)
      BY <2>2, <2>5 DEF Fields
    <3>2. Since(r.token) \in Nat /\ (Since(r.token) # 0 => r.token \in DOMAIN use
                                                           /\ Since(r.token) <= use[r.token].landed)
      BY <2>1 DEF Since, Alive, Uses
    <3> QED
      BY <2>5, <3>1, <3>2 DEF Timed
  <2> QED
    BY <1>2, <2>3, <2>4, <2>5, PendingSteps
<1> QED
  BY <1>1, <1>2

\* Every touch on its way is of a row read Lag ago at most, and every row in
\* the table or in a request's hands is younger than the latest use that was on
\* it less Lag.
THEOREM FreshHolds == Spec => []Fresh
<1>1. Init => Fresh
  BY DEF Init, SessionsInit, EmptyTable, Idle, Fresh, Landings, Timed
<1>2. Gate /\ Fresh /\ [Next]_vars => Fresh'
  <2> SUFFICES ASSUME Gate, Fresh, [Next]_vars PROVE Fresh'
    OBVIOUS
  <2>1. CASE Elapse
    <3>1. UNCHANGED <<sessions, req, use>> /\ clock' = clock + 1
      BY <2>1 DEF Elapse
    <3>2. Landings' /\ LandedLater
      BY <3>1, StillLandings DEF Fresh
    <3>3. \A s \in Slots : Timed(req[s])'
      BY <2>1, <3>1, <3>2, OthersStayTimed DEF Fresh, Elapse
    <3> QED
      BY <3>2, <3>3 DEF Fresh
  <2>2. CASE UNCHANGED vars
    <3>1. UNCHANGED <<sessions, clock, req, use>>
      BY <2>2 DEF vars, sessionVars
    <3> QED
      BY <3>1 DEF Fresh, Landings, Timed
  <2>3. ASSUME NEW s \in Slots, Step(s) \/ \E m \in Requests : Send(s, m)
        PROVE  Fresh'
    <3>1. Landings' /\ LandedLater
      <4>1. CASE FindSession(s) \/ Count(s) \/ Deny(s) \/ Handle(s) \/ Receive(s)
                 \/ \E m \in Requests : Send(s, m)
        <5>1. UNCHANGED <<sessions, clock, use>>
          BY <4>1 DEF FindSession, Count, Deny, Handle, Receive, Send, sessionVars
        <5> QED
          BY <5>1, StillLandings DEF Fresh
      <4> QED
        BY <2>3, <4>1, JudgeLands, TouchLands, LoginLands, LogoutLands DEF Step, Fresh
    <3>2. Timed(req[s])'
      BY <2>3, StepIsTimed, SendIsTimed
    <3>3. \A q \in Slots \ {s} : req'[q] = req[q]
      <4>1. \E x : req' = [req EXCEPT ![s] = x]
        BY <2>3 DEF Step, FindSession, Judge, Touch, Count, Deny, Login, Logout, Handle, Receive, Send
      <4> QED
        BY <4>1 DEF Gate
    <3>4. clock' = clock
      BY <2>3 DEF Step, FindSession, Judge, Touch, Count, Deny, Login, Logout, Handle, Receive, Send, sessionVars
    <3>5. \A q \in Slots \ {s} : Timed(req[q])'
      BY <3>1, <3>3, <3>4, OthersStayTimed DEF Fresh
    <3> QED
      BY <3>1, <3>2, <3>5 DEF Fresh
  <2> QED
    BY <2>1, <2>2, <2>3 DEF Next
<1> QED
  BY <1>1, <1>2, GateHolds, PTL DEF Spec

\* A session within its absolute lifetime is not called expired when a use
\* younger than the idle deadline less Lag was on its row at the request's
\* sending (resolveSession, touchSession).
THEOREM ActiveSessionsAreKept == Spec => ActiveSessionsLast
<1>1. Gate /\ Fresh /\ [Next]_vars =>
        [\A s \in Slots : In(s, "judge") /\ ~In(s, "judge")' /\ ~In(s, "touch")' =>
            clock > req[s].row.expiresAt \/ clock + Lag > req[s].since + IdleTTL]_vars
  <2> SUFFICES ASSUME Gate, Fresh, Next, NEW s \in Slots,
                      In(s, "judge"), ~In(s, "judge")', ~In(s, "touch")'
               PROVE  clock > req[s].row.expiresAt \/ clock + Lag > req[s].since + IdleTTL
    OBVIOUS
  <2>1. Judge(s)
    BY OnlyJudgeLeaves DEF In
  <2>2. Expired(req[s].row, clock)
    <3>1. ASSUME req' = [req EXCEPT ![s].pc = "touch", ![s].at = clock] PROVE FALSE
      <4>1. DOMAIN req[s] = Fields
        BY DEF In, Gate, Sound, Typed, Idle
      <4>2. req'[s].pc = "touch"
        BY <3>1, <4>1 DEF Gate, Fields
      <4> QED
        BY <4>2 DEF In
    <3> QED
      BY <2>1, <3>1 DEF Judge
  <2>3. Timed(req[s]) /\ Read(req[s]) /\ req[s].pc = "judge" /\ clock \in Nat /\ Lag \in Nat
    BY LagAssumption DEF In, Gate, Sound, Placed, Idle, World, Fresh
  <2> QED
    BY <2>2, <2>3, LifetimeAssumption DEF Expired, Read, Timed, SessionRow
<1> QED
  BY <1>1, GateHolds, FreshHolds, PTL DEF Spec, ActiveSessionsLast
-----------------------------------------------------------------------------
(* Which requests wait for a limiter. *)

Limiters == {"login-ip", "login-email", "search", "upload"}

\* Limiters as they are mounted before an operation, the first few done.
Mounted(m, limiters) ==
    /\ limiters \in Seq(Limiters) /\ Len(limiters) <= 2
    /\ \A i \in DOMAIN limiters : limiters[i] \in {"login-ip", "login-email"} => m.op = "login"

\* Whoever waits for a limiter signs in or is signed in.
Waits(r) ==
    /\ Mounted(r.m, r.limits) /\ r.limits # <<>> /\ r.limits[1] \in DOMAIN Limit
    /\ r.m.op = "login" \/ IsSignedIn(r)

Queued(r) ==
    /\ r.pc # "idle" => r.m \in Requests
    /\ r.pc = "limit" => Waits(r)

Queues == \A s \in Slots : Queued(req[s])

LEMMA NoFloorForReset == "resetState" \notin DOMAIN FloorOf
<1>1. /\ "resetState" \notin DOMAIN AuthFloors /\ "resetState" \notin DOMAIN DocumentFloors
      /\ "resetState" \notin DOMAIN SubresourceFloors
  BY DEF AuthFloors, DocumentFloors, SubresourceFloors, ++, At
<1>2. /\ "resetState" \notin DOMAIN ConfigurationFloors
      /\ "resetState" \notin DOMAIN DiscoveryFloors /\ "resetState" \notin DOMAIN ActivityFloors
  BY DEF ConfigurationFloors, DiscoveryFloors, ActivityFloors, ++, At
<1>3. "resetState" \notin DOMAIN CategoryFloors /\ "resetState" \notin DOMAIN TenantFloors
  BY DEF CategoryFloors, TenantFloors, ++, At
<1> QED
  BY <1>1, <1>2, <1>3 DEF FloorOf, ++

LEMMA PublicLogin == FloorOf["login"] = "public"
<1>1. "login" \in DOMAIN AuthFloors /\ AuthFloors["login"] = "public"
  BY DEF AuthFloors, ++, At
<1> QED
  BY <1>1 DEF FloorOf, ++

LEMMA LimitersAreMounted ==
    ASSUME NEW m \in Requests
    PROVE  Mounted(m, LimitersOf(m.op))
<1>1. m.op # "resetState"
  BY NoFloorForReset, RequestsAssumption
<1>2. \/ LimitersOf(m.op) = <<"login-ip", "login-email">> /\ m.op = "login"
      \/ LimitersOf(m.op) \in {<<"search">>, <<"upload">>, <<>>}
  BY <1>1 DEF LimitersOf
<1>3. CASE LimitersOf(m.op) = <<"login-ip", "login-email">> /\ m.op = "login"
  BY <1>3 DEF Mounted, Limiters
<1>4. ASSUME NEW limiter \in {"search", "upload"}, LimitersOf(m.op) = <<limiter>>
      PROVE  Mounted(m, LimitersOf(m.op))
  BY <1>4 DEF Mounted, Limiters
<1>5. CASE LimitersOf(m.op) = <<>>
  BY <1>5 DEF Mounted
<1> QED
  BY <1>2, <1>3, <1>4, <1>5

\* The route's guard turns away nobody who is signed in or signs in without a
\* further step.
LEMMA GuardAnswers ==
    ASSUME NEW r, DOMAIN r = Fields, r.pc \in {"find", "judge", "touch", "limit"}
    PROVE  /\ Guard(r).pc # "limit"
           /\ Guard(r) = Idle \/ Guard(r).m = r.m
           /\ r.m.op = "login" \/ IsSignedIn(r) => Guard(r).pc # "idle"
<1>1. ASSUME NEW pc \in {"handle", "forbidden", "notEditable"}
      PROVE  To(r, pc).pc = pc /\ To(r, pc).m = r.m
  BY DEF To, Fields
<1>2. Answered(r, "UNAUTHENTICATED") = Idle /\ Answered(r, "SESSION_EXPIRED") = Idle
  BY DEF Answered
<1>3. ASSUME NEW floor
      PROVE  /\ RequireRole(r, floor) \in {Idle, To(r, "handle"), To(r, "forbidden")}
             /\ IsSignedIn(r) => RequireRole(r, floor) \in {To(r, "handle"), To(r, "forbidden")}
  BY <1>2 DEF RequireRole, IsSignedIn
<1>4. /\ Guard(r) \in {Idle, To(r, "handle"), To(r, "forbidden"), To(r, "notEditable")}
      /\ IsSignedIn(r) => Guard(r) \in {To(r, "handle"), To(r, "forbidden"), To(r, "notEditable")}
  BY <1>3 DEF Guard, RequireConfigRole
<1>5. r.m.op = "login" => Guard(r) = To(r, "handle")
  BY PublicLogin DEF Guard, FloorFor
<1> QED
  BY <1>1, <1>4, <1>5 DEF Idle

LEMMA LimitedAnswers ==
    ASSUME NEW r, DOMAIN r = Fields, r.session \in Sessionable, NEW limiters, Mounted(r.m, limiters),
           r.pc \in {"find", "judge", "touch", "limit"}
    PROVE  LET q == Limited(r, limiters)
           IN  /\ q = Idle \/ q.m = r.m
               /\ q.pc = "limit" => Waits(q)
               /\ r.m.op = "login" \/ IsSignedIn(r) => q.pc # "idle"
<1> DEFINE left == Counting(r, limiters)
           next == CHOOSE i \in left : \A j \in left : i <= j
           rest == SubSeq(limiters, next, Len(limiters))
           g == [r EXCEPT !.limits = <<>>]
           l == [r EXCEPT !.pc = "limit", !.limits = rest]
<1>1. CASE left = {}
  <2>1. Limited(r, limiters) = Guard(g)
    BY <1>1 DEF Limited
  <2>2. DOMAIN g = Fields /\ g.m = r.m /\ g.pc = r.pc /\ g.session = r.session
    BY DEF Fields
  <2> HIDE DEF g
  <2> QED
    BY <2>1, <2>2, GuardAnswers DEF IsSignedIn
<1>2. CASE left # {}
  <2>1. Limited(r, limiters) = l
    BY <1>2 DEF Limited
  <2>2. DOMAIN limiters = 1 .. Len(limiters) /\ Len(limiters) \in 0 .. 2 /\ left \subseteq 1 .. Len(limiters)
    <3>1. DOMAIN limiters = 1 .. Len(limiters) /\ Len(limiters) \in 0 .. 2
      <4>1. limiters \in Seq(Limiters) /\ Len(limiters) <= 2
        BY DEF Mounted
      <4>2. Len(limiters) \in Nat /\ DOMAIN limiters = 1 .. Len(limiters)
        BY <4>1
      <4> QED
        BY <4>1, <4>2
    <3>2. left \subseteq DOMAIN limiters
      BY DEF Counting
    <3> QED
      BY <3>1, <3>2
  <2> HIDE DEF left
  <2>3. \E i \in left : \A j \in left : i <= j
    <3>1. left \subseteq {1, 2}
      BY <2>2
    <3>2. CASE 1 \in left
      BY <3>1, <3>2
    <3>3. CASE 1 \notin left
      <4>1. left = {2}
        BY <1>2, <3>1, <3>3
      <4> QED
        BY <4>1
    <3> QED
      BY <3>2, <3>3
  <2>4. next \in left
    BY <2>3
  <2> HIDE DEF next
  <2>5. /\ limiters[next] \in DOMAIN Limit /\ KeyOf(r, limiters[next]) # NoUser
        /\ next \in 1 .. Len(limiters)
    BY <2>2, <2>4 DEF Counting, left
  <2>6. /\ Mounted(r.m, rest) /\ rest # <<>> /\ rest[1] = limiters[next]
    BY <2>2, <2>5 DEF Mounted
  <2>7. r.m.op = "login" \/ IsSignedIn(r)
    <3>1. limiters[next] \in {"login-ip", "login-email"} => r.m.op = "login"
      BY <2>2, <2>5 DEF Mounted
    <3>2. limiters[next] \in {"login-ip", "login-email", "search", "upload"}
      BY <2>2, <2>5 DEF Mounted, Limiters
    <3>3. ~IsSignedIn(r) => r.session.user = NoUser
      BY DEF IsSignedIn, Sessionable, Absent, Outdated, Authenticated
    <3>4. limiters[next] \in {"search", "upload"} => IsSignedIn(r)
      BY <2>5, <3>3 DEF KeyOf, IsSignedIn
    <3> QED
      BY <3>1, <3>2, <3>4
  <2> HIDE DEF rest
  <2>8. DOMAIN l = Fields /\ l.m = r.m /\ l.pc = "limit" /\ l.session = r.session /\ l.limits = rest
    BY DEF Fields
  <2> HIDE DEF l
  <2> QED
    BY <2>1, <2>5, <2>6, <2>7, <2>8 DEF Waits, IsSignedIn
<1> QED
  BY <1>1, <1>2

LEMMA TailIsMounted ==
    ASSUME NEW m, NEW limiters, Mounted(m, limiters), limiters # <<>>
    PROVE  Mounted(m, Tail(limiters))
<1>1. limiters \in Seq(Limiters) /\ Len(limiters) <= 2
  BY DEF Mounted
<1>2. /\ Tail(limiters) \in Seq(Limiters) /\ Len(Tail(limiters)) = Len(limiters) - 1 /\ Len(limiters) \in Nat
      /\ \A i \in 1 .. Len(Tail(limiters)) : Tail(limiters)[i] = limiters[i + 1]
  BY <1>1
<1>3. /\ DOMAIN Tail(limiters) = 1 .. Len(Tail(limiters))
      /\ \A i \in DOMAIN Tail(limiters) : i + 1 \in DOMAIN limiters
  BY <1>1, <1>2
<1> QED
  BY <1>1, <1>2, <1>3 DEF Mounted

LEMMA ResolvedQueues ==
    ASSUME NEW r, DOMAIN r = Fields, r.pc \in {"find", "judge", "touch"}, r.m \in Requests,
           NEW session \in Sessionable
    PROVE  Queued(Resolved(r, session))
<1> DEFINE q == [r EXCEPT !.session = session, !.row = <<>>, !.readAt = 0, !.at = 0,
                          !.since = 0, !.alive = TRUE]
<1>1. /\ DOMAIN q = Fields /\ q.m = r.m /\ q.pc = r.pc /\ q.session = session
  BY DEF Fields
<1>2. \/ Resolved(r, session) \in {Answered(q, "OK"), Answered(q, "SESSION_EXPIRED"), To(q, "mismatch")}
      \/ Resolved(r, session) = Limited(q, LimitersOf(r.m.op))
  BY DEF Resolved
<1> HIDE DEF q
<1>3. /\ Answered(q, "SESSION_EXPIRED") = Idle
      /\ Answered(q, "OK") = Idle \/ (Answered(q, "OK").pc = "answered" /\ Answered(q, "OK").m = q.m)
  BY <1>1 DEF Answered, Fields
<1>4. To(q, "mismatch").pc = "mismatch" /\ To(q, "mismatch").m = q.m
  BY <1>1 DEF To, Fields
<1>5. CASE Resolved(r, session) = Limited(q, LimitersOf(r.m.op))
  <2>1. Mounted(q.m, LimitersOf(r.m.op))
    BY <1>1, LimitersAreMounted
  <2> QED
    BY <1>1, <1>5, <2>1, LimitedAnswers DEF Queued, Idle
<1> QED
  BY <1>1, <1>2, <1>3, <1>4, <1>5 DEF Queued, Idle

LEMMA SendQueues ==
    ASSUME Gate, NEW s \in Slots, NEW m \in Requests, Send(s, m)
    PROVE  Queued(req[s])'
<1> DEFINE token == jar[m.client]
           r == [pc |-> "find", m |-> m, token |-> token, session |-> Absent, limits |-> <<>>,
                 row |-> <<>>, readAt |-> 0, at |-> 0, again |-> FALSE,
                 answer |-> "none", denied |-> "none", gave |-> NoToken,
                 alive |-> Alive(token), since |-> Since(token)]
<1>1. req'[s] = Screened(m)
  BY DEF Send, Gate
<1>2. DOMAIN r = Fields /\ r.pc = "find" /\ r.m = m /\ Absent \in Sessionable
  BY DEF Fields, Sessionable
<1>3. Answered(r, "FORBIDDEN_ORIGIN") = Idle /\ Answered(r, "NOT_FOUND") = Idle
  BY DEF Answered
<1>4. Screened(m) \in {Answered(r, "FORBIDDEN_ORIGIN"), Answered(r, "NOT_FOUND"), Resolved(r, Absent), r}
  BY DEF Screened
<1> HIDE DEF r
<1>5. Queued(Resolved(r, Absent))
  BY <1>2, ResolvedQueues
<1> QED
  BY <1>1, <1>2, <1>3, <1>4, <1>5 DEF Queued, Idle

LEMMA StepQueues ==
    ASSUME Gate, Queues, NEW s \in Slots, Step(s)
    PROVE  Queued(req[s])'
<1> DEFINE r == req[s]
<1>1. req[s].pc # "idle" => Typed(r) /\ r.m \in Requests /\ DOMAIN r = Fields
  BY DEF Gate, Sound, Typed, Idle, Queues, Queued
<1>2. ASSUME DOMAIN r = Fields, r.m \in Requests, NEW code PROVE Queued(Answered(r, code))
  BY <1>2 DEF Answered, Fields, Queued, Idle
<1>3. CASE FindSession(s)
  <2>1. r.pc = "find"
    BY <1>3 DEF FindSession, In
  <2>2. CASE req'[s] = [r EXCEPT !.pc = "judge", !.row = sessions[r.token], !.readAt = clock]
    <3>1. req'[s].pc = "judge" /\ req'[s].m = r.m
      BY <1>1, <2>1, <2>2 DEF Fields
    <3> QED
      BY <1>1, <2>1, <3>1 DEF Queued
  <2>3. CASE req'[s] = Resolved(r, Outdated)
    BY <1>1, <2>1, <2>3, ResolvedQueues DEF Sessionable
  <2> QED
    BY <1>3, <2>2, <2>3 DEF FindSession, Gate
<1>4. CASE Judge(s)
  <2>1. r.pc = "judge"
    BY <1>4 DEF Judge, In
  <2>2. CASE req' = [req EXCEPT ![s] = Resolved(@, Outdated)]
    <3>1. req'[s] = Resolved(r, Outdated)
      BY <2>2 DEF Gate
    <3> QED
      BY <1>1, <2>1, <3>1, ResolvedQueues DEF Sessionable
  <2>3. CASE req' = [req EXCEPT ![s].pc = "touch", ![s].at = clock]
    <3>1. req'[s].pc = "touch" /\ req'[s].m = r.m
      BY <1>1, <2>1, <2>3 DEF Gate, Fields
    <3> QED
      BY <1>1, <2>1, <3>1 DEF Queued
  <2> QED
    BY <1>4, <2>2, <2>3 DEF Judge
<1>5. CASE Touch(s)
  <2>1. r.pc = "touch" /\ Judged(r)
    BY <1>5 DEF Touch, In, Gate, Sound, Placed, Idle
  <2>2. Authenticated(r.row.user) \in Sessionable
    BY <2>1 DEF Judged, SessionRow, Sessionable
  <2>3. req'[s] = Resolved(r, Authenticated(r.row.user))
    BY <1>5 DEF Touch, Gate
  <2> QED
    BY <1>1, <2>1, <2>2, <2>3, ResolvedQueues
<1>6. CASE Count(s)
  <2>1. r.pc = "limit" /\ Waits(r)
    BY <1>6 DEF Count, In, Queues, Queued
  <2>2. req'[s] \in {Limited(r, Tail(r.limits)), Answered(r, "RATE_LIMITED")}
    BY <1>6 DEF Count, Gate
  <2>3. Mounted(r.m, Tail(r.limits))
    BY <2>1, TailIsMounted DEF Waits
  <2>4. Queued(Limited(r, Tail(r.limits)))
    BY <1>1, <2>1, <2>3, LimitedAnswers DEF Queued, Typed, Idle
  <2> QED
    BY <1>1, <1>2, <2>1, <2>2, <2>4
<1>7. CASE Deny(s)
  <2>1. PICK denied \in {"none", "recorded", "lost"},
             code \in {"NOT_FOUND", "FORBIDDEN", "NOT_EDITABLE_BY_TENANT"} :
                 req'[s] = [Answered(r, code) EXCEPT !.denied = denied]
    BY <1>7 DEF Deny, Gate
  <2>2. DOMAIN r = Fields /\ r.m \in Requests /\ r.pc \in {"mismatch", "forbidden", "notEditable"}
    BY <1>1, <1>7 DEF Deny
  <2>3. /\ DOMAIN Answered(r, code) = Fields /\ Answered(r, code).pc = "answered"
        /\ Answered(r, code).m = r.m
    BY <2>2 DEF Answered, Fields
  <2>4. req'[s].pc = "answered" /\ req'[s].m = r.m
    BY <2>1, <2>3 DEF Fields
  <2> QED
    BY <2>2, <2>4 DEF Queued
<1>8. CASE Login(s)
  <2>1. r.pc = "handle" /\ r.m.op = "login" /\ DOMAIN r = Fields /\ r.m \in Requests
    BY <1>1, <1>8 DEF Login, In
  <2>2. CASE req' = [req EXCEPT ![s] = Answered(@, "INVALID_CREDENTIALS")]
    <3>1. req'[s] = Answered(r, "INVALID_CREDENTIALS")
      BY <2>2 DEF Gate
    <3> QED
      BY <1>2, <2>1, <3>1
  <2>3. ASSUME NEW token, req' = [req EXCEPT ![s] = [Answered(@, "OK") EXCEPT !.gave = token]]
        PROVE  Queued(req[s])'
    <3>1. /\ DOMAIN Answered(r, "OK") = Fields /\ Answered(r, "OK").pc = "answered"
          /\ Answered(r, "OK").m = r.m
      BY <2>1 DEF Answered, Fields
    <3>2. req'[s] = [Answered(r, "OK") EXCEPT !.gave = token]
      BY <2>3 DEF Gate
    <3>3. req'[s].pc = "answered" /\ req'[s].m = r.m
      BY <3>1, <3>2 DEF Fields
    <3> QED
      BY <2>1, <3>3 DEF Queued
  <2> QED
    BY <1>8, <2>2, <2>3, LoginMoves
<1>9. CASE Logout(s)
  <2>1. req'[s] = Answered(r, "OK") /\ r.pc = "handle"
    BY <1>9 DEF Logout, In, Gate
  <2> QED
    BY <1>1, <1>2, <2>1
<1>10. CASE Handle(s)
  <2>1. r.pc = "handle"
    BY <1>10 DEF Handle, In
  <2>2. CASE req'[s] = Answered(r, "OK")
    BY <1>1, <1>2, <2>1, <2>2
  <2>3. CASE req'[s] = [r EXCEPT !.pc = "find", !.again = TRUE,
                                !.alive = Alive(r.token), !.since = Since(r.token)]
    <3>1. req'[s].pc = "find" /\ req'[s].m = r.m
      BY <1>1, <2>1, <2>3 DEF Fields
    <3> QED
      BY <1>1, <2>1, <3>1 DEF Queued
  <2> QED
    BY <1>10, <2>2, <2>3 DEF Handle, Gate
<1>11. CASE Receive(s)
  BY <1>11 DEF Receive, Gate, Queued, Idle
<1> QED
  BY <1>3, <1>4, <1>5, <1>6, <1>7, <1>8, <1>9, <1>10, <1>11 DEF Step
-----------------------------------------------------------------------------
(* What a counter says of the requests its limiter let pass. *)

\* The passes a counter stands for.
Allowed(hits, limit) == IF hits > limit THEN limit ELSE hits

\* Times of passes of which those of an earlier window come first.
Parted(times, window, expiresAt, earlier) ==
    \A i \in DOMAIN times : IF i <= earlier THEN times[i] + window < expiresAt
                                            ELSE times[i] + window >= expiresAt

\* A counter runs for its window: it counts the passes in it, and the limit's
\* worth at most of those before are still remembered.
Running(counter, times, limit, window, now) ==
    /\ counter.hits \in Nat \ {0} /\ counter.expiresAt \in Nat
    /\ now < counter.expiresAt /\ counter.expiresAt <= now + window
    /\ \E earlier \in 0 .. limit :
          /\ Len(times) = earlier + Allowed(counter.hits, limit)
          /\ Parted(times, window, counter.expiresAt, earlier)

\* Without one, the passes remembered are of one window that is over.
Resting(times, limit, now) == Len(times) <= limit /\ \A i \in DOMAIN times : times[i] < now

Metered ==
    /\ DOMAIN counters \subseteq DOMAIN recent
    /\ \A k \in DOMAIN recent : k[1] \in DOMAIN Limit /\ recent[k] \in Seq(0 .. clock)
    /\ \A k \in DOMAIN counters : Running(counters[k], recent[k], Limit[k[1]], Window[k[1]], clock)
    /\ \A k \in DOMAIN recent \ DOMAIN counters : Resting(recent[k], Limit[k[1]], clock)

LEMMA UpTo ==
    ASSUME NEW n \in Nat
    PROVE  IsFiniteSet(1 .. n) /\ Cardinality(1 .. n) = n
<1>1. 1 \in Int /\ n \in Int /\ (IF 1 > n THEN 0 ELSE n - 1 + 1) = n
  OBVIOUS
<1>2. IsFiniteSet(1 .. n) /\ Cardinality(1 .. n) = IF 1 > n THEN 0 ELSE n - 1 + 1
  BY <1>1, FS_Interval, Zenon
<1> QED
  BY <1>2

LEMMA MoreTimes ==
    ASSUME NEW now \in Nat, NEW times \in Seq(0 .. now)
    PROVE  times \in Seq(0 .. now + 1) /\ \A i \in DOMAIN times : times[i] < now + 1
<1>1. \A i \in 0 .. now : i \in 0 .. now + 1 /\ i < now + 1
  OBVIOUS
<1>2. times \in [1 .. Len(times) -> 0 .. now] /\ Len(times) \in Nat /\ DOMAIN times = 1 .. Len(times)
  OBVIOUS
<1>3. \A i \in DOMAIN times : times[i] \in 0 .. now + 1 /\ times[i] < now + 1
  BY <1>1, <1>2
<1> QED
  BY <1>2, <1>3, SeqDef

\* What is kept of times: all but some at the front, no more than up to any
\* place that no old one is behind, no fewer than up to one that only old ones
\* are before.
Keeps(kept, times, window, later, n) ==
    /\ Len(kept) = Len(times) - n
    /\ \A i \in 1 .. Len(times) - n : kept[i] = times[i + n]
    /\ \A e \in 0 .. Len(times) :
          /\ (\A i \in DOMAIN times : times[i] + window <= later => i <= e) => n <= e
          /\ (\A i \in 1 .. e : times[i] + window <= later) => n >= e

LEMMA WithinShape ==
    ASSUME NEW now \in Nat, NEW times \in Seq(0 .. now), NEW window, NEW later
    PROVE  /\ Within(times, window, later) \in Seq(0 .. now)
           /\ \E n \in 0 .. Len(times) : Keeps(Within(times, window, later), times, window, later, n)
<1> DEFINE E == {i \in DOMAIN times : times[i] + window <= later}
<1>1. Len(times) \in Nat /\ DOMAIN times = 1 .. Len(times)
  OBVIOUS
<1>2. ASSUME NEW e \in 0 .. Len(times) PROVE IsFiniteSet(1 .. e) /\ Cardinality(1 .. e) = e /\ e \in Nat
  BY <1>1, <1>2, UpTo
<1>3. ASSUME NEW e \in 0 .. Len(times), \A i \in DOMAIN times : times[i] + window <= later => i <= e
      PROVE  IsFiniteSet(E) /\ Cardinality(E) <= e
  <2>1. E \subseteq 1 .. e
    BY <1>1, <1>3
  <2> HIDE DEF E
  <2>2. IsFiniteSet(1 .. e) /\ Cardinality(1 .. e) = e /\ E \in SUBSET (1 .. e)
    BY <1>2, <2>1
  <2>3. IsFiniteSet(E) /\ Cardinality(E) <= Cardinality(1 .. e)
    BY <2>2, FS_Subset, Zenon
  <2> QED
    BY <2>2, <2>3
<1>4. IsFiniteSet(E) /\ Cardinality(E) \in Nat /\ Cardinality(E) <= Len(times)
  <2>1. IsFiniteSet(E) /\ Cardinality(E) <= Len(times)
    BY <1>1, <1>3
  <2> HIDE DEF E
  <2> QED
    BY <2>1, FS_CardinalityType
<1>5. ASSUME NEW e \in 0 .. Len(times), \A i \in 1 .. e : times[i] + window <= later
      PROVE  Cardinality(E) >= e
  <2>1. 1 .. e \subseteq E
    BY <1>1, <1>5
  <2> HIDE DEF E
  <2>2. e <= Cardinality(E)
    BY <1>2, <1>4, <2>1, FS_Subset
  <2> QED
    BY <1>4, <2>2
<1>6. Within(times, window, later) = SubSeq(times, Cardinality(E) + 1, Len(times))
  BY DEF Within
<1> HIDE DEF Within, E
<1>7. PICK n \in 0 .. Len(times) : n = Cardinality(E)
  BY <1>1, <1>4
<1>8. /\ SubSeq(times, n + 1, Len(times)) \in Seq(0 .. now)
      /\ Len(SubSeq(times, n + 1, Len(times))) = Len(times) - n
      /\ \A i \in 1 .. Len(times) - n : SubSeq(times, n + 1, Len(times))[i] = times[i + n]
  <2>1. times \in Seq(0 .. now) /\ n + 1 \in 1 .. Len(times) + 1 /\ Len(times) \in n .. Len(times)
    BY <1>1
  <2>2. /\ SubSeq(times, n + 1, Len(times)) \in Seq(0 .. now)
        /\ Len(SubSeq(times, n + 1, Len(times))) =
              IF n + 1 <= Len(times) THEN Len(times) - (n + 1) + 1 ELSE 0
        /\ \A i \in 1 .. Len(times) - (n + 1) + 1 :
              SubSeq(times, n + 1, Len(times))[i] = times[n + 1 + i - 1]
    BY <2>1, SubSeqProperties
  <2>3. /\ Len(times) - (n + 1) + 1 = Len(times) - n
        /\ (IF n + 1 <= Len(times) THEN Len(times) - (n + 1) + 1 ELSE 0) = Len(times) - n
        /\ \A i \in 1 .. Len(times) - n : n + 1 + i - 1 = i + n
    <3>1. PICK len \in Nat : len = Len(times)
      BY <1>1
    <3>2. n \in 0 .. len
      BY <3>1
    <3>3. /\ len - (n + 1) + 1 = len - n
          /\ (IF n + 1 <= len THEN len - (n + 1) + 1 ELSE 0) = len - n
      BY <3>2
    <3>4. \A i \in 1 .. len - n : n + 1 + i - 1 = i + n
      BY <3>2
    <3> QED
      BY <3>1, <3>3, <3>4
  <2>4. /\ Len(SubSeq(times, n + 1, Len(times))) = Len(times) - n
        /\ \A i \in 1 .. Len(times) - n : SubSeq(times, n + 1, Len(times))[i] = times[n + 1 + i - 1]
    BY <2>2, <2>3
  <2> QED
    BY <2>2, <2>3, <2>4
<1>9. PICK kept \in Seq(0 .. now) : kept = Within(times, window, later)
  BY <1>6, <1>7, <1>8
<1>10. /\ Len(kept) = Len(times) - n
       /\ \A i \in 1 .. Len(times) - n : kept[i] = times[i + n]
  BY <1>6, <1>7, <1>8, <1>9
<1>11. Keeps(kept, times, window, later, n)
  BY <1>3, <1>5, <1>7, <1>10 DEF Keeps
<1> QED
  BY <1>7, <1>9, <1>11

\* Time drops none of the passes of the window that runs.
LEMMA RunningElapses ==
    ASSUME NEW now \in Nat, NEW times \in Seq(0 .. now), NEW limit \in Nat \ {0}, NEW window \in Nat,
           NEW counter, Running(counter, times, limit, window, now), now + 1 < counter.expiresAt
    PROVE  /\ Within(times, window, now + 1) \in Seq(0 .. now + 1) /\ times # <<>>
           /\ Running(counter, Within(times, window, now + 1), limit, window, now + 1)
<1>1. PICK earlier \in 0 .. limit :
          /\ Len(times) = earlier + Allowed(counter.hits, limit)
          /\ Parted(times, window, counter.expiresAt, earlier)
  BY DEF Running
<1>2. /\ counter.hits \in Nat \ {0} /\ counter.expiresAt \in Nat /\ now < counter.expiresAt
      /\ counter.expiresAt <= now + window
  BY DEF Running
<1>3. Allowed(counter.hits, limit) \in Nat \ {0}
  BY <1>2 DEF Allowed
<1>4. /\ Len(times) \in Nat /\ DOMAIN times = 1 .. Len(times) /\ earlier \in 0 .. Len(times)
      /\ \A i \in 1 .. Len(times) : times[i] \in Nat
  BY <1>1, <1>3
<1>5. PICK kept \in Seq(0 .. now) : kept = Within(times, window, now + 1)
  BY WithinShape
<1>6. PICK n \in 0 .. Len(times) : Keeps(kept, times, window, now + 1, n)
  BY <1>5, WithinShape
<1>7. \A i \in DOMAIN times : times[i] + window <= now + 1 => i <= earlier
  BY <1>1, <1>2, <1>4, SMTT(30) DEF Parted
<1>8. n \in 0 .. earlier /\ Len(kept) = Len(times) - n /\ \A i \in 1 .. Len(times) - n : kept[i] = times[i + n]
  BY <1>4, <1>6, <1>7 DEF Keeps
<1>9. /\ earlier - n \in 0 .. limit /\ Len(kept) = (earlier - n) + Allowed(counter.hits, limit)
      /\ DOMAIN kept = 1 .. Len(times) - n
  BY <1>1, <1>3, <1>4, <1>8
<1>10. Parted(kept, window, counter.expiresAt, earlier - n)
  <2> SUFFICES ASSUME NEW i \in 1 .. Len(times) - n
               PROVE  IF i <= earlier - n THEN kept[i] + window < counter.expiresAt
                                          ELSE kept[i] + window >= counter.expiresAt
    BY <1>9 DEF Parted
  <2>1. i + n \in DOMAIN times /\ (i <= earlier - n <=> i + n <= earlier)
    BY <1>4, <1>8
  <2>2. kept[i] = times[i + n]
    BY <1>8
  <2> QED
    BY <1>1, <2>1, <2>2 DEF Parted
<1>11. kept \in Seq(0 .. now + 1)
  BY MoreTimes
<1>12. times # <<>>
  BY <1>1, <1>3, <1>4
<1>13. Running(counter, kept, limit, window, now + 1)
  BY <1>2, <1>9, <1>10 DEF Running
<1> QED
  BY <1>5, <1>11, <1>12, <1>13

\* Those before it are forgotten by the time it ends.
LEMMA RunningEnds ==
    ASSUME NEW now \in Nat, NEW times \in Seq(0 .. now), NEW limit \in Nat \ {0}, NEW window \in Nat,
           NEW counter, Running(counter, times, limit, window, now), ~(now + 1 < counter.expiresAt)
    PROVE  /\ Within(times, window, now + 1) \in Seq(0 .. now + 1)
           /\ Resting(Within(times, window, now + 1), limit, now + 1)
<1>1. PICK earlier \in 0 .. limit :
          /\ Len(times) = earlier + Allowed(counter.hits, limit)
          /\ Parted(times, window, counter.expiresAt, earlier)
  BY DEF Running
<1>2. counter.hits \in Nat \ {0} /\ counter.expiresAt \in Nat /\ now < counter.expiresAt
  BY DEF Running
<1>3. Allowed(counter.hits, limit) \in 0 .. limit
  BY <1>2 DEF Allowed
<1>4. /\ Len(times) \in Nat /\ DOMAIN times = 1 .. Len(times) /\ earlier \in 0 .. Len(times)
      /\ \A i \in 1 .. Len(times) : times[i] \in Nat
  BY <1>1, <1>3
<1>5. PICK kept \in Seq(0 .. now) : kept = Within(times, window, now + 1)
  BY WithinShape
<1>6. PICK n \in 0 .. Len(times) : Keeps(kept, times, window, now + 1, n)
  BY <1>5, WithinShape
<1>7. \A i \in 1 .. earlier : times[i] + window <= now + 1
  <2> SUFFICES ASSUME NEW i \in 1 .. earlier PROVE times[i] + window <= now + 1
    OBVIOUS
  <2>1. i \in DOMAIN times /\ i <= earlier
    BY <1>4
  <2>2. times[i] + window < counter.expiresAt
    BY <1>1, <2>1 DEF Parted
  <2> QED
    BY <1>2, <1>4, <2>1, <2>2, SMTT(30)
<1>8. Len(kept) <= limit
  <2>1. n >= earlier /\ Len(kept) = Len(times) - n
    BY <1>4, <1>6, <1>7 DEF Keeps
  <2> QED
    BY <1>1, <1>3, <1>4, <2>1
<1>9. kept \in Seq(0 .. now + 1) /\ \A i \in DOMAIN kept : kept[i] < now + 1
  BY MoreTimes
<1> QED
  BY <1>5, <1>8, <1>9 DEF Resting

LEMMA RestingElapses ==
    ASSUME NEW now \in Nat, NEW times \in Seq(0 .. now), NEW limit \in Nat, NEW window \in Nat,
           Resting(times, limit, now)
    PROVE  /\ Within(times, window, now + 1) \in Seq(0 .. now + 1)
           /\ Resting(Within(times, window, now + 1), limit, now + 1)
<1>1. PICK kept \in Seq(0 .. now) : kept = Within(times, window, now + 1)
  BY WithinShape
<1>2. PICK n \in 0 .. Len(times) : Keeps(kept, times, window, now + 1, n)
  BY <1>1, WithinShape
<1>3. Len(times) \in Nat /\ Len(times) <= limit
  BY DEF Resting
<1>4. Len(kept) <= limit
  BY <1>2, <1>3 DEF Keeps
<1>5. kept \in Seq(0 .. now + 1) /\ \A i \in DOMAIN kept : kept[i] < now + 1
  BY MoreTimes
<1> QED
  BY <1>1, <1>4, <1>5 DEF Resting

\* The first pass starts the window; the next ones are counted in it.
LEMMA FirstPassRuns ==
    ASSUME NEW now \in Nat, NEW times \in Seq(0 .. now), NEW limit \in Nat \ {0}, NEW window \in Nat \ {0},
           Resting(times, limit, now),
           NEW counter, counter.hits = 1, counter.expiresAt = now + window
    PROVE  Running(counter, Append(times, now), limit, window, now)
<1>1. PICK len \in 0 .. limit : len = Len(times)
  BY DEF Resting
<1>2. /\ Len(Append(times, now)) = len + 1 /\ DOMAIN Append(times, now) = 1 .. len + 1
      /\ Append(times, now)[len + 1] = now
      /\ \A i \in 1 .. len : Append(times, now)[i] = times[i] /\ times[i] \in Nat /\ times[i] < now
  BY <1>1, SMTT(30) DEF Resting
<1>3. Allowed(counter.hits, limit) = 1
  BY DEF Allowed
<1>4. PICK appended : appended = Append(times, now)
  OBVIOUS
<1>5. Parted(appended, window, counter.expiresAt, len)
  <2> SUFFICES ASSUME NEW i \in 1 .. len + 1
               PROVE  IF i <= len THEN appended[i] + window < counter.expiresAt
                                  ELSE appended[i] + window >= counter.expiresAt
    BY <1>2, <1>4 DEF Parted
  <2>1. CASE i \in 1 .. len
    BY <1>2, <1>4, <2>1
  <2>2. CASE i = len + 1
    BY <1>2, <1>4, <2>2
  <2>3. i \in 1 .. len \/ i = len + 1
    BY <1>1
  <2> QED
    BY <2>1, <2>2, <2>3
<1> QED
  BY <1>1, <1>2, <1>3, <1>4, <1>5 DEF Running

LEMMA NextPassRuns ==
    ASSUME NEW now \in Nat, NEW times \in Seq(0 .. now), NEW limit \in Nat \ {0}, NEW window \in Nat \ {0},
           NEW old, Running(old, times, limit, window, now), old.hits < limit,
           NEW counter, counter.hits = old.hits + 1, counter.expiresAt = old.expiresAt
    PROVE  Running(counter, Append(times, now), limit, window, now)
<1>1. PICK earlier \in 0 .. limit : /\ Len(times) = earlier + Allowed(old.hits, limit)
                                   /\ Parted(times, window, old.expiresAt, earlier)
  BY DEF Running
<1>2. /\ old.hits \in Nat \ {0} /\ old.expiresAt \in Nat /\ now < old.expiresAt
      /\ old.expiresAt <= now + window
  BY DEF Running
<1>3. Allowed(old.hits, limit) = old.hits /\ Allowed(counter.hits, limit) = old.hits + 1
  BY <1>2 DEF Allowed
<1>4. PICK len \in Nat : len = Len(times)
  BY <1>1, <1>2, <1>3
<1>5. /\ Len(Append(times, now)) = len + 1 /\ DOMAIN Append(times, now) = 1 .. len + 1
      /\ DOMAIN times = 1 .. len /\ Append(times, now)[len + 1] = now
      /\ \A i \in 1 .. len : Append(times, now)[i] = times[i]
  BY <1>4
<1>6. PICK appended : appended = Append(times, now)
  OBVIOUS
<1>7. Parted(appended, window, counter.expiresAt, earlier)
  <2> SUFFICES ASSUME NEW i \in 1 .. len + 1
               PROVE  IF i <= earlier THEN appended[i] + window < counter.expiresAt
                                      ELSE appended[i] + window >= counter.expiresAt
    BY <1>5, <1>6 DEF Parted
  <2>1. CASE i \in 1 .. len
    BY <1>1, <1>5, <1>6, <2>1 DEF Parted
  <2>2. CASE i = len + 1
    BY <1>1, <1>2, <1>3, <1>4, <1>5, <1>6, <2>2
  <2> QED
    BY <1>4, <2>1, <2>2
<1>8. Len(appended) = earlier + Allowed(counter.hits, limit)
  BY <1>1, <1>2, <1>3, <1>4, <1>5, <1>6
<1> QED
  BY <1>2, <1>6, <1>7, <1>8 DEF Running

LEMMA RefusalRuns ==
    ASSUME NEW now \in Nat, NEW times, NEW limit \in Nat \ {0}, NEW window,
           NEW old, Running(old, times, limit, window, now), ~(old.hits < limit),
           NEW counter, counter.hits = limit + 1, counter.expiresAt = old.expiresAt
    PROVE  Running(counter, times, limit, window, now)
<1>1. old.hits \in Nat \ {0}
  BY DEF Running
<1>2. Allowed(old.hits, limit) = limit /\ Allowed(counter.hits, limit) = limit
  BY <1>1 DEF Allowed
<1> QED
  BY <1>2 DEF Running

LEMMA ElapseMeters ==
    ASSUME Gate, Metered, Elapse
    PROVE  Metered'
<1>1. /\ clock \in Nat /\ clock' = clock + 1
      /\ DOMAIN counters' = {k \in DOMAIN counters : ~(counters[k].expiresAt <= clock + 1)}
      /\ \A k \in DOMAIN counters' : counters'[k] = counters[k]
      /\ DOMAIN recent' = {k \in DOMAIN recent : recent[k] # <<>>}
      /\ \A k \in DOMAIN recent' : recent'[k] = Within(recent[k], Window[k[1]], clock + 1)
  BY DEF Elapse, DeleteAll, Gate, World
<1>2. ASSUME NEW k \in DOMAIN recent
      PROVE  /\ k[1] \in DOMAIN Limit /\ Limit[k[1]] \in Nat \ {0} /\ Window[k[1]] \in Nat
             /\ recent[k] \in Seq(0 .. clock)
  BY LimitAssumption DEF Metered
<1>3. ASSUME NEW k \in DOMAIN counters'
      PROVE  /\ k \in DOMAIN recent' /\ recent'[k] \in Seq(0 .. clock + 1)
             /\ Running(counters'[k], recent'[k], Limit[k[1]], Window[k[1]], clock + 1)
  <2>1. k \in DOMAIN counters /\ k \in DOMAIN recent
    BY <1>1 DEF Metered
  <2>2. Running(counters[k], recent[k], Limit[k[1]], Window[k[1]], clock)
    BY <2>1 DEF Metered
  <2>3. clock + 1 < counters[k].expiresAt
    BY <1>1, <2>2 DEF Running
  <2>4. /\ Within(recent[k], Window[k[1]], clock + 1) \in Seq(0 .. clock + 1) /\ recent[k] # <<>>
        /\ Running(counters[k], Within(recent[k], Window[k[1]], clock + 1), Limit[k[1]], Window[k[1]], clock + 1)
    BY <1>1, <1>2, <2>1, <2>2, <2>3, RunningElapses
  <2> QED
    BY <1>1, <2>1, <2>4
<1>4. ASSUME NEW k \in DOMAIN recent' \ DOMAIN counters'
      PROVE  recent'[k] \in Seq(0 .. clock + 1) /\ Resting(recent'[k], Limit[k[1]], clock + 1)
  <2>1. k \in DOMAIN recent /\ recent'[k] = Within(recent[k], Window[k[1]], clock + 1)
    BY <1>1
  <2>2. CASE k \in DOMAIN counters
    <3>1. Running(counters[k], recent[k], Limit[k[1]], Window[k[1]], clock)
      BY <2>2 DEF Metered
    <3>2. ~(clock + 1 < counters[k].expiresAt)
      BY <1>1, <2>2, <3>1 DEF Running
    <3>3. /\ clock \in Nat /\ recent[k] \in Seq(0 .. clock)
          /\ Limit[k[1]] \in Nat \ {0} /\ Window[k[1]] \in Nat
      BY <1>1, <1>2, <2>1
    <3>4. /\ Within(recent[k], Window[k[1]], clock + 1) \in Seq(0 .. clock + 1)
          /\ Resting(Within(recent[k], Window[k[1]], clock + 1), Limit[k[1]], clock + 1)
      BY <3>1, <3>2, <3>3, RunningEnds
    <3> QED
      BY <2>1, <3>4
  <2>3. CASE k \notin DOMAIN counters
    <3>1. Resting(recent[k], Limit[k[1]], clock)
      BY <2>1, <2>3 DEF Metered
    <3> QED
      BY <1>1, <1>2, <2>1, <3>1, RestingElapses
  <2> QED
    BY <2>2, <2>3
<1>5. \A k \in DOMAIN recent' : k[1] \in DOMAIN Limit
  BY <1>1 DEF Metered
<1> QED
  BY <1>1, <1>3, <1>4, <1>5 DEF Metered

\* The key a request is counted under next.
NextKey(r) == <<r.limits[1], KeyOf(r, r.limits[1])>>

LEMMA CountMeters ==
    ASSUME Gate, Metered, NEW s \in Slots, Count(s), Waits(req[s])
    PROVE  Metered'
<1> DEFINE k == NextKey(req[s])
           limit == Limit[k[1]]
           window == Window[k[1]]
           times == IF k \in DOMAIN recent THEN recent[k] ELSE <<>>
<1>1. /\ k[1] \in DOMAIN Limit /\ limit \in Nat \ {0} /\ window \in Nat \ {0} /\ clock \in Nat
      /\ clock' = clock
  BY LimitAssumption DEF Waits, NextKey, Gate, World, Count, sessionVars
<1>2. Head(req[s].limits) = req[s].limits[1]
  OBVIOUS
<1>3. /\ Increment(k, clock)
      /\ \/ Passes(k, clock) /\ recent' = Insert(recent, k, Append(times, clock))
         \/ ~Passes(k, clock) /\ recent' = recent
  BY <1>2 DEF Count, NextKey
<1>4. /\ times \in Seq(0 .. clock)
      /\ k \notin DOMAIN counters => Resting(times, limit, clock)
      /\ k \in DOMAIN counters => /\ Running(counters[k], times, limit, window, clock)
                                  /\ counters[k].hits \in Nat \ {0} /\ counters[k].expiresAt > clock
                                  /\ times = recent[k]
  <2> HIDE DEF k
  <2>1. CASE k \in DOMAIN counters
    <3>1. k \in DOMAIN recent /\ times = recent[k] /\ times \in Seq(0 .. clock)
      BY <2>1 DEF Metered
    <3>2. Running(counters[k], times, limit, window, clock)
      BY <2>1, <3>1 DEF Metered
    <3> QED
      BY <1>1, <2>1, <3>1, <3>2 DEF Running
  <2>2. CASE k \in DOMAIN recent /\ k \notin DOMAIN counters
    BY <2>2 DEF Metered
  <2>3. CASE k \notin DOMAIN recent /\ k \notin DOMAIN counters
    <3>1. times = <<>>
      BY <2>3
    <3> HIDE DEF times, limit
    <3>2. times \in Seq(0 .. clock) /\ Resting(times, limit, clock)
      BY <1>1, <3>1 DEF Resting
    <3> QED
      BY <2>3, <3>2
  <2> QED
    BY <2>1, <2>2, <2>3
<1> HIDE DEF k, limit, window, times
<1>5. Append(times, clock) \in Seq(0 .. clock)
  BY <1>1, <1>4
<1>6. /\ DOMAIN counters' = DOMAIN counters \cup {k}
      /\ \A j \in DOMAIN counters \ {k} : counters'[j] = counters[j]
  BY <1>3 DEF Increment, Insert
<1>7. /\ DOMAIN recent' \subseteq DOMAIN recent \cup {k} /\ DOMAIN recent \subseteq DOMAIN recent'
      /\ \A j \in DOMAIN recent \ {k} : recent'[j] = recent[j]
  BY <1>3 DEF Insert
<1>8. /\ k \in DOMAIN recent' /\ recent'[k] \in Seq(0 .. clock)
      /\ Running(counters'[k], recent'[k], limit, window, clock)
  <2>1. CASE k \notin DOMAIN counters
    <3>1. Hits(k, clock) = 0
      BY <2>1 DEF Hits
    <3>2. Passes(k, clock)
      BY <1>1, <3>1 DEF Passes, limit
    <3>3. counters'[k].hits = 1 /\ counters'[k].expiresAt = clock + window
      BY <1>1, <1>3, <3>1 DEF Increment, Insert, limit, window
    <3>4. k \in DOMAIN recent' /\ recent'[k] = Append(times, clock)
      BY <1>3, <3>2 DEF Insert
    <3>5. Running(counters'[k], Append(times, clock), limit, window, clock)
      BY <1>1, <1>4, <2>1, <3>3, FirstPassRuns
    <3> QED
      BY <1>5, <3>4, <3>5
  <2>2. CASE k \in DOMAIN counters /\ counters[k].hits < limit
    <3>1. Hits(k, clock) = counters[k].hits
      BY <1>4, <2>2 DEF Hits
    <3>2. Passes(k, clock)
      BY <2>2, <3>1 DEF Passes, limit
    <3>3. counters'[k].hits = counters[k].hits + 1 /\ counters'[k].expiresAt = counters[k].expiresAt
      BY <1>1, <1>3, <1>4, <2>2, <3>1 DEF Increment, Insert, limit, window
    <3>4. k \in DOMAIN recent' /\ recent'[k] = Append(times, clock)
      BY <1>3, <3>2 DEF Insert
    <3>5. Running(counters'[k], Append(times, clock), limit, window, clock)
      BY <1>1, <1>4, <2>2, <3>3, NextPassRuns
    <3> QED
      BY <1>5, <3>4, <3>5
  <2>3. CASE k \in DOMAIN counters /\ ~(counters[k].hits < limit)
    <3>1. Hits(k, clock) = counters[k].hits
      BY <1>4, <2>3 DEF Hits
    <3>2. ~Passes(k, clock)
      BY <2>3, <3>1 DEF Passes, limit
    <3>3. counters'[k].hits = limit + 1 /\ counters'[k].expiresAt = counters[k].expiresAt
      BY <1>1, <1>3, <1>4, <2>3, <3>1 DEF Increment, Insert, limit, window
    <3>4. k \in DOMAIN recent' /\ recent'[k] = times
      BY <1>3, <1>4, <2>3, <3>2 DEF Metered
    <3> QED
      BY <1>1, <1>4, <2>3, <3>3, <3>4, RefusalRuns
  <2> QED
    BY <2>1, <2>2, <2>3
<1>9. DOMAIN counters' \subseteq DOMAIN recent'
  BY <1>6, <1>7, <1>8 DEF Metered
<1>10. \A j \in DOMAIN recent' : j[1] \in DOMAIN Limit /\ recent'[j] \in Seq(0 .. clock)
  BY <1>1, <1>7, <1>8 DEF Metered
<1>11. \A j \in DOMAIN counters' : Running(counters'[j], recent'[j], Limit[j[1]], Window[j[1]], clock)
  <2>1. ASSUME NEW j \in DOMAIN counters \ {k}
        PROVE  Running(counters'[j], recent'[j], Limit[j[1]], Window[j[1]], clock)
    BY <1>6, <1>7 DEF Metered
  <2> QED
    BY <1>6, <1>8, <2>1 DEF limit, window
<1>12. \A j \in DOMAIN recent' \ DOMAIN counters' : Resting(recent'[j], Limit[j[1]], clock)
  BY <1>6, <1>7 DEF Metered
<1> QED
  BY <1>1, <1>9, <1>10, <1>11, <1>12 DEF Metered

\* Every counter says how many requests passed in its window, and whoever waits
\* for a limiter signs in or is signed in (INCREMENT_SCRIPT, limiter).
THEOREM MeteredHolds == Spec => [](Queues /\ Metered)
<1>1. Init => Queues /\ Metered
  BY DEF Init, LimitersInit, EmptyTable, Idle, Queues, Queued, Metered
<1>2. Gate /\ Queues /\ Metered /\ [Next]_vars => (Queues /\ Metered)'
  <2> SUFFICES ASSUME Gate, Queues, Metered, [Next]_vars PROVE (Queues /\ Metered)'
    OBVIOUS
  <2>1. CASE Elapse
    BY <2>1, ElapseMeters DEF Elapse, Queues, Queued, Waits, IsSignedIn
  <2>2. CASE UNCHANGED vars
    <3>1. UNCHANGED <<req, counters, recent, clock>>
      BY <2>2 DEF vars, sessionVars
    <3> QED
      BY <3>1 DEF Queues, Queued, Waits, IsSignedIn, Metered
  <2>3. ASSUME NEW s \in Slots, Step(s) \/ \E m \in Requests : Send(s, m)
        PROVE  (Queues /\ Metered)'
    <3>1. Queued(req[s])'
      BY <2>3, StepQueues, SendQueues
    <3>2. \A q \in Slots \ {s} : req'[q] = req[q]
      <4>1. \E x : req' = [req EXCEPT ![s] = x]
        BY <2>3 DEF Step, FindSession, Judge, Touch, Count, Deny, Login, Logout, Handle, Receive, Send
      <4> QED
        BY <4>1 DEF Gate
    <3>3. Queues'
      BY <3>1, <3>2 DEF Queues, Queued, Waits, IsSignedIn
    <3>4. Metered'
      <4>1. CASE Count(s)
        BY <4>1, CountMeters DEF Count, In, Queues, Queued
      <4>2. CASE ~Count(s)
        <5>1. UNCHANGED <<counters, recent, clock>>
          BY <2>3, <4>2 DEF Step, FindSession, Judge, Touch, Deny, Login, Logout, Handle, Receive, Send, sessionVars
        <5> QED
          BY <5>1 DEF Metered
      <4> QED
        BY <4>1, <4>2
    <3> QED
      BY <3>3, <3>4
  <2> QED
    BY <2>1, <2>2, <2>3 DEF Next
<1> QED
  BY <1>1, <1>2, GateHolds, PTL DEF Spec

\* A limiter lets at most twice its limit pass in any window's length, and
\* refuses only after as many as its limit have passed within that length
\* (INCREMENT_SCRIPT).
THEOREM FairLimits == Spec => LimitsAreFair
<1>1. Gate /\ Queues /\ Metered /\ (Queues /\ Metered)' /\ [Next]_vars =>
        [/\ \A k \in DOMAIN recent' : Len(recent'[k]) <= 2 * Limit[k[1]]
         /\ \A s \in Slots : In(s, "limit") /\ In(s, "idle")' =>
               LET limiter == Head(req[s].limits)
                   k       == <<limiter, KeyOf(req[s], limiter)>>
               IN  k \in DOMAIN recent /\ Len(recent[k]) >= Limit[limiter]]_vars
  <2> SUFFICES ASSUME Gate, Queues, Metered, Metered', Next
               PROVE  /\ \A k \in DOMAIN recent' : Len(recent'[k]) <= 2 * Limit[k[1]]
                      /\ \A s \in Slots : In(s, "limit") /\ In(s, "idle")' =>
                            LET limiter == Head(req[s].limits)
                                k       == <<limiter, KeyOf(req[s], limiter)>>
                            IN  k \in DOMAIN recent /\ Len(recent[k]) >= Limit[limiter]
    OBVIOUS
  <2>1. ASSUME NEW k \in DOMAIN recent' PROVE Len(recent'[k]) <= 2 * Limit[k[1]]
    <3>1. Limit[k[1]] \in Nat \ {0} /\ Len(recent'[k]) \in Nat
      BY LimitAssumption DEF Metered
    <3>2. CASE k \in DOMAIN counters'
      <4>1. Running(counters'[k], recent'[k], Limit[k[1]], Window[k[1]], clock')
        BY <3>2 DEF Metered
      <4>2. PICK earlier \in 0 .. Limit[k[1]] :
                Len(recent'[k]) = earlier + Allowed(counters'[k].hits, Limit[k[1]])
        BY <4>1 DEF Running
      <4>3. Allowed(counters'[k].hits, Limit[k[1]]) \in 0 .. Limit[k[1]]
        BY <3>1, <4>1 DEF Running, Allowed
      <4> QED
        BY <3>1, <4>2, <4>3
    <3>3. CASE k \notin DOMAIN counters'
      BY <3>1, <3>3 DEF Metered, Resting
    <3> QED
      BY <3>2, <3>3
  <2>2. ASSUME NEW s \in Slots, In(s, "limit"), In(s, "idle")'
        PROVE  LET k == NextKey(req[s])
               IN  k \in DOMAIN recent /\ Len(recent[k]) >= Limit[req[s].limits[1]]
    <3> DEFINE r == req[s]
               k == NextKey(r)
    <3>1. Count(s)
      BY <2>2, OnlyCountLeaves DEF In
    <3>2. r.pc = "limit" /\ Waits(r) /\ DOMAIN r = Fields /\ r.session \in Sessionable
      BY <2>2 DEF In, Queues, Queued, Gate, Sound, Typed, Idle
    <3>3. Head(r.limits) = r.limits[1]
      OBVIOUS
    <3>4. ~Passes(k, clock)
      <4>1. ASSUME req' = [req EXCEPT ![s] = Limited(@, Tail(@.limits))] PROVE FALSE
        <5>1. req'[s] = Limited(r, Tail(r.limits))
          BY <4>1 DEF Gate
        <5>2. Mounted(r.m, Tail(r.limits))
          BY <3>2, TailIsMounted DEF Waits
        <5>3. Limited(r, Tail(r.limits)).pc # "idle"
          BY <3>2, <5>2, LimitedAnswers DEF Waits
        <5> QED
          BY <2>2, <5>1, <5>3 DEF In
      <4> QED
        BY <3>1, <3>3, <4>1 DEF Count, NextKey
    <3>5. k[1] = r.limits[1] /\ Limit[k[1]] \in Nat \ {0}
      BY <3>2, LimitAssumption DEF NextKey, Waits
    <3> HIDE DEF k, r
    <3>6. k \in DOMAIN counters /\ counters[k].hits >= Limit[k[1]] /\ counters[k].hits \in Nat
      <4>1. ~(Hits(k, clock) < Limit[k[1]])
        BY <3>4 DEF Passes
      <4>2. k \in DOMAIN counters /\ Hits(k, clock) = counters[k].hits
        BY <3>5, <4>1 DEF Hits
      <4>3. counters[k].hits \in Nat
        BY <4>2 DEF Metered, Running
      <4> QED
        BY <3>5, <4>1, <4>2, <4>3
    <3>7. PICK earlier \in 0 .. Limit[k[1]] :
              Len(recent[k]) = earlier + Allowed(counters[k].hits, Limit[k[1]])
      BY <3>6 DEF Metered, Running
    <3>8. Allowed(counters[k].hits, Limit[k[1]]) = Limit[k[1]]
      BY <3>5, <3>6 DEF Allowed
    <3>9. k \in DOMAIN recent /\ Len(recent[k]) >= Limit[k[1]]
      BY <3>5, <3>6, <3>7, <3>8 DEF Metered
    <3> QED
      BY <3>5, <3>9 DEF k, r
  <2>3. \A s \in Slots : Head(req[s].limits) = req[s].limits[1]
    OBVIOUS
  <2> QED
    BY <2>1, <2>2, <2>3 DEF NextKey
<1> QED
  BY <1>1, GateHolds, MeteredHolds, PTL DEF Spec, LimitsAreFair

-----------------------------------------------------------------------------
(***************************************************************************)
(* A file's journey.  The reader of a body has taken a beginning of it off *)
(* the wire and holds the end of that beginning in its buffer (Cut); where *)
(* the buffer begins is a place of the body's grammar: the end of a        *)
(* delimiter, a part's headers, or so many bytes into its content (Place); *)
(* and the items are the files before that place (Itemized).  A delimiter  *)
(* is found where the body has one because none begins earlier, and what   *)
(* is kept back of a content is as long as a delimiter whose last byte is  *)
(* still to come.                                                          *)
(*                                                                         *)
(* The scan then writes one such item, each chunk after its length: what   *)
(* the socket has not taken and what the daemon has not read are together  *)
(* a row of frames (Frames) and the beginning of another (Follows), which  *)
(* start where the daemon's copy of the file ends.  So the length zero is  *)
(* read only when the copy is the file, and only then is there an answer   *)
(* other than an error.                                                    *)
(***************************************************************************)
\* Bytes, those of a delimiter among them.
Byte == STRING \cup {"r", "n", "-", "B"}
Bytes == Seq(Byte)

\* A stretch of a sequence of bytes, its length and its elements.
LEMMA Pieces ==
    ASSUME NEW s \in Bytes, NEW m \in Int, NEW n \in Int, 1 <= m, n <= Len(s)
    PROVE  /\ SubSeq(s, m, n) \in Bytes
           /\ Len(SubSeq(s, m, n)) = IF m <= n THEN n - m + 1 ELSE 0
           /\ \A i \in 1..n - m + 1 : SubSeq(s, m, n)[i] = s[m + i - 1]
<1>1. Len(s) \in Nat /\ \A i \in 1..Len(s) : s[i] \in Byte
  BY DEF Bytes
<1>2. \A i \in m..n : s[i] \in Byte
  BY <1>1
<1> QED
  BY <1>2, SubSeqProperties DEF Bytes

\* The bytes from the m-th, counted from 0, up to the n-th.
Piece(s, m, n) == SubSeq(s, m + 1, n)

\* A piece of a piece.
LEMMA PieceOfPiece ==
    ASSUME NEW s \in Bytes, NEW c \in Nat, NEW w \in Nat, c <= w, w <= Len(s),
           NEW m \in Nat, NEW n \in Nat, n <= w - c
    PROVE  SubSeq(SubSeq(s, c + 1, w), m + 1, n) = SubSeq(s, c + m + 1, c + n)
<1> DEFINE piece == SubSeq(s, c + 1, w)
<1>1. piece \in Bytes /\ Len(piece) = w - c /\ \A i \in 1..w - c : piece[i] = s[c + i]
  <2>1. /\ piece \in Bytes /\ Len(piece) = IF c + 1 <= w THEN w - (c + 1) + 1 ELSE 0
        /\ \A i \in 1..w - (c + 1) + 1 : piece[i] = s[c + 1 + i - 1]
    BY Pieces, 1 <= c + 1, c + 1 \in Int, w \in Int
  <2> HIDE DEF piece
  <2>2. Len(piece) = w - c
    BY <2>1
  <2>3. \A i \in 1..w - c : c + 1 + i - 1 = c + i /\ i \in 1..w - (c + 1) + 1
    OBVIOUS
  <2> QED
    BY <2>1, <2>2, <2>3
<1> DEFINE one == SubSeq(piece, m + 1, n)
           two == SubSeq(s, c + m + 1, c + n)
<1> HIDE DEF piece
<1>2. /\ one \in Bytes /\ Len(one) = IF m + 1 <= n THEN n - (m + 1) + 1 ELSE 0
      /\ \A i \in 1..n - (m + 1) + 1 : one[i] = piece[m + 1 + i - 1]
  BY <1>1, Pieces, 1 <= m + 1, m + 1 \in Int, n \in Int, n <= Len(piece)
<1>3. /\ two \in Bytes /\ Len(two) = IF c + m + 1 <= c + n THEN c + n - (c + m + 1) + 1 ELSE 0
      /\ \A i \in 1..c + n - (c + m + 1) + 1 : two[i] = s[c + m + 1 + i - 1]
  BY Pieces, 1 <= c + m + 1, c + m + 1 \in Int, c + n \in Int, c + n <= Len(s)
<1> HIDE DEF one, two
<1>4. Len(one) = Len(two)
  BY <1>2, <1>3
<1>5. ASSUME NEW i \in 1..Len(one) PROVE one[i] = two[i]
  <2>1. i \in 1..n - (m + 1) + 1 /\ i \in 1..c + n - (c + m + 1) + 1
        /\ m + 1 + i - 1 \in 1..w - c
        /\ c + (m + 1 + i - 1) = c + m + 1 + i - 1
    BY <1>2, <1>5
  <2>2. one[i] = piece[m + 1 + i - 1] /\ two[i] = s[c + m + 1 + i - 1]
    BY <1>2, <1>3, <2>1
  <2>3. piece[m + 1 + i - 1] = s[c + (m + 1 + i - 1)]
    BY <1>1, <2>1
  <2> QED
    BY <2>1, <2>2, <2>3
<1>6. one = two
  BY <1>2, <1>3, <1>4, <1>5, SeqEqual, Zenon DEF Bytes
<1> QED
  BY <1>6 DEF one, two, piece

\* Two adjacent pieces.
LEMMA PiecesJoin ==
    ASSUME NEW s \in Bytes, NEW c \in Nat, NEW w \in Nat, NEW n \in Nat, c <= w, w + n <= Len(s)
    PROVE  SubSeq(s, c + 1, w) \o SubSeq(s, w + 1, w + n) = SubSeq(s, c + 1, w + n)
<1>1. Len(s) \in Nat /\ c + 1 \in 1..Len(s) + 1 /\ w \in c + 1 - 1..Len(s) /\ w + n \in w..Len(s)
  BY DEF Bytes
<1> QED
  BY <1>1, ConcatAdjacentSubSeq DEF Bytes

\* The search in the bytes at hand finds the first occurrence if they hold it, and
\* nothing if they do not, as long as it begins no later than that.
LEMMA Finding ==
    ASSUME NEW s \in Bytes, NEW c \in Nat, NEW w \in Nat, c <= w, w <= Len(s),
           NEW p \in Bytes, NEW start \in Nat, NEW from \in Nat, NEW i,
           FirstAt(p, s, from, i), from <= c + start, c + start <= i,
           NEW buffer, buffer = Piece(s, c, w)
    PROVE  IndexOfSubarray(buffer, p, start) = IF i + Len(p) <= w THEN i - c ELSE -1
<1> DEFINE size   == Len(p)
           found  == {j \in start..Len(buffer) - size : Occurs(p, buffer, j)}
<1>1. size \in Nat /\ Len(buffer) = w - c /\ Len(s) \in Nat
  <2>1. Len(SubSeq(s, c + 1, w)) = IF c + 1 <= w THEN w - (c + 1) + 1 ELSE 0
    BY Pieces, 1 <= c + 1, c + 1 \in Int, w \in Int
  <2>2. Len(p) \in Nat /\ Len(s) \in Nat
    BY DEF Bytes
  <2>3. Len(buffer) = IF c + 1 <= w THEN w - (c + 1) + 1 ELSE 0
    BY <2>1 DEF Piece
  <2> QED
    BY <2>2, <2>3
<1>2. /\ i \in from..Len(s) - size /\ Occurs(p, s, i)
      /\ \A j \in from..i - 1 : ~Occurs(p, s, j)
  BY DEF FirstAt
<1> HIDE DEF size
<1>3. ASSUME NEW j \in start..w - c - size
      PROVE  Occurs(p, buffer, j) <=> Occurs(p, s, c + j)
  <2>1. j \in Nat /\ j + size \in Nat /\ j + size <= w - c
    BY <1>1
  <2>2. SubSeq(buffer, j + 1, j + size) = SubSeq(s, c + j + 1, c + (j + size))
    <3>1. SubSeq(SubSeq(s, c + 1, w), j + 1, j + size) = SubSeq(s, c + j + 1, c + (j + size))
      BY <2>1, PieceOfPiece, SMTT(40)
    <3> QED
      BY <3>1 DEF Piece
  <2>3. c + (j + size) = c + j + size
    BY <1>1, <2>1
  <2> QED
    BY <2>2, <2>3 DEF Occurs, size
<1>4. found \subseteq start..w - c - size /\ \A j \in found : Occurs(p, s, c + j)
  BY <1>1, <1>3
<1>5. \A j \in found : i <= c + j
  <2> SUFFICES ASSUME NEW j \in found, c + j < i PROVE FALSE
    <3> HIDE DEF found
    <3> QED
      BY <1>1, <1>2, <1>4
  <2>1. j \in start..w - c - size /\ Occurs(p, s, c + j)
    BY <1>4
  <2> HIDE DEF found
  <2>2. c + j \in from..i - 1
    BY <1>1, <1>2, <2>1
  <2> QED
    BY <1>2, <2>1, <2>2
<1>6. IndexOfSubarray(buffer, p, start) = IF found = {} THEN -1 ELSE Min(found)
  BY DEF IndexOfSubarray, size
<1>7. ASSUME i + size <= w PROVE IndexOfSubarray(buffer, p, start) = i - c
  <2>1. i - c \in start..w - c - size /\ c + (i - c) = i
    BY <1>1, <1>2, <1>7
  <2>2. i - c \in found
    <3> QED
      BY <1>1, <1>2, <1>3, <2>1
  <2>3. \A j \in found : j \in Int /\ i - c <= j
    <3> HIDE DEF found
    <3> QED
      BY <1>1, <1>2, <1>4, <1>5
  <2> HIDE DEF found
  <2>4. Min(found) = i - c
    <3>1. \A x \in found : (\A y \in found : x =< y) => x = i - c
      BY <2>1, <2>2, <2>3
    <3> QED
      BY <2>2, <2>3, <3>1 DEF Min
  <2> QED
    BY <1>6, <2>2, <2>4
<1>8. ASSUME ~(i + size <= w) PROVE IndexOfSubarray(buffer, p, start) = -1
  <2>1. \A j \in found : FALSE
    <3> SUFFICES ASSUME NEW j \in found PROVE FALSE
      OBVIOUS
    <3>1. j \in start..w - c - size /\ i <= c + j
      BY <1>4, <1>5
    <3> HIDE DEF found
    <3> QED
      BY <1>1, <1>2, <1>8, <3>1
  <2> HIDE DEF found
  <2> QED
    BY <1>6, <2>1
<1> HIDE DEF found
<1> QED
  BY <1>7, <1>8 DEF size

\* The bytes the reader looks for.
LEMMA Patterns ==
    /\ CRLF \in Bytes /\ Len(CRLF) = 2
    /\ Dashes \in Bytes /\ Len(Dashes) = 2
    /\ HeaderEnd \in Bytes /\ Len(HeaderEnd) = 4
    /\ BoundaryBytes \in Bytes /\ Len(BoundaryBytes) = 3
    /\ CrlfBoundaryBytes \in Bytes /\ Len(CrlfBoundaryBytes) = 5
    /\ CRLF # Dashes
<1>1. CRLF \in Bytes /\ Len(CRLF) = 2 /\ Dashes \in Bytes /\ Len(Dashes) = 2
      /\ <<"B">> \in Bytes /\ Len(<<"B">>) = 1
  <2>1. "r" \in Byte /\ "n" \in Byte /\ "-" \in Byte /\ "B" \in Byte
    BY DEF Byte
  <2>2. \A a, b \in Byte : <<a, b>> \in Seq(Byte) /\ Len(<<a, b>>) = 2
    OBVIOUS
  <2>3. \A a \in Byte : <<a>> \in Seq(Byte) /\ Len(<<a>>) = 1
    OBVIOUS
  <2> QED
    BY <2>1, <2>2, <2>3 DEF CRLF, Dashes, Bytes
<1>2. CRLF # Dashes
  <2>1. CRLF[1] = "r" /\ Dashes[1] = "-"
    BY DEF CRLF, Dashes
  <2> QED
    BY <2>1
<1>3. ASSUME NEW s \in Bytes, NEW t \in Bytes
      PROVE  s \o t \in Bytes /\ Len(s \o t) = Len(s) + Len(t)
  BY <1>3, ConcatProperties DEF Bytes
<1>4. 2 + 2 = 4 /\ 2 + 1 = 3 /\ 2 + 3 = 5
  OBVIOUS
<1>5. HeaderEnd \in Bytes /\ Len(HeaderEnd) = 4
  <2>1. CRLF \o CRLF \in Bytes /\ Len(CRLF \o CRLF) = Len(CRLF) + Len(CRLF)
    BY <1>1, <1>3, Zenon
  <2> QED
    BY <1>1, <1>4, <2>1, Zenon DEF HeaderEnd
<1>6. BoundaryBytes \in Bytes /\ Len(BoundaryBytes) = 3
  <2>1. Dashes \o <<"B">> \in Bytes /\ Len(Dashes \o <<"B">>) = Len(Dashes) + Len(<<"B">>)
    BY <1>1, <1>3, Zenon
  <2> QED
    BY <1>1, <1>4, <2>1, Zenon DEF BoundaryBytes
<1>7. CrlfBoundaryBytes \in Bytes /\ Len(CrlfBoundaryBytes) = 5
  <2>1. CRLF \o BoundaryBytes \in Bytes
        /\ Len(CRLF \o BoundaryBytes) = Len(CRLF) + Len(BoundaryBytes)
    BY <1>1, <1>3, <1>6, Zenon
  <2> QED
    BY <1>1, <1>4, <1>6, <2>1, Zenon DEF CrlfBoundaryBytes
<1> QED
  BY <1>1, <1>2, <1>5, <1>6, <1>7

\* The smaller and the larger of two numbers.
LEMMA OfTwo ==
    ASSUME NEW a \in Int, NEW b \in Int
    PROVE  /\ Min({a, b}) = IF a <= b THEN a ELSE b
           /\ Max({a, b}) = IF a <= b THEN b ELSE a
BY DEF Min, Max

-----------------------------------------------------------------------------
\* The files of a body and how many there are among its first k parts.
Files(body) == {j \in DOMAIN body.parts : IsFilePart(body.parts[j].header)}
FilesUpTo(body, k) == Cardinality({j \in Files(body) : j <= k})

\* The items are the files among the first k parts.
Itemized(body, items, k) ==
    /\ k \in 0..Len(body.parts)
    /\ Len(items) = FilesUpTo(body, k)
    /\ \A i \in DOMAIN items : \E j \in Files(body) :
          j <= k /\ FilesUpTo(body, j) = i /\ KeptOf(items[i], body.parts[j].content)

\* The bytes before c are done with, those from there to w are in the buffer.
Cut(body, buffer, rest, c, w) ==
    /\ c \in Nat /\ w \in Nat /\ c <= w /\ w <= Len(body.bytes)
    /\ buffer = SubSeq(body.bytes, c + 1, w)
    /\ rest = SubSeq(body.bytes, w + 1, Len(body.bytes))

\* What is kept of a part of which the first bytes have gone by.
KeptSoFar(part, of) ==
    /\ part.header = of.header
    /\ IsFilePart(of.header) =>
          /\ Len(part.chunks) <= part.runningBytes
          /\ part.chunks = SubSeq(of.content, 1, Len(part.chunks))
          /\ IF part.runningBytes <= MaxBytesPerFile
             THEN Len(part.chunks) = part.runningBytes
             ELSE Len(part.chunks) \in SniffWindow..MaxBytesPerFile

Letter == Byte \cup {NoPart.header}
PartType == [header : Letter, chunks : Bytes, runningBytes : Nat]
Items == Seq([chunks : Bytes, sizeBytes : Nat])

\* A slice of the content that comes next is added to what is kept as it should.
LEMMA SlicesAreKept ==
    ASSUME NEW of \in [header : Byte, content : Bytes], NEW part \in PartType,
           KeptSoFar(part, of), NEW n \in Nat, part.runningBytes + n <= Len(of.content),
           NEW slice, slice = Piece(of.content, part.runningBytes, part.runningBytes + n)
    PROVE  LET new == HandleBodySlice(part, slice)
           IN  /\ new \in PartType /\ KeptSoFar(new, of)
               /\ new.runningBytes = part.runningBytes + n
<1> DEFINE content == of.content
           running == part.runningBytes
           need == Min({Len(slice), Max({0, SniffWindow - Len(part.chunks)})})
           chunks == IF ~IsFilePart(part.header) THEN part.chunks
                     ELSE IF running + n <= MaxBytesPerFile THEN part.chunks \o slice
                     ELSE part.chunks \o SubSeq(slice, 1, need)
           new == HandleBodySlice(part, slice)
<1>1. content \in Bytes /\ running \in Nat /\ part.chunks \in Bytes /\ part.header \in Letter
      /\ Len(content) \in Nat /\ Len(part.chunks) \in Nat
  BY DEF PartType, Bytes
<1>2. slice \in Bytes /\ Len(slice) = n
  <2>1. running + n <= Len(content) /\ running + 1 \in Int /\ running + n \in Int /\ 1 <= running + 1
    BY <1>1
  <2>2. SubSeq(content, running + 1, running + n) \in Bytes
        /\ Len(SubSeq(content, running + 1, running + n))
             = IF running + 1 <= running + n THEN running + n - (running + 1) + 1 ELSE 0
    BY <1>1, <2>1, Pieces
  <2>3. slice \in Bytes /\ Len(slice) = IF running + 1 <= running + n THEN running + n - (running + 1) + 1 ELSE 0
    BY <2>2 DEF Piece
  <2> HIDE DEF running
  <2> QED
    BY <1>1, <2>3
<1>3. need \in Nat /\ need <= n
      /\ need = IF SniffWindow <= Len(part.chunks) THEN 0
                ELSE IF n <= SniffWindow - Len(part.chunks) THEN n ELSE SniffWindow - Len(part.chunks)
  <2>1. SniffWindow \in Nat /\ 0 \in Int /\ SniffWindow - Len(part.chunks) \in Int
    BY <1>1, SizesAssumption
  <2>2. Max({0, SniffWindow - Len(part.chunks)})
            = IF 0 <= SniffWindow - Len(part.chunks) THEN SniffWindow - Len(part.chunks) ELSE 0
    BY <2>1, OfTwo
  <2>3. PICK most \in Nat : most = Max({0, SniffWindow - Len(part.chunks)})
    BY <2>1, <2>2
  <2>4. Min({n, most}) = IF n <= most THEN n ELSE most
    BY OfTwo
  <2>5. need = Min({n, most})
    BY <1>2, <2>3, Zenon
  <2> HIDE DEF need
  <2> QED
    BY <1>1, <2>1, <2>2, <2>3, <2>4, <2>5
<1>4. new = [part EXCEPT !.runningBytes = running + n, !.chunks = chunks]
  <2> QED
    BY <1>2 DEF HandleBodySlice
<1>5. new.header = part.header /\ new.runningBytes = running + n /\ new.chunks = chunks
      /\ DOMAIN new = DOMAIN part
  BY <1>4 DEF PartType
<1> HIDE DEF new, need
<1>6. SubSeq(slice, 1, need) = SubSeq(content, running + 1, running + need)
      /\ SubSeq(slice, 1, need) \in Bytes
  <2>1. running <= running + n /\ running + n \in Nat /\ need <= running + n - running
    BY <1>1, <1>3
  <2>2. SubSeq(slice, 0 + 1, need) = SubSeq(content, running + 0 + 1, running + need)
    <3>1. \A m, k \in Nat : k <= running + n - running =>
             SubSeq(SubSeq(content, running + 1, running + n), m + 1, k)
                = SubSeq(content, running + m + 1, running + k)
      <4> HIDE DEF content, running
      <4> QED
        BY <1>1, <2>1, PieceOfPiece
    <3> QED
      BY <1>3, <2>1, <3>1 DEF Piece
  <2>3. running + 0 + 1 = running + 1 /\ 0 + 1 = 1
    BY <1>1
  <2> QED
    <3>1. SubSeq(slice, 1, need) \in Bytes
      BY <1>2, <1>3, Pieces, 1 \in Int, need \in Int, 1 <= 1, need <= Len(slice)
    <3> QED
      BY <2>2, <2>3, <3>1, Zenon
<1>7. chunks \in Bytes
  BY <1>1, <1>2, <1>6, ConcatProperties DEF Bytes
<1>8. new \in PartType
  <2>1. DOMAIN part = {"header", "chunks", "runningBytes"}
    BY DEF PartType
  <2>2. running + n \in Nat
    BY <1>1
  <2> HIDE DEF chunks, running
  <2>3. new = [header |-> part.header, chunks |-> chunks, runningBytes |-> running + n]
    BY <1>4, <2>1
  <2> QED
    BY <1>1, <1>7, <2>2, <2>3 DEF PartType
<1>9. ASSUME IsFilePart(of.header)
      PROVE  /\ Len(new.chunks) <= new.runningBytes
             /\ new.chunks = SubSeq(content, 1, Len(new.chunks))
             /\ IF new.runningBytes <= MaxBytesPerFile
                THEN Len(new.chunks) = new.runningBytes
                ELSE Len(new.chunks) \in SniffWindow..MaxBytesPerFile
  <2>1. part.header = of.header /\ Len(part.chunks) <= running
        /\ part.chunks = SubSeq(content, 1, Len(part.chunks))
        /\ (IF running <= MaxBytesPerFile THEN Len(part.chunks) = running
            ELSE Len(part.chunks) \in SniffWindow..MaxBytesPerFile)
    BY <1>9 DEF KeptSoFar
  <2>2. MaxBytesPerFile \in Nat /\ SniffWindow \in 0..MaxBytesPerFile
    BY SizesAssumption
  <2>3. \A m \in Nat : running + m <= Len(content) /\ Len(part.chunks) = running =>
           /\ part.chunks \o SubSeq(content, running + 1, running + m) = SubSeq(content, 1, running + m)
           /\ Len(SubSeq(content, 1, running + m)) = running + m
    <3> SUFFICES ASSUME NEW m \in Nat, running + m <= Len(content), Len(part.chunks) = running
                 PROVE  /\ part.chunks \o SubSeq(content, running + 1, running + m)
                             = SubSeq(content, 1, running + m)
                        /\ Len(SubSeq(content, 1, running + m)) = running + m
      OBVIOUS
    <3>1. SubSeq(content, 0 + 1, running) \o SubSeq(content, running + 1, running + m)
             = SubSeq(content, 0 + 1, running + m)
      <4> HIDE DEF content, running
      <4>1. 0 \in Nat /\ 0 <= running /\ running + m <= Len(content)
        BY <1>1
      <4> QED
        BY <1>1, <4>1, PiecesJoin
    <3>2. Len(SubSeq(content, 1, running + m))
             = IF 1 <= running + m THEN running + m - 1 + 1 ELSE 0
      <4> HIDE DEF content, running
      <4>1. 1 \in Int /\ running + m \in Int /\ 1 <= 1 /\ running + m <= Len(content)
        BY <1>1
      <4> QED
        BY <1>1, <4>1, Pieces
    <3> HIDE DEF content, running
    <3>3. Len(SubSeq(content, 1, running + m)) = running + m
      BY <1>1, <3>2
    <3> QED
      BY <2>1, <3>1, <3>3, 0 + 1 = 1
  <2>4. CASE running + n <= MaxBytesPerFile
    <3>1. running <= MaxBytesPerFile
      <4> HIDE DEF running
      <4> QED
        BY <1>1, <2>2, <2>4
    <3>2. chunks = part.chunks \o slice
      BY <1>9, <2>1, <2>4, Zenon
    <3> HIDE DEF chunks
    <3>3. chunks = SubSeq(content, 1, running + n) /\ Len(chunks) = running + n
      BY <2>1, <2>3, <3>1, <3>2 DEF Piece
    <3> HIDE DEF content, running
    <3> QED
      BY <1>1, <1>5, <2>4, <3>3
  <2>5. CASE ~(running + n <= MaxBytesPerFile) /\ running <= MaxBytesPerFile
    <3>1. chunks = part.chunks \o SubSeq(content, running + 1, running + need) /\ Len(part.chunks) = running
      BY <1>6, <1>9, <2>1, <2>5
    <3>2. running + need <= Len(content)
      BY <1>1, <1>3
    <3>3. chunks = SubSeq(content, 1, running + need) /\ Len(chunks) = running + need
      BY <1>3, <2>3, <3>1, <3>2
    <3> HIDE DEF chunks, content, running
    <3>4. running + need \in SniffWindow..MaxBytesPerFile /\ running + need <= running + n
      BY <1>1, <1>3, <2>2, <2>5, <3>1
    <3> QED
      BY <1>1, <1>5, <2>5, <3>3, <3>4
  <2>6. CASE ~(running <= MaxBytesPerFile)
    <3>1. need = 0 /\ ~(running + n <= MaxBytesPerFile)
      BY <1>1, <1>3, <2>1, <2>2, <2>6
    <3>2. SubSeq(slice, 1, need) = <<>>
      BY <3>1, SubSeqEmpty
    <3>3. chunks = part.chunks
      BY <1>1, <2>1, <1>9, <3>1, <3>2, ConcatEmptySeq DEF Bytes
    <3> HIDE DEF chunks, content, running
    <3> QED
      BY <1>1, <1>5, <2>1, <2>6, <3>1, <3>3
  <2> QED
    BY <2>4, <2>5, <2>6
<1>10. KeptSoFar(new, of)
  <2>1. part.header = of.header
    BY DEF KeptSoFar
  <2> HIDE DEF chunks, running
  <2> QED
    BY <1>5, <1>9, <2>1 DEF KeptSoFar
<1> QED
  BY <1>5, <1>8, <1>10 DEF new

\* A body in numbers.
LEMMA BodiesFit ==
    ASSUME NEW body \in Bodies
    PROVE  /\ body.bytes \in Bytes /\ Len(body.bytes) \in Nat
           /\ Len(body.parts) \in Nat /\ DOMAIN body.parts = 1..Len(body.parts)
           /\ body.ends[1] \in Nat /\ body.ends[1] - 3 \in Nat /\ body.ends[1] <= Len(body.bytes)
           /\ FirstAt(BoundaryBytes, body.bytes, 0, body.ends[1] - 3)
           /\ body.ends[Len(body.parts) + 1] \in Nat
           /\ body.ends[Len(body.parts) + 1] + 2 <= Len(body.bytes)
           /\ Occurs(Dashes, body.bytes, body.ends[Len(body.parts) + 1])
<1> DEFINE n == Len(body.parts)
<1>1. IsMultipart(body)
  BY BodiesAssumption
<1>2. body.bytes \in Seq(STRING) /\ body.parts \in Seq([header : STRING, content : Seq(STRING)])
  BY <1>1 DEF IsMultipart
<1>3. n \in Nat /\ DOMAIN body.parts = 1..n /\ Len(body.bytes) \in Nat
  BY <1>2
<1>4. body.bytes \in Bytes
  BY <1>2, SeqMonotonic DEF Bytes, Byte
<1>5. FirstAt(BoundaryBytes, body.bytes, 0, body.ends[1] - 3)
  BY <1>1, Patterns DEF IsMultipart
<1>6. body.ends[1] \in Nat /\ body.ends[n + 1] \in Nat
  <2>1. body.ends \in [1..n + 1 -> Nat]
    BY <1>1 DEF IsMultipart
  <2> QED
    BY <1>3, <2>1
<1>7. body.ends[1] - 3 \in 0..Len(body.bytes) - 3
  BY <1>5, Patterns DEF FirstAt
<1>8. body.ends[n + 1] \in 0..Len(body.bytes) - 2 /\ Occurs(Dashes, body.bytes, body.ends[n + 1])
  BY <1>1, Patterns DEF IsMultipart
<1>9. body.ends[1] - 3 \in Nat /\ body.ends[1] <= Len(body.bytes)
      /\ body.ends[n + 1] + 2 <= Len(body.bytes)
  <2>1. \A a, b, l \in Nat : a - 3 \in 0..l - 3 /\ b \in 0..l - 2 =>
            a - 3 \in Nat /\ a <= l /\ b + 2 <= l
    OBVIOUS
  <2> HIDE DEF n
  <2> QED
    BY <1>3, <1>6, <1>7, <1>8, <2>1, Zenon
<1> QED
  BY <1>3, <1>4, <1>5, <1>6, <1>8, <1>9

\* A part of a body in numbers.
LEMMA PartsFit ==
    ASSUME NEW body \in Bodies, NEW k \in 1..Len(body.parts)
    PROVE  /\ body.parts[k] \in [header : Byte, content : Bytes]
           /\ body.parts[k].header \in Byte /\ body.parts[k].content \in Bytes
           /\ Len(body.parts[k].content) \in Nat
           /\ body.ends[k] \in Nat /\ body.ends[k + 1] \in Nat
           /\ PartStart(body, k) = body.ends[k] + 2
           /\ PartStart(body, k) + 4 <= ContentStart(body, k)
           /\ ContentStart(body, k) \in Nat /\ PartEnd(body, k) \in Nat
           /\ PartEnd(body, k) = ContentStart(body, k) + Len(body.parts[k].content)
           /\ body.ends[k + 1] = PartEnd(body, k) + 5
           /\ body.ends[k + 1] <= Len(body.bytes)
           /\ Occurs(CRLF, body.bytes, body.ends[k])
           /\ FirstAt(HeaderEnd, body.bytes, PartStart(body, k), ContentStart(body, k) - 4)
           /\ body.bytes[PartStart(body, k) + 1] = body.parts[k].header
           /\ SubSeq(body.bytes, ContentStart(body, k) + 1, PartEnd(body, k)) = body.parts[k].content
           /\ FirstAt(CrlfBoundaryBytes, body.bytes, ContentStart(body, k), PartEnd(body, k))
<1> DEFINE n == Len(body.parts)
           content == body.parts[k].content
<1>1. IsMultipart(body) /\ n \in Nat /\ Len(body.bytes) \in Nat
  BY BodiesAssumption, BodiesFit
<1>2. body.parts \in Seq([header : STRING, content : Seq(STRING)])
      /\ body.ends \in [1..n + 1 -> Nat]
  BY <1>1 DEF IsMultipart
<1>3. body.parts[k] \in [header : STRING, content : Seq(STRING)]
  BY <1>2, ElementOfSeq, Zenon
<1>4. Seq(STRING) \subseteq Seq(Byte)
  BY SeqMonotonic DEF Byte
<1>5. body.parts[k] \in [header : Byte, content : Bytes] /\ body.parts[k].header \in Byte
      /\ content \in Bytes /\ Len(content) \in Nat
  BY <1>3, <1>4 DEF Bytes, Byte
<1>6. body.ends[k] \in Nat /\ body.ends[k + 1] \in Nat
  <2>1. k \in 1..n + 1 /\ k + 1 \in 1..n + 1
    <3> HIDE DEF n
    <3>1. k \in 1..n
      BY DEF n
    <3> QED
      BY <1>1, <3>1
  <2> QED
    BY <1>2, <2>1, Zenon
<1>7. /\ Occurs(CRLF, body.bytes, body.ends[k])
      /\ FirstAt(HeaderEnd, body.bytes, PartStart(body, k), ContentStart(body, k) - 4)
      /\ body.bytes[PartStart(body, k) + 1] = body.parts[k].header
      /\ SubSeq(body.bytes, ContentStart(body, k) + 1, PartEnd(body, k)) = content
      /\ FirstAt(CrlfBoundaryBytes, body.bytes, ContentStart(body, k), PartEnd(body, k))
  BY <1>1, Patterns DEF IsMultipart
<1>8. PartStart(body, k) = body.ends[k] + 2 /\ PartEnd(body, k) = body.ends[k + 1] - 5
      /\ ContentStart(body, k) = PartEnd(body, k) - Len(content)
  BY Patterns DEF PartStart, PartEnd, ContentStart
<1>9. ContentStart(body, k) - 4 \in PartStart(body, k)..Len(body.bytes) - 4
      /\ PartEnd(body, k) \in ContentStart(body, k)..Len(body.bytes) - 5
  BY <1>7, Patterns DEF FirstAt
<1> HIDE DEF n, content
<1>10. /\ PartStart(body, k) + 4 <= ContentStart(body, k)
       /\ ContentStart(body, k) \in Nat /\ PartEnd(body, k) \in Nat
       /\ PartEnd(body, k) = ContentStart(body, k) + Len(content)
       /\ body.ends[k + 1] = PartEnd(body, k) + 5
       /\ body.ends[k + 1] <= Len(body.bytes)
  <2>1. PICK e \in Nat, f \in Nat, l \in Nat, b \in Nat :
            e = body.ends[k] /\ f = body.ends[k + 1] /\ l = Len(content) /\ b = Len(body.bytes)
    BY <1>1, <1>5, <1>6
  <2>2. PICK s, t, u : s = PartStart(body, k) /\ t = ContentStart(body, k) /\ u = PartEnd(body, k)
    OBVIOUS
  <2>3. s = e + 2 /\ u = f - 5 /\ t = u - l /\ t - 4 \in s..b - 4 /\ u \in t..b - 5
    BY <1>8, <1>9, <2>1, <2>2
  <2>4. s + 4 <= t /\ t \in Nat /\ u \in Nat /\ u = t + l /\ f = u + 5 /\ f <= b
    BY <2>3
  <2> QED
    BY <2>1, <2>2, <2>4
<1> QED
  BY <1>5, <1>6, <1>7, <1>8, <1>10 DEF content

\* The next chunk is added to the bytes at hand.
LEMMA ChunkArrives ==
    ASSUME NEW body \in Bodies, NEW buffer, NEW rest, NEW c, NEW w,
           Cut(body, buffer, rest, c, w), NEW n \in 1..Len(rest)
    PROVE  Cut(body, buffer \o SubSeq(rest, 1, n), Drop(rest, n), c, w + n)
<1> DEFINE s == body.bytes
<1>1. s \in Bytes /\ Len(s) \in Nat
  BY BodiesFit
<1>2. /\ c \in Nat /\ w \in Nat /\ c <= w /\ w <= Len(s)
      /\ buffer = SubSeq(s, c + 1, w) /\ rest = SubSeq(s, w + 1, Len(s))
  BY DEF Cut
<1> HIDE DEF s
<1>3. Len(rest) = Len(s) - w
  <2>1. Len(rest) = IF w + 1 <= Len(s) THEN Len(s) - (w + 1) + 1 ELSE 0
    BY <1>1, <1>2, Pieces, w + 1 \in Int, 1 <= w + 1, Len(s) <= Len(s), Len(s) \in Int
  <2> QED
    BY <1>1, <1>2, <2>1
<1>4. n \in Nat /\ w + n \in Nat /\ w + n <= Len(s) /\ n <= Len(s) - w
  BY <1>1, <1>2, <1>3
<1>5. SubSeq(rest, 1, n) = SubSeq(s, w + 1, w + n)
  <2>1. SubSeq(rest, 0 + 1, n) = SubSeq(s, w + 0 + 1, w + n)
    BY <1>1, <1>2, <1>4, PieceOfPiece
  <2> QED
    BY <1>2, <2>1, 0 + 1 = 1, w + 0 + 1 = w + 1
<1>6. buffer \o SubSeq(rest, 1, n) = SubSeq(s, c + 1, w + n)
  <2>1. SubSeq(s, c + 1, w) \o SubSeq(s, w + 1, w + n) = SubSeq(s, c + 1, w + n)
    BY <1>1, <1>2, <1>4, PiecesJoin, SMTT(40)
  <2> QED
    BY <1>2, <1>5, <2>1, Zenon
<1>7. Drop(rest, n) = SubSeq(s, w + n + 1, Len(s))
  <2>1. SubSeq(rest, n + 1, Len(s) - w) = SubSeq(s, w + n + 1, w + (Len(s) - w))
    BY <1>1, <1>2, <1>4, PieceOfPiece, Len(s) - w \in Nat
  <2>2. w + (Len(s) - w) = Len(s)
    BY <1>1, <1>2
  <2> QED
    BY <1>3, <2>1, <2>2 DEF Drop
<1>8. c <= w + n
  BY <1>2, <1>4
<1> QED
  BY <1>2, <1>4, <1>6, <1>7, <1>8, Zenon DEF Cut, s

\* The first of the bytes at hand are done with.
LEMMA BytesAreDone ==
    ASSUME NEW body \in Bodies, NEW buffer, NEW rest, NEW c, NEW w,
           Cut(body, buffer, rest, c, w), NEW m \in Nat, c + m <= w
    PROVE  Cut(body, Drop(buffer, m), rest, c + m, w)
<1> DEFINE s == body.bytes
<1>1. s \in Bytes /\ Len(s) \in Nat
  BY BodiesFit
<1>2. /\ c \in Nat /\ w \in Nat /\ c <= w /\ w <= Len(s)
      /\ buffer = SubSeq(s, c + 1, w) /\ rest = SubSeq(s, w + 1, Len(s))
  BY DEF Cut
<1> HIDE DEF s
<1>3. Len(buffer) = w - c
  <2>1. Len(buffer) = IF c + 1 <= w THEN w - (c + 1) + 1 ELSE 0
    BY <1>1, <1>2, Pieces, c + 1 \in Int, 1 <= c + 1, w \in Int
  <2> QED
    BY <1>1, <1>2, <2>1
<1>4. Drop(buffer, m) = SubSeq(s, c + m + 1, w)
  <2>1. SubSeq(buffer, m + 1, w - c) = SubSeq(s, c + m + 1, c + (w - c))
    BY <1>1, <1>2, PieceOfPiece, w - c \in Nat
  <2>2. c + (w - c) = w
    BY <1>2
  <2> QED
    BY <1>3, <2>1, <2>2 DEF Drop
<1>5. c + m \in Nat
  BY <1>2
<1> QED
  BY <1>2, <1>4, <1>5 DEF Cut, s

\* The bytes at hand and those to come.
LEMMA CutInNumbers ==
    ASSUME NEW body \in Bodies, NEW buffer, NEW rest, NEW c, NEW w, Cut(body, buffer, rest, c, w)
    PROVE  /\ c \in Nat /\ w \in Nat /\ c <= w /\ w <= Len(body.bytes)
           /\ buffer \in Bytes /\ Len(buffer) = w - c
           /\ rest \in Bytes /\ Len(rest) = Len(body.bytes) - w
           /\ rest = <<>> => w = Len(body.bytes)
<1> DEFINE s == body.bytes
<1>1. s \in Bytes /\ Len(s) \in Nat
  BY BodiesFit
<1>2. /\ c \in Nat /\ w \in Nat /\ c <= w /\ w <= Len(s)
      /\ buffer = SubSeq(s, c + 1, w) /\ rest = SubSeq(s, w + 1, Len(s))
  BY DEF Cut
<1> HIDE DEF s
<1>3. buffer \in Bytes /\ Len(buffer) = IF c + 1 <= w THEN w - (c + 1) + 1 ELSE 0
  BY <1>1, <1>2, Pieces, c + 1 \in Int, 1 <= c + 1, w \in Int
<1>4. rest \in Bytes /\ Len(rest) = IF w + 1 <= Len(s) THEN Len(s) - (w + 1) + 1 ELSE 0
  BY <1>1, <1>2, Pieces, w + 1 \in Int, 1 <= w + 1, Len(s) \in Int, Len(s) <= Len(s)
<1>5. Len(buffer) = w - c /\ Len(rest) = Len(s) - w
  BY <1>1, <1>2, <1>3, <1>4
<1>6. rest = <<>> => w = Len(s)
  <2>1. rest = <<>> => Len(rest) = 0
    OBVIOUS
  <2> QED
    BY <1>1, <1>2, <1>5, <2>1
<1> QED
  BY <1>2, <1>3, <1>4, <1>5, <1>6 DEF s

\* The bytes at hand, looked at from the body's beginning.
ByteOf(s, i) == s[i]

LEMMA CutBytes ==
    ASSUME NEW body \in Bodies, NEW buffer, NEW rest, NEW c, NEW w, Cut(body, buffer, rest, c, w),
           NEW i \in 1..w - c
    PROVE  ByteOf(buffer, i) = ByteOf(body.bytes, c + i)
<1> DEFINE s == body.bytes
<1>1. s \in Bytes /\ Len(s) \in Nat
  BY BodiesFit
<1>2. c \in Nat /\ w \in Nat /\ c <= w /\ w <= Len(s) /\ buffer = SubSeq(s, c + 1, w)
  BY DEF Cut
<1> HIDE DEF s
<1>3. \A j \in 1..w - (c + 1) + 1 : buffer[j] = s[c + 1 + j - 1]
  BY <1>1, <1>2, Pieces, c + 1 \in Int, 1 <= c + 1, w \in Int
<1>4. i \in 1..w - (c + 1) + 1 /\ c + 1 + i - 1 = c + i
  BY <1>2
<1> QED
  BY <1>3, <1>4 DEF s, ByteOf

\* What occurs in the bytes at hand occurs there in the body.
LEMMA CutOccurs ==
    ASSUME NEW body \in Bodies, NEW buffer, NEW rest, NEW c, NEW w, Cut(body, buffer, rest, c, w),
           NEW p \in Bytes, NEW i \in Nat, i + Len(p) <= w - c
    PROVE  Occurs(p, buffer, i) <=> Occurs(p, body.bytes, c + i)
<1>1. c \in Nat /\ Len(p) \in Nat
  BY DEF Cut, Bytes
<1>2. PICK n \in Nat : n = i + Len(p)
  BY <1>1
<1>3. SubSeq(buffer, i + 1, n) = SubSeq(body.bytes, c + i + 1, c + n)
  <2> DEFINE s == body.bytes
  <2>1. s \in Bytes /\ Len(s) \in Nat
    BY BodiesFit
  <2>2. w \in Nat /\ c <= w /\ w <= Len(s) /\ buffer = SubSeq(s, c + 1, w)
    BY DEF Cut
  <2> HIDE DEF s
  <2> QED
    BY <1>1, <1>2, <2>1, <2>2, PieceOfPiece DEF s
<1>4. c + n = c + i + Len(p)
  BY <1>1, <1>2
<1> QED
  BY <1>2, <1>3, <1>4 DEF Occurs

\* The search in the bytes at hand finds the first occurrence, if they hold it.
LEMMA CutFinds ==
    ASSUME NEW body \in Bodies, NEW buffer, NEW rest, NEW c, NEW w, Cut(body, buffer, rest, c, w),
           NEW p \in Bytes, NEW start \in Nat, NEW from \in Nat, NEW i \in Nat,
           FirstAt(p, body.bytes, from, i), from <= c + start, c + start <= i
    PROVE  /\ i + Len(p) <= w => IndexOfSubarray(buffer, p, start) = i - c
           /\ ~(i + Len(p) <= w) => IndexOfSubarray(buffer, p, start) = -1
<1>1. body.bytes \in Bytes
  BY BodiesFit
<1>2. /\ c \in Nat /\ w \in Nat /\ c <= w /\ w <= Len(body.bytes)
      /\ buffer = Piece(body.bytes, c, w)
  BY DEF Cut, Piece
<1>3. IndexOfSubarray(buffer, p, start) = IF i + Len(p) <= w THEN i - c ELSE -1
  BY <1>1, <1>2, Finding, SMTT(40)
<1> QED
  BY <1>3

\* FilesCounted the files of a body.
LEMMA FilesCounted ==
    ASSUME NEW body \in Bodies
    PROVE  /\ \A k \in Nat : FilesUpTo(body, k) \in Nat /\ FilesUpTo(body, k) <= Cardinality(Files(body))
           /\ FilesUpTo(body, 0) = 0 /\ Cardinality(Files(body)) \in Nat
           /\ \A k \in 1..Len(body.parts) :
                 FilesUpTo(body, k) = IF IsFilePart(body.parts[k].header)
                                  THEN FilesUpTo(body, k - 1) + 1 ELSE FilesUpTo(body, k - 1)
           /\ FilesUpTo(body, Len(body.parts)) = Cardinality(Files(body))
<1> DEFINE n == Len(body.parts)
           first(k) == {j \in Files(body) : j <= k}
<1>1. n \in Nat /\ DOMAIN body.parts = 1..n
  BY BodiesFit
<1>2. IsFiniteSet(Files(body)) /\ Files(body) \subseteq 1..n
  <2>1. IsFiniteSet(1..n)
    BY <1>1, FS_Interval, 1 \in Int, n \in Int
  <2>2. Files(body) \subseteq 1..n
    BY <1>1 DEF Files
  <2> QED
    BY <2>1, <2>2, FS_Subset
<1> HIDE DEF n
<1>3. ASSUME NEW k PROVE IsFiniteSet(first(k)) /\ Cardinality(first(k)) \in Nat
                         /\ Cardinality(first(k)) <= Cardinality(Files(body))
  <2>1. first(k) \subseteq Files(body)
    OBVIOUS
  <2> QED
    BY <1>2, <2>1, FS_Subset, FS_CardinalityType
<1>4. FilesUpTo(body, 0) = 0 /\ Cardinality(Files(body)) \in Nat
  <2>1. first(0) = {}
    BY <1>1, <1>2
  <2> QED
    BY <1>2, <2>1, FS_EmptySet, FS_CardinalityType DEF FilesUpTo
<1>5. ASSUME NEW k \in 1..n
      PROVE  FilesUpTo(body, k) = IF IsFilePart(body.parts[k].header)
                              THEN FilesUpTo(body, k - 1) + 1 ELSE FilesUpTo(body, k - 1)
  <2>1. k \in Files(body) <=> IsFilePart(body.parts[k].header)
    BY <1>1 DEF Files
  <2>2. \A j \in Files(body) : j <= k <=> j = k \/ j <= k - 1
    BY <1>1, <1>2
  <2>3. CASE k \in Files(body)
    <3>1. first(k) = first(k - 1) \cup {k} /\ k \notin first(k - 1)
      <4>1. ~(k <= k - 1)
        BY <1>1
      <4> QED
        BY <2>2, <2>3, <4>1, Zenon
    <3>2. Cardinality(first(k - 1) \cup {k}) = Cardinality(first(k - 1)) + 1
      <4>1. IsFiniteSet(first(k - 1))
        BY <1>3
      <4> HIDE DEF first
      <4> QED
        BY <3>1, <4>1, FS_AddElement
    <3> QED
      BY <2>1, <2>3, <3>1, <3>2 DEF FilesUpTo
  <2>4. CASE k \notin Files(body)
    <3>1. first(k) = first(k - 1)
      BY <2>2, <2>4
    <3> QED
      BY <2>1, <2>4, <3>1 DEF FilesUpTo
  <2> QED
    BY <2>3, <2>4
<1>6. FilesUpTo(body, n) = Cardinality(Files(body))
  <2>1. first(n) = Files(body)
    BY <1>1, <1>2
  <2> QED
    BY <2>1 DEF FilesUpTo
<1> QED
  BY <1>3, <1>4, <1>5, <1>6 DEF FilesUpTo, n
\* A piece of the bytes at hand is a piece of the body.
LEMMA CutPiece ==
    ASSUME NEW body \in Bodies, NEW buffer, NEW rest, NEW c, NEW w, Cut(body, buffer, rest, c, w),
           NEW m \in Nat, NEW n \in Nat, n <= w - c
    PROVE  Piece(buffer, m, n) = Piece(body.bytes, c + m, c + n)
<1> DEFINE s == body.bytes
<1>1. s \in Bytes /\ Len(s) \in Nat
  BY BodiesFit
<1>2. c \in Nat /\ w \in Nat /\ c <= w /\ w <= Len(s) /\ buffer = SubSeq(s, c + 1, w)
  BY DEF Cut
<1> HIDE DEF s
<1>3. SubSeq(SubSeq(s, c + 1, w), m + 1, n) = SubSeq(s, c + m + 1, c + n)
  BY <1>1, <1>2, PieceOfPiece
<1> QED
  BY <1>2, <1>3 DEF s, Piece

\* The bytes at hand within a part's content are a slice of it.
LEMMA CutSlices ==
    ASSUME NEW body \in Bodies, NEW buffer, NEW rest, NEW c, NEW w, Cut(body, buffer, rest, c, w),
           NEW j \in 1..Len(body.parts), NEW running \in Nat, NEW n \in Nat,
           c = ContentStart(body, j) + running, n <= w - c, c + n <= PartEnd(body, j)
    PROVE  /\ running + n <= Len(body.parts[j].content)
           /\ Piece(buffer, 0, n) = Piece(body.parts[j].content, running, running + n)
<1> DEFINE s == body.bytes
           content == body.parts[j].content
<1>1. s \in Bytes /\ Len(s) \in Nat
  BY BodiesFit
<1>2. PICK b \in Nat, e \in Nat : b = ContentStart(body, j) /\ e = PartEnd(body, j)
  BY PartsFit
<1>3. e = b + Len(content) /\ Len(content) \in Nat /\ content = SubSeq(s, b + 1, e)
      /\ body.ends[j + 1] = e + 5 /\ body.ends[j + 1] <= Len(s)
  BY <1>2, PartsFit
<1>4. c \in Nat /\ w \in Nat /\ c = b + running /\ c + n <= e
  BY <1>2 DEF Cut
<1>5. b <= e /\ e <= Len(s) /\ running + n <= e - b /\ running + n \in Nat
      /\ c + 0 = b + running /\ c + n = b + (running + n)
  <2>1. PICK x : x = body.ends[j + 1]
    OBVIOUS
  <2>2. PICK l \in Nat, u \in Nat : l = Len(content) /\ u = Len(s)
    BY <1>1, <1>3
  <2> HIDE DEF s, content
  <2>3. e = b + l /\ x = e + 5 /\ x <= u /\ c = b + running /\ c + n <= e
    BY <1>3, <1>4, <2>1, <2>2
  <2>4. b <= e /\ e <= u /\ running + n <= e - b /\ running + n \in Nat
        /\ c + 0 = b + running /\ c + n = b + (running + n)
    BY <2>3
  <2> QED
    BY <2>2, <2>4
<1>6. Piece(buffer, 0, n) = Piece(s, c + 0, c + n)
  BY 0 \in Nat, CutPiece
<1> HIDE DEF s, content
<1>7. SubSeq(SubSeq(s, b + 1, e), running + 1, running + n)
         = SubSeq(s, b + running + 1, b + (running + n))
  BY <1>1, <1>5, PieceOfPiece
<1>8. Piece(content, running, running + n) = Piece(s, b + running, b + (running + n))
  BY <1>3, <1>7 DEF Piece
<1>9. running + n <= Len(content)
  BY <1>3, <1>5
<1> QED
  BY <1>5, <1>6, <1>8, <1>9 DEF s, content

\* What is kept of a part that has gone by.
LEMMA WholePartsAreKept ==
    ASSUME NEW of \in [header : Byte, content : Bytes], NEW part \in PartType,
           KeptSoFar(part, of), part.runningBytes = Len(of.content), IsFilePart(of.header)
    PROVE  KeptOf([chunks |-> part.chunks, sizeBytes |-> part.runningBytes], of.content)
<1> DEFINE content == of.content
           kept == part.chunks
           item == [chunks |-> part.chunks, sizeBytes |-> part.runningBytes]
<1>1. content \in Bytes /\ kept \in Bytes /\ Len(content) \in Nat /\ Len(kept) \in Nat
  BY DEF PartType, Bytes
<1>2. /\ Len(kept) <= Len(content) /\ kept = SubSeq(content, 1, Len(kept))
      /\ IF Len(content) <= MaxBytesPerFile
         THEN Len(kept) = Len(content)
         ELSE Len(kept) \in SniffWindow..MaxBytesPerFile
  BY DEF KeptSoFar
<1>3. item.chunks = kept /\ item.sizeBytes = Len(content)
  OBVIOUS
<1> HIDE DEF item, content, kept
<1>4. Len(kept) = Len(content) => kept = content
  <2>1. SubSeq(content, 1, Len(content)) = content
    BY <1>1, SubSeqFull DEF Bytes
  <2> QED
    BY <1>2, <2>1
<1>5. Len(kept) <= MaxBytesPerFile /\ (~(Len(content) <= MaxBytesPerFile) => Len(kept) >= SniffWindow)
  BY <1>1, <1>2, SizesAssumption
<1>6. IsPrefix(kept, content)
  <2>1. SubSeq(kept, 1, Len(kept)) = kept
    BY <1>1, SubSeqFull DEF Bytes
  <2> QED
    BY <1>2, <2>1 DEF IsPrefix
<1>7. KeptOf(item, content)
  BY <1>2, <1>3, <1>4, <1>5, <1>6 DEF KeptOf
<1> QED
  BY <1>7 DEF item, content, kept

\* One more part is done with.
LEMMA ItemizedOn ==
    ASSUME NEW body \in Bodies, NEW items \in Items, NEW k, Itemized(body, items, k),
           NEW j \in 1..Len(body.parts), j = k + 1,
           NEW item \in [chunks : Bytes, sizeBytes : Nat]
    PROVE  /\ ~IsFilePart(body.parts[j].header) => Itemized(body, items, j)
           /\ IsFilePart(body.parts[j].header) /\ KeptOf(item, body.parts[j].content) =>
                 /\ Append(items, item) \in Items
                 /\ Len(Append(items, item)) = Len(items) + 1
                 /\ Itemized(body, Append(items, item), j)
<1>1. k \in 0..Len(body.parts) /\ Len(items) = FilesUpTo(body, k) /\ k = j - 1
      /\ j \in 0..Len(body.parts) /\ Len(body.parts) \in Nat /\ DOMAIN body.parts = 1..Len(body.parts)
  BY BodiesFit DEF Itemized
<1>2. FilesUpTo(body, j) = IF IsFilePart(body.parts[j].header) THEN FilesUpTo(body, k) + 1 ELSE FilesUpTo(body, k)
  BY <1>1, FilesCounted
<1>3. Len(items) \in Nat /\ DOMAIN items = 1..Len(items)
  BY DEF Items
<1>4. \A i \in DOMAIN items : \E f \in Files(body) :
          f <= j /\ FilesUpTo(body, f) = i /\ KeptOf(items[i], body.parts[f].content)
  <2>1. \A f \in Files(body) : f <= k => f <= j
    <3>1. Files(body) \subseteq 1..Len(body.parts)
      BY <1>1 DEF Files
    <3> QED
      BY <1>1, <3>1
  <2> QED
    BY <2>1 DEF Itemized
<1>5. ASSUME ~IsFilePart(body.parts[j].header) PROVE Itemized(body, items, j)
  BY <1>1, <1>2, <1>4, <1>5 DEF Itemized
<1>6. ASSUME IsFilePart(body.parts[j].header), KeptOf(item, body.parts[j].content)
      PROVE  /\ Append(items, item) \in Items
             /\ Len(Append(items, item)) = Len(items) + 1
             /\ Itemized(body, Append(items, item), j)
  <2> DEFINE new == Append(items, item)
  <2>1. /\ new \in Items /\ Len(new) = Len(items) + 1
        /\ \A i \in 1..Len(items) : new[i] = items[i]
        /\ new[Len(items) + 1] = item
    BY AppendProperties DEF Items
  <2> HIDE DEF new
  <2>2. DOMAIN new = 1..Len(items) + 1
    BY <2>1 DEF Items
  <2>3. j \in Files(body) /\ FilesUpTo(body, j) = Len(items) + 1 /\ j <= j
    BY <1>1, <1>2, <1>6 DEF Files
  <2>4. ASSUME NEW i \in DOMAIN new
        PROVE  \E f \in Files(body) :
                  f <= j /\ FilesUpTo(body, f) = i /\ KeptOf(new[i], body.parts[f].content)
    <3>1. CASE i \in 1..Len(items)
      <4>1. new[i] = items[i] /\ i \in DOMAIN items
        BY <1>3, <2>1, <3>1
      <4> QED
        BY <1>4, <4>1
    <3>2. CASE i = Len(items) + 1
      <4>1. KeptOf(new[i], body.parts[j].content)
        BY <1>6, <2>1, <3>2
      <4> QED
        BY <2>3, <3>2, <4>1
    <3> QED
      BY <1>3, <2>2, <3>1, <3>2
  <2>5. Itemized(body, new, j)
    BY <1>1, <2>1, <2>3, <2>4 DEF Itemized
  <2> QED
    BY <2>1, <2>5 DEF new
<1> QED
  BY <1>5, <1>6
-----------------------------------------------------------------------------
Reading == {"preamble", "delimiter", "headers", "body"}

ReaderType ==
    [pc : Reading \cup {"done", "failed", "invalid"}, buffer : Bytes, searchStart : Nat,
     part : PartType, items : Items, sawFilesField : BOOLEAN]

\* Where the reader is in the body, k parts being done with and the bytes before c.
Place(body, r, c, k) ==
    /\ Itemized(body, r.items, k) /\ Len(r.items) <= MaxBatch
    /\ r.pc = "preamble" => k = 0 /\ c = 0 /\ r.searchStart <= body.ends[1] - 3
    /\ r.pc = "delimiter" => c = body.ends[k + 1]
    /\ r.pc = "headers" =>
          /\ k + 1 <= Len(body.parts) /\ c = PartStart(body, k + 1)
          /\ c + r.searchStart <= ContentStart(body, k + 1) - 4
    /\ r.pc = "body" =>
          /\ k + 1 <= Len(body.parts)
          /\ c = ContentStart(body, k + 1) + r.part.runningBytes
          /\ c <= PartEnd(body, k + 1)
          /\ KeptSoFar(r.part, body.parts[k + 1])

\* The reader has not lost its place.
Oriented(body, r, rest) ==
    /\ body \in Bodies /\ r \in ReaderType
    /\ \E k : Itemized(body, r.items, k)
    /\ r.pc \in Reading =>
          \E k, c, w : Cut(body, r.buffer, rest, c, w) /\ Place(body, r, c, k)
    /\ r.pc = "done" => Len(r.items) = Min({Cardinality(Files(body)), MaxBatch + 1})

ReaderInv == Oriented(sent, reader, wire)

\* The reader begins with no part, and with its place before the first delimiter.
LEMMA NoPartFits == NoPart \in PartType
<1>1. NoPart = [header |-> NoPart.header, chunks |-> <<>>, runningBytes |-> 0]
  BY DEF NoPart
<1>2. <<>> \in Bytes
  BY DEF Bytes
<1> QED
  BY <1>1, <1>2 DEF PartType, Letter

LEMMA ReaderBegins == ReaderInit => ReaderInv
<1> SUFFICES ASSUME ReaderInit PROVE ReaderInv
  OBVIOUS
<1> DEFINE s == sent.bytes
<1>1. sent \in Bodies /\ wire = s
      /\ reader = [pc |-> "preamble", buffer |-> <<>>, searchStart |-> 0, part |-> NoPart,
                   items |-> <<>>, sawFilesField |-> FALSE]
  BY DEF ReaderInit
<1>2. s \in Bytes /\ Len(s) \in Nat /\ Len(sent.parts) \in Nat /\ sent.ends[1] - 3 \in Nat
  BY <1>1, BodiesFit
<1>3. <<>> \in Bytes /\ <<>> \in Items /\ Len(<<>>) = 0
  BY DEF Bytes, Items
<1>4. reader \in ReaderType
  <2>1. NoPart \in PartType
    BY NoPartFits
  <2> QED
    BY <1>1, <1>3, <2>1 DEF ReaderType, Reading
<1>5. Itemized(sent, <<>>, 0)
  BY <1>1, <1>2, <1>3, FilesCounted DEF Itemized
<1>6. Cut(sent, <<>>, wire, 0, 0)
  <2>1. SubSeq(s, 0 + 1, 0) = <<>>
    BY SubSeqEmpty, 0 < 0 + 1, 0 + 1 \in Int, 0 \in Int
  <2>2. SubSeq(s, 0 + 1, Len(s)) = s
    BY <1>2, SubSeqFull, 0 + 1 = 1 DEF Bytes
  <2> QED
    BY <1>1, <1>2, <2>1, <2>2 DEF Cut
<1>7. Place(sent, reader, 0, 0)
  BY <1>1, <1>2, <1>3, <1>5, SizesAssumption DEF Place
<1> QED
  BY <1>1, <1>4, <1>5, <1>6, <1>7 DEF ReaderInv, Oriented

\* A reader that goes on reading in its place is oriented.
LEMMA InPlace ==
    ASSUME NEW body \in Bodies, NEW r \in ReaderType, r.pc \in Reading, NEW rest,
           NEW k, NEW c, NEW w, Cut(body, r.buffer, rest, c, w), Place(body, r, c, k)
    PROVE  Oriented(body, r, rest)
<1>1. Itemized(body, r.items, k) /\ r.pc # "done"
  BY DEF Place, Reading
<1> QED
  BY <1>1 DEF Oriented

\* The fields of a reader.
LEMMA ReaderFields ==
    ASSUME NEW r \in ReaderType
    PROVE  /\ r.buffer \in Bytes /\ r.searchStart \in Nat /\ r.part \in PartType
           /\ r.items \in Items /\ r.sawFilesField \in BOOLEAN
           /\ Len(r.items) \in Nat /\ DOMAIN r.items = 1..Len(r.items)
           /\ \A b \in Bytes, s \in Nat, p \in Reading \cup {"done", "failed", "invalid"} :
                 [r EXCEPT !.buffer = b, !.searchStart = s, !.pc = p] \in ReaderType
<1>1. /\ r.buffer \in Bytes /\ r.searchStart \in Nat /\ r.part \in PartType
      /\ r.items \in Items /\ r.sawFilesField \in BOOLEAN
  BY DEF ReaderType
<1>2. Len(r.items) \in Nat /\ DOMAIN r.items = 1..Len(r.items)
  BY <1>1 DEF Items
<1>3. ASSUME NEW b \in Bytes, NEW s \in Nat, NEW p \in Reading \cup {"done", "failed", "invalid"}
      PROVE  [r EXCEPT !.buffer = b, !.searchStart = s, !.pc = p] \in ReaderType
  <2>1. [r EXCEPT !.buffer = b, !.searchStart = s, !.pc = p]
          = [pc |-> p, buffer |-> b, searchStart |-> s, part |-> r.part, items |-> r.items,
             sawFilesField |-> r.sawFilesField]
    <3> DEFINE e == [r EXCEPT !.buffer = b, !.searchStart = s, !.pc = p]
    <3>1. r = [pc |-> r.pc, buffer |-> r.buffer, searchStart |-> r.searchStart, part |-> r.part,
               items |-> r.items, sawFilesField |-> r.sawFilesField]
      BY DEF ReaderType
    <3>2. e = [x \in DOMAIN r |-> e[x]]
      OBVIOUS
    <3>3. DOMAIN r = {"pc", "buffer", "searchStart", "part", "items", "sawFilesField"}
      BY <3>1
    <3>4. e.pc = p /\ e.buffer = b /\ e.searchStart = s /\ e.part = r.part
          /\ e.items = r.items /\ e.sawFilesField = r.sawFilesField
      BY <3>3
    <3> HIDE DEF e
    <3>5. e = [pc |-> p, buffer |-> b, searchStart |-> s, part |-> r.part, items |-> r.items,
               sawFilesField |-> r.sawFilesField]
      BY <3>2, <3>3, <3>4
    <3> QED
      BY <3>5 DEF e
  <2> QED
    BY <1>1, <1>3, <2>1 DEF ReaderType
<1> QED
  BY <1>1, <1>2, <1>3

\* A body that is cut short leaves the items as they are.
LEMMA FailingKeeps ==
    ASSUME ReaderInv, Fails, sent' = sent
    PROVE  ReaderInv'
<1>1. sent \in Bodies /\ reader \in ReaderType
  BY DEF ReaderInv, Oriented
<1>2. reader' = [reader EXCEPT !.pc = "failed"]
  BY DEF Fails
<1>3. reader' \in ReaderType /\ reader'.items = reader.items /\ reader'.pc = "failed"
  BY <1>1, <1>2 DEF ReaderType
<1>4. \E k : Itemized(sent, reader'.items, k)
  BY <1>3 DEF ReaderInv, Oriented
<1>5. Oriented(sent, reader', wire')
  BY <1>1, <1>3, <1>4 DEF Oriented, Reading
<1> QED
  BY <1>5 DEF ReaderInv

\* Another chunk, and a search that will start where nothing is missed.
LEMMA PullingKeeps ==
    ASSUME ReaderInv, NEW start \in Nat, PullMore(start), sent' = sent, reader.pc \in Reading,
           NEW k, NEW c, NEW w, Cut(sent, reader.buffer, wire, c, w),
           Place(sent, [reader EXCEPT !.searchStart = start], c, k)
    PROVE  ReaderInv'
<1>1. sent \in Bodies /\ reader \in ReaderType
  BY DEF ReaderInv, Oriented
<1>2. CASE Fails
  BY <1>2, FailingKeeps
<1>3. ASSUME NEW n \in 1..Len(wire),
             reader' = [reader EXCEPT !.buffer = @ \o SubSeq(wire, 1, n), !.searchStart = start],
             wire' = Drop(wire, n)
      PROVE  ReaderInv'
  <2> DEFINE b == reader.buffer \o SubSeq(wire, 1, n)
  <2>1. Cut(sent, b, wire', c, w + n)
    BY <1>1, <1>3, ChunkArrives
  <2>2. b \in Bytes
    BY <1>1, <2>1, CutInNumbers
  <2>3. reader.pc \in Reading \cup {"done", "failed", "invalid"}
    BY DEF Reading
  <2> HIDE DEF b
  <2>4. reader' = [reader EXCEPT !.buffer = b, !.searchStart = start, !.pc = reader.pc]
    BY <1>1, <1>3 DEF ReaderType, b
  <2>5. reader' \in ReaderType
    BY <1>1, <2>2, <2>3, <2>4, ReaderFields
  <2>6. reader'.buffer = b /\ reader'.pc = reader.pc /\ reader'.items = reader.items
        /\ reader'.part = reader.part /\ reader'.searchStart = start
    BY <1>1, <2>4 DEF ReaderType
  <2>7. Place(sent, reader', c, k)
    <3> DEFINE r == [reader EXCEPT !.searchStart = start]
    <3>1. r.pc = reader.pc /\ r.items = reader.items /\ r.part = reader.part /\ r.searchStart = start
      BY <1>1 DEF ReaderType
    <3>2. Place(sent, r, c, k)
      OBVIOUS
    <3> HIDE DEF r
    <3> QED
      BY <2>6, <3>1, <3>2 DEF Place
  <2>8. Oriented(sent, reader', wire')
    BY <1>1, <2>1, <2>5, <2>6, <2>7, InPlace
  <2> QED
    BY <2>8 DEF ReaderInv
<1> QED
  BY <1>2, <1>3 DEF PullMore

\* Where reading is, for each of the actions to start from.
LEMMA Bearings ==
    ASSUME ReaderInv, reader.pc \in Reading
    PROVE  /\ sent \in Bodies /\ reader \in ReaderType
           /\ \E k, c, w : Cut(sent, reader.buffer, wire, c, w) /\ Place(sent, reader, c, k)
BY DEF ReaderInv, Oriented

\* A search that starts where the next one may be.
LEMMA RescanMissesNothing ==
    ASSUME NEW pattern \in Bytes, reader.buffer \in Bytes
    PROVE  /\ Rescan(pattern) \in Nat
           /\ \A c, i \in Nat : c <= i /\ c + Len(reader.buffer) < i + Len(pattern)
                  => c + Rescan(pattern) <= i
<1>1. Len(pattern) \in Nat /\ Len(reader.buffer) \in Nat
  BY DEF Bytes
<1> QED
  BY <1>1 DEF Rescan

\* Searching on from where a delimiter might have begun misses none, and what is
\* found first is the first delimiter.
LEMMA FindFirstBoundaryKeeps == ReaderInv /\ FindFirstBoundary => ReaderInv'
<1> SUFFICES ASSUME ReaderInv, FindFirstBoundary PROVE ReaderInv'
  OBVIOUS
<1>1. reader.pc = "preamble" /\ reader.pc \in Reading /\ sent' = sent
  BY DEF FindFirstBoundary, ReaderAt, Reading
<1>2. PICK k, c, w : Cut(sent, reader.buffer, wire, c, w) /\ Place(sent, reader, c, k)
  BY <1>1, Bearings
<1>3. sent \in Bodies /\ reader \in ReaderType
  BY <1>1, Bearings
<1>4. k = 0 /\ c = 0 /\ reader.searchStart <= sent.ends[1] - 3 /\ Itemized(sent, reader.items, 0)
      /\ Len(reader.items) <= MaxBatch
  BY <1>1, <1>2 DEF Place
<1>5. w \in Nat /\ w <= Len(sent.bytes) /\ Cut(sent, reader.buffer, wire, 0, w)
      /\ Len(reader.buffer) = w /\ reader.buffer \in Bytes
  <2>1. Len(reader.buffer) = w - 0 /\ w \in Nat /\ w <= Len(sent.bytes) /\ reader.buffer \in Bytes
    BY <1>2, <1>3, <1>4, CutInNumbers
  <2> QED
    BY <1>2, <1>4, <2>1
<1> DEFINE idx == IndexOfSubarray(reader.buffer, BoundaryBytes, reader.searchStart)
<1>6. /\ sent.ends[1] \in Nat /\ sent.ends[1] - 3 \in Nat /\ sent.bytes \in Bytes
      /\ FirstAt(BoundaryBytes, sent.bytes, 0, sent.ends[1] - 3)
      /\ reader.searchStart \in Nat
  BY <1>3, BodiesFit, ReaderFields
<1>7. idx = IF sent.ends[1] <= w THEN sent.ends[1] - 3 ELSE -1
  <2>1. 0 <= w /\ 0 <= 0 + reader.searchStart /\ 0 + reader.searchStart <= sent.ends[1] - 3
    BY <1>4, <1>5, <1>6
  <2>2. PICK i \in Nat : i = sent.ends[1] - 3
    BY <1>6
  <2>3. BoundaryBytes \in Bytes
    BY Patterns
  <2>4. FirstAt(BoundaryBytes, sent.bytes, 0, i) /\ 0 + reader.searchStart <= i
    BY <1>6, <2>1, <2>2
  <2>5. /\ i + Len(BoundaryBytes) <= w => idx = i - 0
        /\ ~(i + Len(BoundaryBytes) <= w) => idx = -1
    BY <1>3, <1>5, <1>6, <2>1, 0 \in Nat, <2>3, <2>4, CutFinds
  <2> HIDE DEF idx
  <2>6. i + 3 = sent.ends[1] /\ i - 0 = sent.ends[1] - 3
    BY <1>6, <2>2
  <2> QED
    BY <1>5, <2>5, <2>6, Patterns
<1> HIDE DEF idx
<1>8. CASE idx # -1
  <2>1. idx = sent.ends[1] - 3 /\ sent.ends[1] <= w
    BY <1>7, <1>8
  <2>2. idx + Len(BoundaryBytes) = sent.ends[1]
    BY <1>6, <2>1, Patterns
  <2>3. reader' = [reader EXCEPT !.pc = "delimiter", !.buffer = Drop(@, sent.ends[1])] /\ wire' = wire
    BY <1>8, <2>2 DEF FindFirstBoundary, idx
  <2> DEFINE b == Drop(reader.buffer, sent.ends[1])
  <2>4. Cut(sent, b, wire, sent.ends[1], w)
    <3>1. Cut(sent, reader.buffer, wire, 0, w) /\ 0 + sent.ends[1] <= w /\ 0 + sent.ends[1] = sent.ends[1]
      BY <1>2, <1>4, <1>6, <2>1
    <3> QED
      BY <1>3, <1>6, <3>1, BytesAreDone
  <2>5. b \in Bytes
    BY <1>3, <2>4, CutInNumbers
  <2> HIDE DEF b
  <2>6. reader' = [reader EXCEPT !.buffer = b, !.searchStart = reader.searchStart, !.pc = "delimiter"]
    BY <1>3, <2>3 DEF ReaderType, b
  <2>7. reader' \in ReaderType /\ reader'.buffer = b /\ reader'.pc = "delimiter"
        /\ reader'.items = reader.items
    <3>1. "delimiter" \in Reading \cup {"done", "failed", "invalid"}
      BY DEF Reading
    <3>2. reader' \in ReaderType
      BY <1>3, <1>6, <2>5, <2>6, <3>1, ReaderFields
    <3> QED
      BY <1>3, <2>6, <3>2 DEF ReaderType
  <2>8. Place(sent, reader', sent.ends[1], 0)
    BY <1>4, <2>7, 0 + 1 = 1 DEF Place
  <2>9. Oriented(sent, reader', wire)
    BY <1>3, <2>4, <2>7, <2>8, InPlace DEF Reading
  <2> QED
    BY <1>1, <2>3, <2>9 DEF ReaderInv
<1>9. CASE idx = -1
  <2>1. ~(sent.ends[1] <= w)
    BY <1>6, <1>7, <1>9
  <2>2. CASE Fails
    BY <1>1, <2>2, FailingKeeps
  <2>3. CASE PullMore(Rescan(BoundaryBytes))
    <3> DEFINE start == Rescan(BoundaryBytes)
    <3>1. start \in Nat /\ 0 + start <= sent.ends[1] - 3
      <4>1. 0 <= sent.ends[1] - 3 /\ 0 + Len(reader.buffer) < sent.ends[1] - 3 + Len(BoundaryBytes)
        BY <1>5, <1>6, <2>1, Patterns
      <4> QED
        BY <1>5, <1>6, <4>1, Patterns, RescanMissesNothing
    <3> HIDE DEF start
    <3> DEFINE r == [reader EXCEPT !.searchStart = start]
    <3>2. r.pc = "preamble" /\ r.items = reader.items /\ r.searchStart = start
      BY <1>1, <1>3 DEF ReaderType
    <3> HIDE DEF r
    <3>3. Place(sent, r, c, k)
      BY <1>4, <3>1, <3>2 DEF Place
    <3> QED
      BY <1>1, <1>2, <2>3, <3>1, <3>3, PullingKeeps DEF start, r
  <2> QED
    BY <1>9, <2>2, <2>3 DEF FindFirstBoundary, idx
<1> QED
  BY <1>8, <1>9

\* After a delimiter two more bytes are to come, and tell what follows.
LEMMA DelimiterTells ==
    ASSUME NEW body \in Bodies, NEW k \in 0..Len(body.parts)
    PROVE  /\ body.ends[k + 1] \in Nat /\ body.ends[k + 1] + 2 <= Len(body.bytes)
           /\ SubSeq(body.bytes, body.ends[k + 1] + 1, body.ends[k + 1] + 2)
                = IF k = Len(body.parts) THEN Dashes ELSE CRLF
<1>1. Len(body.parts) \in Nat
  BY BodiesFit
<1>2. CASE k = Len(body.parts)
  BY <1>2, BodiesFit, Patterns DEF Occurs
<1>3. CASE k # Len(body.parts)
  <2>1. k + 1 \in 1..Len(body.parts)
    BY <1>1, <1>3
  <2>2. PICK j : j = k + 1
    OBVIOUS
  <2>3. /\ body.ends[j] \in Nat /\ PartStart(body, j) = body.ends[j] + 2
        /\ PartStart(body, j) + 4 <= ContentStart(body, j) /\ ContentStart(body, j) \in Nat
        /\ PartEnd(body, j) = ContentStart(body, j) + Len(body.parts[j].content)
        /\ Len(body.parts[j].content) \in Nat
        /\ body.ends[j + 1] = PartEnd(body, j) + 5 /\ body.ends[j + 1] <= Len(body.bytes)
        /\ Occurs(CRLF, body.bytes, body.ends[j])
    BY <2>1, <2>2, PartsFit
  <2>4. SubSeq(body.bytes, body.ends[j] + 1, body.ends[j] + 2) = CRLF
    BY <2>3, Patterns DEF Occurs
  <2>5. body.ends[j] + 2 <= Len(body.bytes)
    <3>1. \A e, t, l, b \in Nat : \A s, u, f :
             s = e + 2 /\ s + 4 <= t /\ u = t + l /\ f = u + 5 /\ f <= b => e + 2 <= b
      OBVIOUS
    <3>2. Len(body.bytes) \in Nat
      BY BodiesFit
    <3> QED
      BY <2>3, <3>1, <3>2, Zenon
  <2> QED
    BY <1>3, <2>2, <2>3, <2>4, <2>5
<1> QED
  BY <1>2, <1>3

\* After a delimiter comes a part, or the end, as the body has it.
LEMMA AfterDelimiterKeeps == ReaderInv /\ AfterDelimiter => ReaderInv'
<1> SUFFICES ASSUME ReaderInv, AfterDelimiter PROVE ReaderInv'
  OBVIOUS
<1>1. reader.pc = "delimiter" /\ reader.pc \in Reading /\ sent' = sent
  BY DEF AfterDelimiter, ReaderAt, Reading
<1>2. PICK k, c, w : Cut(sent, reader.buffer, wire, c, w) /\ Place(sent, reader, c, k)
  BY <1>1, Bearings
<1>3. sent \in Bodies /\ reader \in ReaderType
  BY <1>1, Bearings
<1>4. c = sent.ends[k + 1] /\ Itemized(sent, reader.items, k) /\ Len(reader.items) <= MaxBatch
      /\ k \in 0..Len(sent.parts)
  BY <1>1, <1>2 DEF Place, Itemized
<1>5. /\ c \in Nat /\ c + 2 <= Len(sent.bytes)
      /\ SubSeq(sent.bytes, c + 1, c + 2) = IF k = Len(sent.parts) THEN Dashes ELSE CRLF
  BY <1>3, <1>4, DelimiterTells
<1>6. /\ w \in Nat /\ c <= w /\ w <= Len(sent.bytes) /\ Len(reader.buffer) = w - c
      /\ (wire = <<>> => w = Len(sent.bytes)) /\ reader.buffer \in Bytes
      /\ Cut(sent, reader.buffer, wire, c, w)
  <2>1. Cut(sent, reader.buffer, wire, c, w)
    BY <1>2
  <2>2. /\ w \in Nat /\ c <= w /\ w <= Len(sent.bytes) /\ Len(reader.buffer) = w - c
        /\ (wire = <<>> => w = Len(sent.bytes)) /\ reader.buffer \in Bytes
    BY <1>3, <2>1, CutInNumbers
  <2> QED
    BY <2>1, <2>2
<1>7. CASE Len(reader.buffer) < 2 /\ wire # <<>>
  <2>1. PullMore(0)
    BY <1>7 DEF AfterDelimiter
  <2> DEFINE r == [reader EXCEPT !.searchStart = 0]
  <2>2. r.pc = "delimiter" /\ r.items = reader.items
    BY <1>1, <1>3 DEF ReaderType
  <2> HIDE DEF r
  <2>3. Place(sent, r, c, k)
    BY <1>4, <2>2 DEF Place
  <2> QED
    BY <1>1, <1>2, <2>1, <2>3, PullingKeeps, 0 \in Nat DEF r
<1>8. CASE ~(Len(reader.buffer) < 2 /\ wire # <<>>)
  <2>1. c + 2 <= w
    BY <1>5, <1>6, <1>8
  <2>2. SubSeq(reader.buffer, 1, 2) = IF k = Len(sent.parts) THEN Dashes ELSE CRLF
    <3>1. PICK p \in Bytes : p = (IF k = Len(sent.parts) THEN Dashes ELSE CRLF) /\ Len(p) = 2
      BY Patterns
    <3>2. 0 + Len(p) <= w - c
      <4>1. 0 + 2 <= w - c
        BY <1>5, <1>6, <2>1
      <4> QED
        BY <3>1, <4>1
    <3>3. Occurs(p, reader.buffer, 0) <=> Occurs(p, sent.bytes, c + 0)
      BY <1>3, <1>6, <3>2, 0 \in Nat, CutOccurs
    <3>4. Occurs(p, sent.bytes, c)
      BY <1>5, <3>1 DEF Occurs
    <3>5. Occurs(p, reader.buffer, 0)
      BY <1>5, <3>3, <3>4, c + 0 = c
    <3> QED
      BY <3>1, <3>5, 0 + 1 = 1, 0 + 2 = 2 DEF Occurs
  <2>3. wire' = wire /\ reader' =
                 IF SubSeq(reader.buffer, 1, 2) = Dashes
                 THEN [reader EXCEPT !.pc = IF reader.items = <<>> /\ reader.sawFilesField
                                            THEN "invalid" ELSE "done"]
                 ELSE [reader EXCEPT !.pc = "headers", !.searchStart = 0,
                          !.buffer = IF SubSeq(@, 1, 2) = CRLF THEN Drop(@, 2) ELSE @]
    BY <1>8 DEF AfterDelimiter
  <2>4. CASE k = Len(sent.parts)
    <3>1. PICK p \in {"invalid", "done"} : reader' = [reader EXCEPT !.pc = p]
      BY <2>2, <2>3, <2>4
    <3>2. reader' \in ReaderType /\ reader'.pc = p /\ reader'.items = reader.items
      BY <1>3, <3>1 DEF ReaderType
    <3>3. Len(reader.items) = Cardinality(Files(sent)) /\ Cardinality(Files(sent)) \in Nat
      BY <1>3, <1>4, <2>4, FilesCounted DEF Itemized
    <3>4. Min({Cardinality(Files(sent)), MaxBatch + 1}) = Cardinality(Files(sent))
      <4>1. MaxBatch \in Nat /\ MaxBatch + 1 \in Int /\ Cardinality(Files(sent)) <= MaxBatch + 1
        BY <1>4, <3>3, SizesAssumption
      <4> QED
        BY <3>3, <4>1, OfTwo
    <3>5. Oriented(sent, reader', wire)
      BY <1>3, <1>4, <3>2, <3>3, <3>4 DEF Oriented, Reading
    <3> QED
      BY <1>1, <2>3, <3>5 DEF ReaderInv
  <2>5. CASE k # Len(sent.parts)
    <3> DEFINE b == Drop(reader.buffer, 2)
    <3>1. reader' = [reader EXCEPT !.pc = "headers", !.searchStart = 0, !.buffer = b] /\ wire' = wire
      BY <2>2, <2>3, <2>5, Patterns
    <3>2. Cut(sent, b, wire, c + 2, w)
      BY <1>2, <1>3, <2>1, 2 \in Nat, BytesAreDone
    <3>3. b \in Bytes
      BY <1>3, <3>2, CutInNumbers
    <3> HIDE DEF b
    <3>4. reader' = [reader EXCEPT !.buffer = b, !.searchStart = 0, !.pc = "headers"]
      BY <1>3, <3>1 DEF ReaderType
    <3>5. reader' \in ReaderType
      BY <1>3, <3>3, <3>4, 0 \in Nat, ReaderFields DEF Reading
    <3>6. reader'.buffer = b /\ reader'.pc = "headers" /\ reader'.searchStart = 0
          /\ reader'.items = reader.items
      BY <1>3, <3>4 DEF ReaderType
    <3>7. k + 1 \in 1..Len(sent.parts) /\ k + 1 <= Len(sent.parts)
      BY <1>3, <1>4, <2>5, BodiesFit
    <3>8. PICK j : j = k + 1 /\ j \in 1..Len(sent.parts)
      BY <3>7
    <3>9. PartStart(sent, j) = sent.ends[j] + 2 /\ PartStart(sent, j) + 4 <= ContentStart(sent, j)
          /\ sent.ends[j] \in Nat /\ ContentStart(sent, j) \in Nat
      BY <1>3, <3>8, PartsFit
    <3>10. c + 2 = PartStart(sent, k + 1) /\ c + 2 + 0 <= ContentStart(sent, k + 1) - 4
      <4>1. c = sent.ends[j] /\ c + 2 = PartStart(sent, j)
        BY <1>4, <3>8, <3>9
      <4>2. c + 2 + 0 <= ContentStart(sent, j) - 4
        BY <3>9, <4>1
      <4> QED
        BY <3>8, <4>1, <4>2
    <3>11. Place(sent, reader', c + 2, k)
      BY <1>4, <3>6, <3>7, <3>10 DEF Place
    <3>12. Oriented(sent, reader', wire)
      BY <1>3, <3>2, <3>5, <3>6, <3>11, InPlace DEF Reading
    <3> QED
      BY <1>1, <3>1, <3>12 DEF ReaderInv
  <2> QED
    BY <2>4, <2>5
<1> QED
  BY <1>7, <1>8

\* The end of the headers is the first there is, where the content begins.
LEMMA ReadHeadersKeeps == ReaderInv /\ ReadHeaders => ReaderInv'
<1> SUFFICES ASSUME ReaderInv, ReadHeaders PROVE ReaderInv'
  OBVIOUS
<1>1. reader.pc = "headers" /\ reader.pc \in Reading /\ sent' = sent
  BY DEF ReadHeaders, ReaderAt, Reading
<1>2. PICK k, c, w : Cut(sent, reader.buffer, wire, c, w) /\ Place(sent, reader, c, k)
  BY <1>1, Bearings
<1>3. sent \in Bodies /\ reader \in ReaderType
  BY <1>1, Bearings
<1>4. Itemized(sent, reader.items, k) /\ Len(reader.items) <= MaxBatch
      /\ k \in 0..Len(sent.parts)
      /\ k + 1 <= Len(sent.parts) /\ c = PartStart(sent, k + 1)
      /\ c + reader.searchStart <= ContentStart(sent, k + 1) - 4
  BY <1>1, <1>2 DEF Place, Itemized
<1>5. PICK j : j = k + 1 /\ j \in 1..Len(sent.parts)
  BY <1>3, <1>4, BodiesFit
<1> DEFINE h == ContentStart(sent, j) - 4
           content == sent.parts[j].content
<1>6. /\ sent.ends[j] \in Nat /\ PartStart(sent, j) = sent.ends[j] + 2
      /\ PartStart(sent, j) + 4 <= ContentStart(sent, j)
      /\ ContentStart(sent, j) \in Nat /\ PartEnd(sent, j) \in Nat
      /\ PartEnd(sent, j) = ContentStart(sent, j) + Len(content) /\ Len(content) \in Nat
      /\ FirstAt(HeaderEnd, sent.bytes, PartStart(sent, j), h)
      /\ sent.bytes[PartStart(sent, j) + 1] = sent.parts[j].header
      /\ sent.parts[j].header \in Byte
  BY <1>3, <1>5, PartsFit
<1>7. /\ w \in Nat /\ c <= w /\ w <= Len(sent.bytes) /\ Len(reader.buffer) = w - c
      /\ reader.buffer \in Bytes /\ Cut(sent, reader.buffer, wire, c, w)
  <2>1. Cut(sent, reader.buffer, wire, c, w)
    BY <1>2
  <2>2. /\ w \in Nat /\ c <= w /\ w <= Len(sent.bytes) /\ Len(reader.buffer) = w - c
        /\ reader.buffer \in Bytes
    BY <1>3, <2>1, CutInNumbers
  <2> QED
    BY <2>1, <2>2
<1>8. c \in Nat /\ h \in Nat /\ c = PartStart(sent, j) /\ c + reader.searchStart <= h /\ c <= h
      /\ h + 4 = ContentStart(sent, j) /\ reader.searchStart \in Nat
  <2>1. c = PartStart(sent, j) /\ c + reader.searchStart <= h /\ reader.searchStart \in Nat
    BY <1>3, <1>4, <1>5, ReaderFields
  <2>2. \A e, t, s \in Nat : \A p : p = e + 2 /\ p + 4 <= t =>
            p \in Nat /\ t - 4 \in Nat /\ p <= t - 4 /\ t - 4 + 4 = t
    OBVIOUS
  <2> QED
    BY <1>6, <2>1, <2>2, Zenon
<1> DEFINE idx == IndexOfSubarray(reader.buffer, HeaderEnd, reader.searchStart)
<1> HIDE DEF h, content
<1>9. idx = IF h + 4 <= w THEN h - c ELSE -1
  <2>1. sent.bytes \in Bytes /\ HeaderEnd \in Bytes /\ Len(HeaderEnd) = 4
    BY <1>3, BodiesFit, Patterns
  <2>2. PICK i \in Nat, from \in Nat : i = h /\ from = c
    BY <1>8
  <2>3. FirstAt(HeaderEnd, sent.bytes, from, i)
    BY <1>6, <1>8, <2>2
  <2>4. from <= c + reader.searchStart /\ c + reader.searchStart <= i
    BY <1>8, <2>2
  <2>5. /\ i + Len(HeaderEnd) <= w => idx = i - c
        /\ ~(i + Len(HeaderEnd) <= w) => idx = -1
    <3>1. Cut(sent, reader.buffer, wire, c, w) /\ reader.searchStart \in Nat /\ HeaderEnd \in Bytes
      BY <1>7, <1>8, <2>1
    <3> QED
      BY <1>3, <2>3, <2>4, <3>1, CutFinds
  <2> HIDE DEF idx
  <2> QED
    BY <2>1, <2>2, <2>5
<1> HIDE DEF idx
<1>10. CASE idx # -1
  <2>1. idx = h - c /\ h + 4 <= w
    BY <1>9, <1>10
  <2>2. idx + Len(HeaderEnd) = h + 4 - c /\ h + 4 - c \in Nat /\ c + (h + 4 - c) = h + 4
    BY <1>8, <2>1, Patterns
  <2> DEFINE header == reader.buffer[1]
             new == [NoPart EXCEPT !.header = header]
             b == Drop(reader.buffer, h + 4 - c)
             saw == reader.sawFilesField \/ IsTargetField(header)
  <2>3. reader' = [reader EXCEPT !.pc = "body", !.buffer = b, !.part = new, !.sawFilesField = saw]
        /\ wire' = wire
    BY <1>10, <2>2 DEF ReadHeaders, idx
  <2>4. header = sent.parts[j].header
    <3>1. 1 \in 1..w - c
      BY <1>7, <1>8, <2>1
    <3> QED
      <4>1. ByteOf(reader.buffer, 1) = ByteOf(sent.bytes, c + 1)
        BY <1>3, <1>7, <3>1, CutBytes
      <4> QED
        BY <1>6, <1>8, <4>1 DEF ByteOf
  <2>5. new = [header |-> header, chunks |-> <<>>, runningBytes |-> 0] /\ new \in PartType
    <3>1. new = [header |-> header, chunks |-> <<>>, runningBytes |-> 0]
      <4>1. NoPart = [header |-> NoPart.header, chunks |-> <<>>, runningBytes |-> 0]
        BY DEF NoPart
      <4>2. PICK none : NoPart = none /\ none = [header |-> NoPart.header, chunks |-> <<>>, runningBytes |-> 0]
        BY <4>1
      <4> QED
        BY <4>2
    <3>2. header \in Letter /\ <<>> \in Bytes
      BY <1>6, <2>4 DEF Letter, Bytes
    <3> HIDE DEF header, new
    <3> QED
      BY <3>1, <3>2 DEF PartType
  <2>6. Cut(sent, b, wire, h + 4, w) /\ b \in Bytes
    <3>1. Cut(sent, b, wire, c + (h + 4 - c), w)
      BY <1>2, <1>3, <2>1, <2>2, BytesAreDone
    <3> HIDE DEF b
    <3> QED
      BY <1>3, <2>2, <3>1, CutInNumbers
  <2>7. saw \in BOOLEAN
    BY DEF IsTargetField
  <2> HIDE DEF header, new, b, saw
  <2>8. /\ reader'.pc = "body" /\ reader'.buffer = b /\ reader'.part = new
        /\ reader'.items = reader.items /\ reader'.searchStart = reader.searchStart
        /\ reader'.sawFilesField = saw
        /\ reader' = [x \in DOMAIN reader |-> reader'[x]]
    BY <1>3, <2>3 DEF ReaderType
  <2>9. reader' \in ReaderType
    <3>1. DOMAIN reader = {"pc", "buffer", "searchStart", "part", "items", "sawFilesField"}
      BY <1>3 DEF ReaderType
    <3>2. reader' = [pc |-> "body", buffer |-> b, searchStart |-> reader.searchStart, part |-> new,
                     items |-> reader.items, sawFilesField |-> saw]
      BY <2>8, <3>1
    <3> QED
      BY <1>3, <2>5, <2>6, <2>7, <3>2, ReaderFields DEF ReaderType, Reading
  <2>10. KeptSoFar(new, sent.parts[j])
    <3>1. SubSeq(sent.parts[j].content, 1, 0) = <<>>
      BY SubSeqEmpty
    <3>2. new.header = sent.parts[j].header /\ new.runningBytes = 0 /\ new.chunks = <<>>
      BY <2>4, <2>5
    <3>3. Len(<<>>) = 0 /\ 0 <= MaxBytesPerFile
      BY SizesAssumption
    <3> QED
      BY <3>1, <3>2, <3>3 DEF KeptSoFar
  <2>11. /\ h + 4 = ContentStart(sent, k + 1) + reader'.part.runningBytes
         /\ h + 4 <= PartEnd(sent, k + 1)
    <3>1. reader'.part.runningBytes = 0
      BY <2>5, <2>8
    <3>2. h + 4 = ContentStart(sent, j) + 0 /\ h + 4 <= PartEnd(sent, j)
      BY <1>6, <1>8, SMTT(40)
    <3> QED
      BY <1>5, <3>1, <3>2
  <2>12. Place(sent, reader', h + 4, k)
    BY <1>4, <1>5, <2>8, <2>10, <2>11 DEF Place
  <2>13. Oriented(sent, reader', wire)
    BY <1>3, <2>6, <2>8, <2>9, <2>12, InPlace DEF Reading
  <2> QED
    BY <1>1, <2>3, <2>13 DEF ReaderInv
<1>11. CASE idx = -1
  <2>1. ~(h + 4 <= w)
    BY <1>8, <1>9, <1>11
  <2>2. CASE Fails
    BY <1>1, <2>2, FailingKeeps
  <2>3. CASE PullMore(Rescan(HeaderEnd))
    <3> DEFINE start == Rescan(HeaderEnd)
    <3>1. start \in Nat /\ c + start <= h
      <4>1. c + Len(reader.buffer) < h + Len(HeaderEnd)
        BY <1>7, <1>8, <2>1, Patterns
      <4> QED
        BY <1>7, <1>8, <4>1, Patterns, RescanMissesNothing
    <3> HIDE DEF start
    <3> DEFINE r == [reader EXCEPT !.searchStart = start]
    <3>2. r.pc = "headers" /\ r.items = reader.items /\ r.searchStart = start
      BY <1>1, <1>3 DEF ReaderType
    <3> HIDE DEF r
    <3>3. c + r.searchStart <= ContentStart(sent, k + 1) - 4
      BY <1>5, <3>1, <3>2 DEF h
    <3>4. Place(sent, r, c, k)
      BY <1>4, <3>2, <3>3 DEF Place
    <3> QED
      BY <1>1, <1>2, <2>3, <3>1, <3>4, PullingKeeps DEF start, r
  <2> QED
    BY <1>11, <2>2, <2>3 DEF ReadHeaders, idx
<1> QED
  BY <1>10, <1>11

\* A reader made of fields of their types.
Made(r, p, items, t, b) == [r EXCEPT !.pc = p, !.items = items, !.part = t, !.buffer = b]

LEMMA ReaderMade ==
    ASSUME NEW r \in ReaderType, NEW p \in Reading \cup {"done", "failed", "invalid"},
           NEW b \in Bytes, NEW t \in PartType, NEW items \in Items, NEW new,
           new = Made(r, p, items, t, b)
    PROVE  /\ new \in ReaderType /\ new.pc = p /\ new.items = items /\ new.part = t /\ new.buffer = b
           /\ new.searchStart = r.searchStart /\ new.sawFilesField = r.sawFilesField
<1>1. DOMAIN r = {"pc", "buffer", "searchStart", "part", "items", "sawFilesField"}
  BY DEF ReaderType
<1>2. /\ new.pc = p /\ new.items = items /\ new.part = t /\ new.buffer = b
      /\ new.searchStart = r.searchStart /\ new.sawFilesField = r.sawFilesField
      /\ new = [x \in DOMAIN r |-> new[x]]
  BY <1>1 DEF Made
<1>3. new = [pc |-> p, buffer |-> b, searchStart |-> r.searchStart, part |-> t, items |-> items,
             sawFilesField |-> r.sawFilesField]
  BY <1>1, <1>2
<1>4. new \in ReaderType
  <2>1. r.searchStart \in Nat /\ r.sawFilesField \in BOOLEAN
    BY DEF ReaderType
  <2>2. PICK start \in Nat, saw \in BOOLEAN : start = r.searchStart /\ saw = r.sawFilesField
    BY <2>1
  <2>3. new = [pc |-> p, buffer |-> b, searchStart |-> start, part |-> t, items |-> items,
               sawFilesField |-> saw]
    BY <1>3, <2>2, Zenon
  <2> QED
    BY <2>3 DEF ReaderType
<1> QED
  BY <1>2, <1>4

\* The reader when the part has taken a slice and goes on.
LEMMA SliceIsTaken ==
    ASSUME reader \in ReaderType, reader.pc = "body", NEW t \in PartType, NEW b \in Bytes,
           reader' = Made(reader, reader.pc, reader.items, t, b)
    PROVE  /\ reader' \in ReaderType /\ reader'.pc = "body" /\ reader'.items = reader.items
           /\ reader'.part = t /\ reader'.buffer = b
<1>1. PICK p \in Reading \cup {"done", "failed", "invalid"}, items \in Items, r \in ReaderType :
          p = reader.pc /\ items = reader.items /\ r = reader
  BY ReaderFields DEF Reading
<1>2. reader' = Made(r, p, items, t, b)
  BY <1>1, Zenon
<1>3. /\ reader' \in ReaderType /\ reader'.pc = p /\ reader'.items = items
      /\ reader'.part = t /\ reader'.buffer = b
  <2>1. reader' \in ReaderType
    BY <1>2, ReaderMade
  <2>2. reader'.pc = p
    BY <1>2, ReaderMade
  <2>3. reader'.items = items
    BY <1>2, ReaderMade
  <2>4. reader'.part = t
    BY <1>2, ReaderMade
  <2>5. reader'.buffer = b
    BY <1>2 DEF Made, ReaderType
  <2> QED
    BY <2>1, <2>2, <2>3, <2>4, <2>5
<1> QED
  BY <1>1, <1>3

\* The delimiter after a content is found where it is, and the bytes let go before
\* it is found are content.
LEMMA ReadBodyKeeps == ReaderInv /\ ReadBody => ReaderInv'
<1> SUFFICES ASSUME ReaderInv, ReadBody PROVE ReaderInv'
  OBVIOUS
<1>1. reader.pc = "body" /\ reader.pc \in Reading /\ sent' = sent
  BY DEF ReadBody, ReaderAt, Reading
<1>2. PICK k, c, w : Cut(sent, reader.buffer, wire, c, w) /\ Place(sent, reader, c, k)
  BY <1>1, Bearings
<1>3. sent \in Bodies /\ reader \in ReaderType
  BY <1>1, Bearings
<1>4. /\ Itemized(sent, reader.items, k) /\ Len(reader.items) <= MaxBatch
      /\ k \in 0..Len(sent.parts) /\ k + 1 <= Len(sent.parts)
      /\ c = ContentStart(sent, k + 1) + reader.part.runningBytes
      /\ c <= PartEnd(sent, k + 1)
      /\ KeptSoFar(reader.part, sent.parts[k + 1])
  BY <1>1, <1>2 DEF Place, Itemized
<1>5. PICK j : j = k + 1 /\ j \in 1..Len(sent.parts)
  BY <1>3, <1>4, BodiesFit
<1>6. PICK running \in Nat, part \in PartType, of \in [header : Byte, content : Bytes], from \in Nat, e \in Nat :
          /\ part = reader.part /\ running = part.runningBytes /\ of = sent.parts[j]
          /\ from = ContentStart(sent, j) /\ e = PartEnd(sent, j)
  <2>1. reader.part \in PartType /\ reader.part.runningBytes \in Nat
    BY <1>3, ReaderFields DEF PartType
  <2>2. ContentStart(sent, j) \in Nat /\ PartEnd(sent, j) \in Nat
        /\ sent.parts[j] \in [header : Byte, content : Bytes]
    BY <1>3, <1>5, PartsFit
  <2> QED
    BY <2>1, <2>2
<1>7. /\ c = from + running /\ c <= e /\ KeptSoFar(part, of)
      /\ FirstAt(CrlfBoundaryBytes, sent.bytes, from, e)
      /\ e = from + Len(of.content) /\ Len(of.content) \in Nat /\ sent.ends[j + 1] = e + 5
  <2>1. c = from + running /\ c <= e /\ KeptSoFar(part, of)
    BY <1>4, <1>5, <1>6
  <2>2. FirstAt(CrlfBoundaryBytes, sent.bytes, from, e)
    BY <1>3, <1>5, <1>6, PartsFit
  <2>3. e = from + Len(of.content) /\ Len(of.content) \in Nat /\ sent.ends[j + 1] = e + 5
    BY <1>3, <1>5, <1>6, PartsFit
  <2> QED
    BY <2>1, <2>2, <2>3
<1>8. /\ c \in Nat /\ w \in Nat /\ c <= w /\ Len(reader.buffer) = w - c
      /\ Cut(sent, reader.buffer, wire, c, w)
  <2>1. Cut(sent, reader.buffer, wire, c, w)
    BY <1>2
  <2>2. c \in Nat /\ w \in Nat /\ c <= w /\ Len(reader.buffer) = w - c
    BY <1>3, <2>1, CutInNumbers
  <2> QED
    BY <2>1, <2>2
<1> DEFINE idx == IndexOfSubarray(reader.buffer, CrlfBoundaryBytes, 0)
<1>9. (e + 5 <= w => idx = e - c) /\ (~(e + 5 <= w) => idx = -1)
  <2>1. CrlfBoundaryBytes \in Bytes /\ Len(CrlfBoundaryBytes) = 5
    BY Patterns
  <2>2. from <= c + 0 /\ c + 0 <= e /\ 0 \in Nat
    BY <1>7, <1>8
  <2>3. /\ e + Len(CrlfBoundaryBytes) <= w => idx = e - c
        /\ ~(e + Len(CrlfBoundaryBytes) <= w) => idx = -1
    <3>1. Cut(sent, reader.buffer, wire, c, w) /\ FirstAt(CrlfBoundaryBytes, sent.bytes, from, e)
          /\ sent \in Bodies /\ CrlfBoundaryBytes \in Bytes
      BY <1>3, <1>7, <1>8, <2>1
    <3>2. PICK start \in Nat : start = 0
      OBVIOUS
    <3>3. from <= c + start /\ c + start <= e
      BY <2>2, <3>2
    <3>4. /\ e + Len(CrlfBoundaryBytes) <= w
               => IndexOfSubarray(reader.buffer, CrlfBoundaryBytes, start) = e - c
          /\ ~(e + Len(CrlfBoundaryBytes) <= w)
               => IndexOfSubarray(reader.buffer, CrlfBoundaryBytes, start) = -1
      BY <3>1, <3>3, CutFinds
    <3> QED
      BY <3>2, <3>4
  <2> HIDE DEF idx
  <2> QED
    BY <2>1, <2>3
<1> HIDE DEF idx
\* What a slice makes of the part.
<1>10. ASSUME NEW n \in Nat, n <= w - c, c + n <= e
       PROVE  LET new == HandleBodySlice(part, Piece(reader.buffer, 0, n))
              IN  new \in PartType /\ KeptSoFar(new, of) /\ new.runningBytes = running + n
  <2>1. c = ContentStart(sent, j) + running /\ c + n <= PartEnd(sent, j)
    BY <1>6, <1>7, <1>10
  <2>2. running + n <= Len(sent.parts[j].content)
        /\ Piece(reader.buffer, 0, n) = Piece(sent.parts[j].content, running, running + n)
    <3>1. Cut(sent, reader.buffer, wire, c, w)
      BY <1>8
    <3> QED
      BY <1>3, <1>5, <1>10, <2>1, <3>1, CutSlices
  <2>3. PICK slice : slice = Piece(reader.buffer, 0, n)
    OBVIOUS
  <2>4. part.runningBytes + n <= Len(of.content)
        /\ slice = Piece(of.content, part.runningBytes, part.runningBytes + n)
    BY <1>6, <2>2, <2>3
  <2>5. HandleBodySlice(part, slice) \in PartType /\ KeptSoFar(HandleBodySlice(part, slice), of)
        /\ HandleBodySlice(part, slice).runningBytes = part.runningBytes + n
    BY <1>7, <2>4, SlicesAreKept
  <2> QED
    BY <1>6, <2>3, <2>5
<1>11. reader.items \in Items /\ Len(reader.items) \in Nat
  BY <1>3, ReaderFields
<1>12. CASE idx # -1
  <2>1. e + 5 <= w /\ idx = e - c
    BY <1>9, <1>12
  <2>2. PICK n \in Nat : n = idx /\ n <= w - c /\ c + n = e /\ n + 5 \in Nat /\ c + (n + 5) = e + 5
                         /\ running + n = Len(of.content)
    <3>1. e - c \in Nat /\ e - c <= w - c /\ c + (e - c) = e /\ e - c + 5 \in Nat
          /\ c + (e - c + 5) = e + 5 /\ running + (e - c) = Len(of.content)
      BY <1>7, <1>8, <2>1
    <3> QED
      BY <2>1, <3>1
  <2>3. PICK new : new = HandleBodySlice(part, Piece(reader.buffer, 0, n))
    OBVIOUS
  <2>4. new \in PartType /\ KeptSoFar(new, of) /\ new.runningBytes = Len(of.content)
    <3>1. c + n <= e
      BY <1>7, <2>2
    <3> QED
      BY <1>10, <2>2, <2>3, <3>1
  <2> DEFINE item == [chunks |-> new.chunks, sizeBytes |-> new.runningBytes]
             b == Drop(reader.buffer, n + 5)
             end == EndPart(new)
  <2>5. item \in [chunks : Bytes, sizeBytes : Nat]
    BY <2>4 DEF PartType
  <2>6. wire' = wire
        /\ reader' = [reader EXCEPT !.pc = end.pc, !.items = end.items, !.part = NoPart, !.buffer = b]
    <3>1. HandleBodySlice(reader.part, SubSeq(reader.buffer, 1, idx)) = new
      BY <1>6, <2>2, <2>3, 0 + 1 = 1 DEF Piece
    <3>2. idx + Len(CrlfBoundaryBytes) = n + 5
      BY <2>2, Patterns
    <3>3. wire' = wire
          /\ reader' = [reader EXCEPT !.pc = end.pc, !.items = end.items, !.part = NoPart,
                          !.buffer = Drop(@, n + 5)]
      BY <1>12, <3>1, <3>2, Zenon DEF ReadBody, idx
    <3> HIDE DEF end
    <3>4. [reader EXCEPT !.pc = end.pc, !.items = end.items, !.part = NoPart, !.buffer = Drop(@, n + 5)]
            = [reader EXCEPT !.pc = end.pc, !.items = end.items, !.part = NoPart, !.buffer = b]
      BY <1>3 DEF ReaderType
    <3> QED
      BY <3>3, <3>4, Zenon
  <2>7. Cut(sent, b, wire, e + 5, w) /\ b \in Bytes
    <3>1. Cut(sent, b, wire, c + (n + 5), w)
      <4>1. c + (n + 5) <= w /\ n + 5 \in Nat /\ Cut(sent, reader.buffer, wire, c, w)
        BY <1>8, <2>1, <2>2
      <4> QED
        BY <1>3, <4>1, BytesAreDone
    <3>2. Cut(sent, b, wire, e + 5, w)
      BY <2>2, <3>1
    <3> QED
      BY <1>3, <3>2, CutInNumbers
  <2> HIDE DEF item, b
  <2>8. PICK items \in Items :
           /\ items = end.items /\ Itemized(sent, items, j) /\ Len(items) \in Nat
           /\ Len(items) <= MaxBatch + 1
           /\ end.pc = IF Len(items) > MaxBatch THEN "done" ELSE "delimiter"
    <3>1. new.header = of.header
      BY <2>4 DEF KeptSoFar
    <3>2. end.items = IF IsFilePart(of.header) THEN Append(reader.items, item) ELSE reader.items
      BY <3>1 DEF EndPart, item
    <3>3. end.pc = IF Len(end.items) > MaxBatch THEN "done" ELSE "delimiter"
      BY DEF EndPart
    <3> HIDE DEF end
    <3>4. MaxBatch \in Nat
      BY SizesAssumption
    <3>5. CASE IsFilePart(of.header)
      <4>1. KeptOf(item, of.content)
        BY <2>4, <3>5, WholePartsAreKept DEF item
      <4>2. Append(reader.items, item) \in Items /\ Len(Append(reader.items, item)) = Len(reader.items) + 1
            /\ Itemized(sent, Append(reader.items, item), j)
        BY <1>3, <1>4, <1>5, <1>6, <1>11, <2>5, <3>5, <4>1, ItemizedOn
      <4>3. end.items = Append(reader.items, item)
        BY <3>2, <3>5
      <4>4. Len(end.items) \in Nat /\ Len(end.items) <= MaxBatch + 1
        <5>1. Len(end.items) = Len(reader.items) + 1
          BY <4>2, <4>3
        <5> QED
          BY <1>4, <1>11, <3>4, <5>1
      <4>5. end.items \in Items /\ Itemized(sent, end.items, j)
        BY <4>2, <4>3
      <4> QED
        BY <3>3, <4>4, <4>5
    <3>6. CASE ~IsFilePart(of.header)
      <4>1. Itemized(sent, reader.items, j)
        BY <1>3, <1>4, <1>5, <1>6, <1>11, <2>5, <3>6, ItemizedOn
      <4>2. end.items = reader.items
        BY <3>2, <3>6
      <4> QED
        BY <1>4, <1>11, <3>3, <3>4, <4>1, <4>2
    <3> QED
      BY <3>5, <3>6
  <2> HIDE DEF end
  <2>9. PICK p \in {"done", "delimiter"} : p = end.pc /\ (p = "done" <=> Len(items) > MaxBatch)
    BY <2>8
  <2>10. /\ reader' \in ReaderType /\ reader'.pc = p /\ reader'.items = items /\ reader'.buffer = b
    <3>1. reader' = [reader EXCEPT !.pc = p, !.items = items, !.part = NoPart, !.buffer = b]
      BY <2>6, <2>8, <2>9, Zenon
    <3>2. p \in Reading \cup {"done", "failed", "invalid"}
      BY DEF Reading
    <3>3. NoPart \in PartType
      BY NoPartFits
    <3> QED
      <4>1. reader \in ReaderType /\ b \in Bytes
        BY <1>3, <2>7
      <4>2. PICK none \in PartType : none = NoPart
        BY <3>3
      <4>3. reader' = Made(reader, p, items, none, b)
        BY <3>1, <4>2, Zenon DEF Made
      <4> QED
        BY <3>2, <4>1, <4>3, ReaderMade
  <2>11. CASE p = "done"
    <3>1. Len(items) = MaxBatch + 1 /\ MaxBatch \in Nat
      BY <2>8, <2>9, <2>11, SizesAssumption
    <3>2. Cardinality(Files(sent)) \in Nat /\ MaxBatch + 1 <= Cardinality(Files(sent))
      <4>1. j \in Nat
        BY <1>3, <1>5
      <4>2. FilesUpTo(sent, j) <= Cardinality(Files(sent)) /\ Cardinality(Files(sent)) \in Nat
        BY <1>3, <4>1, FilesCounted
      <4>3. FilesUpTo(sent, j) = MaxBatch + 1
        BY <2>8, <3>1 DEF Itemized
      <4> QED
        BY <4>2, <4>3
    <3>3. Min({Cardinality(Files(sent)), MaxBatch + 1}) = MaxBatch + 1
      BY <3>1, <3>2, MaxBatch + 1 \in Int, OfTwo
    <3>4. Oriented(sent, reader', wire)
      BY <1>3, <2>8, <2>10, <2>11, <3>1, <3>3 DEF Oriented, Reading
    <3> QED
      BY <1>1, <2>6, <3>4 DEF ReaderInv
  <2>12. CASE p = "delimiter"
    <3>1. Len(items) <= MaxBatch
      BY <2>8, <2>9, <2>12, SizesAssumption
    <3>2. e + 5 = sent.ends[j + 1]
      BY <1>7
    <3>3. Place(sent, reader', e + 5, j)
      BY <2>8, <2>10, <2>12, <3>1, <3>2 DEF Place
    <3>4. Oriented(sent, reader', wire)
      BY <1>3, <2>7, <2>10, <2>12, <3>3, InPlace DEF Reading
    <3> QED
      BY <1>1, <2>6, <3>4 DEF ReaderInv
  <2> QED
    BY <2>11, <2>12
<1>13. CASE idx = -1
  <2>1. ~(e + 5 <= w)
    BY <1>7, <1>8, <1>9, <1>13
  <2>2. PICK safe \in Nat : safe = SafeLen(reader.buffer) /\ safe <= w - c /\ c + safe <= e
                            /\ c + safe <= w
    <3>1. SafeLen(reader.buffer) = IF w - c >= 5 THEN w - c - 4 ELSE 0
      BY <1>8, Patterns DEF SafeLen
    <3>2. c \in Nat /\ w \in Nat /\ c <= w /\ c <= e
      BY <1>7, <1>8
    <3>3. PICK s : s = SafeLen(reader.buffer)
      OBVIOUS
    <3>4. s = IF w - c >= 5 THEN w - c - 4 ELSE 0
      BY <3>1, <3>3
    <3>5. s \in Nat /\ s <= w - c /\ c + s <= e /\ c + s <= w
      BY <2>1, <3>2, <3>4
    <3> QED
      BY <3>3, <3>5
  <2>3. PICK new : new = HandleBodySlice(part, Piece(reader.buffer, 0, safe))
    OBVIOUS
  <2>4. new \in PartType /\ KeptSoFar(new, of) /\ new.runningBytes = running + safe
    BY <1>10, <2>2, <2>3
  <2>5. Cut(sent, Drop(reader.buffer, safe), wire, c + safe, w)
    BY <1>3, <1>8, <2>2, BytesAreDone
  <2>6. CASE Fails
    BY <1>1, <2>6, FailingKeeps
  <2>7. ASSUME NEW n \in 1..Len(wire), wire' = Drop(wire, n),
               reader' = [[reader EXCEPT !.part = new, !.buffer = Drop(@, safe)]
                            EXCEPT !.buffer = @ \o SubSeq(wire, 1, n)]
        PROVE  ReaderInv'
    <3> DEFINE b == Drop(reader.buffer, safe) \o SubSeq(wire, 1, n)
    <3>1. Cut(sent, b, wire', c + safe, w + n)
      BY <1>3, <2>5, <2>7, ChunkArrives
    <3>2. b \in Bytes
      BY <1>3, <3>1, CutInNumbers
    <3>3. reader' = [reader EXCEPT !.pc = reader.pc, !.items = reader.items, !.part = new, !.buffer = b]
      BY <1>3, <2>7 DEF ReaderType
    <3> HIDE DEF b
    <3>4. reader' \in ReaderType /\ reader'.pc = "body" /\ reader'.items = reader.items
          /\ reader'.part = new /\ reader'.buffer = b
      <4>1. reader' = Made(reader, reader.pc, reader.items, new, b)
        BY <3>3 DEF Made
      <4>2. reader \in ReaderType /\ new \in PartType
        BY <1>3, <2>4
      <4> QED
        BY <1>1, <3>2, <4>1, <4>2, SliceIsTaken
    <3>5. Place(sent, reader', c + safe, k)
      <4>1. c + safe = ContentStart(sent, k + 1) + reader'.part.runningBytes
        <5>1. c + safe = from + (running + safe)
          BY <1>7, <1>8
        <5> QED
          BY <1>5, <1>6, <2>4, <3>4, <5>1
      <4>2. c + safe <= PartEnd(sent, k + 1) /\ KeptSoFar(reader'.part, sent.parts[k + 1])
        BY <1>5, <1>6, <2>2, <2>4, <3>4
      <4> QED
        BY <1>4, <3>4, <4>1, <4>2 DEF Place
    <3>6. Oriented(sent, reader', wire')
      BY <1>3, <3>1, <3>4, <3>5, InPlace DEF Reading
    <3> QED
      BY <1>1, <3>6 DEF ReaderInv
  <2> QED
    <3>1. HandleBodySlice(reader.part, SubSeq(reader.buffer, 1, safe)) = new
      BY <1>6, <2>3, 0 + 1 = 1 DEF Piece
    <3> DEFINE kept == [reader EXCEPT
                          !.part = HandleBodySlice(@, SubSeq(reader.buffer, 1, SafeLen(reader.buffer))),
                          !.buffer = Drop(@, SafeLen(reader.buffer))]
    <3>2. kept = [reader EXCEPT !.part = new, !.buffer = Drop(@, safe)]
      <4>1. kept = [reader EXCEPT !.part = HandleBodySlice(reader.part,
                                               SubSeq(reader.buffer, 1, SafeLen(reader.buffer))),
                                  !.buffer = Drop(@, SafeLen(reader.buffer))]
        BY <1>3 DEF ReaderType
      <4> QED
        BY <2>2, <3>1, <4>1, Zenon
    <3>3. \/ \E n \in 1..Len(wire) :
                /\ reader' = [kept EXCEPT !.buffer = @ \o SubSeq(wire, 1, n)]
                /\ wire' = Drop(wire, n)
          \/ Fails /\ wire' = <<>>
      BY <1>13, Zenon DEF ReadBody, idx
    <3> HIDE DEF kept
    <3> QED
      BY <2>6, <2>7, <3>2, <3>3, Zenon
<1> QED
  BY <1>12, <1>13

-----------------------------------------------------------------------------
\* The worker's part of a step leaves the reader alone.
LEMMA ReaderInvHolds == JourneySpec => []ReaderInv
<1>1. JourneyInit => ReaderInv
  BY ReaderBegins DEF JourneyInit
<1>2. ReaderInv /\ [JourneyNext]_journeyVars => ReaderInv'
  <2> SUFFICES ASSUME ReaderInv, [JourneyNext]_journeyVars PROVE ReaderInv'
    OBVIOUS
  <2>1. CASE Collect
    BY <2>1, FindFirstBoundaryKeeps, AfterDelimiterKeeps, ReadHeadersKeeps, ReadBodyKeeps
       DEF Collect, ReadOn
  <2>2. ASSUME UNCHANGED readerVars PROVE ReaderInv'
    BY <2>2 DEF readerVars, ReaderInv
  <2>3. CASE Scan
    BY <2>2, <2>3 DEF Scan
  <2>4. CASE KeepScanning
    BY <2>2, <2>4 DEF KeepScanning
  <2>5. CASE UNCHANGED journeyVars
    BY <2>2, <2>5 DEF journeyVars
  <2> QED
    BY <2>1, <2>3, <2>4, <2>5 DEF JourneyNext
<1> QED
  BY <1>1, <1>2, PTL DEF JourneySpec

\* Whatever chunks a body comes in (collectUploadParts), each item is a file that
\* was sent, in its place and with its true size, whole unless it is too large,
\* and a body read to its end gave all of them or one more than a batch may have.
THEOREM FilesArriveWhole == JourneySpec => []PartsAreWhole
<1>1. ReaderInv => PartsAreWhole
  <2> SUFFICES ASSUME ReaderInv PROVE PartsAreWhole
    OBVIOUS
  <2>1. SentFiles = Files(sent) /\ \A k : FileNumber(k) = FilesUpTo(sent, k)
    BY DEF SentFiles, Files, FileNumber, FilesUpTo
  <2>2. PICK k : Itemized(sent, reader.items, k)
    BY DEF ReaderInv, Oriented
  <2>3. \A i \in DOMAIN reader.items : \E j \in SentFiles :
            FileNumber(j) = i /\ KeptOf(reader.items[i], sent.parts[j].content)
    BY <2>1, <2>2 DEF Itemized
  <2>4. ReaderAt("done") => Len(reader.items) = Min({Cardinality(SentFiles), MaxBatch + 1})
    BY <2>1 DEF ReaderInv, Oriented, ReaderAt
  <2> QED
    BY <2>3, <2>4 DEF PartsAreWhole
<1> QED
  BY <1>1, ReaderInvHolds, PTL

-----------------------------------------------------------------------------
\* A piece of two sequences put together.
LEMMA PieceOfTwo ==
    ASSUME NEW a \in Bytes, NEW b \in Bytes
    PROVE  /\ a \o b \in Bytes /\ Len(a \o b) = Len(a) + Len(b)
           /\ \A m, n \in Nat : n <= Len(a) => Piece(a \o b, m, n) = Piece(a, m, n)
           /\ Piece(a \o b, Len(a), Len(a) + Len(b)) = b
<1>1. a \in Seq(Byte) /\ b \in Seq(Byte) /\ Len(a) \in Nat /\ Len(b) \in Nat
  BY DEF Bytes
<1> DEFINE s == a \o b
<1>2. s \in Bytes /\ Len(s) = Len(a) + Len(b)
      /\ \A i \in 1..Len(a) + Len(b) : s[i] = IF i <= Len(a) THEN a[i] ELSE b[i - Len(a)]
  BY <1>1, ConcatProperties DEF Bytes
<1> HIDE DEF s
<1>3. ASSUME NEW m \in Nat, NEW n \in Nat, n <= Len(a) PROVE Piece(s, m, n) = Piece(a, m, n)
  <2> DEFINE one == SubSeq(s, m + 1, n)
             two == SubSeq(a, m + 1, n)
  <2>1. /\ one \in Bytes /\ Len(one) = IF m + 1 <= n THEN n - (m + 1) + 1 ELSE 0
        /\ \A i \in 1..n - (m + 1) + 1 : one[i] = s[m + 1 + i - 1]
    BY <1>1, <1>2, <1>3, Pieces, 1 <= m + 1, m + 1 \in Int, n \in Int, n <= Len(s)
  <2>2. /\ two \in Bytes /\ Len(two) = IF m + 1 <= n THEN n - (m + 1) + 1 ELSE 0
        /\ \A i \in 1..n - (m + 1) + 1 : two[i] = a[m + 1 + i - 1]
    BY <1>1, <1>3, Pieces, 1 <= m + 1, m + 1 \in Int, n \in Int, n <= Len(a)
  <2> HIDE DEF one, two
  <2>3. ASSUME NEW i \in 1..Len(one) PROVE one[i] = two[i]
    <3>1. i \in 1..n - (m + 1) + 1 /\ m + 1 + i - 1 \in 1..Len(a)
          /\ m + 1 + i - 1 \in 1..Len(a) + Len(b) /\ m + 1 + i - 1 <= Len(a)
      BY <1>1, <1>3, <2>1, <2>3
    <3> QED
      BY <1>2, <2>1, <2>2, <3>1
  <2>4. one = two
    BY <2>1, <2>2, <2>3, SeqEqual, Zenon DEF Bytes
  <2> QED
    BY <2>4 DEF one, two, Piece
<1>4. Piece(s, Len(a), Len(a) + Len(b)) = b
  <2> DEFINE one == SubSeq(s, Len(a) + 1, Len(a) + Len(b))
  <2>1. /\ one \in Bytes
        /\ Len(one) = IF Len(a) + 1 <= Len(a) + Len(b) THEN Len(a) + Len(b) - (Len(a) + 1) + 1 ELSE 0
        /\ \A i \in 1..Len(a) + Len(b) - (Len(a) + 1) + 1 : one[i] = s[Len(a) + 1 + i - 1]
    BY <1>1, <1>2, Pieces, 1 <= Len(a) + 1, Len(a) + 1 \in Int, Len(a) + Len(b) \in Int,
       Len(a) + Len(b) <= Len(s)
  <2> HIDE DEF one
  <2>2. Len(one) = Len(b)
    BY <1>1, <2>1
  <2>3. ASSUME NEW i \in 1..Len(one) PROVE one[i] = b[i]
    <3>1. /\ i \in 1..Len(a) + Len(b) - (Len(a) + 1) + 1
          /\ Len(a) + 1 + i - 1 \in 1..Len(a) + Len(b) /\ ~(Len(a) + 1 + i - 1 <= Len(a))
          /\ Len(a) + 1 + i - 1 - Len(a) = i
      BY <1>1, <2>2, <2>3
    <3> QED
      BY <1>2, <2>1, <3>1
  <2>4. one = b
    BY <2>1, <2>2, <2>3, SeqEqual, Zenon DEF Bytes
  <2> QED
    BY <2>4 DEF one, Piece
<1> QED
  BY <1>2, <1>3, <1>4 DEF s

\* The size of a piece, a piece of a piece, and a piece that is cut in two.
LEMMA PieceFacts ==
    ASSUME NEW s \in Bytes, NEW m \in Nat, NEW n \in Nat, m <= n, n <= Len(s)
    PROVE  /\ Piece(s, m, n) \in Bytes /\ Len(Piece(s, m, n)) = n - m
           /\ \A i, j \in Nat : j <= n - m => Piece(Piece(s, m, n), i, j) = Piece(s, m + i, m + j)
           /\ \A k \in Nat : n + k <= Len(s) =>
                 Piece(s, m, n) \o Piece(s, n, n + k) = Piece(s, m, n + k)
<1>1. SubSeq(s, m + 1, n) \in Bytes
      /\ Len(SubSeq(s, m + 1, n)) = IF m + 1 <= n THEN n - (m + 1) + 1 ELSE 0
  BY Pieces, 1 <= m + 1, m + 1 \in Int, n \in Int
<1>2. Piece(s, m, n) \in Bytes
      /\ Len(Piece(s, m, n)) = IF m + 1 <= n THEN n - (m + 1) + 1 ELSE 0
  BY <1>1 DEF Piece
<1>3. Len(Piece(s, m, n)) = n - m
  BY <1>2
<1>4. ASSUME NEW i \in Nat, NEW j \in Nat, j <= n - m
      PROVE  Piece(Piece(s, m, n), i, j) = Piece(s, m + i, m + j)
  <2>1. SubSeq(SubSeq(s, m + 1, n), i + 1, j) = SubSeq(s, m + i + 1, m + j)
    BY <1>4, PieceOfPiece
  <2> QED
    BY <2>1 DEF Piece
<1>5. ASSUME NEW k \in Nat, n + k <= Len(s)
      PROVE  Piece(s, m, n) \o Piece(s, n, n + k) = Piece(s, m, n + k)
  <2>1. SubSeq(s, m + 1, n) \o SubSeq(s, n + 1, n + k) = SubSeq(s, m + 1, n + k)
    BY <1>5, PiecesJoin
  <2> QED
    BY <2>1 DEF Piece
<1> QED
  BY <1>2, <1>3, <1>4, <1>5

\* A sequence that is cut in two.
LEMMA CutInTwo ==
    ASSUME NEW p \in Bytes, NEW n \in Nat, n <= Len(p)
    PROVE  \E a, b \in Bytes : a = Piece(p, 0, n) /\ b = Piece(p, n, Len(p)) /\ a \o b = p
<1>1. PICK m \in Nat, k \in Nat : m = 0 /\ n + k = Len(p)
  <2>1. Len(p) \in Nat
    BY DEF Bytes
  <2>2. Len(p) - n \in Nat /\ n + (Len(p) - n) = Len(p)
    BY <2>1
  <2> QED
    BY <2>2
<1>2. m <= n /\ n <= Len(p) /\ n + k <= Len(p) /\ n <= n + k /\ n + k \in Nat
  BY <1>1
<1>3. Piece(p, m, n) \in Bytes /\ Piece(p, n, n + k) \in Bytes
  BY <1>2, PieceFacts
<1>4. SubSeq(p, m + 1, n) \o SubSeq(p, n + 1, n + k) = SubSeq(p, m + 1, n + k)
  BY <1>2, PiecesJoin
<1>5. SubSeq(p, m + 1, n + k) = p
  BY <1>1, SubSeqFull, 0 + 1 = 1 DEF Bytes
<1>6. Piece(p, m, n) \o Piece(p, n, n + k) = p
  BY <1>4, <1>5 DEF Piece
<1> QED
  BY <1>1, <1>3, <1>6

\* How lengths are written.
LEMMA Lengths ==
    /\ HeaderSize \in Nat /\ HeaderSize > 0 /\ MaxChunk \in Nat
    /\ \A n \in 0..MaxChunk : Header(n) \in Bytes /\ Len(Header(n)) = HeaderSize
    /\ \A m, n \in 0..MaxChunk : Header(m) = Header(n) => m = n
<1>1. 0 \in 0..MaxChunk
  BY LengthAssumption
<1>2. \A n \in 0..MaxChunk : LengthBytes[n] \in Seq(STRING) /\ Len(LengthBytes[n]) = Len(LengthBytes[0])
  BY <1>1, LengthAssumption
<1>3. \A n \in 0..MaxChunk : LengthBytes[n] \in Bytes
  BY <1>2, SeqMonotonic DEF Bytes, Byte
<1>4. HeaderSize \in Nat /\ HeaderSize > 0
  <2>1. Len(LengthBytes[0]) \in Nat
    BY <1>1, <1>2
  <2> QED
    BY <2>1, LengthAssumption DEF HeaderSize
<1> QED
  BY <1>2, <1>3, <1>4, LengthAssumption DEF Header, HeaderSize

-----------------------------------------------------------------------------
\* The bytes up to last are a row of chunks of the file, each after its length;
\* g has for the beginning of each, and for the end, where in the file it is.
Frames(file, bytes, g, last) ==
    /\ last \in Nat /\ last \in DOMAIN g /\ 0 \in DOMAIN g /\ DOMAIN g \subseteq 0..last
    /\ \A p \in DOMAIN g : g[p] \in 0..Len(file)
    /\ \A p \in DOMAIN g \ {last} : \E n \in 1..MaxChunk :
          /\ p + HeaderSize + n \in DOMAIN g
          /\ g[p + HeaderSize + n] = g[p] + n
          /\ Piece(bytes, p, p + HeaderSize) = Header(n)
          /\ Piece(bytes, p + HeaderSize, p + HeaderSize + n) = Piece(file, g[p], g[p] + n)

\* What follows them, with the file written up to at.
Follows(file, s, bytes, last, at) ==
    \/ /\ s.pc \in {"connect", "read"}
       /\ Len(bytes) = last
       /\ s.rest = Piece(file, at, Len(file))
    \/ /\ s.pc = "write"
       /\ Len(s.chunk) \in 1..MaxChunk
       /\ Len(bytes) = last + HeaderSize
       /\ Piece(bytes, last, last + HeaderSize) = Header(Len(s.chunk))
       /\ at + Len(s.chunk) <= Len(file)
       /\ s.chunk = Piece(file, at, at + Len(s.chunk))
       /\ s.rest = Piece(file, at + Len(s.chunk), Len(file))
    \/ /\ s.pc = "end"
       /\ Len(bytes) = last + HeaderSize
       /\ Piece(bytes, last, last + HeaderSize) = Header(0)
       /\ at = Len(file)

\* Of what was given to the socket, the daemon has read a beginning of the file
\* and has the rest to read.
FramedBy(file, s, d, g, last) ==
    /\ s.rest \in Bytes /\ s.chunk \in Bytes /\ s.pending \in Bytes /\ d.unread \in Bytes
    /\ Frames(file, d.unread \o s.pending, g, last)
    /\ Follows(file, s, d.unread \o s.pending, last, g[last])
    /\ d.file = Piece(file, 0, g[0])

Framed(file, s, d) == \E g, last : FramedBy(file, s, d, g, last)

\* An answer other than an error is about the whole file.
Means(file, d, answer) ==
    answer \in {"OK", "FOUND"} =>
        d.file = file /\ (answer = "FOUND" <=> "v" \in ToSet(file))

\* The daemon's answer, of which a beginning may have been heard.
Answers(file, s, d) ==
    \E answer \in {"error", "OK", "FOUND"} :
        /\ Means(file, d, answer)
        /\ \/ s.response = <<>> /\ d.toSay = <<answer, "zero">>
           \/ s.response = <<answer>> /\ d.toSay = <<"zero">>

Scanning(file, s, d) ==
    /\ DOMAIN s = {"pc", "rest", "chunk", "pending", "settled", "response", "socket"}
    /\ DOMAIN d = {"pc", "unread", "file", "toSay"}
    /\ s.pc \in {"connect", "read", "write", "end"}
    /\ s.settled \in {"no", "failed", "clean", "infected"}
    /\ d.pc \in {"reads", "whole", "answered"}
    /\ s.settled = "no" =>
          /\ s.socket = "connecting" => s.pc = "connect"
          /\ d.pc = "reads" => Framed(file, s, d)
          /\ d.pc = "whole" => d.file = file
          /\ d.pc # "answered" => s.response = <<>> /\ d.toSay = <<>>
          /\ d.pc = "answered" => Answers(file, s, d)
    /\ s.settled \in {"clean", "infected"} =>
          d.pc = "answered" /\ d.file = file /\ (s.settled = "infected" <=> "v" \in ToSet(file))

\* Once the promise is settled it stays so, and a daemon that has answered is done.
LEMMA SettledStays ==
    ASSUME NEW file, Scanning(file, scan, daemon), scan.settled # "no", ScanStep
    PROVE  Scanning(file, scan', daemon')
<1> DEFINE kept ==
      /\ DOMAIN scan' = DOMAIN scan /\ DOMAIN daemon' = DOMAIN daemon
      /\ scan'.pc \in {"connect", "read", "write", "end"}
      /\ scan'.settled = scan.settled
      /\ daemon'.pc \in {"reads", "whole", "answered"}
      /\ daemon.pc = "answered" => daemon'.pc = "answered" /\ daemon'.file = daemon.file
<1>1. /\ DOMAIN scan = {"pc", "rest", "chunk", "pending", "settled", "response", "socket"}
      /\ DOMAIN daemon = {"pc", "unread", "file", "toSay"}
      /\ scan.pc \in {"connect", "read", "write", "end"}
      /\ daemon.pc \in {"reads", "whole", "answered"}
  BY DEF Scanning
<1>2. CASE Timeout
  BY <1>2 DEF Timeout, Settled
<1>3. CASE Open
  <2>1. kept
    BY <1>1, <1>3 DEF Open, Settle
  <2> QED
    BY <2>1 DEF Scanning
<1>4. CASE FlushPending
  <2>1. kept
    BY <1>1, <1>4 DEF FlushPending
  <2> QED
    BY <2>1 DEF Scanning
<1>5. CASE ReadChunk
  <2>1. kept
    BY <1>1, <1>5 DEF ReadChunk, Settle, Settled
  <2> QED
    BY <2>1 DEF Scanning
<1>6. CASE WriteChunk
  <2>1. kept
    BY <1>1, <1>6 DEF WriteChunk
  <2> QED
    BY <2>1 DEF Scanning
<1>7. CASE DaemonReads
  <2>1. kept
    BY <1>1, <1>7 DEF DaemonReads
  <2> QED
    BY <2>1 DEF Scanning
<1>8. CASE DaemonAnswers
  <2>1. kept
    BY <1>1, <1>8 DEF DaemonAnswers
  <2> QED
    BY <2>1 DEF Scanning
<1>9. CASE Data
  <2>1. kept
    BY <1>1, <1>9 DEF Data, Settle
  <2> QED
    BY <2>1 DEF Scanning
<1>10. CASE Close
  <2>1. kept
    BY <1>1, <1>10 DEF Close, Settle
  <2> QED
    BY <2>1 DEF Scanning
<1> QED
  BY <1>2, <1>3, <1>4, <1>5, <1>6, <1>7, <1>8, <1>9, <1>10 DEF ScanStep

\* A promise that fails says nothing of the file.
LEMMA FailingSaysNothing ==
    ASSUME NEW file, Scanning(file, scan, daemon), daemon' = daemon,
           DOMAIN scan' = DOMAIN scan, scan'.pc \in {"connect", "read", "write", "end"},
           scan'.settled = "failed"
    PROVE  Scanning(file, scan', daemon')
BY DEF Scanning

\* A step of a scan that is not settled, and does not settle it, before the daemon answers.
LEMMA WritingKeeps ==
    ASSUME NEW file, Scanning(file, scan, daemon), scan.settled = "no",
           DOMAIN scan' = DOMAIN scan, scan'.pc \in {"connect", "read", "write", "end"},
           scan'.settled = "no", scan'.response = scan.response,
           scan'.socket = "connecting" => scan'.pc = "connect",
           DOMAIN daemon' = DOMAIN daemon, daemon'.pc = daemon.pc,
           daemon'.file = daemon.file, daemon'.toSay = daemon.toSay,
           daemon.pc = "reads" /\ Framed(file, scan, daemon) => Framed(file, scan', daemon')
    PROVE  Scanning(file, scan', daemon')
<1>1. Answers(file, scan, daemon) => Answers(file, scan', daemon')
  BY DEF Answers, Means
<1> QED
  BY <1>1 DEF Scanning

\* A connection made or refused.
LEMMA OpenKeeps ==
    ASSUME NEW file, Scanning(file, scan, daemon), scan.settled = "no", Open
    PROVE  Scanning(file, scan', daemon')
<1>1. /\ DOMAIN scan = {"pc", "rest", "chunk", "pending", "settled", "response", "socket"}
      /\ scan.pc = "connect"
  BY DEF Scanning, Open
<1>2. CASE scan' = [scan EXCEPT !.socket = "open", !.pc = "read"] /\ daemon' = daemon
  <2>1. /\ DOMAIN scan' = DOMAIN scan /\ scan'.pc = "read" /\ scan'.settled = "no"
        /\ scan'.response = scan.response /\ scan'.socket = "open"
        /\ scan'.rest = scan.rest /\ scan'.chunk = scan.chunk /\ scan'.pending = scan.pending
    BY <1>1, <1>2
  <2>2. Framed(file, scan, daemon) => Framed(file, scan', daemon')
    BY <1>1, <1>2, <2>1 DEF Framed, FramedBy, Follows
  <2> QED
    BY <1>2, <2>1, <2>2, WritingKeeps
<1>3. CASE scan' = Settle([scan EXCEPT !.socket = "closed", !.pc = "end"], "failed") /\ daemon' = daemon
  <2>1. DOMAIN scan' = DOMAIN scan /\ scan'.pc = "end" /\ scan'.settled = "failed"
    BY <1>1, <1>3 DEF Settle
  <2> QED
    BY <1>3, <2>1, FailingSaysNothing
<1> QED
  BY <1>2, <1>3 DEF Open

\* What the socket took goes from what is pending to what the daemon has to read.
LEMMA FlushPendingKeeps ==
    ASSUME NEW file, Scanning(file, scan, daemon), scan.settled = "no", FlushPending
    PROVE  Scanning(file, scan', daemon')
<1>1. /\ DOMAIN scan = {"pc", "rest", "chunk", "pending", "settled", "response", "socket"}
      /\ DOMAIN daemon = {"pc", "unread", "file", "toSay"}
      /\ scan.socket = "open" /\ scan.pc \in {"connect", "read", "write", "end"}
  BY DEF Scanning, FlushPending
<1>2. PICK n \in 1..Len(scan.pending) :
         /\ scan' = [scan EXCEPT !.pending = Flushed(@, n)]
         /\ daemon' = [daemon EXCEPT !.unread = @ \o SubSeq(scan.pending, 1, n)]
  BY DEF FlushPending
<1>3. /\ DOMAIN scan' = DOMAIN scan /\ scan'.pc = scan.pc /\ scan'.settled = "no"
      /\ scan'.response = scan.response /\ scan'.socket = "open"
      /\ scan'.rest = scan.rest /\ scan'.chunk = scan.chunk
      /\ scan'.pending = Flushed(scan.pending, n)
      /\ DOMAIN daemon' = DOMAIN daemon /\ daemon'.pc = daemon.pc /\ daemon'.file = daemon.file
      /\ daemon'.toSay = daemon.toSay
      /\ daemon'.unread = daemon.unread \o SubSeq(scan.pending, 1, n)
  BY <1>1, <1>2
<1>4. ASSUME Framed(file, scan, daemon) PROVE Framed(file, scan', daemon')
  <2>1. PICK g, last : FramedBy(file, scan, daemon, g, last)
    BY <1>4 DEF Framed
  <2>2. PICK p \in Bytes, u \in Bytes : p = scan.pending /\ u = daemon.unread
    BY <2>1 DEF FramedBy
  <2>3. n \in Nat /\ 0 <= n /\ n <= Len(p) /\ Len(p) \in Nat /\ n + (Len(p) - n) = Len(p)
        /\ Len(p) - n \in Nat
    BY <2>2 DEF Bytes
  <2>4. PICK a \in Bytes, b \in Bytes : a = Piece(p, 0, n) /\ b = Piece(p, n, Len(p)) /\ a \o b = p
    BY <2>3, CutInTwo
  <2>5. scan'.pending = b /\ daemon'.unread = u \o a
    BY <1>3, <2>2, <2>4, 0 + 1 = 1 DEF Flushed, Piece
  <2>6. (u \o a) \o b = u \o p /\ u \o a \in Bytes
    <3>1. (u \o a) \o b = u \o (a \o b)
      BY ConcatAssociative, SMTT(40) DEF Bytes
    <3>2. u \o a \in Bytes
      BY PieceOfTwo
    <3> QED
      BY <2>4, <3>1, <3>2
  <2>7. FramedBy(file, scan', daemon', g, last)
    <3>1. daemon'.unread \o scan'.pending = daemon.unread \o scan.pending
      BY <2>2, <2>5, <2>6
    <3>2. daemon'.unread \in Bytes /\ scan'.pending \in Bytes
      BY <2>5, <2>6
    <3> QED
      BY <1>3, <2>1, <3>1, <3>2 DEF FramedBy, Follows
  <2> QED
    BY <2>7 DEF Framed
<1> QED
  BY <1>1, <1>3, <1>4, WritingKeeps

\* More bytes after them change nothing of the chunks that were written.
LEMMA FramesStay ==
    ASSUME NEW file \in Bytes, NEW bytes \in Bytes, NEW more \in Bytes, NEW g, NEW last,
           Frames(file, bytes, g, last), last <= Len(bytes)
    PROVE  Frames(file, bytes \o more, g, last)
<1>1. /\ last \in Nat /\ last \in DOMAIN g /\ 0 \in DOMAIN g /\ DOMAIN g \subseteq 0..last
      /\ \A p \in DOMAIN g : g[p] \in 0..Len(file)
  BY DEF Frames
<1>2. \A m, n \in Nat : n <= Len(bytes) => Piece(bytes \o more, m, n) = Piece(bytes, m, n)
  BY PieceOfTwo
<1>3. PICK all : all = bytes \o more
  OBVIOUS
<1>4. ASSUME NEW p \in DOMAIN g \ {last}
      PROVE  \E n \in 1..MaxChunk :
                /\ p + HeaderSize + n \in DOMAIN g
                /\ g[p + HeaderSize + n] = g[p] + n
                /\ Piece(all, p, p + HeaderSize) = Header(n)
                /\ Piece(all, p + HeaderSize, p + HeaderSize + n) = Piece(file, g[p], g[p] + n)
  <2>1. PICK n \in 1..MaxChunk :
                /\ p + HeaderSize + n \in DOMAIN g
                /\ g[p + HeaderSize + n] = g[p] + n
                /\ Piece(bytes, p, p + HeaderSize) = Header(n)
                /\ Piece(bytes, p + HeaderSize, p + HeaderSize + n) = Piece(file, g[p], g[p] + n)
    BY DEF Frames
  <2>2. PICK i \in Nat, j \in Nat : i = p + HeaderSize /\ j = p + HeaderSize + n /\ i <= j /\ j <= last
    <3>1. p \in Nat /\ n \in Nat /\ HeaderSize \in Nat /\ p + HeaderSize + n <= last
      BY <1>1, <2>1, Lengths
    <3> QED
      BY <3>1
  <2>3. i <= Len(bytes) /\ j <= Len(bytes) /\ p \in Nat
    <3>1. Len(bytes) \in Nat
      BY DEF Bytes
    <3> QED
      BY <1>1, <2>2, <3>1
  <2>4. Piece(all, p, i) = Piece(bytes, p, i) /\ Piece(all, i, j) = Piece(bytes, i, j)
    BY <1>2, <1>3, <2>3
  <2> QED
    BY <2>1, <2>2, <2>4
<1> QED
  BY <1>1, <1>3, <1>4 DEF Frames

\* When nothing is pending, what the daemon has to read is all there is.
LEMMA NothingPending ==
    ASSUME NEW file \in Bytes, NEW g, NEW last, FramedBy(file, scan, daemon, g, last),
           scan.pending = <<>>
    PROVE  /\ daemon.unread \in Bytes /\ scan.rest \in Bytes /\ scan.chunk \in Bytes
           /\ Frames(file, daemon.unread, g, last)
           /\ Follows(file, scan, daemon.unread, last, g[last])
           /\ daemon.file = Piece(file, 0, g[0])
           /\ last \in Nat /\ g[last] \in 0..Len(file) /\ Len(file) \in Nat
           /\ Len(daemon.unread) \in Nat
<1>1. daemon.unread \in Bytes /\ daemon.unread \o scan.pending = daemon.unread
  BY ConcatEmptySeq DEF FramedBy, Bytes
<1>2. /\ Frames(file, daemon.unread, g, last)
      /\ Follows(file, scan, daemon.unread, last, g[last])
  BY <1>1 DEF FramedBy
<1>3. last \in Nat /\ g[last] \in 0..Len(file) /\ Len(file) \in Nat /\ Len(daemon.unread) \in Nat
  BY <1>1, <1>2 DEF Frames, Bytes
<1> QED
  BY <1>1, <1>2, <1>3 DEF FramedBy

\* The next chunk of the file is held back, and its length pends; or the length
\* zero, when there is none.
LEMMA ReadChunkKeeps ==
    ASSUME NEW file \in Bytes, Scanning(file, scan, daemon), scan.settled = "no", ReadChunk
    PROVE  Scanning(file, scan', daemon')
<1>1. /\ DOMAIN scan = {"pc", "rest", "chunk", "pending", "settled", "response", "socket"}
      /\ DOMAIN daemon = {"pc", "unread", "file", "toSay"}
      /\ scan.socket = "open" /\ scan.pc = "read" /\ scan.pending = <<>> /\ daemon' = daemon
  BY DEF Scanning, ReadChunk, Written, Settled
<1>2. CASE scan' = Settle([scan EXCEPT !.pc = "end", !.socket = "closed"], "failed")
  <2>1. DOMAIN scan' = DOMAIN scan /\ scan'.pc = "end" /\ scan'.settled = "failed"
    BY <1>1, <1>2 DEF Settle
  <2> QED
    BY <1>1, <2>1, FailingSaysNothing
<1>3. ASSUME NEW n \in 1..MaxChunk, n <= Len(scan.rest),
             scan' = [scan EXCEPT !.pc = "write", !.pending = Header(n),
                                  !.chunk = SubSeq(scan.rest, 1, n),
                                  !.rest = SubSeq(@, n + 1, Len(@))]
      PROVE  Scanning(file, scan', daemon')
  <2>1. /\ DOMAIN scan' = DOMAIN scan /\ scan'.pc = "write" /\ scan'.settled = "no"
        /\ scan'.response = scan.response /\ scan'.socket = "open"
        /\ scan'.pending = Header(n)
        /\ scan'.chunk = Piece(scan.rest, 0, n) /\ scan'.rest = Piece(scan.rest, n, Len(scan.rest))
    BY <1>1, <1>3, 0 + 1 = 1 DEF Piece
  <2>2. ASSUME Framed(file, scan, daemon) PROVE Framed(file, scan', daemon')
    <3>1. PICK g, last : FramedBy(file, scan, daemon, g, last)
      BY <2>2 DEF Framed
    <3>2. /\ daemon.unread \in Bytes /\ scan.rest \in Bytes
          /\ Frames(file, daemon.unread, g, last)
          /\ Follows(file, scan, daemon.unread, last, g[last])
          /\ daemon.file = Piece(file, 0, g[0])
          /\ last \in Nat /\ g[last] \in 0..Len(file) /\ Len(file) \in Nat
      BY <1>1, <3>1, NothingPending
    <3>3. PICK u \in Bytes, at \in Nat, h \in Bytes, size \in Nat :
             u = daemon.unread /\ at = g[last] /\ h = Header(n) /\ size = Len(file) /\ at <= size
             /\ Len(h) = HeaderSize /\ n \in Nat
      <4>1. n \in 0..MaxChunk
        BY Lengths
      <4>2. Header(n) \in Bytes /\ Len(Header(n)) = HeaderSize
        BY <4>1, Lengths
      <4> QED
        BY <3>2, <4>2
    <3>4. Len(u) = last /\ scan.rest = Piece(file, at, size)
      BY <1>1, <3>2, <3>3 DEF Follows
    <3>5. Len(scan.rest) = size - at
          /\ \A i, j \in Nat : j <= size - at => Piece(scan.rest, i, j) = Piece(file, at + i, at + j)
      <4>1. at <= size /\ size <= Len(file)
        BY <3>3
      <4> QED
        BY <3>4, <4>1, PieceFacts
    <3>6. n <= size - at /\ size - at \in Nat /\ at + n <= size /\ at + (size - at) = size
          /\ at + n \in Nat
      BY <1>3, <3>3, <3>5, SMTT(40)
    <3>7. /\ scan'.chunk = Piece(file, at, at + n) /\ scan'.rest = Piece(file, at + n, size)
      <4>1. Piece(scan.rest, 0, n) = Piece(file, at + 0, at + n)
            /\ Piece(scan.rest, n, size - at) = Piece(file, at + n, at + (size - at))
        <5>1. PICK z \in Nat, m \in Nat : z = 0 /\ m = size - at
          BY <3>6
        <5>2. n \in Nat /\ n <= size - at /\ m <= size - at
          BY <3>3, <3>6, <5>1
        <5>3. \A i, j \in Nat : j <= size - at => Piece(scan.rest, i, j) = Piece(file, at + i, at + j)
          BY <3>5
        <5> QED
          BY <5>1, <5>2, <5>3, Zenon
      <4> QED
        BY <2>1, <3>3, <3>5, <3>6, <4>1, at + 0 = at
    <3>8. scan'.chunk \in Bytes /\ Len(scan'.chunk) = n /\ scan'.rest \in Bytes
      <4>1. at <= at + n /\ at + n <= Len(file) /\ at + n \in Nat /\ at + n - at = n
        <5>1. n \in Nat /\ size = Len(file)
          BY <3>3
        <5>2. at <= at + n /\ at + n <= size /\ at + n \in Nat /\ at + n - at = n
          BY <3>6, <5>1
        <5> QED
          BY <5>1, <5>2, Zenon
      <4>2. Piece(file, at, at + n) \in Bytes /\ Len(Piece(file, at, at + n)) = at + n - at
        BY <4>1, PieceFacts
      <4>3. Piece(file, at + n, size) \in Bytes
        BY <3>3, <3>6, size <= Len(file), PieceFacts
      <4> QED
        BY <3>7, <4>1, <4>2, <4>3
    <3>9. Frames(file, u \o h, g, last)
      <4>1. last <= Len(u)
        BY <3>2, <3>4
      <4> QED
        BY <3>2, <3>3, <4>1, FramesStay
    <3>10. Len(u \o h) = last + HeaderSize /\ Piece(u \o h, last, last + HeaderSize) = h
      <4>1. Len(u \o h) = Len(u) + Len(h) /\ Piece(u \o h, Len(u), Len(u) + Len(h)) = h
        BY PieceOfTwo
      <4> QED
        BY <3>3, <3>4, <4>1
    <3>11. Follows(file, scan', u \o h, last, at)
      BY <2>1, <3>3, <3>6, <3>7, <3>8, <3>10 DEF Follows
    <3>12. FramedBy(file, scan', daemon', g, last)
      BY <1>1, <2>1, <3>2, <3>3, <3>8, <3>9, <3>11 DEF FramedBy
    <3> QED
      BY <3>12 DEF Framed
  <2> QED
    BY <1>1, <2>1, <2>2, WritingKeeps
<1>4. ASSUME scan.rest = <<>>, scan' = [scan EXCEPT !.pc = "end", !.pending = Header(0)]
      PROVE  Scanning(file, scan', daemon')
  <2>1. /\ DOMAIN scan' = DOMAIN scan /\ scan'.pc = "end" /\ scan'.settled = "no"
        /\ scan'.response = scan.response /\ scan'.socket = "open"
        /\ scan'.pending = Header(0) /\ scan'.chunk = scan.chunk /\ scan'.rest = scan.rest
    BY <1>1, <1>4
  <2>2. ASSUME Framed(file, scan, daemon) PROVE Framed(file, scan', daemon')
    <3>1. PICK g, last : FramedBy(file, scan, daemon, g, last)
      BY <2>2 DEF Framed
    <3>2. /\ daemon.unread \in Bytes /\ scan.rest \in Bytes /\ scan.chunk \in Bytes
          /\ Frames(file, daemon.unread, g, last)
          /\ Follows(file, scan, daemon.unread, last, g[last])
          /\ daemon.file = Piece(file, 0, g[0])
          /\ last \in Nat /\ g[last] \in 0..Len(file) /\ Len(file) \in Nat
      BY <1>1, <3>1, NothingPending
    <3>3. PICK u \in Bytes, at \in Nat, h \in Bytes, size \in Nat :
             u = daemon.unread /\ at = g[last] /\ h = Header(0) /\ size = Len(file) /\ at <= size
             /\ Len(h) = HeaderSize
      <4>1. 0 \in 0..MaxChunk
        BY Lengths
      <4>2. Header(0) \in Bytes /\ Len(Header(0)) = HeaderSize
        BY <4>1, Lengths
      <4> QED
        BY <3>2, <4>2
    <3>4. Len(u) = last /\ scan.rest = Piece(file, at, size)
      BY <1>1, <3>2, <3>3 DEF Follows
    <3>5. at = size
      <4>1. at <= size /\ size <= Len(file)
        BY <3>3
      <4>2. Len(Piece(file, at, size)) = size - at
        BY <4>1, PieceFacts
      <4>3. Len(scan.rest) = 0
        BY <1>4
      <4> QED
        BY <3>4, <4>2, <4>3
    <3>6. Frames(file, u \o h, g, last)
      <4>1. last <= Len(u)
        BY <3>2, <3>4
      <4> QED
        BY <3>2, <3>3, <4>1, FramesStay
    <3>7. Len(u \o h) = last + HeaderSize /\ Piece(u \o h, last, last + HeaderSize) = h
      <4>1. Len(u \o h) = Len(u) + Len(h) /\ Piece(u \o h, Len(u), Len(u) + Len(h)) = h
        BY PieceOfTwo
      <4> QED
        BY <3>3, <3>4, <4>1
    <3>8. Follows(file, scan', u \o h, last, at)
      BY <2>1, <3>3, <3>5, <3>7 DEF Follows
    <3>9. FramedBy(file, scan', daemon', g, last)
      BY <1>1, <2>1, <3>2, <3>3, <3>6, <3>8 DEF FramedBy
    <3> QED
      BY <3>9 DEF Framed
  <2> QED
    BY <1>1, <2>1, <2>2, WritingKeeps
<1> QED
  BY <1>2, <1>3, <1>4 DEF ReadChunk, Settled

\* The chunk follows its length, and there is one more of them.
LEMMA WriteChunkKeeps ==
    ASSUME NEW file \in Bytes, Scanning(file, scan, daemon), scan.settled = "no", WriteChunk
    PROVE  Scanning(file, scan', daemon')
<1>1. /\ DOMAIN scan = {"pc", "rest", "chunk", "pending", "settled", "response", "socket"}
      /\ DOMAIN daemon = {"pc", "unread", "file", "toSay"}
      /\ scan.pc = "write" /\ scan.socket # "connecting" /\ scan.pending = <<>> /\ daemon' = daemon
      /\ scan' = [scan EXCEPT !.pc = "read", !.pending = scan.chunk]
  BY DEF Scanning, WriteChunk, Written, Settled
<1>2. /\ DOMAIN scan' = DOMAIN scan /\ scan'.pc = "read" /\ scan'.settled = "no"
      /\ scan'.response = scan.response /\ scan'.socket = scan.socket
      /\ scan'.pending = scan.chunk /\ scan'.chunk = scan.chunk /\ scan'.rest = scan.rest
  BY <1>1
<1>3. ASSUME Framed(file, scan, daemon) PROVE Framed(file, scan', daemon')
  <2>1. PICK g, last : FramedBy(file, scan, daemon, g, last)
    BY <1>3 DEF Framed
  <2>2. /\ daemon.unread \in Bytes /\ scan.rest \in Bytes /\ scan.chunk \in Bytes
        /\ Frames(file, daemon.unread, g, last)
        /\ Follows(file, scan, daemon.unread, last, g[last])
        /\ daemon.file = Piece(file, 0, g[0])
        /\ last \in Nat /\ g[last] \in 0..Len(file) /\ Len(file) \in Nat
    BY <1>1, <2>1, NothingPending
  <2>3. PICK u \in Bytes, at \in Nat, chunk \in Bytes, n \in Nat, size \in Nat :
           u = daemon.unread /\ at = g[last] /\ chunk = scan.chunk /\ n = Len(chunk) /\ size = Len(file)
    BY <2>2 DEF Bytes
  <2>4. /\ n \in 1..MaxChunk /\ Len(u) = last + HeaderSize
        /\ Piece(u, last, last + HeaderSize) = Header(n)
        /\ at + n <= size /\ chunk = Piece(file, at, at + n) /\ scan.rest = Piece(file, at + n, size)
    BY <1>1, <2>2, <2>3 DEF Follows
  <2>5. HeaderSize \in Nat
    BY Lengths
  <2> DEFINE end == last + HeaderSize + n
             f == [p \in DOMAIN g \cup {end} |-> IF p = end THEN at + n ELSE g[p]]
             all == u \o chunk
  <2>6. end \in Nat /\ last < end /\ last <= Len(u)
    BY <2>2, <2>4, <2>5
  <2>7. Frames(file, all, g, last)
    BY <2>2, <2>3, <2>6, FramesStay
  <2>8. /\ Len(all) = end /\ Piece(all, last, last + HeaderSize) = Header(n)
        /\ Piece(all, last + HeaderSize, end) = chunk
    <3>1. /\ Len(all) = Len(u) + Len(chunk)
          /\ \A i, j \in Nat : j <= Len(u) => Piece(all, i, j) = Piece(u, i, j)
          /\ Piece(all, Len(u), Len(u) + Len(chunk)) = chunk
      BY PieceOfTwo
    <3>2. last + HeaderSize \in Nat /\ last + HeaderSize <= Len(u)
      BY <2>2, <2>4, <2>5
    <3> HIDE DEF all
    <3>3. Piece(all, last, last + HeaderSize) = Piece(u, last, last + HeaderSize)
      BY <2>2, <3>1, <3>2
    <3> QED
      BY <2>3, <2>4, <3>1, <3>3
  <2> HIDE DEF all, end
  <2>9. DOMAIN f = DOMAIN g \cup {end} /\ f[end] = at + n /\ \A p \in DOMAIN g : p # end => f[p] = g[p]
    OBVIOUS
  <2> HIDE DEF f
  <2>10. /\ last \in DOMAIN g /\ 0 \in DOMAIN g /\ DOMAIN g \subseteq 0..last
         /\ \A p \in DOMAIN g : g[p] \in 0..size
    BY <2>2, <2>3 DEF Frames
  <2>11. \A p \in DOMAIN g : p # end /\ f[p] = g[p]
    <3>1. end \notin DOMAIN g
      BY <2>2, <2>6, <2>10
    <3> QED
      BY <2>9, <3>1
  <2>12. Frames(file, all, f, end)
    <3>1. end \in DOMAIN f /\ 0 \in DOMAIN f /\ DOMAIN f \subseteq 0..end
      BY <2>2, <2>6, <2>9, <2>10
    <3>2. \A p \in DOMAIN f : f[p] \in 0..Len(file)
      BY <2>3, <2>4, <2>9, <2>10, <2>11
    <3>3. ASSUME NEW p \in DOMAIN f \ {end}
          PROVE  \E m \in 1..MaxChunk :
                    /\ p + HeaderSize + m \in DOMAIN f
                    /\ f[p + HeaderSize + m] = f[p] + m
                    /\ Piece(all, p, p + HeaderSize) = Header(m)
                    /\ Piece(all, p + HeaderSize, p + HeaderSize + m) = Piece(file, f[p], f[p] + m)
      <4>1. p \in DOMAIN g /\ f[p] = g[p]
        BY <2>9, <2>11, <3>3
      <4>2. CASE p = last
        <5>1. end = p + HeaderSize + n
          BY <4>2 DEF end
        <5>2. f[p] = at /\ f[end] = at + n /\ end \in DOMAIN f
          BY <2>3, <2>9, <4>1, <4>2
        <5>3. Piece(all, p, p + HeaderSize) = Header(n) /\ Piece(all, p + HeaderSize, end) = Piece(file, at, at + n)
          BY <2>4, <2>8, <4>2
        <5> QED
          BY <2>4, <5>1, <5>2, <5>3
      <4>3. CASE p # last
        <5>1. PICK m \in 1..MaxChunk :
                    /\ p + HeaderSize + m \in DOMAIN g
                    /\ g[p + HeaderSize + m] = g[p] + m
                    /\ Piece(all, p, p + HeaderSize) = Header(m)
                    /\ Piece(all, p + HeaderSize, p + HeaderSize + m) = Piece(file, g[p], g[p] + m)
          BY <2>7, <4>1, <4>3 DEF Frames
        <5>2. p + HeaderSize + m \in DOMAIN f /\ f[p + HeaderSize + m] = g[p + HeaderSize + m]
          BY <2>9, <2>11, <5>1
        <5> QED
          BY <4>1, <5>1, <5>2, Zenon
      <4> QED
        BY <4>2, <4>3
    <3> QED
      BY <2>6, <3>1, <3>2, <3>3 DEF Frames
  <2>13. Follows(file, scan', all, end, f[end])
    BY <1>2, <2>3, <2>4, <2>8, <2>9 DEF Follows
  <2>14. daemon'.file = Piece(file, 0, f[0])
    BY <1>1, <2>2, <2>10, <2>11
  <2>15. FramedBy(file, scan', daemon', f, end)
    BY <1>1, <1>2, <2>2, <2>3, <2>12, <2>13, <2>14 DEF FramedBy, all
  <2> QED
    BY <2>15 DEF Framed
<1> QED
  BY <1>1, <1>2, <1>3, WritingKeeps

\* What was read goes, and the rest of the bytes is framed as it was.
Shifted(g, last, q) == [p \in {i \in 0..last : i + q \in DOMAIN g} |-> g[p + q]]

\* The frames after the first of them, counted from its end.
LEMMA FramesShift ==
    ASSUME NEW file \in Bytes, NEW all \in Bytes, NEW g, NEW last, Frames(file, all, g, last),
           last <= Len(all), NEW q \in DOMAIN g, NEW left, left = Piece(all, q, Len(all)),
           NEW f, f = Shifted(g, last, q)
    PROVE  /\ Frames(file, left, f, last - q) /\ f[0] = g[q] /\ f[last - q] = g[last]
           /\ left \in Bytes /\ Len(left) = Len(all) - q
           /\ \A i, j \in Nat : j <= Len(all) - q => Piece(left, i, j) = Piece(all, q + i, q + j)
<1>1. /\ last \in Nat /\ last \in DOMAIN g /\ 0 \in DOMAIN g /\ DOMAIN g \subseteq 0..last
      /\ \A p \in DOMAIN g : g[p] \in 0..Len(file)
  BY DEF Frames
<1>2. q \in Nat /\ q <= last /\ last - q \in Nat /\ last - q + q = last /\ 0 + q = q /\ Len(all) \in Nat
      /\ q <= Len(all)
  <2>1. q \in Nat /\ q <= last /\ Len(all) \in Nat
    BY <1>1 DEF Bytes
  <2> QED
    BY <1>1, <2>1
<1>3. /\ left \in Bytes /\ Len(left) = Len(all) - q
      /\ \A i, j \in Nat : j <= Len(all) - q => Piece(left, i, j) = Piece(all, q + i, q + j)
  <2>1. PICK m \in Nat, n \in Nat : m = q /\ n = Len(all)
    BY <1>2
  <2>2. m <= n /\ n <= Len(all)
    BY <1>2, <2>1
  <2>3. /\ Piece(all, m, n) \in Bytes /\ Len(Piece(all, m, n)) = n - m
        /\ \A i, j \in Nat : j <= n - m => Piece(Piece(all, m, n), i, j) = Piece(all, m + i, m + j)
    BY <2>2, PieceFacts
  <2> QED
    BY <2>1, <2>3, Zenon
<1>4. /\ DOMAIN f = {i \in 0..last : i + q \in DOMAIN g}
      /\ \A p \in DOMAIN f : f[p] = g[p + q]
  BY DEF Shifted
<1>5. DOMAIN f \subseteq 0..last - q /\ 0 \in DOMAIN f /\ last - q \in DOMAIN f
  <2>1. \A p \in DOMAIN f : p \in 0..last - q
    BY <1>1, <1>2, <1>4
  <2>2. 0 \in 0..last /\ last - q \in 0..last
    BY <1>1, <1>2
  <2> QED
    BY <1>1, <1>2, <1>4, <2>1, <2>2
<1>6. ASSUME NEW p \in DOMAIN f \ {last - q}
      PROVE  \E n \in 1..MaxChunk :
                /\ p + HeaderSize + n \in DOMAIN f
                /\ f[p + HeaderSize + n] = f[p] + n
                /\ Piece(left, p, p + HeaderSize) = Header(n)
                /\ Piece(left, p + HeaderSize, p + HeaderSize + n) = Piece(file, f[p], f[p] + n)
  <2>1. p \in Nat /\ p + q \in DOMAIN g \ {last} /\ f[p] = g[p + q]
    BY <1>1, <1>2, <1>4, <1>6
  <2>2. PICK n \in 1..MaxChunk :
                /\ p + q + HeaderSize + n \in DOMAIN g
                /\ g[p + q + HeaderSize + n] = g[p + q] + n
                /\ Piece(all, p + q, p + q + HeaderSize) = Header(n)
                /\ Piece(all, p + q + HeaderSize, p + q + HeaderSize + n)
                     = Piece(file, g[p + q], g[p + q] + n)
    BY <2>1 DEF Frames
  <2>3. PICK i \in Nat, j \in Nat :
           /\ i = p + HeaderSize /\ j = p + HeaderSize + n /\ i <= j /\ j \in 0..last
           /\ q + p = p + q /\ q + i = p + q + HeaderSize /\ q + j = p + q + HeaderSize + n
           /\ j + q = p + q + HeaderSize + n
           /\ i <= Len(all) - q /\ j <= Len(all) - q
    <3>1. HeaderSize \in Nat /\ n \in Nat /\ p + q + HeaderSize + n <= last
      BY <1>1, <2>2, Lengths
    <3>2. PICK h \in Nat, size \in Nat : h = HeaderSize /\ size = Len(all)
      BY <1>2, <3>1
    <3>3. p + q + h + n <= last /\ last <= size /\ p \in Nat /\ q \in Nat /\ last \in Nat /\ n \in Nat
      BY <1>1, <1>2, <2>1, <3>1, <3>2
    <3>4. /\ p + h \in Nat /\ p + h + n \in Nat /\ p + h <= p + h + n /\ p + h + n \in 0..last
          /\ q + p = p + q /\ q + (p + h) = p + q + h /\ q + (p + h + n) = p + q + h + n
          /\ p + h + n + q = p + q + h + n /\ p + h <= size - q /\ p + h + n <= size - q
      BY <3>3
    <3> QED
      BY <3>2, <3>4
  <2>4. j \in DOMAIN f /\ f[j] = g[p + q + HeaderSize + n]
    BY <1>4, <2>2, <2>3
  <2>5. Piece(left, p, i) = Piece(all, q + p, q + i) /\ Piece(left, i, j) = Piece(all, q + i, q + j)
    BY <1>3, <2>1, <2>3
  <2> QED
    BY <2>1, <2>2, <2>3, <2>4, <2>5, Zenon
<1>7. \A p \in DOMAIN f : f[p] \in 0..Len(file)
  BY <1>1, <1>4
<1>8. Frames(file, left, f, last - q)
  BY <1>2, <1>5, <1>6, <1>7 DEF Frames
<1> QED
  BY <1>2, <1>3, <1>4, <1>5, <1>8

\* Three sequences put together, in either order.
LEMMA Associates ==
    ASSUME NEW a \in Bytes, NEW b \in Bytes, NEW c \in Bytes
    PROVE  (a \o b) \o c = a \o (b \o c)
BY ConcatAssociative DEF Bytes

\* The end of the first of two sequences and then the second.
LEMMA EndOfTwo ==
    ASSUME NEW u \in Bytes, NEW p \in Bytes, NEW k \in Nat, k <= Len(u)
    PROVE  /\ Piece(u, k, Len(u)) \o p = Piece(u \o p, k, Len(u \o p))
           /\ Piece(u, k, Len(u)) \in Bytes
<1> DEFINE all == u \o p
           v == Piece(u, k, Len(u))
           left == v \o p
<1>1. PICK a \in Bytes, b \in Bytes : a = Piece(u, 0, k) /\ b = Piece(u, k, Len(u)) /\ a \o b = u
  BY CutInTwo
<1>2. Len(a) = k
  <2>1. 0 \in Nat /\ 0 <= k /\ k - 0 = k
    OBVIOUS
  <2> QED
    BY <1>1, <2>1, PieceFacts
<1>3. all = a \o left /\ left \in Bytes
  <2>1. (a \o b) \o p = a \o (b \o p)
    BY Associates
  <2>2. b \o p \in Bytes
    BY PieceOfTwo
  <2> QED
    BY <1>1, <2>1, <2>2
<1>4. Len(a \o left) = Len(a) + Len(left) /\ Piece(a \o left, Len(a), Len(a) + Len(left)) = left
  BY <1>3, PieceOfTwo
<1> QED
  BY <1>1, <1>2, <1>3, <1>4

\* A beginning and the piece that follows it.
LEMMA BeginningGrows ==
    ASSUME NEW file \in Bytes, NEW i \in Nat, NEW n \in Nat, i + n <= Len(file)
    PROVE  Piece(file, 0, i) \o Piece(file, i, i + n) = Piece(file, 0, i + n)
<1>1. PICK m \in Nat : m = 0
  OBVIOUS
<1>2. m <= i
  BY <1>1
<1>3. SubSeq(file, m + 1, i) \o SubSeq(file, i + 1, i + n) = SubSeq(file, m + 1, i + n)
  BY <1>2, PiecesJoin
<1> QED
  BY <1>1, <1>3 DEF Piece

\* Which length the daemon reads, if any: that of the next chunk, or the zero at
\* the file's end.
IsWritten(file, s, bytes, g, last) ==
    Frames(file, bytes, g, last) /\ Follows(file, s, bytes, last, g[last])

AtTheEnd(file, g) == g[0] = Len(file)

ChunkComes(file, bytes, g, n) ==
    /\ HeaderSize + n \in DOMAIN g
    /\ g[HeaderSize + n] = g[0] + n
    /\ Piece(bytes, HeaderSize, HeaderSize + n) = Piece(file, g[0], g[0] + n)

\* A length the daemon reads at the beginning of what is on its way was written
\* there: zero only at the end of the file, another before so many bytes of it.
LEMMA DaemonReadsWhatWasWritten ==
    ASSUME NEW file \in Bytes, NEW s, NEW bytes \in Bytes, NEW g, NEW last,
           IsWritten(file, s, bytes, g, last),
           NEW size \in Nat, HeaderSize <= size, size <= Len(bytes),
           NEW n \in 0..MaxChunk, Piece(bytes, 0, HeaderSize) = Header(n)
    PROVE  /\ last \in Nat /\ last <= Len(bytes)
           /\ n = 0 => AtTheEnd(file, g)
           /\ n > 0 /\ HeaderSize + n <= size => ChunkComes(file, bytes, g, n)
<1> USE DEF IsWritten, AtTheEnd, ChunkComes
<1>1. /\ last \in Nat /\ last \in DOMAIN g /\ 0 \in DOMAIN g /\ DOMAIN g \subseteq 0..last
      /\ \A p \in DOMAIN g : g[p] \in 0..Len(file)
  BY DEF Frames
<1>2. PICK h \in Nat, all \in Nat : h = HeaderSize /\ h > 0 /\ all = Len(bytes)
  <2>1. Len(bytes) \in Nat
    BY DEF Bytes
  <2> QED
    BY <2>1, Lengths
<1>3. \A k \in 0..MaxChunk : Piece(bytes, 0, h) = Header(k) => k = n
  BY <1>2, Lengths
<1>4. last <= all
  BY <1>1, <1>2 DEF Follows
<1>5. CASE last # 0
  <2>1. PICK m \in 1..MaxChunk :
           /\ 0 + HeaderSize + m \in DOMAIN g
           /\ g[0 + HeaderSize + m] = g[0] + m
           /\ Piece(bytes, 0, 0 + HeaderSize) = Header(m)
           /\ Piece(bytes, 0 + HeaderSize, 0 + HeaderSize + m) = Piece(file, g[0], g[0] + m)
    BY <1>1, <1>5 DEF Frames
  <2>2. 0 + HeaderSize = h
    BY <1>2
  <2>3. m \in 0..MaxChunk /\ m \in Nat /\ m > 0
    BY Lengths
  <2>4. m = n
    BY <1>3, <2>1, <2>2, <2>3
  <2>5. n # 0
    BY <2>3, <2>4
  <2> QED
    BY <1>1, <1>2, <1>4, <2>1, <2>2, <2>4, <2>5, Zenon
<1>6. CASE last = 0
  <2>1. ~(s.pc \in {"connect", "read"} /\ Len(bytes) = last)
    BY <1>2, <1>6
  <2>2. CASE /\ Len(s.chunk) \in 1..MaxChunk
             /\ Len(bytes) = last + HeaderSize
             /\ Piece(bytes, last, last + HeaderSize) = Header(Len(s.chunk))
    <3>1. PICK m \in 1..MaxChunk : m = Len(s.chunk)
      BY <2>2
    <3>2. 0 + HeaderSize = h /\ m \in 0..MaxChunk /\ m > 0
      BY <1>2, Lengths
    <3>3. Piece(bytes, 0, h) = Header(m)
      BY <1>6, <2>2, <3>1, <3>2
    <3>4. m = n
      BY <1>3, <3>2, <3>3
    <3>5. ~(h + n <= size)
      <4>1. all = h
        BY <1>2, <1>6, <2>2, <3>2
      <4> QED
        BY <1>2, <3>2, <3>4, <4>1
    <3> QED
      BY <1>1, <1>2, <1>4, <3>2, <3>4, <3>5
  <2>3. CASE /\ Len(bytes) = last + HeaderSize
             /\ Piece(bytes, last, last + HeaderSize) = Header(0)
             /\ g[last] = Len(file)
    <3>1. 0 + HeaderSize = h /\ 0 \in 0..MaxChunk
      BY <1>2, Lengths
    <3>2. Piece(bytes, 0, h) = Header(0)
      BY <1>6, <2>3, <3>1
    <3>3. n = 0
      BY <1>3, <3>1, <3>2
    <3> QED
      BY <1>1, <1>2, <1>4, <1>6, <2>3, <3>3
  <2> QED
    BY <2>1, <2>2, <2>3 DEF Follows
<1> QED
  BY <1>5, <1>6

\* The daemon takes a frame: the chunk that follows what it has of the file, or the
\* length zero when it has all of it.
LEMMA DaemonReadsKeeps ==
    ASSUME NEW file \in Bytes, Scanning(file, scan, daemon), scan.settled = "no", DaemonReads
    PROVE  Scanning(file, scan', daemon')
<1>1. /\ DOMAIN scan = {"pc", "rest", "chunk", "pending", "settled", "response", "socket"}
      /\ DOMAIN daemon = {"pc", "unread", "file", "toSay"}
      /\ daemon.pc = "reads" /\ scan' = scan /\ Framed(file, scan, daemon)
      /\ scan.response = <<>> /\ daemon.toSay = <<>>
      /\ scan.pc \in {"connect", "read", "write", "end"}
      /\ scan.socket = "connecting" => scan.pc = "connect"
  BY DEF Scanning, DaemonReads
<1>2. PICK g, last : FramedBy(file, scan, daemon, g, last)
  BY <1>1 DEF Framed
<1>3. PICK u \in Bytes, p \in Bytes, all \in Bytes, size \in Nat :
         u = daemon.unread /\ p = scan.pending /\ all = u \o p /\ size = Len(u)
  <2>1. daemon.unread \in Bytes /\ scan.pending \in Bytes
    BY <1>2 DEF FramedBy
  <2>2. daemon.unread \o scan.pending \in Bytes
    BY <2>1, PieceOfTwo
  <2>3. Len(daemon.unread) \in Nat
    BY <2>1 DEF Bytes
  <2> QED
    BY <2>1, <2>2, <2>3
<1>4. /\ Frames(file, all, g, last) /\ Follows(file, scan, all, last, g[last])
      /\ daemon.file = Piece(file, 0, g[0]) /\ scan.rest \in Bytes /\ scan.chunk \in Bytes
  BY <1>2, <1>3 DEF FramedBy
<1>5. /\ size <= Len(all) /\ Len(all) \in Nat
      /\ \A i, j \in Nat : j <= size => Piece(all, i, j) = Piece(u, i, j)
  <2>1. /\ Len(u \o p) = Len(u) + Len(p)
        /\ \A i, j \in Nat : j <= Len(u) => Piece(u \o p, i, j) = Piece(u, i, j)
    BY PieceOfTwo
  <2>2. Len(p) \in Nat /\ size <= size + Len(p) /\ size + Len(p) \in Nat
    <3>1. Len(p) \in Nat
      BY DEF Bytes
    <3> QED
      BY <3>1
  <2>3. Len(all) = size + Len(p)
    BY <1>3, <2>1, Zenon
  <2>4. \A i, j \in Nat : j <= size => Piece(all, i, j) = Piece(u, i, j)
    BY <1>3, <2>1, Zenon
  <2> QED
    BY <2>2, <2>3, <2>4, Zenon
<1>6. HeaderSize \in Nat /\ HeaderSize <= size
  BY <1>3, Lengths DEF DaemonReads
<1>7. ASSUME NEW n \in 0..MaxChunk, IsHeader(daemon.unread, n)
      PROVE  Piece(all, 0, HeaderSize) = Header(n)
  <2>1. Piece(u, 0, HeaderSize) = Header(n)
    BY <1>3, <1>7, 0 + 1 = 1 DEF IsHeader, Piece
  <2> QED
    BY <1>5, <1>6, <2>1, 0 \in Nat
<1>8. g[0] \in Nat /\ last \in Nat /\ 0 \in DOMAIN g
  BY <1>4 DEF Frames
<1>9. CASE IsHeader(daemon.unread, 0) /\ daemon' = [daemon EXCEPT !.pc = "whole"]
  <2>1. 0 \in 0..MaxChunk
    BY Lengths
  <2>2. Piece(all, 0, HeaderSize) = Header(0)
    BY <1>7, <1>9, <2>1
  <2>3. g[0] = Len(file)
    <3>1. IsWritten(file, scan, all, g, last)
      BY <1>4 DEF IsWritten
    <3>2. HeaderSize <= size /\ size <= Len(all)
      BY <1>5, <1>6
    <3>3. PICK n \in 0..MaxChunk : n = 0
      BY <2>1
    <3>4. Piece(all, 0, HeaderSize) = Header(n)
      BY <2>2, <3>3
    <3>5. n = 0 => AtTheEnd(file, g)
      BY <3>1, <3>2, <3>4, DaemonReadsWhatWasWritten
    <3> QED
      BY <3>3, <3>5 DEF AtTheEnd
  <2>4. daemon.file = file
    BY <1>4, <2>3, SubSeqFull, 0 + 1 = 1 DEF Piece, Bytes
  <2>5. daemon'.pc = "whole" /\ DOMAIN daemon' = DOMAIN daemon /\ daemon'.file = daemon.file
        /\ daemon'.toSay = daemon.toSay
    BY <1>1, <1>9
  <2> QED
    BY <1>1, <2>4, <2>5 DEF Scanning
<1>10. ASSUME NEW n \in 1..MaxChunk, IsHeader(daemon.unread, n),
              Len(daemon.unread) >= HeaderSize + n,
              daemon' = [daemon EXCEPT
                   !.file = @ \o SubSeq(daemon.unread, HeaderSize + 1, HeaderSize + n),
                   !.unread = SubSeq(@, HeaderSize + n + 1, Len(@))]
       PROVE  Scanning(file, scan', daemon')
  <2>1. n \in 0..MaxChunk /\ n \in Nat /\ n > 0 /\ HeaderSize + n <= size
    BY <1>3, <1>6, <1>10, Lengths
  <2>2. Piece(all, 0, HeaderSize) = Header(n)
    BY <1>7, <1>10, <2>1
  <2>3. /\ last <= Len(all) /\ HeaderSize + n \in DOMAIN g
        /\ g[HeaderSize + n] = g[0] + n
        /\ Piece(all, HeaderSize, HeaderSize + n) = Piece(file, g[0], g[0] + n)
    <3>1. IsWritten(file, scan, all, g, last)
      BY <1>4 DEF IsWritten
    <3>2. HeaderSize <= size /\ size <= Len(all)
      BY <1>5, <1>6
    <3>3. last <= Len(all) /\ ChunkComes(file, all, g, n)
      BY <2>1, <2>2, <3>1, <3>2, DaemonReadsWhatWasWritten
    <3> QED
      BY <3>3 DEF ChunkComes
  <2>4. PICK q \in Nat, at \in Nat : q = HeaderSize + n /\ at = g[0] /\ q <= size
    BY <1>6, <1>8, <2>1
  <2>5. /\ daemon'.pc = "reads" /\ DOMAIN daemon' = DOMAIN daemon /\ daemon'.toSay = daemon.toSay
        /\ daemon'.file = daemon.file \o Piece(u, HeaderSize, q)
        /\ daemon'.unread = Piece(u, q, size)
    BY <1>1, <1>3, <1>10, <2>4 DEF Piece
  <2>6. Piece(u, HeaderSize, q) = Piece(file, at, at + n) /\ at + n = g[q] /\ q \in DOMAIN g
    BY <1>5, <1>6, <2>3, <2>4
  <2>7. daemon'.file = Piece(file, 0, g[q])
    <3>1. at + n <= Len(file)
      BY <1>4, <2>6 DEF Frames
    <3>2. daemon.file = Piece(file, 0, at)
      BY <1>4, <2>4
    <3>3. Piece(file, 0, at) \o Piece(file, at, at + n) = Piece(file, 0, at + n)
      <4>1. n \in Nat
        BY <2>1
      <4> QED
        BY <3>1, <4>1, BeginningGrows
    <3> QED
      BY <2>5, <2>6, <3>2, <3>3, Zenon
  <2>8. PICK left : left = daemon'.unread \o p
    OBVIOUS
  <2>9. left = Piece(all, q, Len(all)) /\ daemon'.unread \in Bytes
    <3>1. q <= Len(u)
      BY <1>3, <2>4
    <3>2. Piece(u, q, Len(u)) \o p = Piece(u \o p, q, Len(u \o p)) /\ Piece(u, q, Len(u)) \in Bytes
      BY <3>1, EndOfTwo
    <3> QED
      BY <1>3, <2>5, <2>8, <3>2, Zenon
  <2>10. PICK f : f = Shifted(g, last, q)
    OBVIOUS
  <2>11. /\ Frames(file, left, f, last - q) /\ f[0] = g[q] /\ f[last - q] = g[last]
         /\ left \in Bytes /\ Len(left) = Len(all) - q
         /\ \A i, j \in Nat : j <= Len(all) - q => Piece(left, i, j) = Piece(all, q + i, q + j)
    <3>1. Frames(file, all, g, last) /\ last <= Len(all) /\ q \in DOMAIN g
      BY <1>4, <2>3, <2>6
    <3>2. left = Piece(all, q, Len(all))
      BY <2>9
    <3> QED
      BY <2>10, <3>1, <3>2, FramesShift
  <2>12. Follows(file, scan, left, last - q, g[last])
    <3>1. q <= last /\ last - q \in Nat /\ last - q + HeaderSize \in Nat
          /\ q + (last - q) = last /\ q + (last - q + HeaderSize) = last + HeaderSize
          /\ last - q = last - q
      <4>1. q <= last
        BY <1>4, <2>6 DEF Frames
      <4> QED
        BY <1>6, <1>8, <4>1
    <3>2. Len(all) = last => Len(left) = last - q
      BY <2>11
    <3>3. ASSUME Len(all) = last + HeaderSize
          PROVE  /\ Len(left) = last - q + HeaderSize
                 /\ Piece(left, last - q, last - q + HeaderSize) = Piece(all, last, last + HeaderSize)
      <4>1. Len(left) = last - q + HeaderSize
        BY <1>6, <1>8, <2>11, <3>3
      <4>2. last - q + HeaderSize <= Len(all) - q
        BY <1>6, <1>8, <3>3
      <4>3. Piece(left, last - q, last - q + HeaderSize)
              = Piece(all, q + (last - q), q + (last - q + HeaderSize))
        BY <2>11, <3>1, <4>2
      <4> QED
        BY <3>1, <4>1, <4>3
    <3> QED
      BY <1>4, <3>2, <3>3 DEF Follows
  <2>13. FramedBy(file, scan', daemon', f, last - q)
    BY <1>1, <1>3, <1>4, <2>7, <2>8, <2>9, <2>11, <2>12 DEF FramedBy
  <2>14. Framed(file, scan', daemon')
    BY <2>13 DEF Framed
  <2> QED
    BY <1>1, <2>5, <2>14 DEF Scanning
<1> QED
  BY <1>9, <1>10 DEF DaemonReads

\* The daemon answers when it likes, and with more than an error only once it has
\* the whole file.
LEMMA DaemonAnswersKeeps ==
    ASSUME NEW file, Scanning(file, scan, daemon), scan.settled = "no", DaemonAnswers
    PROVE  Scanning(file, scan', daemon')
<1>1. /\ DOMAIN scan = {"pc", "rest", "chunk", "pending", "settled", "response", "socket"}
      /\ DOMAIN daemon = {"pc", "unread", "file", "toSay"}
      /\ daemon.pc \in {"reads", "whole"} /\ scan' = scan /\ scan.response = <<>>
      /\ scan.pc \in {"connect", "read", "write", "end"}
      /\ scan.socket = "connecting" => scan.pc = "connect"
      /\ daemon.pc = "whole" => daemon.file = file
  BY DEF Scanning, DaemonAnswers
<1>2. PICK answer \in {"error"} \cup
           (IF daemon.pc # "whole" THEN {}
            ELSE {IF "v" \in ToSet(daemon.file) THEN "FOUND" ELSE "OK"}) :
          daemon' = [daemon EXCEPT !.pc = "answered", !.toSay = <<answer, "zero">>]
  BY DEF DaemonAnswers
<1>3. /\ DOMAIN daemon' = DOMAIN daemon /\ daemon'.pc = "answered" /\ daemon'.file = daemon.file
      /\ daemon'.toSay = <<answer, "zero">>
  BY <1>1, <1>2
<1>4. answer \in {"error", "OK", "FOUND"} /\ Means(file, daemon', answer)
  BY <1>1, <1>2, <1>3 DEF Means
<1>5. Answers(file, scan', daemon')
  BY <1>1, <1>3, <1>4 DEF Answers
<1> QED
  BY <1>1, <1>3, <1>5 DEF Scanning

\* Sequences of one and of two elements, and how they come apart and together.
LEMMA OneOrTwo ==
    ASSUME NEW S, NEW s \in Seq(S)
    PROVE  /\ \A a : Len(s) = 1 /\ s[1] = a => s = <<a>>
           /\ \A a, b : Len(s) = 2 /\ s[1] = a /\ s[2] = b => s = <<a, b>>
OBVIOUS

\* The parts of a sequence of two.
LEMMA PartsOfTwo ==
    ASSUME NEW S, NEW s \in Seq(S), Len(s) = 2
    PROVE  SubSeq(s, 1, 1) = <<s[1]>> /\ SubSeq(s, 2, 2) = <<s[2]>> /\ SubSeq(s, 1, 2) = s
<1>1. ASSUME NEW t, t = SubSeq(s, 1, 1) PROVE t = <<s[1]>>
  <2>1. Len(t) = 1 /\ t \in Seq(S) /\ t[1] = s[1]
    BY <1>1
  <2> QED
    BY <2>1, OneOrTwo
<1>2. ASSUME NEW t, t = SubSeq(s, 2, 2) PROVE t = <<s[2]>>
  <2>1. Len(t) = 1 /\ t \in Seq(S) 
    BY <1>2
  <2>2. t[1] = s[2]
    BY <1>2, SubSeqProperties
  <2> QED
    BY <2>1, <2>2, OneOrTwo
<1>3. SubSeq(s, 1, 2) = s
  BY SubSeqFull
<1> QED
  BY <1>1, <1>2, <1>3, Zenon

Joined(s, t) == s \o t

\* Two sequences of one.
LEMMA TwoOnes ==
    ASSUME NEW S, NEW a \in S, NEW b \in S
    PROVE  <<a>> \o <<b>> = <<a, b>>
<1>1. ASSUME NEW s, NEW t, s = <<a>>, t = <<b>> PROVE Joined(s, t) = <<a, b>>
  <2>1. Len(s) = 1 /\ s[1] = a /\ Len(t) = 1 /\ t[1] = b /\ s \in Seq(S) /\ t \in Seq(S)
    BY <1>1
  <2>2. /\ Len(Joined(s, t)) = 2 /\ Joined(s, t) \in Seq(S)
        /\ Joined(s, t)[1] = a /\ Joined(s, t)[2] = b
    BY <2>1, ConcatProperties DEF Joined
  <2> QED
    BY <2>2, OneOrTwo
<1> QED
  BY <1>1, Zenon DEF Joined

\* The pieces an answer may come in.
Heard(response, toSay, n) == response \o SubSeq(toSay, 1, n)
Unheard(toSay, n) == SubSeq(toSay, n + 1, Len(toSay))

\* An answer is heard at once or in two pieces, and only the last has its end.
LEMMA PiecesOfAnAnswer ==
    ASSUME NEW a, a # "zero"
    PROVE  /\ \A n \in 1..Len(<<a, "zero">>) :
                 \/ /\ Heard(<<>>, <<a, "zero">>, n) = <<a>>
                    /\ Unheard(<<a, "zero">>, n) = <<"zero">>
                 \/ Heard(<<>>, <<a, "zero">>, n) = <<a, "zero">>
           /\ \A n \in 1..Len(<<"zero">>) : Heard(<<a>>, <<"zero">>, n) = <<a, "zero">>
           /\ "zero" \notin ToSet(<<a>>) /\ "zero" \in ToSet(<<a, "zero">>)
<1>1. PICK S : a \in S /\ "zero" \in S
  <2>1. a \in {a, "zero"} /\ "zero" \in {a, "zero"}
    OBVIOUS
  <2> QED
    BY <2>1, Zenon
<1>2. ASSUME NEW s, s = <<a, "zero">>, NEW n \in 1..Len(s)
      PROVE  \/ Heard(<<>>, s, n) = <<a>> /\ Unheard(s, n) = <<"zero">>
             \/ Heard(<<>>, s, n) = s
  <2>1. s \in Seq(S) /\ Len(s) = 2 /\ s[1] = a /\ s[2] = "zero"
    BY <1>2, <1>1
  <2>2. SubSeq(s, 1, 1) = <<a>> /\ SubSeq(s, 2, 2) = <<"zero">> /\ SubSeq(s, 1, 2) = s
    BY <2>1, PartsOfTwo
  <2>3. <<a>> \in Seq(S) /\ <<>> \o <<a>> = <<a>> /\ <<>> \o s = s
    BY <1>1, ConcatEmptySeq, <2>1
  <2>4. n = 1 \/ n = 2
    BY <1>2, <2>1
  <2>5. CASE n = 1
    <3>1. Heard(<<>>, s, n) = <<a>>
      BY <2>2, <2>3, <2>5, Zenon DEF Heard
    <3>2. Unheard(s, n) = <<"zero">>
      BY <2>1, <2>2, <2>5, 1 + 1 = 2, Zenon DEF Unheard
    <3> QED
      BY <3>1, <3>2
  <2>6. CASE n = 2
    BY <2>2, <2>3, <2>6, Zenon DEF Heard
  <2> QED
    BY <2>4, <2>5, <2>6
<1>3. ASSUME NEW s, s = <<"zero">>, NEW n \in 1..Len(s) PROVE Heard(<<a>>, s, n) = <<a, "zero">>
  <2>1. n = 1 /\ s \in Seq(S) /\ Len(s) = 1
    BY <1>3, <1>1
  <2>2. SubSeq(s, 1, n) = s
    BY <2>1, SubSeqFull
  <2>4. <<a>> \o <<"zero">> = <<a, "zero">>
    BY <1>1, TwoOnes
  <2> QED
    BY <1>3, <2>2, <2>4, Zenon DEF Heard
<1>4. "zero" \notin ToSet(<<a>>) /\ "zero" \in ToSet(<<a, "zero">>)
  <2>1. <<a, "zero">>[2] = "zero" /\ 2 \in DOMAIN <<a, "zero">>
    OBVIOUS
  <2>2. \A i \in DOMAIN <<a>> : <<a>>[i] = a
    OBVIOUS
  <2> QED
    BY <2>1, <2>2 DEF ToSet
<1> QED
  BY <1>2, <1>3, <1>4, Zenon

\* Only a complete answer settles the promise, as what it says.
LEMMA DataKeeps ==
    ASSUME NEW file, Scanning(file, scan, daemon), scan.settled = "no", Data
    PROVE  Scanning(file, scan', daemon')
<1>1. /\ DOMAIN scan = {"pc", "rest", "chunk", "pending", "settled", "response", "socket"}
      /\ DOMAIN daemon = {"pc", "unread", "file", "toSay"}
      /\ scan.pc \in {"connect", "read", "write", "end"} /\ scan.socket = "open"
      /\ daemon.pc = "answered" /\ Answers(file, scan, daemon)
  BY DEF Scanning, Data
<1>2. PICK answer \in {"error", "OK", "FOUND"} :
        /\ Means(file, daemon, answer)
        /\ \/ scan.response = <<>> /\ daemon.toSay = <<answer, "zero">>
           \/ scan.response = <<answer>> /\ daemon.toSay = <<"zero">>
  BY <1>1 DEF Answers
<1>3. PICK n, response :
         /\ n \in 1..Len(daemon.toSay)
         /\ response = Heard(scan.response, daemon.toSay, n)
         /\ scan' = IF "zero" \in ToSet(response)
                    THEN Settle([[scan EXCEPT !.response = response] EXCEPT !.socket = "closed"],
                                Verdict(response))
                    ELSE [scan EXCEPT !.response = response]
         /\ daemon' = [daemon EXCEPT !.toSay = Unheard(@, n)]
  BY DEF Data, Heard, Unheard
<1>4. /\ DOMAIN daemon' = DOMAIN daemon /\ daemon'.pc = "answered" /\ daemon'.file = daemon.file
      /\ daemon'.toSay = Unheard(daemon.toSay, n)
  BY <1>1, <1>3
<1>5. \/ /\ response = <<answer>> /\ Unheard(daemon.toSay, n) = <<"zero">>
         /\ "zero" \notin ToSet(response)
      \/ response = <<answer, "zero">> /\ "zero" \in ToSet(response)
  <2>1. answer # "zero"
    BY <1>2
  <2> QED
    BY <1>2, <1>3, <2>1, PiecesOfAnAnswer, Zenon
<1>6. CASE /\ response = <<answer>> /\ Unheard(daemon.toSay, n) = <<"zero">>
           /\ "zero" \notin ToSet(response)
  <2>1. /\ DOMAIN scan' = DOMAIN scan /\ scan'.pc = scan.pc /\ scan'.settled = "no"
        /\ scan'.socket = "open" /\ scan'.response = response
    BY <1>1, <1>3, <1>6
  <2>2. Means(file, daemon', answer)
    BY <1>2, <1>4 DEF Means
  <2>3. Answers(file, scan', daemon')
    BY <1>4, <1>6, <2>1, <2>2, Zenon DEF Answers
  <2> QED
    BY <1>1, <1>4, <2>1, <2>3 DEF Scanning
<1>7. CASE response = <<answer, "zero">> /\ "zero" \in ToSet(response)
  <2>1. response[1] = answer
    BY <1>7
  <2>2. scan' = Settle([[scan EXCEPT !.response = response] EXCEPT !.socket = "closed"],
                       Verdict(response))
    BY <1>3, <1>7
  <2>3. /\ Verdict(response) \in {"clean", "infected", "failed"}
        /\ Verdict(response) = "clean" => answer = "OK"
        /\ Verdict(response) = "infected" => answer = "FOUND"
    BY <1>2, <2>1 DEF Verdict
  <2>4. PICK verdict : verdict = Verdict(response)
    OBVIOUS
  <2>5. DOMAIN scan' = DOMAIN scan /\ scan'.pc = scan.pc /\ scan'.settled = verdict
    BY <1>1, <2>2, <2>4 DEF Settle
  <2>6. verdict \in {"clean", "infected"} =>
           daemon'.file = file /\ (verdict = "infected" <=> "v" \in ToSet(file))
    BY <1>2, <1>4, <2>3, <2>4 DEF Means
  <2> QED
    BY <1>1, <1>4, <2>3, <2>4, <2>5, <2>6 DEF Scanning
<1> QED
  BY <1>5, <1>6, <1>7

\* While the promise is not settled, every step of the scan keeps what it says of
\* the file; afterwards too.
LEMMA ScanStepKeeps ==
    ASSUME NEW file \in Bytes, Scanning(file, scan, daemon), ScanStep
    PROVE  Scanning(file, scan', daemon')
<1>1. CASE scan.settled # "no"
  BY <1>1, SettledStays
<1>2. CASE scan.settled = "no"
  <2>1. /\ DOMAIN scan = {"pc", "rest", "chunk", "pending", "settled", "response", "socket"}
        /\ scan.pc \in {"connect", "read", "write", "end"}
    BY DEF Scanning
  <2>2. CASE Timeout
    <3>1. /\ DOMAIN scan' = DOMAIN scan /\ scan'.pc = scan.pc /\ scan'.settled = "failed"
          /\ daemon' = daemon
      BY <1>2, <2>1, <2>2 DEF Timeout, Settle
    <3> QED
      BY <2>1, <3>1, FailingSaysNothing
  <2>3. CASE Close
    <3>1. /\ DOMAIN scan' = DOMAIN scan /\ scan'.pc = scan.pc /\ scan'.settled = "failed"
          /\ daemon' = daemon
      BY <1>2, <2>1, <2>3 DEF Close, Settle
    <3> QED
      BY <2>1, <3>1, FailingSaysNothing
  <2> QED
    BY <1>2, <2>2, <2>3, OpenKeeps, FlushPendingKeeps, ReadChunkKeeps, WriteChunkKeeps,
       DaemonReadsKeeps, DaemonAnswersKeeps, DataKeeps DEF ScanStep
<1> QED
  BY <1>1, <1>2

\* A scan begins with the whole file to write, and a daemon that has read nothing.
LEMMA ScanBegins ==
    ASSUME NEW file \in Bytes, scan = NoScan, daemon = NoDaemon, StartScan(file)
    PROVE  Scanning(file, scan', daemon')
<1>1. /\ DOMAIN scan' = {"pc", "rest", "chunk", "pending", "settled", "response", "socket"}
      /\ scan'.pc = "connect" /\ scan'.rest = file /\ scan'.socket = "connecting"
      /\ scan'.settled = "no" /\ scan'.response = <<>>
      /\ scan'.chunk = <<>> /\ scan'.pending = <<>>
  BY DEF StartScan, NoScan
<1>2. /\ DOMAIN daemon' = {"pc", "unread", "file", "toSay"} /\ daemon'.pc = "reads"
      /\ daemon'.unread = <<>> /\ daemon'.file = <<>> /\ daemon'.toSay = <<>>
  BY DEF StartScan, NoDaemon
<1>3. <<>> \in Bytes /\ <<>> \o <<>> = <<>> /\ Len(<<>>) = 0
  BY ConcatEmptySeq DEF Bytes
<1>4. PICK g : DOMAIN g = {0} /\ g[0] = 0
  <2>1. [p \in {0} |-> 0][0] = 0 /\ DOMAIN [p \in {0} |-> 0] = {0}
    OBVIOUS
  <2> QED
    BY <2>1, Zenon
<1>5. Frames(file, <<>>, g, 0)
  <2>1. Len(file) \in Nat
    BY DEF Bytes
  <2> QED
    BY <1>4, <2>1 DEF Frames
<1>6. Piece(file, 0, Len(file)) = file /\ Piece(file, 0, 0) = <<>>
  <2>1. SubSeq(file, 0 + 1, Len(file)) = file
    BY SubSeqFull, 0 + 1 = 1 DEF Bytes
  <2>2. SubSeq(file, 0 + 1, 0) = <<>>
    BY SubSeqEmpty, 0 < 0 + 1, 0 + 1 \in Int, 0 \in Int
  <2> QED
    BY <2>1, <2>2 DEF Piece
<1>7. Follows(file, scan', <<>>, 0, 0)
  BY <1>1, <1>3, <1>6, Zenon DEF Follows
<1>8. FramedBy(file, scan', daemon', g, 0)
  BY <1>1, <1>2, <1>3, <1>4, <1>5, <1>6, <1>7, Zenon DEF FramedBy
<1>9. Framed(file, scan', daemon')
  BY <1>8 DEF Framed
<1> QED
  BY <1>1, <1>2, <1>9 DEF Scanning

\* The scan is of one of the items that were collected, whole because it was not
\* too large; before there is one, nothing is connected.
ScanOf(i, items, s, d) ==
    /\ i \in DOMAIN items
    /\ items[i].sizeBytes \in 1..MaxBytesPerFile
    /\ Scanning(items[i].chunks, s, d)

JourneyInv ==
    /\ ReaderInv
    /\ stored = 0 => scan = NoScan /\ daemon = NoDaemon
    /\ stored # 0 => Collected /\ ScanOf(stored, reader.items, scan, daemon)

\* What was collected is bytes.
LEMMA ItemsAreBytes ==
    ASSUME ReaderInv, NEW i \in DOMAIN reader.items
    PROVE  reader.items[i].chunks \in Bytes /\ i # 0
<1>1. reader.items \in Seq([chunks : Bytes, sizeBytes : Nat])
  BY DEF ReaderInv, Oriented, ReaderType, Items
<1>2. i \in 1..Len(reader.items) /\ i # 0
  BY <1>1
<1>3. reader.items[i] \in [chunks : Bytes, sizeBytes : Nat]
  BY <1>1, <1>2, ElementOfSeq
<1> QED
  BY <1>2, <1>3

\* Before a scan is begun none of its steps can be taken.
LEMMA NothingToScan ==
    ASSUME scan = NoScan, daemon = NoDaemon
    PROVE  ~ScanStep
<1>1. Len(<<>>) = 0
  OBVIOUS
<1>2. ~(Len(daemon.unread) >= HeaderSize)
  BY <1>1, Lengths DEF NoDaemon
<1> QED
  BY <1>2 DEF NoScan, NoDaemon, ScanStep, Timeout, Open, FlushPending, ReadChunk, WriteChunk,
     DaemonReads, DaemonAnswers, Data, Close

LEMMA JourneyBegins == JourneyInit => JourneyInv
BY ReaderBegins DEF JourneyInit, JourneyInv, ScanInit

\* Each step of the journey keeps its invariant.
LEMMA JourneyKeeps ==
    ASSUME JourneyInv, ReaderInv', [JourneyNext]_journeyVars
    PROVE  JourneyInv'
<1>1. CASE Collect
  <2>1. ~Collected /\ UNCHANGED <<scan, daemon, stored>>
    BY <1>1 DEF Collect, ReadOn, FindFirstBoundary, AfterDelimiter, ReadHeaders, ReadBody,
       ReaderAt, Collected, scanVars
  <2> QED
    BY <2>1 DEF JourneyInv
<1>2. CASE Scan
  <2>1. PICK i \in DOMAIN reader.items :
          /\ reader.items[i].sizeBytes \in 1..MaxBytesPerFile
          /\ stored' = i
          /\ StartScan(reader.items[i].chunks)
    BY <1>2 DEF Scan
  <2>2. Collected /\ scan = NoScan /\ daemon = NoDaemon /\ UNCHANGED <<sent, wire, reader>>
    BY <1>2 DEF Scan, JourneyInv, readerVars
  <2>3. reader.items[i].chunks \in Bytes /\ i # 0
    BY ItemsAreBytes DEF JourneyInv
  <2>4. Scanning(reader.items[i].chunks, scan', daemon')
    BY <2>1, <2>2, <2>3, ScanBegins
  <2>5. ScanOf(i, reader.items, scan', daemon')
    BY <2>1, <2>4 DEF ScanOf
  <2> QED
    BY <2>1, <2>2, <2>3, <2>5 DEF JourneyInv, Collected, ReaderAt
<1>3. CASE KeepScanning
  <2>1. ScanStep /\ UNCHANGED <<sent, wire, reader, stored>>
    BY <1>3 DEF KeepScanning, readerVars
  <2>2. stored # 0
    BY <2>1, NothingToScan DEF JourneyInv
  <2>3. Collected /\ ScanOf(stored, reader.items, scan, daemon)
    BY <2>2 DEF JourneyInv
  <2>4. reader.items[stored].chunks \in Bytes
    BY <2>3, ItemsAreBytes DEF JourneyInv, ScanOf
  <2>5. Scanning(reader.items[stored].chunks, scan', daemon')
    BY <2>1, <2>3, <2>4, ScanStepKeeps DEF ScanOf
  <2>6. ScanOf(stored, reader.items, scan', daemon')
    BY <2>3, <2>5 DEF ScanOf
  <2> QED
    BY <2>1, <2>2, <2>3, <2>6 DEF JourneyInv, Collected, ReaderAt
<1>4. CASE UNCHANGED journeyVars
  BY <1>4 DEF journeyVars, readerVars, scanVars, JourneyInv, Collected, ReaderAt
<1> QED
  BY <1>1, <1>2, <1>3, <1>4 DEF JourneyNext

\* The inductive invariant of a file's journey (collectUploadParts, and the scan
\* of clamav-scanner): the reader knows its place in the body; once a scan is
\* begun it is of a collected item, and no byte of it is lost or doubled between
\* the blob store's stream, the pending bytes, the socket and the daemon.
THEOREM JourneyHolds == JourneySpec => []JourneyInv
<1>1. JourneyInit => JourneyInv
  BY JourneyBegins
<1>2. JourneyInv /\ ReaderInv' /\ [JourneyNext]_journeyVars => JourneyInv'
  BY JourneyKeeps
<1> QED
  BY <1>1, <1>2, ReaderInvHolds, PTL DEF JourneySpec

\* A verdict of clean or infected, whenever it comes, is the verdict of the file
\* as the user sent it, byte for byte (clamav-scanner, over what
\* collectUploadParts kept of the request).
THEOREM VerdictsAreOfWholeFiles == JourneySpec => []VerdictIsOfTheWholeFile
<1>1. JourneyInv => VerdictIsOfTheWholeFile
  <2> SUFFICES ASSUME JourneyInv, scan.settled \in {"clean", "infected"}
               PROVE  \E k \in SentFiles :
                         /\ FileNumber(k) = stored
                         /\ daemon.file = sent.parts[k].content
                         /\ scan.settled = "infected" <=> "v" \in ToSet(sent.parts[k].content)
    BY DEF VerdictIsOfTheWholeFile
  <2>1. stored # 0
    BY DEF JourneyInv, NoScan
  <2>2. ScanOf(stored, reader.items, scan, daemon)
    BY <2>1 DEF JourneyInv
  <2>3. /\ daemon.file = reader.items[stored].chunks
        /\ scan.settled = "infected" <=> "v" \in ToSet(reader.items[stored].chunks)
    BY <2>2 DEF ScanOf, Scanning
  <2>4. SentFiles = Files(sent) /\ \A k : FileNumber(k) = FilesUpTo(sent, k)
    BY DEF SentFiles, Files, FileNumber, FilesUpTo
  <2>5. PICK k : Itemized(sent, reader.items, k)
    BY DEF JourneyInv, ReaderInv, Oriented
  <2>6. PICK j \in SentFiles :
           FileNumber(j) = stored /\ KeptOf(reader.items[stored], sent.parts[j].content)
    BY <2>2, <2>4, <2>5 DEF Itemized, ScanOf
  <2>7. reader.items[stored].chunks = sent.parts[j].content
    BY <2>2, <2>6 DEF KeptOf, ScanOf
  <2> QED
    BY <2>3, <2>6, <2>7
<1> QED
  BY <1>1, JourneyHolds, PTL
=============================================================================
