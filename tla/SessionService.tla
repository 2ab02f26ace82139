---------------------------- MODULE SessionService ----------------------------
(***************************************************************************)
(* A bearer token's life: GET and DELETE /auth/session, each behind        *)
(* SessionMiddleware, and the rolling expiry ValidateSession writes on the *)
(* way.  A worker is one request in flight, one statement a step, so a     *)
(* validation may extend a session that another request is signing out.    *)
(* Tokens are the session ids: a hash finds its own row.  Confirm and the  *)
(* Google exchange, which issue sessions, are one action here.             *)
(***************************************************************************)
EXTENDS Integers, FiniteSets

CONSTANTS
    Workers, Sessions,
    SessionIdleWindow,      \* 60 days
    SessionExtendInterval,  \* 24 hours
    MaxLag,                 \* longest time a request is in flight
    MaxTime                 \* bound on the clock

\* domain.go:71-75; a request, with its timeouts of seconds, lasts far less
\* than half the interval.
ASSUME SessionConstants ==
    /\ SessionIdleWindow \in Nat /\ SessionExtendInterval \in Nat
    /\ SessionExtendInterval <= SessionIdleWindow
    /\ MaxLag \in Nat /\ 2 * MaxLag < SessionExtendInterval
    /\ MaxTime \in Nat

VARIABLES
    now,       \* Clock.Now
    sessions,  \* table session
    pc, job,   \* where each request is; its token, row and clock reading
    used,      \* history: the latest instant a session was validated at
    signedOut  \* history: the sessions whose sign-out was written

vars == <<now, sessions, pc, job, used, signedOut>>

NoTime == -1
NoJob  == [op |-> "none"]

Session == [lastActiveAt : Nat, expiresAt : Nat, revokedAt : Nat \cup {NoTime}]
\* began, late: when the row was read, and whether a sign-out came before that;
\* at: the handler's latest clock reading.
Job == [op : {"get", "delete"}, s : Sessions, row : Session, began : Nat,
        late : BOOLEAN, at : Nat]

TypeOK ==
    /\ now \in 0..MaxTime
    /\ DOMAIN sessions \subseteq Sessions
    /\ \A s \in DOMAIN sessions : sessions[s] \in Session
    /\ used \in [Sessions -> Nat] /\ signedOut \subseteq Sessions
    /\ pc \in [Workers -> {"idle", "found", "extend", "serve", "revoke"}]
    /\ job \in [Workers -> Job \cup {NoJob}]
    /\ \A w \in Workers :
        IF pc[w] = "idle" THEN job[w] = NoJob
        ELSE job[w] \in Job /\ job[w].s \in DOMAIN sessions

Init ==
    /\ now = 0 /\ sessions = << >>
    /\ pc = [w \in Workers |-> "idle"]
    /\ job = [w \in Workers |-> NoJob]
    /\ used = [s \in Sessions |-> 0] /\ signedOut = {}

-----------------------------------------------------------------------------
\* Bug: the revocation is not looked at.
BugRevokedValid(row, t) == t < row.expiresAt

IsValid(row, t) == row.revokedAt = NoTime /\ t < row.expiresAt

NeedsExtension(row, t) == t >= row.lastActiveAt + SessionExtendInterval

Goto(w, place, locals) ==
    /\ pc' = [pc EXCEPT ![w] = place]
    /\ job' = [job EXCEPT ![w] = locals]
    /\ UNCHANGED now

Answer(w) == Goto(w, "idle", NoJob)

\* ConfirmVerification and GoogleExchange: a new session with a full window from
\* at, the clock reading of a request whose transaction commits now.
Issue(s, at) ==
    /\ s \notin DOMAIN sessions /\ now <= at + MaxLag
    /\ sessions' = [x \in DOMAIN sessions \cup {s} |->
          IF x = s THEN [lastActiveAt |-> at, expiresAt |-> at + SessionIdleWindow,
                         revokedAt |-> NoTime]
                   ELSE sessions[x]]
    /\ used' = [used EXCEPT ![s] = at]
    /\ UNCHANGED <<now, pc, job, signedOut>>

\* The middleware's FindByTokenHash.
Find(w, s, op) ==
    /\ pc[w] = "idle"
    /\ Goto(w, "found", [op |-> op, s |-> s, row |-> sessions[s], began |-> now,
                         late |-> s \in signedOut, at |-> now])
    /\ UNCHANGED <<sessions, used, signedOut>>

\* Bugs: the expiry is pushed by the interval instead of the window; it is
\* pushed from where it was instead of from now.
BugExtendByInterval(row, t) ==
    [row EXCEPT !.lastActiveAt = t, !.expiresAt = t + SessionExtendInterval]
BugExtendFromExpiry(row, t) ==
    [row EXCEPT !.lastActiveAt = t, !.expiresAt = @ + SessionIdleWindow]

Extend(row, t) == [row EXCEPT !.lastActiveAt = t, !.expiresAt = t + SessionIdleWindow]

\* ValidateSession succeeded for a clock reading t, which a slow request may
\* finish with after a faster one finished with a later reading.
Validated(s, t) == used' = IF t > used[s] THEN [used EXCEPT ![s] = t] ELSE used

\* The clock is read after the row; an invalid session is answered with 401.
Check(w) ==
    LET row == job[w].row
        valid == [job[w] EXCEPT !.at = now]
    IN  /\ pc[w] = "found"
        /\ IF IsValid(row, now)
           THEN IF NeedsExtension(row, now)
                THEN /\ Goto(w, "extend", [valid EXCEPT !.row = Extend(row, now)])
                     /\ UNCHANGED used
                ELSE Goto(w, "serve", valid) /\ Validated(job[w].s, now)
           ELSE Answer(w) /\ UNCHANGED used
        /\ UNCHANGED <<sessions, signedOut>>

\* Bug: the extension writes the row it read, revocation included.
BugWriteWholeRow(w) ==
    /\ pc[w] = "extend"
    /\ sessions' = [sessions EXCEPT ![job[w].s] = job[w].row]
    /\ Goto(w, "serve", job[w])
    /\ Validated(job[w].s, job[w].at)
    /\ UNCHANGED signedOut

\* The extension writes last_active_at and expires_at, never revoked_at.
ExtendSession(w) ==
    LET s == job[w].s
        extended == [sessions[s] EXCEPT !.lastActiveAt = job[w].row.lastActiveAt,
                                        !.expiresAt = job[w].row.expiresAt]
    IN  /\ pc[w] = "extend"
        /\ sessions' = [sessions EXCEPT ![s] = extended]
        /\ Goto(w, "serve", job[w])
        /\ Validated(s, job[w].at)
        /\ UNCHANGED signedOut

\* GET answers with the account.
Serve(w) ==
    /\ pc[w] = "serve" /\ job[w].op = "get"
    /\ Answer(w)
    /\ UNCHANGED <<sessions, used, signedOut>>

\* DELETE: RevokeSession reads the clock, then waits for a connection ...
StartRevoke(w) ==
    /\ pc[w] = "serve" /\ job[w].op = "delete"
    /\ Goto(w, "revoke", [job[w] EXCEPT !.at = now])
    /\ UNCHANGED <<sessions, used, signedOut>>

\* Bug: the sign-out deletes the row.
BugDeleteRow(w) ==
    /\ pc[w] = "revoke"
    /\ sessions' = [s \in DOMAIN sessions \ {job[w].s} |-> sessions[s]]
    /\ signedOut' = signedOut \cup {job[w].s}
    /\ Answer(w)
    /\ UNCHANGED used

\* ... for the statement that writes that reading, unless there is one already.
Revoke(w) ==
    LET s == job[w].s
    IN  /\ pc[w] = "revoke"
        /\ IF sessions[s].revokedAt = NoTime
           THEN sessions' = [sessions EXCEPT ![s].revokedAt = job[w].at]
           ELSE UNCHANGED sessions
        /\ signedOut' = signedOut \cup {s}
        /\ Answer(w)
        /\ UNCHANGED used

\* A statement fails, or the client hangs up.
Abort(w) ==
    /\ pc[w] # "idle"
    /\ Answer(w)
    /\ UNCHANGED <<sessions, used, signedOut>>

\* No request outlives MaxLag.
Tick ==
    /\ now < MaxTime
    /\ \A w \in Workers : pc[w] # "idle" => now < job[w].began + MaxLag
    /\ now' = now + 1
    /\ UNCHANGED <<sessions, pc, job, used, signedOut>>

Next ==
    \/ Tick
    \/ \E s \in Sessions, at \in 0..now : Issue(s, at)
    \/ \E w \in Workers :
         \/ \E s \in DOMAIN sessions, op \in {"get", "delete"} : Find(w, s, op)
         \/ Check(w) \/ ExtendSession(w) \/ Serve(w) \/ StartRevoke(w) \/ Revoke(w)
         \/ Abort(w)

Spec == Init /\ [][Next]_vars

-----------------------------------------------------------------------------
\* A sign-out is final: no validation in flight brings the session back, and a
\* second sign-out does not move the first one's time
\* (session_update.sql, session_revoke_by_token_hash.sql; service.go:535-564).
SignOutSticks ==
    [][\A s \in DOMAIN sessions :
          sessions[s].revokedAt # NoTime =>
              sessions'[s].revokedAt = sessions[s].revokedAt]_vars

\* A request that finds its session after a sign-out was written is never served,
\* whatever extensions and further sign-outs are in flight then and whatever
\* clock readings they write (service.go:514-525, 558-565).
SignedOutRefused ==
    \A w \in Workers : pc[w] \in {"extend", "serve", "revoke"} => ~job[w].late

\* The throttle costs at most one interval: a session validated at an instant
\* lives longer than the idle window less the interval from then, whatever
\* other requests write meanwhile (service.go:533-540, domain.go:177-182).
UsedSessionsLive ==
    \A s \in DOMAIN sessions :
        sessions[s].expiresAt > used[s] + SessionIdleWindow - SessionExtendInterval

\* No session outlives the idle window since it was last validated, although
\* stale extensions are written late (service.go:511-513).
IdleSessionsDie ==
    \A s \in DOMAIN sessions : sessions[s].expiresAt <= used[s] + SessionIdleWindow
=============================================================================
