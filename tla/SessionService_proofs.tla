------------------------ MODULE SessionService_proofs ------------------------
(***************************************************************************)
(* What SessionService promises of a bearer token, for any number of       *)
(* requests, sessions and any constants of the shape the code has.         *)
(***************************************************************************)
EXTENDS SessionService, TLAPS

\* An expiry is always a full window from the activity it was written for.
FullWindow ==
    \A s \in DOMAIN sessions :
        sessions[s].expiresAt = sessions[s].lastActiveAt + SessionIdleWindow

\* A validation is recorded after the activity it leaves, never in the future,
\* and less than one interval after it.
Throttled ==
    \A s \in DOMAIN sessions :
        /\ sessions[s].lastActiveAt <= used[s] /\ used[s] <= now
        /\ used[s] < sessions[s].lastActiveAt + SessionExtendInterval
        /\ sessions[s].revokedAt <= now

\* A request in flight is young; if its row is newer than the table's, a slow
\* request wrote the table, and that one was young too.
Current(w) ==
    LET row == sessions[job[w].s]
    IN  /\ job[w].began <= job[w].at /\ job[w].at <= now
        /\ now <= job[w].began + MaxLag
        /\ job[w].late => job[w].row.revokedAt # NoTime
        /\ pc[w] # "found" => job[w].row.revokedAt = NoTime
        /\ pc[w] = "found" =>
             \/ job[w].row.lastActiveAt <= row.lastActiveAt
             \/ job[w].began <= row.lastActiveAt + MaxLag
        /\ pc[w] = "extend" =>
             /\ job[w].row.lastActiveAt = job[w].at
             /\ job[w].row.expiresAt = job[w].at + SessionIdleWindow

InFlight == \A w \in Workers : pc[w] # "idle" => Current(w)

\* A sign-out that was written is in the row.
SignOuts == \A s \in signedOut : s \in DOMAIN sessions /\ sessions[s].revokedAt # NoTime

IInv == TypeOK /\ FullWindow /\ Throttled /\ InFlight /\ SignOuts

USE DEF NoTime

-----------------------------------------------------------------------------
(* Typing facts the steps below share. *)

LEMMA ConstantsTyped ==
    /\ SessionIdleWindow \in Nat /\ SessionExtendInterval \in Nat
    /\ MaxLag \in Nat /\ MaxTime \in Nat
    /\ SessionExtendInterval <= SessionIdleWindow
    /\ 2 * MaxLag < SessionExtendInterval
BY SessionConstants DEF SessionConstants

LEMMA JobTyped ==
    ASSUME TypeOK, NEW w \in Workers, pc[w] # "idle"
    PROVE  /\ job[w] \in Job /\ job[w].s \in DOMAIN sessions
           /\ job[w].s \in Sessions /\ job[w].began \in Nat /\ job[w].at \in Nat
           /\ job[w].row \in Session /\ job[w].late \in BOOLEAN
BY DEF TypeOK, Job

LEMMA RowTyped ==
    ASSUME TypeOK, NEW s \in DOMAIN sessions
    PROVE  /\ s \in Sessions /\ sessions[s] \in Session
           /\ sessions[s].lastActiveAt \in Nat /\ sessions[s].expiresAt \in Nat
           /\ sessions[s].revokedAt \in Nat \cup {-1} /\ used[s] \in Nat
BY DEF TypeOK, Session

LEMMA NowTyped == TypeOK => now \in Nat
BY ConstantsTyped DEF TypeOK

-----------------------------------------------------------------------------
LEMMA InitIInv == Init => IInv
<1> SUFFICES ASSUME Init PROVE IInv
  OBVIOUS
<1>1. DOMAIN sessions = {}
  BY DEF Init
<1>2. TypeOK
  BY <1>1, ConstantsTyped DEF Init, TypeOK
<1> QED
  BY <1>1, <1>2 DEF Init, IInv, FullWindow, Throttled, InFlight, Current, SignOuts

LEMMA TickKeeps == ASSUME IInv, Tick PROVE IInv'
<1> USE ConstantsTyped
<1>0. now \in Nat /\ now' = now + 1 /\ TypeOK
  BY NowTyped DEF IInv, Tick
<1>1. TypeOK'
  BY <1>0 DEF Tick, TypeOK
<1>2. FullWindow'
  BY DEF IInv, Tick, FullWindow
<1>3. Throttled'
  <2> SUFFICES ASSUME NEW s \in DOMAIN sessions
               PROVE  used[s] <= now + 1 /\ sessions[s].revokedAt <= now + 1
    BY <1>0 DEF IInv, Tick, Throttled
  <2> QED
    BY <1>0, RowTyped DEF IInv, Throttled
<1>4. InFlight'
  <2> SUFFICES ASSUME NEW w \in Workers, pc[w] # "idle"
               PROVE  job[w].at <= now + 1 /\ now + 1 <= job[w].began + MaxLag
    BY <1>0 DEF IInv, Tick, InFlight, Current
  <2> QED
    BY <1>0, JobTyped DEF IInv, InFlight, Current, Tick
<1>5. SignOuts'
  BY DEF IInv, Tick, SignOuts
<1> QED
  BY <1>1, <1>2, <1>3, <1>4, <1>5 DEF IInv

LEMMA IssueKeeps == ASSUME IInv, NEW s \in Sessions, NEW at \in 0..now, Issue(s, at)
    PROVE  IInv'
<1> USE ConstantsTyped
<1> DEFINE row == [lastActiveAt |-> at, expiresAt |-> at + SessionIdleWindow,
                   revokedAt |-> NoTime]
<1>0. /\ now \in Nat /\ TypeOK /\ at \in Nat /\ at <= now
      /\ at + SessionIdleWindow \in Nat /\ s \notin DOMAIN sessions
      /\ UNCHANGED <<now, pc, job, signedOut>>
  BY NowTyped DEF IInv, Issue
<1>1. /\ DOMAIN sessions' = DOMAIN sessions \cup {s}
      /\ sessions'[s] = row
      /\ \A x \in DOMAIN sessions : sessions'[x] = sessions[x] /\ used'[x] = used[x]
      /\ used' \in [Sessions -> Nat] /\ used'[s] = at
  BY <1>0 DEF Issue, TypeOK
<1>2. row \in Session
  BY <1>0 DEF Session
<1>3. TypeOK'
  BY <1>0, <1>1, <1>2 DEF TypeOK
<1>4. FullWindow'
  BY <1>0, <1>1 DEF IInv, FullWindow
<1>5. Throttled'
  BY <1>0, <1>1 DEF IInv, Throttled
<1>6. InFlight'
  BY <1>0, <1>1, JobTyped DEF IInv, InFlight, Current
<1>7. SignOuts'
  BY <1>0, <1>1 DEF IInv, SignOuts
<1> QED
  BY <1>3, <1>4, <1>5, <1>6, <1>7 DEF IInv

\* A step that answers, or moves on with the same tables, disturbs nothing of
\* the requests of others.
LEMMA AnswerKeeps ==
    ASSUME IInv, NEW w \in Workers, Answer(w), UNCHANGED <<sessions, used>>,
           signedOut' = signedOut
             \/ (pc[w] = "revoke" /\ sessions[job[w].s].revokedAt # NoTime
                   /\ signedOut' = signedOut \cup {job[w].s})
    PROVE  IInv'
<1>0. pc[w] # "idle" => job[w].s \in DOMAIN sessions /\ job[w].s \in Sessions
  BY JobTyped DEF IInv
<1>1. TypeOK'
  BY <1>0 DEF IInv, TypeOK, Answer, Goto
<1>2. FullWindow' /\ Throttled'
  BY DEF IInv, FullWindow, Throttled, Answer, Goto
<1>3. InFlight'
  BY DEF IInv, InFlight, Current, Answer, Goto, TypeOK
<1>4. SignOuts'
  BY <1>0 DEF IInv, SignOuts
<1> QED
  BY <1>1, <1>2, <1>3, <1>4 DEF IInv

LEMMA FindKeeps ==
    ASSUME IInv, NEW w \in Workers, NEW s \in DOMAIN sessions,
           NEW op \in {"get", "delete"}, Find(w, s, op)
    PROVE  IInv'
<1> USE ConstantsTyped
<1> DEFINE found == [op |-> op, s |-> s, row |-> sessions[s], began |-> now,
                     late |-> s \in signedOut, at |-> now]
<1>0. /\ now \in Nat /\ TypeOK /\ s \in Sessions /\ sessions[s] \in Session
      /\ UNCHANGED <<now, sessions, used, signedOut>>
      /\ pc' = [pc EXCEPT ![w] = "found"] /\ job' = [job EXCEPT ![w] = found]
  BY NowTyped, RowTyped DEF IInv, Find, Goto
<1>1. found \in Job
  BY <1>0 DEF Job
<1>2. /\ pc'[w] = "found" /\ job'[w] = found
      /\ \A u \in Workers \ {w} : pc'[u] = pc[u] /\ job'[u] = job[u]
  BY <1>0 DEF TypeOK
<1>3. TypeOK'
  BY <1>0, <1>1, <1>2 DEF TypeOK
<1>4. FullWindow' /\ Throttled'
  BY <1>0 DEF IInv, FullWindow, Throttled
<1>5. InFlight'
  <2>1. ASSUME NEW u \in Workers \ {w}, pc'[u] # "idle"
        PROVE  Current(u)'
    BY <1>0, <1>2, <2>1 DEF IInv, InFlight, Current
  <2>2. s \in signedOut => sessions[s].revokedAt # NoTime
    BY DEF IInv, SignOuts
  <2>3. /\ found.s = s /\ found.row = sessions[s] /\ found.began = now
        /\ (found.late <=> s \in signedOut) /\ found.at = now
    OBVIOUS
  <2>4. /\ sessions[s].lastActiveAt \in Nat /\ sessions[s].expiresAt \in Nat
        /\ sessions[s].revokedAt \in Nat \cup {NoTime}
    BY <1>0 DEF Session
  <2> HIDE DEF found
  <2>5. /\ pc'[w] = "found" /\ job'[w] = found /\ now' = now /\ sessions' = sessions
        /\ MaxLag \in Nat /\ now <= now + MaxLag
    BY <1>0, <1>2
  <2>6. Current(w)'
    <3>1. /\ job'[w].began <= job'[w].at /\ job'[w].at <= now'
          /\ now' <= job'[w].began + MaxLag
      BY <1>0, <2>3, <2>5
    <3>2. job'[w].late => job'[w].row.revokedAt # NoTime
      BY <2>2, <2>3, <2>5
    <3>3. job'[w].row.lastActiveAt <= sessions'[job'[w].s].lastActiveAt
      BY <2>3, <2>4, <2>5
    <3>4. pc'[w] = "found"
      BY <2>5
    <3> QED
      BY <3>1, <3>2, <3>3, <3>4 DEF Current
  <2> QED
    BY <2>1, <2>6 DEF InFlight
<1>6. SignOuts'
  BY <1>0 DEF IInv, SignOuts
<1> QED
  BY <1>3, <1>4, <1>5, <1>6 DEF IInv

LEMMA CheckKeeps == ASSUME IInv, NEW w \in Workers, Check(w) PROVE IInv'
<1> USE ConstantsTyped
<1> DEFINE s == job[w].s
           row == job[w].row
           valid == [job[w] EXCEPT !.at = now]
           extending == [valid EXCEPT !.row = Extend(row, now)]
<1>0. /\ now \in Nat /\ TypeOK /\ s \in DOMAIN sessions /\ s \in Sessions
      /\ pc[w] = "found" /\ job[w] \in Job /\ row \in Session
      /\ UNCHANGED <<now, sessions, signedOut>>
      /\ now + SessionIdleWindow \in Nat
  BY NowTyped, JobTyped DEF IInv, Check, Goto, Answer
<1>1. CASE ~IsValid(row, now)
  BY <1>0, <1>1, AnswerKeeps DEF Check
<1>2. CASE IsValid(row, now) /\ ~NeedsExtension(row, now)
  <2>1. /\ pc' = [pc EXCEPT ![w] = "serve"] /\ job' = [job EXCEPT ![w] = valid]
        /\ used' = IF now > used[s] THEN [used EXCEPT ![s] = now] ELSE used
    BY <1>2 DEF Check, Goto, Validated
  <2>2. valid \in Job /\ valid.s = s /\ valid.row = row /\ valid.at = now
        /\ valid.began = job[w].began /\ valid.late = job[w].late
    BY <1>0 DEF Job
  <2>3. /\ pc'[w] = "serve" /\ job'[w] = valid
        /\ \A u \in Workers \ {w} : pc'[u] = pc[u] /\ job'[u] = job[u]
        /\ used' \in [Sessions -> Nat] /\ used'[s] = now
        /\ \A x \in Sessions \ {s} : used'[x] = used[x]
    <3>1. used[s] \in Nat /\ used[s] <= now
      BY <1>0, RowTyped DEF IInv, Throttled
    <3>2. /\ used' \in [Sessions -> Nat] /\ used'[s] = now
          /\ \A x \in Sessions \ {s} : used'[x] = used[x]
      BY <1>0, <2>1, <3>1 DEF TypeOK
    <3>3. /\ pc'[w] = "serve" /\ job'[w] = valid
          /\ \A u \in Workers \ {w} : pc'[u] = pc[u] /\ job'[u] = job[u]
      BY <1>0, <2>1 DEF TypeOK
    <3> QED
      BY <3>2, <3>3
  <2>4. TypeOK'
    BY <1>0, <2>1, <2>2, <2>3 DEF TypeOK
  <2>5. FullWindow'
    BY <1>0 DEF IInv, FullWindow
  <2>6. Throttled'
    <3>1. now < sessions[s].lastActiveAt + SessionExtendInterval
      <4>1. now < row.lastActiveAt + SessionExtendInterval
        BY <1>0, <1>2 DEF NeedsExtension, Session
      <4>2. Current(w)
        BY <1>0 DEF IInv, InFlight
      <4> QED
        BY <1>0, <4>1, <4>2, RowTyped, JobTyped DEF Current, Session
    <3>2. sessions[s].lastActiveAt <= now /\ sessions[s].revokedAt <= now
      BY <1>0, RowTyped DEF IInv, Throttled
    <3> QED
      BY <1>0, <2>3, <3>1, <3>2, RowTyped DEF IInv, Throttled
  <2>7. InFlight'
    <3>1. Current(w)'
      BY <1>0, <1>2, <2>2, <2>3, JobTyped DEF IInv, InFlight, Current, IsValid
    <3>2. ASSUME NEW u \in Workers \ {w}, pc'[u] # "idle" PROVE Current(u)'
      BY <1>0, <2>3, <3>2 DEF IInv, InFlight, Current
    <3> QED
      BY <3>1, <3>2 DEF InFlight
  <2> QED
    BY <1>0, <2>4, <2>5, <2>6, <2>7 DEF IInv, SignOuts
<1>3. CASE IsValid(row, now) /\ NeedsExtension(row, now)
  <2>1. /\ pc' = [pc EXCEPT ![w] = "extend"] /\ job' = [job EXCEPT ![w] = extending]
        /\ UNCHANGED used
    BY <1>3 DEF Check, Goto
  <2>2. /\ Extend(row, now) \in Session
        /\ Extend(row, now).lastActiveAt = now
        /\ Extend(row, now).expiresAt = now + SessionIdleWindow
        /\ Extend(row, now).revokedAt = row.revokedAt
    BY <1>0 DEF Extend, Session
  <2>3. extending \in Job /\ extending.s = s /\ extending.row = Extend(row, now)
        /\ extending.at = now /\ extending.began = job[w].began
        /\ extending.late = job[w].late
    BY <1>0, <2>2 DEF Job
  <2>4. /\ pc'[w] = "extend" /\ job'[w] = extending
        /\ \A u \in Workers \ {w} : pc'[u] = pc[u] /\ job'[u] = job[u]
    BY <1>0, <2>1 DEF TypeOK
  <2>5. TypeOK'
    BY <1>0, <2>1, <2>3, <2>4 DEF TypeOK
  <2>6. FullWindow' /\ Throttled'
    BY <1>0, <2>1 DEF IInv, FullWindow, Throttled
  <2>7. InFlight'
    <3>1. Current(w)'
      BY <1>0, <1>3, <2>2, <2>3, <2>4, JobTyped DEF IInv, InFlight, Current, IsValid
    <3>2. ASSUME NEW u \in Workers \ {w}, pc'[u] # "idle" PROVE Current(u)'
      BY <1>0, <2>4, <3>2 DEF IInv, InFlight, Current
    <3> QED
      BY <3>1, <3>2 DEF InFlight
  <2> QED
    BY <1>0, <2>5, <2>6, <2>7 DEF IInv, SignOuts
<1> QED
  BY <1>1, <1>2, <1>3

LEMMA ExtendSessionKeeps == ASSUME IInv, NEW w \in Workers, ExtendSession(w) PROVE IInv'
<1> USE ConstantsTyped
<1> DEFINE s == job[w].s
           at == job[w].at
           extended == [sessions[s] EXCEPT !.lastActiveAt = job[w].row.lastActiveAt,
                                           !.expiresAt = job[w].row.expiresAt]
<1>0. /\ now \in Nat /\ TypeOK /\ s \in DOMAIN sessions /\ s \in Sessions
      /\ pc[w] = "extend" /\ job[w] \in Job /\ job[w].row \in Session
      /\ at \in Nat /\ sessions[s] \in Session /\ UNCHANGED <<now, signedOut>>
      /\ Current(w)
  BY NowTyped, JobTyped, RowTyped DEF IInv, InFlight, ExtendSession, Goto
<1>1. /\ job[w].row.lastActiveAt = at
      /\ job[w].row.expiresAt = at + SessionIdleWindow
      /\ at <= now /\ now <= at + MaxLag
  BY <1>0, JobTyped DEF Current
<1>2. /\ extended \in Session /\ extended.lastActiveAt = at
      /\ extended.expiresAt = at + SessionIdleWindow
      /\ extended.revokedAt = sessions[s].revokedAt
  BY <1>0, <1>1 DEF Session
<1>3. /\ DOMAIN sessions' = DOMAIN sessions /\ sessions'[s] = extended
      /\ \A x \in DOMAIN sessions \ {s} : sessions'[x] = sessions[x]
      /\ used' = IF at > used[s] THEN [used EXCEPT ![s] = at] ELSE used
      /\ pc' = [pc EXCEPT ![w] = "serve"] /\ job' = [job EXCEPT ![w] = job[w]]
  BY <1>0 DEF ExtendSession, Goto, Validated
<1>4. /\ used' \in [Sessions -> Nat]
      /\ at <= used'[s] /\ used'[s] <= now
      /\ \A x \in Sessions \ {s} : used'[x] = used[x]
  BY <1>0, <1>1, <1>3, RowTyped DEF IInv, TypeOK, Throttled
<1>5. /\ pc'[w] = "serve" /\ job' = job
      /\ \A u \in Workers \ {w} : pc'[u] = pc[u]
  BY <1>0, <1>3 DEF TypeOK
<1> HIDE DEF extended
<1>6. TypeOK'
  BY <1>0, <1>2, <1>3, <1>4, <1>5 DEF TypeOK
<1>7. FullWindow'
  BY <1>0, <1>2, <1>3 DEF IInv, FullWindow
<1>8. Throttled'
  <2>1. /\ sessions'[s].lastActiveAt <= used'[s]
        /\ used'[s] < sessions'[s].lastActiveAt + SessionExtendInterval
        /\ sessions'[s].revokedAt <= now
    BY <1>0, <1>1, <1>2, <1>3, <1>4, RowTyped DEF IInv, Throttled
  <2> QED
    BY <1>0, <1>3, <1>4, <2>1 DEF IInv, Throttled
<1>9. InFlight'
  <2> SUFFICES ASSUME NEW u \in Workers, pc'[u] # "idle" PROVE Current(u)'
    BY DEF InFlight
  <2>1. Current(u) /\ pc[u] # "idle"
    BY <1>0, <1>5 DEF IInv, InFlight
  <2>2. CASE job[u].s # s
    BY <1>0, <1>3, <1>5, <2>1, <2>2, JobTyped DEF Current
  <2>3. CASE job[u].s = s
    <3>1. job[u].began <= at + MaxLag
      BY <1>0, <1>1, <2>1, JobTyped DEF Current
    <3> QED
      BY <1>0, <1>2, <1>3, <1>5, <2>1, <2>3, <3>1, JobTyped DEF Current
  <2> QED
    BY <2>2, <2>3
<1>10. SignOuts'
  BY <1>0, <1>2, <1>3 DEF IInv, SignOuts
<1> QED
  BY <1>6, <1>7, <1>8, <1>9, <1>10 DEF IInv

\* The sign-out's clock reading moves a request on, and nothing else.
LEMMA StartRevokeKeeps == ASSUME IInv, NEW w \in Workers, StartRevoke(w) PROVE IInv'
<1> USE ConstantsTyped
<1> DEFINE J == [job[w] EXCEPT !.at = now]
<1>0. /\ now \in Nat /\ TypeOK /\ pc[w] = "serve" /\ job[w] \in Job
      /\ job[w].s \in DOMAIN sessions
      /\ UNCHANGED <<now, sessions, used, signedOut>>
      /\ pc' = [pc EXCEPT ![w] = "revoke"] /\ job' = [job EXCEPT ![w] = J]
  BY NowTyped, JobTyped DEF IInv, StartRevoke, Goto
<1>1. /\ J \in Job /\ J.s = job[w].s /\ J.row = job[w].row /\ J.at = now
      /\ J.began = job[w].began /\ J.late = job[w].late
  BY <1>0 DEF Job
<1> HIDE DEF J
<1>2. /\ pc'[w] = "revoke" /\ job'[w] = J
      /\ \A u \in Workers \ {w} : pc'[u] = pc[u] /\ job'[u] = job[u]
  BY <1>0 DEF TypeOK
<1>3. TypeOK'
  BY <1>0, <1>1, <1>2 DEF TypeOK
<1>4. FullWindow' /\ Throttled' /\ SignOuts'
  BY <1>0 DEF IInv, FullWindow, Throttled, SignOuts
<1>5. InFlight'
  <2>1. Current(w)'
    BY <1>0, <1>1, <1>2, JobTyped DEF IInv, InFlight, Current
  <2>2. ASSUME NEW u \in Workers \ {w}, pc'[u] # "idle" PROVE Current(u)'
    BY <1>0, <1>2, <2>2 DEF IInv, InFlight, Current
  <2> QED
    BY <2>1, <2>2 DEF InFlight
<1> QED
  BY <1>3, <1>4, <1>5 DEF IInv

LEMMA RevokeKeeps == ASSUME IInv, NEW w \in Workers, Revoke(w) PROVE IInv'
<1> USE ConstantsTyped
<1> DEFINE s == job[w].s
           at == job[w].at
           revoked == [sessions[s] EXCEPT !.revokedAt = at]
<1>0. /\ now \in Nat /\ TypeOK /\ s \in DOMAIN sessions /\ s \in Sessions
      /\ pc[w] = "revoke" /\ sessions[s] \in Session
      /\ at \in Nat /\ at <= now
      /\ UNCHANGED <<now, used>> /\ Answer(w) /\ signedOut' = signedOut \cup {s}
  BY NowTyped, JobTyped, RowTyped DEF IInv, InFlight, Current, Revoke, Answer, Goto
<1>1. CASE sessions[s].revokedAt # NoTime
  BY <1>0, <1>1, AnswerKeeps DEF Revoke
<1>2. CASE sessions[s].revokedAt = NoTime
  <2>1. /\ DOMAIN sessions' = DOMAIN sessions /\ sessions'[s] = revoked
        /\ \A x \in DOMAIN sessions \ {s} : sessions'[x] = sessions[x]
    BY <1>0, <1>2 DEF Revoke
  <2>2. /\ revoked \in Session /\ revoked.lastActiveAt = sessions[s].lastActiveAt
        /\ revoked.expiresAt = sessions[s].expiresAt /\ revoked.revokedAt = at
    BY <1>0 DEF Session
  <2>3. /\ pc' = [pc EXCEPT ![w] = "idle"] /\ job' = [job EXCEPT ![w] = NoJob]
    BY <1>0 DEF Answer, Goto
  <2>4. /\ pc'[w] = "idle" /\ job'[w] = NoJob
        /\ \A u \in Workers \ {w} : pc'[u] = pc[u] /\ job'[u] = job[u]
    BY <1>0, <2>3 DEF TypeOK
  <2> HIDE DEF revoked
  <2>5. TypeOK'
    BY <1>0, <2>1, <2>2, <2>3, <2>4 DEF TypeOK
  <2>6. FullWindow'
    BY <1>0, <2>1, <2>2 DEF IInv, FullWindow
  <2>7. Throttled'
    BY <1>0, <2>1, <2>2 DEF IInv, Throttled
  <2>8. InFlight'
    <3> SUFFICES ASSUME NEW u \in Workers \ {w}, pc'[u] # "idle" PROVE Current(u)'
      BY <2>4 DEF InFlight
    <3>1. Current(u) /\ pc[u] # "idle"
      BY <2>4 DEF IInv, InFlight
    <3> QED
      BY <1>0, <2>1, <2>2, <2>4, <3>1, JobTyped DEF Current
  <2>9. SignOuts'
    BY <1>0, <2>1, <2>2 DEF IInv, SignOuts
  <2> QED
    BY <2>5, <2>6, <2>7, <2>8, <2>9 DEF IInv
<1> QED
  BY <1>1, <1>2

\* Every step keeps the inductive invariant.
LEMMA StepKeeps == ASSUME IInv, [Next]_vars PROVE IInv'
<1>1. CASE Tick
  BY <1>1, TickKeeps
<1>2. ASSUME NEW s \in Sessions, NEW at \in 0..now, Issue(s, at) PROVE IInv'
  BY <1>2, IssueKeeps
<1>3. ASSUME NEW w \in Workers, NEW s \in DOMAIN sessions,
             NEW op \in {"get", "delete"}, Find(w, s, op)
      PROVE  IInv'
  BY <1>3, FindKeeps
<1>4. ASSUME NEW w \in Workers, Check(w) PROVE IInv'
  BY <1>4, CheckKeeps
<1>5. ASSUME NEW w \in Workers, ExtendSession(w) PROVE IInv'
  BY <1>5, ExtendSessionKeeps
<1>6. ASSUME NEW w \in Workers, Serve(w) \/ Abort(w) PROVE IInv'
  BY <1>6, AnswerKeeps DEF Serve, Abort
<1>7. ASSUME NEW w \in Workers, StartRevoke(w) \/ Revoke(w) PROVE IInv'
  BY <1>7, StartRevokeKeeps, RevokeKeeps
<1>8. CASE UNCHANGED vars
  BY <1>8 DEF vars, IInv, TypeOK, FullWindow, Throttled, InFlight, Current, SignOuts
<1> QED
  BY <1>1, <1>2, <1>3, <1>4, <1>5, <1>6, <1>7, <1>8 DEF Next

LEMMA Invariance == Spec => []IInv
<1>1. Init => IInv
  BY InitIInv
<1>2. IInv /\ [Next]_vars => IInv'
  BY StepKeeps
<1> QED
  BY <1>1, <1>2, PTL DEF Spec

-----------------------------------------------------------------------------
(* The theorems. *)

\* Session rows and requests in flight keep their types (session.sql columns).
THEOREM TypeCorrect == Spec => []TypeOK
<1>1. IInv => TypeOK
  BY DEF IInv
<1> QED
  BY <1>1, Invariance, PTL

\* No session outlives the idle window since its last validation, however many
\* requests extend it at once (service.go:511-513).
THEOREM IdleSessionsExpire == Spec => []IdleSessionsDie
<1>1. IInv => IdleSessionsDie
  <2> SUFFICES ASSUME IInv, NEW s \in DOMAIN sessions
               PROVE  sessions[s].expiresAt <= used[s] + SessionIdleWindow
    BY DEF IdleSessionsDie
  <2> QED
    BY RowTyped, ConstantsTyped DEF IInv, FullWindow, Throttled
<1> QED
  BY <1>1, Invariance, PTL

\* The throttled extension never costs a session in use more than an interval
\* of its window, however late a slow request writes (service.go:533-540).
THEOREM UsedSessionsSurvive == Spec => []UsedSessionsLive
<1>1. IInv => UsedSessionsLive
  <2> SUFFICES ASSUME IInv, NEW s \in DOMAIN sessions
               PROVE  sessions[s].expiresAt
                        > used[s] + SessionIdleWindow - SessionExtendInterval
    BY DEF UsedSessionsLive
  <2> QED
    BY RowTyped, ConstantsTyped DEF IInv, FullWindow, Throttled
<1> QED
  BY <1>1, Invariance, PTL

\* A request that finds its session after a sign-out was written is refused, for
\* any number of requests in flight and whatever clock readings they hold
\* (service.go:514-525, 558-565).
THEOREM SignOutRefuses == Spec => []SignedOutRefused
<1>1. IInv => SignedOutRefused
  <2> SUFFICES ASSUME IInv, NEW w \in Workers, pc[w] \in {"extend", "serve", "revoke"}
               PROVE  ~job[w].late
    BY DEF SignedOutRefused
  <2>1. Current(w)
    BY DEF IInv, InFlight
  <2> QED
    BY <2>1 DEF Current
<1> QED
  BY <1>1, Invariance, PTL

\* No step takes a sign-out back or moves its time (session_update.sql,
\* session_revoke_by_token_hash.sql).
THEOREM SignOutIsFinal == Spec => SignOutSticks
<1>1. ASSUME IInv, [Next]_vars, NEW s \in DOMAIN sessions, sessions[s].revokedAt # NoTime
      PROVE  sessions'[s].revokedAt = sessions[s].revokedAt
  <2>1. CASE UNCHANGED sessions
    BY <2>1
  <2>2. ASSUME NEW x \in Sessions, NEW at \in 0..now, Issue(x, at)
        PROVE  sessions'[s].revokedAt = sessions[s].revokedAt
    BY <1>1, <2>2 DEF Issue
  <2>3. ASSUME NEW w \in Workers, ExtendSession(w)
        PROVE  sessions'[s].revokedAt = sessions[s].revokedAt
    BY <1>1, <2>3, RowTyped DEF ExtendSession, IInv, Session
  <2>4. ASSUME NEW w \in Workers, Revoke(w)
        PROVE  sessions'[s].revokedAt = sessions[s].revokedAt
    BY <1>1, <2>4 DEF Revoke
  <2> QED
    BY <1>1, <2>1, <2>2, <2>3, <2>4
       DEF Next, vars, Tick, Find, Check, Serve, StartRevoke, Abort
<1>2. IInv /\ [Next]_vars =>
        [\A s \in DOMAIN sessions :
            sessions[s].revokedAt # NoTime =>
                sessions'[s].revokedAt = sessions[s].revokedAt]_vars
  BY <1>1
<1> QED
  BY <1>2, Invariance, PTL DEF Spec, SignOutSticks
=============================================================================
