---------------------------- MODULE AuthConcurrent ----------------------------
(***************************************************************************)
(* internal/auth/service.go with every request in a goroutine of its own.  *)
(* A worker is one request in flight; each of its steps is one statement   *)
(* on the database or one call of the WhatsApp provider.  Statements run   *)
(* at PostgreSQL's READ COMMITTED: a read sees the committed tables, what  *)
(* a transaction of InTx wrote stays in tx until Commit, an inserted       *)
(* unique key and an updated row make others wait until then.  The row a   *)
(* handler read, its clock reading and its decision stay in job while      *)
(* other workers go on.  Any step may fail instead (Abort).                *)
(***************************************************************************)
EXTENDS AuthDomain, Sequences, FiniteSets, FiniteSetsExt

CONSTANTS
    Workers,                         \* requests in flight at once
    Phones, Subjects, None,          \* None: no subject, no row id
    Challenges, Accounts, Sessions,  \* row ids (uuid.New) still to be drawn
    MaxTime, MaxCodes,               \* bounds on the clock, on codes delivered,
    MaxClears, MaxWrong              \* on clears and wrong codes of a challenge

ASSUME NoneIsNoRow ==
    None \notin Subjects \cup Challenges \cup Accounts \cup Sessions
\* 128-bit ids: their pool is large, and finite.
ASSUME FiniteIds == IsFiniteSet(Challenges)
ASSUME BoundsAssumption == {MaxTime, MaxCodes, MaxClears, MaxWrong} \subseteq Nat

VARIABLES
    now,            \* Clock.Now
    verifications,  \* committed rows of table verification
    accounts,       \* committed rows of table user_account
    sessions,       \* committed rows of table session
    audits,         \* table audit_event, counted by metadata.verification_id
    delivered,      \* the phones codes were delivered to; a code is an index
    wrong,          \* history: wrong codes answered as such, by challenge
    pc,             \* where each worker is
    job,            \* each worker's locals
    tx              \* each worker's uncommitted writes

tables == <<verifications, accounts, sessions, audits>>
vars == <<now, tables, delivered, wrong, pc, job, tx>>

Verification ==
    [phone : Phones, intent : Intents, subject : Subjects \cup {None},
     code : Nat, sentAt : Nat, expiresAt : Nat, failedAttempts : Nat,
     sendsInWindow : Nat, lockedUntil : Instant, status : Statuses]

Account == [phone : Phones, subject : Subjects \cup {None}]

Session == [account : Accounts, grant : Challenges \cup Subjects]

NoRow == [phone |-> None]

\* c and row: the challenge the handler read, as it will write it; fresh: the
\* challenge a request will create; a: the account found or made; at: its clock.
Job == [op : {"none", "request", "resend", "wrong", "right", "clear", "google"},
        c : Challenges \cup {None}, row : Verification \cup {NoRow},
        fresh : Verification \cup {NoRow}, a : Accounts \cup {None},
        subject : Subjects \cup {None}, at : Nat]

NoJob == [op |-> "none", c |-> None, row |-> NoRow, fresh |-> NoRow, a |-> None,
          subject |-> None, at |-> 0]

NoWrites == [accounts |-> << >>, sessions |-> << >>, rows |-> << >>, audits |-> {}]

PCs == {"idle", "latest", "count", "send", "create", "update",
        "account", "session", "verify", "unlock", "commit"}

TypeOK ==
    /\ now \in 0..MaxTime
    /\ DOMAIN verifications \subseteq Challenges
    /\ \A c \in DOMAIN verifications : verifications[c] \in Verification
    /\ DOMAIN accounts \subseteq Accounts
    /\ \A a \in DOMAIN accounts : accounts[a] \in Account
    /\ DOMAIN sessions \subseteq Sessions
    /\ \A s \in DOMAIN sessions : sessions[s] \in Session
    /\ audits \in [Challenges -> Nat] /\ wrong \in [Challenges -> Nat]
    /\ delivered \in Seq(Phones)
    /\ pc \in [Workers -> PCs]
    /\ job \in [Workers -> Job]
    /\ \A w \in Workers :
        /\ DOMAIN tx[w].accounts \subseteq Accounts
        /\ DOMAIN tx[w].sessions \subseteq Sessions
        /\ DOMAIN tx[w].rows \subseteq Challenges
        /\ tx[w].audits \subseteq Challenges

Init ==
    /\ now = 0
    /\ verifications = << >> /\ accounts = << >> /\ sessions = << >>
    /\ audits = [c \in Challenges |-> 0] /\ wrong = [c \in Challenges |-> 0]
    /\ delivered = << >>
    /\ pc = [w \in Workers |-> "idle"]
    /\ job = [w \in Workers |-> NoJob]
    /\ tx = [w \in Workers |-> NoWrites]

-----------------------------------------------------------------------------
(* Statements that read: they see committed rows only. *)

HasAccount(p) == \E a \in DOMAIN accounts : accounts[a].phone = p

RowsOf(p) == {c \in DOMAIN verifications : verifications[c].phone = p}

LatestRows(p) ==
    {c \in RowsOf(p) : \A d \in RowsOf(p) :
        verifications[d].sentAt <= verifications[c].sentAt}

CountSendsSince(p, since) ==
    LET inWindow == {c \in RowsOf(p) : verifications[c].sentAt >= since}
    IN  MapThenSumSet(LAMBDA c : verifications[c].sendsInWindow, inWindow)

\* The administrator's reads: ListAccounts asks for the phones whose latest
\* challenge is locked ...
LockedPhones(t) == {p \in Phones : \E c \in LatestRows(p) : IsLocked(verifications[c], t)}

LockoutActive(p) == p \in LockedPhones(now)

\* ... and Analytics aggregates over the challenges sent since an instant.
Analytics(since) ==
    LET inRange == {c \in DOMAIN verifications : verifications[c].sentAt >= since}
        InStatus(s) == {c \in inRange : verifications[c].status = s}
    IN  [failed   |-> MapThenSumSet(LAMBDA c : verifications[c].failedAttempts, inRange),
         verified |-> Cardinality(InStatus("verified")),
         locked   |-> Cardinality(InStatus("locked"))]

-----------------------------------------------------------------------------
(* Transactions. *)

\* What two rows of user_account may not do: share a phone or a Google subject.
Clash(row, other) ==
    \/ row.phone = other.phone
    \/ row.subject # None /\ row.subject = other.subject

\* Bug: the index on google_subject is forgotten.
BugPhoneOnly(row) == \E a \in DOMAIN accounts : row.phone = accounts[a].phone

\* The insert fails with 23505 when a committed row clashes with it ...
UniqueViolation(row) == \E a \in DOMAIN accounts : Clash(row, accounts[a])

\* ... and waits while an uncommitted one does.
KeyHeld(w, row) ==
    \E u \in Workers \ {w} : \E a \in DOMAIN tx[u].accounts : Clash(row, tx[u].accounts[a])

\* An UPDATE waits for the transaction that updated the row before it.
RowHeld(w, c) == \E u \in Workers \ {w} : c \in DOMAIN tx[u].rows

Merge(table, writes) ==
    [x \in DOMAIN table \cup DOMAIN writes |->
        IF x \in DOMAIN writes THEN writes[x] ELSE table[x]]

Apply(writes) ==
    /\ verifications' = Merge(verifications, writes.rows)
    /\ accounts' = Merge(accounts, writes.accounts)
    /\ sessions' = Merge(sessions, writes.sessions)
    /\ audits' = [c \in Challenges |->
                    audits[c] + (IF c \in writes.audits THEN 1 ELSE 0)]

-----------------------------------------------------------------------------
(* A worker's moves: to another statement, with or without a write of its    *)
(* transaction, or to its answer.                                            *)

Write(w, place, locals, writes) ==
    /\ pc' = [pc EXCEPT ![w] = place]
    /\ job' = [job EXCEPT ![w] = locals]
    /\ tx' = [tx EXCEPT ![w] = writes]
    /\ UNCHANGED now

Goto(w, place, locals) == Write(w, place, locals, tx[w])

Answer(w) == Write(w, "idle", NoJob, NoWrites)

\* Bugs: statements run outside the transaction, so they stay when it fails;
\* a failed transaction is left open.
BugKeepWrites(w) == Answer(w) /\ Apply(tx[w])
BugLeakTx(w) == Write(w, "idle", NoJob, tx[w]) /\ UNCHANGED tables

\* InTx's error path, and the answer to every handler error before it.
Rollback(w) == Answer(w) /\ UNCHANGED tables

Commit(w) ==
    /\ pc[w] = "commit"
    /\ Apply(tx[w])
    /\ Answer(w)
    /\ UNCHANGED <<delivered, wrong>>

\* A statement, a send or the commit fails, the client hangs up, the process
\* dies: whatever was not committed is gone.
Abort(w) ==
    /\ pc[w] # "idle"
    /\ Rollback(w)
    /\ UNCHANGED <<delivered, wrong>>

-----------------------------------------------------------------------------
(* RequestVerification: find the account, find the latest challenge, count   *)
(* the sends, send, create.  The bound on row ids counts those in flight.    *)

RoomForChallenge ==
    Cardinality(DOMAIN verifications)
      + Cardinality({u \in Workers : job[u].op = "request"}) < Cardinality(Challenges)

StartRequest(w, p, intent, subject) ==
    LET fresh == [phone |-> p, intent |-> intent, subject |-> subject, code |-> 0,
                  sentAt |-> 0, expiresAt |-> 0, failedAttempts |-> 0,
                  sendsInWindow |-> 0, lockedUntil |-> NoTime, status |-> "pending"]
    IN  /\ pc[w] = "idle" /\ RoomForChallenge
        /\ intent = "signup" <=> ~HasAccount(p)
        /\ intent = "signin" => subject = None
        /\ Goto(w, "latest", [NoJob EXCEPT !.op = "request", !.fresh = fresh, !.at = now])
        /\ UNCHANGED <<tables, delivered, wrong>>

ReadLatest(w) ==
    /\ pc[w] = "latest"
    /\ LET latest == LatestRows(job[w].fresh.phone)
       IN  \/ latest = {} /\ Goto(w, "count", job[w])
           \/ \E c \in latest :
                IF Requestable(verifications[c], job[w].at)
                THEN Goto(w, "count", [job[w] EXCEPT !.c = c, !.row = verifications[c]])
                ELSE Answer(w)
    /\ UNCHANGED <<tables, delivered, wrong>>

CountSends(w) ==
    LET sends == CountSendsSince(job[w].fresh.phone, job[w].at - SendCapWindow)
        locked == [job[w] EXCEPT !.fresh = NoRow, !.row = Lock(@, job[w].at)]
    IN  /\ pc[w] = "count"
        /\ IF sends < MaxSendsPerWindow
           THEN Goto(w, "send", [job[w] EXCEPT !.c = None, !.row = NoRow])
           ELSE IF job[w].c = None THEN Answer(w) ELSE Goto(w, "update", locked)
        /\ UNCHANGED <<tables, delivered, wrong>>

Sent(row, t) == RegisterSend([row EXCEPT !.code = Len(delivered) + 1], t)

Recipient(w) == IF job[w].op = "request" THEN job[w].fresh.phone ELSE job[w].row.phone

\* A sent code goes into the new challenge, or into the copy of the old one.
StoreCode(w) ==
    \/ /\ job[w].op = "request"
       /\ Goto(w, "create", [job[w] EXCEPT !.fresh = Sent(@, job[w].at)])
    \/ /\ job[w].op = "resend"
       /\ Goto(w, "update", [job[w] EXCEPT !.row = Sent(@, job[w].at)])

\* Bug: the challenge is written although the provider refused the send.
BugPersistUnsent(w) ==
    /\ pc[w] = "send"
    /\ StoreCode(w)
    /\ UNCHANGED <<tables, delivered, wrong>>

\* The provider delivers a code nobody has seen, or refuses; a delivery whose
\* answer is lost or late (10 s) is a refusal to the handler too.
SendCode(w) ==
    /\ pc[w] = "send"
    /\ \/ /\ Len(delivered) < MaxCodes
          /\ delivered' = Append(delivered, Recipient(w))
          /\ StoreCode(w) \/ Answer(w)
       \/ Answer(w) /\ UNCHANGED delivered
    /\ UNCHANGED <<tables, wrong>>

CreateChallenge(w) ==
    /\ pc[w] = "create"
    /\ \E c \in Challenges \ DOMAIN verifications :
         verifications' = Put(verifications, c, job[w].fresh)
    /\ Answer(w)
    /\ UNCHANGED <<accounts, sessions, audits, delivered, wrong>>

-----------------------------------------------------------------------------
(* ResendVerification: get, send, update. *)

StartResend(w, c) ==
    LET v == verifications[c]
        resend == [NoJob EXCEPT !.op = "resend", !.c = c, !.row = v, !.at = now]
    IN  /\ pc[w] = "idle"
        /\ Resendable(v, now)
        /\ IF SendCapReached(v)
           THEN Goto(w, "update", [resend EXCEPT !.row = Lock(v, now)])
           ELSE Goto(w, "send", resend)
        /\ UNCHANGED <<tables, delivered, wrong>>

\* Update overwrites the whole row with the handler's copy.
UpdateChallenge(w) ==
    LET c == job[w].c
    IN  /\ pc[w] = "update" /\ ~RowHeld(w, c)
        /\ verifications' = Put(verifications, c, job[w].row)
        /\ wrong' = IF job[w].op = "wrong" THEN [wrong EXCEPT ![c] = @ + 1] ELSE wrong
        /\ Answer(w)
        /\ UNCHANGED <<accounts, sessions, audits, delivered>>

-----------------------------------------------------------------------------
(* ConfirmVerification: get and compare, then update, or the transaction     *)
(* find-or-create account, create session, update, commit.                   *)

\* Bounds on the ids of sessions and accounts count those in flight.
RoomForSession ==
    Cardinality(DOMAIN sessions)
      + Cardinality({u \in Workers : job[u].op \in {"right", "google"}})
        < Cardinality(Sessions)
RoomForAccount ==
    Cardinality(DOMAIN accounts)
      + Cardinality({u \in Workers : job[u].op = "right"}) < Cardinality(Accounts)

StartConfirmWrong(w, c) ==
    /\ pc[w] = "idle" /\ wrong[c] < MaxWrong
    /\ Confirmable(verifications[c], now)
    /\ Goto(w, "update", [NoJob EXCEPT !.op = "wrong", !.c = c, !.at = now,
                            !.row = RegisterFailure(verifications[c], now)])
    /\ UNCHANGED <<tables, delivered, wrong>>

StartConfirmRight(w, c) ==
    /\ pc[w] = "idle" /\ RoomForSession
    /\ verifications[c].intent = "signup" => RoomForAccount
    /\ Confirmable(verifications[c], now)
    /\ Goto(w, "account", [NoJob EXCEPT !.op = "right", !.c = c, !.at = now,
                             !.row = verifications[c]])
    /\ UNCHANGED <<tables, delivered, wrong>>

FindAccount(w) ==
    /\ pc[w] = "account" /\ job[w].row.intent = "signin"
    /\ \/ \E a \in DOMAIN accounts :
            /\ accounts[a].phone = job[w].row.phone
            /\ Goto(w, "session", [job[w] EXCEPT !.a = a])
       \/ ~HasAccount(job[w].row.phone) /\ Answer(w)
    /\ UNCHANGED <<tables, delivered, wrong>>

FreeAccounts ==
    {a \in Accounts \ DOMAIN accounts : \A u \in Workers : a \notin DOMAIN tx[u].accounts}

CreateAccount(w) ==
    LET row == [phone |-> job[w].row.phone, subject |-> job[w].row.subject]
    IN  /\ pc[w] = "account" /\ job[w].row.intent = "signup"
        /\ \/ /\ ~UniqueViolation(row) /\ ~KeyHeld(w, row)
              /\ \E a \in FreeAccounts :
                   Write(w, "session", [job[w] EXCEPT !.a = a],
                         [tx[w] EXCEPT !.accounts = Put(@, a, row)])
              /\ UNCHANGED tables
           \/ UniqueViolation(row) /\ Rollback(w)
        /\ UNCHANGED <<delivered, wrong>>

FreeSessions ==
    {s \in Sessions \ DOMAIN sessions : \A u \in Workers : s \notin DOMAIN tx[u].sessions}

CreateSession(w) ==
    LET google == job[w].op = "google"
        row == [account |-> job[w].a,
                grant |-> IF google THEN job[w].subject ELSE job[w].c]
    IN  /\ pc[w] = "session"
        /\ \E s \in FreeSessions :
             Write(w, IF google THEN "commit" ELSE "verify", job[w],
                   [tx[w] EXCEPT !.sessions = Put(@, s, row)])
        /\ UNCHANGED <<tables, delivered, wrong>>

\* Bugs: only the status is written; it is written outside the transaction.
BugStatusOnly(w) ==
    LET c == job[w].c
    IN  /\ pc[w] = "verify" /\ ~RowHeld(w, c)
        /\ Write(w, "commit", job[w],
                 [tx[w] EXCEPT !.rows = Put(@, c, MarkVerified(verifications[c]))])
        /\ UNCHANGED <<tables, delivered, wrong>>
BugVerifyApart(w) ==
    LET c == job[w].c
    IN  /\ pc[w] = "verify" /\ ~RowHeld(w, c)
        /\ verifications' = Put(verifications, c, MarkVerified(job[w].row))
        /\ Goto(w, "commit", job[w])
        /\ UNCHANGED <<accounts, sessions, audits, delivered, wrong>>

VerifyChallenge(w) ==
    LET c == job[w].c
    IN  /\ pc[w] = "verify" /\ ~RowHeld(w, c)
        /\ Write(w, "commit", job[w],
                 [tx[w] EXCEPT !.rows = Put(@, c, MarkVerified(job[w].row))])
        /\ UNCHANGED <<tables, delivered, wrong>>

-----------------------------------------------------------------------------
(* GoogleExchange of a linked subject: find the account, create the session. *)

StartGoogle(w, subject) ==
    /\ pc[w] = "idle" /\ RoomForSession
    /\ \E a \in DOMAIN accounts :
         /\ accounts[a].subject = subject
         /\ Goto(w, "session", [NoJob EXCEPT !.op = "google", !.a = a,
                                  !.subject = subject, !.at = now])
    /\ UNCHANGED <<tables, delivered, wrong>>

(* ClearLockout: find the latest challenge, then update and audit in one     *)
(* transaction.                                                              *)

StartClear(w, a) ==
    /\ pc[w] = "idle"
    /\ \E c \in LatestRows(accounts[a].phone) :
         /\ IsLocked(verifications[c], now) /\ audits[c] < MaxClears
         /\ Goto(w, "unlock", [NoJob EXCEPT !.op = "clear", !.c = c, !.a = a,
                                 !.at = now, !.row = Unlock(verifications[c])])
    /\ UNCHANGED <<tables, delivered, wrong>>

\* Bug: the audit event is not written by the clear's transaction.
BugAuditApart(w) ==
    LET c == job[w].c
    IN  /\ pc[w] = "unlock" /\ ~RowHeld(w, c)
        /\ Write(w, "commit", job[w], [tx[w] EXCEPT !.rows = Put(@, c, job[w].row)])
        /\ audits' = [audits EXCEPT ![c] = @ + 1]
        /\ UNCHANGED <<verifications, accounts, sessions, delivered, wrong>>

\* Bug: the row is written at once, and only the event in the transaction.
BugUnlockApart(w) ==
    LET c == job[w].c
    IN  /\ pc[w] = "unlock" /\ ~RowHeld(w, c)
        /\ verifications' = Put(verifications, c, job[w].row)
        /\ Write(w, "commit", job[w], [tx[w] EXCEPT !.audits = {c}])
        /\ UNCHANGED <<accounts, sessions, audits, delivered, wrong>>

UnlockChallenge(w) ==
    LET c == job[w].c
    IN  /\ pc[w] = "unlock" /\ ~RowHeld(w, c)
        /\ Write(w, "commit", job[w],
                 [tx[w] EXCEPT !.rows = Put(@, c, job[w].row), !.audits = {c}])
        /\ UNCHANGED <<tables, delivered, wrong>>

-----------------------------------------------------------------------------
Tick == now < MaxTime /\ now' = now + 1
        /\ UNCHANGED <<tables, delivered, wrong, pc, job, tx>>

\* The next statement of a request that has started.
Statement(w) ==
    \/ ReadLatest(w) \/ CountSends(w) \/ SendCode(w) \/ CreateChallenge(w)
    \/ UpdateChallenge(w)
    \/ FindAccount(w) \/ CreateAccount(w) \/ CreateSession(w) \/ VerifyChallenge(w)
    \/ UnlockChallenge(w)
    \/ Commit(w)

\* A client's call, and the administrator's.
Start(w) ==
    \/ \E p \in Phones, intent \in Intents, subject \in Subjects \cup {None} :
         StartRequest(w, p, intent, subject)
    \/ \E c \in DOMAIN verifications :
         StartResend(w, c) \/ StartConfirmWrong(w, c) \/ StartConfirmRight(w, c)
    \/ \E subject \in Subjects : StartGoogle(w, subject)

StartAdmin(w) == \E a \in DOMAIN accounts : StartClear(w, a)

Next ==
    Tick \/ \E w \in Workers : Start(w) \/ StartAdmin(w) \/ Statement(w) \/ Abort(w)

Spec == Init /\ [][Next]_vars

\* The Go scheduler runs every goroutine, the pool and the provider answer
\* within their timeouts, and PostgreSQL queues the waiters on a lock.
FairSpec == Spec /\ \A w \in Workers : SF_vars(Statement(w))

-----------------------------------------------------------------------------
(* Properties that hold whatever races. *)

\* Two accounts never share a phone or a Google subject, although the check
\* before the send and the insert after the confirm are minutes apart
\* (service.go:119, 303).
AccountsUnique ==
    \A a, b \in DOMAIN accounts : a # b => ~Clash(accounts[a], accounts[b])

\* An account, its first session and the verified challenge become visible in
\* one step, for a challenge of that phone and subject: no failure leaves an
\* account without session or a challenge still pending (service.go:275-277).
SignupAllOrNothing ==
    [][\A a \in DOMAIN accounts' \ DOMAIN accounts :
          \E s \in DOMAIN sessions' \ DOMAIN sessions, c \in DOMAIN verifications :
              /\ sessions'[s] = [account |-> a, grant |-> c]
              /\ verifications[c].phone = accounts'[a].phone
              /\ verifications[c].subject = accounts'[a].subject
              /\ verifications'[c].status = "verified"
      ]_vars

\* The code a challenge holds was delivered to its phone: a failed send leaves
\* nothing behind and replaces nothing (service.go:192, 449).
StoredCodeDelivered ==
    \A c \in DOMAIN verifications :
        LET v == verifications[c]
        IN  v.code \in DOMAIN delivered /\ delivered[v.code] = v.phone

\* An audit event is committed together with a row that has no lock, one event
\* at a time: a clear that fails leaves none (service.go:689-694).  Whether there
\* was a lock to lift is another question, AuditRecordsEffect below.
AuditCommitsWithUnlock ==
    [][\A c \in Challenges : audits'[c] # audits[c] =>
          /\ audits'[c] = audits[c] + 1
          /\ verifications'[c].lockedUntil = NoTime]_vars

\* No clear goes unrecorded: a send count is only ever taken back to zero by a
\* clear, and although handlers in flight copy the count from row to row, each
\* challenge that shows it has its audit event (service.go:661, 685, 694).
ClearsOnRecord ==
    \A c \in DOMAIN verifications :
        verifications[c].sendsInWindow = 0 => audits[c] > 0

GrantsOf(c) == {s \in DOMAIN sessions : sessions[s].grant = c}

\* Every lockout the account list shows is in the lockout count of a range that
\* holds the challenge's send: the list looks at locked_until, the count at
\* status, and races never part the two (domain.go:227-229, service.go:624, 764).
ListedLocksCounted ==
    \A since \in 0..now :
        LET sentInRange(p) == \E c \in LatestRows(p) : verifications[c].sentAt >= since
        IN  Cardinality({p \in Phones : LockoutActive(p) /\ sentInRange(p)})
                <= Analytics(since).locked

\* The failure rate is made of things that happened: no more failures than wrong
\* codes answered, no more successes than challenges that gave a session
\* (service.go:756-772).
FailureRateFromFacts ==
    \A since \in 0..now :
        /\ Analytics(since).failed <= MapThenSumSet(LAMBDA c : wrong[c], Challenges)
        /\ Analytics(since).verified <= Cardinality({c \in Challenges : GrantsOf(c) # {}})

\* Accounts and sessions implement their abstract specification.
Abstract == INSTANCE Registry WITH Grants <- Challenges \cup Subjects
RegistrySpec == Abstract!Spec

\* Every request is answered: no wait for a row or a key lasts forever.
EveryRequestAnswered == \A w \in Workers : pc[w] # "idle" ~> pc[w] = "idle"

-----------------------------------------------------------------------------
(* What the repository says of the program, and races break. *)

\* README.md:19: five wrong codes lock a challenge for 30 minutes.
WrongCodesLock ==
    \A c \in DOMAIN verifications :
        wrong[c] >= MaxFailedAttempts => verifications[c].lockedUntil # NoTime

\* service.go:238: a consumed challenge's code is no longer valid.
ConsumedOnce == \A c \in Challenges : Cardinality(GrantsOf(c)) <= 1

\* service.go:568: the audit table "records effects, not attempts", so an event
\* stands for a lock that was there and is lifted.
AuditRecordsEffect ==
    [][\A c \in Challenges : audits'[c] # audits[c] =>
          verifications[c].lockedUntil # NoTime]_vars
=============================================================================
