# Specifications of passwordless-auth-service

TLA+ models of the service in `src/`, checked by TLC on small instances, with
theorems checked by TLAPS for every value of the constants. File and line
references are to the repository at the commit these modules were written
against; `PROJECT.json` maps each definition to the lines it models.

## 1. The system

| Component | State | Operations | Interacts with |
|---|---|---|---|
| Challenge rules, `internal/auth/domain.go` | a `Verification` row | `RegisterSend`, `RegisterFailure`, `Lock`, `MarkVerified`; predicates `IsExpired`, `IsLocked`, `ResendReady`, `SendCapReached` | called by the service on a row it read |
| Service, `internal/auth/service.go` | none of its own: tables `verification`, `user_account`, `session`, `audit_event` | `RequestVerification`, `ResendVerification`, `ConfirmVerification`, `GoogleExchange`, `ValidateSession`, `RevokeSession`, `ClearLockout`, and the reads `Account`, `ListAccounts`, `Analytics` | repositories, sender, identity verifier, clock, `InTx` |
| Repositories, `internal/auth/postgres` | the tables | one SQL statement each | the ambient transaction, or the pool |
| Unit of work and pool, `internal/platform/db` | connections | `InTx`, `Querier`, `NewPool` | every handler |
| Google verifier, `internal/auth/google.go` | key cache under a mutex | `Verify`; sign and verify of pending-link tokens | Google's JWKS endpoint |
| Session gate, `internal/platform/auth` | none | bearer token to principal | `ValidateSession` |
| HTTP operations, `internal/auth/handler.go` | none | nine operations | the service |
| Process, `cmd/serve.go`, `httpserver/server.go` | stage, requests in flight | start, serve, drain, close pool | everything |
| WhatsApp client | none | `SendCode` | Meta's Cloud API |
| Configuration, `internal/platform/config` | the environment, read at start | `Load` | `RunServe` |
| Readiness probe, `httpserver/health.go` | none | `Ping` | the pool |
| Observability, CORS, CLI | none the requests see | | |

net/http gives every request a goroutine. Requests share the tables and nothing
else, except the key cache. What is hard:

* **Interleaving.** Handlers read a row, decide in Go, and write the whole row
  back; only sign-up, sign-in, Google sign-in and the clear write in a
  transaction, and all of them read what they decide on before it begins.
* **A slow call in the middle.** Request and resend hold their row over a
  WhatsApp call; a key lookup holds a mutex over a fetch.
* **Time.** Six durations with strict and non-strict comparisons, each test
  against the clock reading of a handler that may be old when it writes.
* **Several challenges of one phone.** Locks, counters and caps are per row; the
  phone's limits are read off its latest row or a sum over rows.
* **Failure.** Any statement, send or commit may fail; a send may be delivered
  and reported as failed; a stop may come any time.
* **Restarts and replicas.** Pending-link tokens outlive the process that signed
  them, and need not come back to it.

What makes each component correct:

* challenge rules: a lock outlives the code it guards; wrong codes are bounded
  over the whole life of a challenge; a consumed challenge stays consumed;
* service: the send cap is respected; waiting always frees a phone; accounts are
  unique; sign-up is all or nothing; a clear and its audit event are committed
  together; a stored code is a delivered one;
* Google sign-up: a token is honoured by every replica while it lives, and by
  none after; an account is linked only on a recent proof;
* administrator's reads: the list and the analytics agree with the facts;
* sessions: sign-out is final; used sessions live; idle sessions die;
* key cache: retired keys die; published keys are known; lookups return;
* process: requests end; it stops; a stop cuts no transaction in two.

## 2. Modules

| Module | Models | Reads as |
|---|---|---|
| `AuthDomain` | the row rules and the refusals built from them | operators from a row and an instant to a row or a Boolean |
| `AuthService` (EXTENDS `AuthDomain`) | the service, one whole handler a step | `RequestVerification`, `ResendVerification`, `ConfirmWrong/Signup/Signin`, `GoogleExchange`, `ClearLockout`, `Tick`; `ClientRequest` and `AdminRequest` group them by route |
| `AuthConcurrent` (EXTENDS `AuthDomain`) | the same handlers, one statement or provider call a step, `Workers` requests at once | `Start...` reads and decides (`Start` for the user's routes, `StartAdmin` for the clear); the other steps follow; `Abort` is every failure; `tx` holds what a transaction wrote until `Commit` |
| `Registry` | abstract specification of accounts and sessions | `SignUp` and `SignIn`, each one atomic step |
| `GoogleLink` (EXTENDS `AuthService`) | replicas that start, crash and restart under one configuration; the pending-link tokens they sign and check | `StartProcess`, `StopProcess`; `Exchange` and `LinkedRequest` on a replica conjoin the handler of `AuthService` with the token; `OtherRequest` is the rest of the verification routes, `AdminClear` the administrator's |
| `SessionService` | a token's life: gate, validation, throttled extension, sign-out | one statement a step, `Workers` requests at once |
| `JwksCache` | the key cache, its mutex, Google's rotation (external) | lock, fetch, answer, decode, or failure |
| `Server` | start, serve, drain, close; connections and requests in flight | a handler is the list of the statements and calls it needs; `Handlers` has every route of `handler.go` and the readiness probe |
| `RowSums` | sums over the rows of a table (`MapThenSumSet`) | lemmas the proofs about caps and analytics use |
| `AuthService_proofs`, `AuthRecovery_proofs`, `AuthConcurrent_proofs`, `GoogleLink_proofs`, `SessionService_proofs`, `JwksCache_proofs`, `Server_proofs` | theorems | |
| `MCAuthService`, `MCAuthConcurrent`, `MCGoogleLink` | symmetry sets for TLC | |

A `Bug...` operator is the form a definition would take with a plausible bug in
the code; each property is known to fail with one of them.

How state corresponds to the code:

* A table is a function from the ids of its rows to records of the columns the
  properties tell apart. Ids (`uuid.New`) are drawn from finite sets. `audits`
  counts `audit_event` rows by the challenge in their metadata.
* A code is never a string. In `AuthService` a submitted code is right or wrong;
  in `AuthConcurrent` a code is its index among those delivered. Hashing is left
  out: `CompareHashAndPassword` is equality. A guess that happens to be right is
  a right one.
* Phones are normalized already; roles, languages, routes and e-mails are left
  out.
* Time is a natural number in an arbitrary unit. A handler's clock reading is
  the one the code takes, taken once, and is kept in `job.at`.
* `AuthConcurrent` merges a read with the decisions in Go that follow it up to
  the next statement. Nothing else can see these. The account lookup of
  `RequestVerification` and the read of the latest row are separate; so are
  send, create and update. Reads see committed rows (READ COMMITTED, the default
  that `pool.Begin` uses). `KeyHeld` and `RowHeld` model PostgreSQL's waits on
  an uncommitted unique key and an uncommitted update of a row.
* A send in `AuthConcurrent` has three outcomes: delivered and answered, refused,
  and delivered although the handler is told it failed (the answer was lost or
  came after the 10 s timeout). The last leaves a code nobody stored or counted.
* In `GoogleLink` the environment is chosen once, the same for all replicas;
  `secret` is what each running process signs with. A token is a set member that
  stays for ever: tokens are the clients', who may show any of them at any time,
  again and again. `RequestVerification` is `LinkHonoured /\ OpenChallenge` in
  `AuthService`; here `Accepts`, what `jwt` does with signature and `exp`, takes
  the place of `LinkHonoured`. `exp` is rounded down to `Second`.
* `LatestRows` is a set: rows with equal `sent_at` come in any order.
* In `SessionService` the account read of a validation is part of its check;
  accounts never change. A validation of another request may be between any two
  statements. A sign-out reads its clock (`StartRevoke`) before its statement
  gets a connection (`Revoke`), so requests may begin, and be served, after the
  time it writes. What a sign-out promises is therefore stated against the
  statement and not against the time it wrote: the history variable `signedOut`
  holds the sessions whose sign-out was written, and `late` of a request says
  whether its session was among them when its row was read.

Bounds are constants with `Max` in their names and appear in guards: `MaxTime`,
`MaxClears`, `MaxWrong`, `MaxCodes`, `MaxStarts`, `MaxTokens`. The sets of row ids bound how many rows are
made; `RoomForChallenge`, `RoomForSession` and `RoomForAccount` keep requests in
flight within them, so that no request stops for want of an id.

## 3. Runs

Passing:

| Run | Instance | Shows |
|---|---|---|
| `auth_rules` | one phone, one Google subject, three challenges, cap 2, lock after 1, times up to 4 | `LockOutlivesCode`, `WrongCodesBounded`, `ReplayNeedsClear`, `LapsedLockFreesPhone`, `PhoneRecovers`, `RequestRespectsCap`, `SendsPerPhoneBounded` |
| `race_tables` | two requests, one phone, two challenges, times up to 2, every handler and failure | `SignupAllOrNothing`, `StoredCodeDelivered`, `AuditCommitsWithUnlock`, `ClearsOnRecord`, `ListedLocksCounted`, `FailureRateFromFacts` |
| `race_signup` | two requests, two phones, one subject, two accounts | `AccountsUnique`, refinement `RegistrySpec`, liveness `EveryRequestAnswered` |
| `sessions` | one token, two requests, window 5, interval 3, lag 1, times up to 9 | `SignOutSticks`, `SignedOutRefused`, `UsedSessionsLive`, `IdleSessionsDie` |
| `jwks_cache` | two lookups, two keys, TTL 1, exchange 1, times up to 2 | `RetiredKeysDie`, `PublishedKeysKnown`, liveness `LookupsReturn` |
| `google_link` | two replicas, three starts, two tokens, one Google subject, one challenge, a second of 2, token life 2, times up to 6, every configuration | `LinkProvedRecently`, `ProductionLinksHonoured`, refinement `HonoursTheLinkRule` |
| `server` | two requests, one connection | `StopCutsNoTransaction`, liveness `RequestsEnd`, `ServerStops` |

Why the bounds are enough to matter. Three challenges let a fresh request meet
two older ones, which the sum over rows needs; in `auth_rules` a lock lapses
within the clock (a lock lasts 2) and codes expire (1). Every race of the code
is between two requests; two workers give each. The window of `sessions` fits
two extensions, the second of which may be overtaken. Two keys let a lookup of
one empty or refresh the cache another relies on; TTL 1 lets an entry be fresh,
then stale. Six units of time fit a token and the lives of two codes, so the age
that `LinkProvedRecently` bounds is reached to the last unit; three starts let a
replica restart while the other goes on; an even second against odd issue times
makes `exp` lose a unit. One connection and two requests are the smallest starved pool; three
requests and two connections were checked as well. The theorems of section 5
lift the bounds for what they cover, a lock after the first wrong code included.

What disagrees with the repository's words (each run violates one property):

| Run | What it shows |
|---|---|
| `auth_locked_phone` | `README.md:22` has a locked number unable to escape by a fresh request; the lock is looked for on the latest challenge only (`service.go:150`), and one on an older challenge is not seen. The comment at `service.go:655-657`, that only the latest row can hold a current lock, fails in the same way. |
| `auth_clear_frees` | a clear is meant to let the user retry at once (`service.go:659-661`); it resets one of the rows the cap sums (`service.go:685`). |
| `race_wrong_codes` | wrong codes confirmed together are counted as one (`service.go:246`), so more than five may be tried (`README.md:19`). |
| `race_consumed_once` | two confirms of a sign-in code both open a session (`service.go:237`). |
| `race_audit` | two clears in flight lift one lock and write two events (`service.go:680`, `689`); `service.go:568-569`, ADR-0008 and `spec.md:151` have the table record effects, not attempts. |

`AuditCommitsWithUnlock` and `AuditRecordsEffect` are the two halves of what an
audit event should mean. The first holds: the event commits with a row that has
no lock, and a clear that fails leaves none. The second, that there was a lock to
lift, does not. `ClearsOnRecord` is the other direction: no clear goes
unrecorded. `LapsedLockFreesPhone` begins the instant after a lock has lapsed: at
`lockedUntil` itself `IsLocked` is false already, while a send of the instant of
the lock is still in the window, so a request of that instant may lock again.

Seen while modelling, without a run of their own: FR-029 caps the sends to a
phone, but a resend compares its own row only (`service.go:432`), and what holds
instead is `RequestRespectsCap`, for a new challenge, and `SendsPerPhoneBounded`,
no more than the square of the cap, 25 codes in 30 minutes (with a cap of 2 TLC
finds a phone that gets 4); a code that was sent but not stored
(`service.go:212`), or whose answer was lost (`client.go:186`), is not counted by
the cap at all; a resend in flight writes its old copy of the row over a lock
that was set meanwhile (`service.go:456`), which is a second way to violate
`WrongCodesLock`; `LockoutCount` counts locks that are over (`service.go:764`),
although `service.go:707` says currently locked; the key cache fetches for every
unknown kid (`google.go:93`), although `google.go:84-85` says at most once an
hour; a taken Google subject is reported as an account that exists for the phone
(`repository.go:125`, `domain.go:81`); without a race a consumed sign-in code can be used again after a
cap lock of a fresh request and an administrator's clear (`service.go:174`,
`service.go:686`), and `ReplayNeedsClear` says it needs the clear.

`CHECK_DEADLOCK FALSE` is set in every run: the bounded clock, the finite id
sets and, in `Server`, the end of the process let behaviours end.

## 4. Fairness

* `AuthConcurrent`: strong fairness of the next statement of each request. The
  scheduler runs every goroutine, statements and calls answer or time out
  (WhatsApp after 10 s), and PostgreSQL queues the waiters on a lock, so one
  that is released again and again is granted. `Abort` is not fair: nothing has
  to fail. `EveryRequestAnswered` therefore rests on no failure.
* `JwksCache`: strong fairness of taking the mutex (`sync.Mutex` hands over to a
  starved waiter), weak fairness of the exchange's end (client timeout 5 s).
* `Server`: strong fairness of getting a connection (pgxpool serves waiters in
  order), weak fairness of what a request does of itself, of start-up, of the
  drain (10 s timeout) and of closing the pool. Failing early is never fair.

The safety runs use no fairness. `SessionService` has no liveness property.

## 5. Proofs

Assumptions are those named in the modules: the shape of the constants
(`ChallengeConstants`, with `OTPTTL < LockoutDuration`; `SessionConstants`, with
the interval no longer than the window and longer than twice the time a request
may be in flight; `CacheConstants`), that row ids, subjects and the null
values differ, and in `AuthConcurrent` that there are finitely many challenge
ids (`FiniteIds`; they are 128-bit numbers), without which a sum over rows has no
meaning. The sequential service needs no such assumption: its table is finite
because every step adds at most one row, which is part of the invariant.

**`AuthService_proofs`.** `TypeCorrect`, `LockedCodesDie`,
`WrongCodesAreBounded` follow from one inductive invariant: the properties, plus
`CodeWindow` (no code expires later than `OTPTTL` from now, so a lock set now
outlives it) and `WrongCodesLeft` (a challenge without a lock has a wrong code
left, so the next one cannot pass the bound). `LockOutlivesCode` is what makes
`WrongCodesBounded` inductive: once a lock has been set, the code is dead before
the lock lapses, so only an administrator's clear lets another code be compared.
`ReplaysNeedClears` adds `Spent`: a challenge that gave a session and was not
cleared is verified, or was locked since, and so is never confirmable again.

**`AuthRecovery_proofs`.** `PhonesRecover` and `LapsedLocksFree` add `Recent` to
the invariant: no row was sent in the future, and a lock reaches from
`LockoutDuration` after its row's last send, at the least, to `LockoutDuration`
from now, at the most. So when a lock has lapsed, or `Quiet` has passed, the
latest row and with it every row of the phone has left the send window, and the
sum over no rows is 0. `LapsedLocksFree` assumes `SendCapWindow <=
LockoutDuration`; both are 30 minutes in the code, and the phone would be locked
again at once if the window were made longer.

The send cap is proved there too. `RequestsRespectCap` adds `SendsCounted`: for a
phone none of whose rows was cleared, and for every instant a window may begin,
the phone received no more codes since then than its rows that were sent since
then count. It must be stated for every beginning and not for the current one
only, because the window moves; a resend keeps it although it moves a row with
all it counted into a later window, since that can only add to the sum.
`SendsPerPhoneAreBounded` bounds that sum from above with `Spread`: each row
counts between 1 and the cap, and at most `MaxSendsPerWindow` rows are in the
current window. The second holds because a request opens a challenge only while
the sum, which is no less than the number of rows, is below the cap, and because
a resend needs a live code, whose row is still in the window: hence the
assumption `OTPTTL <= SendCapWindow` (10 and 30 minutes). With a longer-lived code
a resend could bring back rows that had left.

**`RowSums`.** The sum over a finite set is defined by a recursive function that
takes the rows in an unknown order. The induction rules of the library take an
operator and no installed prover can use them, so each lemma takes a smallest
counterexample instead: among the parts of a finite set for which the claim
fails, one of least size, from which a row is taken. The lemmas say that such a
function exists and is unique (`TotalIs`), that any row may be taken first
(`TotalWithout`), that sums grow with the set and with its values (`TotalGrows`),
and lie between the number of rows and that number times a bound (`TotalBounds`).

**`AuthConcurrent_proofs`.** One inductive invariant carries `TypeCorrect`,
`AccountsAreUnique`, `ImplementsRegistry`, `SignupsAllOrNothing`,
`StoredCodesDelivered` and `AuditsCommitWithUnlock`.
`Located` says of each request, by where it is, what it has read and written: the
row it holds is a copy of a stored challenge with the same phone and subject and
a code that was delivered (`Copy`), and its transaction holds exactly the writes
the statements before made (`SignReady`, `GoogleReady`, `ClearReady` at the
commit). Other requests keep this because tables and deliveries only grow and no
challenge changes hands (`Grows`): that is why overwriting a row with an old copy
loses counters and locks but never the owner, the link or the meaning of the
code. `Apart` says that pending accounts clash neither with each other nor with
committed ones, which is what the unique index and the waits on it buy. Each
action has a lemma; `CommitRefines` maps the one step that counts to `SignUp`,
`SignIn` or a stutter of `Registry`.

The two theorems about the administrator's reads rest on a second invariant,
`Facts`, kept by every row in the tables and by every copy a handler holds, so
that it does not matter which copy is written last: a row that carries a lock
which still holds has status locked, one that is verified gave a session (one
transaction writes both), and its failures are no more than the
wrong codes answered for it, the handler's own pending answer included.
`ListedLocksAreCounted` maps each listed phone to a locked row of its own;
`FailureRatesFromFacts` compares the sums row by row.

`ClearsAreOnRecord` rests on `Recorded`: a send count of 0 in the table has its
event, and so has one in a copy that a handler holds and will write; only the
clear's own transaction holds a count of 0 without an event, and it holds the
event as well. Writing the row outside that transaction breaks it.

**`GoogleLink_proofs`.** `ProcessesHonourTheRule` maps each step to a step of
`AuthService` (a start, a stop and a token are stutters), because no token is
newer than its subject's newest (`TokensKnown`) and rounding only shortens a
life; `AuthService`'s own theorems then hold of the processes. `OneSecret`, that
with a configured secret there is no other, gives `ProductionHonoursLinks`.
`LinksProvedRecently` rests on `ProofsFresh`: a challenge of a phone without an
account has a token behind it that is older than its code by at most one code's
life for each send it counted. A clear forgets sends, but needs an account.

**`SessionService_proofs`.** `IdleSessionsExpire` and `UsedSessionsSurvive` rest
on `FullWindow` (an expiry is a full window from the activity written with it),
`Throttled` (a validation lies within one interval of that activity) and
`InFlight`, what a request knows of the row it read: if the table's row is older
than its own, a slower request wrote it, and that one was young. This is where
the bound on a request's time in flight is needed. `SignOutRefuses` rests on
`SignOuts`, that a session whose sign-out was written is revoked in the table,
and on the part of `InFlight` that a `late` request holds a revoked row;
no clock readings are compared. `SignOutIsFinal` follows from the columns each
statement writes.

**`JwksCache_proofs`.** `RetiredKeysExpire` and `PublishedKeysFound` rest on
`CacheFresh` (a cached key retired before the fetch ended was retired less than
one exchange before it) and `InFlight` (an answer holds Google's keys of a
moment after the request left). The mutex makes the cache and the exchange one
lookup's: `TypeOK` carries that `mu = w` exactly while `w` fetches.

**`Server_proofs`.** A request holds a connection exactly while the steps it has
left begin inside a transaction (`Connected`, from `WellNested` handlers); the
bound of the pool in `TypeOK` follows, and `StopsCutNoTransaction`: the process
stops only when the pool has every connection back, and a request inside a
statement or a transaction holds one.

The inductive invariants were checked by TLC before they were proved.

Every invariant and every action property of the runs is stated by a
theorem. Only model-checked: liveness (`EveryRequestAnswered`,
`LookupsReturn`, `RequestsEnd`, `ServerStops`), which rests on `ENABLED`, out of
the prover's reach; and the five disagreements of section 3, which are
counterexamples.

## 6. Not modelled

* Texts, status codes, JSON, paging and search: no property is about them.
* `NormalizePhone`, bcrypt, SHA-256, JWT signatures: pure functions without
  state; what they decide is an input.
* The pending-link token in `AuthConcurrent`: a sign-up may carry any subject,
  which is more than the code allows. `AuthService` checks its lifetime, `GoogleLink` who signed it.
* Liveness of sign-in for a user who keeps trying: with the code's caps and locks
  it depends on what others do to the same phone. `PhoneRecovers` says instead
  that waiting is always enough.
* Roles, and the sign-ups by method in `Analytics`; its three aggregates are
  read in one step, in the code in three statements.
* The admin gate, migrations, observability, `/healthz` and CORS: stateless, or
  handed over to a library. Of the configuration, everything but the two values
  `Load` insists on.
* More than one replica, outside `GoogleLink`: the tables are shared just the
  same, so another replica is more workers; each has a key cache of its own.
* In `GoogleLink` requests do not overlap; what overlaps is in `AuthConcurrent`.

## 7. Plan

Done: the challenge rules and the sequential service; the concurrent service with
its abstract specification; pending-link tokens across replicas and restarts;
sessions and key cache; the process. Each has its theorems.

What could follow:

1. A sign-up with Google end to end: a key lookup in flight (`JwksCache`), the
   token it leads to and the requests of `AuthConcurrent` in one composition; its
   state space needs a coarser key cache.
