------------------------------- MODULE JwksCache -------------------------------
(***************************************************************************)
(* internal/auth/google.go: the signing keys GoogleIdentityVerifier caches *)
(* under a mutex that is held across the fetch.  A worker is one Verify in *)
(* flight, looking up the kid of its token; Google (external) rotates its  *)
(* keys meanwhile.  What Verify checks with the key it got (signature,     *)
(* issuer, audience) is right or wrong of itself and left out.             *)
(***************************************************************************)
EXTENDS Integers, FiniteSets

CONSTANTS
    Workers, Nobody,
    Keys,      \* kids: Google's, used once each, and what tokens may name
    TTL,       \* one hour
    Timeout,   \* http.Client.Timeout, of the whole exchange
    MaxTime    \* bound on the clock

ASSUME NobodyIsNoWorker == Nobody \notin Workers
ASSUME CacheConstants == TTL \in Nat \ {0} /\ Timeout \in Nat /\ MaxTime \in Nat

VARIABLES
    now,                     \* time.Now
    publishedAt, retiredAt,  \* external: what Google's endpoint answers
    mu,                      \* who holds the mutex
    keys, fetchedAt,         \* the cache
    pc, job, result          \* each lookup: where it is, its locals, its answer

google == <<publishedAt, retiredAt>>
cache == <<keys, fetchedAt>>
vars == <<now, google, mu, cache, pc, job, result>>

NoTime == -1
Instant == Nat \cup {NoTime}
NoJob == [kid |-> Nobody]
Results == {"none", "key", "unknown", "failed"}

\* sent: when the request left; body: the keys of the answer, if they are keys.
Job == [kid : Keys, began : Nat, sent : Instant, body : SUBSET Keys, certs : BOOLEAN]

TypeOK ==
    /\ now \in 0..MaxTime
    /\ publishedAt \in [Keys -> Instant] /\ retiredAt \in [Keys -> Instant]
    /\ mu \in Workers \cup {Nobody}
    /\ keys \subseteq Keys /\ fetchedAt \in Instant
    /\ pc \in [Workers -> {"idle", "lock", "fetch", "decode"}]
    /\ job \in [Workers -> Job \cup {NoJob}]
    /\ \A w \in Workers :
        /\ IF pc[w] = "idle" THEN job[w] = NoJob ELSE job[w] \in Job
        /\ pc[w] \in {"fetch", "decode"} <=> mu = w
    /\ result \in [Workers -> Results]

Init ==
    /\ now = 0
    /\ publishedAt = [k \in Keys |-> NoTime] /\ retiredAt = [k \in Keys |-> NoTime]
    /\ mu = Nobody /\ keys = {} /\ fetchedAt = NoTime
    /\ pc = [w \in Workers |-> "idle"] /\ job = [w \in Workers |-> NoJob]
    /\ result = [w \in Workers |-> "none"]

Published(k) == publishedAt[k] # NoTime /\ retiredAt[k] = NoTime

-----------------------------------------------------------------------------
(* Google. *)

Publish(k) ==
    /\ publishedAt[k] = NoTime
    /\ publishedAt' = [publishedAt EXCEPT ![k] = now]
    /\ UNCHANGED <<now, retiredAt, mu, cache, pc, job, result>>

Retire(k) ==
    /\ Published(k)
    /\ retiredAt' = [retiredAt EXCEPT ![k] = now]
    /\ UNCHANGED <<now, publishedAt, mu, cache, pc, job, result>>

-----------------------------------------------------------------------------
(* publicKey and refreshKeysLocked. *)

StartVerify(w, k) ==
    /\ pc[w] = "idle"
    /\ pc' = [pc EXCEPT ![w] = "lock"]
    /\ job' = [job EXCEPT ![w] = [kid |-> k, began |-> now, sent |-> NoTime,
                                  body |-> {}, certs |-> FALSE]]
    /\ result' = [result EXCEPT ![w] = "none"]
    /\ UNCHANGED <<now, google, mu, cache>>

\* Bug: the mutex is unlocked on the way of a found key only.
BugKeepMutex(w, answer) ==
    /\ mu' = IF answer = "key" THEN Nobody ELSE mu
    /\ pc' = [pc EXCEPT ![w] = "idle"] /\ job' = [job EXCEPT ![w] = NoJob]
    /\ result' = [result EXCEPT ![w] = answer]

\* Every return runs the deferred Unlock.
Return(w, answer) ==
    /\ mu' = Nobody
    /\ pc' = [pc EXCEPT ![w] = "idle"] /\ job' = [job EXCEPT ![w] = NoJob]
    /\ result' = [result EXCEPT ![w] = answer]

\* Bugs: a cached key is good for ever; a fresh cache answers for every kid.
BugNoTTL(k) == k \in keys
BugThrottle(k) == fetchedAt # NoTime /\ now - fetchedAt < TTL

CacheHit(k) == k \in keys /\ now - fetchedAt < TTL

Lookup(k) == IF k \in keys THEN "key" ELSE "unknown"

Lock(w) ==
    /\ pc[w] = "lock" /\ mu = Nobody
    /\ IF CacheHit(job[w].kid)
       THEN Return(w, Lookup(job[w].kid))
       ELSE /\ mu' = w
            /\ pc' = [pc EXCEPT ![w] = "fetch"]
            /\ job' = [job EXCEPT ![w].sent = now]
            /\ UNCHANGED result
    /\ UNCHANGED <<now, google, cache>>

\* Google answers with the keys of this moment, or with another JSON body: the
\* status is not looked at, so an error page decodes as a set of no keys.
Respond(w) ==
    /\ pc[w] = "fetch"
    /\ pc' = [pc EXCEPT ![w] = "decode"]
    /\ \/ job' = [job EXCEPT ![w] = [@ EXCEPT !.certs = TRUE, !.body = {k \in Keys : Published(k)}]]
       \/ UNCHANGED job
    /\ UNCHANGED <<now, google, mu, cache, result>>

\* The answer replaces the cache, and the kid is looked up in it.
Decode(w) ==
    /\ pc[w] = "decode"
    /\ keys' = job[w].body /\ fetchedAt' = now
    /\ Return(w, IF job[w].kid \in job[w].body THEN "key" ELSE "unknown")
    /\ UNCHANGED <<now, google>>

\* No connection, no JSON, or the timeout: the cache stays as it was.
FetchFails(w) ==
    /\ pc[w] \in {"fetch", "decode"}
    /\ Return(w, "failed")
    /\ UNCHANGED <<now, google, cache>>

\* The exchange is over before its timeout.
Tick ==
    /\ now < MaxTime
    /\ \A w \in Workers : pc[w] \in {"fetch", "decode"} => now < job[w].sent + Timeout
    /\ now' = now + 1
    /\ UNCHANGED <<google, mu, cache, pc, job, result>>

Finish(w) == Respond(w) \/ Decode(w) \/ FetchFails(w)

Next ==
    \/ Tick
    \/ \E k \in Keys : Publish(k) \/ Retire(k)
    \/ \E w \in Workers :
         \/ \E k \in Keys : StartVerify(w, k)
         \/ Lock(w) \/ Finish(w)

Spec == Init /\ [][Next]_vars

\* sync.Mutex hands over to a waiter it starved, and the exchange times out.
FairSpec == Spec /\ \A w \in Workers : SF_vars(Lock(w)) /\ WF_vars(Finish(w))

-----------------------------------------------------------------------------
Answered(w, answer) == pc[w] # "idle" /\ pc'[w] = "idle" /\ result'[w] = answer

\* A key Google has retired is accepted for less than an hour and one exchange
\* after that, however answers and lookups overlap (google.go:90, 136-137).
RetiredKeysDie ==
    [][\A w \in Workers : LET k == job[w].kid IN
          Answered(w, "key") =>
              /\ publishedAt[k] # NoTime
              /\ retiredAt[k] # NoTime => now < retiredAt[k] + TTL + Timeout]_vars

\* A key that was published before the lookup began and still is, is unknown
\* only to a lookup that was answered with something else than Google's keys:
\* a rotation never makes the cache refuse a good token (google.go:90-99).
PublishedKeysKnown ==
    [][\A w \in Workers : LET k == job[w].kid IN
          Answered(w, "unknown") /\ Published(k) /\ publishedAt[k] < job[w].began
              => pc[w] = "decode" /\ ~job[w].certs]_vars

\* A lookup returns, whoever holds the mutex and whatever the fetch does
\* (google.go:87-88).
LookupsReturn == \A w \in Workers : pc[w] = "lock" ~> pc[w] = "idle"
=============================================================================
