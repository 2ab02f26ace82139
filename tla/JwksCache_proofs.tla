--------------------------- MODULE JwksCache_proofs ---------------------------
(***************************************************************************)
(* How stale a cached signing key may be, and that a fetched one is known, *)
(* for any number of lookups and keys, any TTL and any timeout.            *)
(***************************************************************************)
EXTENDS JwksCache, TLAPS

\* A cached key was Google's, and one retired before the fetch ended was
\* retired less than one exchange before.
CacheFresh ==
    /\ fetchedAt <= now
    /\ keys # {} => fetchedAt # NoTime
    /\ \A k \in keys :
        /\ publishedAt[k] # NoTime
        /\ retiredAt[k] # NoTime => fetchedAt <= retiredAt[k] + Timeout

\* An exchange is younger than its timeout; the keys of its answer were Google's
\* after it was sent, and none that was published before it began is missing.
Exchange(w) ==
    /\ job[w].began <= now
    /\ pc[w] \in {"fetch", "decode"} =>
        /\ job[w].sent \in Nat /\ job[w].sent <= now /\ now <= job[w].sent + Timeout
    /\ pc[w] = "fetch" => ~job[w].certs /\ job[w].body = {}
    /\ pc[w] = "lock" => ~job[w].certs /\ job[w].body = {}
    /\ pc[w] = "decode" =>
        /\ \A k \in job[w].body :
            /\ publishedAt[k] # NoTime
            /\ retiredAt[k] # NoTime => job[w].sent <= retiredAt[k]
        /\ job[w].certs =>
            \A k \in Keys : Published(k) /\ publishedAt[k] < job[w].began
                              => k \in job[w].body

InFlight == \A w \in Workers : pc[w] # "idle" => Exchange(w)

IInv == TypeOK /\ CacheFresh /\ InFlight

USE DEF NoTime, Instant

-----------------------------------------------------------------------------
LEMMA Typed ==
    ASSUME TypeOK
    PROVE  /\ now \in Nat /\ fetchedAt \in Nat \cup {-1} /\ keys \subseteq Keys
           /\ TTL \in Nat /\ TTL > 0 /\ Timeout \in Nat
           /\ \A k \in Keys : publishedAt[k] \in Nat \cup {-1}
                           /\ retiredAt[k] \in Nat \cup {-1}
BY CacheConstants DEF CacheConstants, TypeOK

LEMMA JobTyped ==
    ASSUME TypeOK, NEW w \in Workers, pc[w] # "idle"
    PROVE  /\ job[w] \in Job /\ job[w].kid \in Keys /\ job[w].began \in Nat
           /\ job[w].sent \in Nat \cup {-1} /\ job[w].body \subseteq Keys
           /\ job[w].certs \in BOOLEAN
BY DEF TypeOK, Job

LEMMA InitIInv == Init => IInv
<1> SUFFICES ASSUME Init PROVE IInv
  OBVIOUS
<1>1. TypeOK
  BY CacheConstants, NobodyIsNoWorker
     DEF CacheConstants, NobodyIsNoWorker, Init, TypeOK, Results
<1> QED
  BY <1>1 DEF Init, IInv, CacheFresh, InFlight

LEMMA TickKeeps == ASSUME IInv, Tick PROVE IInv'
<1>0. TypeOK /\ now \in Nat /\ now' = now + 1 /\ fetchedAt \in Nat \cup {-1}
  BY Typed DEF IInv, Tick
<1>1. TypeOK'
  BY <1>0, CacheConstants DEF CacheConstants, Tick, TypeOK, google, cache
<1>2. CacheFresh'
  BY <1>0 DEF IInv, CacheFresh, Tick, google, cache
<1>3. InFlight'
  <2> SUFFICES ASSUME NEW w \in Workers, pc[w] # "idle" PROVE Exchange(w)'
    BY DEF Tick, InFlight
  <2>1. Exchange(w) /\ job[w].began \in Nat /\ Timeout \in Nat
    BY <1>0, JobTyped, Typed DEF IInv, InFlight
  <2>2. pc[w] \in {"fetch", "decode"} => now + 1 <= job[w].sent + Timeout
    BY <1>0, <2>1 DEF Tick, Exchange
  <2> QED
    BY <1>0, <2>1, <2>2 DEF Tick, Exchange, google, Published
<1> QED
  BY <1>1, <1>2, <1>3 DEF IInv

LEMMA PublishKeeps == ASSUME IInv, NEW k \in Keys, Publish(k) PROVE IInv'
<1>0. /\ TypeOK /\ now \in Nat /\ publishedAt[k] = -1
      /\ publishedAt' = [publishedAt EXCEPT ![k] = now]
      /\ publishedAt' \in [Keys -> Nat \cup {-1}]
  BY Typed DEF IInv, Publish, TypeOK
<1>1. TypeOK'
  BY <1>0 DEF Publish, TypeOK, cache
<1>2. CacheFresh'
  BY <1>0 DEF IInv, CacheFresh, Publish, TypeOK, cache
<1>3. InFlight'
  <2> SUFFICES ASSUME NEW w \in Workers, pc[w] # "idle" PROVE Exchange(w)'
    BY DEF Publish, InFlight
  <2>1. Exchange(w) /\ job[w].began \in Nat /\ job[w].body \subseteq Keys
    BY <1>0, JobTyped DEF IInv, InFlight
  <2> QED
    BY <1>0, <2>1 DEF Publish, Exchange, Published, TypeOK, cache
<1> QED
  BY <1>1, <1>2, <1>3 DEF IInv

LEMMA RetireKeeps == ASSUME IInv, NEW k \in Keys, Retire(k) PROVE IInv'
<1>0. /\ TypeOK /\ now \in Nat /\ retiredAt[k] = -1 /\ Timeout \in Nat
      /\ fetchedAt \in Nat \cup {-1}
      /\ retiredAt' = [retiredAt EXCEPT ![k] = now]
      /\ retiredAt' \in [Keys -> Nat \cup {-1}]
  BY Typed DEF IInv, Retire, Published, TypeOK
<1>1. TypeOK'
  BY <1>0 DEF Retire, TypeOK, cache
<1>2. CacheFresh'
  BY <1>0 DEF IInv, CacheFresh, Retire, TypeOK, cache
<1>3. InFlight'
  <2> SUFFICES ASSUME NEW w \in Workers, pc[w] # "idle" PROVE Exchange(w)'
    BY DEF Retire, InFlight
  <2>1. Exchange(w) /\ job[w].began \in Nat /\ job[w].body \subseteq Keys
    BY <1>0, JobTyped DEF IInv, InFlight
  <2> QED
    BY <1>0, <2>1 DEF Retire, Exchange, Published, TypeOK, cache
<1> QED
  BY <1>1, <1>2, <1>3 DEF IInv

LEMMA StartKeeps ==
    ASSUME IInv, NEW w \in Workers, NEW k \in Keys, StartVerify(w, k)
    PROVE  IInv'
<1> DEFINE started == [kid |-> k, began |-> now, sent |-> NoTime,
                       body |-> {}, certs |-> FALSE]
<1>0. /\ TypeOK /\ now \in Nat /\ started \in Job /\ pc[w] = "idle"
      /\ pc' = [pc EXCEPT ![w] = "lock"] /\ job' = [job EXCEPT ![w] = started]
      /\ result' = [result EXCEPT ![w] = "none"]
      /\ UNCHANGED <<now, google, mu, cache>>
  BY Typed DEF IInv, StartVerify, Job
<1>1. /\ pc'[w] = "lock" /\ job'[w] = started
      /\ \A u \in Workers \ {w} : pc'[u] = pc[u] /\ job'[u] = job[u]
  BY <1>0 DEF TypeOK
<1>2. TypeOK'
  BY <1>0, <1>1 DEF TypeOK, Results, google, cache
<1>3. CacheFresh'
  BY <1>0 DEF IInv, CacheFresh, google, cache
<1>4. InFlight'
  BY <1>0, <1>1 DEF IInv, InFlight, Exchange, Published, google
<1> QED
  BY <1>2, <1>3, <1>4 DEF IInv

\* A return from under the mutex frees it; the cache it leaves must be fresh.
LEMMA ReturnKeeps ==
    ASSUME IInv, NEW w \in Workers, NEW answer \in Results, Return(w, answer),
           mu \in {Nobody, w}, UNCHANGED <<now, google>>,
           keys' \subseteq Keys, fetchedAt' \in Instant, CacheFresh'
    PROVE  IInv'
<1>0. TypeOK
  BY DEF IInv
<1>1. /\ pc'[w] = "idle" /\ job'[w] = NoJob /\ mu' = Nobody
      /\ \A u \in Workers \ {w} : pc'[u] = pc[u] /\ job'[u] = job[u]
  BY <1>0 DEF Return, TypeOK
<1>2. TypeOK'
  BY <1>0, <1>1, NobodyIsNoWorker DEF NobodyIsNoWorker, Return, TypeOK, google
<1>3. InFlight'
  BY <1>1 DEF IInv, InFlight, Exchange, Published, google
<1> QED
  BY <1>2, <1>3 DEF IInv

LEMMA LockKeeps == ASSUME IInv, NEW w \in Workers, Lock(w) PROVE IInv'
<1> DEFINE sending == [job[w] EXCEPT !.sent = now]
<1>0. /\ TypeOK /\ now \in Nat /\ job[w] \in Job /\ pc[w] = "lock" /\ mu = Nobody
      /\ Exchange(w) /\ Timeout \in Nat /\ job[w].began \in Nat
      /\ UNCHANGED <<now, google, cache>>
  BY Typed, JobTyped DEF IInv, InFlight, Lock
<1>1. CASE CacheHit(job[w].kid)
  <2>1. CacheFresh'
    BY <1>0 DEF IInv, CacheFresh, google, cache
  <2>2. Lookup(job[w].kid) \in Results
    BY DEF Lookup, Results
  <2> QED
    BY <1>0, <1>1, <2>1, <2>2, ReturnKeeps DEF Lock, TypeOK, cache
<1>2. CASE ~CacheHit(job[w].kid)
  <2>1. /\ mu' = w /\ pc' = [pc EXCEPT ![w] = "fetch"]
        /\ job' = [job EXCEPT ![w] = sending] /\ UNCHANGED result
    BY <1>0, <1>2 DEF Lock
  <2>2. sending \in Job /\ sending.sent = now /\ sending.began = job[w].began
        /\ sending.body = job[w].body /\ sending.certs = job[w].certs
    BY <1>0 DEF Job
  <2>3. /\ pc'[w] = "fetch" /\ job'[w] = sending
        /\ \A u \in Workers \ {w} : pc'[u] = pc[u] /\ job'[u] = job[u]
    BY <1>0, <2>1 DEF TypeOK
  <2> HIDE DEF sending
  <2>4. TypeOK'
    <3>1. /\ pc' \in [Workers -> {"idle", "lock", "fetch", "decode"}]
          /\ job' \in [Workers -> Job \cup {NoJob}]
      BY <1>0, <2>1, <2>2 DEF TypeOK
    <3>2. \A u \in Workers : pc'[u] \in {"fetch", "decode"} <=> u = w
      BY <1>0, <2>3, NobodyIsNoWorker DEF NobodyIsNoWorker, TypeOK
    <3> QED
      BY <1>0, <2>1, <2>2, <2>3, <3>1, <3>2 DEF TypeOK, google, cache
  <2>5. CacheFresh'
    BY <1>0 DEF IInv, CacheFresh, google, cache
  <2>6. InFlight'
    BY <1>0, <2>2, <2>3 DEF IInv, InFlight, Exchange, Published, google
  <2> QED
    BY <2>4, <2>5, <2>6 DEF IInv
<1> QED
  BY <1>1, <1>2

LEMMA RespondKeeps == ASSUME IInv, NEW w \in Workers, Respond(w) PROVE IInv'
<1> DEFINE body == {k \in Keys : Published(k)}
           answered == [job[w] EXCEPT !.certs = TRUE, !.body = body]
<1>0. /\ TypeOK /\ job[w] \in Job /\ pc[w] = "fetch" /\ Exchange(w)
      /\ pc' = [pc EXCEPT ![w] = "decode"]
      /\ job' = [job EXCEPT ![w] = answered] \/ job' = job
      /\ UNCHANGED <<now, google, mu, cache, result>>
  BY JobTyped DEF IInv, InFlight, Respond
<1>1. /\ answered \in Job /\ answered.began = job[w].began
      /\ answered.sent = job[w].sent /\ answered.body = body
  BY <1>0 DEF Job
<1>2. /\ pc'[w] = "decode" /\ job'[w] \in {answered, job[w]}
      /\ \A u \in Workers \ {w} : pc'[u] = pc[u] /\ job'[u] = job[u]
      /\ job' \in [Workers -> Job \cup {NoJob}]
  BY <1>0, <1>1 DEF TypeOK
<1>3. TypeOK'
  BY <1>0, <1>1, <1>2 DEF TypeOK, google, cache
<1>4. CacheFresh'
  BY <1>0 DEF IInv, CacheFresh, google, cache
<1>5. InFlight'
  <2>1. Exchange(w)'
    <3>1. CASE job'[w] = answered
      BY <1>0, <1>1, <1>2, <3>1 DEF Exchange, Published, google
    <3>2. CASE job'[w] = job[w]
      BY <1>0, <1>2, <3>2 DEF Exchange, Published, google
    <3> QED
      BY <1>2, <3>1, <3>2
  <2>2. ASSUME NEW u \in Workers \ {w}, pc'[u] # "idle" PROVE Exchange(u)'
    BY <1>0, <1>2, <2>2 DEF IInv, InFlight, Exchange, Published, google
  <2> QED
    BY <2>1, <2>2 DEF InFlight
<1> QED
  BY <1>3, <1>4, <1>5 DEF IInv

LEMMA DecodeKeeps == ASSUME IInv, NEW w \in Workers, Decode(w) PROVE IInv'
<1>0. /\ TypeOK /\ now \in Nat /\ pc[w] = "decode" /\ mu = w /\ Exchange(w)
      /\ job[w].body \subseteq Keys /\ Timeout \in Nat
      /\ keys' = job[w].body /\ fetchedAt' = now /\ UNCHANGED <<now, google>>
  BY Typed, JobTyped DEF IInv, InFlight, Decode, TypeOK
<1>1. CacheFresh'
  <2> SUFFICES ASSUME NEW k \in job[w].body
               PROVE  /\ publishedAt[k] # NoTime
                      /\ retiredAt[k] # NoTime => now <= retiredAt[k] + Timeout
    BY <1>0 DEF CacheFresh, google
  <2>1. retiredAt[k] \in Nat \cup {-1}
    BY <1>0, Typed
  <2> QED
    BY <1>0, <2>1 DEF Exchange
<1>2. \E answer \in Results : Return(w, answer)
  BY DEF Decode, Results
<1> QED
  BY <1>0, <1>1, <1>2, ReturnKeeps

LEMMA FetchFailsKeeps == ASSUME IInv, NEW w \in Workers, FetchFails(w) PROVE IInv'
<1>1. /\ TypeOK /\ mu = w /\ Return(w, "failed") /\ "failed" \in Results
      /\ UNCHANGED <<now, google, cache>>
  BY DEF IInv, FetchFails, TypeOK, Results
<1>2. CacheFresh'
  BY <1>1 DEF IInv, CacheFresh, google, cache
<1> QED
  BY <1>1, <1>2, ReturnKeeps DEF TypeOK, cache

\* Every step keeps the inductive invariant.
LEMMA StepKeeps == ASSUME IInv, [Next]_vars PROVE IInv'
<1>1. CASE Tick
  BY <1>1, TickKeeps
<1>2. ASSUME NEW k \in Keys, Publish(k) \/ Retire(k) PROVE IInv'
  BY <1>2, PublishKeeps, RetireKeeps
<1>3. ASSUME NEW w \in Workers, NEW k \in Keys, StartVerify(w, k) PROVE IInv'
  BY <1>3, StartKeeps
<1>4. ASSUME NEW w \in Workers, Lock(w) PROVE IInv'
  BY <1>4, LockKeeps
<1>5. ASSUME NEW w \in Workers, Finish(w) PROVE IInv'
  BY <1>5, RespondKeeps, DecodeKeeps, FetchFailsKeeps DEF Finish
<1>6. CASE UNCHANGED vars
  <2>1. UNCHANGED <<now, publishedAt, retiredAt, mu, keys, fetchedAt, pc, job, result>>
    BY <1>6 DEF vars, google, cache
  <2>2. TypeOK' /\ CacheFresh'
    BY <2>1 DEF IInv, TypeOK, CacheFresh
  <2>3. InFlight'
    BY <2>1 DEF IInv, InFlight, Exchange, Published
  <2> QED
    BY <2>2, <2>3 DEF IInv
<1> QED
  BY <1>1, <1>2, <1>3, <1>4, <1>5, <1>6 DEF Next

LEMMA Invariance == Spec => []IInv
<1>1. Init => IInv
  BY InitIInv
<1>2. IInv /\ [Next]_vars => IInv'
  BY StepKeeps
<1> QED
  BY <1>1, <1>2, PTL DEF Spec

-----------------------------------------------------------------------------
(* The theorems. *)

\* The cache, its mutex and the lookups keep their types; the mutex is held by
\* exactly the lookup that is fetching (google.go:38-40, 87-88).
THEOREM TypeCorrect == Spec => []TypeOK
<1>1. IInv => TypeOK
  BY DEF IInv
<1> QED
  BY <1>1, Invariance, PTL

\* A key Google has retired is accepted for less than TTL + Timeout after that
\* (google.go:90, 136-137).
THEOREM RetiredKeysExpire == Spec => RetiredKeysDie
<1>1. ASSUME IInv, [Next]_vars, NEW w \in Workers, Answered(w, "key")
      PROVE  /\ publishedAt[job[w].kid] # NoTime
             /\ retiredAt[job[w].kid] # NoTime
                  => now < retiredAt[job[w].kid] + TTL + Timeout
  <2> DEFINE k == job[w].kid
  <2>0. /\ pc[w] # "idle" /\ pc'[w] = "idle" /\ result'[w] = "key" /\ TypeOK
        /\ Exchange(w) /\ k \in Keys /\ now \in Nat
    BY <1>1, Typed, JobTyped DEF Answered, IInv, InFlight
  <2>1. \/ Lock(w) /\ CacheHit(k)
        \/ Decode(w) /\ k \in job[w].body
    BY <1>1, <2>0 DEF Answered, Next, vars, Tick, Publish, Retire, StartVerify,
       Lock, Finish, Respond, Decode, FetchFails, Return, TypeOK
  <2>2. CASE Lock(w) /\ CacheHit(k)
    BY <1>1, <2>0, <2>2, Typed DEF CacheHit, CacheFresh, IInv
  <2>3. CASE Decode(w) /\ k \in job[w].body
    BY <1>1, <2>0, <2>3, Typed, JobTyped DEF Decode, Exchange
  <2> QED
    BY <2>1, <2>2, <2>3
<1>2. IInv /\ [Next]_vars =>
        [\A w \in Workers : LET k == job[w].kid IN
          Answered(w, "key") =>
              /\ publishedAt[k] # NoTime
              /\ retiredAt[k] # NoTime => now < retiredAt[k] + TTL + Timeout]_vars
  BY <1>1
<1> QED
  BY <1>2, Invariance, PTL DEF Spec, RetiredKeysDie

\* A rotation never makes the cache refuse a key that was published before the
\* lookup began (google.go:90-99).
THEOREM PublishedKeysFound == Spec => PublishedKeysKnown
<1>1. ASSUME IInv, [Next]_vars, NEW w \in Workers, Answered(w, "unknown"),
             Published(job[w].kid), publishedAt[job[w].kid] < job[w].began
      PROVE  pc[w] = "decode" /\ ~job[w].certs
  <2> DEFINE k == job[w].kid
  <2>0. /\ pc[w] # "idle" /\ pc'[w] = "idle" /\ result'[w] = "unknown" /\ TypeOK
        /\ Exchange(w) /\ k \in Keys
    BY <1>1, JobTyped DEF Answered, IInv, InFlight
  <2>1. Decode(w) /\ k \notin job[w].body
    BY <1>1, <2>0 DEF Answered, Next, vars, Tick, Publish, Retire, StartVerify,
       Lock, Finish, Respond, Decode, FetchFails, Return, TypeOK, CacheHit, Lookup
  <2> QED
    BY <1>1, <2>0, <2>1 DEF Decode, Exchange
<1>2. IInv /\ [Next]_vars =>
        [\A w \in Workers : LET k == job[w].kid IN
          Answered(w, "unknown") /\ Published(k) /\ publishedAt[k] < job[w].began
              => pc[w] = "decode" /\ ~job[w].certs]_vars
  BY <1>1
<1> QED
  BY <1>2, Invariance, PTL DEF Spec, PublishedKeysKnown
=============================================================================
