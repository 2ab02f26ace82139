------------------------- MODULE AuthConcurrent_proofs -------------------------
(***************************************************************************)
(* Theorems about AuthConcurrent, for any number of requests in flight.    *)
(* The inductive invariant says of every request what its handler has read *)
(* and written by the time it is where it is, and that no two requests'    *)
(* uncommitted accounts, nor one of them and a committed one, could clash. *)
(* A second one, Facts, ties the columns an administrator's reads sum up   *)
(* to each other; the sums are then compared by the lemmas of RowSums.     *)
(***************************************************************************)
EXTENDS AuthConcurrent, RowSums, SequenceTheorems

\* The code of row v went to v's phone.
CodeSent(v, ds) == v.code \in DOMAIN ds /\ ds[v.code] = v.phone

\* The row a handler holds is that of a stored challenge, as it was or as it
\* will be: whose it is never changes, and its code was sent.
Copy(J, vs, ds) ==
    /\ J.c \in DOMAIN vs /\ J.row \in Verification
    /\ J.row.phone = vs[J.c].phone /\ J.row.subject = vs[J.c].subject
    /\ CodeSent(J.row, ds)

\* The account of a session to be opened: a committed one, or the transaction's.
AccountReady(J, T, as) ==
    \/ DOMAIN T.accounts = {} /\ J.a \in DOMAIN as
    \/ /\ DOMAIN T.accounts = {J.a}
       /\ T.accounts[J.a] = [phone |-> J.row.phone, subject |-> J.row.subject]

SessionReady(J, T, grant) ==
    \E s \in Sessions :
        DOMAIN T.sessions = {s} /\ T.sessions[s] = [account |-> J.a, grant |-> grant]

NoRows(T) == DOMAIN T.rows = {} /\ T.audits = {}

\* What each transaction has written when it commits.
SignReady(J, T, vs, as, ds) ==
    /\ J.op = "right" /\ Copy(J, vs, ds)
    /\ AccountReady(J, T, as) /\ SessionReady(J, T, J.c)
    /\ DOMAIN T.rows = {J.c} /\ T.rows[J.c] = MarkVerified(J.row) /\ T.audits = {}
GoogleReady(J, T, as) ==
    /\ J.op = "google" /\ J.subject \in Subjects
    /\ DOMAIN T.accounts = {} /\ J.a \in DOMAIN as /\ SessionReady(J, T, J.subject)
    /\ NoRows(T)
ClearReady(J, T, vs, ds) ==
    /\ J.op = "clear" /\ Copy(J, vs, ds) /\ J.row.lockedUntil = NoTime
    /\ DOMAIN T.accounts = {} /\ DOMAIN T.sessions = {}
    /\ DOMAIN T.rows = {J.c} /\ T.rows[J.c] = J.row /\ T.audits = {J.c}

\* A request at a place, with its locals J and its writes T.
LocalAt(place, J, T, vs, as, ds) ==
    /\ place \notin {"session", "verify", "commit"} => T = NoWrites
    /\ place \in {"latest", "count", "create"} =>
        J.op = "request" /\ J.fresh \in Verification
    /\ place = "latest" => J.c = None
    /\ place = "count" => J.c = None \/ Copy(J, vs, ds)
    /\ place = "send" => \/ J.op = "request" /\ J.fresh \in Verification
                         \/ J.op = "resend" /\ Copy(J, vs, ds)
    /\ place = "create" => CodeSent(J.fresh, ds)
    /\ place \in {"update", "account", "verify", "unlock"} => Copy(J, vs, ds)
    /\ place \in {"account", "verify"} => J.op = "right"
    /\ place = "unlock" => J.op = "clear" /\ J.row.lockedUntil = NoTime
    /\ place = "session" =>
        /\ \/ J.op = "right" /\ Copy(J, vs, ds)
           \/ J.op = "google" /\ J.subject \in Subjects /\ DOMAIN T.accounts = {}
        /\ AccountReady(J, T, as) /\ DOMAIN T.sessions = {} /\ NoRows(T)
    /\ place = "verify" =>
        AccountReady(J, T, as) /\ SessionReady(J, T, J.c) /\ NoRows(T)
    /\ place = "commit" => \/ SignReady(J, T, vs, as, ds)
                           \/ GoogleReady(J, T, as)
                           \/ ClearReady(J, T, vs, ds)

Located ==
    \A w \in Workers : LocalAt(pc[w], job[w], tx[w], verifications, accounts, delivered)

\* A table of the rows R under ids from Pool.
Typed(t, Pool, R) == DOMAIN t \subseteq Pool /\ \A x \in DOMAIN t : t[x] \in R

WritesOK(T) ==
    /\ T = [accounts |-> T.accounts, sessions |-> T.sessions,
            rows |-> T.rows, audits |-> T.audits]
    /\ Typed(T.accounts, Accounts, Account) /\ Typed(T.sessions, Sessions, Session)
    /\ Typed(T.rows, Challenges, Verification) /\ T.audits \subseteq Challenges

\* What TypeOK leaves unsaid: tables are functions, and writes are rows.
Shapes ==
    /\ accounts = [a \in DOMAIN accounts |-> accounts[a]]
    /\ sessions = [s \in DOMAIN sessions |-> sessions[s]]
    /\ tx = [w \in Workers |-> tx[w]]
    /\ \A w \in Workers : WritesOK(tx[w])

\* Uncommitted accounts and sessions have ids of their own, and the accounts
\* phones and subjects of their own.
Apart ==
    /\ \A w \in Workers :
        /\ \A a \in DOMAIN tx[w].accounts :
            a \notin DOMAIN accounts /\ ~UniqueViolation(tx[w].accounts[a])
        /\ \A s \in DOMAIN tx[w].sessions : s \notin DOMAIN sessions
    /\ \A w, u \in Workers : w # u =>
        /\ \A a \in DOMAIN tx[w].accounts :
            /\ a \notin DOMAIN tx[u].accounts
            /\ \A b \in DOMAIN tx[u].accounts :
                ~Clash(tx[w].accounts[a], tx[u].accounts[b])
        /\ \A s \in DOMAIN tx[w].sessions : s \notin DOMAIN tx[u].sessions

IInv == TypeOK /\ Shapes /\ Located /\ StoredCodeDelivered /\ AccountsUnique /\ Apart

-----------------------------------------------------------------------------
(* Rows: no rule changes whose a row is or which code it holds. *)

SameOwner(v, row) ==
    /\ row \in Verification
    /\ row.phone = v.phone /\ row.subject = v.subject /\ row.code = v.code

LEMMA NowNat == TypeOK => now \in Nat
BY BoundsAssumption DEF BoundsAssumption, TypeOK

LEMMA LockOwner ==
    ASSUME NEW v \in Verification, NEW t \in Nat PROVE SameOwner(v, Lock(v, t))
<1>1. t + LockoutDuration \in Nat
  BY ChallengeConstants DEF ChallengeConstants
<1> QED
  BY <1>1 DEF SameOwner, Lock, Verification, Instant, Statuses

LEMMA FailureOwner ==
    ASSUME NEW v \in Verification, NEW t \in Nat PROVE SameOwner(v, RegisterFailure(v, t))
<1> DEFINE failed == [v EXCEPT !.failedAttempts = @ + 1]
<1>1. SameOwner(v, failed)
  BY DEF SameOwner, Verification
<1>2. SameOwner(failed, Lock(failed, t))
  BY <1>1, LockOwner DEF SameOwner
<1> QED
  BY <1>1, <1>2 DEF RegisterFailure, SameOwner

LEMMA VerifiedOwner ==
    ASSUME NEW v \in Verification PROVE SameOwner(v, MarkVerified(v))
BY DEF SameOwner, MarkVerified, Verification, Statuses

LEMMA UnlockOwner ==
    ASSUME NEW v \in Verification
    PROVE  SameOwner(v, Unlock(v)) /\ Unlock(v).lockedUntil = NoTime
BY DEF SameOwner, Unlock, Verification, Statuses, Instant, NoTime

LEMMA SentOwner ==
    ASSUME NEW v \in Verification, NEW t \in Nat, delivered \in Seq(Phones)
    PROVE  /\ Sent(v, t) \in Verification /\ Sent(v, t).phone = v.phone
           /\ Sent(v, t).subject = v.subject
           /\ CodeSent(Sent(v, t), Append(delivered, v.phone))
<1>1. v.phone \in Phones /\ t + OTPTTL \in Nat /\ Len(delivered) + 1 \in Nat
  BY ChallengeConstants, LenProperties DEF Verification, ChallengeConstants
<1> DEFINE coded == [v EXCEPT !.code = Len(delivered) + 1]
<1>4. /\ coded \in Verification /\ coded.phone = v.phone
      /\ coded.subject = v.subject /\ coded.code = Len(delivered) + 1
  BY <1>1 DEF Verification
<1>5. coded.sendsInWindow + 1 \in Nat
  BY <1>4 DEF Verification
<1>6. Sent(v, t) = RegisterSend(coded, t)
  BY DEF Sent
<1> HIDE DEF coded
<1>2. /\ Sent(v, t) \in Verification /\ Sent(v, t).phone = v.phone
      /\ Sent(v, t).subject = v.subject /\ Sent(v, t).code = Len(delivered) + 1
  BY <1>1, <1>4, <1>5, <1>6 DEF RegisterSend, Verification
<1>3. /\ Len(Append(delivered, v.phone)) = Len(delivered) + 1
      /\ Append(delivered, v.phone)[Len(delivered) + 1] = v.phone
      /\ DOMAIN Append(delivered, v.phone) = 1..(Len(delivered) + 1)
  BY <1>1, AppendProperties, LenProperties
<1> QED
  BY <1>1, <1>2, <1>3, LenProperties DEF CodeSent

\* A delivery takes no code back.
LEMMA SentStays ==
    ASSUME NEW ds \in Seq(Phones), NEW p \in Phones, NEW v, CodeSent(v, ds)
    PROVE  CodeSent(v, Append(ds, p))
<1>1. /\ DOMAIN ds = 1..Len(ds) /\ Len(ds) \in Nat
      /\ DOMAIN Append(ds, p) = 1..(Len(ds) + 1)
      /\ \A i \in 1..Len(ds) : Append(ds, p)[i] = ds[i]
  BY AppendProperties, LenProperties
<1> QED
  BY <1>1 DEF CodeSent

-----------------------------------------------------------------------------
(* A step of one worker: what it must show of itself, so that the others    *)
(* keep their place.                                                         *)

\* The tables and the codes only grow, and no challenge changes hands.
Grows ==
    /\ DOMAIN verifications \subseteq DOMAIN verifications'
    /\ \A c \in DOMAIN verifications :
        /\ verifications'[c].phone = verifications[c].phone
        /\ verifications'[c].subject = verifications[c].subject
    /\ DOMAIN accounts \subseteq DOMAIN accounts'
    /\ \A v : CodeSent(v, delivered) => CodeSent(v, delivered')

LEMMA CopyStays ==
    ASSUME Grows, NEW J, Copy(J, verifications, delivered)
    PROVE  Copy(J, verifications', delivered')
BY DEF Grows, Copy

LEMMA OthersStay ==
    ASSUME Grows, NEW place, NEW J, NEW T,
           LocalAt(place, J, T, verifications, accounts, delivered)
    PROVE  LocalAt(place, J, T, verifications', accounts', delivered')
<1>1. Copy(J, verifications, delivered) => Copy(J, verifications', delivered')
  BY CopyStays
<1>2. AccountReady(J, T, accounts) => AccountReady(J, T, accounts')
  BY DEF AccountReady, Grows
<1>3. CodeSent(J.fresh, delivered) => CodeSent(J.fresh, delivered')
  BY DEF Grows
<1>4. /\ SignReady(J, T, verifications, accounts, delivered)
           => SignReady(J, T, verifications', accounts', delivered')
      /\ GoogleReady(J, T, accounts) => GoogleReady(J, T, accounts')
      /\ ClearReady(J, T, verifications, delivered)
           => ClearReady(J, T, verifications', delivered')
  BY <1>1, <1>2 DEF SignReady, GoogleReady, ClearReady, Grows
<1> QED
  BY <1>1, <1>2, <1>3, <1>4 DEF LocalAt

LEMMA LocatedStep ==
    ASSUME IInv, Grows, NEW w \in Workers, NEW place, NEW locals, NEW writes,
           Write(w, place, locals, writes),
           LocalAt(place, locals, writes, verifications', accounts', delivered')
    PROVE  Located'
<1>1. /\ pc' = [pc EXCEPT ![w] = place] /\ job' = [job EXCEPT ![w] = locals]
      /\ tx' = [tx EXCEPT ![w] = writes]
  BY DEF Write
<1>2. /\ pc \in [Workers -> PCs] /\ job \in [Workers -> Job]
      /\ tx = [u \in Workers |-> tx[u]]
  BY DEF IInv, TypeOK, Shapes
<1>3. ASSUME NEW u \in Workers
      PROVE  LocalAt(pc'[u], job'[u], tx'[u], verifications', accounts', delivered')
  <2>1. CASE u = w
    BY <1>1, <1>2, <2>1
  <2>2. CASE u # w
    <3>1. pc'[u] = pc[u] /\ job'[u] = job[u] /\ tx'[u] = tx[u]
      BY <1>1, <1>2, <2>2
    <3>2. LocalAt(pc[u], job[u], tx[u], verifications, accounts, delivered)
      BY DEF IInv, Located
    <3> QED
      BY <3>1, <3>2, OthersStay
  <2> QED
    BY <2>1, <2>2
<1> QED
  BY <1>3 DEF Located

\* The accounts and sessions a request has written: those it had, and new ones
\* with ids and keys nobody else has.
OwnWrites(w, T) ==
    /\ \A a \in DOMAIN T.accounts :
        \/ a \in DOMAIN tx[w].accounts /\ T.accounts[a] = tx[w].accounts[a]
        \/ a \in FreeAccounts /\ ~UniqueViolation(T.accounts[a])
                             /\ ~KeyHeld(w, T.accounts[a])
    /\ \A s \in DOMAIN T.sessions : s \in DOMAIN tx[w].sessions \/ s \in FreeSessions

LEMMA ClashSymmetric ==
    ASSUME NEW r, NEW q, Clash(r, q) PROVE Clash(q, r)
BY DEF Clash

LEMMA WritesTyped ==
    ASSUME IInv, NEW w \in Workers, NEW place \in PCs, NEW locals \in Job, NEW writes,
           WritesOK(writes), Write(w, place, locals, writes)
    PROVE  /\ pc' \in [Workers -> PCs] /\ job' \in [Workers -> Job]
           /\ tx' = [u \in Workers |-> tx'[u]]
           /\ \A u \in Workers : WritesOK(tx'[u])
           /\ tx'[w] = writes /\ \A u \in Workers \ {w} : tx'[u] = tx[u]
<1>1. /\ pc' = [pc EXCEPT ![w] = place] /\ job' = [job EXCEPT ![w] = locals]
      /\ tx' = [tx EXCEPT ![w] = writes]
  BY DEF Write
<1>2. /\ pc \in [Workers -> PCs] /\ job \in [Workers -> Job]
      /\ tx = [u \in Workers |-> tx[u]] /\ \A u \in Workers : WritesOK(tx[u])
  BY DEF IInv, TypeOK, Shapes
<1>3. /\ tx' = [u \in Workers |-> tx'[u]]
      /\ tx'[w] = writes /\ \A u \in Workers \ {w} : tx'[u] = tx[u]
  BY <1>1, <1>2
<1>4. \A u \in Workers : WritesOK(tx'[u])
  BY <1>2, <1>3
<1> QED
  BY <1>1, <1>2, <1>3, <1>4

LEMMA ApartStep ==
    ASSUME IInv, NEW w \in Workers, NEW writes, OwnWrites(w, writes),
           tx'[w] = writes, \A u \in Workers \ {w} : tx'[u] = tx[u],
           UNCHANGED <<accounts, sessions>>
    PROVE  Apart'
<1>1. Apart
  BY DEF IInv
<1>2. ASSUME NEW u \in Workers
      PROVE  /\ \A a \in DOMAIN tx'[u].accounts :
                  a \notin DOMAIN accounts /\ ~UniqueViolation(tx'[u].accounts[a])
             /\ \A s \in DOMAIN tx'[u].sessions : s \notin DOMAIN sessions
  <2>1. CASE u = w
    BY <1>1, <2>1 DEF OwnWrites, Apart, FreeAccounts, FreeSessions
  <2>2. CASE u # w
    BY <1>1, <2>2 DEF Apart
  <2> QED
    BY <2>1, <2>2
<1>3. ASSUME NEW u \in Workers \ {w}
      PROVE  /\ \A a \in DOMAIN writes.accounts :
                  /\ a \notin DOMAIN tx[u].accounts
                  /\ \A b \in DOMAIN tx[u].accounts :
                      ~Clash(writes.accounts[a], tx[u].accounts[b])
             /\ \A s \in DOMAIN writes.sessions : s \notin DOMAIN tx[u].sessions
  BY <1>1, <1>3 DEF OwnWrites, Apart, FreeAccounts, FreeSessions, KeyHeld
<1>4. ASSUME NEW u \in Workers, NEW x \in Workers, u # x
      PROVE  /\ \A a \in DOMAIN tx'[u].accounts :
                  /\ a \notin DOMAIN tx'[x].accounts
                  /\ \A b \in DOMAIN tx'[x].accounts :
                      ~Clash(tx'[u].accounts[a], tx'[x].accounts[b])
             /\ \A s \in DOMAIN tx'[u].sessions : s \notin DOMAIN tx'[x].sessions
  <2>1. CASE u = w
    BY <1>3, <1>4, <2>1
  <2>2. CASE x = w
    BY <1>3, <1>4, <2>2, ClashSymmetric
  <2>3. CASE u # w /\ x # w
    BY <1>1, <1>4, <2>3 DEF Apart
  <2> QED
    BY <2>1, <2>2, <2>3
<1>5. \A r : UniqueViolation(r)' <=> UniqueViolation(r)
  BY DEF UniqueViolation
<1> QED
  BY <1>2, <1>4 DEF Apart, UniqueViolation

\* A step that commits no account and no session.
LEMMA TableStep ==
    ASSUME IInv, NEW w \in Workers, NEW place \in PCs, NEW locals \in Job, NEW writes,
           Write(w, place, locals, writes), WritesOK(writes), OwnWrites(w, writes),
           LocalAt(place, locals, writes, verifications', accounts', delivered'),
           UNCHANGED <<accounts, sessions, audits>>, Grows,
           Typed(verifications', Challenges, Verification),
           wrong' \in [Challenges -> Nat], delivered' \in Seq(Phones),
           \A c \in DOMAIN verifications' : CodeSent(verifications'[c], delivered')
    PROVE  IInv'
<1>1. /\ pc' \in [Workers -> PCs] /\ job' \in [Workers -> Job]
      /\ tx' = [u \in Workers |-> tx'[u]]
      /\ \A u \in Workers : WritesOK(tx'[u])
      /\ tx'[w] = writes /\ \A u \in Workers \ {w} : tx'[u] = tx[u]
  BY WritesTyped
<1>2. Located'
  BY LocatedStep
<1>3. Apart'
  BY <1>1, ApartStep
<1>4. TypeOK'
  BY <1>1 DEF IInv, TypeOK, Typed, WritesOK, Write
<1>5. Shapes'
  BY <1>1 DEF IInv, Shapes, WritesOK, Typed
<1>6. StoredCodeDelivered' /\ AccountsUnique'
  BY DEF IInv, StoredCodeDelivered, AccountsUnique, CodeSent
<1> QED
  BY <1>2, <1>3, <1>4, <1>5, <1>6 DEF IInv

LEMMA NothingWritten ==
    ASSUME IInv, NEW w \in Workers
    PROVE  WritesOK(NoWrites) /\ OwnWrites(w, NoWrites)
<1>1. DOMAIN << >> = {}
  BY EmptySeq
<1> QED
  BY <1>1 DEF NoWrites, WritesOK, OwnWrites, Typed

LEMMA WritesKept ==
    ASSUME IInv, NEW w \in Workers
    PROVE  WritesOK(tx[w]) /\ OwnWrites(w, tx[w])
BY DEF IInv, Shapes, OwnWrites

\* A step that leaves tables, codes and history alone.
LEMMA QuietStep ==
    ASSUME IInv, NEW w \in Workers, NEW place \in PCs, NEW locals \in Job, NEW writes,
           Write(w, place, locals, writes), WritesOK(writes), OwnWrites(w, writes),
           LocalAt(place, locals, writes, verifications, accounts, delivered),
           UNCHANGED <<tables, delivered, wrong>>
    PROVE  IInv'
<1>1. Grows
  BY DEF Grows, tables
<1>2. LocalAt(place, locals, writes, verifications', accounts', delivered')
  BY DEF tables
<1>3. /\ UNCHANGED <<accounts, sessions, audits>>
      /\ Typed(verifications', Challenges, Verification)
      /\ wrong' \in [Challenges -> Nat] /\ delivered' \in Seq(Phones)
  BY DEF tables, IInv, TypeOK, Typed
<1>4. \A c \in DOMAIN verifications' : CodeSent(verifications'[c], delivered')
  BY DEF tables, IInv, StoredCodeDelivered, CodeSent
<1> QED
  BY <1>1, <1>2, <1>3, <1>4, TableStep

LEMMA GotoStep ==
    ASSUME IInv, NEW w \in Workers, NEW place \in PCs, NEW locals \in Job,
           Goto(w, place, locals), UNCHANGED <<tables, delivered, wrong>>,
           LocalAt(place, locals, tx[w], verifications, accounts, delivered)
    PROVE  IInv'
BY WritesKept, QuietStep DEF Goto

LEMMA NoJobTyped == NoJob \in Job
<1>1. NoRow \in Verification \cup {NoRow}
  OBVIOUS
<1> QED
  BY <1>1 DEF NoJob, Job

LEMMA IdleLocal ==
    ASSUME NEW vs, NEW as, NEW ds PROVE LocalAt("idle", NoJob, NoWrites, vs, as, ds)
BY DEF LocalAt

LEMMA RollbackStep ==
    ASSUME IInv, NEW w \in Workers, Rollback(w), UNCHANGED <<delivered, wrong>>
    PROVE  IInv'
<1>1. "idle" \in PCs /\ Write(w, "idle", NoJob, NoWrites) /\ UNCHANGED tables
  BY DEF PCs, Rollback, Answer
<1> QED
  BY <1>1, NoJobTyped, IdleLocal, NothingWritten, QuietStep

\* Where a request is, spelled out.
LEMMA Here ==
    ASSUME IInv, NEW w \in Workers
    PROVE  /\ LocalAt(pc[w], job[w], tx[w], verifications, accounts, delivered)
           /\ job[w] \in Job /\ now \in Nat
BY NowNat DEF IInv, Located, TypeOK

\* The copy a handler makes of a stored challenge.
LEMMA CopyMade ==
    ASSUME IInv, NEW c \in DOMAIN verifications, NEW row,
           SameOwner(verifications[c], row), NEW J, J.c = c, J.row = row
    PROVE  Copy(J, verifications, delivered)
BY DEF IInv, SameOwner, Copy, CodeSent, StoredCodeDelivered

LEMMA StoredRow ==
    ASSUME IInv, NEW c \in DOMAIN verifications
    PROVE  c \in Challenges /\ verifications[c] \in Verification
           /\ SameOwner(verifications[c], verifications[c])
BY DEF IInv, TypeOK, SameOwner

LEMMA IdleWrites ==
    ASSUME IInv, NEW w \in Workers, pc[w] \notin {"session", "verify", "commit"}
    PROVE  tx[w] = NoWrites
BY Here DEF LocalAt

-----------------------------------------------------------------------------
(* The statements that only read. *)

LEMMA StartRequestStep ==
    ASSUME IInv, NEW w \in Workers, NEW p \in Phones, NEW intent \in Intents,
           NEW subject \in Subjects \cup {None}, StartRequest(w, p, intent, subject)
    PROVE  IInv'
<1> DEFINE fresh == [phone |-> p, intent |-> intent, subject |-> subject, code |-> 0,
                     sentAt |-> 0, expiresAt |-> 0, failedAttempts |-> 0,
                     sendsInWindow |-> 0, lockedUntil |-> NoTime, status |-> "pending"]
           J == [NoJob EXCEPT !.op = "request", !.fresh = fresh, !.at = now]
<1>1. fresh \in Verification
  BY DEF Verification, Instant, Statuses
<1>2. J \in Job /\ J.op = "request" /\ J.fresh = fresh /\ J.c = None
  BY <1>1, NoJobTyped, Here DEF Job, NoJob
<1>3. /\ pc[w] = "idle" /\ Goto(w, "latest", J) /\ UNCHANGED <<tables, delivered, wrong>>
  BY DEF StartRequest
<1> HIDE DEF J, fresh
<1>4. LocalAt("latest", J, tx[w], verifications, accounts, delivered)
  BY <1>1, <1>2, <1>3, IdleWrites DEF LocalAt
<1>5. "latest" \in PCs
  BY DEF PCs
<1> QED
  BY <1>2, <1>3, <1>4, <1>5, GotoStep

LEMMA LatestStored ==
    ASSUME NEW p, NEW c \in LatestRows(p) PROVE c \in DOMAIN verifications
BY DEF LatestRows, RowsOf

LEMMA ReadLatestStep ==
    ASSUME IInv, NEW w \in Workers, ReadLatest(w) PROVE IInv'
<1>1. /\ pc[w] = "latest" /\ UNCHANGED <<tables, delivered, wrong>> /\ "count" \in PCs
  BY DEF ReadLatest, PCs
<1>2. /\ tx[w] = NoWrites /\ job[w] \in Job
      /\ job[w].op = "request" /\ job[w].fresh \in Verification
  BY <1>1, Here, IdleWrites DEF LocalAt
<1>3. CASE Goto(w, "count", job[w])
  <2>1. LocalAt("count", job[w], tx[w], verifications, accounts, delivered)
    BY <1>1, <1>2, Here DEF LocalAt
  <2> QED
    BY <1>1, <1>2, <1>3, <2>1, GotoStep
<1>4. CASE Answer(w)
  BY <1>1, <1>4, RollbackStep DEF Rollback, tables
<1>5. ASSUME NEW c \in LatestRows(job[w].fresh.phone),
             Goto(w, "count", [job[w] EXCEPT !.c = c, !.row = verifications[c]])
      PROVE  IInv'
  <2> DEFINE J == [job[w] EXCEPT !.c = c, !.row = verifications[c]]
  <2>1. c \in DOMAIN verifications
    BY LatestStored
  <2>2. /\ J \in Job /\ J.c = c /\ J.row = verifications[c]
        /\ J.op = "request" /\ J.fresh \in Verification
    BY <1>2, <2>1, StoredRow DEF Job
  <2>3. Goto(w, "count", J)
    BY <1>5
  <2> HIDE DEF J
  <2>4. Copy(J, verifications, delivered)
    BY <2>1, <2>2, StoredRow, CopyMade
  <2>5. LocalAt("count", J, tx[w], verifications, accounts, delivered)
    BY <1>2, <2>2, <2>4 DEF LocalAt
  <2> QED
    BY <1>1, <2>2, <2>3, <2>5, GotoStep
<1>6. \/ Goto(w, "count", job[w])
      \/ \E c \in LatestRows(job[w].fresh.phone) :
            \/ Goto(w, "count", [job[w] EXCEPT !.c = c, !.row = verifications[c]])
            \/ Answer(w)
  BY DEF ReadLatest
<1> QED
  BY <1>3, <1>4, <1>5, <1>6

LEMMA CopyEdited ==
    ASSUME NEW vs, NEW ds, NEW K, Copy(K, vs, ds), NEW row, SameOwner(K.row, row),
           NEW J, J.c = K.c, J.row = row
    PROVE  Copy(J, vs, ds)
BY DEF Copy, SameOwner, CodeSent

LEMMA CountSendsStep ==
    ASSUME IInv, NEW w \in Workers, CountSends(w) PROVE IInv'
<1>1. /\ pc[w] = "count" /\ UNCHANGED <<tables, delivered, wrong>>
      /\ {"send", "update"} \subseteq PCs
  BY DEF CountSends, PCs
<1>2. /\ tx[w] = NoWrites /\ job[w] \in Job
      /\ job[w].op = "request" /\ job[w].fresh \in Verification
      /\ job[w].c = None \/ Copy(job[w], verifications, delivered)
  BY <1>1, Here, IdleWrites DEF LocalAt
<1> DEFINE unlocked == [job[w] EXCEPT !.c = None, !.row = NoRow]
           locked == [job[w] EXCEPT !.fresh = NoRow, !.row = Lock(@, job[w].at)]
<1>3. CASE Goto(w, "send", unlocked)
  <2>1. unlocked \in Job /\ unlocked.op = "request" /\ unlocked.fresh \in Verification
    BY <1>2 DEF Job
  <2> HIDE DEF unlocked
  <2>2. LocalAt("send", unlocked, tx[w], verifications, accounts, delivered)
    BY <1>2, <2>1 DEF LocalAt
  <2> QED
    BY <1>1, <1>3, <2>1, <2>2, GotoStep
<1>4. CASE job[w].c # None /\ Goto(w, "update", locked)
  <2>1. Copy(job[w], verifications, delivered)
    BY <1>2, <1>4
  <2>2. job[w].row \in Verification /\ job[w].at \in Nat
    BY <1>2, <2>1 DEF Copy, Job
  <2>3. SameOwner(job[w].row, Lock(job[w].row, job[w].at))
    BY <2>2, LockOwner
  <2>4. locked \in Job /\ locked.c = job[w].c /\ locked.row = Lock(job[w].row, job[w].at)
    BY <1>2, <2>3 DEF Job, SameOwner
  <2>5. Goto(w, "update", locked)
    BY <1>4
  <2> HIDE DEF locked
  <2>6. Copy(locked, verifications, delivered)
    BY <2>1, <2>3, <2>4, CopyEdited
  <2>7. LocalAt("update", locked, tx[w], verifications, accounts, delivered)
    BY <1>2, <2>6 DEF LocalAt
  <2> QED
    BY <1>1, <2>4, <2>5, <2>7, GotoStep
<1>5. CASE Answer(w)
  BY <1>1, <1>5, RollbackStep DEF Rollback, tables
<1>6. \/ Goto(w, "send", unlocked)
      \/ job[w].c # None /\ Goto(w, "update", locked)
      \/ Answer(w)
  BY DEF CountSends
<1> QED
  BY <1>3, <1>4, <1>5, <1>6

LEMMA StartResendStep ==
    ASSUME IInv, NEW w \in Workers, NEW c \in DOMAIN verifications, StartResend(w, c)
    PROVE  IInv'
<1> DEFINE v == verifications[c]
           resend == [NoJob EXCEPT !.op = "resend", !.c = c, !.row = v, !.at = now]
           locked == [resend EXCEPT !.row = Lock(v, now)]
<1>1. /\ pc[w] = "idle" /\ UNCHANGED <<tables, delivered, wrong>>
      /\ Goto(w, "update", locked) \/ Goto(w, "send", resend)
      /\ {"send", "update"} \subseteq PCs
  BY DEF StartResend, PCs
<1>2. tx[w] = NoWrites /\ now \in Nat /\ c \in Challenges /\ v \in Verification
  BY <1>1, Here, IdleWrites, StoredRow
<1>3. /\ SameOwner(v, v) /\ SameOwner(v, Lock(v, now))
  BY <1>2, LockOwner, StoredRow
<1>4. resend \in Job /\ resend.op = "resend" /\ resend.c = c /\ resend.row = v
  BY <1>2, NoJobTyped DEF Job, NoJob
<1>5. locked \in Job /\ locked.c = c /\ locked.row = Lock(v, now)
  BY <1>2, <1>3, <1>4 DEF Job, SameOwner
<1> HIDE DEF resend, locked
<1>6. Copy(resend, verifications, delivered) /\ Copy(locked, verifications, delivered)
  BY <1>3, <1>4, <1>5, CopyMade
<1>7. /\ LocalAt("send", resend, tx[w], verifications, accounts, delivered)
      /\ LocalAt("update", locked, tx[w], verifications, accounts, delivered)
  BY <1>2, <1>4, <1>6 DEF LocalAt
<1> QED
  BY <1>1, <1>4, <1>5, <1>7, GotoStep

LEMMA StartConfirmStep ==
    ASSUME IInv, NEW w \in Workers, NEW c \in DOMAIN verifications,
           StartConfirmWrong(w, c) \/ StartConfirmRight(w, c)
    PROVE  IInv'
<1> DEFINE v == verifications[c]
           failed == [NoJob EXCEPT !.op = "wrong", !.c = c, !.at = now,
                                   !.row = RegisterFailure(v, now)]
           right == [NoJob EXCEPT !.op = "right", !.c = c, !.at = now, !.row = v]
<1>1. /\ pc[w] = "idle" /\ UNCHANGED <<tables, delivered, wrong>>
      /\ Goto(w, "update", failed) \/ Goto(w, "account", right)
      /\ {"account", "update"} \subseteq PCs
  BY DEF StartConfirmWrong, StartConfirmRight, PCs
<1>2. tx[w] = NoWrites /\ now \in Nat /\ c \in Challenges /\ v \in Verification
  BY <1>1, Here, IdleWrites, StoredRow
<1>3. /\ SameOwner(v, v) /\ SameOwner(v, RegisterFailure(v, now))
  BY <1>2, FailureOwner, StoredRow
<1>4. failed \in Job /\ failed.c = c /\ failed.row = RegisterFailure(v, now)
  BY <1>2, <1>3, NoJobTyped DEF Job, NoJob, SameOwner
<1>5. right \in Job /\ right.op = "right" /\ right.c = c /\ right.row = v
  BY <1>2, NoJobTyped DEF Job, NoJob
<1> HIDE DEF failed, right
<1>6. Copy(failed, verifications, delivered) /\ Copy(right, verifications, delivered)
  BY <1>3, <1>4, <1>5, CopyMade
<1>7. /\ LocalAt("update", failed, tx[w], verifications, accounts, delivered)
      /\ LocalAt("account", right, tx[w], verifications, accounts, delivered)
  BY <1>2, <1>5, <1>6 DEF LocalAt
<1> QED
  BY <1>1, <1>4, <1>5, <1>7, GotoStep

LEMMA NoWritesEmpty ==
    /\ DOMAIN NoWrites.accounts = {} /\ DOMAIN NoWrites.sessions = {}
    /\ NoRows(NoWrites)
BY EmptySeq DEF NoWrites, NoRows

LEMMA FindAccountStep ==
    ASSUME IInv, NEW w \in Workers, FindAccount(w) PROVE IInv'
<1>1. /\ pc[w] = "account" /\ UNCHANGED <<tables, delivered, wrong>> /\ "session" \in PCs
  BY DEF FindAccount, PCs
<1>2. /\ tx[w] = NoWrites /\ job[w] \in Job
      /\ job[w].op = "right" /\ Copy(job[w], verifications, delivered)
  BY <1>1, Here, IdleWrites DEF LocalAt
<1>3. ASSUME NEW a \in DOMAIN accounts, Goto(w, "session", [job[w] EXCEPT !.a = a])
      PROVE  IInv'
  <2> DEFINE J == [job[w] EXCEPT !.a = a]
  <2>1. a \in Accounts
    BY DEF IInv, TypeOK
  <2>2. J \in Job /\ J.op = "right" /\ J.c = job[w].c /\ J.row = job[w].row /\ J.a = a
    BY <1>2, <2>1 DEF Job
  <2>3. Goto(w, "session", J)
    BY <1>3
  <2> HIDE DEF J
  <2>4. Copy(J, verifications, delivered) /\ AccountReady(J, tx[w], accounts)
    BY <1>2, <2>2, NoWritesEmpty DEF Copy, AccountReady
  <2>5. LocalAt("session", J, tx[w], verifications, accounts, delivered)
    BY <1>2, <2>2, <2>4, NoWritesEmpty DEF LocalAt
  <2> QED
    BY <1>1, <2>2, <2>3, <2>5, GotoStep
<1>4. CASE Answer(w)
  BY <1>1, <1>4, RollbackStep DEF Rollback, tables
<1>5. \/ \E a \in DOMAIN accounts : Goto(w, "session", [job[w] EXCEPT !.a = a])
      \/ Answer(w)
  BY DEF FindAccount
<1> QED
  BY <1>3, <1>4, <1>5

LEMMA StartGoogleStep ==
    ASSUME IInv, NEW w \in Workers, NEW subject \in Subjects, StartGoogle(w, subject)
    PROVE  IInv'
<1>1. /\ pc[w] = "idle" /\ UNCHANGED <<tables, delivered, wrong>> /\ "session" \in PCs
  BY DEF StartGoogle, PCs
<1>2. tx[w] = NoWrites /\ now \in Nat
  BY <1>1, Here, IdleWrites
<1>3. PICK a \in DOMAIN accounts :
        Goto(w, "session", [NoJob EXCEPT !.op = "google", !.a = a,
                                         !.subject = subject, !.at = now])
  BY DEF StartGoogle
<1> DEFINE J == [NoJob EXCEPT !.op = "google", !.a = a, !.subject = subject, !.at = now]
<1>4. a \in Accounts
  BY DEF IInv, TypeOK
<1>5. J \in Job /\ J.op = "google" /\ J.subject = subject /\ J.a = a
  BY <1>2, <1>4, NoJobTyped DEF Job, NoJob
<1>6. Goto(w, "session", J)
  BY <1>3
<1> HIDE DEF J
<1>7. AccountReady(J, tx[w], accounts)
  BY <1>2, <1>5, NoWritesEmpty DEF AccountReady
<1>8. LocalAt("session", J, tx[w], verifications, accounts, delivered)
  BY <1>2, <1>5, <1>7, NoWritesEmpty DEF LocalAt
<1> QED
  BY <1>1, <1>5, <1>6, <1>8, GotoStep

LEMMA StartClearStep ==
    ASSUME IInv, NEW w \in Workers, NEW a \in DOMAIN accounts, StartClear(w, a)
    PROVE  IInv'
<1>1. /\ pc[w] = "idle" /\ UNCHANGED <<tables, delivered, wrong>> /\ "unlock" \in PCs
  BY DEF StartClear, PCs
<1>2. tx[w] = NoWrites /\ now \in Nat
  BY <1>1, Here, IdleWrites
<1>3. PICK c \in LatestRows(accounts[a].phone) :
        Goto(w, "unlock", [NoJob EXCEPT !.op = "clear", !.c = c, !.a = a, !.at = now,
                                        !.row = Unlock(verifications[c])])
  BY DEF StartClear
<1> DEFINE v == verifications[c]
           J == [NoJob EXCEPT !.op = "clear", !.c = c, !.a = a, !.at = now,
                              !.row = Unlock(v)]
<1>4. a \in Accounts /\ c \in DOMAIN verifications
  BY LatestStored DEF IInv, TypeOK
<1>5. c \in Challenges /\ v \in Verification
  BY <1>4, StoredRow
<1>6. SameOwner(v, Unlock(v)) /\ Unlock(v).lockedUntil = NoTime
  BY <1>5, UnlockOwner
<1>7. J \in Job /\ J.op = "clear" /\ J.c = c /\ J.row = Unlock(v)
  BY <1>2, <1>4, <1>5, <1>6, NoJobTyped DEF Job, NoJob, SameOwner
<1>8. Goto(w, "unlock", J)
  BY <1>3
<1> HIDE DEF J
<1>9. Copy(J, verifications, delivered)
  BY <1>4, <1>6, <1>7, CopyMade
<1>10. LocalAt("unlock", J, tx[w], verifications, accounts, delivered)
  BY <1>2, <1>6, <1>7, <1>9 DEF LocalAt
<1> QED
  BY <1>1, <1>7, <1>8, <1>10, GotoStep

-----------------------------------------------------------------------------
(* The statements of a transaction. *)
LEMMA CreateAccountStep ==
    ASSUME IInv, NEW w \in Workers, CreateAccount(w) PROVE IInv'
<1> DEFINE row == [phone |-> job[w].row.phone, subject |-> job[w].row.subject]
<1>1. pc[w] = "account" /\ UNCHANGED <<delivered, wrong>> /\ "session" \in PCs
  BY DEF CreateAccount, PCs
<1>2. /\ tx[w] = NoWrites /\ job[w] \in Job
      /\ job[w].op = "right" /\ Copy(job[w], verifications, delivered)
  BY <1>1, Here, IdleWrites DEF LocalAt
<1>3. row \in Account
  BY <1>2 DEF Copy, Account, Verification
<1>4. ASSUME NEW a \in FreeAccounts, ~UniqueViolation(row), ~KeyHeld(w, row),
             Write(w, "session", [job[w] EXCEPT !.a = a],
                   [tx[w] EXCEPT !.accounts = Put(@, a, row)]),
             UNCHANGED tables
      PROVE  IInv'
  <2> DEFINE J == [job[w] EXCEPT !.a = a]
             T == [tx[w] EXCEPT !.accounts = Put(@, a, row)]
  <2>1. a \in Accounts
    BY DEF FreeAccounts
  <2>2. J \in Job /\ J.op = "right" /\ J.c = job[w].c /\ J.row = job[w].row /\ J.a = a
    BY <1>2, <2>1 DEF Job
  <2>4. /\ T = [accounts |-> T.accounts, sessions |-> T.sessions,
                rows |-> T.rows, audits |-> T.audits]
        /\ T.accounts = Put(tx[w].accounts, a, row)
        /\ T.sessions = tx[w].sessions /\ T.rows = tx[w].rows /\ T.audits = tx[w].audits
    <3>1. WritesOK(tx[w])
      BY WritesKept
    <3> QED
      BY <3>1 DEF WritesOK
  <2>11. DOMAIN tx[w].accounts = {} /\ DOMAIN tx[w].sessions = {} /\ NoRows(tx[w])
    BY <1>2, NoWritesEmpty
  <2>3. DOMAIN T.accounts = {a} /\ T.accounts[a] = row
    BY <2>4, <2>11 DEF Put
  <2>5. Write(w, "session", J, T)
    BY <1>4
  <2> HIDE DEF J, T
  <2>6. DOMAIN T.sessions = {} /\ NoRows(T)
    BY <2>4, <2>11 DEF NoRows
  <2>7. WritesOK(T)
    BY <1>3, <2>1, <2>3, <2>4, <2>6 DEF WritesOK, Typed, NoRows
  <2>8. OwnWrites(w, T)
    BY <1>4, <2>3, <2>6 DEF OwnWrites
  <2>9. Copy(J, verifications, delivered) /\ AccountReady(J, T, accounts)
    BY <1>2, <2>2, <2>3 DEF Copy, AccountReady
  <2>10. LocalAt("session", J, T, verifications, accounts, delivered)
    BY <2>2, <2>6, <2>9 DEF LocalAt
  <2> QED
    BY <1>1, <1>4, <2>2, <2>5, <2>7, <2>8, <2>10, QuietStep
<1>5. CASE Rollback(w)
  BY <1>1, <1>5, RollbackStep
<1>6. \/ /\ ~UniqueViolation(row) /\ ~KeyHeld(w, row) /\ UNCHANGED tables
         /\ \E a \in FreeAccounts :
              Write(w, "session", [job[w] EXCEPT !.a = a],
                    [tx[w] EXCEPT !.accounts = Put(@, a, row)])
      \/ Rollback(w)
  BY DEF CreateAccount
<1> QED
  BY <1>4, <1>5, <1>6

LEMMA CreateSessionStep ==
    ASSUME IInv, NEW w \in Workers, CreateSession(w) PROVE IInv'
<1> DEFINE J == job[w]
           grant == IF J.op = "google" THEN J.subject ELSE J.c
           row == [account |-> J.a, grant |-> grant]
           place == IF J.op = "google" THEN "commit" ELSE "verify"
<1>1. /\ pc[w] = "session" /\ UNCHANGED <<tables, delivered, wrong>> /\ place \in PCs
  BY DEF CreateSession, PCs
<1>2. PICK s \in FreeSessions :
        Write(w, place, J, [tx[w] EXCEPT !.sessions = Put(@, s, row)])
  BY DEF CreateSession
<1> DEFINE T == [tx[w] EXCEPT !.sessions = Put(@, s, row)]
<1>3. /\ \/ J.op = "right" /\ Copy(J, verifications, delivered)
         \/ J.op = "google" /\ J.subject \in Subjects /\ DOMAIN tx[w].accounts = {}
      /\ AccountReady(J, tx[w], accounts) /\ DOMAIN tx[w].sessions = {} /\ NoRows(tx[w])
      /\ J \in Job
  BY <1>1, Here DEF LocalAt
<1>4. WritesOK(tx[w]) /\ OwnWrites(w, tx[w])
  BY WritesKept
<1>5. J.a \in Accounts
  BY <1>3, <1>4 DEF AccountReady, WritesOK, Typed, IInv, TypeOK
<1>6. grant \in Challenges \cup Subjects
  BY <1>3 DEF Copy, IInv, TypeOK
<1>7. row \in Session
  BY <1>5, <1>6 DEF Session
<1>8. s \in Sessions
  BY DEF FreeSessions
<1>9. /\ T = [accounts |-> T.accounts, sessions |-> T.sessions,
              rows |-> T.rows, audits |-> T.audits]
      /\ T.accounts = tx[w].accounts /\ T.rows = tx[w].rows /\ T.audits = tx[w].audits
      /\ T.sessions = Put(tx[w].sessions, s, row)
  BY <1>4 DEF WritesOK
<1>10. Write(w, place, J, T)
  BY <1>2
<1> HIDE DEF T
<1>11. DOMAIN T.sessions = {s} /\ T.sessions[s] = row
  BY <1>3, <1>9 DEF Put
<1>12. WritesOK(T)
  BY <1>4, <1>7, <1>8, <1>9, <1>11 DEF WritesOK, Typed
<1>13. OwnWrites(w, T)
  BY <1>4, <1>9, <1>11 DEF OwnWrites
<1>14. AccountReady(J, T, accounts) /\ SessionReady(J, T, grant) /\ NoRows(T)
  BY <1>3, <1>8, <1>9, <1>11 DEF AccountReady, SessionReady, NoRows
<1>15. LocalAt(place, J, T, verifications, accounts, delivered)
  <2>1. CASE J.op = "right"
    <3>1. place = "verify" /\ grant = J.c /\ Copy(J, verifications, delivered)
      BY <1>3, <2>1
    <3> QED
      BY <1>14, <2>1, <3>1 DEF LocalAt
  <2>2. CASE J.op = "google"
    <3>1. /\ place = "commit" /\ grant = J.subject /\ J.subject \in Subjects
          /\ DOMAIN T.accounts = {} /\ J.a \in DOMAIN accounts
      BY <1>3, <1>9, <2>2 DEF AccountReady
    <3>2. GoogleReady(J, T, accounts)
      BY <1>14, <2>2, <3>1 DEF GoogleReady
    <3> QED
      BY <3>1, <3>2 DEF LocalAt
  <2> QED
    BY <1>3, <2>1, <2>2
<1> QED
  BY <1>1, <1>3, <1>10, <1>12, <1>13, <1>15, QuietStep

LEMMA VerifyChallengeStep ==
    ASSUME IInv, NEW w \in Workers, VerifyChallenge(w) PROVE IInv'
<1> DEFINE J == job[w]
           T == [tx[w] EXCEPT !.rows = Put(@, J.c, MarkVerified(J.row))]
<1>1. /\ pc[w] = "verify" /\ UNCHANGED <<tables, delivered, wrong>> /\ "commit" \in PCs
      /\ Write(w, "commit", J, T)
  BY DEF VerifyChallenge, PCs
<1>2. /\ J.op = "right" /\ Copy(J, verifications, delivered) /\ J \in Job
      /\ AccountReady(J, tx[w], accounts) /\ SessionReady(J, tx[w], J.c)
      /\ NoRows(tx[w])
  BY <1>1, Here DEF LocalAt
<1>3. WritesOK(tx[w]) /\ OwnWrites(w, tx[w])
  BY WritesKept
<1>4. MarkVerified(J.row) \in Verification /\ J.c \in Challenges
  BY <1>2, VerifiedOwner DEF Copy, SameOwner, IInv, TypeOK
<1>5. /\ T = [accounts |-> T.accounts, sessions |-> T.sessions,
              rows |-> T.rows, audits |-> T.audits]
      /\ T.accounts = tx[w].accounts /\ T.sessions = tx[w].sessions
      /\ T.audits = tx[w].audits
      /\ T.rows = Put(tx[w].rows, J.c, MarkVerified(J.row))
  BY <1>3 DEF WritesOK
<1> HIDE DEF T
<1>6. DOMAIN T.rows = {J.c} /\ T.rows[J.c] = MarkVerified(J.row) /\ T.audits = {}
  BY <1>2, <1>5 DEF NoRows, Put
<1>7. WritesOK(T)
  BY <1>3, <1>4, <1>5, <1>6 DEF WritesOK, Typed
<1>8. OwnWrites(w, T)
  BY <1>3, <1>5 DEF OwnWrites
<1>9. SignReady(J, T, verifications, accounts, delivered)
  BY <1>2, <1>5, <1>6 DEF SignReady, AccountReady, SessionReady
<1>10. LocalAt("commit", J, T, verifications, accounts, delivered)
  BY <1>9 DEF LocalAt
<1> QED
  BY <1>1, <1>2, <1>7, <1>8, <1>10, QuietStep

LEMMA UnlockChallengeStep ==
    ASSUME IInv, NEW w \in Workers, UnlockChallenge(w) PROVE IInv'
<1> DEFINE J == job[w]
           T == [tx[w] EXCEPT !.rows = Put(@, J.c, J.row), !.audits = {J.c}]
<1>1. /\ pc[w] = "unlock" /\ UNCHANGED <<tables, delivered, wrong>> /\ "commit" \in PCs
      /\ Write(w, "commit", J, T)
  BY DEF UnlockChallenge, PCs
<1>2. /\ J.op = "clear" /\ Copy(J, verifications, delivered) /\ J \in Job
      /\ J.row.lockedUntil = NoTime /\ tx[w] = NoWrites
  BY <1>1, Here, IdleWrites DEF LocalAt
<1>3. J.row \in Verification /\ J.c \in Challenges
  BY <1>2 DEF Copy, IInv, TypeOK
<1>4. /\ T = [accounts |-> T.accounts, sessions |-> T.sessions,
              rows |-> T.rows, audits |-> T.audits]
      /\ T.accounts = tx[w].accounts /\ T.sessions = tx[w].sessions
      /\ T.audits = {J.c} /\ T.rows = Put(tx[w].rows, J.c, J.row)
  <2>1. WritesOK(tx[w])
    BY WritesKept
  <2> DEFINE old == tx[w]
             rows == Put(old.rows, J.c, J.row)
  <2>2. /\ old = [accounts |-> old.accounts, sessions |-> old.sessions,
                   rows |-> old.rows, audits |-> old.audits]
        /\ T = [old EXCEPT !.rows = rows, !.audits = {J.c}]
    BY <2>1 DEF WritesOK
  <2> HIDE DEF J, rows, T, old
  <2>3. T = [accounts |-> old.accounts, sessions |-> old.sessions,
             rows |-> rows, audits |-> {J.c}]
    BY <2>2
  <2> QED
    BY <2>3 DEF old, rows
<1> HIDE DEF T
<1>5. /\ DOMAIN T.rows = {J.c} /\ T.rows[J.c] = J.row
      /\ DOMAIN T.accounts = {} /\ DOMAIN T.sessions = {}
  <2>1. /\ DOMAIN tx[w].accounts = {} /\ DOMAIN tx[w].sessions = {}
        /\ DOMAIN tx[w].rows = {}
    BY <1>2, NoWritesEmpty DEF NoRows
  <2> QED
    BY <1>4, <2>1 DEF Put
<1>6. WritesOK(T) /\ OwnWrites(w, T)
  BY <1>3, <1>4, <1>5 DEF WritesOK, Typed, OwnWrites
<1>7. ClearReady(J, T, verifications, delivered)
  BY <1>2, <1>4, <1>5 DEF ClearReady
<1>8. LocalAt("commit", J, T, verifications, accounts, delivered)
  BY <1>7 DEF LocalAt
<1> QED
  BY <1>1, <1>2, <1>6, <1>8, QuietStep

-----------------------------------------------------------------------------
(* The statements that write a challenge outside a transaction, and the send. *)

LEMMA PutChallengeStep ==
    ASSUME IInv, NEW w \in Workers, NEW c \in Challenges, NEW row \in Verification,
           CodeSent(row, delivered),
           c \in DOMAIN verifications =>
               row.phone = verifications[c].phone /\ row.subject = verifications[c].subject,
           verifications' = Put(verifications, c, row), Answer(w),
           wrong' \in [Challenges -> Nat],
           UNCHANGED <<accounts, sessions, audits, delivered>>
    PROVE  IInv'
<1>1. /\ DOMAIN verifications' = DOMAIN verifications \cup {c}
      /\ verifications'[c] = row
      /\ \A d \in DOMAIN verifications \ {c} : verifications'[d] = verifications[d]
  BY DEF Put
<1>2. Grows
  BY <1>1 DEF Grows
<1>3. Typed(verifications', Challenges, Verification) /\ delivered' \in Seq(Phones)
  BY <1>1 DEF IInv, TypeOK, Typed
<1>4. \A d \in DOMAIN verifications' : CodeSent(verifications'[d], delivered')
  BY <1>1 DEF IInv, StoredCodeDelivered, CodeSent
<1>5. "idle" \in PCs /\ Write(w, "idle", NoJob, NoWrites)
  BY DEF PCs, Answer
<1>6. LocalAt("idle", NoJob, NoWrites, verifications', accounts', delivered')
  BY IdleLocal
<1> QED
  BY <1>2, <1>3, <1>4, <1>5, <1>6, NoJobTyped, NothingWritten, TableStep

LEMMA CreateChallengeStep ==
    ASSUME IInv, NEW w \in Workers, CreateChallenge(w) PROVE IInv'
<1>1. /\ pc[w] = "create" /\ Answer(w)
      /\ UNCHANGED <<accounts, sessions, audits, delivered, wrong>>
  BY DEF CreateChallenge
<1>2. PICK c \in Challenges \ DOMAIN verifications :
        verifications' = Put(verifications, c, job[w].fresh)
  BY DEF CreateChallenge
<1>3. job[w].fresh \in Verification /\ CodeSent(job[w].fresh, delivered)
  BY <1>1, Here DEF LocalAt
<1>4. wrong' \in [Challenges -> Nat]
  BY <1>1 DEF IInv, TypeOK
<1> QED
  BY <1>1, <1>2, <1>3, <1>4, PutChallengeStep

LEMMA UpdateChallengeStep ==
    ASSUME IInv, NEW w \in Workers, UpdateChallenge(w) PROVE IInv'
<1> DEFINE c == job[w].c
<1>1. /\ pc[w] = "update" /\ Answer(w)
      /\ verifications' = Put(verifications, c, job[w].row)
      /\ wrong' = IF job[w].op = "wrong" THEN [wrong EXCEPT ![c] = @ + 1] ELSE wrong
      /\ UNCHANGED <<accounts, sessions, audits, delivered>>
  BY DEF UpdateChallenge
<1>2. Copy(job[w], verifications, delivered)
  BY <1>1, Here DEF LocalAt
<1>3. /\ c \in Challenges /\ job[w].row \in Verification /\ CodeSent(job[w].row, delivered)
      /\ job[w].row.phone = verifications[c].phone
      /\ job[w].row.subject = verifications[c].subject
  BY <1>2 DEF Copy, IInv, TypeOK
<1>4. wrong' \in [Challenges -> Nat]
  BY <1>1, <1>3 DEF IInv, TypeOK
<1> QED
  BY <1>1, <1>3, <1>4, PutChallengeStep

\* The provider delivered a code to p.
LEMMA DeliveryStep ==
    ASSUME IInv, NEW w \in Workers, pc[w] = "send", NEW p \in Phones,
           delivered' = Append(delivered, p), UNCHANGED <<tables, wrong>>,
           NEW place \in PCs, NEW locals \in Job,
           Write(w, place, locals, NoWrites),
           LocalAt(place, locals, NoWrites, verifications, accounts, delivered')
    PROVE  IInv'
<1>1. delivered \in Seq(Phones) /\ delivered' \in Seq(Phones)
  BY AppendProperties DEF IInv, TypeOK
<1>2. \A v : CodeSent(v, delivered) => CodeSent(v, delivered')
  BY <1>1, SentStays
<1>3. Grows
  BY <1>2 DEF Grows, tables
<1>4. /\ UNCHANGED <<accounts, sessions, audits>>
      /\ Typed(verifications', Challenges, Verification)
      /\ wrong' \in [Challenges -> Nat]
  BY DEF tables, IInv, TypeOK, Typed
<1>5. \A c \in DOMAIN verifications' : CodeSent(verifications'[c], delivered')
  BY <1>2 DEF tables, IInv, StoredCodeDelivered, CodeSent
<1>6. LocalAt(place, locals, NoWrites, verifications', accounts', delivered')
  BY DEF tables
<1> QED
  BY <1>1, <1>3, <1>4, <1>5, <1>6, NothingWritten, TableStep

LEMMA SendCodeStep ==
    ASSUME IInv, NEW w \in Workers, SendCode(w) PROVE IInv'
<1>1. /\ pc[w] = "send" /\ UNCHANGED <<tables, wrong>> /\ {"create", "update"} \subseteq PCs
  BY DEF SendCode, PCs
<1>2. /\ tx[w] = NoWrites /\ job[w] \in Job /\ job[w].at \in Nat
      /\ \/ job[w].op = "request" /\ job[w].fresh \in Verification
         \/ job[w].op = "resend" /\ Copy(job[w], verifications, delivered)
  BY <1>1, Here, IdleWrites DEF LocalAt, Job
<1> DEFINE p == Recipient(w)
<1>3. p \in Phones
  BY <1>2 DEF Recipient, Copy, Verification
<1>4. delivered \in Seq(Phones)
  BY DEF IInv, TypeOK
<1>5. ASSUME delivered' = Append(delivered, p), job[w].op = "request",
             Goto(w, "create", [job[w] EXCEPT !.fresh = Sent(@, job[w].at)])
      PROVE  IInv'
  <2> DEFINE J == [job[w] EXCEPT !.fresh = Sent(@, job[w].at)]
  <2>1. job[w].fresh \in Verification /\ p = job[w].fresh.phone
    BY <1>2, <1>5 DEF Recipient
  <2>2. /\ Sent(job[w].fresh, job[w].at) \in Verification
        /\ CodeSent(Sent(job[w].fresh, job[w].at), delivered')
    BY <1>2, <1>4, <1>5, <2>1, SentOwner
  <2>3. /\ J \in Job /\ J.op = "request" /\ J.fresh = Sent(job[w].fresh, job[w].at)
    BY <1>2, <1>5, <2>2 DEF Job
  <2>4. Write(w, "create", J, NoWrites)
    BY <1>2, <1>5 DEF Goto
  <2> HIDE DEF J
  <2>5. LocalAt("create", J, NoWrites, verifications, accounts, delivered')
    BY <2>2, <2>3 DEF LocalAt
  <2> QED
    BY <1>1, <1>3, <1>5, <2>3, <2>4, <2>5, DeliveryStep
<1>6. ASSUME delivered' = Append(delivered, p), job[w].op = "resend",
             Goto(w, "update", [job[w] EXCEPT !.row = Sent(@, job[w].at)])
      PROVE  IInv'
  <2> DEFINE J == [job[w] EXCEPT !.row = Sent(@, job[w].at)]
  <2>1. Copy(job[w], verifications, delivered) /\ p = job[w].row.phone
    BY <1>2, <1>6 DEF Recipient
  <2>2. job[w].row \in Verification
    BY <2>1 DEF Copy
  <2>3. /\ Sent(job[w].row, job[w].at) \in Verification
        /\ Sent(job[w].row, job[w].at).phone = job[w].row.phone
        /\ Sent(job[w].row, job[w].at).subject = job[w].row.subject
        /\ CodeSent(Sent(job[w].row, job[w].at), delivered')
    BY <1>2, <1>4, <1>6, <2>1, <2>2, SentOwner
  <2>4. J \in Job /\ J.c = job[w].c /\ J.row = Sent(job[w].row, job[w].at)
    BY <1>2, <2>3 DEF Job
  <2>5. Write(w, "update", J, NoWrites)
    BY <1>2, <1>6 DEF Goto
  <2> HIDE DEF J
  <2>6. Copy(J, verifications, delivered')
    BY <2>1, <2>3, <2>4 DEF Copy
  <2>7. LocalAt("update", J, NoWrites, verifications, accounts, delivered')
    BY <2>6 DEF LocalAt
  <2> QED
    BY <1>1, <1>3, <1>6, <2>4, <2>5, <2>7, DeliveryStep
<1>7. ASSUME delivered' = Append(delivered, p), Answer(w) PROVE IInv'
  <2>1. "idle" \in PCs /\ Write(w, "idle", NoJob, NoWrites)
    BY <1>7 DEF PCs, Answer
  <2>2. LocalAt("idle", NoJob, NoWrites, verifications, accounts, delivered')
    BY IdleLocal
  <2> QED
    BY <1>1, <1>3, <1>7, <2>1, <2>2, NoJobTyped, DeliveryStep
<1>8. ASSUME Answer(w), UNCHANGED delivered PROVE IInv'
  BY <1>1, <1>8, RollbackStep DEF Rollback
<1> QED
  BY <1>5, <1>6, <1>7, <1>8 DEF SendCode, StoreCode

-----------------------------------------------------------------------------
(* Commit. *)

\* Table new is table old with the rows of writes added or put in place.
Extended(new, old, writes) ==
    /\ new = [x \in DOMAIN new |-> new[x]]
    /\ DOMAIN new = DOMAIN old \cup DOMAIN writes
    /\ \A x \in DOMAIN writes : new[x] = writes[x]
    /\ \A x \in DOMAIN old \ DOMAIN writes : new[x] = old[x]

LEMMA Merged ==
    ASSUME NEW table, NEW writes
    PROVE  Extended(Merge(table, writes), table, writes)
BY DEF Merge, Extended

LEMMA CommitTables ==
    ASSUME NEW w \in Workers, Commit(w)
    PROVE  /\ Extended(verifications', verifications, tx[w].rows)
           /\ Extended(accounts', accounts, tx[w].accounts)
           /\ Extended(sessions', sessions, tx[w].sessions)
<1>1. /\ verifications' = Merge(verifications, tx[w].rows)
      /\ accounts' = Merge(accounts, tx[w].accounts)
      /\ sessions' = Merge(sessions, tx[w].sessions)
  BY DEF Commit, Apply
<1> QED
  BY <1>1, Merged

\* What the transaction that commits has written: rows of challenges that
\* exist, of the same owner, and one account at most.
LEMMA CommitWrites ==
    ASSUME IInv, NEW w \in Workers, pc[w] = "commit"
    PROVE  /\ \A c \in DOMAIN tx[w].rows :
                /\ c \in DOMAIN verifications
                /\ tx[w].rows[c].phone = verifications[c].phone
                /\ tx[w].rows[c].subject = verifications[c].subject
                /\ CodeSent(tx[w].rows[c], delivered)
           /\ \A a, b \in DOMAIN tx[w].accounts : a = b
<1> DEFINE J == job[w]
           T == tx[w]
<1>1. \/ SignReady(J, T, verifications, accounts, delivered)
      \/ GoogleReady(J, T, accounts)
      \/ ClearReady(J, T, verifications, delivered)
  BY Here DEF LocalAt
<1>2. CASE SignReady(J, T, verifications, accounts, delivered)
  <2>1. /\ Copy(J, verifications, delivered) /\ AccountReady(J, T, accounts)
        /\ DOMAIN T.rows = {J.c} /\ T.rows[J.c] = MarkVerified(J.row)
    BY <1>2 DEF SignReady
  <2>2. SameOwner(J.row, MarkVerified(J.row))
    BY <2>1, VerifiedOwner DEF Copy
  <2>3. \A a, b \in DOMAIN T.accounts : a = b
    BY <2>1 DEF AccountReady
  <2> QED
    BY <2>1, <2>2, <2>3 DEF Copy, SameOwner, CodeSent
<1>3. CASE GoogleReady(J, T, accounts)
  BY <1>3 DEF GoogleReady, NoRows
<1>4. CASE ClearReady(J, T, verifications, delivered)
  BY <1>4 DEF ClearReady, Copy
<1> QED
  BY <1>1, <1>2, <1>3, <1>4

LEMMA CommitApart ==
    ASSUME IInv, NEW w \in Workers, Commit(w), tx'[w] = NoWrites,
           \A u \in Workers \ {w} : tx'[u] = tx[u]
    PROVE  Apart' /\ AccountsUnique'
<1>1. Apart /\ AccountsUnique
  BY DEF IInv
<1>2. \A a, b \in DOMAIN tx[w].accounts : a = b
  BY CommitWrites DEF Commit
<1>3. /\ DOMAIN accounts' = DOMAIN accounts \cup DOMAIN tx[w].accounts
      /\ \A a \in DOMAIN tx[w].accounts : accounts'[a] = tx[w].accounts[a]
      /\ \A a \in DOMAIN accounts \ DOMAIN tx[w].accounts : accounts'[a] = accounts[a]
      /\ DOMAIN sessions' = DOMAIN sessions \cup DOMAIN tx[w].sessions
  BY CommitTables DEF Extended
<1>4. \A a \in DOMAIN tx[w].accounts : a \notin DOMAIN accounts
  BY <1>1 DEF Apart
<1>5. ASSUME NEW a \in DOMAIN accounts', NEW b \in DOMAIN accounts', a # b
      PROVE  ~Clash(accounts'[a], accounts'[b])
  <2>1. CASE a \in DOMAIN accounts /\ b \in DOMAIN accounts
    BY <1>1, <1>3, <1>4, <1>5, <2>1 DEF AccountsUnique
  <2>2. CASE a \in DOMAIN tx[w].accounts /\ b \in DOMAIN accounts
    <3>1. ~UniqueViolation(tx[w].accounts[a])
      BY <1>1, <2>2 DEF Apart
    <3>2. ~Clash(tx[w].accounts[a], accounts[b])
      BY <3>1, <2>2 DEF UniqueViolation
    <3> QED
      BY <1>3, <1>4, <2>2, <3>2
  <2>3. CASE a \in DOMAIN accounts /\ b \in DOMAIN tx[w].accounts
    <3>1. ~UniqueViolation(tx[w].accounts[b])
      BY <1>1, <2>3 DEF Apart
    <3>2. ~Clash(tx[w].accounts[b], accounts[a])
      BY <3>1, <2>3 DEF UniqueViolation
    <3> QED
      BY <1>3, <1>4, <2>3, <3>2, ClashSymmetric
  <2>4. CASE a \in DOMAIN tx[w].accounts /\ b \in DOMAIN tx[w].accounts
    BY <1>2, <1>5, <2>4
  <2> QED
    BY <1>3, <2>1, <2>2, <2>3, <2>4
<1>6. ASSUME NEW u \in Workers
      PROVE  /\ \A a \in DOMAIN tx'[u].accounts :
                  /\ a \notin DOMAIN accounts'
                  /\ \A b \in DOMAIN accounts' : ~Clash(tx'[u].accounts[a], accounts'[b])
             /\ \A s \in DOMAIN tx'[u].sessions : s \notin DOMAIN sessions'
  <2>1. CASE u = w
    BY <2>1, NoWritesEmpty
  <2>2. CASE u # w
    <3>1. tx'[u] = tx[u]
      BY <2>2
    <3>2. ASSUME NEW a \in DOMAIN tx[u].accounts
          PROVE  /\ a \notin DOMAIN accounts'
                 /\ \A b \in DOMAIN accounts' : ~Clash(tx[u].accounts[a], accounts'[b])
      <4>1. /\ a \notin DOMAIN accounts /\ ~UniqueViolation(tx[u].accounts[a])
            /\ a \notin DOMAIN tx[w].accounts
            /\ \A b \in DOMAIN tx[w].accounts :
                ~Clash(tx[u].accounts[a], tx[w].accounts[b])
        BY <1>1, <2>2 DEF Apart
      <4> QED
        BY <1>3, <4>1 DEF UniqueViolation
    <3>3. \A s \in DOMAIN tx[u].sessions : s \notin DOMAIN sessions'
      BY <1>1, <1>3, <2>2 DEF Apart
    <3> QED
      BY <3>1, <3>2, <3>3
  <2> QED
    BY <2>1, <2>2
<1>7. ASSUME NEW u \in Workers, NEW x \in Workers, u # x
      PROVE  /\ \A a \in DOMAIN tx'[u].accounts :
                  /\ a \notin DOMAIN tx'[x].accounts
                  /\ \A b \in DOMAIN tx'[x].accounts :
                      ~Clash(tx'[u].accounts[a], tx'[x].accounts[b])
             /\ \A s \in DOMAIN tx'[u].sessions : s \notin DOMAIN tx'[x].sessions
  <2>1. CASE u = w \/ x = w
    BY <2>1, NoWritesEmpty
  <2>2. CASE u # w /\ x # w
    BY <1>1, <1>7, <2>2 DEF Apart
  <2> QED
    BY <2>1, <2>2
<1> QED
  BY <1>5, <1>6, <1>7 DEF Apart, AccountsUnique, UniqueViolation

LEMMA CommitStep ==
    ASSUME IInv, NEW w \in Workers, Commit(w) PROVE IInv'
<1> DEFINE T == tx[w]
<1>1. /\ pc[w] = "commit" /\ "idle" \in PCs /\ Write(w, "idle", NoJob, NoWrites)
      /\ UNCHANGED <<delivered, wrong>>
  BY DEF Commit, Answer, PCs
<1>2. /\ pc' \in [Workers -> PCs] /\ job' \in [Workers -> Job]
      /\ tx' = [u \in Workers |-> tx'[u]]
      /\ \A u \in Workers : WritesOK(tx'[u])
      /\ tx'[w] = NoWrites /\ \A u \in Workers \ {w} : tx'[u] = tx[u]
  BY <1>1, NoJobTyped, NothingWritten, WritesTyped
<1>3. WritesOK(T)
  BY WritesKept
<1>13. /\ Extended(verifications', verifications, T.rows)
       /\ Extended(accounts', accounts, T.accounts)
       /\ Extended(sessions', sessions, T.sessions)
  BY CommitTables
<1>14. \A c \in DOMAIN T.rows :
          /\ c \in DOMAIN verifications
          /\ T.rows[c].phone = verifications[c].phone
          /\ T.rows[c].subject = verifications[c].subject
          /\ CodeSent(T.rows[c], delivered)
  BY <1>1, CommitWrites
<1>4. Grows
  BY <1>1, <1>13, <1>14 DEF Grows, Extended
<1>5. Located'
  BY <1>1, <1>4, IdleLocal, LocatedStep
<1>6. Apart' /\ AccountsUnique'
  BY <1>2, CommitApart
<1>7. Typed(verifications', Challenges, Verification)
  BY <1>3, <1>13 DEF Extended, WritesOK, Typed, IInv, TypeOK
<1>8. Typed(accounts', Accounts, Account) /\ Typed(sessions', Sessions, Session)
  BY <1>3, <1>13 DEF Extended, WritesOK, Typed, IInv, TypeOK
<1>9. audits' \in [Challenges -> Nat]
  BY DEF Commit, Apply, IInv, TypeOK
<1>10. TypeOK'
  BY <1>1, <1>2, <1>7, <1>8, <1>9 DEF IInv, TypeOK, Typed, WritesOK, Write
<1>11. Shapes'
  BY <1>2, <1>13 DEF Shapes, Extended
<1>12. StoredCodeDelivered'
  BY <1>1, <1>13, <1>14 DEF Extended, IInv, StoredCodeDelivered, CodeSent
<1> QED
  BY <1>5, <1>6, <1>10, <1>11, <1>12 DEF IInv

LEMMA TickStep == ASSUME IInv, Tick PROVE IInv'
<1>1. now' \in 0..MaxTime
  BY BoundsAssumption DEF Tick, IInv, TypeOK, BoundsAssumption
<1>2. UNCHANGED <<verifications, accounts, sessions, audits, delivered, wrong, pc, job, tx>>
  BY DEF Tick, tables
<1>3. TypeOK' /\ Shapes' /\ Located'
  BY <1>1, <1>2 DEF IInv, TypeOK, Shapes, WritesOK, Typed, Located
<1>4. StoredCodeDelivered' /\ AccountsUnique'
  BY <1>2 DEF IInv, StoredCodeDelivered, AccountsUnique
<1>5. Apart'
  BY <1>2 DEF IInv, Apart, UniqueViolation
<1> QED
  BY <1>3, <1>4, <1>5 DEF IInv

-----------------------------------------------------------------------------
(* The inductive invariant. *)

LEMMA InitIInv == Init => IInv
<1> SUFFICES ASSUME Init PROVE IInv
  OBVIOUS
<1>1. /\ DOMAIN verifications = {} /\ DOMAIN accounts = {} /\ DOMAIN sessions = {}
      /\ accounts = << >> /\ sessions = << >>
      /\ \A w \in Workers : pc[w] = "idle" /\ job[w] = NoJob /\ tx[w] = NoWrites
  BY EmptySeq DEF Init
<1>2. << >> = [x \in {} |-> << >>[x]]
  BY EmptySeq
<1>3. WritesOK(NoWrites)
  BY NoWritesEmpty, EmptySeq DEF NoWrites, WritesOK, Typed, NoRows
<1>4. TypeOK
  <2>1. delivered \in Seq(Phones) /\ now \in 0..MaxTime
    BY EmptySeq, BoundsAssumption DEF Init, BoundsAssumption
  <2>2. /\ audits \in [Challenges -> Nat] /\ wrong \in [Challenges -> Nat]
        /\ pc \in [Workers -> PCs] /\ job \in [Workers -> Job]
    BY NoJobTyped DEF Init, PCs
  <2> QED
    BY <1>1, <1>3, <2>1, <2>2 DEF TypeOK, WritesOK, Typed
<1>5. Shapes
  BY <1>1, <1>2, <1>3 DEF Init, Shapes
<1>6. Located
  BY <1>1, IdleLocal DEF Located
<1>7. StoredCodeDelivered /\ AccountsUnique
  BY <1>1 DEF StoredCodeDelivered, AccountsUnique
<1>8. Apart
  BY <1>1, NoWritesEmpty DEF Apart
<1> QED
  BY <1>4, <1>5, <1>6, <1>7, <1>8 DEF IInv

LEMMA NextIInv == ASSUME IInv, [Next]_vars PROVE IInv'
<1>1. CASE Tick
  BY <1>1, TickStep
<1>2. ASSUME NEW w \in Workers, Start(w) \/ StartAdmin(w) PROVE IInv'
  BY <1>2, StartRequestStep, StartResendStep, StartConfirmStep, StartGoogleStep,
     StartClearStep DEF Start, StartAdmin
<1>3. ASSUME NEW w \in Workers, Statement(w) PROVE IInv'
  BY <1>3, ReadLatestStep, CountSendsStep, SendCodeStep, CreateChallengeStep,
     UpdateChallengeStep, FindAccountStep, CreateAccountStep, CreateSessionStep,
     VerifyChallengeStep, UnlockChallengeStep, CommitStep DEF Statement
<1>4. ASSUME NEW w \in Workers, Abort(w) PROVE IInv'
  BY <1>4, RollbackStep DEF Abort
<1>5. CASE UNCHANGED vars
  <2>1. UNCHANGED <<now, verifications, accounts, sessions, audits, delivered, wrong,
                    pc, job, tx>>
    BY <1>5 DEF vars, tables
  <2>2. TypeOK' /\ Shapes' /\ Located'
    BY <2>1 DEF IInv, TypeOK, Shapes, WritesOK, Typed, Located
  <2>3. StoredCodeDelivered' /\ AccountsUnique' /\ Apart'
    BY <2>1 DEF IInv, StoredCodeDelivered, AccountsUnique, Apart, UniqueViolation
  <2> QED
    BY <2>2, <2>3 DEF IInv
<1> QED
  BY <1>1, <1>2, <1>3, <1>4, <1>5 DEF Next

LEMMA Invariance == Spec => []IInv
<1>1. Init => IInv
  BY InitIInv
<1>2. IInv /\ [Next]_vars => IInv'
  BY NextIInv
<1> QED
  BY <1>1, <1>2, PTL DEF Spec

\* Tables, what handlers have read and what transactions have written keep their
\* types, for any number of requests in flight (service.go:101-460, 654-698).
THEOREM TypeCorrect == Spec => []TypeOK
<1>1. IInv => TypeOK
  BY DEF IInv
<1> QED
  BY <1>1, Invariance, PTL

\* No two accounts share a phone or a Google subject, although sign-ups check and
\* insert at different times (service.go:119, 303; repository.go:120-131).
THEOREM AccountsAreUnique == Spec => []AccountsUnique
<1>1. IInv => AccountsUnique
  BY DEF IInv
<1> QED
  BY <1>1, Invariance, PTL

\* The code a challenge holds was delivered to its phone, although handlers
\* overwrite whole rows with copies they read before others wrote
\* (service.go:192, 449-456).
THEOREM StoredCodesDelivered == Spec => []StoredCodeDelivered
<1>1. IInv => StoredCodeDelivered
  BY DEF IInv
<1> QED
  BY <1>1, Invariance, PTL

-----------------------------------------------------------------------------
(* What becomes visible, and when: only Commit touches accounts, sessions   *)
(* and audit events.                                                        *)

LEMMA OnlyCommit ==
    ASSUME [Next]_vars, \A w \in Workers : ~Commit(w)
    PROVE  UNCHANGED <<accounts, sessions, audits>>
<1>1. CASE Tick \/ UNCHANGED vars
  BY <1>1 DEF Tick, vars, tables
<1>2. ASSUME NEW w \in Workers, Start(w) \/ StartAdmin(w)
      PROVE  UNCHANGED <<accounts, sessions, audits>>
  BY <1>2 DEF Start, StartAdmin, StartRequest, StartResend, StartConfirmWrong,
              StartConfirmRight, StartGoogle, StartClear, tables
<1>3. ASSUME NEW w \in Workers, Statement(w) PROVE UNCHANGED <<accounts, sessions, audits>>
  BY <1>3 DEF Statement, ReadLatest, CountSends, SendCode, CreateChallenge,
              UpdateChallenge, FindAccount, CreateAccount, CreateSession,
              VerifyChallenge, UnlockChallenge, Rollback, tables
<1>4. ASSUME NEW w \in Workers, Abort(w) PROVE UNCHANGED <<accounts, sessions, audits>>
  BY <1>4 DEF Abort, Rollback, tables
<1> QED
  BY <1>1, <1>2, <1>3, <1>4 DEF Next

\* An account and its first session become visible together, with the verified
\* challenge they came from.
LEMMA SignupStep ==
    ASSUME IInv, [Next]_vars, NEW a \in DOMAIN accounts' \ DOMAIN accounts
    PROVE  \E s \in DOMAIN sessions' \ DOMAIN sessions, c \in DOMAIN verifications :
              /\ sessions'[s] = [account |-> a, grant |-> c]
              /\ verifications[c].phone = accounts'[a].phone
              /\ verifications[c].subject = accounts'[a].subject
              /\ verifications'[c].status = "verified"
<1>1. PICK w \in Workers : Commit(w)
  BY OnlyCommit
<1> DEFINE J == job[w]
           T == tx[w]
<1>2. /\ Extended(verifications', verifications, T.rows)
      /\ Extended(accounts', accounts, T.accounts)
      /\ Extended(sessions', sessions, T.sessions)
  BY <1>1, CommitTables
<1>3. a \in DOMAIN T.accounts /\ accounts'[a] = T.accounts[a]
  BY <1>2 DEF Extended
<1>4. /\ \/ SignReady(J, T, verifications, accounts, delivered)
         \/ GoogleReady(J, T, accounts)
         \/ ClearReady(J, T, verifications, delivered)
  BY <1>1, Here DEF LocalAt, Commit
<1>5. SignReady(J, T, verifications, accounts, delivered)
  BY <1>3, <1>4 DEF GoogleReady, ClearReady
<1>6. /\ Copy(J, verifications, delivered) /\ AccountReady(J, T, accounts)
      /\ SessionReady(J, T, J.c)
      /\ DOMAIN T.rows = {J.c} /\ T.rows[J.c] = MarkVerified(J.row)
  BY <1>5 DEF SignReady
<1>7. J.a = a /\ T.accounts[a] = [phone |-> J.row.phone, subject |-> J.row.subject]
  BY <1>3, <1>6 DEF AccountReady
<1>8. PICK s \in Sessions :
        DOMAIN T.sessions = {s} /\ T.sessions[s] = [account |-> J.a, grant |-> J.c]
  BY <1>6 DEF SessionReady
<1>9. s \notin DOMAIN sessions
  BY <1>8 DEF IInv, Apart
<1>10. s \in DOMAIN sessions' /\ sessions'[s] = [account |-> a, grant |-> J.c]
  BY <1>2, <1>7, <1>8 DEF Extended
<1>11. /\ J.c \in DOMAIN verifications /\ J.row \in Verification
       /\ verifications[J.c].phone = accounts'[a].phone
       /\ verifications[J.c].subject = accounts'[a].subject
  BY <1>3, <1>6, <1>7 DEF Copy
<1>12. verifications'[J.c] = MarkVerified(J.row)
  BY <1>2, <1>6 DEF Extended
<1>13. verifications'[J.c].status = "verified"
  BY <1>11, <1>12 DEF MarkVerified, Verification
<1> QED
  BY <1>9, <1>10, <1>11, <1>13

\* A sign-up leaves an account, its session and a verified challenge, or nothing,
\* wherever it fails (service.go:275-329).
THEOREM SignupsAllOrNothing == Spec => SignupAllOrNothing
<1>1. IInv /\ [Next]_vars =>
        [\A a \in DOMAIN accounts' \ DOMAIN accounts :
          \E s \in DOMAIN sessions' \ DOMAIN sessions, c \in DOMAIN verifications :
              /\ sessions'[s] = [account |-> a, grant |-> c]
              /\ verifications[c].phone = accounts'[a].phone
              /\ verifications[c].subject = accounts'[a].subject
              /\ verifications'[c].status = "verified"]_vars
  BY SignupStep
<1> QED
  BY <1>1, Invariance, PTL DEF Spec, SignupAllOrNothing

LEMMA AuditStep ==
    ASSUME IInv, [Next]_vars, NEW c \in Challenges, audits'[c] # audits[c]
    PROVE  audits'[c] = audits[c] + 1 /\ verifications'[c].lockedUntil = NoTime
<1>1. PICK w \in Workers : Commit(w)
  BY OnlyCommit
<1> DEFINE J == job[w]
           T == tx[w]
<1>2. audits' = [d \in Challenges |-> audits[d] + (IF d \in T.audits THEN 1 ELSE 0)]
  BY <1>1 DEF Commit, Apply
<1>3. audits[c] \in Nat
  BY DEF IInv, TypeOK
<1>4. c \in T.audits /\ audits'[c] = audits[c] + 1
  BY <1>2, <1>3
<1>5. /\ \/ SignReady(J, T, verifications, accounts, delivered)
         \/ GoogleReady(J, T, accounts)
         \/ ClearReady(J, T, verifications, delivered)
  BY <1>1, Here DEF LocalAt, Commit
<1>6. ClearReady(J, T, verifications, delivered)
  BY <1>4, <1>5 DEF SignReady, GoogleReady, NoRows
<1>7. /\ c = J.c /\ J.row.lockedUntil = NoTime
      /\ DOMAIN T.rows = {J.c} /\ T.rows[J.c] = J.row
  BY <1>4, <1>6 DEF ClearReady
<1>8. Extended(verifications', verifications, T.rows)
  BY <1>1, CommitTables
<1> QED
  BY <1>4, <1>7, <1>8 DEF Extended

\* An audit event is committed together with a row that has no lock, one at a
\* time: the clear writes both in one transaction, and a failed one leaves
\* neither (service.go:689-698).  Two clears of one lock are two events; that
\* each event had a lock to lift is not true, and the run race_audit shows it.
THEOREM AuditsCommitWithUnlock == Spec => AuditCommitsWithUnlock
<1>1. IInv /\ [Next]_vars =>
        [\A c \in Challenges : audits'[c] # audits[c] =>
          /\ audits'[c] = audits[c] + 1
          /\ verifications'[c].lockedUntil = NoTime]_vars
  BY AuditStep
<1> QED
  BY <1>1, Invariance, PTL DEF Spec, AuditCommitsWithUnlock

-----------------------------------------------------------------------------
(* Refinement: each step opens at most one session, of one account, and an   *)
(* account only with its first session.                                      *)

LEMMA OneMore ==
    ASSUME NEW new, NEW old, NEW writes, NEW x, NEW row, Extended(new, old, writes),
           DOMAIN writes = {x}, writes[x] = row
    PROVE  new = Abstract!Grows(old, x, row)
BY DEF Extended, Abstract!Grows

LEMMA NothingMore ==
    ASSUME NEW new, NEW old, NEW writes, Extended(new, old, writes),
           DOMAIN writes = {}, old = [x \in DOMAIN old |-> old[x]]
    PROVE  new = old
BY DEF Extended

\* A commit of one session for account a.
LEMMA OneSession ==
    ASSUME IInv, NEW w \in Workers, Commit(w), NEW grant \in Challenges \cup Subjects,
           SessionReady(job[w], tx[w], grant)
    PROVE  \E s \in Sessions : s \notin DOMAIN sessions /\ Abstract!OpenSession(job[w].a, s)
<1>1. PICK s \in Sessions :
        /\ DOMAIN tx[w].sessions = {s}
        /\ tx[w].sessions[s] = [account |-> job[w].a, grant |-> grant]
  BY DEF SessionReady
<1>2. Extended(sessions', sessions, tx[w].sessions)
  BY CommitTables
<1>3. sessions' = Abstract!Grows(sessions, s, [account |-> job[w].a, grant |-> grant])
  BY <1>1, <1>2, OneMore
<1>4. s \notin DOMAIN sessions
  BY <1>1 DEF IInv, Apart
<1> QED
  BY <1>1, <1>3, <1>4 DEF Abstract!OpenSession

LEMMA CommitRefines ==
    ASSUME IInv, NEW w \in Workers, Commit(w)
    PROVE  Abstract!Next \/ UNCHANGED <<accounts, sessions>>
<1> DEFINE J == job[w]
           T == tx[w]
<1>1. /\ Extended(accounts', accounts, T.accounts)
      /\ Extended(sessions', sessions, T.sessions)
  BY CommitTables
<1>2. /\ accounts = [a \in DOMAIN accounts |-> accounts[a]]
      /\ sessions = [s \in DOMAIN sessions |-> sessions[s]]
      /\ DOMAIN accounts \subseteq Accounts
  BY DEF IInv, Shapes, TypeOK
<1>3. WritesOK(T) /\ J \in Job
  BY WritesKept, Here
<1>4. /\ \/ SignReady(J, T, verifications, accounts, delivered)
         \/ GoogleReady(J, T, accounts)
         \/ ClearReady(J, T, verifications, delivered)
  BY Here DEF LocalAt, Commit
<1>5. CASE SignReady(J, T, verifications, accounts, delivered)
  <2>1. /\ Copy(J, verifications, delivered) /\ AccountReady(J, T, accounts)
        /\ SessionReady(J, T, J.c) /\ J.c \in Challenges
    BY <1>5 DEF SignReady, Copy, IInv, TypeOK
  <2>2. PICK s \in Sessions : s \notin DOMAIN sessions /\ Abstract!OpenSession(J.a, s)
    BY <2>1, OneSession
  <2>3. CASE DOMAIN T.accounts = {} /\ J.a \in DOMAIN accounts
    <3>1. accounts' = accounts
      BY <1>1, <1>2, <2>3, NothingMore
    <3>2. Abstract!SignIn(J.a, s)
      BY <2>2, <2>3, <3>1 DEF Abstract!SignIn
    <3> QED
      BY <1>2, <2>3, <3>2 DEF Abstract!Next
  <2>4. CASE /\ DOMAIN T.accounts = {J.a}
             /\ T.accounts[J.a] = [phone |-> J.row.phone, subject |-> J.row.subject]
    <3> DEFINE row == [phone |-> J.row.phone, subject |-> J.row.subject]
    <3>1. accounts' = Abstract!Grows(accounts, J.a, row)
      BY <1>1, <2>4, OneMore
    <3>2. J.a \notin DOMAIN accounts /\ ~UniqueViolation(row) /\ J.a \in Accounts
      BY <1>3, <2>4 DEF IInv, Apart, WritesOK, Typed
    <3>3. J.row.phone \in Phones /\ J.row.subject \in Subjects \cup {None}
      BY <2>1 DEF Copy, Verification
    <3>4. ~Abstract!Taken(row)
      BY <3>2 DEF UniqueViolation, Clash, Abstract!Taken
    <3>5. Abstract!SignUp(J.a, s)
      BY <2>2, <3>1, <3>2, <3>3, <3>4 DEF Abstract!SignUp
    <3> QED
      BY <3>2, <3>5 DEF Abstract!Next
  <2> QED
    BY <2>1, <2>3, <2>4 DEF AccountReady
<1>6. CASE GoogleReady(J, T, accounts)
  <2>1. /\ SessionReady(J, T, J.subject) /\ J.subject \in Subjects
        /\ DOMAIN T.accounts = {} /\ J.a \in DOMAIN accounts
    BY <1>6 DEF GoogleReady
  <2>2. PICK s \in Sessions : s \notin DOMAIN sessions /\ Abstract!OpenSession(J.a, s)
    BY <2>1, OneSession
  <2>3. accounts' = accounts
    BY <1>1, <1>2, <2>1, NothingMore
  <2>4. Abstract!SignIn(J.a, s)
    BY <2>1, <2>2, <2>3 DEF Abstract!SignIn
  <2> QED
    BY <1>2, <2>1, <2>4 DEF Abstract!Next
<1>7. CASE ClearReady(J, T, verifications, delivered)
  <2>1. DOMAIN T.accounts = {} /\ DOMAIN T.sessions = {}
    BY <1>7 DEF ClearReady
  <2> QED
    BY <1>1, <1>2, <2>1, NothingMore
<1> QED
  BY <1>4, <1>5, <1>6, <1>7

\* Accounts and sessions implement their abstract specification, although an
\* account is checked for minutes before it is inserted (service.go:275-320, 392-396).
THEOREM ImplementsRegistry == Spec => RegistrySpec
<1>1. Init => Abstract!Init
  BY DEF Init, Abstract!Init
<1>2. IInv /\ [Next]_vars => [Abstract!Next]_<<accounts, sessions>>
  BY OnlyCommit, CommitRefines
<1> QED
  BY <1>1, <1>2, Invariance, PTL DEF Spec, RegistrySpec, Abstract!Spec

-----------------------------------------------------------------------------
(* What an administrator reads is true.  Whatever copy of a challenge a      *)
(* handler holds, its lock shows in its status, its success in a session,    *)
(* and its failures in the wrong codes answered.                             *)

Granted(c, ss) == \E s \in DOMAIN ss : ss[s].grant = c

\* Row v, of challenge c, at instant t, after n wrong codes.
RowFacts(v, c, t, ss, n) ==
    /\ IsLocked(v, t) => v.status = "locked"
    /\ v.status = "verified" => Granted(c, ss)
    /\ v.failedAttempts <= n

Untouched(v) == v.lockedUntil = NoTime /\ v.status = "pending" /\ v.failedAttempts = 0

\* A wrong code counts when its handler writes it, which is still to come.
Answered(J, n) == n + (IF J.op = "wrong" THEN 1 ELSE 0)

JobFacts(J, t, ss, ns) ==
    /\ J.fresh \in Verification => Untouched(J.fresh)
    /\ J.row \in Verification /\ J.c \in Challenges =>
        /\ RowFacts(J.row, J.c, t, ss, Answered(J, ns[J.c]))
        /\ J.op = "right" => ~IsLocked(J.row, t)

Facts ==
    /\ \A c \in DOMAIN verifications :
        RowFacts(verifications[c], c, now, sessions, wrong[c])
    /\ \A w \in Workers : JobFacts(job[w], now, sessions, wrong)

\* Facts stay facts.
Later ==
    /\ now' \in Nat /\ now <= now'
    /\ \A c : Granted(c, sessions) => Granted(c, sessions')
    /\ \A c \in Challenges : wrong[c] <= wrong'[c]
    /\ wrong' \in [Challenges -> Nat]

LEMMA NoRowIsNoChallenge == NoRow \notin Verification
<1>1. ASSUME NoRow \in Verification PROVE FALSE
  <2>1. "status" \in DOMAIN NoRow
    BY <1>1 DEF Verification
  <2>2. DOMAIN NoRow = {"phone"}
    BY DEF NoRow
  <2> QED
    BY <2>1, <2>2
<1> QED
  BY <1>1

LEMMA RowFactsStay ==
    ASSUME IInv, Later, NEW v \in Verification, NEW c, NEW n \in Nat, NEW m \in Nat,
           n <= m, RowFacts(v, c, now, sessions, n)
    PROVE  RowFacts(v, c, now', sessions', m)
<1>1. now \in Nat /\ now' \in Nat /\ now <= now'
  BY NowNat DEF IInv, Later
<1>2. IsLocked(v, now') => IsLocked(v, now)
  BY <1>1 DEF IsLocked, Verification, Instant, NoTime
<1>3. v.failedAttempts <= m
  BY DEF RowFacts, Verification
<1>4. Granted(c, sessions) => Granted(c, sessions')
  BY DEF Later
<1> QED
  BY <1>2, <1>3, <1>4 DEF RowFacts

LEMMA AnsweredNat ==
    ASSUME NEW J, NEW n \in Nat, NEW m \in Nat, n <= m
    PROVE  /\ Answered(J, n) \in Nat /\ Answered(J, m) \in Nat
           /\ Answered(J, n) <= Answered(J, m) /\ n <= Answered(J, n)
           /\ J.op # "wrong" => Answered(J, n) = n
           /\ J.op = "wrong" => Answered(J, n) = n + 1
<1>1. CASE J.op = "wrong"
  BY <1>1 DEF Answered
<1>2. CASE J.op # "wrong"
  BY <1>2 DEF Answered
<1> QED
  BY <1>1, <1>2

LEMMA JobFactsStay ==
    ASSUME IInv, Later, NEW J, JobFacts(J, now, sessions, wrong)
    PROVE  JobFacts(J, now', sessions', wrong')
<1>1. ASSUME J.row \in Verification, J.c \in Challenges
      PROVE  /\ RowFacts(J.row, J.c, now', sessions', Answered(J, wrong'[J.c]))
             /\ J.op = "right" => ~IsLocked(J.row, now')
  <2>1. /\ wrong[J.c] \in Nat /\ wrong'[J.c] \in Nat /\ wrong[J.c] <= wrong'[J.c]
    BY <1>1 DEF IInv, TypeOK, Later
  <2>2. /\ Answered(J, wrong[J.c]) \in Nat /\ Answered(J, wrong'[J.c]) \in Nat
        /\ Answered(J, wrong[J.c]) <= Answered(J, wrong'[J.c])
    BY <2>1, AnsweredNat
  <2>3. RowFacts(J.row, J.c, now, sessions, Answered(J, wrong[J.c]))
    BY <1>1 DEF JobFacts
  <2>4. RowFacts(J.row, J.c, now', sessions', Answered(J, wrong'[J.c]))
    BY <1>1, <2>2, <2>3, RowFactsStay
  <2>5. now \in Nat /\ now' \in Nat /\ now <= now'
    BY NowNat DEF IInv, Later
  <2>6. IsLocked(J.row, now') => IsLocked(J.row, now)
    BY <1>1, <2>5 DEF IsLocked, Verification, Instant, NoTime
  <2>7. J.op = "right" => ~IsLocked(J.row, now)
    BY <1>1 DEF JobFacts
  <2> QED
    BY <2>4, <2>6, <2>7
<1>2. J.fresh \in Verification => Untouched(J.fresh)
  BY DEF JobFacts
<1> QED
  BY <1>1, <1>2 DEF JobFacts

\* A step of one worker: what it must show of its own locals, and of the rows.
LEMMA FactsStep ==
    ASSUME IInv, Facts, Later, NEW w \in Workers, NEW place, NEW locals, NEW writes,
           Write(w, place, locals, writes),
           JobFacts(locals, now, sessions, wrong),
           \A c \in DOMAIN verifications' :
               RowFacts(verifications'[c], c, now', sessions', wrong'[c])
    PROVE  Facts'
<1>1. job' = [job EXCEPT ![w] = locals] /\ job \in [Workers -> Job]
  BY DEF Write, IInv, TypeOK
<1>2. ASSUME NEW u \in Workers PROVE JobFacts(job'[u], now', sessions', wrong')
  <2>1. CASE u = w
    <3>1. job'[u] = locals
      BY <1>1, <2>1
    <3> QED
      BY <3>1, JobFactsStay
  <2>2. CASE u # w
    <3>1. job'[u] = job[u] /\ JobFacts(job[u], now, sessions, wrong)
      BY <1>1, <2>2 DEF Facts
    <3> QED
      BY <3>1, JobFactsStay
  <2> QED
    BY <2>1, <2>2
<1> QED
  BY <1>2 DEF Facts

\* A step that leaves the rows and the history alone.
LEMMA FactsQuiet ==
    ASSUME IInv, Facts, NEW w \in Workers, NEW place, NEW locals, NEW writes,
           Write(w, place, locals, writes), UNCHANGED <<tables, wrong>>,
           JobFacts(locals, now, sessions, wrong)
    PROVE  Facts'
<1>1. UNCHANGED <<now, verifications, sessions, wrong>>
  BY DEF Write, tables
<1>2. now \in Nat /\ wrong \in [Challenges -> Nat]
  BY NowNat DEF IInv, TypeOK
<1>3. Later
  BY <1>1, <1>2 DEF Later
<1>4. \A c \in DOMAIN verifications' :
        RowFacts(verifications'[c], c, now', sessions', wrong'[c])
  BY <1>1 DEF Facts
<1> QED
  BY <1>3, <1>4, FactsStep

LEMMA NoJobFacts == ASSUME NEW t, NEW ss, NEW ns PROVE JobFacts(NoJob, t, ss, ns)
<1>1. NoJob.row = NoRow /\ NoJob.fresh = NoRow
  BY DEF NoJob
<1> QED
  BY <1>1, NoRowIsNoChallenge DEF JobFacts

LEMMA FactsAnswer ==
    ASSUME IInv, Facts, NEW w \in Workers, Answer(w), UNCHANGED <<tables, wrong>>
    PROVE  Facts'
BY NoJobFacts, FactsQuiet DEF Answer

\* Locals with the row and the purpose they had.
LEMMA SameJobFacts ==
    ASSUME Facts, NEW w \in Workers, NEW J, J.c = job[w].c, J.row = job[w].row,
           J.op = job[w].op, J.fresh = job[w].fresh
    PROVE  JobFacts(J, now, sessions, wrong)
BY DEF Facts, JobFacts, Answered

\* Locals with a copy of a challenge.
LEMMA CopyFacts ==
    ASSUME IInv, Facts, NEW c \in DOMAIN verifications, NEW J, J.c = c,
           J.fresh \in Verification => Untouched(J.fresh),
           RowFacts(J.row, c, now, sessions, Answered(J, wrong[c])),
           J.op # "right"
    PROVE  JobFacts(J, now, sessions, wrong)
BY DEF JobFacts

LEMMA StoredFacts ==
    ASSUME IInv, Facts, NEW c \in DOMAIN verifications
    PROVE  /\ c \in Challenges /\ verifications[c] \in Verification /\ wrong[c] \in Nat
           /\ now \in Nat
           /\ RowFacts(verifications[c], c, now, sessions, wrong[c])
BY NowNat DEF IInv, TypeOK, Facts

LEMMA LockFacts ==
    ASSUME NEW v \in Verification, NEW at, NEW c, NEW t, NEW ss, NEW n,
           RowFacts(v, c, t, ss, n)
    PROVE  RowFacts(Lock(v, at), c, t, ss, n)
BY DEF RowFacts, Lock, Verification

LEMMA SentFacts ==
    ASSUME NEW v \in Verification, NEW at
    PROVE  /\ Sent(v, at).lockedUntil = v.lockedUntil /\ Sent(v, at).status = v.status
           /\ Sent(v, at).failedAttempts = v.failedAttempts
<1> DEFINE coded == [v EXCEPT !.code = Len(delivered) + 1]
<1>1. /\ coded.lockedUntil = v.lockedUntil /\ coded.status = v.status
      /\ coded.failedAttempts = v.failedAttempts
      /\ DOMAIN coded = DOMAIN v
  BY DEF Verification
<1>2. Sent(v, at) = RegisterSend(coded, at)
  BY DEF Sent
<1>3. {"lockedUntil", "status", "failedAttempts"} \subseteq DOMAIN coded
  BY <1>1 DEF Verification
<1> HIDE DEF coded
<1> QED
  BY <1>1, <1>2, <1>3 DEF RegisterSend

LEMMA FailureFacts ==
    ASSUME NEW v \in Verification, NEW at \in Nat, NEW c, NEW t, NEW ss, NEW n \in Nat,
           RowFacts(v, c, t, ss, n)
    PROVE  RowFacts(RegisterFailure(v, at), c, t, ss, n + 1)
<1> DEFINE failed == [v EXCEPT !.failedAttempts = @ + 1]
<1>1. /\ failed \in Verification /\ failed.lockedUntil = v.lockedUntil
      /\ failed.status = v.status /\ failed.failedAttempts = v.failedAttempts + 1
      /\ v.failedAttempts \in Nat
  BY DEF Verification
<1>2. RowFacts(failed, c, t, ss, n + 1)
  BY <1>1 DEF RowFacts, IsLocked
<1>3. RowFacts(Lock(failed, at), c, t, ss, n + 1)
  BY <1>1, <1>2, LockFacts
<1> QED
  BY <1>2, <1>3 DEF RegisterFailure

-----------------------------------------------------------------------------
(* Every statement keeps the facts. *)

LEMMA StartRequestFacts ==
    ASSUME IInv, Facts, NEW w \in Workers, NEW p \in Phones, NEW intent \in Intents,
           NEW subject \in Subjects \cup {None}, StartRequest(w, p, intent, subject)
    PROVE  Facts'
<1> DEFINE fresh == [phone |-> p, intent |-> intent, subject |-> subject, code |-> 0,
                     sentAt |-> 0, expiresAt |-> 0, failedAttempts |-> 0,
                     sendsInWindow |-> 0, lockedUntil |-> NoTime, status |-> "pending"]
           J == [NoJob EXCEPT !.op = "request", !.fresh = fresh, !.at = now]
<1>1. Untouched(fresh)
  BY DEF Untouched
<1>2. J.row = NoRow /\ J.fresh = fresh
  BY DEF NoJob
<1>3. Write(w, "latest", J, tx[w]) /\ UNCHANGED <<tables, wrong>>
  BY DEF StartRequest, Goto
<1> HIDE DEF J, fresh
<1>4. JobFacts(J, now, sessions, wrong)
  BY <1>1, <1>2, NoRowIsNoChallenge DEF JobFacts
<1> QED
  BY <1>3, <1>4, FactsQuiet

LEMMA ReadLatestFacts ==
    ASSUME IInv, Facts, NEW w \in Workers, ReadLatest(w) PROVE Facts'
<1>1. pc[w] = "latest" /\ UNCHANGED <<tables, wrong>>
  BY DEF ReadLatest
<1>2. job[w] \in Job /\ job[w].op = "request"
  BY <1>1, Here DEF LocalAt
<1>3. CASE Goto(w, "count", job[w])
  BY <1>1, <1>3, FactsQuiet DEF Goto, Facts
<1>4. CASE Answer(w)
  BY <1>1, <1>4, FactsAnswer
<1>5. ASSUME NEW c \in LatestRows(job[w].fresh.phone),
             Goto(w, "count", [job[w] EXCEPT !.c = c, !.row = verifications[c]])
      PROVE  Facts'
  <2> DEFINE J == [job[w] EXCEPT !.c = c, !.row = verifications[c]]
  <2>1. c \in DOMAIN verifications
    BY LatestStored
  <2>2. J.c = c /\ J.row = verifications[c] /\ J.op = "request" /\ J.fresh = job[w].fresh
    BY <1>2 DEF Job
  <2>3. Write(w, "count", J, tx[w])
    BY <1>5 DEF Goto
  <2> HIDE DEF J
  <2>4. RowFacts(J.row, c, now, sessions, Answered(J, wrong[c]))
    BY <2>1, <2>2, StoredFacts, AnsweredNat
  <2>5. J.fresh \in Verification => Untouched(J.fresh)
    BY <2>2 DEF Facts, JobFacts
  <2>6. JobFacts(J, now, sessions, wrong)
    BY <2>1, <2>2, <2>4, <2>5, CopyFacts
  <2> QED
    BY <1>1, <2>3, <2>6, FactsQuiet
<1>6. \/ Goto(w, "count", job[w])
      \/ \E c \in LatestRows(job[w].fresh.phone) :
            \/ Goto(w, "count", [job[w] EXCEPT !.c = c, !.row = verifications[c]])
            \/ Answer(w)
  BY DEF ReadLatest
<1> QED
  BY <1>3, <1>4, <1>5, <1>6

LEMMA CountSendsFacts ==
    ASSUME IInv, Facts, NEW w \in Workers, CountSends(w) PROVE Facts'
<1>1. pc[w] = "count" /\ UNCHANGED <<tables, wrong>>
  BY DEF CountSends
<1>2. /\ job[w] \in Job /\ job[w].op = "request" /\ JobFacts(job[w], now, sessions, wrong)
      /\ job[w].c = None \/ Copy(job[w], verifications, delivered)
  BY <1>1, Here DEF LocalAt, Facts
<1> DEFINE unlocked == [job[w] EXCEPT !.c = None, !.row = NoRow]
           locked == [job[w] EXCEPT !.fresh = NoRow, !.row = Lock(@, job[w].at)]
<1>3. CASE Goto(w, "send", unlocked)
  <2>1. unlocked.row = NoRow /\ unlocked.fresh = job[w].fresh
    BY <1>2 DEF Job
  <2> HIDE DEF unlocked
  <2>2. JobFacts(unlocked, now, sessions, wrong)
    BY <1>2, <2>1, NoRowIsNoChallenge DEF JobFacts
  <2> QED
    BY <1>1, <1>3, <2>2, FactsQuiet DEF Goto
<1>4. CASE job[w].c # None /\ Goto(w, "update", locked)
  <2>1. job[w].row \in Verification /\ job[w].c \in Challenges
    BY <1>2, <1>4 DEF Copy, IInv, TypeOK
  <2>2. /\ locked.row = Lock(job[w].row, job[w].at) /\ locked.c = job[w].c
        /\ locked.op = "request" /\ locked.fresh = NoRow
    BY <1>2 DEF Job
  <2> HIDE DEF locked
  <2>3. RowFacts(job[w].row, job[w].c, now, sessions, Answered(job[w], wrong[job[w].c]))
    BY <1>2, <2>1 DEF JobFacts
  <2>4. RowFacts(locked.row, locked.c, now, sessions, Answered(locked, wrong[locked.c]))
    BY <1>2, <2>1, <2>2, <2>3, LockFacts DEF Answered
  <2>5. JobFacts(locked, now, sessions, wrong)
    BY <2>2, <2>4, NoRowIsNoChallenge DEF JobFacts
  <2> QED
    BY <1>1, <1>4, <2>5, FactsQuiet DEF Goto
<1>5. CASE Answer(w)
  BY <1>1, <1>5, FactsAnswer
<1> QED
  BY <1>3, <1>4, <1>5 DEF CountSends

LEMMA SendCodeFacts ==
    ASSUME IInv, Facts, NEW w \in Workers, SendCode(w) PROVE Facts'
<1>1. pc[w] = "send" /\ UNCHANGED <<tables, wrong>>
  BY DEF SendCode
<1>2. /\ job[w] \in Job /\ JobFacts(job[w], now, sessions, wrong)
      /\ \/ job[w].op = "request" /\ job[w].fresh \in Verification
         \/ job[w].op = "resend" /\ Copy(job[w], verifications, delivered)
  BY <1>1, Here DEF LocalAt, Facts
<1>3. ASSUME job[w].op = "request",
             Goto(w, "create", [job[w] EXCEPT !.fresh = Sent(@, job[w].at)])
      PROVE  Facts'
  <2> DEFINE J == [job[w] EXCEPT !.fresh = Sent(@, job[w].at)]
  <2>1. /\ J.fresh = Sent(job[w].fresh, job[w].at) /\ J.row = job[w].row
        /\ J.c = job[w].c /\ J.op = job[w].op
    BY <1>2 DEF Job
  <2> HIDE DEF J
  <2>2. Untouched(J.fresh)
    BY <1>2, <1>3, <2>1, SentFacts DEF JobFacts, Untouched
  <2>3. JobFacts(J, now, sessions, wrong)
    BY <1>2, <2>1, <2>2 DEF JobFacts, Answered
  <2> QED
    BY <1>1, <1>3, <2>3, FactsQuiet DEF Goto, J
<1>4. ASSUME job[w].op = "resend",
             Goto(w, "update", [job[w] EXCEPT !.row = Sent(@, job[w].at)])
      PROVE  Facts'
  <2> DEFINE J == [job[w] EXCEPT !.row = Sent(@, job[w].at)]
             row == Sent(job[w].row, job[w].at)
  <2>1. /\ J.fresh = job[w].fresh /\ J.row = row
        /\ J.c = job[w].c /\ J.op = "resend"
    BY <1>2, <1>4 DEF Job
  <2> HIDE DEF J
  <2>2. job[w].row \in Verification
    BY <1>2, <1>4 DEF Copy
  <2>3. /\ row.lockedUntil = job[w].row.lockedUntil
        /\ row.status = job[w].row.status
        /\ row.failedAttempts = job[w].row.failedAttempts
    BY <2>2, SentFacts
  <2> HIDE DEF row
  <2>4. ASSUME J.c \in Challenges
        PROVE  RowFacts(J.row, J.c, now, sessions, Answered(J, wrong[J.c]))
    <3>1. RowFacts(job[w].row, J.c, now, sessions, Answered(job[w], wrong[J.c]))
      BY <1>2, <2>1, <2>2, <2>4 DEF JobFacts
    <3> QED
      BY <1>4, <2>1, <2>3, <3>1 DEF RowFacts, IsLocked, Answered
  <2>5. JobFacts(J, now, sessions, wrong)
    BY <1>2, <2>1, <2>4 DEF JobFacts
  <2> QED
    BY <1>1, <1>4, <2>5, FactsQuiet DEF Goto, J
<1>5. CASE Answer(w)
  BY <1>1, <1>5, FactsAnswer
<1> QED
  BY <1>3, <1>4, <1>5 DEF SendCode, StoreCode

LEMMA StartChallengeFacts ==
    ASSUME IInv, Facts, NEW w \in Workers, NEW c \in DOMAIN verifications,
           \/ StartResend(w, c) \/ StartConfirmWrong(w, c) \/ StartConfirmRight(w, c)
    PROVE  Facts'
<1> DEFINE v == verifications[c]
           resend == [NoJob EXCEPT !.op = "resend", !.c = c, !.row = v, !.at = now]
           locked == [resend EXCEPT !.row = Lock(v, now)]
           failed == [NoJob EXCEPT !.op = "wrong", !.c = c, !.at = now,
                                   !.row = RegisterFailure(v, now)]
           right == [NoJob EXCEPT !.op = "right", !.c = c, !.at = now, !.row = v]
<1>1. /\ UNCHANGED <<tables, wrong>>
      /\ \/ Goto(w, "update", locked) \/ Goto(w, "send", resend)
         \/ Goto(w, "update", failed)
         \/ Goto(w, "account", right) /\ ~IsLocked(v, now)
  BY DEF StartResend, StartConfirmWrong, StartConfirmRight, Confirmable
<1>2. /\ c \in Challenges /\ v \in Verification /\ wrong[c] \in Nat /\ now \in Nat
      /\ RowFacts(v, c, now, sessions, wrong[c])
  BY StoredFacts
<1>3. /\ RowFacts(Lock(v, now), c, now, sessions, wrong[c])
      /\ RowFacts(RegisterFailure(v, now), c, now, sessions, wrong[c] + 1)
  BY <1>2, LockFacts, FailureFacts
<1>4. /\ resend.op = "resend" /\ resend.c = c /\ resend.row = v /\ resend.fresh = NoRow
      /\ right.op = "right" /\ right.c = c /\ right.row = v /\ right.fresh = NoRow
      /\ failed.op = "wrong" /\ failed.c = c /\ failed.fresh = NoRow
      /\ failed.row = RegisterFailure(v, now)
      /\ locked.op = "resend" /\ locked.c = c /\ locked.fresh = NoRow
      /\ locked.row = Lock(v, now)
  BY DEF NoJob
<1> HIDE DEF resend, locked, failed, right
<1>5. /\ Answered(resend, wrong[c]) = wrong[c] /\ Answered(locked, wrong[c]) = wrong[c]
      /\ Answered(right, wrong[c]) = wrong[c] /\ Answered(failed, wrong[c]) = wrong[c] + 1
  BY <1>2, <1>4, AnsweredNat
<1>6. JobFacts(resend, now, sessions, wrong) /\ JobFacts(locked, now, sessions, wrong)
  BY <1>2, <1>3, <1>4, <1>5, NoRowIsNoChallenge DEF JobFacts
<1>7. JobFacts(failed, now, sessions, wrong)
  BY <1>2, <1>3, <1>4, <1>5, NoRowIsNoChallenge DEF JobFacts
<1>8. ~IsLocked(v, now) => JobFacts(right, now, sessions, wrong)
  BY <1>2, <1>4, <1>5, NoRowIsNoChallenge DEF JobFacts
<1> QED
  BY <1>1, <1>6, <1>7, <1>8, FactsQuiet DEF Goto

LEMMA StartGoogleFacts ==
    ASSUME IInv, Facts, NEW w \in Workers, NEW subject \in Subjects, StartGoogle(w, subject)
    PROVE  Facts'
<1>1. PICK a \in DOMAIN accounts :
        Goto(w, "session", [NoJob EXCEPT !.op = "google", !.a = a,
                                         !.subject = subject, !.at = now])
  BY DEF StartGoogle
<1> DEFINE J == [NoJob EXCEPT !.op = "google", !.a = a, !.subject = subject, !.at = now]
<1>2. J.row = NoRow /\ J.fresh = NoRow
  BY DEF NoJob
<1>3. Write(w, "session", J, tx[w]) /\ UNCHANGED <<tables, wrong>>
  BY <1>1 DEF Goto, StartGoogle
<1> HIDE DEF J
<1> QED
  BY <1>2, <1>3, NoRowIsNoChallenge, FactsQuiet DEF JobFacts

LEMMA StartClearFacts ==
    ASSUME IInv, Facts, NEW w \in Workers, NEW a \in DOMAIN accounts, StartClear(w, a)
    PROVE  Facts'
<1>1. PICK c \in LatestRows(accounts[a].phone) :
        Goto(w, "unlock", [NoJob EXCEPT !.op = "clear", !.c = c, !.a = a, !.at = now,
                                        !.row = Unlock(verifications[c])])
  BY DEF StartClear
<1> DEFINE v == verifications[c]
           J == [NoJob EXCEPT !.op = "clear", !.c = c, !.a = a, !.at = now,
                              !.row = Unlock(v)]
<1>2. c \in DOMAIN verifications
  BY LatestStored
<1>3. /\ v \in Verification /\ wrong[c] \in Nat
      /\ RowFacts(v, c, now, sessions, wrong[c])
  BY <1>2, StoredFacts
<1>4. J.op = "clear" /\ J.c = c /\ J.row = Unlock(v) /\ J.fresh = NoRow
  BY DEF NoJob
<1>5. Write(w, "unlock", J, tx[w]) /\ UNCHANGED <<tables, wrong>>
  BY <1>1 DEF Goto, StartClear
<1> HIDE DEF J
<1>6. /\ Unlock(v).lockedUntil = NoTime /\ Unlock(v).status = "pending"
      /\ Unlock(v).failedAttempts = v.failedAttempts
  BY <1>3 DEF Unlock, Verification
<1>7. RowFacts(Unlock(v), c, now, sessions, Answered(J, wrong[c]))
  BY <1>3, <1>4, <1>6 DEF RowFacts, IsLocked, Answered
<1>8. JobFacts(J, now, sessions, wrong)
  BY <1>2, <1>4, <1>7, NoRowIsNoChallenge, CopyFacts
<1> QED
  BY <1>5, <1>8, FactsQuiet

\* The statements of a transaction before it commits.
LEMMA TransactionFacts ==
    ASSUME IInv, Facts, NEW w \in Workers,
           \/ FindAccount(w) \/ CreateAccount(w) \/ CreateSession(w)
           \/ VerifyChallenge(w) \/ UnlockChallenge(w)
    PROVE  Facts'
<1>1. UNCHANGED <<tables, wrong>>
  BY DEF FindAccount, CreateAccount, CreateSession, VerifyChallenge, UnlockChallenge,
         Rollback
<1>2. job[w] \in Job
  BY Here
<1>3. ASSUME NEW a, NEW place, NEW writes,
             Write(w, place, [job[w] EXCEPT !.a = a], writes)
      PROVE  Facts'
  <2> DEFINE J == [job[w] EXCEPT !.a = a]
  <2>1. /\ J.c = job[w].c /\ J.row = job[w].row /\ J.op = job[w].op
        /\ J.fresh = job[w].fresh
    BY <1>2 DEF Job
  <2> HIDE DEF J
  <2>2. JobFacts(J, now, sessions, wrong)
    BY <2>1, SameJobFacts
  <2> QED
    BY <1>1, <1>3, <2>2, FactsQuiet DEF J
<1>4. ASSUME NEW place, NEW writes, Write(w, place, job[w], writes) PROVE Facts'
  BY <1>1, <1>4, FactsQuiet DEF Facts
<1>5. CASE Answer(w)
  BY <1>1, <1>5, FactsAnswer
<1>6. \/ \E a, place, writes : Write(w, place, [job[w] EXCEPT !.a = a], writes)
      \/ \E place, writes : Write(w, place, job[w], writes)
      \/ Answer(w)
  <2>1. CASE FindAccount(w)
    BY <2>1 DEF FindAccount, Goto
  <2>2. CASE CreateAccount(w)
    BY <2>2 DEF CreateAccount, Rollback
  <2>3. CASE CreateSession(w)
    BY <2>3 DEF CreateSession
  <2>4. CASE VerifyChallenge(w)
    BY <2>4 DEF VerifyChallenge
  <2>5. CASE UnlockChallenge(w)
    BY <2>5 DEF UnlockChallenge
  <2> QED
    BY <2>1, <2>2, <2>3, <2>4, <2>5
<1> QED
  BY <1>3, <1>4, <1>5, <1>6

LEMMA CreateChallengeFacts ==
    ASSUME IInv, Facts, NEW w \in Workers, CreateChallenge(w) PROVE Facts'
<1>1. /\ pc[w] = "create" /\ Write(w, "idle", NoJob, NoWrites)
      /\ UNCHANGED <<now, sessions, wrong>>
  BY DEF CreateChallenge, Answer, Write
<1>2. PICK c \in Challenges \ DOMAIN verifications :
        verifications' = Put(verifications, c, job[w].fresh)
  BY DEF CreateChallenge
<1>3. Untouched(job[w].fresh)
  BY <1>1, Here DEF LocalAt, Facts, JobFacts
<1>4. now \in Nat /\ wrong \in [Challenges -> Nat]
  BY NowNat DEF IInv, TypeOK
<1>5. Later
  BY <1>1, <1>4 DEF Later
<1>6. RowFacts(job[w].fresh, c, now, sessions, wrong[c])
  BY <1>3, <1>4 DEF Untouched, RowFacts, IsLocked
<1>7. \A d \in DOMAIN verifications' :
        RowFacts(verifications'[d], d, now', sessions', wrong'[d])
  BY <1>1, <1>2, <1>6 DEF Put, Facts
<1> QED
  BY <1>1, <1>5, <1>7, NoJobFacts, FactsStep

LEMMA UpdateChallengeFacts ==
    ASSUME IInv, Facts, NEW w \in Workers, UpdateChallenge(w) PROVE Facts'
<1> DEFINE J == job[w]
           c == J.c
<1>1. /\ pc[w] = "update" /\ Write(w, "idle", NoJob, NoWrites)
      /\ verifications' = Put(verifications, c, J.row)
      /\ wrong' = IF J.op = "wrong" THEN [wrong EXCEPT ![c] = @ + 1] ELSE wrong
      /\ UNCHANGED <<now, sessions>>
  BY DEF UpdateChallenge, Answer, Write
<1>2. c \in Challenges /\ J.row \in Verification
  BY <1>1, Here DEF LocalAt, Copy, IInv, TypeOK
<1>3. now \in Nat /\ wrong \in [Challenges -> Nat]
  BY NowNat DEF IInv, TypeOK
<1>4. /\ wrong' \in [Challenges -> Nat] /\ wrong'[c] = Answered(J, wrong[c])
      /\ \A d \in Challenges : wrong[d] <= wrong'[d]
  BY <1>1, <1>2, <1>3 DEF Answered
<1>5. Later
  BY <1>1, <1>3, <1>4 DEF Later
<1>6. RowFacts(J.row, c, now', sessions', wrong'[c])
  BY <1>1, <1>2, <1>4 DEF Facts, JobFacts
<1>7. ASSUME NEW d \in DOMAIN verifications'
      PROVE  RowFacts(verifications'[d], d, now', sessions', wrong'[d])
  <2>1. CASE d = c
    BY <1>1, <1>6, <2>1 DEF Put
  <2>2. CASE d # c
    <3>1. d \in DOMAIN verifications /\ verifications'[d] = verifications[d]
      BY <1>1, <2>2 DEF Put
    <3>2. wrong[d] \in Nat /\ wrong'[d] \in Nat /\ wrong[d] <= wrong'[d]
      BY <1>3, <1>4, <3>1, StoredFacts
    <3> QED
      BY <1>5, <3>1, <3>2, StoredFacts, RowFactsStay
  <2> QED
    BY <2>1, <2>2
<1> QED
  BY <1>1, <1>5, <1>7, NoJobFacts, FactsStep

\* What a commit puts in place of a challenge is true once it is there.
LEMMA CommittedRowFacts ==
    ASSUME IInv, Facts, NEW w \in Workers, Commit(w), NEW c \in DOMAIN tx[w].rows
    PROVE  /\ c \in DOMAIN verifications
           /\ RowFacts(tx[w].rows[c], c, now, sessions', wrong[c])
<1> DEFINE J == job[w]
           T == tx[w]
<1>1. \/ SignReady(J, T, verifications, accounts, delivered)
      \/ GoogleReady(J, T, accounts)
      \/ ClearReady(J, T, verifications, delivered)
  BY Here DEF LocalAt, Commit
<1>2. c = J.c /\ c \in DOMAIN verifications /\ c \in Challenges /\ J.row \in Verification
  BY <1>1 DEF SignReady, GoogleReady, ClearReady, NoRows, Copy, IInv, TypeOK
<1>3. /\ RowFacts(J.row, c, now, sessions, Answered(J, wrong[c]))
      /\ J.op = "right" => ~IsLocked(J.row, now)
  BY <1>2 DEF Facts, JobFacts
<1>4. Extended(sessions', sessions, T.sessions)
  BY CommitTables
<1>5. J.op # "wrong" => Answered(J, wrong[c]) = wrong[c]
  BY <1>2, StoredFacts, AnsweredNat
<1>6. CASE SignReady(J, T, verifications, accounts, delivered)
  <2>1. J.op = "right" /\ SessionReady(J, T, c) /\ T.rows[c] = MarkVerified(J.row)
    BY <1>2, <1>6 DEF SignReady
  <2>2. Granted(c, sessions')
    BY <1>4, <2>1 DEF SessionReady, Granted, Extended
  <2>3. /\ MarkVerified(J.row).lockedUntil = J.row.lockedUntil
        /\ MarkVerified(J.row).failedAttempts = J.row.failedAttempts
    BY <1>2 DEF MarkVerified, Verification
  <2> QED
    BY <1>2, <1>3, <1>5, <2>1, <2>2, <2>3 DEF RowFacts, IsLocked
<1>7. CASE ClearReady(J, T, verifications, delivered)
  <2>1. J.op = "clear" /\ T.rows[c] = J.row
    BY <1>2, <1>7 DEF ClearReady
  <2>2. \A s \in DOMAIN sessions : s \in DOMAIN sessions' /\ sessions'[s] = sessions[s]
    BY <1>4 DEF Extended, IInv, Apart
  <2>3. Granted(c, sessions) => Granted(c, sessions')
    BY <2>2 DEF Granted
  <2> QED
    BY <1>2, <1>3, <1>5, <2>1, <2>3 DEF RowFacts
<1>8. CASE GoogleReady(J, T, accounts)
  BY <1>8 DEF GoogleReady, NoRows
<1> QED
  BY <1>1, <1>6, <1>7, <1>8

LEMMA CommitFacts ==
    ASSUME IInv, Facts, NEW w \in Workers, Commit(w) PROVE Facts'
<1>1. Write(w, "idle", NoJob, NoWrites) /\ UNCHANGED <<now, wrong>>
  BY DEF Commit, Answer, Write
<1>2. /\ Extended(verifications', verifications, tx[w].rows)
      /\ Extended(sessions', sessions, tx[w].sessions)
  BY CommitTables
<1>3. \A s \in DOMAIN sessions : s \in DOMAIN sessions' /\ sessions'[s] = sessions[s]
  BY <1>2 DEF Extended, IInv, Apart
<1>4. now \in Nat /\ wrong \in [Challenges -> Nat]
  BY NowNat DEF IInv, TypeOK
<1>5. Later
  BY <1>1, <1>3, <1>4 DEF Later, Granted
<1>6. ASSUME NEW c \in DOMAIN verifications'
      PROVE  RowFacts(verifications'[c], c, now', sessions', wrong'[c])
  <2>1. CASE c \in DOMAIN tx[w].rows
    <3>1. verifications'[c] = tx[w].rows[c]
      BY <1>2, <2>1 DEF Extended
    <3>2. RowFacts(tx[w].rows[c], c, now, sessions', wrong[c])
      BY <2>1, CommittedRowFacts
    <3> QED
      BY <1>1, <3>1, <3>2
  <2>2. CASE c \notin DOMAIN tx[w].rows
    <3>1. c \in DOMAIN verifications /\ verifications'[c] = verifications[c]
      BY <1>2, <2>2 DEF Extended
    <3>2. RowFacts(verifications[c], c, now', sessions', wrong[c])
      BY <1>4, <1>5, <3>1, StoredFacts, RowFactsStay
    <3> QED
      BY <1>1, <3>1, <3>2
  <2> QED
    BY <2>1, <2>2
<1> QED
  BY <1>1, <1>5, <1>6, NoJobFacts, FactsStep

LEMMA TickFacts == ASSUME IInv, Facts, Tick PROVE Facts'
<1>1. /\ now \in Nat /\ now' = now + 1
      /\ UNCHANGED <<verifications, sessions, wrong, job>>
  BY NowNat DEF Tick, tables, IInv
<1>2. wrong \in [Challenges -> Nat]
  BY DEF IInv, TypeOK
<1>3. Later
  BY <1>1, <1>2 DEF Later
<1>4. ASSUME NEW c \in DOMAIN verifications
      PROVE  RowFacts(verifications[c], c, now', sessions', wrong[c])
  BY <1>3, StoredFacts, RowFactsStay
<1>5. ASSUME NEW w \in Workers PROVE JobFacts(job[w], now', sessions', wrong')
  BY <1>3, JobFactsStay DEF Facts
<1> QED
  BY <1>1, <1>4, <1>5 DEF Facts

LEMMA NextFacts == ASSUME IInv, Facts, [Next]_vars PROVE Facts'
<1>1. ASSUME NEW w \in Workers, Start(w) \/ StartAdmin(w) PROVE Facts'
  BY <1>1, StartRequestFacts, StartChallengeFacts, StartGoogleFacts, StartClearFacts
     DEF Start, StartAdmin
<1>2. ASSUME NEW w \in Workers, Statement(w) PROVE Facts'
  BY <1>2, ReadLatestFacts, CountSendsFacts, SendCodeFacts, CreateChallengeFacts,
     UpdateChallengeFacts, TransactionFacts, CommitFacts DEF Statement
<1>3. ASSUME NEW w \in Workers, Abort(w) PROVE Facts'
  BY <1>3, FactsAnswer DEF Abort, Rollback
<1>4. CASE UNCHANGED vars
  <2>1. UNCHANGED <<now, verifications, sessions, wrong, job>>
    BY <1>4 DEF vars, tables
  <2> QED
    BY <2>1 DEF Facts
<1> QED
  BY <1>1, <1>2, <1>3, <1>4, TickFacts DEF Next

LEMMA FactsInvariance == Spec => [](IInv /\ Facts)
<1>1. Init => Facts
  BY NoJobFacts DEF Init, Facts
<1>2. IInv /\ Facts /\ [Next]_vars => Facts'
  BY NextFacts
<1> QED
  BY <1>1, <1>2, Invariance, PTL DEF Spec

-----------------------------------------------------------------------------
(* The reads. *)

\* Each listed lockout is a challenge of its own in the count.
LEMMA LocksCounted ==
    ASSUME IInv, Facts, NEW since \in 0..now
    PROVE  Cardinality({p \in Phones : LockoutActive(p) /\
                          \E c \in LatestRows(p) : verifications[c].sentAt >= since})
             <= Analytics(since).locked
<1> DEFINE Listed == {p \in Phones : LockoutActive(p) /\
                        \E c \in LatestRows(p) : verifications[c].sentAt >= since}
           Lockout(p) == {c \in LatestRows(p) : IsLocked(verifications[c], now)}
           f == [p \in Listed |-> CHOOSE c \in Lockout(p) : TRUE]
           InRange == {c \in DOMAIN verifications : verifications[c].sentAt >= since}
           Locked == {c \in InRange : verifications[c].status = "locked"}
<1>1. ASSUME NEW p \in Listed
      PROVE  /\ f[p] \in Locked /\ verifications[f[p]].phone = p
  <2>1. Lockout(p) # {}
    BY DEF LockoutActive, LockedPhones
  <2>2. f[p] \in Lockout(p)
    BY <2>1
  <2> HIDE DEF f
  <2>3. /\ f[p] \in DOMAIN verifications /\ verifications[f[p]].phone = p
        /\ IsLocked(verifications[f[p]], now)
    BY <2>2 DEF LatestRows, RowsOf
  <2>4. PICK d \in LatestRows(p) : verifications[d].sentAt >= since
    OBVIOUS
  <2>5. /\ d \in DOMAIN verifications
        /\ verifications[d].sentAt <= verifications[f[p]].sentAt
    BY <2>2 DEF LatestRows, RowsOf
  <2>6. verifications[f[p]].sentAt >= since
    <3>1. /\ verifications[d].sentAt \in Nat /\ verifications[f[p]].sentAt \in Nat
          /\ since \in Nat
      BY <2>3, <2>5, StoredFacts DEF Verification
    <3> QED
      BY <2>4, <2>5, <3>1
  <2>7. verifications[f[p]].status = "locked"
    BY <2>3 DEF Facts, RowFacts
  <2> QED
    BY <2>3, <2>6, <2>7
<1>2. IsFiniteSet(Locked)
  BY FiniteIds, FS_Subset DEF FiniteIds, IInv, TypeOK
<1>3. f \in Injection(Listed, Locked)
  <2>1. f \in [Listed -> Locked]
    BY <1>1
  <2>2. ASSUME NEW p \in Listed, NEW q \in Listed, f[p] = f[q] PROVE p = q
    <3> HIDE DEF f, Listed, Locked
    <3> QED
      BY <1>1, <2>2
  <2> HIDE DEF f, Listed, Locked
  <2> QED
    BY <2>1, <2>2 DEF Injection, IsInjective
<1>4. Cardinality(Listed) <= Cardinality(Locked)
  <2> HIDE DEF f, Listed, Locked
  <2> QED
    BY <1>2, <1>3, FS_Injection
<1>5. Analytics(since).locked = Cardinality(Locked)
  BY DEF Analytics
<1> QED
  BY <1>4, <1>5

\* Every lockout of the account list is in the lockout count, although the list
\* reads locked_until and the count reads status, which several handlers
\* overwrite with copies (domain.go:227-229; service.go:624, 764).
THEOREM ListedLocksAreCounted == Spec => []ListedLocksCounted
<1>1. IInv /\ Facts => ListedLocksCounted
  BY LocksCounted DEF ListedLocksCounted
<1> QED
  BY <1>1, FactsInvariance, PTL

\* A sum of failures is a sum of the table.
LEMMA FailedIsTotal ==
    ASSUME IInv, NEW S \in SUBSET (DOMAIN verifications), IsFiniteSet(S)
    PROVE  MapThenSumSet(LAMBDA c : verifications[c].failedAttempts, S)
             = Total([c \in DOMAIN verifications |-> verifications[c].failedAttempts], S)
<1> DEFINE g == [c \in DOMAIN verifications |-> verifications[c].failedAttempts]
           fold(r) == [s \in SUBSET S |->
                         IF s = {} THEN 0
                         ELSE verifications[Pick(s)].failedAttempts + r[s \ {Pick(s)}]]
           total == CHOOSE r : r = fold(r)
<1>1. PICK f : IsFold(f, g, S)
  BY SumExists
<1>2. ASSUME NEW s \in SUBSET S, s # {}
      PROVE  g[Pick(s)] = verifications[Pick(s)].failedAttempts
  BY <1>2, PickOne
<1>3. \E r : r = fold(r)
  <2>1. f = [s \in SUBSET S |-> f[s]]
    BY <1>1 DEF IsFold
  <2>2. \A s \in SUBSET S : f[s] = Step(f, g, s)
    BY <1>1 DEF IsFold
  <2>3. \A s \in SUBSET S : f[s] = fold(f)[s]
    BY <1>2, <2>2 DEF Step
  <2>4. f = fold(f)
    BY <2>1, <2>3
  <2> HIDE DEF fold
  <2> QED
    BY <2>4
<1>4. total = fold(total)
  BY <1>3
<1>5. MapThenSumSet(LAMBDA c : verifications[c].failedAttempts, S) = total[S]
  BY DEF MapThenSumSet, MapThenFoldSet, Pick
<1> HIDE DEF total
<1>6. Adds(total, g, S)
  BY <1>2, <1>4 DEF Adds, Step
<1> QED
  BY <1>5, <1>6, TotalIs

LEMMA RateFromFacts ==
    ASSUME IInv, Facts, NEW since \in 0..now
    PROVE  /\ Analytics(since).failed <= MapThenSumSet(LAMBDA c : wrong[c], Challenges)
           /\ Analytics(since).verified <= Cardinality({c \in Challenges : GrantsOf(c) # {}})
<1> DEFINE S == {c \in DOMAIN verifications : verifications[c].sentAt >= since}
           g == [c \in DOMAIN verifications |-> verifications[c].failedAttempts]
           Verified == {c \in S : verifications[c].status = "verified"}
           Seen == {c \in Challenges : GrantsOf(c) # {}}
<1>1. /\ S \in SUBSET Challenges /\ S \in SUBSET (DOMAIN verifications)
      /\ IsFiniteSet(Challenges) /\ IsFiniteSet(S)
  <2>1. S \in SUBSET Challenges /\ S \in SUBSET (DOMAIN verifications)
    BY DEF IInv, TypeOK
  <2> QED
    BY <2>1, FiniteIds, FS_Subset DEF FiniteIds
<1>2. \A c \in S : g[c] \in Nat /\ g[c] <= wrong[c]
  BY <1>1, StoredFacts DEF RowFacts, Verification
<1>3. Counts(g, S) /\ Counts(wrong, Challenges)
  BY <1>2 DEF Counts, IInv, TypeOK
<1>4. Analytics(since).failed
        = MapThenSumSet(LAMBDA c : verifications[c].failedAttempts, S)
  BY DEF Analytics
<1>5. Analytics(since).failed = Total(g, S)
  <2> HIDE DEF S
  <2>1. MapThenSumSet(LAMBDA c : verifications[c].failedAttempts, S) = Total(g, S)
    BY <1>1, FailedIsTotal
  <2> QED
    BY <1>4, <2>1
<1>6. Total(g, S) <= Total(wrong, Challenges)
  <2> HIDE DEF S, g
  <2> QED
    BY <1>1, <1>2, <1>3, TotalGrows
<1>7. Total(wrong, Challenges) = MapThenSumSet(LAMBDA c : wrong[c], Challenges)
  BY DEF Total
<1>8. Analytics(since).failed <= MapThenSumSet(LAMBDA c : wrong[c], Challenges)
  <2> HIDE DEF S, g
  <2> QED
    BY <1>5, <1>6, <1>7
<1>9. Verified \subseteq Seen /\ IsFiniteSet(Seen)
  <2>1. Verified \subseteq Seen
    BY <1>1 DEF Facts, RowFacts, Granted, GrantsOf
  <2> QED
    BY <1>1, <2>1, FS_Subset
<1>10. Cardinality(Verified) <= Cardinality(Seen)
  BY <1>9, FS_Subset
<1>11. Analytics(since).verified = Cardinality(Verified)
  BY DEF Analytics
<1> QED
  BY <1>8, <1>10, <1>11

\* The failure rate counts no failure that no wrong code was answered with and no
\* success without a session, however copies overwrite each other
\* (service.go:245-254, 320-329, 756-772).
THEOREM FailureRatesFromFacts == Spec => []FailureRateFromFacts
<1>1. IInv /\ Facts => FailureRateFromFacts
  BY RateFromFacts DEF FailureRateFromFacts
<1> QED
  BY <1>1, FactsInvariance, PTL
-----------------------------------------------------------------------------
(* Clears on record: a row, and every copy of one, that shows a send count   *)
(* of zero is of a challenge with an audit event, but for the copy a clear   *)
(* is about to write together with its event.                                *)

RowRecorded(v, n) == v.sendsInWindow = 0 => n > 0

JobRecorded(place, J, as) ==
    /\ J.row \in Verification /\ J.c \in Challenges /\ J.op # "clear" =>
        RowRecorded(J.row, as[J.c])
    /\ place = "update" => J.op # "clear"
    /\ place = "create" => J.fresh.sendsInWindow # 0

Recorded ==
    /\ \A c \in DOMAIN verifications : RowRecorded(verifications[c], audits[c])
    /\ \A w \in Workers : JobRecorded(pc[w], job[w], audits)

\* A step of one worker, which takes no event back.
LEMMA RecordedStep ==
    ASSUME IInv, Recorded, NEW w \in Workers, NEW place, NEW locals, NEW writes,
           Write(w, place, locals, writes),
           \A c \in Challenges : audits[c] > 0 => audits'[c] > 0,
           JobRecorded(place, locals, audits),
           \A c \in DOMAIN verifications' : RowRecorded(verifications'[c], audits'[c])
    PROVE  Recorded'
<1>1. /\ pc' = [pc EXCEPT ![w] = place] /\ pc \in [Workers -> PCs]
      /\ job' = [job EXCEPT ![w] = locals] /\ job \in [Workers -> Job]
  BY DEF Write, IInv, TypeOK
<1>2. ASSUME NEW at, NEW J, JobRecorded(at, J, audits) PROVE JobRecorded(at, J, audits')
  BY <1>2 DEF JobRecorded, RowRecorded
<1>3. ASSUME NEW u \in Workers PROVE JobRecorded(pc'[u], job'[u], audits')
  <2>1. CASE u = w
    <3>1. pc'[u] = place /\ job'[u] = locals
      BY <1>1, <2>1
    <3> QED
      BY <1>2, <3>1
  <2>2. CASE u # w
    <3>1. pc'[u] = pc[u] /\ job'[u] = job[u] /\ JobRecorded(pc[u], job[u], audits)
      BY <1>1, <2>2 DEF Recorded
    <3> QED
      BY <1>2, <3>1
  <2> QED
    BY <2>1, <2>2
<1> QED
  BY <1>3 DEF Recorded

LEMMA RecordedQuiet ==
    ASSUME IInv, Recorded, NEW w \in Workers, NEW place, NEW locals, NEW writes,
           Write(w, place, locals, writes), UNCHANGED tables,
           JobRecorded(place, locals, audits)
    PROVE  Recorded'
<1>1. UNCHANGED <<verifications, audits>>
  BY DEF tables
<1>2. \A c \in DOMAIN verifications' : RowRecorded(verifications'[c], audits'[c])
  BY <1>1 DEF Recorded
<1> QED
  BY <1>1, <1>2, RecordedStep

LEMMA NoJobRecorded == ASSUME NEW as PROVE JobRecorded("idle", NoJob, as)
<1>1. NoJob.row = NoRow
  BY DEF NoJob
<1> QED
  BY <1>1, NoRowIsNoChallenge DEF JobRecorded

LEMMA RecordedAnswer ==
    ASSUME IInv, Recorded, NEW w \in Workers, Answer(w), UNCHANGED tables
    PROVE  Recorded'
BY NoJobRecorded, RecordedQuiet DEF Answer

\* No rule but the clear takes a send count back.
LEMMA SendsKept ==
    ASSUME NEW v \in Verification, NEW t
    PROVE  /\ Lock(v, t).sendsInWindow = v.sendsInWindow
           /\ RegisterFailure(v, t).sendsInWindow = v.sendsInWindow
           /\ MarkVerified(v).sendsInWindow = v.sendsInWindow
<1> DEFINE failed == [v EXCEPT !.failedAttempts = @ + 1]
<1>1. failed.sendsInWindow = v.sendsInWindow /\ DOMAIN failed = DOMAIN v
  BY DEF Verification
<1>2. Lock(failed, t).sendsInWindow = failed.sendsInWindow
  <2>1. "sendsInWindow" \in DOMAIN failed
    BY <1>1 DEF Verification
  <2> HIDE DEF failed
  <2> QED
    BY <2>1 DEF Lock
<1> QED
  BY <1>1, <1>2 DEF Lock, RegisterFailure, MarkVerified, Verification

LEMMA SentCounts ==
    ASSUME NEW v \in Verification, NEW t PROVE Sent(v, t).sendsInWindow # 0
<1> DEFINE coded == [v EXCEPT !.code = Len(delivered) + 1]
<1>1. coded.sendsInWindow = v.sendsInWindow /\ v.sendsInWindow \in Nat
      /\ "sendsInWindow" \in DOMAIN coded
  BY DEF Verification
<1>2. Sent(v, t) = RegisterSend(coded, t)
  BY DEF Sent
<1> HIDE DEF coded
<1>3. Sent(v, t).sendsInWindow = v.sendsInWindow + 1
  BY <1>1, <1>2 DEF RegisterSend
<1> QED
  BY <1>1, <1>3

LEMMA StartRecorded ==
    ASSUME IInv, Recorded, NEW w \in Workers, Start(w) \/ StartAdmin(w) PROVE Recorded'
<1>1. ASSUME NEW p \in Phones, NEW intent \in Intents,
             NEW subject \in Subjects \cup {None}, StartRequest(w, p, intent, subject)
      PROVE  Recorded'
  <2>1. PICK fresh : Write(w, "latest", [NoJob EXCEPT !.op = "request", !.fresh = fresh,
                                                      !.at = now], tx[w])
    BY <1>1 DEF StartRequest, Goto
  <2> DEFINE J == [NoJob EXCEPT !.op = "request", !.fresh = fresh, !.at = now]
  <2>2. J.row = NoRow
    BY DEF NoJob
  <2>3. JobRecorded("latest", J, audits)
    BY <2>2, NoRowIsNoChallenge DEF JobRecorded
  <2>4. UNCHANGED tables
    BY <1>1 DEF StartRequest
  <2> QED
    BY <2>1, <2>3, <2>4, RecordedQuiet
<1>2. ASSUME NEW c \in DOMAIN verifications, NEW op, NEW place, NEW row,
             Write(w, place, [NoJob EXCEPT !.op = op, !.c = c, !.row = row, !.at = now],
                   tx[w]),
             op # "clear", place # "create", UNCHANGED tables,
             row.sendsInWindow = verifications[c].sendsInWindow
      PROVE  Recorded'
  <2> DEFINE J == [NoJob EXCEPT !.op = op, !.c = c, !.row = row, !.at = now]
  <2>1. J.row = row /\ J.c = c /\ J.op = op
    BY DEF NoJob
  <2>2. RowRecorded(row, audits[c])
    BY <1>2 DEF Recorded, RowRecorded
  <2> HIDE DEF J
  <2>3. JobRecorded(place, J, audits)
    BY <1>2, <2>1, <2>2 DEF JobRecorded
  <2> QED
    BY <1>2, <2>3, RecordedQuiet DEF J
<1>3. ASSUME NEW c \in DOMAIN verifications,
             StartResend(w, c) \/ StartConfirmWrong(w, c) \/ StartConfirmRight(w, c)
      PROVE  Recorded'
  <2> DEFINE v == verifications[c]
             Made(op, row) == [NoJob EXCEPT !.op = op, !.c = c, !.row = row, !.at = now]
  <2>1. v \in Verification
    BY StoredRow
  <2>2. /\ Lock(v, now).sendsInWindow = v.sendsInWindow
        /\ RegisterFailure(v, now).sendsInWindow = v.sendsInWindow
    BY <2>1, SendsKept
  <2>3. [Made("resend", v) EXCEPT !.row = Lock(v, now)] = Made("resend", Lock(v, now))
    BY DEF NoJob
  <2>4. /\ UNCHANGED tables
        /\ \/ Write(w, "update", Made("resend", Lock(v, now)), tx[w])
           \/ Write(w, "send", Made("resend", v), tx[w])
           \/ Write(w, "update", Made("wrong", RegisterFailure(v, now)), tx[w])
           \/ Write(w, "account", Made("right", v), tx[w])
    <3>1. CASE StartResend(w, c)
      BY <2>3, <3>1 DEF StartResend, Goto
    <3>2. CASE StartConfirmWrong(w, c)
      <4>1. [NoJob EXCEPT !.op = "wrong", !.c = c, !.at = now,
                          !.row = RegisterFailure(v, now)]
              = Made("wrong", RegisterFailure(v, now))
        BY DEF NoJob
      <4> QED
        BY <3>2, <4>1 DEF StartConfirmWrong, Goto
    <3>3. CASE StartConfirmRight(w, c)
      <4>1. [NoJob EXCEPT !.op = "right", !.c = c, !.at = now, !.row = v]
              = Made("right", v)
        BY DEF NoJob
      <4> QED
        BY <3>3, <4>1 DEF StartConfirmRight, Goto
    <3> QED
      BY <1>3, <3>1, <3>2, <3>3
  <2> QED
    BY <1>2, <2>2, <2>4
<1>4. ASSUME NEW subject \in Subjects, StartGoogle(w, subject) PROVE Recorded'
  <2>1. PICK a : Write(w, "session", [NoJob EXCEPT !.op = "google", !.a = a,
                                        !.subject = subject, !.at = now], tx[w])
    BY <1>4 DEF StartGoogle, Goto
  <2> DEFINE J == [NoJob EXCEPT !.op = "google", !.a = a, !.subject = subject, !.at = now]
  <2>2. J.row = NoRow
    BY DEF NoJob
  <2>3. JobRecorded("session", J, audits)
    BY <2>2, NoRowIsNoChallenge DEF JobRecorded
  <2>4. UNCHANGED tables
    BY <1>4 DEF StartGoogle
  <2> QED
    BY <2>1, <2>3, <2>4, RecordedQuiet
<1>5. ASSUME NEW a \in DOMAIN accounts, StartClear(w, a) PROVE Recorded'
  <2>1. PICK c, row : Write(w, "unlock", [NoJob EXCEPT !.op = "clear", !.c = c, !.a = a,
                                            !.at = now, !.row = row], tx[w])
    BY <1>5 DEF StartClear, Goto
  <2> DEFINE J == [NoJob EXCEPT !.op = "clear", !.c = c, !.a = a, !.at = now, !.row = row]
  <2>2. J.op = "clear"
    BY DEF NoJob
  <2>3. JobRecorded("unlock", J, audits)
    BY <2>2 DEF JobRecorded
  <2>4. UNCHANGED tables
    BY <1>5 DEF StartClear
  <2> QED
    BY <2>1, <2>3, <2>4, RecordedQuiet
<1> QED
  BY <1>1, <1>3, <1>4, <1>5 DEF Start, StartAdmin

LEMMA ReadLatestRecorded ==
    ASSUME IInv, Recorded, NEW w \in Workers, ReadLatest(w) PROVE Recorded'
<1>1. /\ UNCHANGED tables
      /\ job[w] \in Job /\ JobRecorded(pc[w], job[w], audits)
  BY Here DEF ReadLatest, Recorded
<1>2. JobRecorded("count", job[w], audits)
  BY <1>1 DEF JobRecorded
<1>3. ASSUME NEW c \in LatestRows(job[w].fresh.phone),
             Goto(w, "count", [job[w] EXCEPT !.c = c, !.row = verifications[c]])
      PROVE  Recorded'
  <2> DEFINE J == [job[w] EXCEPT !.c = c, !.row = verifications[c]]
  <2>1. J.c = c /\ J.row = verifications[c] /\ c \in DOMAIN verifications
    BY <1>1, LatestStored DEF Job
  <2>2. RowRecorded(verifications[c], audits[c])
    BY <2>1 DEF Recorded
  <2> HIDE DEF J
  <2>3. JobRecorded("count", J, audits)
    BY <2>1, <2>2 DEF JobRecorded
  <2> QED
    BY <1>1, <1>3, <2>3, RecordedQuiet DEF Goto, J
<1> QED
  BY <1>1, <1>2, <1>3, RecordedQuiet, RecordedAnswer DEF ReadLatest, Goto

LEMMA CountSendsRecorded ==
    ASSUME IInv, Recorded, NEW w \in Workers, CountSends(w) PROVE Recorded'
<1>1. /\ pc[w] = "count" /\ UNCHANGED tables
      /\ job[w] \in Job /\ JobRecorded(pc[w], job[w], audits)
  BY Here DEF CountSends, Recorded
<1>2. job[w].op = "request" /\ (job[w].c = None \/ Copy(job[w], verifications, delivered))
  BY <1>1, Here DEF LocalAt
<1> DEFINE unlocked == [job[w] EXCEPT !.c = None, !.row = NoRow]
           locked == [job[w] EXCEPT !.fresh = NoRow, !.row = Lock(@, job[w].at)]
<1>3. JobRecorded("send", unlocked, audits)
  <2>1. unlocked.row = NoRow
    BY <1>1 DEF Job
  <2> QED
    BY <2>1, NoRowIsNoChallenge DEF JobRecorded
<1>4. job[w].c # None => JobRecorded("update", locked, audits)
  <2> SUFFICES ASSUME job[w].c # None PROVE JobRecorded("update", locked, audits)
    OBVIOUS
  <2>1. job[w].row \in Verification /\ job[w].c \in Challenges
    BY <1>2 DEF Copy, IInv, TypeOK
  <2>2. /\ locked.row = Lock(job[w].row, job[w].at) /\ locked.c = job[w].c
        /\ locked.op = "request"
    BY <1>1, <1>2 DEF Job
  <2>3. locked.row.sendsInWindow = job[w].row.sendsInWindow
    BY <2>1, <2>2, SendsKept
  <2> HIDE DEF locked
  <2> QED
    BY <1>1, <1>2, <2>1, <2>2, <2>3 DEF JobRecorded, RowRecorded
<1> HIDE DEF locked, unlocked
<1>5. \/ Goto(w, "send", unlocked) \/ Answer(w)
      \/ job[w].c # None /\ Goto(w, "update", locked)
  BY DEF CountSends, locked, unlocked
<1> QED
  BY <1>1, <1>3, <1>4, <1>5, RecordedQuiet, RecordedAnswer DEF Goto

LEMMA SendCodeRecorded ==
    ASSUME IInv, Recorded, NEW w \in Workers, SendCode(w) PROVE Recorded'
<1>1. /\ pc[w] = "send" /\ UNCHANGED tables
      /\ job[w] \in Job /\ JobRecorded(pc[w], job[w], audits)
  BY Here DEF SendCode, Recorded
<1>2. \/ job[w].op = "request" /\ job[w].fresh \in Verification
      \/ job[w].op = "resend" /\ Copy(job[w], verifications, delivered)
  BY <1>1, Here DEF LocalAt
<1>3. ASSUME job[w].op = "request",
             Goto(w, "create", [job[w] EXCEPT !.fresh = Sent(@, job[w].at)])
      PROVE  Recorded'
  <2> DEFINE J == [job[w] EXCEPT !.fresh = Sent(@, job[w].at)]
  <2>1. /\ J.fresh = Sent(job[w].fresh, job[w].at) /\ J.row = job[w].row
        /\ J.c = job[w].c /\ J.op = job[w].op
    BY <1>1 DEF Job
  <2>2. J.fresh.sendsInWindow # 0
    BY <1>2, <1>3, <2>1, SentCounts
  <2> HIDE DEF J
  <2>3. JobRecorded("create", J, audits)
    BY <1>1, <2>1, <2>2 DEF JobRecorded
  <2> QED
    BY <1>1, <1>3, <2>3, RecordedQuiet DEF Goto, J
<1>4. ASSUME job[w].op = "resend",
             Goto(w, "update", [job[w] EXCEPT !.row = Sent(@, job[w].at)])
      PROVE  Recorded'
  <2> DEFINE J == [job[w] EXCEPT !.row = Sent(@, job[w].at)]
  <2>1. J.row = Sent(job[w].row, job[w].at) /\ J.op = "resend"
    BY <1>1, <1>4 DEF Job
  <2>2. J.row.sendsInWindow # 0
    BY <1>2, <1>4, <2>1, SentCounts DEF Copy
  <2> HIDE DEF J
  <2>3. JobRecorded("update", J, audits)
    BY <2>1, <2>2 DEF JobRecorded, RowRecorded
  <2> QED
    BY <1>1, <1>4, <2>3, RecordedQuiet DEF Goto, J
<1> QED
  BY <1>1, <1>3, <1>4, RecordedAnswer DEF SendCode, StoreCode

LEMMA RowStepRecorded ==
    ASSUME IInv, Recorded, NEW w \in Workers, CreateChallenge(w) \/ UpdateChallenge(w)
    PROVE  Recorded'
<1>1. PICK c \in Challenges : \E row :
        /\ verifications' = Put(verifications, c, row) /\ RowRecorded(row, audits[c])
        /\ Answer(w) /\ UNCHANGED audits
  <2>1. JobRecorded(pc[w], job[w], audits)
    BY DEF Recorded
  <2>2. CASE CreateChallenge(w)
    BY <2>1, <2>2 DEF CreateChallenge, JobRecorded, RowRecorded
  <2>3. CASE UpdateChallenge(w)
    <3>1. /\ pc[w] = "update" /\ verifications' = Put(verifications, job[w].c, job[w].row)
          /\ Answer(w) /\ UNCHANGED audits
      BY <2>3 DEF UpdateChallenge
    <3>2. job[w].c \in Challenges /\ job[w].row \in Verification
      BY <3>1, Here DEF LocalAt, Copy, IInv, TypeOK
    <3> QED
      BY <2>1, <3>1, <3>2 DEF JobRecorded
  <2> QED
    BY <2>2, <2>3
<1>2. \A d \in DOMAIN verifications' : RowRecorded(verifications'[d], audits'[d])
  BY <1>1 DEF Put, Recorded
<1> QED
  BY <1>1, <1>2, NoJobRecorded, RecordedStep DEF Answer

LEMMA TransactionRecorded ==
    ASSUME IInv, Recorded, NEW w \in Workers,
           \/ FindAccount(w) \/ CreateAccount(w) \/ CreateSession(w)
           \/ VerifyChallenge(w) \/ UnlockChallenge(w)
    PROVE  Recorded'
<1>1. UNCHANGED tables
  BY DEF FindAccount, CreateAccount, CreateSession, VerifyChallenge, UnlockChallenge,
         Rollback
<1>2. job[w] \in Job /\ JobRecorded(pc[w], job[w], audits)
  BY Here DEF Recorded
<1>3. ASSUME NEW a, NEW place, NEW writes, place \notin {"update", "create"},
             Write(w, place, [job[w] EXCEPT !.a = a], writes)
      PROVE  Recorded'
  <2> DEFINE J == [job[w] EXCEPT !.a = a]
  <2>1. J.c = job[w].c /\ J.row = job[w].row /\ J.op = job[w].op
    BY <1>2 DEF Job
  <2> HIDE DEF J
  <2>2. JobRecorded(place, J, audits)
    BY <1>2, <1>3, <2>1 DEF JobRecorded
  <2> QED
    BY <1>1, <1>3, <2>2, RecordedQuiet DEF J
<1>4. ASSUME NEW place, NEW writes, place \notin {"update", "create"},
             Write(w, place, job[w], writes)
      PROVE  Recorded'
  <2>1. JobRecorded(place, job[w], audits)
    BY <1>2, <1>4 DEF JobRecorded
  <2> QED
    BY <1>1, <1>4, <2>1, RecordedQuiet
<1>5. \/ \E a, writes : Write(w, "session", [job[w] EXCEPT !.a = a], writes)
      \/ \E place \in {"verify", "commit"} : \E writes : Write(w, place, job[w], writes)
      \/ Answer(w)
  <2>1. CASE FindAccount(w)
    BY <2>1 DEF FindAccount, Goto
  <2>2. CASE CreateAccount(w)
    BY <2>2 DEF CreateAccount, Rollback
  <2>3. CASE CreateSession(w)
    BY <2>3 DEF CreateSession
  <2>4. CASE VerifyChallenge(w)
    BY <2>4 DEF VerifyChallenge
  <2>5. CASE UnlockChallenge(w)
    BY <2>5 DEF UnlockChallenge
  <2> QED
    BY <2>1, <2>2, <2>3, <2>4, <2>5
<1>6. ASSUME NEW a, NEW writes, Write(w, "session", [job[w] EXCEPT !.a = a], writes)
      PROVE  Recorded'
  <2>1. "session" \notin {"update", "create"}
    OBVIOUS
  <2> QED
    BY <1>3, <1>6, <2>1
<1>7. ASSUME NEW place \in {"verify", "commit"}, NEW writes, Write(w, place, job[w], writes)
      PROVE  Recorded'
  <2>1. place \notin {"update", "create"}
    BY <1>7
  <2> QED
    BY <1>4, <1>7, <2>1
<1>8. CASE Answer(w)
  BY <1>1, <1>8, RecordedAnswer
<1> QED
  BY <1>5, <1>6, <1>7, <1>8

LEMMA CommitRecorded ==
    ASSUME IInv, Recorded, NEW w \in Workers, Commit(w) PROVE Recorded'
<1> DEFINE J == job[w]
           T == tx[w]
<1>1. Write(w, "idle", NoJob, NoWrites)
  BY DEF Commit, Answer
<1>2. /\ audits' = [c \in Challenges |-> audits[c] + (IF c \in T.audits THEN 1 ELSE 0)]
      /\ audits \in [Challenges -> Nat] /\ DOMAIN verifications \subseteq Challenges
  BY DEF Commit, Apply, IInv, TypeOK
<1>3. Extended(verifications', verifications, T.rows)
  BY CommitTables
<1>4. \/ SignReady(J, T, verifications, accounts, delivered)
      \/ GoogleReady(J, T, accounts)
      \/ ClearReady(J, T, verifications, delivered)
  BY Here DEF LocalAt, Commit
<1>5. ASSUME NEW c \in DOMAIN T.rows
      PROVE  c \in Challenges /\ RowRecorded(T.rows[c], audits'[c])
  <2>1. CASE SignReady(J, T, verifications, accounts, delivered)
    <3>1. /\ c = J.c /\ T.rows[c] = MarkVerified(J.row) /\ J.op = "right"
          /\ c \in Challenges /\ J.row \in Verification /\ T.audits = {}
      BY <1>2, <2>1 DEF SignReady, Copy
    <3>2. RowRecorded(J.row, audits[c])
      BY <3>1 DEF Recorded, JobRecorded
    <3>3. audits'[c] = audits[c]
      BY <1>2, <3>1
    <3> QED
      BY <3>1, <3>2, <3>3, SendsKept DEF RowRecorded
  <2>2. CASE ClearReady(J, T, verifications, delivered)
    <3>1. c \in Challenges /\ c \in T.audits
      BY <1>2, <2>2 DEF ClearReady, Copy
    <3>2. audits'[c] = audits[c] + 1 /\ audits[c] \in Nat
      BY <1>2, <3>1
    <3> QED
      BY <3>1, <3>2 DEF RowRecorded
  <2>3. CASE GoogleReady(J, T, accounts)
    BY <2>3 DEF GoogleReady, NoRows
  <2> QED
    BY <1>4, <2>1, <2>2, <2>3
<1>6. \A c \in Challenges : audits[c] > 0 => audits'[c] > 0
  BY <1>2
<1>7. ASSUME NEW c \in DOMAIN verifications'
      PROVE  RowRecorded(verifications'[c], audits'[c])
  <2>1. CASE c \in DOMAIN T.rows
    BY <1>3, <1>5, <2>1 DEF Extended
  <2>2. CASE c \notin DOMAIN T.rows
    <3>1. c \in DOMAIN verifications /\ verifications'[c] = verifications[c]
      BY <1>3, <2>2 DEF Extended
    <3>2. RowRecorded(verifications[c], audits[c])
      BY <3>1 DEF Recorded
    <3> QED
      BY <1>2, <1>6, <3>1, <3>2 DEF RowRecorded
  <2> QED
    BY <2>1, <2>2
<1> QED
  BY <1>1, <1>6, <1>7, NoJobRecorded, RecordedStep

LEMMA NextRecorded == ASSUME IInv, Recorded, [Next]_vars PROVE Recorded'
<1>1. ASSUME NEW w \in Workers, Statement(w) PROVE Recorded'
  BY <1>1, ReadLatestRecorded, CountSendsRecorded, SendCodeRecorded, RowStepRecorded,
     TransactionRecorded, CommitRecorded DEF Statement
<1>2. ASSUME NEW w \in Workers, Abort(w) PROVE Recorded'
  BY <1>2, RecordedAnswer DEF Abort, Rollback
<1>3. CASE Tick \/ UNCHANGED vars
  <2>1. UNCHANGED <<verifications, audits, pc, job>>
    BY <1>3 DEF Tick, vars, tables
  <2> QED
    BY <2>1 DEF Recorded
<1> QED
  BY <1>1, <1>2, <1>3, StartRecorded DEF Next

\* No clear goes unrecorded: whoever sees a send count of zero, and whoever copies
\* it over another row's update, the challenge has its audit event
\* (service.go:685, 689-694).
THEOREM ClearsAreOnRecord == Spec => []ClearsOnRecord
<1>1. Init => Recorded
  <2>1. ASSUME Init PROVE DOMAIN verifications = {}
    BY <2>1, EmptySeq DEF Init
  <2> QED
    BY <2>1, NoJobRecorded DEF Init, Recorded
<1>2. IInv /\ Recorded /\ [Next]_vars => Recorded'
  BY NextRecorded
<1>3. Recorded => ClearsOnRecord
  BY DEF Recorded, RowRecorded, ClearsOnRecord
<1> QED
  BY <1>1, <1>2, <1>3, Invariance, PTL DEF Spec
=============================================================================
