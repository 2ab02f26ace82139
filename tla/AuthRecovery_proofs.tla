-------------------------- MODULE AuthRecovery_proofs --------------------------
(***************************************************************************)
(* Theorems about what AuthService does to a phone over time.              *)
(*                                                                         *)
(* A client who waits always gets out: this rests on where a row's times   *)
(* lie.  No send is in the future, and a lock reaches from its row's last  *)
(* send, at the least, to LockoutDuration from now, at the most.           *)
(*                                                                         *)
(* The send cap: what the rows of a phone count is never less than what    *)
(* the phone received, whichever row a resend moves into a later window;   *)
(* and what the rows count is bounded by how many of them a window holds.  *)
(***************************************************************************)
EXTENDS AuthService_proofs, RowSums

\* Where the times of a row lie at instant t.
TimesFit(v, t) ==
    /\ v.sentAt <= t
    /\ v.lockedUntil # NoTime =>
        /\ v.sentAt + LockoutDuration <= v.lockedUntil
        /\ v.lockedUntil <= t + LockoutDuration

Recent == \A c \in DOMAIN verifications : TimesFit(verifications[c], now)

\* A sum over no rows.
LEMMA NoSends ==
    ASSUME NEW p, NEW since, {c \in RowsOf(p) : verifications[c].sentAt >= since} = {}
    PROVE  CountSendsSince(p, since) = 0
<1> DEFINE g(c) == verifications[c].sendsInWindow
           pick(s) == CHOOSE x \in s : TRUE
           fold(sum) == [s \in SUBSET {} |-> IF s = {} THEN 0
                                             ELSE g(pick(s)) + sum[s \ {pick(s)}]]
           total == CHOOSE sum : sum = fold(sum)
<1>1. \E sum : sum = fold(sum)
  <2> WITNESS [s \in SUBSET {} |-> 0]
  <2> QED
    OBVIOUS
<1>2. total[{}] = 0
  <2>1. total = fold(total)
    BY <1>1
  <2> QED
    BY <2>1
<1>3. CountSendsSince(p, since) = total[{}]
  BY DEF CountSendsSince, MapThenSumSet, MapThenFoldSet
<1> QED
  BY <1>2, <1>3

\* So a phone is not at its cap when its latest challenge left the window.
LEMMA WindowPassed ==
    ASSUME TypeOK, NEW p \in Phones, NEW t \in Nat,
           \A c \in RowsOf(p) : verifications[c].sentAt < t - SendCapWindow
    PROVE  ~CapReachedAt(p, t)
<1>1. \A c \in RowsOf(p) : verifications[c].sentAt \in Nat
  BY DEF TypeOK, Verification, RowsOf
<1>2. t - SendCapWindow \in Int
  BY ChallengeConstants DEF ChallengeConstants
<1>3. {c \in RowsOf(p) : verifications[c].sentAt >= t - SendCapWindow} = {}
  BY <1>1, <1>2
<1>4. CountSendsSince(p, t - SendCapWindow) = 0
  BY <1>3, NoSends
<1> QED
  BY <1>4, ChallengeConstants DEF CapReachedAt, ChallengeConstants

-----------------------------------------------------------------------------
(* Every handler keeps the times of the row it writes in place. *)

LEMMA SentFits ==
    ASSUME NEW v \in Verification, NEW t \in Nat, v.lockedUntil = NoTime
    PROVE  TimesFit(RegisterSend(v, t), t)
<1>1. RegisterSend(v, t).sentAt = t
  BY DEF RegisterSend, Verification
<1> QED
  BY <1>1, RegisterSendRow DEF TimesFit

LEMMA LockFits ==
    ASSUME NEW v \in Verification, NEW t \in Nat, v.sentAt <= t
    PROVE  TimesFit(Lock(v, t), t)
<1>1. Lock(v, t).sentAt = v.sentAt /\ v.sentAt \in Nat
  BY DEF Lock, Verification
<1>2. Lock(v, t).lockedUntil = t + LockoutDuration
  BY LockRow
<1> QED
  BY <1>1, <1>2, ChallengeConstants DEF TimesFit, ChallengeConstants

LEMMA FailureFits ==
    ASSUME NEW v \in Verification, NEW t \in Nat, TimesFit(v, t)
    PROVE  TimesFit(RegisterFailure(v, t), t)
<1> DEFINE failed == [v EXCEPT !.failedAttempts = @ + 1]
<1>1. /\ failed \in Verification /\ failed.sentAt = v.sentAt
      /\ failed.lockedUntil = v.lockedUntil
  BY DEF Verification
<1>2. TimesFit(failed, t) /\ failed.sentAt <= t
  BY <1>1 DEF TimesFit
<1>3. TimesFit(Lock(failed, t), t)
  BY <1>1, <1>2, LockFits
<1> QED
  BY <1>2, <1>3 DEF RegisterFailure

LEMMA VerifiedOrUnlockedFits ==
    ASSUME NEW v \in Verification, NEW t, TimesFit(v, t)
    PROVE  TimesFit(MarkVerified(v), t) /\ TimesFit(Unlock(v), t)
BY DEF TimesFit, MarkVerified, Unlock, Verification, NoTime

LEMMA OneRowFits ==
    ASSUME Recent, NEW c, NEW row, now' = now, TimesFit(row, now),
           verifications' = Put(verifications, c, row)
    PROVE  Recent'
BY DEF Recent, Put

LEMMA RequestFits ==
    ASSUME IInv, Recent, NEW p \in Phones, NEW intent \in Intents,
           NEW subject \in Subjects \cup {None}, RequestVerification(p, intent, subject)
    PROVE  Recent'
<1>1. now' = now /\ now \in Nat
  BY NowNat DEF RequestVerification, OpenChallenge, IInv
<1>2. CASE SendNewChallenge(p, intent, subject)
  <2> DEFINE fresh == [phone |-> p, intent |-> intent, subject |-> subject,
                       sentAt |-> 0, expiresAt |-> 0, failedAttempts |-> 0,
                       sendsInWindow |-> 0, lockedUntil |-> NoTime,
                       status |-> "pending"]
  <2>1. PICK c \in Challenges :
          verifications' = Put(verifications, c, RegisterSend(fresh, now))
    BY <1>2 DEF SendNewChallenge
  <2>2. fresh \in Verification /\ fresh.lockedUntil = NoTime
    BY DEF Verification, Instant, Statuses
  <2>3. TimesFit(RegisterSend(fresh, now), now)
    BY <1>1, <2>2, SentFits
  <2> QED
    BY <1>1, <2>1, <2>3, OneRowFits
<1>3. ASSUME NEW c \in LatestRows(p), LockLatest(c) PROVE Recent'
  <2>1. verifications[c] \in Verification /\ TimesFit(verifications[c], now)
    BY DEF IInv, TypeOK, Recent, LatestRows, RowsOf
  <2>2. TimesFit(Lock(verifications[c], now), now)
    BY <1>1, <2>1, LockFits DEF TimesFit
  <2> QED
    BY <1>1, <1>3, <2>2, OneRowFits DEF LockLatest
<1> QED
  BY <1>2, <1>3 DEF RequestVerification, OpenChallenge

LEMMA ChallengeFits ==
    ASSUME IInv, Recent, NEW c \in DOMAIN verifications,
           \/ ResendVerification(c) \/ ConfirmWrong(c)
           \/ ConfirmSignup(c) \/ ConfirmSignin(c)
    PROVE  Recent'
<1> DEFINE v == verifications[c]
<1>1. now \in Nat /\ v \in Verification /\ TimesFit(v, now)
  BY NowNat DEF IInv, TypeOK, Recent
<1>2. TimesFit(Lock(v, now), now)
  BY <1>1, LockFits DEF TimesFit
<1>3. CASE ResendVerification(c)
  <2>1. now' = now
    BY <1>3 DEF ResendVerification
  <2>2. CASE LockLatest(c)
    BY <1>2, <2>1, <2>2, OneRowFits DEF LockLatest
  <2>3. CASE verifications' = Put(verifications, c, RegisterSend(v, now))
    <3>1. v.lockedUntil = NoTime
      BY <1>3, ConfirmableUnlocked DEF ResendVerification, Resendable, IInv
    <3> QED
      BY <1>1, <2>1, <2>3, <3>1, SentFits, OneRowFits
  <2> QED
    BY <1>3, <2>2, <2>3 DEF ResendVerification
<1>4. CASE ConfirmWrong(c)
  BY <1>1, <1>4, FailureFits, OneRowFits DEF ConfirmWrong
<1>5. CASE ConfirmSignup(c) \/ ConfirmSignin(c)
  <2>1. now' = now /\ verifications' = Put(verifications, c, MarkVerified(v))
    BY <1>5 DEF ConfirmSignup, ConfirmSignin
  <2> QED
    BY <1>1, <2>1, VerifiedOrUnlockedFits, OneRowFits
<1> QED
  BY <1>3, <1>4, <1>5

LEMMA NextRecent == IInv /\ Recent /\ [Next]_vars => Recent'
<1> SUFFICES ASSUME IInv, Recent, [Next]_vars PROVE Recent'
  OBVIOUS
<1>1. CASE UNCHANGED <<now, verifications>>
  BY <1>1 DEF Recent, TimesFit
<1>2. CASE Tick
  <2>1. now \in Nat /\ now' = now + 1 /\ verifications' = verifications
    BY <1>2, NowNat DEF Tick, IInv
  <2>2. ASSUME NEW c \in DOMAIN verifications PROVE TimesFit(verifications[c], now + 1)
    <3>1. verifications[c] \in Verification /\ TimesFit(verifications[c], now)
      BY DEF IInv, TypeOK, Recent
    <3> QED
      BY <2>1, <3>1, ChallengeConstants
         DEF TimesFit, Verification, Instant, NoTime, ChallengeConstants
  <2> QED
    BY <2>1, <2>2 DEF Recent
<1>3. ASSUME NEW a \in DOMAIN accounts, ClearLockout(a) PROVE Recent'
  <2>1. PICK c \in DOMAIN verifications :
          verifications' = Put(verifications, c, Unlock(verifications[c]))
    BY <1>3 DEF ClearLockout, LatestRows, RowsOf
  <2>2. TimesFit(Unlock(verifications[c]), now)
    BY VerifiedOrUnlockedFits DEF IInv, TypeOK, Recent
  <2>3. now' = now
    BY <1>3 DEF ClearLockout
  <2> QED
    BY <2>1, <2>2, <2>3, OneRowFits
<1>4. ASSUME NEW subject \in Subjects, GoogleExchange(subject) PROVE Recent'
  BY <1>1, <1>4 DEF GoogleExchange
<1> QED
  BY <1>1, <1>2, <1>3, <1>4, RequestFits, ChallengeFits DEF Next, ClientRequest, AdminRequest, vars

LEMMA RecentInvariance == Spec => [](IInv /\ Recent)
<1>1. Init => Recent
  BY DEF Init, Recent
<1> QED
  BY <1>1, NextRecent, Invariance, PTL DEF Spec

-----------------------------------------------------------------------------
(* The theorems. *)

LEMMA QuietBounds ==
    /\ Quiet \in Nat /\ LockoutDuration <= Quiet
    /\ ResendCooldown <= Quiet /\ SendCapWindow < Quiet
<1> DEFINE S == {LockoutDuration, ResendCooldown, SendCapWindow + 1}
<1>1. S \subseteq Nat
  BY ChallengeConstants DEF ChallengeConstants
<1>2. \E x \in S : \A y \in S : x >= y
  BY ChallengeConstants DEF ChallengeConstants
<1>3. Quiet \in S /\ \A y \in S : Quiet >= y
  BY <1>2 DEF Quiet, Max
<1> QED
  BY <1>1, <1>3, ChallengeConstants DEF ChallengeConstants

LEMMA RecentRow ==
    ASSUME IInv, Recent, NEW c \in DOMAIN verifications
    PROVE  verifications[c] \in Verification /\ TimesFit(verifications[c], now)
BY DEF IInv, TypeOK, Recent

LEMMA RecoversFromRecent ==
    ASSUME IInv, Recent, NEW p \in Phones
    PROVE  /\ \A c \in LatestRows(p) : Requestable(verifications[c], now + Quiet)
           /\ ~CapReachedAt(p, now + Quiet)
<1>1. now \in Nat /\ now + Quiet \in Nat
  BY NowNat, QuietBounds DEF IInv
<1>2. ASSUME NEW c \in RowsOf(p)
      PROVE  verifications[c] \in Verification /\ TimesFit(verifications[c], now)
  BY RecentRow DEF RowsOf
<1>3. \A c \in RowsOf(p) : Requestable(verifications[c], now + Quiet)
  BY <1>1, <1>2, QuietBounds, ChallengeConstants
     DEF TimesFit, Requestable, IsLocked, ResendReady, Verification, Instant,
         NoTime, ChallengeConstants
<1>4. ~CapReachedAt(p, now + Quiet)
  <2> DEFINE t == now + Quiet
  <2>1. t \in Nat
    BY <1>1
  <2>2. \A c \in RowsOf(p) : verifications[c].sentAt < t - SendCapWindow
    BY <1>1, <1>2, QuietBounds, ChallengeConstants
       DEF TimesFit, Verification, ChallengeConstants
  <2> HIDE DEF t
  <2>3. ~CapReachedAt(p, t)
    BY <2>1, <2>2, WindowPassed DEF IInv
  <2> QED
    BY <2>3 DEF t
<1> QED
  BY <1>3, <1>4 DEF LatestRows

LEMMA LapsedFromRecent ==
    ASSUME IInv, Recent, SendCapWindow <= LockoutDuration,
           NEW p \in Phones, NEW c \in LatestRows(p),
           verifications[c].lockedUntil # NoTime, now > verifications[c].lockedUntil
    PROVE  ~CapReached(p)
<1>1. now \in Nat
  BY NowNat DEF IInv
<1>2. verifications[c] \in Verification /\ TimesFit(verifications[c], now)
  BY RecentRow DEF LatestRows, RowsOf
<1>3. verifications[c].sentAt < now - SendCapWindow
  BY <1>1, <1>2, ChallengeConstants
     DEF TimesFit, Verification, Instant, NoTime, ChallengeConstants
<1>4. ASSUME NEW d \in RowsOf(p) PROVE verifications[d].sentAt < now - SendCapWindow
  <2>1. /\ verifications[d].sentAt <= verifications[c].sentAt
        /\ verifications[d] \in Verification
    BY RecentRow DEF LatestRows, RowsOf
  <2> QED
    BY <1>1, <1>2, <1>3, <2>1, ChallengeConstants DEF Verification, ChallengeConstants
<1> QED
  BY <1>1, <1>4, WindowPassed DEF CapReached, IInv

\* No sequence of requests, wrong codes, resends, waits and clears shuts a phone
\* out for good: left alone for Quiet, it may ask for a code again
\* (service.go:145-181; domain.go:224-244).
THEOREM PhonesRecover == Spec => []PhoneRecovers
<1>1. IInv /\ Recent => PhoneRecovers
  BY RecoversFromRecent DEF PhoneRecovers
<1> QED
  BY <1>1, RecentInvariance, PTL

\* A lapsed lock frees its phone, as long as a lock is not shorter than the send
\* window: both are 30 minutes in domain.go:66-76 (service.go:165-179).
THEOREM LapsedLocksFree ==
    ASSUME SendCapWindow <= LockoutDuration
    PROVE  Spec => []LapsedLockFreesPhone
<1>1. IInv /\ Recent => LapsedLockFreesPhone
  BY LapsedFromRecent DEF LapsedLockFreesPhone
<1> QED
  BY <1>1, RecentInvariance, PTL

-----------------------------------------------------------------------------
(* The send cap counts codes that reached a phone: the sum over its rows,   *)
(* as a sum of the table vs, against its deliveries.                        *)

WindowRows(vs, p, since) == {c \in DOMAIN vs : vs[c].phone = p /\ vs[c].sentAt >= since}

Sends(vs) == [c \in DOMAIN vs |-> vs[c].sendsInWindow]

Counted(vs, p, since) == Total(Sends(vs), WindowRows(vs, p, since))

\* A phone none of whose challenges was cleared got no more codes since an
\* instant than the rows sent since then count.
SendsCounted ==
    /\ IsFiniteSet(DOMAIN verifications)
    /\ \A p \in Phones, since \in Int :
        Uncleared(p) => DeliveredSince(p, since) <= Counted(verifications, p, since)

\* What CountSendsSince computes.
LEMMA CountIsCounted ==
    ASSUME IsFiniteSet(DOMAIN verifications), NEW p, NEW since
    PROVE  CountSendsSince(p, since) = Counted(verifications, p, since)
<1> DEFINE S == {c \in RowsOf(p) : verifications[c].sentAt >= since}
           g == Sends(verifications)
<1>1. S = WindowRows(verifications, p, since) /\ S \subseteq DOMAIN verifications
  BY DEF RowsOf, WindowRows
<1>2. IsFiniteSet(S)
  BY <1>1, FS_Subset
<1>3. PICK f : IsFold(f, g, S)
  BY <1>2, SumExists
<1> DEFINE fold(r) == [s \in SUBSET S |->
                         IF s = {} THEN 0
                         ELSE verifications[Pick(s)].sendsInWindow + r[s \ {Pick(s)}]]
           total == CHOOSE r : r = fold(r)
<1>4. ASSUME NEW s \in SUBSET S, s # {}
      PROVE  g[Pick(s)] = verifications[Pick(s)].sendsInWindow
  BY <1>1, <1>4, PickOne DEF Sends
<1>5. \E r : r = fold(r)
  <2>1. f = [s \in SUBSET S |-> f[s]]
    BY <1>3 DEF IsFold
  <2>2. \A s \in SUBSET S : f[s] = Step(f, g, s)
    BY <1>3 DEF IsFold
  <2>3. \A s \in SUBSET S : f[s] = fold(f)[s]
    BY <1>4, <2>2 DEF Step
  <2>4. f = fold(f)
    BY <2>1, <2>3
  <2> HIDE DEF fold
  <2> QED
    BY <2>4
<1>6. total = fold(total)
  BY <1>5
<1>7. CountSendsSince(p, since) = total[S]
  BY DEF CountSendsSince, MapThenSumSet, MapThenFoldSet, Pick
<1> HIDE DEF total
<1>8. Adds(total, g, S)
  BY <1>4, <1>6 DEF Adds, Step
<1> QED
  BY <1>1, <1>2, <1>7, <1>8, TotalIs DEF Counted

\* Table vs holds finitely many rows, each of the row type.
Finite(vs) == IsFiniteSet(DOMAIN vs) /\ \A c \in DOMAIN vs : vs[c] \in Verification

LEMMA WindowFinite ==
    ASSUME NEW vs, Finite(vs), NEW p, NEW since
    PROVE  /\ IsFiniteSet(WindowRows(vs, p, since))
           /\ Counts(Sends(vs), WindowRows(vs, p, since))
           /\ Counted(vs, p, since) \in Nat
<1>1. WindowRows(vs, p, since) \subseteq DOMAIN vs
  BY DEF WindowRows
<1>2. IsFiniteSet(WindowRows(vs, p, since))
  BY <1>1, FS_Subset DEF Finite
<1>3. Counts(Sends(vs), WindowRows(vs, p, since))
  BY <1>1 DEF Counts, Sends, Finite, Verification
<1> QED
  BY <1>2, <1>3, TotalNatural DEF Counted

\* A step that takes no row out of the window and lowers no counter.
LEMMA CountedGrows ==
    ASSUME NEW vs, Finite(vs), NEW ws, Finite(ws), NEW p, NEW since,
           \A c \in WindowRows(vs, p, since) :
               /\ c \in WindowRows(ws, p, since)
               /\ vs[c].sendsInWindow <= ws[c].sendsInWindow
    PROVE  Counted(vs, p, since) <= Counted(ws, p, since)
<1>1. \A c \in WindowRows(vs, p, since) : Sends(vs)[c] <= Sends(ws)[c]
  BY DEF Sends, WindowRows
<1>2. WindowRows(vs, p, since) \in SUBSET WindowRows(ws, p, since)
  OBVIOUS
<1> QED
  BY <1>1, <1>2, WindowFinite, TotalGrows DEF Counted

\* A step that sends: row c is one higher, or new.
LEMMA CountedSend ==
    ASSUME NEW vs, Finite(vs), NEW ws, Finite(ws), NEW p, NEW since,
           NEW c \in WindowRows(ws, p, since),
           ws[c].sendsInWindow >= 1,
           c \in DOMAIN vs => ws[c].sendsInWindow = vs[c].sendsInWindow + 1,
           \A d \in WindowRows(vs, p, since) \ {c} :
               d \in WindowRows(ws, p, since) /\ vs[d] = ws[d]
    PROVE  Counted(vs, p, since) + 1 <= Counted(ws, p, since)
<1> DEFINE V == WindowRows(vs, p, since)
           W == WindowRows(ws, p, since)
<1>1. /\ IsFiniteSet(V) /\ IsFiniteSet(W) /\ Counts(Sends(vs), V) /\ Counts(Sends(ws), W)
  BY WindowFinite
<1>2. /\ IsFiniteSet(V \ {c}) /\ Counts(Sends(vs), V \ {c})
      /\ IsFiniteSet(W \ {c}) /\ Counts(Sends(ws), W \ {c})
  BY <1>1, FS_RemoveElement DEF Counts
<1>3. /\ V \ {c} \in SUBSET (W \ {c})
      /\ \A d \in V \ {c} : Sends(vs)[d] <= Sends(ws)[d]
  <2>1. \A d \in V \ {c} : Sends(vs)[d] = Sends(ws)[d] /\ Sends(vs)[d] \in Nat
    BY <1>1 DEF Sends, WindowRows, Counts
  <2> QED
    BY <2>1
<1> DEFINE less == Total(Sends(vs), V \ {c})
           more == Total(Sends(ws), W \ {c})
<1>4. less \in Nat /\ more \in Nat /\ less <= more
  BY <1>2, <1>3, TotalNatural, TotalGrows
<1>5. Total(Sends(ws), W) = ws[c].sendsInWindow + more /\ ws[c].sendsInWindow \in Nat
  <2>1. Sends(ws)[c] = ws[c].sendsInWindow /\ ws[c].sendsInWindow \in Nat
    BY DEF Sends, WindowRows, Finite, Verification
  <2>2. Total(Sends(ws), W) = Sends(ws)[c] + Total(Sends(ws), W \ {c})
    BY <1>1, TotalWithout
  <2> QED
    BY <2>1, <2>2
<1>6. CASE c \in V
  <2>1. Sends(vs)[c] = vs[c].sendsInWindow /\ vs[c].sendsInWindow \in Nat /\ c \in DOMAIN vs
    BY <1>6 DEF Sends, WindowRows, Finite, Verification
  <2>2. Total(Sends(vs), V) = Sends(vs)[c] + Total(Sends(vs), V \ {c})
    BY <1>1, <1>6, TotalWithout
  <2> HIDE DEF V, W, less, more
  <2> QED
    BY <1>4, <1>5, <2>1, <2>2 DEF Counted, V, W, less
<1>7. CASE c \notin V
  <2>1. V \ {c} = V
    BY <1>7
  <2>2. Total(Sends(vs), V) = less
    BY <2>1
  <2> HIDE DEF V, W, less, more
  <2> QED
    BY <1>4, <1>5, <2>2 DEF Counted, V, W
<1> QED
  BY <1>6, <1>7

\* The codes of a phone's deliveries ds that came at an instant or later.
Arrived(ds, since) == Cardinality({i \in DOMAIN ds : ds[i] >= since})

LEMMA ArrivedNat ==
    ASSUME NEW ds \in Seq(Nat), NEW since PROVE Arrived(ds, since) \in Nat
<1>1. IsFiniteSet(1..Len(ds)) /\ DOMAIN ds = 1..Len(ds)
  BY FS_Interval
<1>2. IsFiniteSet({i \in DOMAIN ds : ds[i] >= since})
  BY <1>1, FS_Subset
<1> QED
  BY <1>2, FS_CardinalityType DEF Arrived

LEMMA ArrivedMore ==
    ASSUME NEW ds \in Seq(Nat), NEW t \in Nat, NEW since \in Int
    PROVE  Arrived(Append(ds, t), since)
             = Arrived(ds, since) + (IF t >= since THEN 1 ELSE 0)
<1> DEFINE old == {i \in DOMAIN ds : ds[i] >= since}
           new == {i \in DOMAIN Append(ds, t) : Append(ds, t)[i] >= since}
           n == Len(ds) + 1
<1>1. /\ DOMAIN ds = 1..Len(ds) /\ DOMAIN Append(ds, t) = 1..n /\ Len(ds) \in Nat
      /\ \A i \in 1..Len(ds) : Append(ds, t)[i] = ds[i]
      /\ Append(ds, t)[n] = t
  OBVIOUS
<1>2. IsFiniteSet(old) /\ n \notin old /\ Cardinality(old) \in Nat
  <2>1. old \subseteq 1..Len(ds) /\ IsFiniteSet(1..Len(ds))
    BY <1>1, FS_Interval
  <2>2. IsFiniteSet(old)
    BY <2>1, FS_Subset
  <2> QED
    BY <1>1, <2>1, <2>2, FS_CardinalityType
<1>3. CASE t >= since
  <2>1. new = old \cup {n}
    BY <1>1, <1>3
  <2> QED
    BY <1>2, <1>3, <2>1, FS_AddElement DEF Arrived
<1>4. CASE ~(t >= since)
  <2>1. new = old
    BY <1>1, <1>4
  <2>2. Arrived(Append(ds, t), since) = Cardinality(old) /\ Arrived(ds, since) = Cardinality(old)
    BY <2>1 DEF Arrived
  <2> HIDE DEF old
  <2> QED
    BY <1>2, <1>4, <2>2
<1> QED
  BY <1>3, <1>4

-----------------------------------------------------------------------------
(* Every handler keeps the count. *)

LEMMA TableFinite ==
    IInv /\ SendsCounted => Finite(verifications)
BY DEF IInv, TypeOK, SendsCounted, Finite

\* What a step that writes row c leaves of the table.
LEMMA RowWritten ==
    ASSUME IInv, SendsCounted, NEW c \in Challenges, NEW row \in Verification,
           verifications' = Put(verifications, c, row)
    PROVE  /\ Finite(verifications) /\ Finite(verifications')
           /\ DOMAIN verifications' = DOMAIN verifications \cup {c}
           /\ verifications'[c] = row
           /\ \A d \in DOMAIN verifications \ {c} : verifications'[d] = verifications[d]
<1>1. Finite(verifications)
  BY TableFinite
<1> DEFINE ws == Put(verifications, c, row)
<1>2. /\ Finite(ws) /\ DOMAIN ws = DOMAIN verifications \cup {c} /\ ws[c] = row
      /\ \A d \in DOMAIN verifications \ {c} : ws[d] = verifications[d]
  <2>1. DOMAIN ws = DOMAIN verifications \cup {c}
    BY DEF Put
  <2>2. IsFiniteSet(DOMAIN ws)
    BY <1>1, <2>1, FS_AddElement DEF Finite
  <2>3. ws[c] = row /\ \A d \in DOMAIN verifications \ {c} : ws[d] = verifications[d]
    BY DEF Put
  <2> HIDE DEF ws
  <2> QED
    BY <1>1, <2>1, <2>2, <2>3 DEF Finite
<1>3. verifications' = ws
  OBVIOUS
<1> HIDE DEF ws
<1> QED
  BY <1>1, <1>2, <1>3

\* A phone that is not cleared after a step was not before.
LEMMA UnclearedBefore ==
    ASSUME IInv, NEW c \in Challenges, NEW row,
           c \in DOMAIN verifications => row.phone = verifications[c].phone,
           verifications' = Put(verifications, c, row),
           audits' \in [Challenges -> Nat],
           \A d \in Challenges : audits'[d] >= audits[d],
           NEW p, Uncleared(p)'
    PROVE  Uncleared(p)
<1>1. ASSUME NEW d \in RowsOf(p) PROVE d \in RowsOf(p)'
  BY DEF RowsOf, Put
<1>2. ASSUME NEW d \in RowsOf(p) PROVE audits[d] = 0
  <2>1. d \in Challenges /\ audits[d] \in Nat /\ audits'[d] = 0 /\ audits'[d] >= audits[d]
    BY <1>1 DEF Uncleared, RowsOf, IInv, TypeOK
  <2> QED
    BY <2>1
<1> QED
  BY <1>2 DEF Uncleared

\* A step that rewrites a row without a send, or clears it.
LEMMA NoSendStep ==
    ASSUME IInv, SendsCounted, NEW c \in DOMAIN verifications, NEW row \in Verification,
           row.phone = verifications[c].phone, row.sentAt = verifications[c].sentAt,
           \/ row.sendsInWindow = verifications[c].sendsInWindow /\ audits' = audits
           \/ audits' = [audits EXCEPT ![c] = @ + 1],
           verifications' = Put(verifications, c, row), deliveries' = deliveries
    PROVE  SendsCounted'
<1>1. /\ Finite(verifications) /\ Finite(verifications')
      /\ DOMAIN verifications' = DOMAIN verifications
      /\ verifications'[c] = row
      /\ \A d \in DOMAIN verifications \ {c} : verifications'[d] = verifications[d]
  <2>1. c \in Challenges
    BY DEF IInv, TypeOK
  <2>2. DOMAIN verifications \cup {c} = DOMAIN verifications
    OBVIOUS
  <2> QED
    BY <2>1, <2>2, RowWritten
<1>2. /\ c \in Challenges /\ audits \in [Challenges -> Nat]
      /\ audits' \in [Challenges -> Nat]
      /\ \A d \in Challenges : audits'[d] >= audits[d]
  <2>1. c \in Challenges /\ audits \in [Challenges -> Nat]
    BY DEF IInv, TypeOK
  <2>2. audits' = audits \/ audits' = [audits EXCEPT ![c] = @ + 1]
    OBVIOUS
  <2> QED
    BY <2>1, <2>2
<1>3. ASSUME NEW p \in Phones, NEW since \in Int, Uncleared(p)'
      PROVE  DeliveredSince(p, since)' <= Counted(verifications', p, since)
  <2>1. Uncleared(p)
    BY <1>2, <1>3, UnclearedBefore
  <2>2. DeliveredSince(p, since) <= Counted(verifications, p, since)
    BY <2>1 DEF SendsCounted
  <2>3. c \in RowsOf(p)' => row.sendsInWindow = verifications[c].sendsInWindow
    BY <1>2, <1>3 DEF Uncleared
  <2>4. \A d \in WindowRows(verifications, p, since) :
            /\ d \in WindowRows(verifications', p, since)
            /\ verifications[d].sendsInWindow <= verifications'[d].sendsInWindow
    BY <1>1, <2>3 DEF WindowRows, RowsOf, Finite, Verification
  <2>5. Counted(verifications, p, since) <= Counted(verifications', p, since)
    BY <1>1, <2>4, CountedGrows
  <2>6. DeliveredSince(p, since)' = DeliveredSince(p, since)
    BY DEF DeliveredSince
  <2>7. DeliveredSince(p, since) \in Nat
    BY ArrivedNat DEF IInv, TypeOK, DeliveredSince, Arrived
  <2>8. /\ Counted(verifications, p, since) \in Nat
        /\ Counted(verifications', p, since) \in Nat
    BY <1>1, WindowFinite
  <2> QED
    BY <2>2, <2>5, <2>6, <2>7, <2>8
<1> QED
  BY <1>1, <1>3 DEF SendsCounted, Finite

\* A step that sends a code, now, and counts it in row c.
LEMMA SendStep ==
    ASSUME IInv, Recent, SendsCounted, NEW c \in Challenges, NEW row \in Verification,
           c \in DOMAIN verifications =>
               /\ row.phone = verifications[c].phone
               /\ row.sendsInWindow = verifications[c].sendsInWindow + 1,
           row.sentAt = now, row.sendsInWindow >= 1,
           verifications' = Put(verifications, c, row), audits' = audits,
           deliveries' = [deliveries EXCEPT ![row.phone] = Append(@, now)]
    PROVE  SendsCounted'
<1>1. /\ Finite(verifications) /\ Finite(verifications')
      /\ DOMAIN verifications' = DOMAIN verifications \cup {c}
      /\ verifications'[c] = row
      /\ \A d \in DOMAIN verifications \ {c} : verifications'[d] = verifications[d]
  BY RowWritten
<1>2. /\ audits \in [Challenges -> Nat] /\ audits' \in [Challenges -> Nat]
      /\ \A d \in Challenges : audits'[d] >= audits[d]
      /\ now \in Nat /\ row.phone \in Phones
  BY NowNat DEF IInv, TypeOK, Verification
<1>3. ASSUME NEW p \in Phones, NEW since \in Int, Uncleared(p)'
      PROVE  DeliveredSince(p, since)' <= Counted(verifications', p, since)
  <2> DEFINE W == Counted(verifications, p, since)
             W2 == Counted(verifications', p, since)
             D == Arrived(deliveries[p], since)
             D2 == Arrived(deliveries'[p], since)
  <2>1. Uncleared(p)
    BY <1>2, <1>3, UnclearedBefore
  <2>2. D <= W
    BY <2>1 DEF SendsCounted, DeliveredSince, Arrived
  <2>3. D \in Nat /\ W \in Nat /\ W2 \in Nat
    BY <1>1, ArrivedNat, WindowFinite DEF IInv, TypeOK
  <2>4. CASE p = row.phone /\ now >= since
    <3>1. D2 = D + 1
      <4>1. deliveries[p] \in Seq(Nat) /\ deliveries'[p] = Append(deliveries[p], now)
        BY <2>4 DEF IInv, TypeOK
      <4> QED
        BY <1>2, <2>4, <4>1, ArrivedMore
    <3>2. c \in WindowRows(verifications', p, since)
      BY <1>1, <2>4 DEF WindowRows
    <3>3. \A d \in WindowRows(verifications, p, since) \ {c} :
              /\ d \in WindowRows(verifications', p, since)
              /\ verifications[d] = verifications'[d]
      BY <1>1 DEF WindowRows
    <3>4. /\ verifications'[c].sendsInWindow >= 1
          /\ c \in DOMAIN verifications =>
                verifications'[c].sendsInWindow = verifications[c].sendsInWindow + 1
      BY <1>1
    <3>5. W + 1 <= W2
      BY <1>1, <3>2, <3>3, <3>4, CountedSend
    <3>6. DeliveredSince(p, since)' = D2
      BY DEF DeliveredSince, Arrived
    <3> HIDE DEF W, W2, D, D2
    <3> QED
      BY <2>2, <2>3, <3>1, <3>5, <3>6 DEF W2
  <2>5. CASE ~(p = row.phone /\ now >= since)
    <3>1. D2 = D
      <4>1. CASE p = row.phone
        <5>1. deliveries[p] \in Seq(Nat) /\ deliveries'[p] = Append(deliveries[p], now)
          BY <4>1 DEF IInv, TypeOK
        <5>2. Arrived(deliveries'[p], since) = Arrived(deliveries[p], since) + 0
          BY <1>2, <2>5, <4>1, <5>1, ArrivedMore
        <5> QED
          BY <2>3, <5>2
      <4>2. CASE p # row.phone
        <5>1. deliveries'[p] = deliveries[p]
          BY <4>2 DEF IInv, TypeOK
        <5> QED
          BY <5>1
      <4> QED
        BY <4>1, <4>2
    <3>2. c \notin WindowRows(verifications, p, since)
      <4>1. ASSUME c \in WindowRows(verifications, p, since) PROVE FALSE
        <5>1. /\ c \in DOMAIN verifications /\ verifications[c].sentAt >= since
              /\ verifications[c].phone = p
          BY <4>1 DEF WindowRows
        <5>2. verifications[c].sentAt <= now /\ verifications[c].sentAt \in Nat
          BY <5>1 DEF Recent, TimesFit, IInv, TypeOK, Verification
        <5> QED
          BY <1>2, <2>5, <5>1, <5>2
      <4> QED
        BY <4>1
    <3>3. \A d \in WindowRows(verifications, p, since) :
              /\ d \in WindowRows(verifications', p, since)
              /\ verifications[d].sendsInWindow <= verifications'[d].sendsInWindow
      BY <1>1, <3>2 DEF WindowRows, Finite, Verification
    <3>4. W <= W2
      BY <1>1, <3>3, CountedGrows
    <3>6. DeliveredSince(p, since)' = D2
      BY DEF DeliveredSince, Arrived
    <3> HIDE DEF W, W2, D, D2
    <3> QED
      BY <2>2, <2>3, <3>1, <3>4, <3>6 DEF W2
  <2> QED
    BY <2>4, <2>5
<1> QED
  BY <1>1, <1>3 DEF SendsCounted, Finite

LEMMA RequestCounts ==
    ASSUME IInv, Recent, SendsCounted, NEW p \in Phones, NEW intent \in Intents,
           NEW subject \in Subjects \cup {None}, RequestVerification(p, intent, subject)
    PROVE  SendsCounted'
<1>1. audits' = audits
  BY DEF RequestVerification, OpenChallenge
<1>2. CASE SendNewChallenge(p, intent, subject)
  <2> DEFINE fresh == [phone |-> p, intent |-> intent, subject |-> subject,
                       sentAt |-> 0, expiresAt |-> 0, failedAttempts |-> 0,
                       sendsInWindow |-> 0, lockedUntil |-> NoTime,
                       status |-> "pending"]
             row == RegisterSend(fresh, now)
  <2>1. PICK c \in Challenges \ DOMAIN verifications :
          /\ verifications' = Put(verifications, c, row)
          /\ deliveries' = [deliveries EXCEPT ![p] = Append(@, now)]
    BY <1>2 DEF SendNewChallenge
  <2>2. fresh \in Verification
    BY DEF Verification, Instant, Statuses
  <2>3. row \in Verification
    BY <2>2, NowNat, RegisterSendRow DEF IInv
  <2>4. row.phone = p /\ row.sentAt = now /\ row.sendsInWindow = 1
    BY DEF RegisterSend
  <2> HIDE DEF row
  <2>5. /\ c \in Challenges /\ c \notin DOMAIN verifications
        /\ verifications' = Put(verifications, c, row)
        /\ deliveries' = [deliveries EXCEPT ![row.phone] = Append(@, now)]
        /\ row.sentAt = now /\ row.sendsInWindow >= 1
    BY <2>1, <2>4
  <2> QED
    BY <1>1, <2>3, <2>5, SendStep
<1>3. ASSUME NEW c \in LatestRows(p), LockLatest(c) PROVE SendsCounted'
  <2>1. c \in DOMAIN verifications /\ verifications[c] \in Verification /\ now \in Nat
    BY NowNat DEF LatestRows, RowsOf, IInv, TypeOK
  <2>2. /\ Lock(verifications[c], now) \in Verification
        /\ Lock(verifications[c], now).phone = verifications[c].phone
        /\ Lock(verifications[c], now).sentAt = verifications[c].sentAt
        /\ Lock(verifications[c], now).sendsInWindow = verifications[c].sendsInWindow
    BY <2>1, LockRow DEF Lock, Verification
  <2> QED
    BY <1>1, <1>3, <2>1, <2>2, NoSendStep DEF LockLatest
<1> QED
  BY <1>2, <1>3 DEF RequestVerification, OpenChallenge

LEMMA ChallengeCounts ==
    ASSUME IInv, Recent, SendsCounted, NEW c \in DOMAIN verifications,
           \/ ResendVerification(c) \/ ConfirmWrong(c)
           \/ ConfirmSignup(c) \/ ConfirmSignin(c)
    PROVE  SendsCounted'
<1> DEFINE v == verifications[c]
<1>1. c \in Challenges /\ now \in Nat /\ v \in Verification
  BY NowNat DEF IInv, TypeOK
<1>2. audits' = audits
  BY DEF ResendVerification, ConfirmWrong, ConfirmSignup, ConfirmSignin
<1>3. CASE LockLatest(c)
  <2>1. /\ Lock(v, now) \in Verification /\ Lock(v, now).phone = v.phone
        /\ Lock(v, now).sentAt = v.sentAt
        /\ Lock(v, now).sendsInWindow = v.sendsInWindow
    BY <1>1, LockRow DEF Lock, Verification
  <2> QED
    BY <1>2, <1>3, <2>1, NoSendStep DEF LockLatest
<1>4. ASSUME verifications' = Put(verifications, c, RegisterSend(v, now)),
             deliveries' = [deliveries EXCEPT ![v.phone] = Append(@, now)]
      PROVE  SendsCounted'
  <2> DEFINE row == RegisterSend(v, now)
  <2>1. /\ row \in Verification /\ row.phone = v.phone /\ row.sentAt = now
        /\ row.sendsInWindow = v.sendsInWindow + 1 /\ v.sendsInWindow \in Nat
    BY <1>1, RegisterSendRow DEF RegisterSend, Verification
  <2> HIDE DEF row
  <2>2. /\ verifications' = Put(verifications, c, row)
        /\ deliveries' = [deliveries EXCEPT ![row.phone] = Append(@, now)]
        /\ row.sendsInWindow >= 1
    BY <1>4, <2>1 DEF row
  <2> QED
    BY <1>1, <1>2, <2>1, <2>2, SendStep
<1>5. CASE ConfirmWrong(c)
  <2> DEFINE row == RegisterFailure(v, now)
  <2>1. /\ row \in Verification /\ row.phone = v.phone /\ row.sentAt = v.sentAt
        /\ row.sendsInWindow = v.sendsInWindow
    BY <1>1, RegisterFailureRow DEF RegisterFailure, Lock, Verification
  <2> HIDE DEF row
  <2>2. verifications' = Put(verifications, c, row) /\ deliveries' = deliveries
    BY <1>5 DEF ConfirmWrong, row
  <2> QED
    BY <1>2, <2>1, <2>2, NoSendStep
<1>6. CASE ConfirmSignup(c) \/ ConfirmSignin(c)
  <2> DEFINE row == MarkVerified(v)
  <2>1. /\ row \in Verification /\ row.phone = v.phone /\ row.sentAt = v.sentAt
        /\ row.sendsInWindow = v.sendsInWindow
    BY <1>1, MarkVerifiedRow DEF MarkVerified, Verification
  <2> HIDE DEF row
  <2>2. verifications' = Put(verifications, c, row) /\ deliveries' = deliveries
    BY <1>6 DEF ConfirmSignup, ConfirmSignin, row
  <2> QED
    BY <1>2, <2>1, <2>2, NoSendStep
<1> QED
  BY <1>3, <1>4, <1>5, <1>6 DEF ResendVerification

LEMMA ClearCounts ==
    ASSUME IInv, SendsCounted, NEW a \in DOMAIN accounts, ClearLockout(a)
    PROVE  SendsCounted'
<1>1. PICK c \in LatestRows(accounts[a].phone) :
        /\ verifications' = Put(verifications, c, Unlock(verifications[c]))
        /\ audits' = [audits EXCEPT ![c] = @ + 1]
  BY DEF ClearLockout
<1>2. c \in DOMAIN verifications /\ verifications[c] \in Verification
  BY DEF LatestRows, RowsOf, IInv, TypeOK
<1> DEFINE row == Unlock(verifications[c])
<1>3. /\ row \in Verification /\ row.phone = verifications[c].phone
      /\ row.sentAt = verifications[c].sentAt
  BY <1>2, UnlockRow DEF Unlock, Verification
<1> HIDE DEF row
<1>4. deliveries' = deliveries /\ verifications' = Put(verifications, c, row)
  BY <1>1 DEF ClearLockout, row
<1> QED
  BY <1>1, <1>2, <1>3, <1>4, NoSendStep

LEMMA NextCounts == IInv /\ Recent /\ SendsCounted /\ [Next]_vars => SendsCounted'
<1> SUFFICES ASSUME IInv, Recent, SendsCounted, [Next]_vars PROVE SendsCounted'
  OBVIOUS
<1>1. ASSUME UNCHANGED <<verifications, audits, deliveries>> PROVE SendsCounted'
  BY <1>1 DEF SendsCounted, Uncleared, RowsOf, DeliveredSince
<1>2. CASE Tick
  BY <1>1, <1>2 DEF Tick
<1>3. ASSUME NEW subject \in Subjects, GoogleExchange(subject) PROVE SendsCounted'
  BY <1>1, <1>3 DEF GoogleExchange
<1>4. CASE UNCHANGED vars
  BY <1>1, <1>4 DEF vars
<1> QED
  BY <1>2, <1>3, <1>4, RequestCounts, ChallengeCounts, ClearCounts DEF Next, ClientRequest, AdminRequest

LEMMA InitCounts == Init => SendsCounted
<1> SUFFICES ASSUME Init PROVE SendsCounted
  OBVIOUS
<1>1. IsFiniteSet(DOMAIN verifications) /\ Finite(verifications)
  BY FS_EmptySet DEF Init, Finite
<1>2. ASSUME NEW p \in Phones, NEW since \in Int
      PROVE  DeliveredSince(p, since) <= Counted(verifications, p, since)
  <2>1. {i \in DOMAIN deliveries[p] : deliveries[p][i] >= since} = {}
    BY DEF Init
  <2>2. DeliveredSince(p, since) = 0
    BY <2>1, FS_EmptySet DEF DeliveredSince
  <2>3. Counted(verifications, p, since) \in Nat
    BY <1>1, WindowFinite
  <2> QED
    BY <2>2, <2>3
<1> QED
  BY <1>1, <1>2 DEF SendsCounted

LEMMA CountsInvariance == Spec => [](IInv /\ Recent /\ SendsCounted)
BY InitCounts, NextCounts, RecentInvariance, PTL DEF Spec

-----------------------------------------------------------------------------
(* What a request then sees. *)

\* A phone with challenges has a latest one.
LEMMA SomeLatest ==
    ASSUME IInv, Recent, NEW p \in Phones, RowsOf(p) # {}
    PROVE  LatestRows(p) # {}
<1> DEFINE age(c) == now - verifications[c].sentAt
           Ages == {age(c) : c \in RowsOf(p)}
<1>1. ASSUME NEW c \in RowsOf(p)
      PROVE  now \in Nat /\ verifications[c].sentAt \in Nat /\ age(c) \in Nat
  <2>1. c \in DOMAIN verifications /\ now \in Nat
    BY NowNat DEF RowsOf, IInv
  <2>2. verifications[c] \in Verification /\ TimesFit(verifications[c], now)
    BY <2>1, RecentRow
  <2> QED
    BY <2>1, <2>2 DEF Verification, TimesFit
<1>2. Ages \in SUBSET Nat /\ Ages # {}
  BY <1>1
<1>3. PICK n \in Ages : \A m \in Ages : ~(m < n)
  <2> HIDE DEF Ages
  <2> QED
    BY <1>2, LeastNumber
<1>4. PICK c \in RowsOf(p) : n = age(c)
  BY <1>3
<1>5. ASSUME NEW d \in RowsOf(p)
      PROVE  verifications[d].sentAt <= verifications[c].sentAt
  <2>1. ~(age(d) < age(c))
    BY <1>3, <1>4
  <2> QED
    BY <1>1, <2>1
<1> QED
  BY <1>5 DEF LatestRows

\* The handler opens a challenge only for a phone whose count is below the cap.
LEMMA OpensBelowCap ==
    ASSUME IInv, Recent, SendsCounted, NEW p \in Phones, NEW intent \in Intents,
           NEW subject \in Subjects \cup {None}, RequestVerification(p, intent, subject),
           DOMAIN verifications' # DOMAIN verifications
    PROVE  /\ SendNewChallenge(p, intent, subject)
           /\ Counted(verifications, p, now - SendCapWindow) < MaxSendsPerWindow
<1> DEFINE since == now - SendCapWindow
<1>1. ASSUME NEW c \in LatestRows(p) PROVE ~LockLatest(c)
  BY <1>1 DEF LockLatest, Put, LatestRows, RowsOf
<1>2. CASE LatestRows(p) = {} /\ SendNewChallenge(p, intent, subject)
  <2>1. WindowRows(verifications, p, since) = {}
    BY <1>2, SomeLatest DEF WindowRows, RowsOf
  <2>2. Counted(verifications, p, since) = 0
    BY <2>1, TotalEmpty DEF Counted
  <2> QED
    BY <1>2, <2>2, ChallengeConstants DEF ChallengeConstants
<1>3. ASSUME NEW c \in LatestRows(p), ~CapReached(p), SendNewChallenge(p, intent, subject)
      PROVE  /\ SendNewChallenge(p, intent, subject)
             /\ Counted(verifications, p, since) < MaxSendsPerWindow
  <2>1. CountSendsSince(p, since) = Counted(verifications, p, since)
    BY CountIsCounted DEF SendsCounted
  <2>2. Counted(verifications, p, since) \in Nat
    BY TableFinite, WindowFinite
  <2>3. ~(CountSendsSince(p, since) >= MaxSendsPerWindow)
    BY <1>3 DEF CapReached, CapReachedAt
  <2> QED
    BY <1>3, <2>1, <2>2, <2>3, ChallengeConstants DEF ChallengeConstants
<1> QED
  BY <1>1, <1>2, <1>3 DEF RequestVerification, OpenChallenge

\* Only a request opens a challenge.
LEMMA OnlyRequestsOpen ==
    ASSUME IInv, [Next]_vars, DOMAIN verifications' # DOMAIN verifications
    PROVE  \E p \in Phones, intent \in Intents, subject \in Subjects \cup {None} :
               RequestVerification(p, intent, subject)
<1>1. ASSUME NEW c \in DOMAIN verifications,
             \/ ResendVerification(c) \/ ConfirmWrong(c)
             \/ ConfirmSignup(c) \/ ConfirmSignin(c)
      PROVE  FALSE
  <2>1. \E row : verifications' = Put(verifications, c, row)
    BY <1>1 DEF ResendVerification, LockLatest, ConfirmWrong, ConfirmSignup, ConfirmSignin
  <2> QED
    BY <2>1 DEF Put
<1>2. ASSUME NEW a \in DOMAIN accounts, ClearLockout(a) PROVE FALSE
  <2>1. \E c \in DOMAIN verifications : \E row : verifications' = Put(verifications, c, row)
    BY <1>2 DEF ClearLockout, LatestRows, RowsOf
  <2> QED
    BY <2>1 DEF Put
<1>3. ASSUME UNCHANGED verifications PROVE FALSE
  BY <1>3
<1> QED
  BY <1>1, <1>2, <1>3 DEF Next, ClientRequest, AdminRequest, vars, Tick, GoogleExchange

LEMMA CapIsRespected ==
    ASSUME IInv, Recent, SendsCounted, [Next]_vars,
           NEW c \in DOMAIN verifications' \ DOMAIN verifications,
           Uncleared(verifications'[c].phone)
    PROVE  DeliveredSince(verifications'[c].phone, now - SendCapWindow) < MaxSendsPerWindow
<1> DEFINE since == now - SendCapWindow
<1>1. PICK p \in Phones, intent \in Intents, subject \in Subjects \cup {None} :
        RequestVerification(p, intent, subject)
  BY OnlyRequestsOpen
<1>2. /\ SendNewChallenge(p, intent, subject)
      /\ Counted(verifications, p, since) < MaxSendsPerWindow
  BY <1>1, OpensBelowCap
<1>3. verifications'[c].phone = p
  <2>1. \E d, row : row.phone = p /\ verifications' = Put(verifications, d, row)
    BY <1>2 DEF SendNewChallenge, RegisterSend
  <2> QED
    BY <2>1 DEF Put
<1>4. since \in Int
  BY NowNat, ChallengeConstants DEF IInv, ChallengeConstants
<1>5. DeliveredSince(p, since) <= Counted(verifications, p, since)
  BY <1>3, <1>4 DEF SendsCounted
<1>6. DeliveredSince(p, since) \in Nat /\ Counted(verifications, p, since) \in Nat
  BY TableFinite, WindowFinite, ArrivedNat DEF IInv, TypeOK, DeliveredSince, Arrived
<1> QED
  BY <1>2, <1>3, <1>5, <1>6, ChallengeConstants DEF ChallengeConstants

\* The count a request decides on misses no code: a phone that no clear touched
\* gets a new challenge only if it truly received fewer than MaxSendsPerWindow
\* codes in the window, over all its challenges and resends (service.go:145-181).
THEOREM RequestsRespectCap == Spec => RequestRespectsCap
<1>1. IInv /\ Recent /\ SendsCounted /\ [Next]_vars =>
        [\A c \in DOMAIN verifications' \ DOMAIN verifications :
            LET p == verifications'[c].phone
            IN  Uncleared(p) => DeliveredSince(p, now - SendCapWindow) < MaxSendsPerWindow
        ]_vars
  BY CapIsRespected
<1> QED
  BY <1>1, CountsInvariance, PTL DEF Spec, RequestRespectsCap

-----------------------------------------------------------------------------
(* How far past the cap: few challenges are in a window at a time, and each  *)
(* of them sends few codes.                                                  *)

\* The rows of phone p in the window that ends at t.
Window(p, t) == WindowRows(verifications, p, t - SendCapWindow)

\* A code lives from its row's send; a row counts its first send, unless cleared,
\* and never counts more than the cap.
RowSpread(v, cleared) ==
    /\ v.expiresAt = v.sentAt + OTPTTL
    /\ v.sendsInWindow <= MaxSendsPerWindow
    /\ cleared = 0 => v.sendsInWindow >= 1

Spread ==
    /\ \A c \in DOMAIN verifications : RowSpread(verifications[c], audits[c])
    /\ \A p \in Phones :
        Uncleared(p) => Cardinality(Window(p, now)) <= MaxSendsPerWindow

\* The sum over a phone's window lies between its rows and the cap on each.
LEMMA SumOfWindow ==
    ASSUME IInv, SendsCounted, Spread, NEW p \in Phones, Uncleared(p), NEW t \in Int
    PROVE  LET n == Cardinality(Window(p, t))
               sum == Counted(verifications, p, t - SendCapWindow)
           IN  n \in Nat /\ sum \in Nat /\ n <= sum /\ sum <= MaxSendsPerWindow * n
<1> DEFINE S == Window(p, t)
           g == Sends(verifications)
<1>1. Finite(verifications)
  BY TableFinite
<1>2. IsFiniteSet(S) /\ Counts(g, S) /\ Total(g, S) \in Nat
  BY <1>1, WindowFinite DEF Window, Counted
<1>3. Total(g, S) = Counted(verifications, p, t - SendCapWindow)
  BY DEF Window, Counted
<1>4. ASSUME NEW c \in S PROVE 1 <= g[c] /\ g[c] <= MaxSendsPerWindow
  <2>1. c \in DOMAIN verifications /\ c \in RowsOf(p)
    BY DEF Window, WindowRows, RowsOf
  <2>2. audits[c] = 0 /\ RowSpread(verifications[c], audits[c])
    BY <2>1 DEF Uncleared, Spread
  <2>3. g[c] = verifications[c].sendsInWindow /\ verifications[c] \in Verification
    BY <1>1, <2>1 DEF Sends, Finite
  <2> QED
    BY <2>2, <2>3 DEF RowSpread, Verification
<1>5. MaxSendsPerWindow \in Nat
  BY ChallengeConstants DEF ChallengeConstants
<1>6. Cardinality(S) \in Nat
  BY <1>2, FS_CardinalityType
<1> HIDE DEF S, g
<1>7. Cardinality(S) <= Total(g, S) /\ Total(g, S) <= MaxSendsPerWindow * Cardinality(S)
  BY <1>2, <1>4, <1>5, TotalBounds
<1> QED
  BY <1>2, <1>3, <1>6, <1>7 DEF S

\* A step that writes one row in place, and takes none into a window.
LEMMA RewriteSpreads ==
    ASSUME IInv, SendsCounted, Spread, NEW c \in DOMAIN verifications,
           NEW row \in Verification, row.phone = verifications[c].phone,
           RowSpread(row, audits'[c]),
           \/ row.sentAt = verifications[c].sentAt
           \/ /\ row.sentAt >= now - SendCapWindow
              /\ verifications[c].sentAt >= now - SendCapWindow,
           audits' = audits \/ audits' = [audits EXCEPT ![c] = @ + 1],
           verifications' = Put(verifications, c, row), now' = now
    PROVE  Spread'
<1>1. c \in Challenges /\ audits \in [Challenges -> Nat]
  BY DEF IInv, TypeOK
<1>2. /\ DOMAIN verifications' = DOMAIN verifications /\ verifications'[c] = row
      /\ \A d \in DOMAIN verifications \ {c} : verifications'[d] = verifications[d]
  <2>1. DOMAIN verifications \cup {c} = DOMAIN verifications
    OBVIOUS
  <2> QED
    BY <1>1, <2>1, RowWritten
<1>3. /\ audits' \in [Challenges -> Nat]
      /\ \A d \in Challenges : audits'[d] >= audits[d]
      /\ \A d \in Challenges \ {c} : audits'[d] = audits[d]
  BY <1>1
<1>4. ASSUME NEW d \in DOMAIN verifications'
      PROVE  RowSpread(verifications'[d], audits'[d])
  <2>1. CASE d = c
    BY <1>2, <2>1
  <2>2. CASE d # c
    <3>1. /\ d \in DOMAIN verifications /\ verifications'[d] = verifications[d]
          /\ audits'[d] = audits[d]
      BY <1>2, <1>3, <2>2 DEF IInv, TypeOK
    <3> QED
      BY <3>1 DEF Spread
  <2> QED
    BY <2>1, <2>2
<1>5. ASSUME NEW p \in Phones, Uncleared(p)'
      PROVE  Cardinality(Window(p, now)') <= MaxSendsPerWindow
  <2>1. Uncleared(p)
    BY <1>1, <1>3, <1>5, UnclearedBefore
  <2>2. \A d \in DOMAIN verifications :
          /\ verifications'[d].phone = verifications[d].phone
          /\ verifications'[d].sentAt >= now - SendCapWindow
               <=> verifications[d].sentAt >= now - SendCapWindow
    <3>1. \A d \in DOMAIN verifications \ {c} : verifications'[d] = verifications[d]
      BY <1>2
    <3>2. verifications'[c] = row
      BY <1>2
    <3> QED
      BY <3>1, <3>2
  <2>3. Window(p, now)' = Window(p, now)
    BY <1>2, <2>2 DEF Window, WindowRows
  <2> QED
    BY <2>1, <2>3 DEF Spread
<1> QED
  BY <1>4, <1>5 DEF Spread

LEMMA ChallengeSpreads ==
    ASSUME OTPTTL <= SendCapWindow, IInv, SendsCounted, Spread,
           NEW c \in DOMAIN verifications,
           \/ ResendVerification(c) \/ ConfirmWrong(c)
           \/ ConfirmSignup(c) \/ ConfirmSignin(c)
    PROVE  Spread'
<1> DEFINE v == verifications[c]
<1>1. now \in Nat /\ v \in Verification /\ RowSpread(v, audits[c])
  BY NowNat DEF IInv, TypeOK, Spread
<1>2. audits' = audits /\ now' = now
  BY DEF ResendVerification, ConfirmWrong, ConfirmSignup, ConfirmSignin
<1>3. ASSUME NEW row \in Verification, row.phone = v.phone, row.sentAt = v.sentAt,
             row.expiresAt = v.expiresAt, row.sendsInWindow = v.sendsInWindow,
             verifications' = Put(verifications, c, row)
      PROVE  Spread'
  <2>1. RowSpread(row, audits'[c])
    BY <1>1, <1>2, <1>3 DEF RowSpread
  <2> QED
    BY <1>2, <1>3, <2>1, RewriteSpreads
<1>4. CASE LockLatest(c)
  <2>1. /\ Lock(v, now) \in Verification /\ Lock(v, now).phone = v.phone
        /\ Lock(v, now).sentAt = v.sentAt /\ Lock(v, now).expiresAt = v.expiresAt
        /\ Lock(v, now).sendsInWindow = v.sendsInWindow
    BY <1>1, LockRow DEF Lock, Verification
  <2> QED
    BY <1>3, <1>4, <2>1 DEF LockLatest
<1>5. ASSUME Resendable(v, now), ~SendCapReached(v),
             verifications' = Put(verifications, c, RegisterSend(v, now))
      PROVE  Spread'
  <2> DEFINE row == RegisterSend(v, now)
  <2>1. /\ row \in Verification /\ row.phone = v.phone /\ row.sentAt = now
        /\ row.expiresAt = now + OTPTTL
        /\ row.sendsInWindow = v.sendsInWindow + 1 /\ v.sendsInWindow \in Nat
        /\ v.sentAt \in Nat
    BY <1>1, RegisterSendRow DEF RegisterSend, Verification
  <2> HIDE DEF row
  <2>2. MaxSendsPerWindow \in Nat /\ OTPTTL \in Nat /\ SendCapWindow \in Nat
    BY ChallengeConstants DEF ChallengeConstants
  <2>3. RowSpread(row, audits'[c])
    BY <1>5, <2>1, <2>2 DEF RowSpread, SendCapReached
  <2>4. ~(now > v.sentAt + OTPTTL)
    BY <1>1, <1>5 DEF Resendable, Confirmable, IsExpired, RowSpread
  <2>5. v.sentAt >= now - SendCapWindow /\ now >= now - SendCapWindow
    BY <1>1, <2>1, <2>2, <2>4
  <2>6. verifications' = Put(verifications, c, row)
    BY <1>5 DEF row
  <2> QED
    BY <1>2, <2>1, <2>3, <2>5, <2>6, RewriteSpreads
<1>6. CASE ResendVerification(c)
  BY <1>4, <1>5, <1>6 DEF ResendVerification
<1>7. CASE ConfirmWrong(c)
  <2> DEFINE row == RegisterFailure(v, now)
  <2>1. /\ row \in Verification /\ row.phone = v.phone /\ row.sentAt = v.sentAt
        /\ row.expiresAt = v.expiresAt /\ row.sendsInWindow = v.sendsInWindow
    BY <1>1, RegisterFailureRow DEF RegisterFailure, Lock, Verification
  <2> QED
    BY <1>3, <1>7, <2>1 DEF ConfirmWrong
<1>8. CASE ConfirmSignup(c) \/ ConfirmSignin(c)
  <2> DEFINE row == MarkVerified(v)
  <2>1. /\ row \in Verification /\ row.phone = v.phone /\ row.sentAt = v.sentAt
        /\ row.expiresAt = v.expiresAt /\ row.sendsInWindow = v.sendsInWindow
    BY <1>1, MarkVerifiedRow DEF MarkVerified, Verification
  <2> QED
    BY <1>3, <1>8, <2>1 DEF ConfirmSignup, ConfirmSignin
<1> QED
  BY <1>6, <1>7, <1>8

LEMMA ClearSpreads ==
    ASSUME IInv, SendsCounted, Spread, NEW a \in DOMAIN accounts, ClearLockout(a)
    PROVE  Spread'
<1>1. PICK c \in LatestRows(accounts[a].phone) :
        /\ verifications' = Put(verifications, c, Unlock(verifications[c]))
        /\ audits' = [audits EXCEPT ![c] = @ + 1]
  BY DEF ClearLockout
<1>2. /\ c \in DOMAIN verifications /\ verifications[c] \in Verification
      /\ RowSpread(verifications[c], audits[c]) /\ now' = now
  BY DEF LatestRows, RowsOf, IInv, TypeOK, Spread, ClearLockout
<1>3. audits'[c] # 0
  <2>1. c \in Challenges /\ audits \in [Challenges -> Nat]
    BY <1>2 DEF IInv, TypeOK
  <2> QED
    BY <1>1, <2>1
<1> DEFINE row == Unlock(verifications[c])
<1>4. /\ row \in Verification /\ row.phone = verifications[c].phone
      /\ row.sentAt = verifications[c].sentAt /\ row.expiresAt = verifications[c].expiresAt
      /\ row.sendsInWindow = 0
  BY <1>2, UnlockRow DEF Unlock, Verification
<1> HIDE DEF row
<1>5. RowSpread(row, audits'[c])
  BY <1>2, <1>3, <1>4, ChallengeConstants DEF RowSpread, ChallengeConstants
<1>6. verifications' = Put(verifications, c, row)
  BY <1>1 DEF row
<1> QED
  BY <1>1, <1>2, <1>4, <1>5, <1>6, RewriteSpreads

\* One more row makes a set at most one larger.
LEMMA OneMore ==
    ASSUME NEW S, IsFiniteSet(S), NEW x
    PROVE  LET grown == Cardinality(S \cup {x})
           IN  grown \in Nat /\ grown <= Cardinality(S) + 1
<1> DEFINE T == S \cup {x}
<1>1. IsFiniteSet(T) /\ (Cardinality(T) = Cardinality(S) \/ Cardinality(T) = Cardinality(S) + 1)
  BY FS_AddElement
<1>2. Cardinality(T) \in Nat /\ Cardinality(S) \in Nat
  BY <1>1, FS_CardinalityType
<1> HIDE DEF T
<1>3. Cardinality(T) \in Nat /\ Cardinality(T) <= Cardinality(S) + 1
  BY <1>1, <1>2
<1> QED
  BY <1>3 DEF T

LEMMA RequestSpreads ==
    ASSUME IInv, Recent, SendsCounted, Spread, NEW p \in Phones, NEW intent \in Intents,
           NEW subject \in Subjects \cup {None}, RequestVerification(p, intent, subject)
    PROVE  Spread'
<1>1. audits' = audits /\ now' = now /\ now \in Nat
  BY NowNat DEF RequestVerification, OpenChallenge, IInv
<1>2. CASE DOMAIN verifications' # DOMAIN verifications
  <2>1. /\ SendNewChallenge(p, intent, subject)
        /\ Counted(verifications, p, now - SendCapWindow) < MaxSendsPerWindow
    BY <1>2, OpensBelowCap
  <2> DEFINE fresh == [phone |-> p, intent |-> intent, subject |-> subject,
                       sentAt |-> 0, expiresAt |-> 0, failedAttempts |-> 0,
                       sendsInWindow |-> 0, lockedUntil |-> NoTime,
                       status |-> "pending"]
             row == RegisterSend(fresh, now)
  <2>2. PICK c \in Challenges \ DOMAIN verifications :
          verifications' = Put(verifications, c, row)
    BY <2>1 DEF SendNewChallenge
  <2>3. fresh \in Verification
    BY DEF Verification, Instant, Statuses
  <2>4. row \in Verification
    BY <1>1, <2>3, RegisterSendRow
  <2>5. /\ row.phone = p /\ row.sentAt = now /\ row.expiresAt = now + OTPTTL
        /\ row.sendsInWindow = 1
    BY DEF RegisterSend
  <2> HIDE DEF row
  <2>6. /\ DOMAIN verifications' = DOMAIN verifications \cup {c}
        /\ verifications'[c] = row
        /\ \A d \in DOMAIN verifications \ {c} : verifications'[d] = verifications[d]
    BY <2>2, <2>4, RowWritten
  <2>7. ASSUME NEW d \in DOMAIN verifications'
        PROVE  RowSpread(verifications'[d], audits'[d])
    <3>1. RowSpread(row, audits'[c])
      BY <2>5, ChallengeConstants DEF RowSpread, ChallengeConstants
    <3> QED
      BY <1>1, <2>2, <2>6, <3>1 DEF Spread
  <2>8. ASSUME NEW q \in Phones, Uncleared(q)'
        PROVE  Cardinality(Window(q, now)') <= MaxSendsPerWindow
    <3>1. Uncleared(q)
      BY <1>1, <2>6, <2>8 DEF Uncleared, RowsOf
    <3>2. CASE q = p
      <4>1. /\ Cardinality(Window(p, now)) \in Nat
            /\ Counted(verifications, p, now - SendCapWindow) \in Nat
            /\ Cardinality(Window(p, now)) <= Counted(verifications, p, now - SendCapWindow)
        BY <1>1, <3>1, <3>2, SumOfWindow
      <4>2. Window(p, now)' = Window(p, now) \cup {c}
        <5>1. now >= now - SendCapWindow
          BY <1>1, ChallengeConstants DEF ChallengeConstants
        <5> QED
          BY <1>1, <2>2, <2>5, <2>6, <5>1 DEF Window, WindowRows
      <4>3. IsFiniteSet(Window(p, now))
        BY TableFinite, WindowFinite DEF Window
      <4>4. /\ Cardinality(Window(p, now)') \in Nat
            /\ Cardinality(Window(p, now)') <= Cardinality(Window(p, now)) + 1
        BY <4>2, <4>3, OneMore
      <4> QED
        BY <2>1, <3>2, <4>1, <4>4, ChallengeConstants DEF ChallengeConstants
    <3>3. CASE q # p
      <4>1. Window(q, now)' = Window(q, now)
        BY <1>1, <2>2, <2>5, <2>6, <3>3 DEF Window, WindowRows
      <4> QED
        BY <3>1, <4>1 DEF Spread
    <3> QED
      BY <3>2, <3>3
  <2> QED
    BY <2>7, <2>8 DEF Spread
<1>3. ASSUME NEW c \in LatestRows(p), LockLatest(c) PROVE Spread'
  <2> DEFINE v == verifications[c]
             row == Lock(v, now)
  <2>1. c \in DOMAIN verifications /\ v \in Verification /\ RowSpread(v, audits[c])
    BY DEF LatestRows, RowsOf, IInv, TypeOK, Spread
  <2>2. /\ row \in Verification /\ row.phone = v.phone /\ row.sentAt = v.sentAt
        /\ row.expiresAt = v.expiresAt /\ row.sendsInWindow = v.sendsInWindow
    BY <1>1, <2>1, LockRow DEF Lock, Verification
  <2> HIDE DEF row
  <2>3. RowSpread(row, audits'[c])
    BY <1>1, <2>1, <2>2 DEF RowSpread
  <2>4. verifications' = Put(verifications, c, row)
    BY <1>3 DEF LockLatest, row
  <2> QED
    BY <1>1, <2>1, <2>2, <2>3, <2>4, RewriteSpreads
<1>4. ASSUME SendNewChallenge(p, intent, subject)
      PROVE  DOMAIN verifications' # DOMAIN verifications
  BY <1>4 DEF SendNewChallenge, Put
<1> QED
  BY <1>2, <1>3, <1>4 DEF RequestVerification, OpenChallenge

LEMMA NextSpreads ==
    ASSUME OTPTTL <= SendCapWindow, IInv, Recent, SendsCounted, Spread, [Next]_vars
    PROVE  Spread'
<1>1. ASSUME UNCHANGED <<now, verifications, audits>> PROVE Spread'
  BY <1>1 DEF Spread, Uncleared, RowsOf, Window
<1>2. CASE Tick
  <2>1. /\ now \in Nat /\ now' = now + 1 /\ SendCapWindow \in Nat
        /\ UNCHANGED <<verifications, audits>>
    BY <1>2, NowNat, ChallengeConstants DEF Tick, IInv, ChallengeConstants
  <2>2. ASSUME NEW p \in Phones, Uncleared(p)'
        PROVE  Cardinality(Window(p, now)') <= MaxSendsPerWindow
    <3>1. Uncleared(p)
      BY <2>1, <2>2 DEF Uncleared, RowsOf
    <3>2. Window(p, now)' \in SUBSET Window(p, now)
      <4>1. ASSUME NEW c \in Window(p, now)' PROVE c \in Window(p, now)
        <5>1. /\ c \in DOMAIN verifications /\ verifications[c].phone = p
              /\ verifications[c].sentAt >= now + 1 - SendCapWindow
          BY <2>1 DEF Window, WindowRows
        <5>2. verifications[c].sentAt \in Nat
          BY <5>1 DEF IInv, TypeOK, Verification
        <5> QED
          BY <2>1, <5>1, <5>2 DEF Window, WindowRows
      <4> QED
        BY <4>1
    <3>3. IsFiniteSet(Window(p, now))
      BY TableFinite, WindowFinite DEF Window
    <3>4. /\ Cardinality(Window(p, now)') <= Cardinality(Window(p, now))
          /\ Cardinality(Window(p, now)') \in Nat /\ Cardinality(Window(p, now)) \in Nat
      BY <3>2, <3>3, FS_Subset, FS_CardinalityType
    <3>5. Cardinality(Window(p, now)) <= MaxSendsPerWindow
      BY <3>1 DEF Spread
    <3> QED
      BY <3>4, <3>5, ChallengeConstants DEF ChallengeConstants
  <2> QED
    BY <2>1, <2>2 DEF Spread
<1>3. ASSUME NEW subject \in Subjects, GoogleExchange(subject) PROVE Spread'
  BY <1>1, <1>3 DEF GoogleExchange
<1>4. CASE UNCHANGED vars
  BY <1>1, <1>4 DEF vars
<1> QED
  BY <1>2, <1>3, <1>4, RequestSpreads, ChallengeSpreads, ClearSpreads DEF Next, ClientRequest, AdminRequest

LEMMA InitSpreads == Init => Spread
<1> SUFFICES ASSUME Init PROVE Spread
  OBVIOUS
<1>1. ASSUME NEW p \in Phones PROVE Cardinality(Window(p, now)) <= MaxSendsPerWindow
  <2>1. Window(p, now) = {}
    BY DEF Init, Window, WindowRows
  <2> QED
    BY <2>1, FS_EmptySet, ChallengeConstants DEF ChallengeConstants
<1> QED
  BY <1>1 DEF Init, Spread

LEMMA AtMostSquare ==
    ASSUME IInv, SendsCounted, Spread, NEW p \in Phones, Uncleared(p)
    PROVE  DeliveredSince(p, now - SendCapWindow) <= MaxSendsPerWindow * MaxSendsPerWindow
<1> DEFINE n == Cardinality(Window(p, now))
           sum == Counted(verifications, p, now - SendCapWindow)
           got == DeliveredSince(p, now - SendCapWindow)
<1>1. now \in Int /\ now - SendCapWindow \in Int
  BY NowNat, ChallengeConstants DEF IInv, ChallengeConstants
<1>2. n \in Nat /\ sum \in Nat /\ n <= sum /\ sum <= MaxSendsPerWindow * n
  BY <1>1, SumOfWindow
<1>3. n <= MaxSendsPerWindow /\ got <= sum
  BY <1>1 DEF Spread, SendsCounted
<1>4. got \in Nat
  BY ArrivedNat DEF IInv, TypeOK, DeliveredSince, Arrived
<1>5. MaxSendsPerWindow \in Nat
  BY ChallengeConstants DEF ChallengeConstants
<1> HIDE DEF n, sum, got
<1>6. MaxSendsPerWindow * n <= MaxSendsPerWindow * MaxSendsPerWindow
  BY <1>2, <1>3, <1>5
<1>7. MaxSendsPerWindow * n \in Nat /\ MaxSendsPerWindow * MaxSendsPerWindow \in Nat
  BY <1>2, <1>5
<1>8. got <= MaxSendsPerWindow * MaxSendsPerWindow
  BY <1>2, <1>3, <1>4, <1>6, <1>7
<1> QED
  BY <1>8 DEF got

\* As long as no clear resets a count, a phone receives at most MaxSendsPerWindow
\* codes for each of at most MaxSendsPerWindow challenges in any send window,
\* however requests and resends alternate: 25 codes in 30 minutes
\* (service.go:165, 432), as long as a code lives no longer than the window
\* (domain.go:65-76: 10 and 30 minutes).
THEOREM SendsPerPhoneAreBounded ==
    ASSUME OTPTTL <= SendCapWindow
    PROVE  Spec => []SendsPerPhoneBounded
<1>1. IInv /\ Recent /\ SendsCounted /\ Spread /\ [Next]_vars => Spread'
  BY NextSpreads
<1>2. IInv /\ SendsCounted /\ Spread => SendsPerPhoneBounded
  BY AtMostSquare DEF SendsPerPhoneBounded
<1> QED
  BY <1>1, <1>2, InitSpreads, CountsInvariance, PTL DEF Spec
====
