-------------------------- MODULE AuthService_proofs --------------------------
(***************************************************************************)
(* Theorems about AuthService, for every value of its constants.  The      *)
(* inductive invariant adds to the properties what they rest on: no code   *)
(* outlives the clock by more than OTPTTL, and a challenge without a lock  *)
(* has a wrong code left; a second one says what a used challenge is like. *)
(***************************************************************************)
EXTENDS AuthService, TLAPS

\* Every code expires within OTPTTL of the present.
CodeWindow ==
    \A c \in DOMAIN verifications : verifications[c].expiresAt <= now + OTPTTL

\* A challenge that has no lock on it still has a wrong code to spend.
WrongCodesLeft ==
    \A c \in DOMAIN verifications :
        verifications[c].lockedUntil = NoTime =>
            verifications[c].failedAttempts < MaxFailedAttempts + audits[c]

IInv == TypeOK /\ CodeWindow /\ LockOutlivesCode /\ WrongCodesBounded /\ WrongCodesLeft

-----------------------------------------------------------------------------
(* Rows. *)

LEMMA NowNat == TypeOK => now \in Nat
BY BoundsAssumption DEF BoundsAssumption, TypeOK

LEMMA RegisterSendRow ==
    ASSUME NEW v \in Verification, NEW t \in Nat
    PROVE  /\ RegisterSend(v, t) \in Verification
           /\ RegisterSend(v, t).expiresAt = t + OTPTTL
           /\ RegisterSend(v, t).lockedUntil = v.lockedUntil
           /\ RegisterSend(v, t).failedAttempts = v.failedAttempts
<1>1. t + OTPTTL \in Nat
  BY ChallengeConstants DEF ChallengeConstants
<1>2. v.sendsInWindow + 1 \in Nat
  BY DEF Verification
<1> QED
  BY <1>1, <1>2 DEF RegisterSend, Verification

LEMMA LockRow ==
    ASSUME NEW v \in Verification, NEW t \in Nat
    PROVE  /\ Lock(v, t) \in Verification
           /\ Lock(v, t).expiresAt = v.expiresAt
           /\ Lock(v, t).lockedUntil = t + LockoutDuration
           /\ Lock(v, t).failedAttempts = v.failedAttempts
<1>1. t + LockoutDuration \in Nat
  BY ChallengeConstants DEF ChallengeConstants
<1> QED
  BY <1>1 DEF Lock, Verification, Instant, Statuses

LEMMA MarkVerifiedRow ==
    ASSUME NEW v \in Verification
    PROVE  /\ MarkVerified(v) \in Verification
           /\ MarkVerified(v).expiresAt = v.expiresAt
           /\ MarkVerified(v).lockedUntil = v.lockedUntil
           /\ MarkVerified(v).failedAttempts = v.failedAttempts
BY DEF MarkVerified, Verification, Instant, Statuses

LEMMA UnlockRow ==
    ASSUME NEW v \in Verification
    PROVE  /\ Unlock(v) \in Verification
           /\ Unlock(v).expiresAt = v.expiresAt
           /\ Unlock(v).lockedUntil = NoTime
           /\ Unlock(v).failedAttempts = v.failedAttempts
BY DEF Unlock, Verification, Instant, Statuses

\* A wrong code is counted, and the one that reaches the limit locks.
LEMMA RegisterFailureRow ==
    ASSUME NEW v \in Verification, NEW t \in Nat
    PROVE  /\ RegisterFailure(v, t) \in Verification
           /\ RegisterFailure(v, t).expiresAt = v.expiresAt
           /\ RegisterFailure(v, t).failedAttempts = v.failedAttempts + 1
           /\ RegisterFailure(v, t).lockedUntil =
                IF v.failedAttempts + 1 >= MaxFailedAttempts
                THEN t + LockoutDuration ELSE v.lockedUntil
<1> DEFINE failed == [v EXCEPT !.failedAttempts = @ + 1]
<1>1. /\ failed \in Verification
      /\ failed.expiresAt = v.expiresAt /\ failed.lockedUntil = v.lockedUntil
      /\ failed.failedAttempts = v.failedAttempts + 1
  BY DEF Verification
<1>2. /\ Lock(failed, t) \in Verification
      /\ Lock(failed, t).expiresAt = failed.expiresAt
      /\ Lock(failed, t).lockedUntil = t + LockoutDuration
      /\ Lock(failed, t).failedAttempts = failed.failedAttempts
  BY <1>1, LockRow
<1>3. RegisterFailure(v, t) = IF failed.failedAttempts >= MaxFailedAttempts
                              THEN Lock(failed, t) ELSE failed
  BY DEF RegisterFailure
<1> QED
  BY <1>1, <1>2, <1>3

\* Inserting a row of type R under an id of the pool keeps a table's type.
LEMMA PutTyped ==
    ASSUME NEW Pool, NEW R, NEW table, DOMAIN table \subseteq Pool,
           \A x \in DOMAIN table : table[x] \in R,
           NEW id \in Pool, NEW row \in R
    PROVE  /\ DOMAIN Put(table, id, row) \subseteq Pool
           /\ \A x \in DOMAIN Put(table, id, row) : Put(table, id, row)[x] \in R
BY DEF Put

\* A confirmable challenge carries no lock, not even a lapsed one.
LEMMA ConfirmableUnlocked ==
    ASSUME TypeOK, LockOutlivesCode, NEW c \in DOMAIN verifications,
           Confirmable(verifications[c], now)
    PROVE  verifications[c].lockedUntil = NoTime
<1>1. /\ now \in Nat /\ verifications[c] \in Verification
  BY NowNat DEF TypeOK
<1> QED
  BY <1>1 DEF Confirmable, IsLocked, IsExpired, LockOutlivesCode, Verification,
              Instant, NoTime

-----------------------------------------------------------------------------
(* The invariant holds at first, and every handler keeps it. *)

LEMMA InitIInv == Init => IInv
<1> SUFFICES ASSUME Init PROVE IInv
  OBVIOUS
<1>1. DOMAIN verifications = {} /\ DOMAIN accounts = {} /\ DOMAIN sessions = {}
  BY DEF Init
<1>2. TypeOK
  <2>1. deliveries \in [Phones -> Seq(Nat)]
    BY DEF Init
  <2> QED
    BY <1>1, <2>1, BoundsAssumption DEF TypeOK, Init, BoundsAssumption, Instant, NoTime
<1> QED
  BY <1>1, <1>2 DEF IInv, CodeWindow, LockOutlivesCode, WrongCodesBounded, WrongCodesLeft

\* The parts of the invariant that speak of table verification follow, for a
\* step that writes one row, from what that row looks like.
LEMMA OneRowWritten ==
    ASSUME IInv, NEW c \in Challenges, NEW row \in Verification,
           verifications' = Put(verifications, c, row),
           now' = now, audits' \in [Challenges -> Nat],
           \A d \in Challenges : audits'[d] >= audits[d],
           row.expiresAt <= now + OTPTTL,
           row.lockedUntil # NoTime => row.expiresAt < row.lockedUntil,
           row.failedAttempts <= MaxFailedAttempts + audits'[c],
           row.lockedUntil = NoTime => row.failedAttempts < MaxFailedAttempts + audits'[c]
    PROVE  /\ DOMAIN verifications' \subseteq Challenges
           /\ \A d \in DOMAIN verifications' : verifications'[d] \in Verification
           /\ CodeWindow' /\ LockOutlivesCode' /\ WrongCodesBounded' /\ WrongCodesLeft'
<1>1. /\ DOMAIN verifications' = DOMAIN verifications \cup {c}
      /\ verifications'[c] = row
      /\ \A d \in DOMAIN verifications : d # c => verifications'[d] = verifications[d]
  BY DEF Put
<1>2. DOMAIN verifications' \subseteq Challenges
  BY <1>1 DEF IInv, TypeOK
<1>3. ASSUME NEW d \in DOMAIN verifications'
      PROVE  \/ d = c /\ verifications'[d] = row
             \/ d \in DOMAIN verifications /\ verifications'[d] = verifications[d]
  BY <1>1
<1>4. \A d \in DOMAIN verifications' : verifications'[d] \in Verification
  BY <1>3 DEF IInv, TypeOK
<1>5. ASSUME NEW d \in DOMAIN verifications'
      PROVE  /\ verifications'[d].expiresAt <= now' + OTPTTL
             /\ verifications'[d].lockedUntil # NoTime =>
                  verifications'[d].expiresAt < verifications'[d].lockedUntil
  <2>1. CASE d = c
    <3>1. /\ verifications'[d].expiresAt = row.expiresAt
          /\ verifications'[d].lockedUntil = row.lockedUntil
      BY <2>1, <1>1
    <3>2. row.expiresAt \in Nat /\ row.lockedUntil \in Instant
      BY DEF Verification
    <3> QED
      BY <3>1, <3>2
  <2>2. CASE d # c
    BY <2>2, <1>3 DEF IInv, CodeWindow, LockOutlivesCode
  <2> QED
    BY <2>1, <2>2
<1>6. ASSUME NEW d \in DOMAIN verifications'
      PROVE  /\ verifications'[d].failedAttempts <= MaxFailedAttempts + audits'[d]
             /\ verifications'[d].lockedUntil = NoTime =>
                  verifications'[d].failedAttempts < MaxFailedAttempts + audits'[d]
  <2>1. CASE d = c
    <3>1. /\ verifications'[d].failedAttempts = row.failedAttempts
          /\ verifications'[d].lockedUntil = row.lockedUntil
      BY <2>1, <1>1
    <3>2. row.failedAttempts \in Nat /\ MaxFailedAttempts \in Nat /\ audits'[c] \in Nat
      BY ChallengeConstants DEF ChallengeConstants, Verification
    <3> QED
      BY <2>1, <3>1, <3>2
  <2>2. CASE d # c
    <3>1. /\ d \in DOMAIN verifications /\ verifications'[d] = verifications[d]
          /\ verifications[d] \in Verification /\ d \in Challenges
      BY <2>2, <1>1, <1>2 DEF IInv, TypeOK
    <3>2. /\ verifications[d].failedAttempts \in Nat /\ MaxFailedAttempts \in Nat
          /\ audits[d] \in Nat /\ audits'[d] \in Nat /\ audits'[d] >= audits[d]
      BY <3>1, ChallengeConstants DEF ChallengeConstants, Verification, IInv, TypeOK
    <3> QED
      BY <3>1, <3>2 DEF IInv, WrongCodesBounded, WrongCodesLeft
  <2> QED
    BY <2>1, <2>2
<1> QED
  BY <1>2, <1>4, <1>5, <1>6 DEF CodeWindow, LockOutlivesCode, WrongCodesBounded, WrongCodesLeft

LEMMA LockLatestStep ==
    ASSUME IInv, NEW c \in DOMAIN verifications, LockLatest(c),
           UNCHANGED <<now, accounts, sessions, audits, linkedAt>>
    PROVE  IInv'
<1> DEFINE v == verifications[c]
           row == Lock(v, now)
<1>1. v \in Verification /\ c \in Challenges /\ now \in Nat
  BY NowNat DEF IInv, TypeOK
<1>2. /\ row \in Verification /\ row.expiresAt = v.expiresAt
      /\ row.lockedUntil = now + LockoutDuration
      /\ row.failedAttempts = v.failedAttempts
  BY <1>1, LockRow
<1>3. /\ v.expiresAt \in Nat /\ v.expiresAt <= now + OTPTTL
      /\ v.failedAttempts <= MaxFailedAttempts + audits[c]
  BY <1>1 DEF IInv, CodeWindow, WrongCodesBounded, Verification
<1>4. row.expiresAt < row.lockedUntil /\ row.lockedUntil # NoTime
  BY <1>1, <1>2, <1>3, ChallengeConstants DEF ChallengeConstants, NoTime
<1>5. /\ verifications' = Put(verifications, c, row)
      /\ UNCHANGED <<now, accounts, sessions, audits, linkedAt, deliveries>>
  BY DEF LockLatest
<1>6. audits' \in [Challenges -> Nat] /\ \A d \in Challenges : audits'[d] >= audits[d]
  BY <1>5 DEF IInv, TypeOK
<1>7. /\ DOMAIN verifications' \subseteq Challenges
      /\ \A d \in DOMAIN verifications' : verifications'[d] \in Verification
      /\ CodeWindow' /\ LockOutlivesCode' /\ WrongCodesBounded' /\ WrongCodesLeft'
  <2> HIDE DEF row, v
  <2> QED
    BY <1>1, <1>2, <1>3, <1>4, <1>5, <1>6, OneRowWritten
<1> QED
  BY <1>5, <1>7 DEF IInv, TypeOK

LEMMA RequestStep ==
    ASSUME IInv, NEW p \in Phones, NEW intent \in Intents,
           NEW subject \in Subjects \cup {None},
           SendNewChallenge(p, intent, subject),
           UNCHANGED <<now, accounts, sessions, audits, linkedAt>>
    PROVE  IInv'
<1> DEFINE fresh == [phone |-> p, intent |-> intent, subject |-> subject,
                     sentAt |-> 0, expiresAt |-> 0, failedAttempts |-> 0,
                     sendsInWindow |-> 0, lockedUntil |-> NoTime,
                     status |-> "pending"]
           row == RegisterSend(fresh, now)
<1>1. PICK c \in Challenges : /\ verifications' = Put(verifications, c, row)
                             /\ deliveries' = [deliveries EXCEPT ![p] = Append(@, now)]
  BY DEF SendNewChallenge
<1>2. now \in Nat
  BY NowNat DEF IInv
<1>3. /\ fresh \in Verification /\ fresh.lockedUntil = NoTime
      /\ fresh.failedAttempts = 0
  BY DEF Verification, Instant, Statuses
<1>4. /\ row \in Verification /\ row.expiresAt = now + OTPTTL
      /\ row.lockedUntil = NoTime /\ row.failedAttempts = 0
  BY <1>2, <1>3, RegisterSendRow
<1>5. /\ audits' = audits /\ now' = now /\ audits' \in [Challenges -> Nat]
      /\ \A d \in Challenges : audits'[d] >= audits[d]
  BY DEF IInv, TypeOK
<1>6. /\ row.expiresAt <= now + OTPTTL
      /\ row.failedAttempts < MaxFailedAttempts + audits'[c]
  BY <1>1, <1>2, <1>4, <1>5, ChallengeConstants DEF ChallengeConstants
<1>7. /\ DOMAIN verifications' \subseteq Challenges
      /\ \A d \in DOMAIN verifications' : verifications'[d] \in Verification
      /\ CodeWindow' /\ LockOutlivesCode' /\ WrongCodesBounded' /\ WrongCodesLeft'
  <2>1. row.failedAttempts <= MaxFailedAttempts + audits'[c]
    BY <1>1, <1>4, <1>5, ChallengeConstants DEF ChallengeConstants
  <2> HIDE DEF row
  <2> QED
    BY <1>1, <1>4, <1>5, <1>6, <2>1, OneRowWritten
<1>8. deliveries' \in [Phones -> Seq(Nat)]
  BY <1>1, <1>2 DEF IInv, TypeOK
<1> QED
  BY <1>7, <1>8 DEF IInv, TypeOK

\* A resend reaches only a challenge without a lock, so the later expiry it
\* writes cannot pass a lock's end.
LEMMA ResendStep ==
    ASSUME IInv, NEW c \in DOMAIN verifications, ResendVerification(c)
    PROVE  IInv'
<1> DEFINE v == verifications[c]
           row == RegisterSend(v, now)
<1>1. v \in Verification /\ c \in Challenges /\ now \in Nat /\ v.phone \in Phones
  BY NowNat DEF IInv, TypeOK, Verification
<1>2. UNCHANGED <<now, accounts, sessions, audits, linkedAt>>
  BY DEF ResendVerification
<1>3. CASE LockLatest(c)
  BY <1>2, <1>3, LockLatestStep
<1>4. CASE /\ verifications' = Put(verifications, c, row)
           /\ deliveries' = [deliveries EXCEPT ![v.phone] = Append(@, now)]
  <2>1. v.lockedUntil = NoTime
    BY ConfirmableUnlocked DEF IInv, ResendVerification, Resendable
  <2>2. /\ row \in Verification /\ row.expiresAt = now + OTPTTL
        /\ row.lockedUntil = NoTime /\ row.failedAttempts = v.failedAttempts
    BY <1>1, <2>1, RegisterSendRow
  <2>3. /\ audits' \in [Challenges -> Nat] /\ audits' = audits
        /\ \A d \in Challenges : audits'[d] >= audits[d]
    BY <1>2 DEF IInv, TypeOK
  <2>4. /\ row.expiresAt <= now + OTPTTL
        /\ row.failedAttempts <= MaxFailedAttempts + audits'[c]
        /\ row.failedAttempts < MaxFailedAttempts + audits'[c]
    BY <1>1, <2>1, <2>2, <2>3, ChallengeConstants
    DEF ChallengeConstants, IInv, WrongCodesBounded, WrongCodesLeft
  <2>5. /\ DOMAIN verifications' \subseteq Challenges
        /\ \A d \in DOMAIN verifications' : verifications'[d] \in Verification
        /\ CodeWindow' /\ LockOutlivesCode' /\ WrongCodesBounded' /\ WrongCodesLeft'
    <3> HIDE DEF row, v
    <3> QED
      BY <1>1, <1>2, <1>4, <2>2, <2>3, <2>4, OneRowWritten
  <2>6. deliveries' \in [Phones -> Seq(Nat)]
    BY <1>1, <1>4 DEF IInv, TypeOK
  <2> QED
    BY <1>2, <2>5, <2>6 DEF IInv, TypeOK
<1> QED
  BY <1>3, <1>4 DEF ResendVerification

\* The wrong code that uses up the last attempt is the one that locks.
LEMMA ConfirmWrongStep ==
    ASSUME IInv, NEW c \in DOMAIN verifications, ConfirmWrong(c)
    PROVE  IInv'
<1> DEFINE v == verifications[c]
           row == RegisterFailure(v, now)
<1>1. v \in Verification /\ c \in Challenges /\ now \in Nat
  BY NowNat DEF IInv, TypeOK
<1>2. /\ verifications' = Put(verifications, c, row)
      /\ UNCHANGED <<now, accounts, sessions, audits, linkedAt, deliveries>>
  BY DEF ConfirmWrong
<1>3. v.lockedUntil = NoTime
  BY ConfirmableUnlocked DEF IInv, ConfirmWrong
<1>4. /\ row \in Verification /\ row.expiresAt = v.expiresAt
      /\ row.failedAttempts = v.failedAttempts + 1
      /\ row.lockedUntil = IF v.failedAttempts + 1 >= MaxFailedAttempts
                           THEN now + LockoutDuration ELSE v.lockedUntil
  BY <1>1, RegisterFailureRow
<1>5. /\ v.expiresAt \in Nat /\ v.expiresAt <= now + OTPTTL
      /\ v.failedAttempts \in Nat
      /\ v.failedAttempts < MaxFailedAttempts + audits[c]
  BY <1>1, <1>3 DEF IInv, CodeWindow, WrongCodesLeft, Verification
<1>6. /\ audits' \in [Challenges -> Nat] /\ audits' = audits
      /\ \A d \in Challenges : audits'[d] >= audits[d]
  BY <1>2 DEF IInv, TypeOK
<1>7. /\ row.expiresAt <= now + OTPTTL
      /\ row.lockedUntil # NoTime => row.expiresAt < row.lockedUntil
      /\ row.failedAttempts <= MaxFailedAttempts + audits'[c]
      /\ row.lockedUntil = NoTime => row.failedAttempts < MaxFailedAttempts + audits'[c]
  <2>1. /\ MaxFailedAttempts \in Nat /\ LockoutDuration \in Nat /\ OTPTTL \in Nat
        /\ OTPTTL < LockoutDuration /\ audits[c] \in Nat
    BY <1>1, ChallengeConstants DEF ChallengeConstants, IInv, TypeOK
  <2> HIDE DEF row, v
  <2>2. CASE v.failedAttempts + 1 >= MaxFailedAttempts
    BY <1>1, <1>4, <1>5, <1>6, <2>1, <2>2 DEF NoTime
  <2>3. CASE ~ (v.failedAttempts + 1 >= MaxFailedAttempts)
    BY <1>1, <1>3, <1>4, <1>5, <1>6, <2>1, <2>3 DEF NoTime
  <2> QED
    BY <2>2, <2>3
<1>8. /\ DOMAIN verifications' \subseteq Challenges
      /\ \A d \in DOMAIN verifications' : verifications'[d] \in Verification
      /\ CodeWindow' /\ LockOutlivesCode' /\ WrongCodesBounded' /\ WrongCodesLeft'
  <2> HIDE DEF row, v
  <2> QED
    BY <1>1, <1>2, <1>4, <1>6, <1>7, OneRowWritten
<1> QED
  BY <1>2, <1>8 DEF IInv, TypeOK

\* Marking a challenge verified leaves its lock, expiry and failures alone.
LEMMA MarkVerifiedStep ==
    ASSUME IInv, NEW c \in DOMAIN verifications,
           verifications' = Put(verifications, c, MarkVerified(verifications[c])),
           UNCHANGED <<now, audits>>
    PROVE  /\ DOMAIN verifications' \subseteq Challenges
           /\ \A d \in DOMAIN verifications' : verifications'[d] \in Verification
           /\ CodeWindow' /\ LockOutlivesCode' /\ WrongCodesBounded' /\ WrongCodesLeft'
<1> DEFINE v == verifications[c]
           row == MarkVerified(v)
<1>1. v \in Verification /\ c \in Challenges
  BY DEF IInv, TypeOK
<1>2. /\ row \in Verification /\ row.expiresAt = v.expiresAt
      /\ row.lockedUntil = v.lockedUntil /\ row.failedAttempts = v.failedAttempts
  BY <1>1, MarkVerifiedRow
<1>3. /\ audits' \in [Challenges -> Nat] /\ audits' = audits
      /\ \A d \in Challenges : audits'[d] >= audits[d]
  BY DEF IInv, TypeOK
<1>4. /\ v.expiresAt <= now + OTPTTL
      /\ v.lockedUntil # NoTime => v.expiresAt < v.lockedUntil
      /\ v.failedAttempts <= MaxFailedAttempts + audits'[c]
      /\ v.lockedUntil = NoTime => v.failedAttempts < MaxFailedAttempts + audits'[c]
  BY <1>3 DEF IInv, CodeWindow, LockOutlivesCode, WrongCodesBounded, WrongCodesLeft
<1>5. /\ row.expiresAt <= now + OTPTTL
      /\ row.lockedUntil # NoTime => row.expiresAt < row.lockedUntil
      /\ row.failedAttempts <= MaxFailedAttempts + audits'[c]
      /\ row.lockedUntil = NoTime => row.failedAttempts < MaxFailedAttempts + audits'[c]
  <2> HIDE DEF row, v
  <2> QED
    BY <1>2, <1>4
<1>6. verifications' = Put(verifications, c, row) /\ now' = now
  OBVIOUS
<1> HIDE DEF row, v
<1> QED
  BY <1>1, <1>2, <1>3, <1>5, <1>6, OneRowWritten

LEMMA IssueSessionTyped ==
    ASSUME TypeOK, NEW a \in Accounts, NEW grant \in Challenges \cup Subjects,
           IssueSession(a, grant)
    PROVE  /\ DOMAIN sessions' \subseteq Sessions
           /\ \A s \in DOMAIN sessions' : sessions'[s] \in Session
<1> DEFINE session == [account |-> a, grant |-> grant]
<1>1. PICK s \in Sessions : sessions' = Put(sessions, s, session)
  BY DEF IssueSession
<1>2. session \in Session
  BY DEF Session
<1> HIDE DEF session
<1> QED
  BY <1>1, <1>2, PutTyped DEF TypeOK

LEMMA ConfirmSignupStep ==
    ASSUME IInv, NEW c \in DOMAIN verifications, ConfirmSignup(c)
    PROVE  IInv'
<1> DEFINE v == verifications[c]
           account == [phone |-> v.phone, subject |-> v.subject]
<1>1. PICK a \in Accounts :
        accounts' = Put(accounts, a, account) /\ IssueSession(a, c)
  BY DEF ConfirmSignup
<1>2. c \in Challenges /\ account \in Account
  <2>1. c \in Challenges /\ v \in Verification
    BY DEF IInv, TypeOK
  <2> QED
    BY <2>1 DEF Verification, Account
<1>3. /\ DOMAIN accounts' \subseteq Accounts
      /\ \A x \in DOMAIN accounts' : accounts'[x] \in Account
  <2> HIDE DEF account
  <2> QED
    BY <1>1, <1>2, PutTyped DEF IInv, TypeOK
<1>4. /\ DOMAIN sessions' \subseteq Sessions
      /\ \A s \in DOMAIN sessions' : sessions'[s] \in Session
  BY <1>1, <1>2, IssueSessionTyped DEF IInv
<1>5. /\ verifications' = Put(verifications, c, MarkVerified(verifications[c]))
      /\ UNCHANGED <<now, audits, linkedAt, deliveries>>
  BY DEF ConfirmSignup
<1>6. /\ DOMAIN verifications' \subseteq Challenges
      /\ \A d \in DOMAIN verifications' : verifications'[d] \in Verification
      /\ CodeWindow' /\ LockOutlivesCode' /\ WrongCodesBounded' /\ WrongCodesLeft'
  BY <1>5, MarkVerifiedStep
<1> QED
  BY <1>3, <1>4, <1>5, <1>6 DEF IInv, TypeOK

LEMMA ConfirmSigninStep ==
    ASSUME IInv, NEW c \in DOMAIN verifications, ConfirmSignin(c)
    PROVE  IInv'
<1>1. PICK a \in DOMAIN accounts : IssueSession(a, c)
  BY DEF ConfirmSignin
<1>2. c \in Challenges /\ a \in Accounts
  BY DEF IInv, TypeOK
<1>3. /\ DOMAIN sessions' \subseteq Sessions
      /\ \A s \in DOMAIN sessions' : sessions'[s] \in Session
  BY <1>1, <1>2, IssueSessionTyped DEF IInv
<1>4. /\ verifications' = Put(verifications, c, MarkVerified(verifications[c]))
      /\ UNCHANGED <<now, accounts, audits, linkedAt, deliveries>>
  BY DEF ConfirmSignin
<1>5. /\ DOMAIN verifications' \subseteq Challenges
      /\ \A d \in DOMAIN verifications' : verifications'[d] \in Verification
      /\ CodeWindow' /\ LockOutlivesCode' /\ WrongCodesBounded' /\ WrongCodesLeft'
  BY <1>4, MarkVerifiedStep
<1> QED
  BY <1>3, <1>4, <1>5 DEF IInv, TypeOK

LEMMA GoogleExchangeStep ==
    ASSUME IInv, NEW subject \in Subjects, GoogleExchange(subject)
    PROVE  IInv'
<1>1. UNCHANGED <<now, verifications, accounts, audits, deliveries>>
  BY DEF GoogleExchange
<1>2. CASE \E a \in DOMAIN accounts : IssueSession(a, subject) /\ UNCHANGED linkedAt
  <2>1. /\ DOMAIN sessions' \subseteq Sessions
        /\ \A s \in DOMAIN sessions' : sessions'[s] \in Session
    BY <1>2, IssueSessionTyped DEF IInv, TypeOK
  <2> QED
    BY <1>1, <1>2, <2>1
    DEF IInv, TypeOK, CodeWindow, LockOutlivesCode, WrongCodesBounded, WrongCodesLeft
<1>3. CASE /\ linkedAt' = [linkedAt EXCEPT ![subject] = now]
           /\ UNCHANGED sessions
  <2>1. linkedAt' \in [Subjects -> Instant]
    BY <1>3, NowNat DEF IInv, TypeOK, Instant
  <2> QED
    BY <1>1, <1>3, <2>1
    DEF IInv, TypeOK, CodeWindow, LockOutlivesCode, WrongCodesBounded, WrongCodesLeft
<1> QED
  BY <1>2, <1>3 DEF GoogleExchange

\* A clear lifts the lock and leaves the failures, and its audit row is what
\* pays for the one more wrong code the challenge may now compare.
LEMMA ClearLockoutStep ==
    ASSUME IInv, NEW a \in DOMAIN accounts, ClearLockout(a)
    PROVE  IInv'
<1>1. PICK c \in DOMAIN verifications :
        /\ verifications' = Put(verifications, c, Unlock(verifications[c]))
        /\ audits' = [audits EXCEPT ![c] = @ + 1]
  BY DEF ClearLockout, LatestRows, RowsOf
<1> DEFINE v == verifications[c]
           row == Unlock(v)
<1>2. v \in Verification /\ c \in Challenges
  BY DEF IInv, TypeOK
<1>3. /\ row \in Verification /\ row.expiresAt = v.expiresAt
      /\ row.lockedUntil = NoTime /\ row.failedAttempts = v.failedAttempts
  BY <1>2, UnlockRow
<1>4. UNCHANGED <<now, accounts, sessions, linkedAt, deliveries>>
  BY DEF ClearLockout
<1>5. /\ audits' \in [Challenges -> Nat] /\ audits'[c] = audits[c] + 1
      /\ \A d \in Challenges : audits'[d] >= audits[d]
  BY <1>1, <1>2 DEF IInv, TypeOK
<1>6. /\ v.expiresAt <= now + OTPTTL /\ v.failedAttempts \in Nat
      /\ v.failedAttempts <= MaxFailedAttempts + audits[c]
      /\ MaxFailedAttempts \in Nat /\ audits[c] \in Nat
  BY <1>2, ChallengeConstants
  DEF ChallengeConstants, IInv, TypeOK, CodeWindow, WrongCodesBounded, Verification
<1>7. /\ row.expiresAt <= now + OTPTTL
      /\ row.failedAttempts <= MaxFailedAttempts + audits'[c]
      /\ row.failedAttempts < MaxFailedAttempts + audits'[c]
  <2> HIDE DEF row, v
  <2> QED
    BY <1>3, <1>5, <1>6
<1>8. /\ DOMAIN verifications' \subseteq Challenges
      /\ \A d \in DOMAIN verifications' : verifications'[d] \in Verification
      /\ CodeWindow' /\ LockOutlivesCode' /\ WrongCodesBounded' /\ WrongCodesLeft'
  <2>1. verifications' = Put(verifications, c, row) /\ now' = now
    BY <1>1, <1>4
  <2> HIDE DEF row, v
  <2> QED
    BY <1>2, <1>3, <1>5, <1>7, <2>1, OneRowWritten
<1> QED
  BY <1>4, <1>5, <1>8 DEF IInv, TypeOK

LEMMA TickStep == ASSUME IInv, Tick PROVE IInv'
<1>1. /\ now' = now + 1 /\ now < MaxTime /\ now \in Nat /\ now' \in 0..MaxTime
  BY BoundsAssumption DEF BoundsAssumption, IInv, TypeOK, Tick
<1>2. UNCHANGED <<verifications, accounts, sessions, audits, linkedAt, deliveries>>
  BY DEF Tick
<1>3. TypeOK'
  BY <1>1, <1>2 DEF IInv, TypeOK
<1>4. CodeWindow'
  <2> SUFFICES ASSUME NEW c \in DOMAIN verifications
               PROVE  verifications[c].expiresAt <= now + 1 + OTPTTL
    BY <1>1, <1>2 DEF CodeWindow
  <2>1. verifications[c].expiresAt \in Nat /\ verifications[c].expiresAt <= now + OTPTTL
    BY DEF IInv, TypeOK, CodeWindow, Verification
  <2> QED
    BY <1>1, <2>1, ChallengeConstants DEF ChallengeConstants
<1> QED
  BY <1>2, <1>3, <1>4 DEF IInv, LockOutlivesCode, WrongCodesBounded, WrongCodesLeft

LEMMA NextIInv == IInv /\ [Next]_vars => IInv'
<1> SUFFICES ASSUME IInv, [Next]_vars PROVE IInv'
  OBVIOUS
<1>1. CASE UNCHANGED vars
  BY <1>1 DEF vars, IInv, TypeOK, CodeWindow, LockOutlivesCode, WrongCodesBounded,
              WrongCodesLeft
<1>2. CASE Tick
  BY <1>2, TickStep
<1>3. ASSUME NEW p \in Phones, NEW intent \in Intents,
             NEW subject \in Subjects \cup {None}, RequestVerification(p, intent, subject)
      PROVE  IInv'
  <2>1. UNCHANGED <<now, accounts, sessions, audits, linkedAt>>
    BY <1>3 DEF RequestVerification, OpenChallenge
  <2>2. CASE SendNewChallenge(p, intent, subject)
    BY <2>1, <2>2, RequestStep
  <2>3. ASSUME NEW c \in LatestRows(p), LockLatest(c)
        PROVE  IInv'
    BY <2>1, <2>3, LockLatestStep DEF LatestRows, RowsOf
  <2> QED
    BY <1>3, <2>2, <2>3 DEF RequestVerification, OpenChallenge
<1>4. ASSUME NEW c \in DOMAIN verifications,
             \/ ResendVerification(c) \/ ConfirmWrong(c)
             \/ ConfirmSignup(c) \/ ConfirmSignin(c)
      PROVE  IInv'
  BY <1>4, ResendStep, ConfirmWrongStep, ConfirmSignupStep, ConfirmSigninStep
<1>5. ASSUME NEW subject \in Subjects, GoogleExchange(subject) PROVE IInv'
  BY <1>5, GoogleExchangeStep
<1>6. ASSUME NEW a \in DOMAIN accounts, ClearLockout(a) PROVE IInv'
  BY <1>6, ClearLockoutStep
<1> QED
  BY <1>1, <1>2, <1>3, <1>4, <1>5, <1>6 DEF Next, ClientRequest, AdminRequest

-----------------------------------------------------------------------------
(* The theorems. *)

LEMMA Invariance == Spec => []IInv
<1>1. Init => IInv
  BY InitIInv
<1>2. IInv /\ [Next]_vars => IInv'
  BY NextIInv
<1> QED
  BY <1>1, <1>2, PTL DEF Spec

\* Every table keeps its type and draws its ids from its pool.
THEOREM TypeCorrect == Spec => []TypeOK
<1>1. IInv => TypeOK
  BY DEF IInv
<1> QED
  BY <1>1, Invariance, PTL

\* Waiting a lock out never brings a code back: the code is dead before the
\* lock is (service.go:234, 241, 426).
THEOREM LockedCodesDie == Spec => []LockOutlivesCode
<1>1. IInv => LockOutlivesCode
  BY DEF IInv
<1> QED
  BY <1>1, Invariance, PTL

\* Whatever a client does, a challenge compares no more wrong codes in its life
\* than the limit plus one per administrator's clear (service.go:234-254).
THEOREM WrongCodesAreBounded == Spec => []WrongCodesBounded
<1>1. IInv => WrongCodesBounded
  BY DEF IInv
<1> QED
  BY <1>1, Invariance, PTL

-----------------------------------------------------------------------------
(* One session per challenge, unless an administrator reopened it.  The      *)
(* strengthening, Spent, says what a granted challenge looks like for ever.  *)

Dead(row) == row.status = "verified" \/ row.lockedUntil # NoTime

\* A challenge that yielded a session and was never cleared is verified, or is
\* locked over that; either way it is not confirmable.
Spent ==
    \A c \in Challenges : audits[c] = 0 /\ GrantsOf(c) # {} =>
        c \in DOMAIN verifications /\ Dead(verifications[c])

LEMMA SpentRefuses ==
    ASSUME IInv, Spent, NEW c \in DOMAIN verifications,
           Confirmable(verifications[c], now), audits[c] = 0
    PROVE  GrantsOf(c) = {}
<1>1. verifications[c].lockedUntil = NoTime /\ c \in Challenges
  BY ConfirmableUnlocked DEF IInv, TypeOK
<1>2. verifications[c].status # "verified"
  BY DEF Confirmable
<1> QED
  BY <1>1, <1>2 DEF Spent, Dead

LEMMA OneRowSpent ==
    ASSUME IInv, Spent, ReplayNeedsClear, NEW c \in Challenges, NEW row,
           verifications' = Put(verifications, c, row),
           \A d \in Challenges : audits'[d] = 0 => audits[d] = 0,
           \A d \in Challenges \ {c} : GrantsOf(d)' = GrantsOf(d),
           audits'[c] = 0 =>
             \/ GrantsOf(c)' = {}
             \/ Dead(row) /\ \A s, t \in GrantsOf(c)' : s = t
    PROVE  Spent' /\ ReplayNeedsClear'
<1>1. /\ DOMAIN verifications' = DOMAIN verifications \cup {c}
      /\ verifications'[c] = row
      /\ \A d \in DOMAIN verifications : d # c => verifications'[d] = verifications[d]
  BY DEF Put
<1>2. ASSUME NEW d \in Challenges, audits'[d] = 0, GrantsOf(d)' # {}
      PROVE  d \in DOMAIN verifications' /\ Dead(verifications'[d])
  BY <1>1, <1>2 DEF Spent
<1>3. ASSUME NEW d \in Challenges, audits'[d] = 0
      PROVE  \A s, t \in GrantsOf(d)' : s = t
  BY <1>3 DEF ReplayNeedsClear
<1>4. Spent'
  BY <1>2 DEF Spent, Dead
<1> QED
  BY <1>3, <1>4 DEF ReplayNeedsClear

\* A step that only extends table session for a grant which is no challenge, or
\* leaves it alone, changes no challenge's grants.
LEMMA IssueSessionGrants ==
    ASSUME TypeOK, NEW a, NEW grant, IssueSession(a, grant)
    PROVE  /\ \A d \in Challenges \ {grant} : GrantsOf(d)' = GrantsOf(d)
           /\ \E s \in Sessions : GrantsOf(grant)' = GrantsOf(grant) \cup {s}
<1>1. PICK s \in Sessions \ DOMAIN sessions :
        sessions' = Put(sessions, s, [account |-> a, grant |-> grant])
  BY DEF IssueSession
<1>2. /\ DOMAIN sessions' = DOMAIN sessions \cup {s}
      /\ sessions'[s].grant = grant
      /\ \A x \in DOMAIN sessions : sessions'[x] = sessions[x]
  BY <1>1 DEF Put
<1> QED
  BY <1>2 DEF GrantsOf

LEMMA NoSessionSameGrants ==
    ASSUME UNCHANGED sessions
    PROVE  \A d \in Challenges : GrantsOf(d)' = GrantsOf(d)
BY DEF GrantsOf

\* The session a confirm issues is the first of its challenge.
LEMMA ConfirmRightSpends ==
    ASSUME IInv, Spent, ReplayNeedsClear, NEW c \in DOMAIN verifications,
           Confirmable(verifications[c], now), NEW a, IssueSession(a, c),
           verifications' = Put(verifications, c, MarkVerified(verifications[c])),
           UNCHANGED audits
    PROVE  Spent' /\ ReplayNeedsClear'
<1>1. c \in Challenges /\ verifications[c] \in Verification
  BY DEF IInv, TypeOK
<1>2. Dead(MarkVerified(verifications[c]))
  BY <1>1 DEF Dead, MarkVerified, Verification
<1>3. /\ \A d \in Challenges \ {c} : GrantsOf(d)' = GrantsOf(d)
      /\ \E s \in Sessions : GrantsOf(c)' = GrantsOf(c) \cup {s}
  BY IssueSessionGrants DEF IInv
<1>4. audits'[c] = 0 => \A s, t \in GrantsOf(c)' : s = t
  BY <1>3, SpentRefuses
<1> QED
  BY <1>1, <1>2, <1>3, <1>4, OneRowSpent

\* Locking, resending or failing a challenge keeps it spent if it was.
LEMMA RowRewritten ==
    ASSUME IInv, Spent, ReplayNeedsClear, NEW c \in DOMAIN verifications, NEW row,
           verifications' = Put(verifications, c, row), UNCHANGED <<sessions, audits>>,
           Confirmable(verifications[c], now) \/ Dead(row)
    PROVE  Spent' /\ ReplayNeedsClear'
<1>1. c \in Challenges /\ \A d \in Challenges : GrantsOf(d)' = GrantsOf(d)
  BY NoSessionSameGrants DEF IInv, TypeOK
<1>2. audits'[c] = 0 =>
        \/ GrantsOf(c)' = {}
        \/ Dead(row) /\ \A s, t \in GrantsOf(c)' : s = t
  BY <1>1, SpentRefuses DEF ReplayNeedsClear
<1> QED
  BY <1>1, <1>2, OneRowSpent

LEMMA LockedIsDead ==
    ASSUME IInv, NEW c \in DOMAIN verifications
    PROVE  Dead(Lock(verifications[c], now))
<1>1. verifications[c] \in Verification /\ now \in Nat /\ LockoutDuration \in Nat
  BY NowNat, ChallengeConstants DEF ChallengeConstants, IInv, TypeOK
<1> QED
  BY <1>1, LockRow DEF Dead, NoTime

LEMMA NextSpent == IInv /\ Spent /\ ReplayNeedsClear /\ [Next]_vars
                     => Spent' /\ ReplayNeedsClear'
<1> SUFFICES ASSUME IInv, Spent, ReplayNeedsClear, [Next]_vars
             PROVE  Spent' /\ ReplayNeedsClear'
  OBVIOUS
<1>1. CASE UNCHANGED <<verifications, sessions, audits>>
  BY <1>1, NoSessionSameGrants DEF Spent, ReplayNeedsClear, Dead
<1>2. ASSUME NEW p \in Phones, NEW intent \in Intents,
             NEW subject \in Subjects \cup {None}, RequestVerification(p, intent, subject)
      PROVE  Spent' /\ ReplayNeedsClear'
  <2>1. UNCHANGED <<sessions, audits>>
    BY <1>2 DEF RequestVerification, OpenChallenge
  <2>2. CASE SendNewChallenge(p, intent, subject)
    <3>1. PICK c \in Challenges \ DOMAIN verifications :
            \E row : verifications' = Put(verifications, c, row)
      BY <2>2 DEF SendNewChallenge
    <3>2. audits'[c] = 0 => GrantsOf(c)' = {}
      BY <2>1, <3>1, NoSessionSameGrants DEF Spent
    <3> QED
      BY <2>1, <3>1, <3>2, NoSessionSameGrants, OneRowSpent
  <2>3. ASSUME NEW c \in LatestRows(p), LockLatest(c)
        PROVE  Spent' /\ ReplayNeedsClear'
    BY <2>1, <2>3, LockedIsDead, RowRewritten DEF LatestRows, RowsOf, LockLatest
  <2> QED
    BY <1>2, <2>2, <2>3 DEF RequestVerification, OpenChallenge
<1>3. ASSUME NEW c \in DOMAIN verifications, ResendVerification(c) \/ ConfirmWrong(c)
      PROVE  Spent' /\ ReplayNeedsClear'
  <2>1. /\ UNCHANGED <<sessions, audits>> /\ Confirmable(verifications[c], now)
        /\ \E row : verifications' = Put(verifications, c, row)
    BY <1>3 DEF ResendVerification, ConfirmWrong, Resendable, LockLatest
  <2> QED
    BY <2>1, RowRewritten
<1>4. ASSUME NEW c \in DOMAIN verifications, ConfirmSignup(c) \/ ConfirmSignin(c)
      PROVE  Spent' /\ ReplayNeedsClear'
  <2>1. /\ Confirmable(verifications[c], now) /\ UNCHANGED audits
        /\ verifications' = Put(verifications, c, MarkVerified(verifications[c]))
        /\ \E a : IssueSession(a, c)
    BY <1>4 DEF ConfirmSignup, ConfirmSignin
  <2> QED
    BY <2>1, ConfirmRightSpends
<1>5. ASSUME NEW subject \in Subjects, GoogleExchange(subject)
      PROVE  Spent' /\ ReplayNeedsClear'
  <2>1. UNCHANGED <<verifications, audits>>
    BY <1>5 DEF GoogleExchange
  <2>2. \A d \in Challenges : GrantsOf(d)' = GrantsOf(d)
    <3>1. CASE UNCHANGED sessions
      BY <3>1, NoSessionSameGrants
    <3>2. CASE \E a : IssueSession(a, subject)
      BY <3>2, IssueSessionGrants, GrantsAreApart DEF GrantsAreApart, IInv
    <3> QED
      BY <1>5, <3>1, <3>2 DEF GoogleExchange
  <2> QED
    BY <2>1, <2>2 DEF Spent, ReplayNeedsClear, Dead
<1>6. ASSUME NEW a \in DOMAIN accounts, ClearLockout(a)
      PROVE  Spent' /\ ReplayNeedsClear'
  <2>1. PICK c \in DOMAIN verifications :
          /\ verifications' = Put(verifications, c, Unlock(verifications[c]))
          /\ audits' = [audits EXCEPT ![c] = @ + 1]
    BY <1>6 DEF ClearLockout, LatestRows, RowsOf
  <2>2. UNCHANGED sessions
    BY <1>6 DEF ClearLockout
  <2>3. c \in Challenges /\ audits \in [Challenges -> Nat]
    BY DEF IInv, TypeOK
  <2>4. audits'[c] # 0 /\ \A d \in Challenges : audits'[d] = 0 => audits[d] = 0
    BY <2>1, <2>3
  <2> QED
    BY <2>1, <2>2, <2>3, <2>4, NoSessionSameGrants, OneRowSpent
<1> QED
  BY <1>1, <1>2, <1>3, <1>4, <1>5, <1>6 DEF Next, ClientRequest, AdminRequest, vars, Tick

\* Without an administrator's clear, no challenge ever yields two sessions,
\* whatever the cap lock does to its status (service.go:174, 237).
THEOREM ReplaysNeedClears == Spec => []ReplayNeedsClear
<1>1. Init => Spent /\ ReplayNeedsClear
  BY DEF Init, Spent, ReplayNeedsClear, GrantsOf
<1>2. IInv /\ Spent /\ ReplayNeedsClear /\ [Next]_vars => Spent' /\ ReplayNeedsClear'
  BY NextSpent
<1> QED
  BY <1>1, <1>2, Invariance, PTL DEF Spec
=============================================================================
