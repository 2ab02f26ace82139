------------------------------ MODULE AuthService ------------------------------
(***************************************************************************)
(* internal/auth/service.go, one request at a time: each action is a whole *)
(* handler of Service run to its end before the next starts.  What the     *)
(* rules promise when nothing races is stated here; AuthConcurrent takes   *)
(* the same handlers apart statement by statement.  The provider delivers  *)
(* and the database answers: their failures are in AuthConcurrent.  A      *)
(* submitted code is only right or wrong.  Refusals change nothing.        *)
(***************************************************************************)
EXTENDS AuthDomain, Sequences, FiniteSets, FiniteSetsExt

CONSTANTS
    Phones, Subjects,            \* normalized phones; Google subjects
    None,                        \* no Google subject
    Challenges, Accounts, Sessions,  \* row ids (uuid.New) still to be drawn
    MaxTime,                     \* bound on the clock
    MaxClears                    \* bound on the clears of one challenge

ASSUME NoneIsNoSubject == None \notin Subjects
ASSUME GrantsAreApart == Subjects \cap Challenges = {}
ASSUME BoundsAssumption == MaxTime \in Nat /\ MaxClears \in Nat

VARIABLES
    now,            \* Clock.Now
    verifications,  \* table verification
    accounts,       \* table user_account
    sessions,       \* table session: account, and the challenge or subject shown
    audits,         \* table audit_event, counted by metadata.verification_id
    linkedAt,       \* issue time of the newest pending-link token of a subject
    deliveries      \* history: when codes reached each phone

vars == <<now, verifications, accounts, sessions, audits, linkedAt, deliveries>>

Verification ==
    [phone : Phones, intent : Intents, subject : Subjects \cup {None},
     sentAt : Nat, expiresAt : Nat, failedAttempts : Nat, sendsInWindow : Nat,
     lockedUntil : Instant, status : Statuses]

Account == [phone : Phones, subject : Subjects \cup {None}]

Session == [account : Accounts, grant : Challenges \cup Subjects]

\* Each table holds rows of its type, under ids drawn from its pool.
TypeOK ==
    /\ now \in 0..MaxTime
    /\ DOMAIN verifications \subseteq Challenges
    /\ \A c \in DOMAIN verifications : verifications[c] \in Verification
    /\ DOMAIN accounts \subseteq Accounts
    /\ \A a \in DOMAIN accounts : accounts[a] \in Account
    /\ DOMAIN sessions \subseteq Sessions
    /\ \A s \in DOMAIN sessions : sessions[s] \in Session
    /\ audits \in [Challenges -> Nat]
    /\ linkedAt \in [Subjects -> Instant]
    /\ deliveries \in [Phones -> Seq(Nat)]

Init ==
    /\ now = 0
    /\ verifications = << >> /\ accounts = << >> /\ sessions = << >>
    /\ audits = [c \in Challenges |-> 0]
    /\ linkedAt = [s \in Subjects |-> NoTime]
    /\ deliveries = [p \in Phones |-> << >>]

-----------------------------------------------------------------------------
(* Reads. *)

HasAccount(p) == \E a \in DOMAIN accounts : accounts[a].phone = p

RowsOf(p) == {c \in DOMAIN verifications : verifications[c].phone = p}

\* ORDER BY sent_at DESC LIMIT 1: any of the rows that share the last send.
LatestRows(p) ==
    {c \in RowsOf(p) : \A d \in RowsOf(p) :
        verifications[d].sentAt <= verifications[c].sentAt}

\* Bugs: challenges are counted instead of their sends; the window is ignored.
BugCountChallenges(p, since) ==
    Cardinality({c \in RowsOf(p) : verifications[c].sentAt >= since})
BugCountForever(p, since) ==
    MapThenSumSet(LAMBDA c : verifications[c].sendsInWindow, RowsOf(p))

CountSendsSince(p, since) ==
    LET inWindow == {c \in RowsOf(p) : verifications[c].sentAt >= since}
    IN  MapThenSumSet(LAMBDA c : verifications[c].sendsInWindow, inWindow)

\* phone and google_subject are both UNIQUE; either one fails the insert.
UniqueViolation(p, subject) ==
    \E a \in DOMAIN accounts :
        \/ accounts[a].phone = p
        \/ subject # None /\ accounts[a].subject = subject

\* A pending-link token is honoured until its exp, exclusively.
LinkHonoured(subject) ==
    subject # None =>
        linkedAt[subject] # NoTime /\ now < linkedAt[subject] + OTPTTL

-----------------------------------------------------------------------------
(* RequestVerification. *)

IntentFits(p, intent, subject) ==
    IF intent = "signup" THEN ~HasAccount(p) ELSE HasAccount(p) /\ subject = None

CapReachedAt(p, t) == CountSendsSince(p, t - SendCapWindow) >= MaxSendsPerWindow

CapReached(p) == CapReachedAt(p, now)

LockLatest(c) ==
    /\ verifications' = Put(verifications, c, Lock(verifications[c], now))
    /\ UNCHANGED deliveries

SendNewChallenge(p, intent, subject) ==
    \E c \in Challenges \ DOMAIN verifications :
        LET fresh == [phone |-> p, intent |-> intent, subject |-> subject,
                      sentAt |-> 0, expiresAt |-> 0, failedAttempts |-> 0,
                      sendsInWindow |-> 0, lockedUntil |-> NoTime,
                      status |-> "pending"]
        IN /\ verifications' = Put(verifications, c, RegisterSend(fresh, now))
           /\ deliveries' = [deliveries EXCEPT ![p] = Append(@, now)]

\* What is left of the handler once the link token has been settled.
OpenChallenge(p, intent, subject) ==
    /\ IntentFits(p, intent, subject)
    /\ \/ LatestRows(p) = {} /\ SendNewChallenge(p, intent, subject)
       \/ \E c \in LatestRows(p) :
            /\ Requestable(verifications[c], now)
            /\ IF CapReached(p) THEN LockLatest(c)
                                ELSE SendNewChallenge(p, intent, subject)
    /\ UNCHANGED <<now, accounts, sessions, audits, linkedAt>>

RequestVerification(p, intent, subject) ==
    LinkHonoured(subject) /\ OpenChallenge(p, intent, subject)

-----------------------------------------------------------------------------
(* ResendVerification. *)

ResendVerification(c) ==
    LET v == verifications[c]
    IN  /\ Resendable(v, now)
        /\ \/ SendCapReached(v) /\ LockLatest(c)
           \/ /\ ~SendCapReached(v)
              /\ verifications' = Put(verifications, c, RegisterSend(v, now))
              /\ deliveries' = [deliveries EXCEPT ![v.phone] = Append(@, now)]
        /\ UNCHANGED <<now, accounts, sessions, audits, linkedAt>>

-----------------------------------------------------------------------------
(* ConfirmVerification, by the three ends a confirmable challenge has. *)

ConfirmWrong(c) ==
    /\ Confirmable(verifications[c], now)
    /\ verifications' = Put(verifications, c, RegisterFailure(verifications[c], now))
    /\ UNCHANGED <<now, accounts, sessions, audits, linkedAt, deliveries>>

IssueSession(a, grant) ==
    \E s \in Sessions \ DOMAIN sessions :
        sessions' = Put(sessions, s, [account |-> a, grant |-> grant])

ConfirmSignup(c) ==
    LET v == verifications[c]
    IN  /\ Confirmable(v, now) /\ v.intent = "signup"
        /\ ~UniqueViolation(v.phone, v.subject)
        /\ \E a \in Accounts \ DOMAIN accounts :
            /\ accounts' = Put(accounts, a, [phone |-> v.phone, subject |-> v.subject])
            /\ IssueSession(a, c)
        /\ verifications' = Put(verifications, c, MarkVerified(v))
        /\ UNCHANGED <<now, audits, linkedAt, deliveries>>

ConfirmSignin(c) ==
    LET v == verifications[c]
    IN  /\ Confirmable(v, now) /\ v.intent = "signin"
        /\ \E a \in DOMAIN accounts :
            accounts[a].phone = v.phone /\ IssueSession(a, c)
        /\ verifications' = Put(verifications, c, MarkVerified(v))
        /\ UNCHANGED <<now, accounts, audits, linkedAt, deliveries>>

-----------------------------------------------------------------------------
(* GoogleExchange of a token the verifier accepts for subject. *)

GoogleExchange(subject) ==
    LET linked == {a \in DOMAIN accounts : accounts[a].subject = subject}
    IN  /\ \/ \E a \in linked : IssueSession(a, subject) /\ UNCHANGED linkedAt
           \/ /\ linked = {}
              /\ linkedAt' = [linkedAt EXCEPT ![subject] = now]
              /\ UNCHANGED sessions
        /\ UNCHANGED <<now, verifications, accounts, audits, deliveries>>

(* ClearLockout: only the latest row is looked at. *)

ClearLockout(a) ==
    /\ \E c \in LatestRows(accounts[a].phone) :
        /\ IsLocked(verifications[c], now) /\ audits[c] < MaxClears
        /\ verifications' = Put(verifications, c, Unlock(verifications[c]))
        /\ audits' = [audits EXCEPT ![c] = @ + 1]
    /\ UNCHANGED <<now, accounts, sessions, linkedAt, deliveries>>

Tick == now < MaxTime /\ now' = now + 1
        /\ UNCHANGED <<verifications, accounts, sessions, audits, linkedAt, deliveries>>

\* The routes of a user: request, resend, confirm and google-exchange.
ClientRequest ==
    \/ \E p \in Phones, intent \in Intents, subject \in Subjects \cup {None} :
         RequestVerification(p, intent, subject)
    \/ \E c \in DOMAIN verifications :
         \/ ResendVerification(c)
         \/ ConfirmWrong(c)
         \/ ConfirmSignup(c)
         \/ ConfirmSignin(c)
    \/ \E subject \in Subjects : GoogleExchange(subject)

\* The administrator's route that writes.
AdminRequest == \E a \in DOMAIN accounts : ClearLockout(a)

Next == Tick \/ ClientRequest \/ AdminRequest

Spec == Init /\ [][Next]_vars

-----------------------------------------------------------------------------
(* Properties of the handlers when requests do not overlap. *)

\* A code dies before the lock on its challenge does (service.go:426, 693;
\* domain.go:281), so waiting a lock out never brings a code back to life.
LockOutlivesCode ==
    \A c \in DOMAIN verifications :
        verifications[c].lockedUntil # NoTime =>
            verifications[c].expiresAt < verifications[c].lockedUntil

\* However a client mixes confirms, resends, fresh requests and waiting, a
\* challenge compares at most MaxFailedAttempts wrong codes in its whole life,
\* plus one for each time an administrator clears it (service.go:234-254).
WrongCodesBounded ==
    \A c \in DOMAIN verifications :
        verifications[c].failedAttempts <= MaxFailedAttempts + audits[c]

GrantsOf(c) == {s \in DOMAIN sessions : sessions[s].grant = c}

\* Without an administrator's clear, a challenge yields at most one session,
\* even though the cap lock of RequestVerification overwrites status verified
\* (service.go:174, 237).
ReplayNeedsClear ==
    \A c \in Challenges : audits[c] = 0 => \A s, t \in GrantsOf(c) : s = t

DeliveredSince(p, since) ==
    Cardinality({i \in DOMAIN deliveries[p] : deliveries[p][i] >= since})

Uncleared(p) == \A c \in RowsOf(p) : audits[c] = 0

\* The sum of sends_in_window never undercounts: as long as no clear reset it,
\* RequestVerification opens a challenge only for a phone that truly received
\* fewer than MaxSendsPerWindow codes in the window (service.go:145-181).
RequestRespectsCap ==
    [][\A c \in DOMAIN verifications' \ DOMAIN verifications :
          LET p == verifications'[c].phone
          IN  Uncleared(p) => DeliveredSince(p, now - SendCapWindow) < MaxSendsPerWindow
      ]_vars

\* A request weighs the sends of all the phone's challenges, a resend only its
\* own, so a phone may get more codes in a window than FR-029's cap of 5; but not
\* more than 5 challenges of 5 codes each (service.go:165, 432).
SendsPerPhoneBounded ==
    \A p \in Phones : Uncleared(p) =>
        DeliveredSince(p, now - SendCapWindow) <= MaxSendsPerWindow * MaxSendsPerWindow

\* A phone that has waited out the lock on its latest challenge is not locked
\* again by its next request: every send before the lock has left the window
\* by then (LockoutDuration against SendCapWindow, service.go:165-179).  From the
\* instant after the lapse: at lockedUntil itself IsLocked is false already, but
\* a send of the instant of the lock, sent_at >= since, still counts.
LapsedLockFreesPhone ==
    \A p \in Phones : \A c \in LatestRows(p) :
        verifications[c].lockedUntil # NoTime /\ now > verifications[c].lockedUntil
            => ~CapReached(p)

\* Waiting is always enough: whatever happened to a phone, once it has been left
\* alone for a lock and a send window, a request for it is neither locked nor
\* cooling down nor at the cap, so no sequence of calls shuts a user out for
\* good (service.go:145-181; domain.go:224-244).
Quiet == Max({LockoutDuration, ResendCooldown, SendCapWindow + 1})
PhoneRecovers ==
    \A p \in Phones :
        /\ \A c \in LatestRows(p) : Requestable(verifications[c], now + Quiet)
        /\ ~CapReachedAt(p, now + Quiet)

-----------------------------------------------------------------------------
(* What the repository says of the program, and the handlers do not do. *)

\* README.md:22: a locked-out number cannot escape by starting a fresh request.
LockedPhoneGetsNoCode ==
    [][\A fresh \in DOMAIN verifications' \ DOMAIN verifications :
          \A c \in RowsOf(verifications'[fresh].phone) :
              ~IsLocked(verifications[c], now)]_vars

\* service.go:659-661: a clear resets the count so that the next send does not
\* lock the phone again.
ClearFreesPhone ==
    [][\A c \in Challenges : audits'[c] # audits[c] =>
          ~CapReached(verifications[c].phone)']_vars
=============================================================================
