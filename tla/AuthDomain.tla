------------------------------ MODULE AuthDomain ------------------------------
(***************************************************************************)
(* The timed rules of internal/auth/domain.go: what a one-time-passcode    *)
(* challenge (a row of table verification) is allowed to do at an instant, *)
(* and how each rule changes the row.  Rows are records; times are natural *)
(* numbers in an arbitrary unit, and NoTime is the nil *time.Time.         *)
(***************************************************************************)
EXTENDS Integers

CONSTANTS
    OTPTTL,             \* a code is accepted for this long after its send
    LockoutDuration,    \* length of a lock
    ResendCooldown,     \* minimum gap between two sends of a challenge
    MaxFailedAttempts,  \* the wrong code that locks
    MaxSendsPerWindow,  \* sends allowed in one SendCapWindow
    SendCapWindow       \* the rolling window of the send cap

\* The shape of the constants of domain.go:64-76 (10 min, 30 min, 60 s, 5, 5,
\* 30 min): a lock lasts longer than a code.
ASSUME ChallengeConstants ==
    /\ OTPTTL \in Nat /\ LockoutDuration \in Nat /\ OTPTTL < LockoutDuration
    /\ ResendCooldown \in Nat \ {0}
    /\ MaxFailedAttempts \in Nat \ {0}
    /\ MaxSendsPerWindow \in Nat \ {0}
    /\ SendCapWindow \in Nat

NoTime == -1
Instant == Nat \cup {NoTime}

Intents  == {"signup", "signin"}
Statuses == {"pending", "locked", "verified"}

-----------------------------------------------------------------------------
(* Predicates on a row v at instant t. *)

IsExpired(v, t) == t > v.expiresAt

\* Bug: the status is taken for the authority; a lock never lifts.
BugLockedByStatus(v, t) == v.status = "locked"

IsLocked(v, t) == v.lockedUntil # NoTime /\ t < v.lockedUntil

ResendReady(v, t) == t >= v.sentAt + ResendCooldown

\* Bug: a challenge at its cap gets one more code.
BugCapOneLate(v) == v.sendsInWindow > MaxSendsPerWindow

SendCapReached(v) == v.sendsInWindow >= MaxSendsPerWindow

-----------------------------------------------------------------------------
(* The row a rule leaves behind. *)

RegisterSend(v, t) ==
    [v EXCEPT !.sendsInWindow = @ + 1, !.sentAt = t, !.expiresAt = t + OTPTTL]

Lock(v, t) ==
    [v EXCEPT !.lockedUntil = t + LockoutDuration, !.status = "locked"]

\* Bugs for the mutation runs: the lock comes one wrong code late; the counter
\* holds the attempts that remain and goes down.
BugLockOneLate(v, t) ==
    LET failed == [v EXCEPT !.failedAttempts = @ + 1]
    IN  IF v.failedAttempts > MaxFailedAttempts THEN Lock(failed, t) ELSE failed
BugCountDown(v, t) == [v EXCEPT !.failedAttempts = @ - 1]

RegisterFailure(v, t) ==
    LET failed == [v EXCEPT !.failedAttempts = @ + 1]
    IN  IF failed.failedAttempts >= MaxFailedAttempts THEN Lock(failed, t)
                                                      ELSE failed

MarkVerified(v) == [v EXCEPT !.status = "verified"]

\* ClearLockout's edit of the row it read: the failure count stays.
Unlock(v) == [v EXCEPT !.lockedUntil = NoTime, !.sendsInWindow = 0,
                       !.status = "pending"]

-----------------------------------------------------------------------------
(* What the handlers decide from the row they read and their clock. *)

\* Bugs: a consumed challenge passes; an expired one can be resent.
BugConsumedPasses(v, t) == ~IsLocked(v, t) /\ ~IsExpired(v, t)
BugExpiredResent(v, t) ==
    ~IsLocked(v, t) /\ v.status # "verified" /\ ResendReady(v, t)

\* ConfirmVerification compares the code only past these three refusals.
Confirmable(v, t) == ~IsLocked(v, t) /\ v.status # "verified" /\ ~IsExpired(v, t)

\* ResendVerification goes on to the send cap only past these three refusals.
Resendable(v, t) == Confirmable(v, t) /\ ResendReady(v, t)

\* RequestVerification's two refusals that depend on the phone's latest row.
Requestable(v, t) == ~IsLocked(v, t) /\ ResendReady(v, t)

-----------------------------------------------------------------------------
(* Tables are functions from row ids; Put inserts or overwrites one row. *)

Put(table, id, row) ==
    [x \in DOMAIN table \cup {id} |-> IF x = id THEN row ELSE table[x]]
=============================================================================
