--------------------------- MODULE GoogleLink_proofs ---------------------------
(***************************************************************************)
(* Theorems about GoogleLink, for every number of replicas, starts and     *)
(* tokens.  The processes implement the link rule of AuthService, so its   *)
(* invariants hold of them; on top of these go where the tokens come from, *)
(* which secrets there can be, and how old the proof behind a challenge    *)
(* may have grown.                                                         *)
(***************************************************************************)
EXTENDS GoogleLink, AuthService_proofs

\* The parts of LinkTypeOK that AuthService knows nothing of.
ProcessTypeOK ==
    /\ config \in Config
    /\ starts \in 0..MaxStarts
    /\ secret \in [Replicas -> Secrets \cup {Down}]
    /\ tokens \subseteq Token
    /\ createdAt \in [DOMAIN accounts -> Nat]

\* No token is newer than the newest one its subject was given.
TokensKnown ==
    \A tok \in tokens :
        tok.at <= now /\ linkedAt[tok.subject] # NoTime /\ tok.at <= linkedAt[tok.subject]

\* A process runs only on an environment Load accepts, and a configured secret
\* is the only one there is.
OneSecret ==
    /\ \A r \in Replicas : secret[r] # Down => Loads(config)
    /\ config.linkSecret =>
        /\ \A r \in Replicas : secret[r] # Down => secret[r] = Configured
        /\ \A tok \in tokens : tok.secret = Configured

\* Token tok proves what a challenge v of so many sends still relies on.
Backs(tok, v) ==
    /\ tok.subject = v.subject
    /\ v.expiresAt < tok.at + OTPTTL * (1 + v.sendsInWindow)

\* A challenge that can still make a linked account has a token behind it that
\* is one code's life older than its sends allow, at most.  A clear forgets
\* sends, but it takes an account on the phone.
ProofsFresh ==
    \A c \in DOMAIN verifications :
        verifications[c].subject # None /\ ~HasAccount(verifications[c].phone) =>
            /\ verifications[c].sendsInWindow <= MaxSendsPerWindow
            /\ \E tok \in tokens : Backs(tok, verifications[c])

LinkIInv == IInv /\ ProcessTypeOK /\ TokensKnown

-----------------------------------------------------------------------------
(* Arithmetic. *)

LEMMA RoundDown ==
    ASSUME NEW n \in Nat, NEW d \in Nat \ {0}
    PROVE  /\ (n \div d) * d \in Nat
           /\ (n \div d) * d <= n /\ n < (n \div d) * d + d
<1>1. n \div d \in Nat
  OBVIOUS
<1>2. n = d * (n \div d) + (n % d) /\ n % d \in 0..(d - 1)
  OBVIOUS
<1> QED
  BY <1>1, <1>2

LEMMA OneMoreLife ==
    ASSUME NEW ttl \in Nat, NEW n \in Nat
    PROVE  ttl * (1 + (n + 1)) = ttl * (1 + n) + ttl /\ ttl * (1 + n) \in Nat
OBVIOUS

LEMMA MoreLives ==
    ASSUME NEW ttl \in Nat, NEW m \in Nat, NEW n \in Nat, m <= n
    PROVE  ttl * (1 + m) <= ttl * (1 + n)
OBVIOUS

\* A token dies at the end of its life or less than a second before.
LEMMA TokenLife ==
    ASSUME NEW tok \in Token
    PROVE  /\ ExpiresAt(tok) \in Nat /\ tok.at \in Nat
           /\ ExpiresAt(tok) <= tok.at + OTPTTL
           /\ tok.at + OTPTTL < ExpiresAt(tok) + Second
<1>1. tok.at \in Nat /\ tok.at + OTPTTL \in Nat
  BY ChallengeConstants DEF Token, ChallengeConstants
<1> QED
  BY <1>1, RoundDown, LinkConstants DEF ExpiresAt, LinkConstants

-----------------------------------------------------------------------------
(* A step of the processes is a step of AuthService. *)

LEMMA AcceptedIsHonoured ==
    ASSUME LinkIInv, NEW tok \in tokens, NEW r \in Replicas, Accepts(r, tok)
    PROVE  LinkHonoured(tok.subject) /\ tok.subject \in Subjects
<1>1. tok \in Token /\ tok.subject \in Subjects /\ tok.at <= linkedAt[tok.subject]
      /\ linkedAt[tok.subject] # NoTime
  BY DEF LinkIInv, ProcessTypeOK, TokensKnown, Token
<1>2. linkedAt[tok.subject] \in Nat /\ now \in Nat
  BY <1>1, NowNat DEF LinkIInv, IInv, TypeOK, Instant
<1>3. now < ExpiresAt(tok)
  BY DEF Accepts
<1> QED
  BY <1>1, <1>2, <1>3, TokenLife, ChallengeConstants DEF LinkHonoured, ChallengeConstants

LEMMA UnlinkedIsHonoured ==
    ASSUME NEW p, NEW intent, OpenChallenge(p, intent, None)
    PROVE  RequestVerification(p, intent, None)
BY DEF RequestVerification, LinkHonoured

LEMMA StepImplements == LinkIInv /\ [LinkNext]_linkVars => [Next]_vars
<1> SUFFICES ASSUME LinkIInv, [LinkNext]_linkVars PROVE [Next]_vars
  OBVIOUS
<1>1. CASE UNCHANGED linkVars
  BY <1>1 DEF linkVars
<1>2. CASE Tick
  BY <1>2 DEF Next
<1>3. CASE OtherRequest
  <2>1. CASE \E p \in Phones, intent \in Intents : OpenChallenge(p, intent, None)
    BY <2>1, UnlinkedIsHonoured DEF Next, ClientRequest
  <2> QED
    BY <1>3, <2>1 DEF OtherRequest, Next, ClientRequest
<1>4. ASSUME NEW r \in Replicas, StartProcess(r) \/ StopProcess(r) PROVE [Next]_vars
  BY <1>4 DEF StartProcess, StopProcess
<1>5. ASSUME NEW r \in Replicas, NEW subject \in Subjects, Exchange(r, subject)
      PROVE  [Next]_vars
  BY <1>5 DEF Exchange, Next, ClientRequest
<1>6. ASSUME NEW r \in Replicas, NEW p \in Phones, NEW tok \in tokens,
             LinkedRequest(r, p, tok)
      PROVE  [Next]_vars
  <2>1. RequestVerification(p, "signup", tok.subject) /\ tok.subject \in Subjects
    BY <1>6, AcceptedIsHonoured DEF LinkedRequest, RequestVerification
  <2> QED
    BY <2>1 DEF Next, ClientRequest, Intents
<1>7. CASE AdminClear
  BY <1>7 DEF AdminClear, Next
<1> QED
  BY <1>1, <1>2, <1>3, <1>4, <1>5, <1>6, <1>7 DEF LinkNext

-----------------------------------------------------------------------------
(* The invariants. *)

LEMMA InitLink == LinkInit => LinkIInv /\ OneSecret /\ ProofsFresh
<1> SUFFICES ASSUME LinkInit PROVE LinkIInv /\ OneSecret /\ ProofsFresh
  OBVIOUS
<1>1. IInv
  BY InitIInv DEF LinkInit
<1>2. ProcessTypeOK
  <2>1. createdAt \in [DOMAIN accounts -> Nat]
    BY DEF LinkInit, Init
  <2> QED
    BY <2>1, LinkConstants DEF LinkInit, ProcessTypeOK, LinkConstants
<1> QED
  BY <1>1, <1>2 DEF LinkIInv, TokensKnown, OneSecret, ProofsFresh, LinkInit, Init

\* How a step touches the tokens, the clock and the newest issue times.
LEMMA TokensStep ==
    ASSUME LinkIInv, [LinkNext]_linkVars
    PROVE  \/ tokens' = tokens /\ linkedAt' = linkedAt /\ now' \in {now, now + 1}
           \/ now' = now /\ \E subject \in Subjects :
                /\ linkedAt' = [linkedAt EXCEPT ![subject] = now]
                /\ \E k \in Secrets : tokens' = tokens \cup
                     {[subject |-> subject, at |-> now, secret |-> k]}
<1>1. CASE UNCHANGED linkVars
  BY <1>1 DEF linkVars, vars
<1>2. CASE Tick /\ UNCHANGED <<config, starts, secret, tokens, createdAt>>
  BY <1>2 DEF Tick
<1>3. CASE OtherRequest
  BY <1>3 DEF OtherRequest, OpenChallenge, ResendVerification, ConfirmWrong,
              ConfirmSignup, ConfirmSignin
<1>4. ASSUME NEW r \in Replicas, StartProcess(r) \/ StopProcess(r)
      PROVE  tokens' = tokens /\ linkedAt' = linkedAt /\ now' = now
  BY <1>4 DEF StartProcess, StopProcess, vars
<1>5. ASSUME NEW r \in Replicas, NEW subject \in Subjects, Exchange(r, subject)
      PROVE  \/ tokens' = tokens /\ linkedAt' = linkedAt /\ now' = now
             \/ /\ now' = now /\ linkedAt' = [linkedAt EXCEPT ![subject] = now]
                /\ secret[r] \in Secrets
                /\ tokens' = tokens \cup
                     {[subject |-> subject, at |-> now, secret |-> secret[r]]}
  <2>1. secret[r] \in Secrets /\ now' = now
    BY <1>5 DEF Exchange, GoogleExchange, LinkIInv, ProcessTypeOK
  <2> QED
    BY <1>5, <2>1 DEF Exchange, GoogleExchange, Linked
<1>6. ASSUME NEW r \in Replicas, NEW p \in Phones, NEW tok \in tokens,
             LinkedRequest(r, p, tok)
      PROVE  tokens' = tokens /\ linkedAt' = linkedAt /\ now' = now
  BY <1>6 DEF LinkedRequest, OpenChallenge
<1>7. CASE AdminClear
  BY <1>7 DEF AdminClear, AdminRequest, ClearLockout
<1> QED
  BY <1>1, <1>2, <1>3, <1>4, <1>5, <1>6, <1>7 DEF LinkNext

LEMMA NextTokensKnown == LinkIInv /\ [LinkNext]_linkVars => TokensKnown'
<1> SUFFICES ASSUME LinkIInv, [LinkNext]_linkVars PROVE TokensKnown'
  OBVIOUS
<1>1. /\ now \in Nat /\ tokens \subseteq Token /\ linkedAt \in [Subjects -> Instant]
  BY NowNat DEF LinkIInv, IInv, TypeOK, ProcessTypeOK
<1>2. CASE tokens' = tokens /\ linkedAt' = linkedAt /\ now' \in {now, now + 1}
  <2>1. ASSUME NEW tok \in tokens
        PROVE  /\ tok.at <= now' /\ linkedAt[tok.subject] # NoTime
               /\ tok.at <= linkedAt[tok.subject]
    <3>1. tok.at \in Nat
      BY <1>1 DEF Token
    <3> QED
      BY <1>1, <1>2, <3>1 DEF LinkIInv, TokensKnown
  <2> QED
    BY <1>2, <2>1 DEF TokensKnown
<1>3. ASSUME NEW subject \in Subjects, NEW k \in Secrets, now' = now,
             linkedAt' = [linkedAt EXCEPT ![subject] = now],
             tokens' = tokens \cup {[subject |-> subject, at |-> now, secret |-> k]}
      PROVE  TokensKnown'
  <2>1. now # NoTime
    BY <1>1 DEF NoTime
  <2>2. ASSUME NEW tok \in tokens
        PROVE  /\ tok.at <= now' /\ linkedAt'[tok.subject] # NoTime
               /\ tok.at <= linkedAt'[tok.subject]
    <3>1. tok.subject \in Subjects /\ tok.at <= now
      BY <1>1 DEF Token, LinkIInv, TokensKnown
    <3>2. linkedAt'[tok.subject] = IF tok.subject = subject THEN now
                                   ELSE linkedAt[tok.subject]
      BY <1>1, <1>3, <3>1
    <3> QED
      BY <1>3, <2>1, <3>1, <3>2 DEF LinkIInv, TokensKnown
  <2>3. linkedAt'[subject] = now
    BY <1>1, <1>3
  <2> QED
    BY <1>1, <1>3, <2>1, <2>2, <2>3 DEF TokensKnown
<1> QED
  BY <1>2, <1>3, TokensStep

LEMMA NextProcessTypeOK == LinkIInv /\ [LinkNext]_linkVars => ProcessTypeOK'
<1> SUFFICES ASSUME LinkIInv, [LinkNext]_linkVars PROVE ProcessTypeOK'
  OBVIOUS
<1> USE DEF LinkIInv, ProcessTypeOK
<1>1. CASE UNCHANGED linkVars \/ (Tick /\ UNCHANGED <<config, starts, secret, tokens, createdAt>>)
  BY <1>1 DEF linkVars, vars, Tick
<1>2. CASE OtherRequest
  <2>1. createdAt' \in [DOMAIN accounts' -> Nat]
    <3>1. now \in Nat
      BY NowNat DEF IInv
    <3> QED
      BY <1>2, <3>1 DEF OtherRequest
  <2> QED
    BY <1>2, <2>1 DEF OtherRequest
<1>3. ASSUME NEW r \in Replicas, StartProcess(r) PROVE ProcessTypeOK'
  <2>1. starts + 1 \in 0..MaxStarts /\ GoogleLinkSecret \in Secrets
    BY <1>3, LinkConstants DEF StartProcess, LinkConstants, GoogleLinkSecret, Secrets,
       Configured
  <2> QED
    BY <1>3, <2>1 DEF StartProcess, vars
<1>4. ASSUME NEW r \in Replicas, StopProcess(r) PROVE ProcessTypeOK'
  BY <1>4 DEF StopProcess, vars
<1>5. ASSUME NEW r \in Replicas, NEW subject \in Subjects, Exchange(r, subject)
      PROVE  ProcessTypeOK'
  <2>1. now \in Nat /\ secret[r] \in Secrets
    BY <1>5, NowNat DEF IInv, Exchange
  <2>2. [subject |-> subject, at |-> now, secret |-> secret[r]] \in Token
    BY <2>1 DEF Token
  <2> QED
    BY <1>5, <2>2 DEF Exchange, GoogleExchange
<1>6. ASSUME NEW r \in Replicas, NEW p \in Phones, NEW tok \in tokens,
             LinkedRequest(r, p, tok)
      PROVE  ProcessTypeOK'
  BY <1>6 DEF LinkedRequest, OpenChallenge
<1>7. CASE AdminClear
  BY <1>7 DEF AdminClear, AdminRequest, ClearLockout
<1> QED
  BY <1>1, <1>2, <1>3, <1>4, <1>5, <1>6, <1>7 DEF LinkNext

LEMMA NextLinkIInv == LinkIInv /\ [LinkNext]_linkVars => LinkIInv'
<1>1. LinkIInv /\ [LinkNext]_linkVars => IInv'
  BY StepImplements, NextIInv DEF LinkIInv
<1> QED
  BY <1>1, NextTokensKnown, NextProcessTypeOK DEF LinkIInv

LEMMA LinkInvariance == LinkSpec => []LinkIInv
<1>1. LinkInit => LinkIInv
  BY InitLink
<1> QED
  BY <1>1, NextLinkIInv, PTL DEF LinkSpec
-----------------------------------------------------------------------------
(* One secret. *)

LEMMA NextOneSecret == LinkIInv /\ OneSecret /\ [LinkNext]_linkVars => OneSecret'
<1> SUFFICES ASSUME LinkIInv, OneSecret, [LinkNext]_linkVars PROVE OneSecret'
  OBVIOUS
<1>1. CASE UNCHANGED <<config, secret, tokens>>
  BY <1>1 DEF OneSecret, Loads
<1>2. ASSUME NEW r \in Replicas, StartProcess(r) PROVE OneSecret'
  <2>1. /\ Loads(config) /\ UNCHANGED <<config, tokens>>
        /\ secret' = [secret EXCEPT ![r] = GoogleLinkSecret]
    BY <1>2 DEF StartProcess
  <2>2. config.linkSecret => GoogleLinkSecret = Configured
    BY DEF GoogleLinkSecret
  <2> QED
    BY <2>1, <2>2 DEF OneSecret, Loads, LinkIInv, ProcessTypeOK
<1>3. ASSUME NEW r \in Replicas, StopProcess(r) PROVE OneSecret'
  BY <1>3 DEF StopProcess, OneSecret, Loads, LinkIInv, ProcessTypeOK
<1>4. ASSUME NEW r \in Replicas, NEW subject \in Subjects, Exchange(r, subject)
      PROVE  OneSecret'
  <2>1. UNCHANGED <<config, secret>> /\ secret[r] # Down
    BY <1>4 DEF Exchange
  <2>2. ASSUME config.linkSecret, NEW tok \in tokens' PROVE tok.secret = Configured
    BY <1>4, <2>1, <2>2 DEF Exchange, OneSecret
  <2> QED
    BY <2>1, <2>2 DEF OneSecret, Loads
<1> QED
  BY <1>1, <1>2, <1>3, <1>4 DEF LinkNext, linkVars, OtherRequest, AdminClear,
                               LinkedRequest

-----------------------------------------------------------------------------
(* Fresh proofs. *)

\* A step that writes one row keeps the proofs fresh if that row has one, or if
\* its phone has an account.
LEMMA OneRowFresh ==
    ASSUME ProofsFresh, NEW c, NEW row, verifications' = Put(verifications, c, row),
           tokens \subseteq tokens', UNCHANGED accounts,
           row.subject # None /\ ~HasAccount(row.phone) =>
               /\ row.sendsInWindow <= MaxSendsPerWindow
               /\ \E tok \in tokens : Backs(tok, row)
    PROVE  ProofsFresh'
<1>1. \A p : HasAccount(p)' <=> HasAccount(p)
  BY DEF HasAccount
<1>2. ASSUME NEW d \in DOMAIN verifications',
             verifications'[d].subject # None, ~HasAccount(verifications'[d].phone)
      PROVE  /\ verifications'[d].sendsInWindow <= MaxSendsPerWindow
             /\ \E tok \in tokens' : Backs(tok, verifications'[d])
  BY <1>2 DEF Put, ProofsFresh
<1> QED
  BY <1>1, <1>2 DEF ProofsFresh, Backs

\* A step that touches no row and loses no token keeps them, whatever accounts
\* it adds.
LEMMA SameRowsFresh ==
    ASSUME ProofsFresh, UNCHANGED verifications, tokens \subseteq tokens',
           \A p : HasAccount(p) => HasAccount(p)'
    PROVE  ProofsFresh'
BY DEF ProofsFresh, Backs

LEMMA FirstSendBacked ==
    ASSUME LinkIInv, NEW tok \in tokens, now < ExpiresAt(tok),
           NEW v \in Verification, v.subject = tok.subject, v.sendsInWindow = 0
    PROVE  /\ RegisterSend(v, now).sendsInWindow <= MaxSendsPerWindow
           /\ Backs(tok, RegisterSend(v, now))
<1>1. tok \in Token /\ now \in Nat /\ tok.at \in Nat
  BY NowNat DEF LinkIInv, ProcessTypeOK, IInv, Token
<1>2. /\ RegisterSend(v, now).sendsInWindow = 1
      /\ RegisterSend(v, now).subject = tok.subject
      /\ RegisterSend(v, now).expiresAt = now + OTPTTL
  BY <1>1 DEF RegisterSend, Verification
<1>3. now + OTPTTL < tok.at + OTPTTL * (1 + 1)
  BY <1>1, TokenLife, ChallengeConstants DEF ChallengeConstants
<1> QED
  BY <1>2, <1>3, ChallengeConstants DEF Backs, ChallengeConstants

LEMMA NextSendBacked ==
    ASSUME NEW tok \in Token, NEW v \in Verification, NEW t \in Nat, Backs(tok, v),
           ~IsExpired(v, t), ~SendCapReached(v)
    PROVE  /\ RegisterSend(v, t).sendsInWindow <= MaxSendsPerWindow
           /\ Backs(tok, RegisterSend(v, t))
<1>1. /\ tok.at \in Nat /\ v.sendsInWindow \in Nat /\ v.expiresAt \in Nat
      /\ t <= v.expiresAt /\ v.sendsInWindow < MaxSendsPerWindow
  BY ChallengeConstants
     DEF IsExpired, SendCapReached, Token, Verification, ChallengeConstants
<1>2. /\ RegisterSend(v, t).sendsInWindow = v.sendsInWindow + 1
      /\ RegisterSend(v, t).subject = v.subject
      /\ RegisterSend(v, t).expiresAt = t + OTPTTL
  BY RegisterSendRow DEF RegisterSend, Verification
<1>3. t + OTPTTL < tok.at + OTPTTL * (1 + (v.sendsInWindow + 1))
  <2>1. /\ OTPTTL * (1 + (v.sendsInWindow + 1)) = OTPTTL * (1 + v.sendsInWindow) + OTPTTL
        /\ OTPTTL * (1 + v.sendsInWindow) \in Nat
    BY <1>1, OneMoreLife, ChallengeConstants DEF ChallengeConstants
  <2>2. v.expiresAt < tok.at + OTPTTL * (1 + v.sendsInWindow)
    BY DEF Backs
  <2> QED
    BY <1>1, <2>1, <2>2, ChallengeConstants DEF ChallengeConstants
<1> QED
  BY <1>1, <1>2, <1>3, ChallengeConstants DEF Backs, ChallengeConstants

\* Locks, wrong codes and the verified mark leave what Backs speaks of alone.
LEMMA SameProof ==
    ASSUME NEW v \in Verification, NEW t
    PROVE  \A row \in {Lock(v, t), RegisterFailure(v, t), MarkVerified(v)} :
             /\ row.subject = v.subject /\ row.phone = v.phone
             /\ row.sendsInWindow = v.sendsInWindow /\ row.expiresAt = v.expiresAt
BY DEF Lock, RegisterFailure, MarkVerified, Verification

\* A request that shows no token, or one that is accepted.
LEMMA RequestFresh ==
    ASSUME LinkIInv, ProofsFresh, tokens' = tokens, NEW p \in Phones,
           NEW intent \in Intents, NEW subject \in Subjects \cup {None},
           OpenChallenge(p, intent, subject),
           subject = None \/ \E tok \in tokens : tok.subject = subject /\ now < ExpiresAt(tok)
    PROVE  ProofsFresh'
<1>1. UNCHANGED accounts
  BY DEF OpenChallenge
<1>2. CASE SendNewChallenge(p, intent, subject)
  <2> DEFINE fresh == [phone |-> p, intent |-> intent, subject |-> subject,
                       sentAt |-> 0, expiresAt |-> 0, failedAttempts |-> 0,
                       sendsInWindow |-> 0, lockedUntil |-> NoTime,
                       status |-> "pending"]
             row == RegisterSend(fresh, now)
  <2>1. PICK c \in Challenges : verifications' = Put(verifications, c, row)
    BY <1>2 DEF SendNewChallenge
  <2>2. /\ fresh \in Verification /\ fresh.subject = subject
        /\ fresh.sendsInWindow = 0 /\ row.subject = subject
    BY DEF Verification, Instant, Statuses, RegisterSend
  <2> HIDE DEF fresh
  <2>3. row.subject # None =>
            /\ row.sendsInWindow <= MaxSendsPerWindow
            /\ \E tok \in tokens : Backs(tok, row)
    BY <2>2, FirstSendBacked
  <2> QED
    BY <1>1, <2>1, <2>3, OneRowFresh
<1>3. ASSUME NEW c \in LatestRows(p), LockLatest(c) PROVE ProofsFresh'
  <2> DEFINE v == verifications[c]
  <2>1. c \in DOMAIN verifications /\ v \in Verification
    BY DEF LatestRows, RowsOf, LinkIInv, IInv, TypeOK
  <2>2. verifications' = Put(verifications, c, Lock(v, now))
    BY <1>3 DEF LockLatest
  <2> QED
    BY <1>1, <2>1, <2>2, SameProof, OneRowFresh DEF ProofsFresh, Backs
<1> QED
  BY <1>2, <1>3 DEF OpenChallenge

LEMMA ChallengeFresh ==
    ASSUME LinkIInv, ProofsFresh, tokens' = tokens, NEW c \in DOMAIN verifications,
           \/ ResendVerification(c) \/ ConfirmWrong(c)
           \/ ConfirmSignup(c) \/ ConfirmSignin(c)
    PROVE  ProofsFresh'
<1> DEFINE v == verifications[c]
<1>1. v \in Verification /\ now \in Nat
  BY NowNat DEF LinkIInv, IInv, TypeOK
<1>2. v.subject # None /\ ~HasAccount(v.phone) =>
          /\ v.sendsInWindow <= MaxSendsPerWindow
          /\ \E tok \in tokens : Backs(tok, v)
  BY DEF ProofsFresh
<1>3. CASE ResendVerification(c)
  <2>1. UNCHANGED accounts /\ ~IsExpired(v, now)
    BY <1>3 DEF ResendVerification, Resendable, Confirmable
  <2>2. CASE LockLatest(c)
    BY <1>1, <1>2, <2>1, <2>2, SameProof, OneRowFresh DEF LockLatest, Backs
  <2>3. CASE ~SendCapReached(v)
             /\ verifications' = Put(verifications, c, RegisterSend(v, now))
    <3> DEFINE row == RegisterSend(v, now)
    <3>1. row.subject = v.subject /\ row.phone = v.phone
      BY <1>1 DEF RegisterSend, Verification
    <3>2. row.subject # None /\ ~HasAccount(row.phone) =>
              /\ row.sendsInWindow <= MaxSendsPerWindow
              /\ \E tok \in tokens : Backs(tok, row)
      BY <1>1, <1>2, <2>1, <2>3, <3>1, NextSendBacked DEF LinkIInv, ProcessTypeOK
    <3> QED
      BY <2>1, <2>3, <3>2, OneRowFresh
  <2> QED
    BY <1>3, <2>2, <2>3 DEF ResendVerification
<1>4. CASE ConfirmWrong(c)
  BY <1>1, <1>2, <1>4, SameProof, OneRowFresh DEF ConfirmWrong, Backs
<1>5. CASE ConfirmSignin(c)
  BY <1>1, <1>2, <1>5, SameProof, OneRowFresh DEF ConfirmSignin, Backs
<1>6. CASE ConfirmSignup(c)
  <2>1. verifications' = Put(verifications, c, MarkVerified(v))
    BY <1>6 DEF ConfirmSignup
  <2>2. ASSUME NEW q PROVE HasAccount(q) => HasAccount(q)'
    BY <1>6 DEF ConfirmSignup, HasAccount, Put
  <2>3. ASSUME NEW d \in DOMAIN verifications',
               verifications'[d].subject # None, ~HasAccount(verifications[d].phone)'
        PROVE  /\ verifications'[d].sendsInWindow <= MaxSendsPerWindow
               /\ \E tok \in tokens' : Backs(tok, verifications'[d])
    <3>1. /\ d \in DOMAIN verifications
          /\ verifications'[d] = IF d = c THEN MarkVerified(v) ELSE verifications[d]
      BY <2>1, <2>3 DEF Put
    <3>2. /\ verifications'[d].subject = verifications[d].subject
          /\ verifications'[d].phone = verifications[d].phone
          /\ verifications'[d].sendsInWindow = verifications[d].sendsInWindow
          /\ verifications'[d].expiresAt = verifications[d].expiresAt
      BY <1>1, <3>1, SameProof
    <3>3. ~HasAccount(verifications[d].phone)
      BY <2>2, <2>3, <3>2 DEF HasAccount
    <3> QED
      BY <2>3, <3>1, <3>2, <3>3 DEF ProofsFresh, Backs
  <2> QED
    BY <2>3 DEF ProofsFresh, Backs
<1> QED
  BY <1>3, <1>4, <1>5, <1>6
LEMMA NextProofsFresh == LinkIInv /\ ProofsFresh /\ [LinkNext]_linkVars => ProofsFresh'
<1> SUFFICES ASSUME LinkIInv, ProofsFresh, [LinkNext]_linkVars PROVE ProofsFresh'
  OBVIOUS
<1>1. CASE UNCHANGED <<verifications, accounts>> /\ tokens \subseteq tokens'
  BY <1>1, SameRowsFresh DEF HasAccount
<1>2. CASE OtherRequest
  <2>1. tokens' = tokens
    BY <1>2 DEF OtherRequest
  <2>2. ASSUME NEW p \in Phones, NEW intent \in Intents, OpenChallenge(p, intent, None)
        PROVE  ProofsFresh'
    BY <2>1, <2>2, RequestFresh
  <2> QED
    BY <1>2, <2>1, <2>2, ChallengeFresh DEF OtherRequest
<1>3. ASSUME NEW r \in Replicas, NEW subject \in Subjects, Exchange(r, subject)
      PROVE  ProofsFresh'
  BY <1>1, <1>3 DEF Exchange, GoogleExchange
<1>4. ASSUME NEW r \in Replicas, NEW p \in Phones, NEW tok \in tokens,
             LinkedRequest(r, p, tok)
      PROVE  ProofsFresh'
  <2>1. tok.subject \in Subjects
    BY DEF LinkIInv, ProcessTypeOK, Token
  <2> QED
    BY <1>4, <2>1, RequestFresh DEF LinkedRequest, Accepts, Intents
<1>5. CASE AdminClear
  <2>1. tokens' = tokens
    BY <1>5 DEF AdminClear
  <2>2. ASSUME NEW a \in DOMAIN accounts, ClearLockout(a) PROVE ProofsFresh'
    <3>1. PICK c \in DOMAIN verifications :
            /\ verifications[c].phone = accounts[a].phone
            /\ verifications' = Put(verifications, c, Unlock(verifications[c]))
      BY <2>2 DEF ClearLockout, LatestRows, RowsOf
    <3>2. verifications[c] \in Verification
      BY DEF LinkIInv, IInv, TypeOK
    <3>3. HasAccount(Unlock(verifications[c]).phone)
      BY <3>1, <3>2 DEF HasAccount, Unlock, Verification
    <3>4. UNCHANGED accounts
      BY <2>2 DEF ClearLockout
    <3> QED
      BY <2>1, <3>1, <3>3, <3>4, OneRowFresh
  <2> QED
    BY <1>5, <2>2 DEF AdminClear, AdminRequest
<1> QED
  BY <1>1, <1>2, <1>3, <1>4, <1>5 DEF LinkNext, linkVars, vars, Tick, StartProcess, StopProcess

LEMMA FreshInvariance == LinkSpec => []ProofsFresh
<1>1. LinkInit => ProofsFresh
  BY InitLink
<1> QED
  BY <1>1, NextProofsFresh, LinkInvariance, PTL DEF LinkSpec

-----------------------------------------------------------------------------
(* Linked accounts. *)

\* The account a confirm makes of a challenge with a fresh proof.
LEMMA SignupProved ==
    ASSUME LinkIInv, ProofsFresh, LinkProvedRecently, NEW c \in DOMAIN verifications,
           ConfirmSignup(c), tokens' = tokens,
           createdAt' = [a \in DOMAIN accounts' |->
                            IF a \in DOMAIN accounts THEN createdAt[a] ELSE now]
    PROVE  LinkProvedRecently'
<1> DEFINE v == verifications[c]
<1>1. PICK new \in Accounts \ DOMAIN accounts :
        accounts' = Put(accounts, new, [phone |-> v.phone, subject |-> v.subject])
  BY DEF ConfirmSignup
<1>2. /\ v \in Verification /\ now \in Nat /\ tokens \subseteq Token
      /\ ~IsExpired(v, now) /\ ~HasAccount(v.phone)
  BY NowNat DEF ConfirmSignup, Confirmable, UniqueViolation, HasAccount, LinkIInv, IInv,
                TypeOK, ProcessTypeOK
<1>3. ASSUME v.subject # None
      PROVE  \E tok \in tokens : /\ tok.subject = v.subject /\ tok.at <= now
                                 /\ now < tok.at + OTPTTL * (1 + MaxSendsPerWindow)
  <2>1. PICK tok \in tokens : Backs(tok, v) /\ v.sendsInWindow <= MaxSendsPerWindow
    BY <1>2, <1>3 DEF ProofsFresh
  <2>2. tok.at \in Nat /\ tok.at <= now
    BY <1>2 DEF Token, LinkIInv, TokensKnown
  <2>3. now <= v.expiresAt /\ v.expiresAt \in Nat /\ v.sendsInWindow \in Nat
    BY <1>2 DEF IsExpired, Verification
  <2>4. /\ OTPTTL * (1 + v.sendsInWindow) <= OTPTTL * (1 + MaxSendsPerWindow)
        /\ OTPTTL * (1 + v.sendsInWindow) \in Nat
        /\ OTPTTL * (1 + MaxSendsPerWindow) \in Nat
    BY <2>1, <2>3, MoreLives, OneMoreLife, ChallengeConstants DEF ChallengeConstants
  <2> HIDE DEF v
  <2>5. v.expiresAt < tok.at + OTPTTL * (1 + v.sendsInWindow) /\ tok.subject = v.subject
    BY <2>1 DEF Backs
  <2>6. now < tok.at + OTPTTL * (1 + MaxSendsPerWindow)
    BY <1>2, <2>2, <2>3, <2>4, <2>5
  <2> QED
    BY <2>2, <2>5, <2>6
<1>4. ASSUME NEW a \in DOMAIN accounts', accounts'[a].subject # None
      PROVE  \E tok \in tokens' :
                /\ tok.subject = accounts'[a].subject /\ tok.at <= createdAt'[a]
                /\ createdAt'[a] < tok.at + OTPTTL * (1 + MaxSendsPerWindow)
  <2>1. CASE a = new
    BY <1>1, <1>3, <1>4, <2>1 DEF Put
  <2>2. CASE a # new
    <3>1. /\ a \in DOMAIN accounts /\ accounts'[a] = accounts[a]
          /\ createdAt'[a] = createdAt[a]
      BY <1>1, <1>4, <2>2 DEF Put
    <3> QED
      BY <1>4, <3>1 DEF LinkProvedRecently
  <2> QED
    BY <2>1, <2>2
<1> QED
  BY <1>4 DEF LinkProvedRecently

LEMMA NextProved ==
    LinkIInv /\ ProofsFresh /\ LinkProvedRecently /\ [LinkNext]_linkVars
      => LinkProvedRecently'
<1> SUFFICES ASSUME LinkIInv, ProofsFresh, LinkProvedRecently, [LinkNext]_linkVars
             PROVE  LinkProvedRecently'
  OBVIOUS
<1>1. CASE /\ accounts' = accounts /\ tokens \subseteq tokens'
           /\ \A a \in DOMAIN accounts : createdAt'[a] = createdAt[a]
  BY <1>1 DEF LinkProvedRecently
<1>2. CASE OtherRequest
  <2>1. /\ tokens' = tokens
        /\ createdAt' = [a \in DOMAIN accounts' |->
                            IF a \in DOMAIN accounts THEN createdAt[a] ELSE now]
    BY <1>2 DEF OtherRequest
  <2>2. ASSUME NEW c \in DOMAIN verifications, ConfirmSignup(c)
        PROVE  LinkProvedRecently'
    BY <2>1, <2>2, SignupProved
  <2>3. CASE UNCHANGED accounts
    BY <1>1, <2>1, <2>3
  <2> QED
    BY <1>2, <2>2, <2>3 DEF OtherRequest, OpenChallenge, ResendVerification,
                            ConfirmWrong, ConfirmSignin
<1>3. ASSUME NEW r \in Replicas, NEW subject \in Subjects, Exchange(r, subject)
      PROVE  LinkProvedRecently'
  BY <1>1, <1>3 DEF Exchange, GoogleExchange
<1> QED
  BY <1>1, <1>2, <1>3 DEF LinkNext, linkVars, vars, Tick, StartProcess, StopProcess,
                          LinkedRequest, OpenChallenge, AdminClear, AdminRequest, ClearLockout

-----------------------------------------------------------------------------
(* The theorems. *)

\* The tables, the processes and their tokens keep their types.
THEOREM LinkTypeCorrect == LinkSpec => []LinkTypeOK
<1>1. LinkIInv => LinkTypeOK
  BY DEF LinkIInv, IInv, ProcessTypeOK, LinkTypeOK
<1> QED
  BY <1>1, LinkInvariance, PTL

\* Whatever processes start and stop, with whatever secrets, they do nothing
\* that one service with one link rule would not do (google.go:189-204).
THEOREM ProcessesHonourTheRule == LinkSpec => HonoursTheLinkRule
<1>1. LinkInit => Init
  BY DEF LinkInit
<1> QED
  BY <1>1, StepImplements, LinkInvariance, PTL DEF LinkSpec, HonoursTheLinkRule, Spec

\* In production every running replica accepts a token until the last second of
\* its life, whatever was restarted in between (config.go:88-93).
THEOREM ProductionHonoursLinks == LinkSpec => []ProductionLinksHonoured
<1>1. ASSUME NEW r \in Replicas, NEW tok \in tokens, LinkIInv, OneSecret,
             config.production, secret[r] # Down, now + Second <= tok.at + OTPTTL
      PROVE  Accepts(r, tok)
  <2>1. tok \in Token /\ now \in Nat
    BY <1>1, NowNat DEF LinkIInv, IInv, ProcessTypeOK
  <2>2. secret[r] = tok.secret
    BY <1>1 DEF OneSecret, Loads
  <2>3. now < ExpiresAt(tok)
    BY <1>1, <2>1, TokenLife, LinkConstants, ChallengeConstants
       DEF LinkConstants, ChallengeConstants
  <2> QED
    BY <2>2, <2>3 DEF Accepts
<1>2. LinkIInv /\ OneSecret => ProductionLinksHonoured
  BY <1>1 DEF ProductionLinksHonoured
<1>3. LinkInit => OneSecret
  BY InitLink
<1> QED
  BY <1>2, <1>3, NextOneSecret, LinkInvariance, PTL DEF LinkSpec

\* The proof behind a linked account is never older than a token's life and as
\* many codes' lives as the cap allows sends, for every mix of resends, locks,
\* clears and restarts (service.go:106-142, 434-458, 564-584).
THEOREM LinksProvedRecently == LinkSpec => []LinkProvedRecently
<1>1. LinkInit => LinkProvedRecently
  BY DEF LinkInit, Init, LinkProvedRecently
<1> QED
  BY <1>1, NextProved, FreshInvariance, LinkInvariance, PTL DEF LinkSpec
=============================================================================
