------------------------------ MODULE GoogleLink ------------------------------
(***************************************************************************)
(* How a Google identity reaches a new account: the exchange mints a       *)
(* pending-link token, a signup request shows it, a confirmed code links   *)
(* it.  AuthService remembers one issue time per subject; here the tokens  *)
(* are signed by the processes that run (cmd/serve.go, config.go,          *)
(* google.go:156-204), each with the configured secret or with one of its  *)
(* own, and processes start and stop between the requests.  The tables     *)
(* outlive them.                                                           *)
(***************************************************************************)
EXTENDS AuthService

CONSTANTS
    Replicas,   \* where processes run
    Second,     \* jwt.TimePrecision: a NumericDate is whole seconds
    MaxStarts,  \* bound on the process starts
    MaxTokens   \* bound on the tokens minted

ASSUME LinkConstants ==
    /\ Second \in Nat \ {0} /\ MaxStarts \in Nat /\ MaxTokens \in Nat

VARIABLES
    config,     \* the environment every process reads: what of it is set
    starts,     \* how many processes have been started
    secret,     \* the signing secret of each replica's process
    tokens,     \* every token ever minted
    createdAt   \* user_account.created_at

linkVars == <<vars, config, starts, secret, tokens, createdAt>>

\* The configured secret is 0, the one the n-th process generated is n.
Configured == 0
Down       == -1
Secrets    == Configured..MaxStarts

Config == [databaseURL : BOOLEAN, production : BOOLEAN, linkSecret : BOOLEAN]
Token  == [subject : Subjects, at : Nat, secret : Secrets]

\* The tables are typed, and so are the processes and their tokens.
LinkTypeOK ==
    /\ TypeOK
    /\ config \in Config
    /\ starts \in 0..MaxStarts
    /\ secret \in [Replicas -> Secrets \cup {Down}]
    /\ tokens \subseteq Token
    /\ createdAt \in [DOMAIN accounts -> Nat]

LinkInit ==
    /\ Init
    /\ config \in Config
    /\ starts = 0
    /\ secret = [r \in Replicas |-> Down]
    /\ tokens = {}
    /\ createdAt = << >>

-----------------------------------------------------------------------------
(* Processes.  Load refuses a production process without a secret.         *)

\* Bug: an unset secret is tolerated in production too.
BugLoadsUnset(cfg) == cfg.databaseURL

Loads(cfg) == cfg.databaseURL /\ (cfg.production => cfg.linkSecret)

GoogleLinkSecret == IF config.linkSecret THEN Configured ELSE starts + 1

StartProcess(r) ==
    /\ secret[r] = Down /\ starts < MaxStarts /\ Loads(config)
    /\ starts' = starts + 1
    /\ secret' = [secret EXCEPT ![r] = GoogleLinkSecret]
    /\ UNCHANGED <<vars, config, tokens, createdAt>>

\* A crash or a stop: only the process's memory goes.
StopProcess(r) ==
    /\ secret[r] # Down
    /\ secret' = [secret EXCEPT ![r] = Down]
    /\ UNCHANGED <<vars, config, starts, tokens, createdAt>>

-----------------------------------------------------------------------------
(* Tokens.  Exp is a NumericDate, rounded down; the token dies on it.      *)

ExpiresAt(tok) == ((tok.at + OTPTTL) \div Second) * Second

\* Bug: the claims of a well-signed token are not validated.
BugIgnoresExpiry(r, tok) == secret[r] = tok.secret

\* verifyPendingGoogleLink on replica r.
Accepts(r, tok) == secret[r] = tok.secret /\ now < ExpiresAt(tok)

Linked(subject) == \E a \in DOMAIN accounts : accounts[a].subject = subject

\* GoogleExchange on replica r signs with that process's secret.
Exchange(r, subject) ==
    /\ secret[r] # Down
    /\ GoogleExchange(subject)
    /\ \/ Linked(subject) /\ UNCHANGED tokens
       \/ /\ ~Linked(subject) /\ Cardinality(tokens) < MaxTokens
          /\ tokens' = tokens \cup
                {[subject |-> subject, at |-> now, secret |-> secret[r]]}
    /\ UNCHANGED <<config, starts, secret, createdAt>>

\* A signup request that shows token tok to replica r.
LinkedRequest(r, p, tok) ==
    /\ secret[r] # Down /\ Accepts(r, tok)
    /\ OpenChallenge(p, "signup", tok.subject)
    /\ UNCHANGED <<config, starts, secret, tokens, createdAt>>

\* The verification routes without a link token; any process that runs serves
\* them.
OtherRequest ==
    /\ \E r \in Replicas : secret[r] # Down
    /\ \/ \E p \in Phones, intent \in Intents : OpenChallenge(p, intent, None)
       \/ \E c \in DOMAIN verifications :
            \/ ResendVerification(c)
            \/ ConfirmWrong(c)
            \/ ConfirmSignup(c)
            \/ ConfirmSignin(c)
    /\ createdAt' = [a \in DOMAIN accounts' |->
                        IF a \in DOMAIN accounts THEN createdAt[a] ELSE now]
    /\ UNCHANGED <<config, starts, secret, tokens>>

\* So does the administrator's clear.
AdminClear ==
    /\ \E r \in Replicas : secret[r] # Down
    /\ AdminRequest
    /\ UNCHANGED <<config, starts, secret, tokens, createdAt>>

LinkNext ==
    \/ Tick /\ UNCHANGED <<config, starts, secret, tokens, createdAt>>
    \/ OtherRequest
    \/ AdminClear
    \/ \E r \in Replicas :
         \/ StartProcess(r)
         \/ StopProcess(r)
         \/ \E subject \in Subjects : Exchange(r, subject)
         \/ \E p \in Phones, tok \in tokens : LinkedRequest(r, p, tok)

LinkSpec == LinkInit /\ [][LinkNext]_linkVars

-----------------------------------------------------------------------------
(* Properties. *)

\* An account is never linked to a Google identity whose proof is old: between
\* the exchange and the account lie one token's life and at most
\* MaxSendsPerWindow codes' lives, however resends, locks, waits, restarts and
\* clears are mixed (google.go:156-159, service.go:134-142, 301-309, 454-456).
LinkProvedRecently ==
    \A a \in DOMAIN accounts : accounts[a].subject # None =>
        \E tok \in tokens :
            /\ tok.subject = accounts[a].subject
            /\ tok.at <= createdAt[a]
            /\ createdAt[a] < tok.at + OTPTTL * (1 + MaxSendsPerWindow)

\* In production a token survives the process that signed it: until the last
\* second of its life every running replica accepts it, whatever has crashed or
\* been restarted since (config.go:88-93, serve.go:93-105).
ProductionLinksHonoured ==
    \A r \in Replicas, tok \in tokens :
        /\ config.production /\ secret[r] # Down
        /\ now + Second <= tok.at + OTPTTL
        => Accepts(r, tok)

\* The link rule of AuthService, the subject's newest token and its whole life,
\* is never exceeded by what the processes accept (google.go:189-204).
HonoursTheLinkRule == Spec
=============================================================================
