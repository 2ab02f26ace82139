\* Two requests in flight on one phone: every handler, every failure.
CONSTANTS
    OTPTTL = 1
    LockoutDuration = 2
    ResendCooldown = 1
    MaxFailedAttempts = 1
    MaxSendsPerWindow = 2
    SendCapWindow = 1
    Workers = {w1, w2}
    Phones = {p1}
    Subjects = {g1}
    None = None
    Challenges = {c1, c2}
    Accounts = {a1}
    Sessions = {s1, s2}
    MaxTime = 2
    MaxCodes = 3
    MaxClears = 1
    MaxWrong = 1
SPECIFICATION Spec
SYMMETRY Interchangeable
INVARIANTS
    TypeOK
    StoredCodeDelivered
    ListedLocksCounted
    FailureRateFromFacts
    ClearsOnRecord
PROPERTIES
    SignupAllOrNothing
    AuditCommitsWithUnlock
CHECK_DEADLOCK FALSE
