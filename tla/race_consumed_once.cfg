\* Two confirms of one sign-in code in flight both get a session.
CONSTANTS
    OTPTTL = 1
    LockoutDuration = 2
    ResendCooldown = 1
    MaxFailedAttempts = 1
    MaxSendsPerWindow = 2
    SendCapWindow = 1
    Workers = {w1, w2}
    Phones = {p1}
    Subjects = {}
    None = None
    Challenges = {c1, c2}
    Accounts = {a1}
    Sessions = {s1, s2, s3}
    MaxTime = 1
    MaxCodes = 3
    MaxClears = 0
    MaxWrong = 1
SPECIFICATION Spec
SYMMETRY Interchangeable
INVARIANTS
    ConsumedOnce
CHECK_DEADLOCK FALSE
