\* Two clears in flight lift one lock and record two.
CONSTANTS
    OTPTTL = 2
    LockoutDuration = 3
    ResendCooldown = 1
    MaxFailedAttempts = 1
    MaxSendsPerWindow = 1
    SendCapWindow = 1
    Workers = {w1, w2}
    Phones = {p1}
    Subjects = {}
    None = None
    Challenges = {c1}
    Accounts = {a1}
    Sessions = {s1}
    MaxTime = 1
    MaxCodes = 2
    MaxClears = 1
    MaxWrong = 1
SPECIFICATION Spec
PROPERTIES
    AuditRecordsEffect
CHECK_DEADLOCK FALSE
