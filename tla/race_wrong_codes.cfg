\* Two wrong codes in flight are counted as one.
CONSTANTS
    OTPTTL = 1
    LockoutDuration = 2
    ResendCooldown = 1
    MaxFailedAttempts = 2
    MaxSendsPerWindow = 2
    SendCapWindow = 1
    Workers = {w1, w2}
    Phones = {p1}
    Subjects = {}
    None = None
    Challenges = {c1}
    Accounts = {}
    Sessions = {}
    MaxTime = 0
    MaxCodes = 3
    MaxClears = 1
    MaxWrong = 2
SPECIFICATION Spec
SYMMETRY Interchangeable
INVARIANTS
    WrongCodesLock
CHECK_DEADLOCK FALSE
