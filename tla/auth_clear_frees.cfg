\* A clear resets one of two heavily sent challenges.
CONSTANTS
    OTPTTL = 2
    LockoutDuration = 3
    ResendCooldown = 1
    MaxFailedAttempts = 2
    MaxSendsPerWindow = 2
    SendCapWindow = 3
    Phones = {p1}
    Subjects = {}
    None = None
    Challenges = {c1, c2}
    Accounts = {a1}
    Sessions = {s1, s2, s3}
    MaxTime = 6
    MaxClears = 1
SPECIFICATION Spec
SYMMETRY RowIds
PROPERTIES
    ClearFreesPhone
CHECK_DEADLOCK FALSE
