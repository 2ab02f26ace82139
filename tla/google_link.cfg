\* One Google identity, two replicas: tokens across restarts, sends and locks.
CONSTANTS
    OTPTTL = 2
    LockoutDuration = 3
    ResendCooldown = 1
    MaxFailedAttempts = 1
    MaxSendsPerWindow = 2
    SendCapWindow = 2
    Phones = {p1}
    Subjects = {g1}
    None = None
    Challenges = {c1}
    Accounts = {a1}
    Sessions = {s1}
    MaxTime = 6
    MaxClears = 1
    Replicas = {r1, r2}
    Second = 2
    MaxStarts = 3
    MaxTokens = 2
SPECIFICATION LinkSpec
SYMMETRY Interchangeable
INVARIANTS
    LinkTypeOK
    LinkProvedRecently
    ProductionLinksHonoured
PROPERTIES
    HonoursTheLinkRule
CHECK_DEADLOCK FALSE
