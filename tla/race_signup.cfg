\* Two signups in flight, over two phones and one Google subject; every wait ends.
CONSTANTS
    OTPTTL = 1
    LockoutDuration = 2
    ResendCooldown = 1
    MaxFailedAttempts = 1
    MaxSendsPerWindow = 2
    SendCapWindow = 1
    Workers = {w1, w2}
    Phones = {p1, p2}
    Subjects = {g1}
    None = None
    Challenges = {c1, c2}
    Accounts = {a1, a2}
    Sessions = {s1, s2}
    MaxTime = 0
    MaxCodes = 2
    MaxClears = 1
    MaxWrong = 1
SPECIFICATION FairSpec
INVARIANTS
    AccountsUnique
PROPERTIES
    RegistrySpec
    EveryRequestAnswered
CHECK_DEADLOCK FALSE
