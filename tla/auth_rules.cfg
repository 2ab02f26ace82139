\* One phone, three challenges: sends, locks, accounts, Google and the admin clear.
CONSTANTS
    OTPTTL = 1
    LockoutDuration = 2
    ResendCooldown = 1
    MaxFailedAttempts = 1
    MaxSendsPerWindow = 2
    SendCapWindow = 2
    Phones = {p1}
    Subjects = {g1}
    None = None
    Challenges = {c1, c2, c3}
    Accounts = {a1}
    Sessions = {s1, s2, s3}
    MaxTime = 4
    MaxClears = 1
SPECIFICATION Spec
SYMMETRY RowIds
INVARIANTS
    TypeOK
    LockOutlivesCode
    WrongCodesBounded
    ReplayNeedsClear
    LapsedLockFreesPhone
    PhoneRecovers
    SendsPerPhoneBounded
PROPERTIES
    RequestRespectsCap
CHECK_DEADLOCK FALSE
