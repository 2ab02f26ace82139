\* The older of two challenges is locked and a fresh request still sends.
CONSTANTS
    OTPTTL = 2
    LockoutDuration = 3
    ResendCooldown = 1
    MaxFailedAttempts = 2
    MaxSendsPerWindow = 2
    SendCapWindow = 3
    Phones = {p1}
    Subjects = {}
    None = None
    Challenges = {c1, c2, c3}
    Accounts = {}
    Sessions = {}
    MaxTime = 6
    MaxClears = 1
SPECIFICATION Spec
SYMMETRY RowIds
PROPERTIES
    LockedPhoneGetsNoCode
CHECK_DEADLOCK FALSE
