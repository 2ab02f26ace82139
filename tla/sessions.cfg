\* One token, two requests in flight, long enough to extend twice.
CONSTANTS
    Workers = {w1, w2}
    Sessions = {s1}
    SessionIdleWindow = 5
    SessionExtendInterval = 3
    MaxLag = 1
    MaxTime = 9
SPECIFICATION Spec
INVARIANTS
    TypeOK
    SignedOutRefused
    UsedSessionsLive
    IdleSessionsDie
PROPERTIES
    SignOutSticks
CHECK_DEADLOCK FALSE
