\* Two lookups in flight over two keys that come and go.
CONSTANTS
    Workers = {w1, w2}
    Nobody = Nobody
    Keys = {k1, k2}
    TTL = 1
    Timeout = 1
    MaxTime = 2
SPECIFICATION FairSpec
INVARIANTS
    TypeOK
PROPERTIES
    RetiredKeysDie
    PublishedKeysKnown
    LookupsReturn
CHECK_DEADLOCK FALSE
