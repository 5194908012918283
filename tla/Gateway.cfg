\* Only Restart leaves a process that has been closed.
SPECIFICATION FairGatewaySpec
CONSTANTS
    Providers = {p1}
    Own = own
    Manual = {m1}
    Nobody = nobody
    Versions = 1
    Tokens = {t1, t2}
    TTL = 2
    FetchTime = 1
    KeySets = 2
    MasterKey = FALSE
INVARIANTS
    GatewayTypeOK
PROPERTIES
    NoOldList
    RefreshIsFresh
    RetiredKeysRefused
    RefreshEnds
