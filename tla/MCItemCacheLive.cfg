CONSTANTS
    Player = {p}
    Item = {i1}
    Core = {c1}
    Nobody = Nobody
    Ground = Ground
    NoCore = NoCore
    FlushAge = 1
    LogoutAge = 1
    LimitReached = TRUE
    FlushRequests = TRUE
    Safeboxes = TRUE
    MaxSave = 2
    MaxLoad = 2
SPECIFICATION FairSpec
INVARIANTS CacheBooks
PROPERTIES SavedIsStored
CHECK_DEADLOCK FALSE
