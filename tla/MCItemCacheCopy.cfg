CONSTANTS
    Player = {p, q}
    Item = {i1}
    Core = {c1, c2}
    Nobody = Nobody
    Ground = Ground
    NoCore = NoCore
    FlushAge = 1
    LogoutAge = 1
    LimitReached = FALSE
    FlushRequests = TRUE
    Safeboxes = FALSE
    MaxSave = 2
    MaxLoad = 2
SYMMETRY Symmetry
SPECIFICATION Spec
INVARIANTS NoItemCopy
CONSTRAINT InOrder
CHECK_DEADLOCK FALSE
