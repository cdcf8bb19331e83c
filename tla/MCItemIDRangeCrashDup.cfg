CONSTANTS
    Core = {c1, c2}
    NoCore = NoCore
    Ranges <- MCRanges
    MinRemain = 1
    MaxCreate = 2
    MaxClosings = 2
    LinkDrops = FALSE
    Unseen = TRUE
SYMMETRY Symmetry
SPECIFICATION Spec
INVARIANT UniqueIDs
CHECK_DEADLOCK FALSE
