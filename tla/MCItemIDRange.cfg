CONSTANTS
    Core = {c1, c2}
    NoCore = NoCore
    Ranges <- MCRanges
    MinRemain = 1
    MaxCreate = 2
    MaxClosings = 2
    LinkDrops = TRUE
    Unseen = TRUE
SYMMETRY Symmetry
SPECIFICATION Spec
INVARIANTS TypeOK BooksDisjoint InStep OnlyOverlookedDuplicate
CHECK_DEADLOCK FALSE
