\* Two cores, two members, two items, one of them two cells high.
CONSTANTS
    c1 = c1
    c2 = c2
    p = p
    q = q
    i1 = i1
    i2 = i2
    Core = {c1, c2}
    Player = {p, q}
    Item = {i1, i2}
    Tall = 2
    Size <- Sizes
    MaxNum = 4
    Width = 1
    Height = 3
    Pages = 1
    GoldMax = 1
    NoOne = NoOne
    Guild = Guild
    NoItem = NoItem
    NoCore = NoCore
    InBox = {i1}
    Gold = 1
    MaxEvent = 6
SYMMETRY Symmetry
SPECIFICATION Spec
INVARIANTS TypeOK BoxBooks MirrorFollows ItemOnce ItemKept GoldKept
CONSTRAINT ItemsOrGold
CHECK_DEADLOCK FALSE
