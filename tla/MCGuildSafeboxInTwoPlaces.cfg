\* Two cores, two members, one item, which a member has at first.
CONSTANTS
    c1 = c1
    c2 = c2
    p = p
    q = q
    i1 = i1
    i2 = i2
    Core = {c1, c2}
    Player = {p, q}
    Item = {i1}
    Tall = 2
    Size <- Sizes
    MaxNum = 3
    Width = 1
    Height = 2
    Pages = 1
    GoldMax = 1
    NoOne = NoOne
    Guild = Guild
    NoItem = NoItem
    NoCore = NoCore
    InBox = {}
    Gold = 0
    MaxEvent = 6
SYMMETRY Symmetry
SPECIFICATION Spec
INVARIANTS InBoxOnly
CHECK_DEADLOCK FALSE
