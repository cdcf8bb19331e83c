CONSTANTS
    a = a
    b = b
    s = s
    Player = {p, q}
    Item = {a, b, s}
    Size <- MCSize
    Special = {s}
    Width = 1
    Height = 2
    Pages = 2
    Slots = 2
    ByteCells = 4
    MaxOffer = 2
    GoldMax = 2
    Gold = 1
    Loaded <- MCLoaded
    Amount <- MCAmount
    MaxEvent = 3
    NoItem = NoItem
    NoExchange = NoExchange
SYMMETRY Symmetry
SPECIFICATION Spec
INVARIANTS TypeOK InventoryBooks ExchangeBooks
PROPERTIES LeftOnlyByOrder ImplementsTrade
CHECK_DEADLOCK FALSE
