----------------------------- MODULE Exchange -----------------------------
(***************************************************************************)
(* Exchange between players (game/exchange.cpp), with what of a character   *)
(* it works on: the cells of the inventory, those of one other window (that *)
(* of skill books, or of stones), and the gold.                             *)
(*                                                                         *)
(* An exchange keeps pointers to the items its owner offers, and the        *)
(* positions they had; m_bExchanging of an item keeps the handlers of items *)
(* away from it.  Not all ask it: what a quest or a recipe takes and what   *)
(* expires is destroyed, and leaves its pointer behind.  The next item may  *)
(* be created at the same address, so an Item here is an address.           *)
(*                                                                         *)
(* The cells of all windows are one array, and MoveItem does not ask of a   *)
(* swap whose they are.  A swap of items of different sizes that leaves the *)
(* inventory, or the cells a BYTE can number, may put items on others and   *)
(* over them: then wItemGrid, which says what cells are free, no longer     *)
(* fits the items.  What it says of such an inventory (torn) is left open.  *)
(*                                                                         *)
(* The core has one thread; Done is taken apart into the steps of its loop  *)
(* all the same, and nothing else happens between them: what holds after    *)
(* every step is easier to state, and to prove, than what the loop does.    *)
(***************************************************************************)
EXTENDS Integers, Sequences, FiniteSets, FiniteSetsExt, SequencesExt

CONSTANTS
    Player,
    Item,       \* the addresses of items
    Size,       \* the cells an item covers, one below the other
    Special,    \* the items whose target window is the other one
    Width,      \* cells of an inventory: columns,
    Height,     \*   rows of a page,
    Pages,      \*   pages
    Slots,      \* cells of the other window
    ByteCells,  \* cells a BYTE can number
    MaxOffer,   \* EXCHANGE_ITEM_MAX_NUM
    GoldMax,    \* GOLD_MAX
    Gold,       \* bound: the gold one of them has at first,
    Loaded,     \*   and the inventories he may have
    Amount,     \* bound: what a player earns, or spends (negative)
    MaxEvent,   \* bound: exchanges, and what happens beside them
    NoItem,
    NoExchange

Num == Width * Height * Pages
Inventory == 0 .. Num - 1
Window == Num .. Num + Slots - 1
Cell == Inventory \cup Window

\* A CExchange.
Side == [company : Player, accept : BOOLEAN, items : Seq(Item), pos : Seq(Cell),
         gold : Nat]

ASSUME ExchangeAssumption ==
    /\ Size \in [Item -> 1 .. 3]
    /\ Special \subseteq Item /\ \A i \in Special : Size[i] = 1
    /\ {Width, Height, Pages, ByteCells} \subseteq Nat \ {0}
    /\ {Slots, MaxOffer, GoldMax, Gold, MaxEvent} \subseteq Nat
    /\ Gold <= GoldMax /\ Amount \subseteq Int
    /\ NoItem \notin Item
    /\ NoExchange \notin Side
    /\ NoExchange \notin [with : Player, items : SUBSET Item, gold : Nat, agreed : BOOLEAN]

VARIABLES
    inv,        \* pItems of each player: the item whose upper cell it is
    buried,     \* items that another was put over: they have an owner and no cell
    torn,       \* history: who has made a swap as described above
    purse,      \* POINT_GOLD
    exch,       \* m_pkExchange
    exchanging, \* the items whose m_bExchanging is set
    givers,     \* Done: whose items are being moved, and whose are to be
    left,       \* Done: dq_TradeItems, what is left of it
    before,     \* history: inv, purse and exch when Done was called, or <<>>
    stuck,      \* history: items Done found no cell for
    reborn,     \* history: new items whose address an exchange still has
    events      \* counter: exchanges started, items moved or destroyed,
                \*   gold earned or spent

cells == <<inv, buried, torn>>
held == <<cells, purse, events>>
done == <<givers, left, before, stuck>>
vars == <<held, exch, exchanging, done, reborn>>

Filled(p) == {c \in Cell : inv[p][c] # NoItem}
Held(p) == {inv[p][c] : c \in Filled(p)}
Company(p) == exch[p].company
Offered(p) == IF exch[p] = NoExchange THEN {} ELSE ToSet(exch[p].items)
Quiet == givers = <<>>

TargetWindow(i) == IF i \in Special THEN Window ELSE Inventory

\* The cells item i covers with its upper one at c.
Span(c, i) == {c + Width * k : k \in 0 .. Size[i] - 1}

\* What the items of f, from cells to items, cover.
Covered(f) == UNION {Span(c, f[c]) : c \in {d \in Cell : f[d] # NoItem}}

Page(c) == {d \in Inventory : d \div (Width * Height) = c \div (Width * Height)}

\* Item i with its upper cell at c is in the other window, or on one page of the inventory.
OnPage(c, i) == c \in Window \/ Span(c, i) \subseteq Page(c)

\* The cells wItemGrid may say are taken.  A cell with an item is, whatever happened.
Grids(p) ==
    IF p \in torn THEN {taken \in SUBSET Cell : Filled(p) \subseteq taken}
                  ELSE {Covered(inv[p])}

\* IsEmptyItemGrid, CGrid::IsEmpty.
Fits(c, i, covered) == OnPage(c, i) /\ Span(c, i) \cap covered = {}

\* The first cell of a window that item i fits at, as a set: there may be none.
FirstFit(window, i, covered) ==
    {c \in window : /\ Fits(c, i, covered)
                    /\ \A d \in window : Fits(d, i, covered) => c <= d}

\* Where f has items they are on their page, or of one cell in the other window, and do
\* not cover one another's cells.
Books(f) ==
    \A c, d \in {e \in Cell : f[e] # NoItem} :
        /\ OnPage(c, f[c])
        /\ c \in Window => Size[f[c]] = 1
        /\ c # d => Span(c, f[c]) \cap Span(d, f[d]) = {}

\* No item of f is in two cells.
Once(f) == \A c, d \in {e \in Cell : f[e] # NoItem} : f[c] = f[d] => c = d

ASSUME LoadedAssumption ==
    \A f \in Loaded : f \in [Cell -> Item \cup {NoItem}] /\ Books(f) /\ Once(f)

-----------------------------------------------------------------------------
(* Faulty variants, see PROJECT.json: slips in the operator each comment    *)
(* names.  No specification uses them.                                      *)

\* Check: the gold there is is not looked at.
CheckItemsOnly(p) ==
    /\ purse[Company(p)] + exch[p].gold <= GoldMax
    /\ \A k \in DOMAIN exch[p].items :
          exch[p].items[k] = inv[p][exch[p].pos[k]]

\* Pushed: the items of the other window are put in front.
PushedOthersFirst(i) == IF i \in Special THEN <<i>> \o left ELSE Append(left, i)

\* Unaccepted: only the other one has to agree again.
UnacceptedByOther(p) == [exch EXCEPT ![Company(p)].accept = FALSE]

\* Close: the company's items are not given back.
CloseOne(p) ==
    /\ exch' = [exch EXCEPT ![p] = NoExchange, ![Company(p)] = NoExchange]
    /\ exchanging' = exchanging \ Offered(p)
    /\ reborn' = reborn \cap UNION {Offered(r) : r \in Player \ {p, Company(p)}}

\* Moved: the item is not taken from who has it.
MovedTwice(i, p, to) ==
    [r \in Player |-> [c \in Cell |-> IF r = p /\ c \in to THEN i ELSE inv[r][c]]]

-----------------------------------------------------------------------------
(* Checks.                                                                  *)

\* CExchange::Check: the gold is there, there is room for it, and the items are
\* where they were.
Check(p) ==
    /\ purse[p] >= exch[p].gold
    /\ purse[Company(p)] + exch[p].gold <= GoldMax
    /\ \A k \in DOMAIN exch[p].items :
          exch[p].items[k] = inv[p][exch[p].pos[k]]

\* Item i put into the first free cells of its target window, as CheckSpace does.
NoRoom == {-1}
PutInto(covered, i) ==
    LET cell == FirstFit(TargetWindow(i), i, covered)
    IN  IF covered = NoRoom \/ cell = {}
          THEN NoRoom
          ELSE covered \cup UNION {Span(c, i) : c \in cell}

\* CheckSpace: the items in the order of their array.  CGrid::Put leaves out an item
\* that lies on another, or runs out of its window: what it finds then is left open.
CheckSpace(p) ==
    \/ Company(p) \in torn
    \/ FoldLeft(PutInto, Covered(inv[Company(p)]), exch[p].items) # NoRoom

\* Done: the cell item i gets in the inventory or, when that is full, its window.
PlaceIn(taken, i) ==
    LET cell == FirstFit(Inventory, i, taken)
    IN  IF cell # {} THEN cell ELSE FirstFit(TargetWindow(i), i, taken)

Places(p, i) == {PlaceIn(taken, i) : taken \in Grids(p)}

-----------------------------------------------------------------------------
(* The exchange window.                                                     *)

Init ==
    /\ \E p \in Player, f \in Loaded :
          /\ inv = [q \in Player |-> IF q = p THEN f ELSE [c \in Cell |-> NoItem]]
          /\ purse = [q \in Player |-> IF q = p THEN Gold ELSE 0]
    /\ buried = {} /\ torn = {}
    /\ events = 0
    /\ exch = [p \in Player |-> NoExchange]
    /\ exchanging = {}
    /\ givers = <<>> /\ left = <<>> /\ before = <<>>
    /\ stuck = {} /\ reborn = {}

\* Bound: a number of them.
Event ==
    /\ Quiet
    /\ events < MaxEvent
    /\ events' = events + 1

\* ExchangeStart.  Who may exchange with whom, and from how far, is left open.
ExchangeStart(p, q) ==
    /\ Event
    /\ p # q
    /\ purse[p] < GoldMax
    /\ exch[p] = NoExchange /\ exch[q] = NoExchange
    /\ LET New(r) == [company |-> r, accept |-> FALSE, items |-> <<>>, pos |-> <<>>,
                      gold |-> 0]
       IN  exch' = [exch EXCEPT ![p] = New(q), ![q] = New(p)]
    /\ UNCHANGED <<cells, purse, exchanging, done, reborn>>

\* The client of p may change his offer.
MayOffer(p) ==
    /\ Quiet
    /\ exch[p] # NoExchange
    /\ ~exch[Company(p)].accept

\* Accept(FALSE), of p and of his company.
Unaccepted(p) == [exch EXCEPT ![p].accept = FALSE, ![Company(p)].accept = FALSE]

\* AddItem.  Of the window's 4 x 6 cells only the number of items is kept.
AddItem(p, c) ==
    /\ MayOffer(p)
    /\ LET i == inv[p][c]
       IN  /\ i \in Item \ exchanging
           /\ Len(exch[p].items) < MaxOffer
           /\ exch' = [Unaccepted(p) EXCEPT ![p].items = Append(@, i),
                                            ![p].pos = Append(@, c)]
           /\ exchanging' = exchanging \cup {i}
    /\ UNCHANGED <<held, done, reborn>>

\* AddGold, once.
AddGold(p, gold) ==
    /\ MayOffer(p)
    /\ purse[Company(p)] + gold < GoldMax
    /\ gold > 0
    /\ purse[p] >= gold
    /\ exch[p].gold = 0
    /\ exch' = [Unaccepted(p) EXCEPT ![p].gold = gold]
    /\ UNCHANGED <<held, exchanging, done, reborn>>

\* Cancel, of p and then of his company.
Close(p) ==
    /\ exch' = [exch EXCEPT ![p] = NoExchange, ![Company(p)] = NoExchange]
    /\ exchanging' = exchanging \ (Offered(p) \cup Offered(Company(p)))
    /\ reborn' = reborn \cap UNION {Offered(r) : r \in Player \ {p, Company(p)}}

Cancel(p) ==
    /\ Quiet
    /\ exch[p] # NoExchange
    /\ Close(p)
    /\ UNCHANGED <<held, done>>

-----------------------------------------------------------------------------
(* Accept.                                                                  *)

MayAccept(p) ==
    /\ Quiet
    /\ exch[p] # NoExchange
    /\ ~exch[p].accept

AcceptFirst(p) ==
    /\ MayAccept(p)
    /\ ~exch[Company(p)].accept
    /\ exch' = [exch EXCEPT ![p].accept = TRUE]
    /\ UNCHANGED <<held, exchanging, done, reborn>>

CanExchange(p) ==
    Check(p) /\ CheckSpace(p) /\ Check(Company(p)) /\ CheckSpace(Company(p))

\* Accept of the second: p's Done is called.
AcceptBoth(p) ==
    /\ MayAccept(p)
    /\ exch[Company(p)].accept
    /\ CanExchange(p)
    /\ exch' = [exch EXCEPT ![p].accept = TRUE]
    /\ givers' = <<p, Company(p)>>
    /\ before' = [inv |-> inv, purse |-> purse, exch |-> exch]
    /\ UNCHANGED <<held, exchanging, left, stuck, reborn>>

\* EXCHANGE_END after a check that failed, that of the connection to the db too.
AcceptInVain(p) ==
    /\ MayAccept(p)
    /\ exch[Company(p)].accept
    /\ Close(p)
    /\ UNCHANGED <<held, done>>

-----------------------------------------------------------------------------
(* Done: for the one who agreed last, then for the other.                   *)

Giver == Head(givers)
Receiver == Company(Giver)
Collected == exch[Giver].items = <<>>

\* Into the deque: items of the inventory in front, each before the one before it.
Pushed(i) == IF i \in Special THEN Append(left, i) ELSE <<i>> \o left

\* The next item leaves the array.
Collect ==
    /\ ~Quiet
    /\ ~Collected
    /\ left' = Pushed(Head(exch[Giver].items))
    /\ exch' = [exch EXCEPT ![Giver].items = Tail(@), ![Giver].pos = Tail(@)]
    /\ UNCHANGED <<held, exchanging, givers, before, stuck, reborn>>

\* Item i leaves who has it; in each cell of to it is p's.
Moved(i, p, to) ==
    [r \in Player |-> [c \in Cell |-> IF r = p /\ c \in to THEN i
                                      ELSE IF inv[r][c] = i THEN NoItem ELSE inv[r][c]]]

MoveNext ==
    /\ ~Quiet /\ Collected
    /\ left # <<>>
    /\ LET i == Head(left)
       IN  /\ \E to \in Places(Receiver, i) \ {{}} : inv' = Moved(i, Receiver, to)
           /\ exchanging' = exchanging \ {i}
    /\ left' = Tail(left)
    /\ UNCHANGED <<buried, torn, purse, events, exch, givers, before, stuck, reborn>>

\* "Cannot find blank position": the item stays with its owner, and exchanging.
LeaveBehind ==
    /\ ~Quiet /\ Collected
    /\ left # <<>>
    /\ {} \in Places(Receiver, Head(left))
    /\ stuck' = stuck \cup {Head(left)}
    /\ left' = Tail(left)
    /\ UNCHANGED <<held, exch, exchanging, givers, before, reborn>>

\* PointChange(POINT_GOLD): more than a player can have is not given to him.
Changed(gold, amount) ==
    IF gold + amount > 2 * GoldMax THEN gold ELSE gold + amount

PayOver ==
    /\ ~Quiet /\ Collected
    /\ left = <<>>
    /\ LET gold == exch[Giver].gold
       IN  purse' = [purse EXCEPT ![Giver] = Changed(@, -gold),
                                  ![Receiver] = Changed(@, gold)]
    /\ UNCHANGED <<cells, events, stuck>>

\* The second Done is called.
PayOverFirst ==
    /\ PayOver
    /\ Len(givers) = 2
    /\ givers' = Tail(givers)
    /\ UNCHANGED <<exch, exchanging, left, before, reborn>>

\* EXCHANGE_END after it.
PayOverSecond ==
    /\ PayOver
    /\ Len(givers) = 1
    /\ givers' = <<>> /\ before' = <<>>
    /\ UNCHANGED left
    /\ Close(Giver)

-----------------------------------------------------------------------------
(* What else happens to the players' items and gold.                        *)

\* The items of p lie as f says.  What is in no cell then is buried.
Rearranged(p, f) ==
    /\ inv' = [inv EXCEPT ![p] = f]
    /\ buried' = buried \cup (Held(p) \ {f[c] : c \in Cell})

\* MoveItem, to cells that are free, but for those the item itself covers.
MoveItem(p, c, d) ==
    /\ Event
    /\ LET i == inv[p][c]
       IN  /\ i \in Item \ exchanging
           /\ d \in Inventory \/ c \in Window \/ i \in Special
           /\ OnPage(d, i)
           /\ p \in torn \/ Span(d, i) \cap Covered(inv[p]) \subseteq Span(c, i)
           /\ Rearranged(p, [inv[p] EXCEPT ![c] = NoItem, ![d] = i])
    /\ UNCHANGED <<torn, purse, exch, exchanging, done, reborn>>

\* MoveItem, to a cell that is not free.  The client may say of any two cells that they
\* are of the inventory.  Of the items below d none is asked whether it is offered.
MaySwap(p, c, d) ==
    /\ Event
    /\ c # d
    /\ {inv[p][c], inv[p][d]} \subseteq Item \ exchanging

SwapItems(p, c, d) ==
    /\ MaySwap(p, c, d)
    /\ Size[inv[p][c]] = Size[inv[p][d]]
    /\ Rearranged(p, [inv[p] EXCEPT ![c] = inv[p][d], ![d] = inv[p][c]])
    /\ UNCHANGED <<torn, purse, exch, exchanging, done, reborn>>

\* SetItem: what there is in a cell goes to another, over what is there.
SetItem(f, from, to) ==
    IF f[from] = NoItem THEN f ELSE [f EXCEPT ![from] = NoItem, ![to] = f[from]]

\* What there is below d goes to below c: the rounds of the loop, with its BYTEs.
Round(f, c, d, k) ==
    SetItem(f, (d + Width * k) % ByteCells, (c + Width * k) % ByteCells)

Swapped(f, c, d) ==
    LET taken == [f EXCEPT ![c] = NoItem]
        two == Round(Round(taken, c, d, 0), c, d, 1)
        all == IF Size[f[c]] = 3 THEN Round(two, c, d, 2) ELSE two
    IN  [all EXCEPT ![d] = f[c]]

\* MoveItem: the items below d, in as many cells as the one at c has, fit there.
SizeAt(f, c) == IF f[c] = NoItem THEN 0 ELSE Size[f[c]]

MakesRoom(f, c, d) ==
    LET size == Size[f[c]]
        last == d + Width * (size - 1)
        total == SizeAt(f, d) + SizeAt(f, d + Width)
                              + (IF size = 3 THEN SizeAt(f, last) ELSE 0)
    IN  /\ SizeAt(f, last) <= 1
        /\ last \div (Width * Height) = d \div (Width * Height)
        /\ total = size \/ (total < size /\ last <= Num)
        /\ d # c + Width

\* Bound: cells that there are; the code goes on into those of what is worn.
SwapUneven(p, c, d) ==
    /\ MaySwap(p, c, d)
    /\ LET i == inv[p][c]
           used == Span(c, i) \cup Span(d, i)
       IN  /\ Size[i] > 1 /\ Size[i] # Size[inv[p][d]]
           /\ used \subseteq Cell
           /\ MakesRoom(inv[p], c, d)
           /\ Rearranged(p, Swapped(inv[p], c, d))
           /\ torn' = IF used \subseteq Inventory \cap 0 .. ByteCells - 1
                        THEN torn ELSE torn \cup {p}
    /\ UNCHANGED <<purse, exch, exchanging, done, reborn>>

\* RemoveSpecifyItem, real_time_expire_event: m_bExchanging does not matter.
Destroy(p, c) ==
    /\ Event
    /\ inv[p][c] \in Item
    /\ inv' = [inv EXCEPT ![p][c] = NoItem]
    /\ exchanging' = exchanging \ {inv[p][c]}
    /\ stuck' = stuck \ {inv[p][c]}
    /\ UNCHANGED <<buried, torn, purse, exch, givers, left, before, reborn>>

\* A buried item expires: SetItem empties the cell it had, whatever is in it now.
DestroyBuried(p, c, i) ==
    /\ Event
    /\ p \in torn /\ i \in buried
    /\ inv' = [inv EXCEPT ![p][c] = NoItem]
    /\ buried' = (buried \ {i}) \cup ({inv[p][c]} \ {NoItem})
    /\ exchanging' = exchanging \ {i}
    /\ stuck' = stuck \ {i}
    /\ UNCHANGED <<torn, purse, exch, givers, left, before, reborn>>

\* GetEmptyInventoryNew.
FreeCell(taken, i) ==
    LET own == FirstFit(TargetWindow(i), i, taken)
    IN  IF own # {} THEN own ELSE FirstFit(Inventory, i, taken)

\* A new item at an address that is free.
Gain(p, i) ==
    /\ Quiet
    /\ i \notin buried /\ \A q \in Player : i \notin Held(q)
    /\ \E taken \in Grids(p) : \E c \in FreeCell(taken, i) :
          inv' = [inv EXCEPT ![p][c] = i]
    /\ reborn' = reborn \cup ({i} \cap UNION {Offered(q) : q \in Player})
    /\ UNCHANGED <<buried, torn, purse, events, exch, exchanging, done>>

EarnOrSpend(p, amount) ==
    /\ Event
    /\ purse[p] + amount >= 0
    /\ purse' = [purse EXCEPT ![p] = Changed(@, amount)]
    /\ UNCHANGED <<cells, exch, exchanging, done, reborn>>

-----------------------------------------------------------------------------
Next ==
    \/ \E p, q \in Player : ExchangeStart(p, q)
    \/ \E p \in Player :
          \/ \E c \in Filled(p) : AddItem(p, c)
          \/ \E gold \in 1 .. GoldMax : AddGold(p, gold)
          \/ AcceptFirst(p)
          \/ AcceptBoth(p)
          \/ AcceptInVain(p)
          \/ Cancel(p)
    \/ Collect
    \/ MoveNext
    \/ LeaveBehind
    \/ PayOverFirst
    \/ PayOverSecond
    \/ \E p \in Player :
          \/ \E c \in Filled(p), d \in Cell :
                MoveItem(p, c, d) \/ SwapItems(p, c, d) \/ SwapUneven(p, c, d)
          \/ \E c \in Filled(p) : Destroy(p, c)
          \/ \E c \in Cell, i \in Item : DestroyBuried(p, c, i)
          \/ \E i \in Item : Gain(p, i)
          \/ \E amount \in Amount : EarnOrSpend(p, amount)

Spec == Init /\ [][Next]_vars

-----------------------------------------------------------------------------
\* The values the variables take; nobody has more gold than PointChange allows.
TypeOK ==
    /\ inv \in [Player -> [Cell -> Item \cup {NoItem}]]
    /\ buried \in SUBSET Item /\ torn \in SUBSET Player
    /\ purse \in [Player -> 0 .. 2 * GoldMax]
    /\ events \in 0 .. MaxEvent
    /\ exch \in [Player -> Side \cup {NoExchange}]
    /\ exchanging \in SUBSET Item
    /\ givers \in Seq(Player) /\ left \in Seq(Item)
    /\ stuck \in SUBSET Item
    /\ reborn \in SUBSET Item

\* No item has two places or two owners, whatever players move, swap and exchange; and
\* none lies on another, or is lost under one, but for who has made a swap of different
\* sizes that left the inventory, or the cells a BYTE can number.
InventoryBooks ==
    /\ \A p \in Player \ torn : Books(inv[p])
    /\ \A p \in Player : Once(inv[p])
    /\ \A p, q \in Player : p # q => Held(p) \cap Held(q) = {}
    /\ \A p \in Player : buried \cap Held(p) = {}
    /\ buried # {} => torn # {}

\* Exchanges come in pairs that name each other.
Paired ==
    \A p \in Player :
        exch[p] # NoExchange =>
           /\ Company(p) # p
           /\ exch[Company(p)] # NoExchange
           /\ Company(Company(p)) = p

\* An item that is offered is still its owner's and out of reach of other handlers, or
\* it is gone.
InPlace ==
    \A p \in Player :
        exch[p] # NoExchange =>
           /\ Len(exch[p].items) = Len(exch[p].pos)
           /\ \A i \in Offered(p) \ reborn :
                 i \in Held(p) \cap exchanging \/ \A q \in Player : i \notin Held(q)

\* An item is out of reach only because it is offered, on its way, or was left behind:
\* nothing else would ever give it back.
OutOfReach ==
    exchanging \subseteq ToSet(left) \cup stuck \cup UNION {Offered(p) : p \in Player}

\* The two sides of an exchange, the items in them and the items' flags agree, though
\* either side, or what happens to an item, may end it at any moment.
ExchangeBooks == Paired /\ InPlace /\ OutOfReach

\* CheckSpace has tried the items in the order of the array, Done moves those of the
\* inventory in the opposite one: only an offer of two of them, of different sizes,
\* leaves an item behind, unless the receiver's inventory is torn.
LeftOnlyByOrder ==
    [][\/ stuck' \subseteq stuck
       \/ Receiver \in torn
       \/ \E i, j \in ToSet(before.exch[Giver].items) \ Special :
             Size[i] # Size[j]]_vars

\* What Trade sees: players, gold and exchanges as they were when Done was called, until
\* it is over.
TradeHolds ==
    [p \in Player |-> IF Quiet THEN Held(p)
                      ELSE {before.inv[p][c] : c \in Cell} \ {NoItem}]

TradePurse == IF Quiet THEN purse ELSE before.purse

TradeSide(e) ==
    IF e = NoExchange THEN NoExchange
    ELSE [with |-> e.company, items |-> ToSet(e.items), gold |-> e.gold,
          agreed |-> e.accept]

TradeDeal == [p \in Player |-> TradeSide(IF Quiet THEN exch[p] ELSE before.exch[p])]

Deals == INSTANCE Trade WITH
    NoDeal <- NoExchange, holds <- TradeHolds, purse <- TradePurse, deal <- TradeDeal

\* Every exchange is one that both agreed to, or none: see Trade.
ImplementsTrade == Deals!Spec
=============================================================================
