-------------------------- MODULE Exchange_proofs --------------------------
(***************************************************************************)
(* The books of Exchange, for any players and items, any size of the         *)
(* inventories and of the items, and any bounds; and what an answer of       *)
(* CheckSpace says of the room there is.                                    *)
(***************************************************************************)
EXTENDS Exchange, TLAPS, NaturalsInduction, WellFoundedInduction, FiniteSetTheorems

\* Exchanges share no item, but for an address that is used again.
Apart ==
    \A p, q \in Player : p # q => Offered(p) \cap Offered(q) \subseteq reborn

\* Done: who gives, what he still has to pay, and what he has taken out.  No item of an
\* offer that passed the checks is buried.
DoneBooks ==
    /\ Quiet => left = <<>>
    /\ ~Quiet =>
          /\ exch[Giver] # NoExchange
          /\ Len(givers) = 1 \/ (Len(givers) = 2 /\ givers[2] = Receiver)
          /\ \A k \in DOMAIN givers : purse[givers[k]] >= exch[givers[k]].gold
          /\ \A r \in Player \ {Giver} : ToSet(left) \cap Offered(r) \subseteq reborn
          /\ buried \cap ToSet(left) = {}
          /\ \A r \in ToSet(givers) : buried \cap Offered(r) = {}

IInv == TypeOK /\ InventoryBooks /\ ExchangeBooks /\ Apart /\ DoneBooks

-----------------------------------------------------------------------------
(***************************************************************************)
(* Cells and sequences.                                                     *)
(***************************************************************************)

LEMMA ConstantTypes ==
    /\ Size \in [Item -> Nat] /\ \A i \in Item : Size[i] > 0
    /\ Width \in Nat /\ Height \in Nat /\ Pages \in Nat /\ Slots \in Nat
    /\ GoldMax \in Nat /\ Gold \in Nat /\ MaxEvent \in Nat /\ MaxOffer \in Nat
    /\ Gold <= GoldMax /\ Amount \subseteq Int
    /\ \A i \in Special : Size[i] = 1
    /\ NoItem \notin Item
    /\ NoExchange \notin Side
  BY ExchangeAssumption

LEMMA CellTypes ==
    /\ Cell \subseteq Nat
    /\ Inventory \subseteq Cell /\ Window \subseteq Cell
    /\ \A i : TargetWindow(i) \subseteq Cell
<1>1. Num \in Nat
  BY ConstantTypes DEF Num
<1> QED BY <1>1, ConstantTypes DEF Cell, Inventory, Window, TargetWindow

LEMMA InSpan ==
    ASSUME NEW c \in Cell, NEW i \in Item
    PROVE  c \in Span(c, i)
<1>1. 0 \in 0 .. Size[i] - 1
  BY ConstantTypes
<1>2. c + Width * 0 = c
  BY ConstantTypes, CellTypes
<1> QED BY <1>1, <1>2 DEF Span

\* A cell an item fits at is empty.
LEMMA FitsIsEmpty ==
    ASSUME NEW f \in [Cell -> Item \cup {NoItem}], NEW c \in Cell, NEW i \in Item,
           Fits(c, i, Covered(f))
    PROVE  f[c] = NoItem
<1> SUFFICES ASSUME f[c] # NoItem
             PROVE  FALSE
  OBVIOUS
<1>1. c \in Span(c, f[c]) /\ c \in Span(c, i)
  BY InSpan
<1>2. c \in Covered(f)
  BY <1>1 DEF Covered
<1> QED BY <1>1, <1>2 DEF Fits

\* Where Done puts an item: in one cell, where it fits.
LEMMA PlaceFits ==
    ASSUME NEW taken, NEW i, NEW c \in PlaceIn(taken, i), NEW d \in PlaceIn(taken, i)
    PROVE  /\ c \in Cell /\ c = d /\ Fits(c, i, taken)
           /\ c \in Window => i \in Special
<1>1. ASSUME NEW w \in SUBSET Cell, c \in FirstFit(w, i, taken), d \in FirstFit(w, i, taken)
      PROVE  c \in w /\ c = d /\ Fits(c, i, taken)
  <2>1. c \in Int /\ d \in Int
    BY <1>1, CellTypes DEF FirstFit
  <2>2. c <= d /\ d <= c
    BY <1>1 DEF FirstFit
  <2> QED BY <1>1, <2>1, <2>2 DEF FirstFit
<1>2. \E w \in {Inventory, TargetWindow(i)} : PlaceIn(taken, i) = FirstFit(w, i, taken)
  BY DEF PlaceIn
<1>3. Inventory \cap Window = {}
  BY ConstantTypes DEF Inventory, Window, Num
<1> QED BY <1>1, <1>2, <1>3, CellTypes DEF TargetWindow

\* What wItemGrid says.
LEMMA GridTypes ==
    ASSUME NEW p, inv[p] \in [Cell -> Item \cup {NoItem}], NEW taken \in Grids(p)
    PROVE  /\ p \notin torn => taken = Covered(inv[p])
           /\ \A c \in Cell : inv[p][c] # NoItem => c \in taken
<1>1. \A c \in Cell : inv[p][c] # NoItem => c \in Covered(inv[p])
  <2> SUFFICES ASSUME NEW c \in Cell, inv[p][c] # NoItem
               PROVE  c \in Covered(inv[p])
    OBVIOUS
  <2>1. c \in Span(c, inv[p][c])
    BY InSpan
  <2> QED BY <2>1 DEF Covered
<1> QED BY <1>1 DEF Grids, Filled

LEMMA ToSetOfParts ==
    ASSUME NEW s \in Seq(Item)
    PROVE  /\ ToSet(<<>>) = {}
           /\ \A k \in DOMAIN s : s[k] \in ToSet(s)
           /\ \A i \in Item : ToSet(Append(s, i)) = ToSet(s) \cup {i}
           /\ \A i \in Item : ToSet(<<i>> \o s) = ToSet(s) \cup {i}
           /\ s # <<>> => /\ Tail(s) \in Seq(Item)
                          /\ Head(s) \in ToSet(s) \cap Item
                          /\ ToSet(s) = ToSet(Tail(s)) \cup {Head(s)}
<1>1. ToSet(<<>>) = {} /\ \A k \in DOMAIN s : s[k] \in ToSet(s)
  BY DEF ToSet
<1>2. ASSUME NEW i \in Item
      PROVE  ToSet(Append(s, i)) = ToSet(s) \cup {i}
  <2> DEFINE t == Append(s, i)
  <2>1. t \in Seq(Item) /\ Len(t) = Len(s) + 1 /\ t[Len(s) + 1] = i
    OBVIOUS
  <2>2. \A k \in 1 .. Len(s) : t[k] = s[k]
    OBVIOUS
  <2>3. DOMAIN t = 1 .. Len(s) + 1 /\ DOMAIN s = 1 .. Len(s) /\ Len(s) \in Nat
    BY <2>1
  <2> HIDE DEF t
  <2> QED BY <2>1, <2>2, <2>3 DEF ToSet
<1>3. ASSUME NEW i \in Item
      PROVE  ToSet(<<i>> \o s) = ToSet(s) \cup {i}
  <2> DEFINE t == <<i>> \o s
  <2>1. t \in Seq(Item) /\ Len(t) = Len(s) + 1 /\ t[1] = i
    OBVIOUS
  <2>2. \A k \in 1 .. Len(s) : t[k + 1] = s[k]
    OBVIOUS
  <2>3. DOMAIN t = 1 .. Len(s) + 1 /\ DOMAIN s = 1 .. Len(s) /\ Len(s) \in Nat
    BY <2>1
  <2> HIDE DEF t
  <2>4. \A k \in DOMAIN t : t[k] \in ToSet(s) \cup {i}
    <3> TAKE k \in DOMAIN t
    <3>1. CASE k = 1
      BY <3>1, <2>1
    <3>2. CASE k # 1
      <4>1. k - 1 \in 1 .. Len(s) /\ t[(k - 1) + 1] = s[k - 1] /\ (k - 1) + 1 = k
        BY <3>2, <2>2, <2>3
      <4> QED BY <4>1, <1>1, <2>3
    <3> QED BY <3>1, <3>2
  <2>5. \A k \in DOMAIN s : s[k] \in ToSet(t)
    <3> TAKE k \in DOMAIN s
    <3>1. k + 1 \in DOMAIN t /\ t[k + 1] = s[k]
      BY <2>2, <2>3
    <3> QED BY <3>1 DEF ToSet
  <2>6. i \in ToSet(t)
    BY <2>1, <2>3 DEF ToSet
  <2>7. \A x \in ToSet(t) : x \in ToSet(s) \cup {i}
    BY <2>4 DEF ToSet
  <2>8. \A x \in ToSet(s) : x \in ToSet(t)
    BY <2>5 DEF ToSet
  <2> QED BY <2>6, <2>7, <2>8 DEF t
<1>4. ASSUME s # <<>>
      PROVE  /\ Tail(s) \in Seq(Item)
             /\ Head(s) \in ToSet(s) \cap Item
             /\ ToSet(s) = ToSet(Tail(s)) \cup {Head(s)}
  <2> DEFINE t == Tail(s)
  <2>1. t \in Seq(Item) /\ Len(t) = Len(s) - 1 /\ Len(s) \in Nat \ {0}
    BY <1>4
  <2>2. Head(s) = s[1] /\ \A k \in 1 .. Len(t) : t[k] = s[k + 1]
    BY <1>4
  <2>3. DOMAIN t = 1 .. Len(s) - 1 /\ DOMAIN s = 1 .. Len(s)
    BY <2>1
  <2>4. s[1] \in Item
    BY <2>1, <2>3
  <2> HIDE DEF t
  <2>5. \A k \in DOMAIN s : s[k] \in ToSet(t) \cup {s[1]}
    <3> TAKE k \in DOMAIN s
    <3>1. CASE k # 1
      <4>1. k - 1 \in 1 .. Len(t) /\ t[k - 1] = s[(k - 1) + 1] /\ (k - 1) + 1 = k
        BY <3>1, <2>1, <2>2, <2>3
      <4> QED BY <4>1, <2>1, <2>3 DEF ToSet
    <3> QED BY <3>1
  <2>6. \A k \in DOMAIN t : t[k] \in ToSet(s)
    <3> TAKE k \in DOMAIN t
    <3>1. k + 1 \in DOMAIN s /\ t[k] = s[k + 1]
      BY <2>1, <2>2, <2>3
    <3> QED BY <3>1 DEF ToSet
  <2>7. s[1] \in ToSet(s)
    BY <2>1, <2>3 DEF ToSet
  <2>8. \A x \in ToSet(s) : x \in ToSet(t) \cup {s[1]}
    BY <2>5 DEF ToSet
  <2>9. \A x \in ToSet(t) : x \in ToSet(s)
    BY <2>6 DEF ToSet
  <2> QED BY <2>1, <2>2, <2>4, <2>7, <2>8, <2>9 DEF t
<1> QED BY <1>1, <1>2, <1>3, <1>4

-----------------------------------------------------------------------------
(***************************************************************************)
(* Inventories.                                                             *)
(***************************************************************************)

Row == [Cell -> Item \cup {NoItem}]

\* What is left of an inventory when items are taken away is in order.
LEMMA BooksWithout ==
    ASSUME NEW f \in Row, NEW g \in Row, Books(f),
           \A c \in Cell : g[c] = f[c] \/ g[c] = NoItem
    PROVE  Books(g) /\ Covered(g) \subseteq Covered(f)
  BY DEF Row, Books, Covered

LEMMA OnceWithout ==
    ASSUME NEW f \in Row, NEW g \in Row, Once(f),
           \A c \in Cell : g[c] = f[c] \/ g[c] = NoItem
    PROVE  Once(g)
  BY DEF Row, Once

\* And so is one that gets an item it did not have, where it fits.
LEMMA BooksWith ==
    ASSUME NEW f \in Row, Books(f), NEW c \in Cell, NEW i \in Item, NEW cover,
           Covered(f) \subseteq cover, Fits(c, i, cover), c \in Window => Size[i] = 1
    PROVE  Books([f EXCEPT ![c] = i])
<1> DEFINE g == [f EXCEPT ![c] = i]
<1>1. \A d \in Cell : g[d] = IF d = c THEN i ELSE f[d]
  BY DEF Row
<1>2. \A d \in Cell : f[d] # NoItem => Span(c, i) \cap Span(d, f[d]) = {}
  BY DEF Covered, Fits
<1>3. OnPage(c, i)
  BY DEF Fits
<1> HIDE DEF g
<1>4. ASSUME NEW d \in {e \in Cell : g[e] # NoItem}
      PROVE  OnPage(d, g[d]) /\ (d \in Window => Size[g[d]] = 1)
  BY <1>1, <1>3 DEF Books
<1>5. ASSUME NEW d \in {e \in Cell : g[e] # NoItem},
             NEW e \in {x \in Cell : g[x] # NoItem}, d # e
      PROVE  Span(d, g[d]) \cap Span(e, g[e]) = {}
  <2>1. CASE d = c
    BY <2>1, <1>1, <1>2, <1>5
  <2>2. CASE e = c
    BY <2>2, <1>1, <1>2, <1>5
  <2>3. CASE d # c /\ e # c
    BY <2>3, <1>1, <1>5 DEF Books
  <2> QED BY <2>1, <2>2, <2>3
<1>6. Books(g)
  BY <1>4, <1>5 DEF Books
<1> QED BY <1>6 DEF g

LEMMA OnceWith ==
    ASSUME NEW f \in Row, Once(f), NEW c \in Cell, NEW i \in Item,
           \A d \in Cell : f[d] # i
    PROVE  Once([f EXCEPT ![c] = i])
  BY DEF Row, Once

\* What a step leaves of who has which item.
LEMMA HeldApart ==
    ASSUME InventoryBooks, UNCHANGED <<buried, torn>>, NEW p \in Player, NEW i,
           i \notin buried,
           \A r \in Player : Once(inv'[r]) /\ (r \notin torn => Books(inv'[r])),
           \A r \in Player : Held(r)' = (Held(r) \ {i}) \cup (IF r = p THEN {i} ELSE {})
    PROVE  InventoryBooks'
<1>1. \A r, s \in Player : r # s => Held(r)' \cap Held(s)' = {}
  BY DEF InventoryBooks
<1>2. \A r \in Player : buried' \cap Held(r)' = {}
  BY DEF InventoryBooks
<1> QED BY <1>1, <1>2 DEF InventoryBooks

\* p's inventory without item i.
Without(p, i) == [c \in Cell |-> IF inv[p][c] = i THEN NoItem ELSE inv[p][c]]

\* An item that comes into p's inventory, from wherever it was.
LEMMA ItemMoves ==
    ASSUME TypeOK, InventoryBooks, NEW p \in Player, NEW i \in Item, NEW c \in Cell,
           inv[p][c] = NoItem \/ inv[p][c] = i,
           i \notin buried, UNCHANGED <<buried, torn>>, NEW cover,
           p \notin torn => /\ Covered(Without(p, i)) \subseteq cover
                            /\ Fits(c, i, cover)
                            /\ c \in Window => Size[i] = 1,
           inv' = Moved(i, p, {c})
    PROVE  /\ inv' \in [Player -> Row]
           /\ InventoryBooks'
           /\ \A r \in Player : Held(r)' = (Held(r) \ {i}) \cup (IF r = p THEN {i} ELSE {})
           /\ \A r \in Player, d \in Cell :
                 inv[r][d] \in Item \ {i} => inv'[r][d] = inv[r][d]
<1>1. inv \in [Player -> Row] /\ NoItem \notin Item
  BY ConstantTypes DEF TypeOK, Row
<1>2. inv' \in [Player -> Row]
  BY <1>1 DEF Moved, Row
<1>3. \A r \in Player, d \in Cell :
        inv'[r][d] = IF r = p /\ d = c THEN i
                     ELSE IF inv[r][d] = i THEN NoItem ELSE inv[r][d]
  BY DEF Moved
<1>4. ASSUME NEW r \in Player
      PROVE  /\ Without(r, i) \in Row /\ Once(Without(r, i))
             /\ r \notin torn => Books(Without(r, i))
  <2>1. Without(r, i) \in Row
    BY <1>1 DEF Without, Row
  <2>2. Once(inv[r]) /\ (r \notin torn => Books(inv[r])) /\ inv[r] \in Row
    BY <1>1 DEF InventoryBooks
  <2>3. \A d \in Cell : Without(r, i)[d] = inv[r][d] \/ Without(r, i)[d] = NoItem
    BY DEF Without
  <2> QED BY <2>1, <2>2, <2>3, BooksWithout, OnceWithout
<1>5. Once(inv'[p]) /\ (p \notin torn => Books(inv'[p]))
  <2>1. \A d \in Cell : Without(p, i)[d] # i
    BY <1>1 DEF Without
  <2>2. Once([Without(p, i) EXCEPT ![c] = i])
    BY <1>4, <2>1, OnceWith
  <2>3. inv'[p] = [Without(p, i) EXCEPT ![c] = i]
    BY DEF Moved, Without
  <2>4. ASSUME p \notin torn
        PROVE  Books([Without(p, i) EXCEPT ![c] = i])
    <3>1. /\ Without(p, i) \in Row /\ Books(Without(p, i))
          /\ Covered(Without(p, i)) \subseteq cover /\ Fits(c, i, cover)
          /\ c \in Window => Size[i] = 1
      BY <1>4, <2>4
    <3> QED BY <3>1, BooksWith
  <2> QED BY <2>2, <2>3, <2>4
<1>6. ASSUME NEW r \in Player, r # p
      PROVE  Once(inv'[r]) /\ (r \notin torn => Books(inv'[r]))
  <2>1. inv'[r] = Without(r, i)
    BY <1>6 DEF Moved, Without
  <2> QED BY <2>1, <1>4
<1>7. \A r \in Player : Held(r)' = (Held(r) \ {i}) \cup (IF r = p THEN {i} ELSE {})
  <2> SUFFICES ASSUME NEW r \in Player, NEW x
               PROVE  x \in Held(r)' <=>
                          x \in (Held(r) \ {i}) \cup (IF r = p THEN {i} ELSE {})
    OBVIOUS
  <2>1. x \in Held(r)' <=> \E d \in Cell : inv'[r][d] # NoItem /\ inv'[r][d] = x
    BY DEF Held, Filled
  <2>2. x \in Held(r) <=> \E d \in Cell : inv[r][d] # NoItem /\ inv[r][d] = x
    BY DEF Held, Filled
  <2>3. CASE r = p /\ x = i
    BY <2>1, <2>3, <1>1, <1>3
  <2>4. CASE r # p /\ x = i
    BY <2>1, <2>4, <1>1, <1>3
  <2>5. CASE x # i /\ \E d \in Cell : inv[r][d] # NoItem /\ inv[r][d] = x
    <3>1. PICK d \in Cell : inv[r][d] # NoItem /\ inv[r][d] = x
      BY <2>5
    <3>2. inv'[r][d] = x
      BY <3>1, <2>5, <1>3
    <3> QED BY <3>1, <3>2, <2>1, <2>2, <2>5
  <2>6. CASE x # i /\ ~\E d \in Cell : inv[r][d] # NoItem /\ inv[r][d] = x
    BY <2>6, <2>1, <2>2, <1>3
  <2> QED BY <2>3, <2>4, <2>5, <2>6
<1>8. InventoryBooks'
  <2>1. \A r \in Player : Once(inv'[r]) /\ (r \notin torn => Books(inv'[r]))
    BY <1>5, <1>6
  <2> QED BY <2>1, <1>7, HeldApart
<1> QED BY <1>1, <1>2, <1>3, <1>7, <1>8

\* An item has one place.
LEMMA OnePlace ==
    ASSUME TypeOK, InventoryBooks, NEW p \in Player, NEW c \in Cell, inv[p][c] \in Item
    PROVE  /\ inv[p][c] \in Held(p) /\ inv[p][c] \notin buried
           /\ \A r \in Player, d \in Cell : inv[r][d] = inv[p][c] => r = p /\ d = c
           /\ \A r \in Player : inv[p][c] \in Held(r) => r = p
<1> DEFINE i == inv[p][c]
<1>1. inv \in [Player -> Row] /\ NoItem \notin Item
  BY ConstantTypes DEF TypeOK, Row
<1>2. i \in Held(p)
  BY <1>1 DEF Held, Filled
<1>3. ASSUME NEW r \in Player, NEW d \in Cell, inv[r][d] = i
      PROVE  r = p /\ d = c
  <2>1. i \in Held(r)
    BY <1>1, <1>3 DEF Held, Filled
  <2>2. r = p
    BY <1>2, <2>1 DEF InventoryBooks
  <2>3. Once(inv[p])
    BY DEF InventoryBooks
  <2> QED BY <1>3, <2>2, <2>3, <1>1 DEF Once
<1> QED BY <1>2, <1>3 DEF InventoryBooks

\* A cell that is emptied, whatever is in it.
LEMMA CellEmptied ==
    ASSUME TypeOK, InventoryBooks, NEW p \in Player, NEW c \in Cell,
           inv' = [inv EXCEPT ![p][c] = NoItem]
    PROVE  /\ inv' \in [Player -> Row]
           /\ \A r \in Player : Once(inv'[r]) /\ (r \notin torn => Books(inv'[r]))
           /\ \A r \in Player : Held(r)' = Held(r) \ {inv[p][c]}
           /\ \A r \in Player, d \in Cell :
                 inv[r][d] # inv[p][c] => inv'[r][d] = inv[r][d]
<1> DEFINE i == inv[p][c]
<1>1. inv \in [Player -> Row] /\ NoItem \notin Item
  BY ConstantTypes DEF TypeOK, Row
<1>2. inv' \in [Player -> Row]
  BY <1>1 DEF Row
<1>3. \A r \in Player, d \in Cell :
        inv'[r][d] = IF r = p /\ d = c THEN NoItem ELSE inv[r][d]
  BY <1>1 DEF Row
<1>4. ASSUME NEW r \in Player
      PROVE  Once(inv'[r]) /\ (r \notin torn => Books(inv'[r]))
  <2>1. /\ inv[r] \in Row /\ inv'[r] \in Row
        /\ Once(inv[r]) /\ (r \notin torn => Books(inv[r]))
    BY <1>1, <1>2 DEF InventoryBooks
  <2>2. \A d \in Cell : inv'[r][d] = inv[r][d] \/ inv'[r][d] = NoItem
    BY <1>3
  <2> QED BY <2>1, <2>2, BooksWithout, OnceWithout
<1>5. \A r \in Player, d \in Cell : i \in Item /\ inv[r][d] = i => r = p /\ d = c
  BY OnePlace
<1>6. i \in Item \/ i = NoItem
  BY <1>1 DEF Row
<1>7. \A r \in Player : Held(r)' = Held(r) \ {i}
  <2> SUFFICES ASSUME NEW r \in Player, NEW x
               PROVE  x \in Held(r)' <=> x \in Held(r) \ {i}
    OBVIOUS
  <2>1. x \in Held(r)' <=> \E d \in Cell : inv'[r][d] # NoItem /\ inv'[r][d] = x
    BY DEF Held, Filled
  <2>2. x \in Held(r) <=> \E d \in Cell : inv[r][d] # NoItem /\ inv[r][d] = x
    BY DEF Held, Filled
  <2> HIDE DEF i
  <2>3. CASE i \in Item
    BY <2>1, <2>2, <2>3, <1>1, <1>3, <1>5 DEF i
  <2>4. CASE i = NoItem
    BY <2>1, <2>2, <2>4, <1>3 DEF i
  <2> QED BY <2>3, <2>4, <1>6
<1>8. ASSUME NEW r \in Player, NEW d \in Cell, inv[r][d] # i
      PROVE  inv'[r][d] = inv[r][d]
  BY <1>3, <1>8
<1> QED BY <1>2, <1>4, <1>7, <1>8

\* An item that is taken away.
LEMMA ItemLeaves ==
    ASSUME TypeOK, InventoryBooks, NEW p \in Player, NEW c \in Cell,
           inv' = [inv EXCEPT ![p][c] = NoItem],
           UNCHANGED <<buried, torn>>
    PROVE  /\ inv' \in [Player -> Row]
           /\ InventoryBooks'
           /\ \A r \in Player : Held(r)' = Held(r) \ {inv[p][c]}
           /\ \A r \in Player, d \in Cell :
                 inv[r][d] # inv[p][c] => inv'[r][d] = inv[r][d]
<1> DEFINE i == inv[p][c]
<1>1. /\ inv' \in [Player -> Row]
      /\ \A r \in Player : Once(inv'[r]) /\ (r \notin torn => Books(inv'[r]))
      /\ \A r \in Player : Held(r)' = Held(r) \ {i}
      /\ \A r \in Player, d \in Cell : inv[r][d] # i => inv'[r][d] = inv[r][d]
  BY CellEmptied
<1> HIDE DEF i
<1>2. \A r, s \in Player : r # s => Held(r)' \cap Held(s)' = {}
  BY <1>1 DEF InventoryBooks
<1>3. \A r \in Player : buried' \cap Held(r)' = {}
  BY <1>1 DEF InventoryBooks
<1>4. InventoryBooks'
  BY <1>1, <1>2, <1>3 DEF InventoryBooks
<1> QED BY <1>1, <1>4 DEF i

-----------------------------------------------------------------------------
(***************************************************************************)
(* Exchanges.                                                               *)
(***************************************************************************)

LEMMA Sides ==
    ASSUME TypeOK, Paired, NEW p \in Player, exch[p] # NoExchange
    PROVE  /\ exch[p] \in Side
           /\ Company(p) \in Player /\ Company(p) # p
           /\ exch[Company(p)] # NoExchange /\ exch[Company(p)] \in Side
           /\ Company(Company(p)) = p
           /\ Offered(p) = ToSet(exch[p].items)
<1>1. exch[p] \in Side
  BY DEF TypeOK
<1>2. Company(p) \in Player
  BY <1>1 DEF Side, Company
<1>3. exch[Company(p)] # NoExchange
  BY DEF Paired
<1>4. exch[Company(p)] \in Side
  BY <1>2, <1>3 DEF TypeOK
<1> QED BY <1>1, <1>2, <1>3, <1>4 DEF Paired, Offered

LEMMA SameInventories ==
    ASSUME InventoryBooks, UNCHANGED <<inv, buried, torn>>
    PROVE  InventoryBooks' /\ \A r : Held(r)' = Held(r)
<1>1. \A r : Held(r)' = Held(r)
  BY DEF Held, Filled
<1>2. \A p \in Player : Once(inv'[p]) /\ (p \notin torn => Books(inv'[p]))
  BY DEF InventoryBooks
<1> QED BY <1>1, <1>2 DEF InventoryBooks

\* What Close leaves behind: the other exchanges.
LEMMA Closing ==
    ASSUME TypeOK, InventoryBooks, ExchangeBooks, Apart, left = <<>>,
           NEW p \in Player, exch[p] # NoExchange, Close(p),
           UNCHANGED <<inv, buried, torn, left, stuck>>
    PROVE  /\ exch' \in [Player -> Side \cup {NoExchange}]
           /\ exchanging' \in SUBSET Item /\ reborn' \in SUBSET Item
           /\ InventoryBooks' /\ ExchangeBooks' /\ Apart'
<1> DEFINE q == Company(p)
<1>1. /\ q \in Player /\ q # p /\ Company(q) = p
      /\ exch \in [Player -> Side \cup {NoExchange}]
  BY Sides DEF ExchangeBooks, TypeOK
<1>2. \A r \in Player : exch'[r] = IF r \in {p, q} THEN NoExchange ELSE exch[r]
  BY <1>1 DEF Close
<1>3. exch' \in [Player -> Side \cup {NoExchange}]
  BY <1>1 DEF Close
<1>4. /\ exchanging' = exchanging \ (Offered(p) \cup Offered(q))
      /\ reborn' = reborn \cap UNION {Offered(r) : r \in Player \ {p, q}}
  BY DEF Close
<1>5. \A r \in Player : Offered(r)' = IF r \in {p, q} THEN {} ELSE Offered(r)
  BY <1>2 DEF Offered
<1>6. InventoryBooks' /\ \A r : Held(r)' = Held(r)
  BY SameInventories
<1>7. Paired'
  <2> SUFFICES ASSUME NEW r \in Player, exch'[r] # NoExchange
               PROVE  /\ exch'[r].company # r
                      /\ exch'[exch'[r].company] # NoExchange
                      /\ exch'[exch'[r].company].company = r
    BY DEF Paired, Company
  <2>1. r \notin {p, q} /\ exch'[r] = exch[r] /\ exch[r] # NoExchange
    BY <1>2
  <2>2. /\ Company(r) \in Player /\ Company(r) # r
        /\ exch[Company(r)] # NoExchange /\ Company(Company(r)) = r
    BY <2>1, Sides DEF ExchangeBooks
  <2>3. Company(r) \notin {p, q}
    BY <1>1, <2>1, <2>2
  <2> QED BY <2>1, <2>2, <2>3, <1>2 DEF Company
<1>8. InPlace'
  <2> SUFFICES ASSUME NEW r \in Player, exch'[r] # NoExchange
               PROVE  /\ Len(exch'[r].items) = Len(exch'[r].pos)
                      /\ \A i \in Offered(r)' \ reborn' :
                            \/ i \in Held(r)' \cap exchanging'
                            \/ \A s \in Player : i \notin Held(s)'
    BY DEF InPlace
  <2>1. /\ r \notin {p, q} /\ exch'[r] = exch[r] /\ exch[r] # NoExchange
        /\ Offered(r)' = Offered(r)
    BY <1>2, <1>5
  <2>2. ASSUME NEW i \in Offered(r) \ reborn'
        PROVE  /\ i \in Held(r) \cap exchanging \/ \A s \in Player : i \notin Held(s)
               /\ i \in exchanging => i \in exchanging'
    <3>1. i \notin reborn
      BY <2>1, <2>2, <1>4
    <3>2. i \notin Offered(p) \cup Offered(q)
      BY <2>1, <2>2, <3>1, <1>1 DEF Apart
    <3> QED BY <2>1, <2>2, <3>1, <3>2, <1>4 DEF ExchangeBooks, InPlace
  <2> QED BY <2>1, <2>2, <1>6 DEF ExchangeBooks, InPlace
<1>9. OutOfReach'
  <2> SUFFICES ASSUME NEW i \in exchanging'
               PROVE  i \in ToSet(left) \cup stuck \cup UNION {Offered(r)' : r \in Player}
    BY DEF OutOfReach
  <2>1. i \in exchanging /\ i \notin Offered(p) \cup Offered(q)
    BY <1>4
  <2>2. i \in ToSet(left) \cup stuck \cup UNION {Offered(r) : r \in Player}
    BY <2>1 DEF ExchangeBooks, OutOfReach
  <2> QED BY <2>1, <2>2, <1>5
<1>10. Apart'
  <2> SUFFICES ASSUME NEW r \in Player, NEW s \in Player, r # s,
                      NEW i \in Offered(r)' \cap Offered(s)'
               PROVE  i \in reborn'
    BY DEF Apart
  <2> QED BY <1>4, <1>5 DEF Apart
<1>11. exchanging' \in SUBSET Item /\ reborn' \in SUBSET Item
  BY <1>4 DEF TypeOK
<1> QED BY <1>3, <1>6, <1>7, <1>8, <1>9, <1>10, <1>11 DEF ExchangeBooks

LEMMA ExchangeStartKeeps ==
    ASSUME IInv, NEW p \in Player, NEW q \in Player, ExchangeStart(p, q)
    PROVE  IInv'
<1> DEFINE New(r) == [company |-> r, accept |-> FALSE, items |-> <<>>, pos |-> <<>>,
                      gold |-> 0]
<1>1. /\ p # q /\ exch[p] = NoExchange /\ exch[q] = NoExchange
      /\ exch' = [exch EXCEPT ![p] = New(q), ![q] = New(p)]
      /\ UNCHANGED <<inv, buried, torn, purse, exchanging, givers, left, before, stuck, reborn>>
      /\ Quiet /\ events < MaxEvent /\ events' = events + 1
  BY DEF ExchangeStart, Event, cells, done
<1>2. New(p) \in Side /\ New(q) \in Side
  BY DEF Side
<1>3. exch \in [Player -> Side \cup {NoExchange}]
  BY DEF IInv, TypeOK
<1>4. \A r \in Player :
        exch'[r] = IF r = p THEN New(q) ELSE IF r = q THEN New(p) ELSE exch[r]
  BY <1>1, <1>3
<1>14. /\ New(p).company = p /\ New(p).items = <<>> /\ New(p).pos = <<>>
      /\ New(q).company = q /\ New(q).items = <<>> /\ New(q).pos = <<>>
  OBVIOUS
<1>15. exch'[p] = New(q) /\ exch'[q] = New(p)
  BY <1>1, <1>4
<1> HIDE DEF New
<1>13. /\ exch'[p].company = q /\ exch'[p].items = <<>> /\ exch'[p].pos = <<>>
      /\ exch'[q].company = p /\ exch'[q].items = <<>> /\ exch'[q].pos = <<>>
  BY <1>14, <1>15
<1>5. New(p) # NoExchange /\ New(q) # NoExchange
  BY <1>2, ConstantTypes
<1>6. TypeOK'
  <2>1. exch' \in [Player -> Side \cup {NoExchange}]
    BY <1>1, <1>2, <1>3
  <2>2. events' \in 0 .. MaxEvent
    BY <1>1, ConstantTypes DEF IInv, TypeOK
  <2> QED BY <2>1, <2>2, <1>1 DEF IInv, TypeOK
<1>7. InventoryBooks' /\ \A r : Held(r)' = Held(r)
  BY <1>1, SameInventories DEF IInv
<1>8. \A r \in Player : Offered(r)' = Offered(r)
  <2> TAKE r \in Player
  <2>1. CASE r \in {p, q}
    <3>1. Offered(r) = {}
      BY <2>1, <1>1 DEF Offered
    <3>2. exch'[r].items = <<>> /\ ToSet(<<>>) = {}
      BY <2>1, <1>1, <1>4, <1>13 DEF ToSet
    <3> QED BY <3>1, <3>2 DEF Offered
  <2>2. CASE r \notin {p, q}
    BY <2>2, <1>4 DEF Offered
  <2> QED BY <2>1, <2>2
<1>9. Paired'
  <2> SUFFICES ASSUME NEW r \in Player, exch'[r] # NoExchange
               PROVE  /\ exch'[r].company # r
                      /\ exch'[exch'[r].company] # NoExchange
                      /\ exch'[exch'[r].company].company = r
    BY DEF Paired, Company
  <2>1. exch'[p] # NoExchange /\ exch'[q] # NoExchange
    BY <1>4, <1>5
  <2>3. CASE r \in {p, q}
    BY <2>1, <2>3, <1>1, <1>13
  <2>2. CASE r \notin {p, q}
    <3>1. exch'[r] = exch[r] /\ exch[r] # NoExchange
      BY <2>2, <1>4
    <3>2. /\ Company(r) \in Player /\ Company(r) # r
          /\ exch[Company(r)] # NoExchange /\ Company(Company(r)) = r
      BY <3>1, Sides DEF ExchangeBooks, IInv
    <3>3. Company(r) \notin {p, q}
      BY <1>1, <3>2
    <3> QED BY <3>1, <3>2, <3>3, <1>4 DEF Company
  <2> QED BY <2>2, <2>3
<1>10. InPlace'
  <2> SUFFICES ASSUME NEW r \in Player, exch'[r] # NoExchange
               PROVE  /\ Len(exch'[r].items) = Len(exch'[r].pos)
                      /\ \A i \in Offered(r)' \ reborn' :
                            \/ i \in Held(r)' \cap exchanging'
                            \/ \A s \in Player : i \notin Held(s)'
    BY DEF InPlace
  <2>1. CASE r \in {p, q}
    <3>1. exch'[r].items = <<>> /\ exch'[r].pos = <<>>
      BY <2>1, <1>1, <1>4, <1>13
    <3>2. Offered(r)' = {}
      BY <2>1, <1>1, <1>8 DEF Offered
    <3> QED BY <3>1, <3>2
  <2>2. CASE r \notin {p, q}
    <3>1. exch'[r] = exch[r] /\ exch[r] # NoExchange
      BY <2>2, <1>4
    <3> QED BY <3>1, <1>1, <1>7, <1>8 DEF IInv, ExchangeBooks, InPlace
  <2> QED BY <2>1, <2>2
<1>11. OutOfReach' /\ Apart'
  BY <1>1, <1>8 DEF IInv, ExchangeBooks, OutOfReach, Apart
<1>12. DoneBooks'
  BY <1>1 DEF IInv, DoneBooks, Quiet
<1> QED BY <1>6, <1>7, <1>9, <1>10, <1>11, <1>12 DEF IInv, ExchangeBooks

LEMMA CancelKeeps ==
    ASSUME IInv, NEW p \in Player, Cancel(p) \/ AcceptInVain(p)
    PROVE  IInv'
<1>1. /\ exch[p] # NoExchange /\ Close(p) /\ Quiet
      /\ UNCHANGED <<inv, buried, torn, purse, events, givers, left, before, stuck>>
  BY DEF Cancel, AcceptInVain, MayAccept, held, cells, done
<1>2. left = <<>>
  BY <1>1 DEF IInv, DoneBooks
<1>3. /\ exch' \in [Player -> Side \cup {NoExchange}]
      /\ exchanging' \in SUBSET Item /\ reborn' \in SUBSET Item
      /\ InventoryBooks' /\ ExchangeBooks' /\ Apart'
  BY <1>1, <1>2, Closing DEF IInv
<1>4. TypeOK'
  BY <1>1, <1>3 DEF IInv, TypeOK
<1>5. DoneBooks'
  BY <1>1, <1>2 DEF DoneBooks, Quiet
<1> QED BY <1>3, <1>4, <1>5 DEF IInv

\* What is said and paid leaves the offers, and the items, as they are.
LEMMA SameOffers ==
    ASSUME IInv, UNCHANGED <<inv, buried, torn, exchanging, left, stuck, reborn>>,
           \A r \in Player :
              /\ exch[r] = NoExchange <=> exch'[r] = NoExchange
              /\ exch[r] # NoExchange =>
                    /\ exch'[r].company = exch[r].company
                    /\ exch'[r].items = exch[r].items
                    /\ exch'[r].pos = exch[r].pos
    PROVE  /\ InventoryBooks' /\ ExchangeBooks' /\ Apart'
           /\ \A r \in Player : Offered(r)' = Offered(r)
<1>1. InventoryBooks' /\ \A r : Held(r)' = Held(r)
  BY SameInventories DEF IInv
<1>2. \A r \in Player : Offered(r)' = Offered(r)
  BY DEF Offered
<1>3. Paired'
  <2> SUFFICES ASSUME NEW r \in Player, exch'[r] # NoExchange
               PROVE  /\ exch'[r].company # r
                      /\ exch'[exch'[r].company] # NoExchange
                      /\ exch'[exch'[r].company].company = r
    BY DEF Paired, Company
  <2>1. exch[r] # NoExchange /\ exch'[r].company = Company(r)
    BY DEF Company
  <2>2. /\ Company(r) \in Player /\ Company(r) # r
        /\ exch[Company(r)] # NoExchange /\ Company(Company(r)) = r
    BY <2>1, Sides DEF IInv, ExchangeBooks
  <2>3. exch'[Company(r)] # NoExchange /\ exch'[Company(r)].company = r
    BY <2>2 DEF Company
  <2> QED BY <2>1, <2>2, <2>3
<1>4. InPlace'
  BY <1>1, <1>2 DEF IInv, ExchangeBooks, InPlace
<1>5. OutOfReach' /\ Apart'
  BY <1>2 DEF IInv, ExchangeBooks, OutOfReach, Apart
<1> QED BY <1>1, <1>2, <1>3, <1>4, <1>5 DEF ExchangeBooks

\* What happens to item i is no matter for the exchanges: it is gone, or nobody
\* offers it.
LEMMA OtherItemsStay ==
    ASSUME IInv, exch' = exch, NEW i \in Item,
           \A r \in Player : Held(r) \ {i} \subseteq Held(r)' /\ Held(r)' \subseteq Held(r) \cup {i},
           exchanging \ {i} \subseteq exchanging', reborn \subseteq reborn',
           \A r \in Player :
              i \in Offered(r) => i \in reborn' \/ \A s \in Player : i \notin Held(s)'
    PROVE  /\ Paired' /\ InPlace'
           /\ \A r \in Player : Offered(r)' = Offered(r)
<1>1. \A r \in Player : Offered(r)' = Offered(r)
  BY DEF Offered
<1>2. Paired'
  BY DEF IInv, ExchangeBooks, Paired, Company
<1>3. InPlace'
  <2> SUFFICES ASSUME NEW r \in Player, exch'[r] # NoExchange
               PROVE  /\ Len(exch'[r].items) = Len(exch'[r].pos)
                      /\ \A j \in Offered(r)' \ reborn' :
                            \/ j \in Held(r)' \cap exchanging'
                            \/ \A s \in Player : j \notin Held(s)'
    BY DEF InPlace
  <2>1. Len(exch[r].items) = Len(exch[r].pos)
    BY DEF IInv, ExchangeBooks, InPlace
  <2>2. ASSUME NEW j \in Offered(r) \ reborn'
        PROVE  \/ j \in Held(r)' \cap exchanging'
               \/ \A s \in Player : j \notin Held(s)'
    <3>1. j \in Held(r) \cap exchanging \/ \A s \in Player : j \notin Held(s)
      BY <2>2 DEF IInv, ExchangeBooks, InPlace
    <3>2. CASE j = i
      BY <2>2, <3>2
    <3>3. CASE j # i
      BY <3>1, <3>3
    <3> QED BY <3>2, <3>3
  <2> QED BY <2>1, <2>2, <1>1
<1> QED BY <1>1, <1>2, <1>3

LEMMA Appended ==
    ASSUME NEW S, NEW s \in Seq(S), NEW e \in S
    PROVE  /\ Len(s) \in Nat /\ DOMAIN s = 1 .. Len(s)
           /\ Append(s, e) \in Seq(S)
           /\ Len(Append(s, e)) = Len(s) + 1
           /\ DOMAIN Append(s, e) = 1 .. Len(s) + 1
           /\ Append(s, e)[Len(s) + 1] = e
           /\ \A k \in 1 .. Len(s) : Append(s, e)[k] = s[k]
  OBVIOUS

LEMMA AddItemKeeps ==
    ASSUME IInv, NEW p \in Player, NEW c \in Cell, AddItem(p, c)
    PROVE  IInv'
<1> DEFINE q == Company(p)  i == inv[p][c]
           mine == [exch[p] EXCEPT !.accept = FALSE, !.items = Append(@, i),
                                   !.pos = Append(@, c)]
           other == [exch[q] EXCEPT !.accept = FALSE]
<1>1. /\ Quiet /\ exch[p] # NoExchange
      /\ i \in Item /\ i \notin exchanging
      /\ exch' = [Unaccepted(p) EXCEPT ![p].items = Append(@, i),
                                       ![p].pos = Append(@, c)]
      /\ exchanging' = exchanging \cup {i}
      /\ UNCHANGED <<inv, buried, torn, purse, events, givers, left, before, stuck, reborn>>
  BY DEF AddItem, MayOffer, held, cells, done
<1>2. exch \in [Player -> Side \cup {NoExchange}] /\ Paired
  BY DEF IInv, TypeOK, ExchangeBooks
<1>3. /\ q \in Player /\ q # p /\ exch[p] \in Side /\ exch[q] \in Side
      /\ exch[q] # NoExchange /\ exch[q].company = p
      /\ Offered(p) = ToSet(exch[p].items)
  BY <1>1, Sides DEF IInv, ExchangeBooks, Company
<1>4. \A r \in Player :
        exch'[r] = IF r = p THEN mine ELSE IF r = q THEN other ELSE exch[r]
  BY <1>1, <1>2, <1>3 DEF Unaccepted, Side
<1>5. /\ exch[p].items \in Seq(Item) /\ exch[p].pos \in Seq(Cell)
      /\ Len(exch[p].items) = Len(exch[p].pos)
  BY <1>1, <1>3 DEF Side, IInv, ExchangeBooks, InPlace
<1>6. mine \in Side /\ other \in Side
  <2>1. Append(exch[p].items, i) \in Seq(Item) /\ Append(exch[p].pos, c) \in Seq(Cell)
    BY <1>1, <1>5
  <2> QED BY <2>1, <1>3 DEF Side
<1>7. /\ mine.company = exch[p].company
      /\ mine.items = Append(exch[p].items, i)
      /\ mine.pos = Append(exch[p].pos, c)
  BY <1>3 DEF Side
<1>8. other.company = p /\ other.items = exch[q].items /\ other.pos = exch[q].pos
  BY <1>3 DEF Side
<1>9. mine # NoExchange /\ other # NoExchange
  BY <1>6, ConstantTypes
<1> HIDE DEF mine, other
<1>10. TypeOK'
  <2>1. exch' \in [Player -> Side \cup {NoExchange}]
    <3>1. DOMAIN exch' = Player /\ exch' = [r \in Player |-> exch'[r]]
      BY <1>1, <1>2 DEF Unaccepted
    <3> QED BY <3>1, <1>2, <1>4, <1>6
  <2> QED BY <2>1, <1>1 DEF IInv, TypeOK
<1>11. InventoryBooks' /\ \A r : Held(r)' = Held(r)
  BY <1>1, SameInventories DEF IInv
<1>12. \A r \in Player :
         Offered(r)' = IF r = p THEN Offered(p) \cup {i} ELSE Offered(r)
  <2> TAKE r \in Player
  <2>1. CASE r = p
    <3>1. Offered(p)' = ToSet(Append(exch[p].items, i))
      BY <1>4, <1>7, <1>9 DEF Offered
    <3>2. ToSet(Append(exch[p].items, i)) = ToSet(exch[p].items) \cup {i}
      BY <1>1, <1>5, ToSetOfParts
    <3> QED BY <2>1, <3>1, <3>2, <1>3
  <2>2. CASE r # p
    BY <2>2, <1>3, <1>4, <1>8, <1>9 DEF Offered
  <2> QED BY <2>1, <2>2
<1>13. Paired'
  <2> SUFFICES ASSUME NEW r \in Player, exch'[r] # NoExchange
               PROVE  /\ exch'[r].company # r
                      /\ exch'[exch'[r].company] # NoExchange
                      /\ exch'[exch'[r].company].company = r
    BY DEF Paired, Company
  <2>1. exch[r] # NoExchange /\ exch'[r].company = Company(r)
    BY <1>1, <1>3, <1>4, <1>7, <1>8 DEF Company
  <2>2. /\ Company(r) \in Player /\ Company(r) # r
        /\ exch[Company(r)] # NoExchange /\ Company(Company(r)) = r
    BY <2>1, <1>2, Sides DEF IInv
  <2>3. exch'[Company(r)] # NoExchange /\ exch'[Company(r)].company = r
    BY <2>2, <1>3, <1>4, <1>7, <1>8, <1>9 DEF Company
  <2> QED BY <2>1, <2>2, <2>3
<1>14. InPlace'
  <2> SUFFICES ASSUME NEW r \in Player, exch'[r] # NoExchange
               PROVE  /\ Len(exch'[r].items) = Len(exch'[r].pos)
                      /\ \A j \in Offered(r)' \ reborn :
                            \/ j \in Held(r) \cap exchanging'
                            \/ \A s \in Player : j \notin Held(s)
    BY <1>1, <1>11 DEF InPlace
  <2>1. i \in Held(p)
    BY <1>1, ConstantTypes DEF Held, Filled
  <2>2. \A j \in Offered(r) \ reborn :
           j \in Held(r) \cap exchanging \/ \A s \in Player : j \notin Held(s)
    BY DEF IInv, ExchangeBooks, InPlace, Offered
  <2>3. Len(exch'[r].items) = Len(exch'[r].pos)
    <3>1. CASE r = p
      <4>1. /\ Len(Append(exch[p].items, i)) = Len(exch[p].items) + 1
            /\ Len(Append(exch[p].pos, c)) = Len(exch[p].pos) + 1
        BY <1>1, <1>5, Appended
      <4> QED BY <3>1, <4>1, <1>4, <1>5, <1>7
    <3>2. CASE r # p
      <4>1. /\ exch[r] # NoExchange
            /\ exch'[r].items = exch[r].items /\ exch'[r].pos = exch[r].pos
        BY <3>2, <1>3, <1>4, <1>8
      <4> QED BY <4>1 DEF IInv, ExchangeBooks, InPlace
    <3> QED BY <3>1, <3>2
  <2> QED BY <2>1, <2>2, <2>3, <1>1, <1>12
<1>15. OutOfReach'
  BY <1>1, <1>12 DEF IInv, ExchangeBooks, OutOfReach
<1>16. Apart'
  <2>1. \A r \in Player \ {p} : i \in Offered(r) => i \in reborn
    <3> SUFFICES ASSUME NEW r \in Player, i \in Offered(r)
                 PROVE  i \in reborn
      OBVIOUS
    <3>1. exch[r] # NoExchange
      BY DEF Offered
    <3>2. i \in Held(p)
      BY <1>1, ConstantTypes DEF Held, Filled
    <3> QED BY <3>1, <3>2, <1>1 DEF IInv, ExchangeBooks, InPlace
  <2> QED BY <2>1, <1>1, <1>12 DEF IInv, Apart
<1>17. DoneBooks'
  BY <1>1 DEF IInv, DoneBooks, Quiet
<1> QED BY <1>10, <1>11, <1>13, <1>14, <1>15, <1>16, <1>17 DEF IInv, ExchangeBooks

LEMMA AddGoldKeeps ==
    ASSUME IInv, NEW p \in Player, NEW gold \in 1 .. GoldMax, AddGold(p, gold)
    PROVE  IInv'
<1> DEFINE q == Company(p)
           mine == [exch[p] EXCEPT !.accept = FALSE, !.gold = gold]
           other == [exch[q] EXCEPT !.accept = FALSE]
<1>1. /\ Quiet /\ exch[p] # NoExchange
      /\ exch' = [Unaccepted(p) EXCEPT ![p].gold = gold]
      /\ UNCHANGED <<inv, buried, torn, purse, events, exchanging, givers, left, before, stuck, reborn>>
  BY DEF AddGold, MayOffer, held, cells, done
<1>2. exch \in [Player -> Side \cup {NoExchange}] /\ gold \in Nat
  BY ConstantTypes DEF IInv, TypeOK
<1>3. q \in Player /\ q # p /\ exch[p] \in Side /\ exch[q] \in Side /\ exch[q] # NoExchange
  BY <1>1, Sides DEF IInv, ExchangeBooks
<1>4. \A r \in Player :
        exch'[r] = IF r = p THEN mine ELSE IF r = q THEN other ELSE exch[r]
  BY <1>1, <1>2, <1>3 DEF Unaccepted, Side
<1>5. mine \in Side /\ other \in Side
  BY <1>2, <1>3 DEF Side
<1>6. /\ mine.company = exch[p].company /\ other.company = exch[q].company
      /\ mine.items = exch[p].items /\ other.items = exch[q].items
      /\ mine.pos = exch[p].pos /\ other.pos = exch[q].pos
  BY <1>3 DEF Side
<1> HIDE DEF mine, other
<1>7. exch' \in [Player -> Side \cup {NoExchange}]
  <2>1. DOMAIN exch' = Player /\ exch' = [r \in Player |-> exch'[r]]
    BY <1>1, <1>2 DEF Unaccepted
  <2> QED BY <2>1, <1>2, <1>4, <1>5
<1>8. InventoryBooks' /\ ExchangeBooks' /\ Apart'
  <2>1. \A r \in Player :
           /\ exch[r] = NoExchange <=> exch'[r] = NoExchange
           /\ exch[r] # NoExchange =>
                 /\ exch'[r].company = exch[r].company
                 /\ exch'[r].items = exch[r].items
                 /\ exch'[r].pos = exch[r].pos
    BY <1>1, <1>3, <1>4, <1>5, <1>6, ConstantTypes
  <2> QED BY <2>1, <1>1, SameOffers
<1>9. TypeOK'
  BY <1>1, <1>7 DEF IInv, TypeOK
<1>10. DoneBooks'
  BY <1>1 DEF IInv, DoneBooks, Quiet
<1> QED BY <1>8, <1>9, <1>10 DEF IInv

\* What passed the checks is where it was: it is not buried.
LEMMA CheckedHeld ==
    ASSUME IInv, NEW p \in Player, exch[p] # NoExchange, Check(p)
    PROVE  Offered(p) \subseteq Held(p) /\ buried \cap Offered(p) = {}
<1>1. /\ exch[p].items \in Seq(Item) /\ exch[p].pos \in Seq(Cell)
      /\ Len(exch[p].items) = Len(exch[p].pos)
      /\ Offered(p) = ToSet(exch[p].items)
  BY Sides DEF IInv, ExchangeBooks, InPlace, Side
<1>2. ASSUME NEW i \in Offered(p)
      PROVE  i \in Held(p)
  <2>1. PICK k \in DOMAIN exch[p].items : i = exch[p].items[k]
    BY <1>1, <1>2 DEF ToSet
  <2>2. i \in Item /\ exch[p].pos[k] \in Cell /\ i = inv[p][exch[p].pos[k]]
    BY <1>1, <2>1 DEF Check
  <2> QED BY <2>2, ConstantTypes DEF Held, Filled
<1>3. Offered(p) \subseteq Held(p)
  BY <1>2
<1> QED BY <1>3 DEF IInv, InventoryBooks

LEMMA AcceptKeeps ==
    ASSUME IInv, NEW p \in Player, AcceptFirst(p) \/ AcceptBoth(p)
    PROVE  IInv'
<1> DEFINE q == Company(p)
           mine == [exch[p] EXCEPT !.accept = TRUE]
<1>1. /\ Quiet /\ exch[p] # NoExchange
      /\ exch' = [exch EXCEPT ![p].accept = TRUE]
      /\ UNCHANGED <<inv, buried, torn, purse, events, exchanging, left, stuck, reborn>>
  BY DEF AcceptFirst, AcceptBoth, MayAccept, held, cells, done
<1>2. exch \in [Player -> Side \cup {NoExchange}]
  BY DEF IInv, TypeOK
<1>3. /\ q \in Player /\ q # p /\ exch[p] \in Side
      /\ exch[q] # NoExchange /\ Company(q) = p
  BY <1>1, Sides DEF IInv, ExchangeBooks
<1>4. \A r \in Player : exch'[r] = IF r = p THEN mine ELSE exch[r]
  BY <1>1, <1>2
<1>5. mine \in Side
  BY <1>3 DEF Side
<1>6. /\ mine.company = exch[p].company /\ mine.gold = exch[p].gold
      /\ mine.items = exch[p].items /\ mine.pos = exch[p].pos
  BY <1>3 DEF Side
<1> HIDE DEF mine
<1>7. exch' \in [Player -> Side \cup {NoExchange}]
  <2>1. DOMAIN exch' = Player /\ exch' = [r \in Player |-> exch'[r]]
    BY <1>1, <1>2
  <2> QED BY <2>1, <1>2, <1>4, <1>5
<1>8. /\ InventoryBooks' /\ ExchangeBooks' /\ Apart'
      /\ \A r \in Player : Offered(r)' = Offered(r)
  <2>1. \A r \in Player :
           /\ exch[r] = NoExchange <=> exch'[r] = NoExchange
           /\ exch[r] # NoExchange =>
                 /\ exch'[r].company = exch[r].company
                 /\ exch'[r].items = exch[r].items
                 /\ exch'[r].pos = exch[r].pos
    BY <1>1, <1>4, <1>5, <1>6, ConstantTypes
  <2> QED BY <2>1, <1>1, SameOffers
<1>9. givers' \in Seq(Player)
  <2>1. CASE AcceptFirst(p)
    BY <2>1 DEF AcceptFirst, done, IInv, TypeOK
  <2>2. CASE AcceptBoth(p)
    <3>1. givers' = <<p, q>>
      BY <2>2 DEF AcceptBoth
    <3> QED BY <3>1, <1>3
  <2> QED BY <2>1, <2>2
<1>10. TypeOK'
  BY <1>1, <1>7, <1>9 DEF IInv, TypeOK
<1>11. left' = <<>>
  BY <1>1 DEF IInv, DoneBooks
<1>12. CASE AcceptFirst(p)
  <2>1. Quiet'
    BY <1>1, <1>12 DEF AcceptFirst, done, Quiet
  <2>2. DoneBooks'
    BY <2>1, <1>11 DEF DoneBooks
  <2> QED BY <2>2, <1>8, <1>10 DEF IInv
<1>13. CASE AcceptBoth(p)
  <2>1. givers' = <<p, q>> /\ Check(p) /\ Check(q)
    BY <1>13 DEF AcceptBoth, CanExchange
  <2>2. ~Quiet' /\ Giver' = p /\ Receiver' = q
    BY <2>1, <1>3, <1>4, <1>6 DEF Quiet, Giver, Receiver, Company
  <2>3. /\ purse'[p] >= exch'[p].gold /\ purse'[q] >= exch'[q].gold
        /\ exch'[p] # NoExchange
    <3>1. purse[p] >= exch[p].gold /\ purse[q] >= exch[q].gold
      BY <2>1 DEF Check
    <3>2. exch'[p] = mine /\ exch'[q] = exch[q] /\ mine # NoExchange
      BY <1>3, <1>4, <1>5, ConstantTypes
    <3> QED BY <3>1, <3>2, <1>1, <1>6
  <2>4. /\ Len(givers') = 2 /\ givers'[2] = Receiver'
        /\ \A k \in DOMAIN givers' : purse'[givers'[k]] >= exch'[givers'[k]].gold
    BY <2>1, <2>2, <2>3
  <2>5. ToSet(left') = {}
    BY <1>11 DEF ToSet
  <2>7. \A r \in ToSet(givers') : buried' \cap Offered(r)' = {}
    <3>1. buried \cap Offered(p) = {} /\ buried \cap Offered(q) = {}
      BY <2>1, <1>1, <1>3, CheckedHeld
    <3>2. ToSet(givers') = {p, q}
      BY <2>1 DEF ToSet
    <3> QED BY <3>1, <3>2, <1>1, <1>3, <1>8
  <2>6. DoneBooks'
    BY <2>2, <2>3, <2>4, <2>5, <2>7, <1>11 DEF DoneBooks
  <2> QED BY <2>6, <1>8, <1>10 DEF IInv
<1> QED BY <1>12, <1>13

-----------------------------------------------------------------------------
(***************************************************************************)
(* Done.                                                                    *)
(***************************************************************************)

LEMMA Parties ==
    ASSUME IInv, ~Quiet
    PROVE  /\ Giver \in Player /\ Receiver \in Player /\ Receiver # Giver
           /\ exch[Giver] # NoExchange /\ exch[Giver] \in Side
           /\ exch[Receiver] # NoExchange /\ exch[Receiver] \in Side
           /\ Company(Receiver) = Giver
           /\ Offered(Giver) = ToSet(exch[Giver].items)
           /\ exch[Giver].items \in Seq(Item) /\ exch[Giver].pos \in Seq(Cell)
           /\ Len(exch[Giver].items) = Len(exch[Giver].pos)
           /\ exch[Giver].gold \in Nat
           /\ ToSet(givers) \subseteq Player /\ Giver \in ToSet(givers)
           /\ Len(givers) = 2 => Receiver \in ToSet(givers)
<1>1. Giver \in Player
  BY DEF IInv, TypeOK, Giver, Quiet
<1>2. exch[Giver] # NoExchange
  BY DEF IInv, DoneBooks
<1>3. /\ exch[Giver] \in Side
      /\ Receiver \in Player /\ Receiver # Giver
      /\ exch[Receiver] # NoExchange /\ exch[Receiver] \in Side
      /\ Company(Receiver) = Giver
      /\ Offered(Giver) = ToSet(exch[Giver].items)
  BY <1>1, <1>2, Sides DEF IInv, ExchangeBooks, Receiver
<1>4. Len(exch[Giver].items) = Len(exch[Giver].pos)
  BY <1>1, <1>2 DEF IInv, ExchangeBooks, InPlace
<1>5. /\ ToSet(givers) \subseteq Player /\ Giver \in ToSet(givers)
      /\ Len(givers) = 2 => Receiver \in ToSet(givers)
  <2>1. givers \in Seq(Player) /\ givers # <<>>
    BY DEF IInv, TypeOK, Quiet
  <2>2. 1 \in DOMAIN givers /\ Giver = givers[1] /\ (Len(givers) = 2 => 2 \in DOMAIN givers)
    BY <2>1 DEF Giver
  <2>3. Len(givers) = 2 => givers[2] = Receiver
    BY DEF IInv, DoneBooks
  <2> QED BY <2>1, <2>2, <2>3 DEF ToSet
<1> QED BY <1>1, <1>2, <1>3, <1>4, <1>5 DEF Side

LEMMA Removed ==
    ASSUME NEW S, NEW s \in Seq(S), s # <<>>
    PROVE  /\ Len(s) \in Nat /\ Len(s) > 0 /\ DOMAIN s = 1 .. Len(s)
           /\ Tail(s) \in Seq(S)
           /\ Len(Tail(s)) = Len(s) - 1
           /\ DOMAIN Tail(s) = 1 .. Len(s) - 1
           /\ \A k \in 1 .. Len(s) - 1 : Tail(s)[k] = s[k + 1]
  OBVIOUS

LEMMA CollectKeeps ==
    ASSUME IInv, Collect
    PROVE  IInv'
<1> DEFINE g == Giver  i == Head(exch[g].items)
           mine == [exch[g] EXCEPT !.items = Tail(@), !.pos = Tail(@)]
<1>1. /\ ~Quiet /\ exch[g].items # <<>>
      /\ left' = Pushed(i)
      /\ exch' = [exch EXCEPT ![g].items = Tail(@), ![g].pos = Tail(@)]
      /\ UNCHANGED <<inv, buried, torn, purse, events, exchanging, givers, before, stuck, reborn>>
  BY DEF Collect, Collected, held, cells
<1>2. /\ g \in Player /\ exch[g] # NoExchange /\ exch[g] \in Side
      /\ Offered(g) = ToSet(exch[g].items)
      /\ exch[g].items \in Seq(Item) /\ exch[g].pos \in Seq(Cell)
      /\ Len(exch[g].items) = Len(exch[g].pos)
  BY <1>1, Parties
<1>3. exch \in [Player -> Side \cup {NoExchange}] /\ left \in Seq(Item)
  BY DEF IInv, TypeOK
<1>4. exch[g].pos # <<>>
  BY <1>1, <1>2
<1>5. /\ i \in Item /\ i \in Offered(g)
      /\ Offered(g) = ToSet(Tail(exch[g].items)) \cup {i}
  BY <1>1, <1>2, ToSetOfParts
<1>6. left' \in Seq(Item) /\ ToSet(left') = ToSet(left) \cup {i}
  BY <1>1, <1>3, <1>5, ToSetOfParts DEF Pushed
<1>7. mine \in Side
  BY <1>1, <1>2, <1>4, Removed DEF Side
<1>8. /\ mine.company = exch[g].company /\ mine.gold = exch[g].gold
      /\ mine.items = Tail(exch[g].items) /\ mine.pos = Tail(exch[g].pos)
  BY <1>2 DEF Side
<1>9. \A r \in Player : exch'[r] = IF r = g THEN mine ELSE exch[r]
  BY <1>1, <1>2, <1>3 DEF Side
<1>10. mine # NoExchange
  BY <1>7, ConstantTypes
<1> HIDE DEF mine
<1>11. TypeOK'
  <2>1. exch' \in [Player -> Side \cup {NoExchange}]
    <3>1. DOMAIN exch' = Player /\ exch' = [r \in Player |-> exch'[r]]
      BY <1>1, <1>3
    <3> QED BY <3>1, <1>3, <1>7, <1>9
  <2> QED BY <2>1, <1>1, <1>6 DEF IInv, TypeOK
<1>12. InventoryBooks' /\ \A r : Held(r)' = Held(r)
  BY <1>1, SameInventories DEF IInv
<1>13. /\ Offered(g)' \cup {i} = Offered(g)
       /\ \A r \in Player \ {g} : Offered(r)' = Offered(r)
  <2>1. g' = g
    BY <1>1 DEF Giver
  <2>3. Offered(g)' = ToSet(Tail(exch[g].items))
    BY <2>1, <1>2, <1>8, <1>9, <1>10 DEF Offered
  <2>2. \A r \in Player \ {g} : Offered(r)' = Offered(r)
    BY <2>1, <1>9 DEF Offered
  <2> QED BY <2>2, <2>3, <1>5
<1>14. Paired'
  <2> SUFFICES ASSUME NEW r \in Player, exch'[r] # NoExchange
               PROVE  /\ exch'[r].company # r
                      /\ exch'[exch'[r].company] # NoExchange
                      /\ exch'[exch'[r].company].company = r
    BY DEF Paired, Company
  <2>1. exch[r] # NoExchange /\ exch'[r].company = Company(r)
    BY <1>2, <1>8, <1>9 DEF Company
  <2>2. /\ Company(r) \in Player /\ Company(r) # r
        /\ exch[Company(r)] # NoExchange /\ Company(Company(r)) = r
    BY <2>1, Sides DEF IInv, ExchangeBooks
  <2>3. exch'[Company(r)] # NoExchange /\ exch'[Company(r)].company = r
    BY <2>2, <1>8, <1>9, <1>10 DEF Company
  <2> QED BY <2>1, <2>2, <2>3
<1>15. InPlace'
  <2> SUFFICES ASSUME NEW r \in Player, exch'[r] # NoExchange
               PROVE  /\ Len(exch'[r].items) = Len(exch'[r].pos)
                      /\ \A j \in Offered(r)' \ reborn :
                            \/ j \in Held(r) \cap exchanging
                            \/ \A s \in Player : j \notin Held(s)
    BY <1>1, <1>12 DEF InPlace
  <2>1. Offered(r)' \subseteq Offered(r)
    <3>1. g' = g
      BY <1>1 DEF Giver
    <3> QED BY <3>1, <1>13
  <2>2. \A j \in Offered(r) \ reborn :
           j \in Held(r) \cap exchanging \/ \A s \in Player : j \notin Held(s)
    BY DEF IInv, ExchangeBooks, InPlace, Offered
  <2>3. CASE r = g
    <3>1. /\ Len(Tail(exch[g].items)) = Len(exch[g].items) - 1
          /\ Len(Tail(exch[g].pos)) = Len(exch[g].pos) - 1
      BY <1>1, <1>2, <1>4, Removed
    <3> QED BY <2>1, <2>2, <2>3, <3>1, <1>2, <1>8, <1>9
  <2>4. CASE r # g
    BY <2>1, <2>2, <2>4, <1>9 DEF IInv, ExchangeBooks, InPlace
  <2> QED BY <2>3, <2>4
<1>16. OutOfReach'
  <2> SUFFICES ASSUME NEW x \in exchanging
               PROVE  x \in ToSet(left') \cup stuck \cup UNION {Offered(r)' : r \in Player}
    BY <1>1 DEF OutOfReach
  <2>1. CASE x \in ToSet(left) \cup stuck
    BY <2>1, <1>6
  <2>2. CASE \E r \in Player : x \in Offered(r)
    <3>1. g' = g /\ g \in Player
      BY <1>1, <1>2 DEF Giver
    <3>2. PICK r \in Player : x \in Offered(r)
      BY <2>2
    <3>3. x = i \/ x \in Offered(r)'
      BY <3>1, <3>2, <1>13
    <3> QED BY <3>3, <1>6
  <2> QED BY <2>1, <2>2 DEF IInv, ExchangeBooks, OutOfReach
<1>17. Apart'
  <2>1. \A r \in Player : Offered(r)' \subseteq Offered(r)
    <3>1. g' = g /\ g \in Player
      BY <1>1, <1>2 DEF Giver
    <3> QED BY <3>1, <1>13
  <2> QED BY <2>1, <1>1 DEF IInv, Apart
<1>18. DoneBooks'
  <2>1. ~Quiet' /\ Giver' = g /\ Receiver' = Receiver
    BY <1>1, <1>2, <1>8, <1>9 DEF Quiet, Giver, Receiver, Company
  <2>2. \A k \in DOMAIN givers' : purse'[givers'[k]] >= exch'[givers'[k]].gold
    <3> SUFFICES ASSUME NEW k \in DOMAIN givers
                 PROVE  purse[givers[k]] >= exch'[givers[k]].gold
      BY <1>1
    <3>1. givers[k] \in Player /\ purse[givers[k]] >= exch[givers[k]].gold
      BY <1>1 DEF IInv, TypeOK, DoneBooks
    <3> QED BY <3>1, <1>8, <1>9
  <2>3. \A r \in Player \ {g} : ToSet(left') \cap Offered(r)' \subseteq reborn
    <3> SUFFICES ASSUME NEW r \in Player, r # g, NEW x \in ToSet(left'), x \in Offered(r)'
                 PROVE  x \in reborn
      OBVIOUS
    <3>1. x \in Offered(r)
      BY <1>13
    <3>2. CASE x = i
      BY <3>1, <3>2, <1>2, <1>5 DEF IInv, Apart
    <3>3. CASE x \in ToSet(left)
      BY <3>1, <3>3, <1>1 DEF IInv, DoneBooks
    <3> QED BY <3>2, <3>3, <1>6
  <2>4. /\ buried \cap ToSet(left') = {}
        /\ \A r \in ToSet(givers) : buried \cap Offered(r)' = {}
    <3>1. /\ ToSet(givers) \subseteq Player /\ g \in ToSet(givers)
          /\ buried \cap ToSet(left) = {}
          /\ \A r \in ToSet(givers) : buried \cap Offered(r) = {}
      BY <1>1, Parties DEF IInv, DoneBooks
    <3>2. \A r \in Player : Offered(r)' \subseteq Offered(r)
      <4>1. g' = g /\ g \in Player
        BY <1>1, <1>2 DEF Giver
      <4> QED BY <4>1, <1>13
    <3>3. i \notin buried
      BY <3>1, <1>5
    <3> QED BY <3>1, <3>2, <3>3, <1>6
  <2> QED BY <2>1, <2>2, <2>3, <2>4, <1>1, <1>2, <1>9, <1>10 DEF IInv, DoneBooks
<1> QED BY <1>11, <1>12, <1>14, <1>15, <1>16, <1>17, <1>18 DEF IInv, ExchangeBooks

\* The rest of the items to move, after the next.
LEMMA NextItem ==
    ASSUME IInv, ~Quiet, left # <<>>
    PROVE  /\ Head(left) \in Item /\ Head(left) \in ToSet(left)
           /\ Tail(left) \in Seq(Item)
           /\ ToSet(left) = ToSet(Tail(left)) \cup {Head(left)}
  BY ToSetOfParts DEF IInv, TypeOK

LEMMA MoveNextKeeps ==
    ASSUME IInv, MoveNext
    PROVE  /\ IInv'
           /\ \A r \in Player :
                 Held(r)' = (Held(r) \ {Head(left)}) \cup
                               (IF r = Receiver THEN {Head(left)} ELSE {})
<1> DEFINE i == Head(left)  q == Receiver
<1>1. /\ ~Quiet /\ exch[Giver].items = <<>> /\ left # <<>>
      /\ \E to \in Places(q, i) \ {{}} : inv' = Moved(i, q, to)
      /\ exchanging' = exchanging \ {i}
      /\ left' = Tail(left)
      /\ UNCHANGED <<buried, torn, purse, events, exch, givers, before, stuck, reborn>>
  BY DEF MoveNext, Collected
<1>2. /\ i \in Item /\ i \in ToSet(left)
      /\ left' \in Seq(Item) /\ ToSet(left) = ToSet(left') \cup {i}
  BY <1>1, NextItem
<1>3. q \in Player /\ exch[Giver] # NoExchange /\ Offered(Giver) = ToSet(exch[Giver].items)
  BY <1>1, Parties
<1>4. PICK taken \in Grids(q) :
         PlaceIn(taken, i) # {} /\ inv' = Moved(i, q, PlaceIn(taken, i))
  BY <1>1 DEF Places
<1>5. PICK c \in PlaceIn(taken, i) : TRUE
  BY <1>4
<1>6. /\ c \in Cell /\ inv' = Moved(i, q, {c}) /\ Fits(c, i, taken)
      /\ c \in Window => Size[i] = 1
  <2>1. c \in Cell /\ Fits(c, i, taken) /\ (c \in Window => i \in Special)
    BY <1>5, PlaceFits
  <2>2. \A d \in PlaceIn(taken, i) : d = c
    BY <1>5, PlaceFits
  <2>3. PlaceIn(taken, i) = {c}
    BY <1>5, <2>2
  <2>4. inv' = Moved(i, q, {c})
    BY <1>4, <2>3
  <2>5. \A j \in Special : Size[j] = 1
    BY ConstantTypes
  <2> HIDE DEF i, q
  <2> QED BY <2>1, <2>4, <2>5
<1>15. /\ inv[q] \in [Cell -> Item \cup {NoItem}] /\ Covered(Without(q, i)) \subseteq Covered(inv[q])
       /\ i \notin buried
  <2>1. inv[q] \in [Cell -> Item \cup {NoItem}]
    BY <1>3 DEF IInv, TypeOK
  <2>2. i \notin buried
    BY <1>1, <1>2 DEF IInv, DoneBooks
  <2> HIDE DEF i, q
  <2>3. Covered(Without(q, i)) \subseteq Covered(inv[q])
    BY DEF Covered, Without
  <2> QED BY <2>1, <2>2, <2>3
<1>16. inv[q][c] = NoItem /\ (q \notin torn => taken = Covered(inv[q]))
  <2>1. c \in Span(c, i) /\ Span(c, i) \cap taken = {}
    BY <1>2, <1>6, InSpan DEF Fits
  <2> QED BY <2>1, <1>6, <1>15, GridTypes
<1>7. /\ inv' \in [Player -> Row]
      /\ InventoryBooks'
      /\ \A r \in Player : Held(r)' = (Held(r) \ {i}) \cup (IF r = q THEN {i} ELSE {})
      /\ \A r \in Player, d \in Cell :
            inv[r][d] \in Item \ {i} => inv'[r][d] = inv[r][d]
  <2>1. /\ TypeOK /\ InventoryBooks /\ i \in Item /\ UNCHANGED <<buried, torn>>
        /\ q \notin torn => Covered(Without(q, i)) \subseteq taken
    BY <1>1, <1>2, <1>15, <1>16 DEF IInv
  <2> HIDE DEF i, q
  <2> QED BY <2>1, <1>3, <1>6, <1>15, <1>16, ItemMoves
<1>8. Offered(Giver) = {}
  BY <1>1, <1>3 DEF ToSet
<1>9. \A r \in Player : i \in Offered(r) => i \in reborn
  BY <1>1, <1>2, <1>8 DEF IInv, DoneBooks
<1>10. /\ Paired' /\ InPlace'
       /\ \A r \in Player : Offered(r)' = Offered(r)
  <2>1. \A r \in Player : Held(r) \ {i} \subseteq Held(r)' /\ Held(r)' \subseteq Held(r) \cup {i}
    BY <1>7
  <2> QED BY <2>1, <1>1, <1>2, <1>7, <1>9, OtherItemsStay
<1>11. TypeOK'
  BY <1>1, <1>2, <1>7 DEF IInv, TypeOK, Row
<1>12. OutOfReach'
  BY <1>1, <1>2, <1>10 DEF IInv, ExchangeBooks, OutOfReach
<1>13. Apart'
  BY <1>1, <1>10 DEF IInv, Apart
<1>14. DoneBooks'
  <2>1. ~Quiet' /\ Giver' = Giver /\ Receiver' = Receiver
    BY <1>1 DEF Quiet, Giver, Receiver, Company
  <2>2. \A r \in Player \ {Giver} : ToSet(left') \cap Offered(r)' \subseteq reborn
    BY <1>1, <1>2, <1>10 DEF IInv, DoneBooks
  <2>3. /\ buried \cap ToSet(left') = {}
        /\ \A r \in ToSet(givers) : buried \cap Offered(r)' = {}
    <3>1. ToSet(givers) \subseteq Player /\ ToSet(left') \subseteq ToSet(left)
      BY <1>1, <1>2, Parties
    <3> QED BY <3>1, <1>1, <1>10 DEF IInv, DoneBooks
  <2> QED BY <2>1, <2>2, <2>3, <1>1 DEF IInv, DoneBooks
<1> QED BY <1>7, <1>10, <1>11, <1>12, <1>13, <1>14 DEF IInv, ExchangeBooks

LEMMA LeaveBehindKeeps ==
    ASSUME IInv, LeaveBehind
    PROVE  IInv'
<1> DEFINE i == Head(left)
<1>1. /\ ~Quiet /\ left # <<>>
      /\ stuck' = stuck \cup {i}
      /\ left' = Tail(left)
      /\ UNCHANGED <<inv, buried, torn, purse, events, exch, exchanging, givers, before, reborn>>
  BY DEF LeaveBehind, held, cells
<1>2. /\ i \in Item
      /\ left' \in Seq(Item) /\ ToSet(left) = ToSet(left') \cup {i}
  BY <1>1, NextItem
<1>3. InventoryBooks' /\ \A r : Held(r)' = Held(r)
  BY <1>1, SameInventories DEF IInv
<1>4. \A r \in Player : Offered(r)' = Offered(r)
  BY <1>1 DEF Offered
<1>5. Paired'
  BY <1>1 DEF IInv, ExchangeBooks, Paired, Company
<1>6. InPlace'
  BY <1>1, <1>3, <1>4 DEF IInv, ExchangeBooks, InPlace
<1>7. OutOfReach'
  BY <1>1, <1>2, <1>4 DEF IInv, ExchangeBooks, OutOfReach
<1>8. TypeOK'
  BY <1>1, <1>2 DEF IInv, TypeOK
<1>9. Apart'
  BY <1>1, <1>4 DEF IInv, Apart
<1>10. DoneBooks'
  <2>1. ~Quiet' /\ Giver' = Giver /\ Receiver' = Receiver
    BY <1>1 DEF Quiet, Giver, Receiver, Company
  <2>2. \A r \in Player \ {Giver} : ToSet(left') \cap Offered(r)' \subseteq reborn
    BY <1>1, <1>2, <1>4 DEF IInv, DoneBooks
  <2>3. /\ buried \cap ToSet(left') = {}
        /\ \A r \in ToSet(givers) : buried \cap Offered(r)' = {}
    <3>1. ToSet(givers) \subseteq Player /\ ToSet(left') \subseteq ToSet(left)
      BY <1>1, <1>2, Parties
    <3> QED BY <3>1, <1>1, <1>4 DEF IInv, DoneBooks
  <2> QED BY <2>1, <2>2, <2>3, <1>1 DEF IInv, DoneBooks
<1> QED BY <1>3, <1>5, <1>6, <1>7, <1>8, <1>9, <1>10 DEF IInv, ExchangeBooks

LEMMA ChangedBounds ==
    ASSUME NEW gold \in 0 .. 2 * GoldMax, NEW amount \in Int, gold + amount >= 0
    PROVE  /\ Changed(gold, amount) \in 0 .. 2 * GoldMax
           /\ amount >= 0 => Changed(gold, amount) >= gold
           /\ amount <= 0 => Changed(gold, amount) = gold + amount
  BY ConstantTypes DEF Changed

\* The gold a step of Done moves.
LEMMA Paid ==
    ASSUME IInv, PayOver
    PROVE  /\ purse' \in [Player -> 0 .. 2 * GoldMax]
           /\ purse'[Receiver] >= purse[Receiver]
<1> DEFINE gold == exch[Giver].gold
<1>1. /\ Giver \in Player /\ Receiver \in Player /\ Receiver # Giver /\ gold \in Nat
  BY Parties DEF PayOver
<1>2. purse \in [Player -> 0 .. 2 * GoldMax]
  BY DEF IInv, TypeOK
<1>3. purse[Giver] >= gold
  <2>1. ~Quiet /\ 1 \in DOMAIN givers /\ Giver = givers[1]
    BY DEF PayOver, IInv, TypeOK, Quiet, Giver
  <2> QED BY <2>1 DEF IInv, DoneBooks
<1>4. \A r \in Player :
        purse'[r] = IF r = Giver THEN Changed(purse[r], -gold)
                    ELSE IF r = Receiver THEN Changed(purse[r], gold) ELSE purse[r]
  BY <1>1, <1>2 DEF PayOver
<1>5. DOMAIN purse' = Player /\ purse' = [r \in Player |-> purse'[r]]
  BY <1>2 DEF PayOver
<1> HIDE DEF gold
<1>6. Changed(purse[Giver], -gold) \in 0 .. 2 * GoldMax
  <2>1. purse[Giver] \in 0 .. 2 * GoldMax /\ -gold \in Int /\ purse[Giver] + -gold >= 0
    BY <1>1, <1>2, <1>3, ConstantTypes
  <2> QED BY <2>1, ChangedBounds
<1>7. /\ Changed(purse[Receiver], gold) \in 0 .. 2 * GoldMax
      /\ Changed(purse[Receiver], gold) >= purse[Receiver]
  <2>1. /\ purse[Receiver] \in 0 .. 2 * GoldMax /\ gold \in Int
        /\ purse[Receiver] + gold >= 0 /\ gold >= 0
    BY <1>1, <1>2, ConstantTypes
  <2> QED BY <2>1, ChangedBounds
<1> QED BY <1>1, <1>2, <1>4, <1>5, <1>6, <1>7

LEMMA PayOverFirstTurn ==
    ASSUME IInv, PayOverFirst
    PROVE  givers' = <<Receiver>>
<1>1. /\ givers \in Seq(Player) /\ givers # <<>>
      /\ Len(givers) = 2 /\ givers' = Tail(givers)
      /\ givers[2] = Receiver
  BY DEF PayOverFirst, PayOver, IInv, TypeOK, Quiet, DoneBooks
<1>2. /\ givers' \in Seq(Player) /\ Len(givers') = 1 /\ givers'[1] = givers[2]
  <2>1. /\ Tail(givers) \in Seq(Player) /\ Len(Tail(givers)) = Len(givers) - 1
        /\ \A k \in 1 .. Len(givers) - 1 : Tail(givers)[k] = givers[k + 1]
    BY <1>1, Removed
  <2>2. Len(givers) - 1 = 1 /\ 1 \in 1 .. 1 /\ 1 + 1 = 2
    BY <1>1
  <2>3. Tail(givers)[1] = givers[1 + 1]
    BY <2>1, <2>2
  <2> QED BY <1>1, <2>1, <2>2, <2>3
<1>3. \A t \in Seq(Player) : Len(t) = 1 => t = <<t[1]>>
  OBVIOUS
<1> QED BY <1>1, <1>2, <1>3

LEMMA PayOverFirstKeeps ==
    ASSUME IInv, PayOverFirst
    PROVE  IInv'
<1>1. /\ ~Quiet /\ left = <<>> /\ PayOver
      /\ Len(givers) = 2 /\ givers' = Tail(givers)
      /\ UNCHANGED <<inv, buried, torn, events, exch, exchanging, left, before, stuck, reborn>>
  BY DEF PayOverFirst, PayOver, cells
<1>2. /\ purse' \in [Player -> 0 .. 2 * GoldMax]
      /\ purse'[Receiver] >= purse[Receiver]
  BY <1>1, Paid
<1>3. Receiver \in Player /\ exch[Receiver] # NoExchange /\ exch[Receiver] \in Side
  BY <1>1, Parties
<1>4. /\ givers[2] = Receiver
      /\ \A k \in DOMAIN givers : purse[givers[k]] >= exch[givers[k]].gold
  BY <1>1 DEF IInv, DoneBooks
<1>5. givers' = <<Receiver>>
  BY <1>1, PayOverFirstTurn
<1>6. InventoryBooks' /\ ExchangeBooks' /\ Apart'
  BY <1>1, SameOffers
<1>7. TypeOK'
  <2>1. givers' \in Seq(Player)
    BY <1>3, <1>5
  <2> QED BY <2>1, <1>1, <1>2 DEF IInv, TypeOK
<1>8. DoneBooks'
  <2>1. ~Quiet' /\ Giver' = Receiver /\ Len(givers') = 1
    BY <1>5 DEF Quiet, Giver
  <2>2. purse[Receiver] >= exch[Receiver].gold
    <3>1. 2 \in DOMAIN givers
      BY <1>1 DEF IInv, TypeOK
    <3> QED BY <3>1, <1>4
  <2>3. purse'[Receiver] >= exch'[Receiver].gold
    <3>1. purse[Receiver] \in Nat /\ purse'[Receiver] \in Nat /\ exch[Receiver].gold \in Nat
      BY <1>2, <1>3, ConstantTypes DEF IInv, TypeOK, Side
    <3> QED BY <2>2, <3>1, <1>1, <1>2
  <2>4. \A k \in DOMAIN givers' : purse'[givers'[k]] >= exch'[givers'[k]].gold
    BY <2>3, <1>5
  <2>5. ToSet(left') = {}
    BY <1>1 DEF ToSet
  <2>6. \A r \in ToSet(givers') : buried' \cap Offered(r)' = {}
    <3>1. ToSet(givers') = {Receiver}
      BY <1>5 DEF ToSet
    <3>2. buried \cap Offered(Receiver) = {}
      BY <1>1, Parties DEF IInv, DoneBooks
    <3>3. \A r : Offered(r)' = Offered(r)
      BY <1>1 DEF Offered
    <3> QED BY <3>1, <3>2, <3>3, <1>1
  <2> QED BY <2>1, <2>4, <2>5, <2>6, <1>1, <1>3 DEF DoneBooks
<1> QED BY <1>6, <1>7, <1>8 DEF IInv

LEMMA PayOverSecondKeeps ==
    ASSUME IInv, PayOverSecond
    PROVE  IInv'
<1>1. /\ ~Quiet /\ left = <<>> /\ PayOver /\ Close(Giver)
      /\ givers' = <<>> /\ UNCHANGED <<inv, buried, torn, events, left, stuck>>
  BY DEF PayOverSecond, PayOver, cells
<1>2. purse' \in [Player -> 0 .. 2 * GoldMax]
  BY <1>1, Paid
<1>3. Giver \in Player /\ exch[Giver] # NoExchange
  BY <1>1, Parties
<1>4. /\ exch' \in [Player -> Side \cup {NoExchange}]
      /\ exchanging' \in SUBSET Item /\ reborn' \in SUBSET Item
      /\ InventoryBooks' /\ ExchangeBooks' /\ Apart'
  BY <1>1, <1>3, Closing DEF IInv
<1>5. TypeOK'
  BY <1>1, <1>2, <1>4 DEF IInv, TypeOK
<1>6. DoneBooks'
  BY <1>1 DEF DoneBooks, Quiet
<1> QED BY <1>4, <1>5, <1>6 DEF IInv

-----------------------------------------------------------------------------
(***************************************************************************)
(* What happens beside the exchanges.                                       *)
(***************************************************************************)

LEMMA SameCells ==
    ASSUME NEW f \in [Player -> Row], NEW g \in [Player -> Row],
           \A r \in Player, d \in Cell : f[r][d] = g[r][d]
    PROVE  f = g
<1>1. ASSUME NEW r \in Player
      PROVE  f[r] = g[r]
  <2>1. f[r] \in Row /\ g[r] \in Row /\ \A d \in Cell : f[r][d] = g[r][d]
    OBVIOUS
  <2> QED BY <2>1 DEF Row
<1> QED BY <1>1

\* The items of p, in an order that loses none unless his inventory is torn.
LEMMA RearrangedKeeps ==
    ASSUME IInv, NEW p \in Player, NEW f \in Row, Rearranged(p, f), Once(f), Event,
           {f[c] : c \in Cell} \subseteq Held(p) \cup {NoItem},
           torn \subseteq torn', torn' \subseteq torn \cup {p},
           p \notin torn' => Books(f) /\ Held(p) \subseteq {f[c] : c \in Cell},
           UNCHANGED <<purse, exch, exchanging, done, reborn>>
    PROVE  /\ IInv'
           /\ Held(p)' \subseteq Held(p)
           /\ \A r \in Player \ {p} : Held(r)' = Held(r)
<1> DEFINE kept == {f[c] : c \in Cell}
<1>1. /\ Quiet /\ events < MaxEvent /\ events' = events + 1
      /\ inv' = [inv EXCEPT ![p] = f]
      /\ buried' = buried \cup (Held(p) \ kept)
      /\ UNCHANGED <<purse, exch, exchanging, givers, left, before, stuck, reborn>>
  BY DEF Event, Rearranged, done
<1>2. inv \in [Player -> Row] /\ InventoryBooks /\ NoItem \notin Item
  BY ConstantTypes DEF IInv, TypeOK, Row
<1>3. /\ inv' \in [Player -> Row]
      /\ \A r \in Player : inv'[r] = IF r = p THEN f ELSE inv[r]
  BY <1>1, <1>2
<1>4. Held(p)' = kept \ {NoItem}
  BY <1>3 DEF Held, Filled
<1>5. \A r \in Player \ {p} : Held(r)' = Held(r)
  BY <1>3 DEF Held, Filled
<1>6. Held(p) \subseteq Item
  BY <1>2 DEF Held, Filled, Row
<1> HIDE DEF kept
<1>7. Held(p)' \subseteq Held(p)
  BY <1>4 DEF kept
<1>8. \A r \in Player : Held(r)' \subseteq Held(r)
  BY <1>5, <1>7
<1>9. InventoryBooks'
  <2>1. \A r \in Player : Once(inv'[r]) /\ (r \notin torn' => Books(inv'[r]))
    BY <1>2, <1>3 DEF InventoryBooks
  <2>2. \A r, s \in Player : r # s => Held(r)' \cap Held(s)' = {}
    BY <1>2, <1>8 DEF InventoryBooks
  <2>3. ASSUME NEW r \in Player
        PROVE  buried' \cap Held(r)' = {}
    <3>1. buried \cap Held(r)' = {}
      BY <1>2, <1>8 DEF InventoryBooks
    <3>2. (Held(p) \ kept) \cap Held(r)' = {}
      <4>1. CASE r = p
        BY <4>1, <1>4
      <4>2. CASE r # p
        BY <4>2, <1>2, <1>8 DEF InventoryBooks
      <4> QED BY <4>1, <4>2
    <3> QED BY <3>1, <3>2, <1>1
  <2>4. buried' # {} => torn' # {}
    <3>1. CASE buried # {}
      BY <3>1, <1>2 DEF InventoryBooks
    <3>2. CASE p \in torn'
      BY <3>2
    <3>3. CASE buried = {} /\ p \notin torn'
      BY <3>3, <1>1 DEF kept
    <3> QED BY <3>1, <3>2, <3>3
  <2> QED BY <2>1, <2>2, <2>3, <2>4 DEF InventoryBooks
<1>10. \A r \in Player : Offered(r)' = Offered(r)
  BY <1>1 DEF Offered
<1>11. Paired'
  BY <1>1 DEF IInv, ExchangeBooks, Paired, Company
<1>12. InPlace'
  <2> SUFFICES ASSUME NEW r \in Player, exch'[r] # NoExchange
               PROVE  /\ Len(exch'[r].items) = Len(exch'[r].pos)
                      /\ \A i \in Offered(r)' \ reborn' :
                            \/ i \in Held(r)' \cap exchanging'
                            \/ \A s \in Player : i \notin Held(s)'
    BY DEF InPlace
  <2>1. Len(exch[r].items) = Len(exch[r].pos)
    BY <1>1 DEF IInv, ExchangeBooks, InPlace
  <2>2. ASSUME NEW i \in Offered(r) \ reborn
        PROVE  \/ i \in Held(r)' \cap exchanging
               \/ \A s \in Player : i \notin Held(s)'
    <3>1. i \in Held(r) \cap exchanging \/ \A s \in Player : i \notin Held(s)
      BY <1>1, <2>2 DEF IInv, ExchangeBooks, InPlace
    <3>2. ASSUME i \in Held(r), i \notin Held(r)', NEW s \in Player
          PROVE  i \notin Held(s)'
      <4>1. CASE s = r
        BY <4>1, <3>2
      <4>2. CASE s # r
        BY <4>2, <3>2, <1>2, <1>8 DEF InventoryBooks
      <4> QED BY <4>1, <4>2
    <3> QED BY <3>1, <3>2, <1>8
  <2> QED BY <2>1, <2>2, <1>1, <1>10
<1>13. TypeOK'
  <2>1. events' \in 0 .. MaxEvent
    BY <1>1, ConstantTypes DEF IInv, TypeOK
  <2>2. buried' \in SUBSET Item /\ torn' \in SUBSET Player
    BY <1>1, <1>6 DEF IInv, TypeOK
  <2> QED BY <2>1, <2>2, <1>1, <1>3 DEF IInv, TypeOK, Row
<1>14. OutOfReach' /\ Apart'
  BY <1>1, <1>10 DEF IInv, ExchangeBooks, OutOfReach, Apart
<1>15. DoneBooks'
  BY <1>1 DEF IInv, DoneBooks, Quiet
<1> QED BY <1>5, <1>7, <1>9, <1>11, <1>12, <1>13, <1>14, <1>15 DEF IInv, ExchangeBooks

\* One item moves to a cell.
ToCell(f, c, d) == [f EXCEPT ![c] = NoItem, ![d] = f[c]]

LEMMA MovedRow ==
    ASSUME NEW f \in Row, NEW c \in Cell, NEW d \in Cell, f[c] \in Item
    PROVE  LET g == ToCell(f, c, d)
           IN  /\ g \in Row
               /\ \A e \in Cell : g[e] = IF e = d THEN f[c]
                                         ELSE IF e = c THEN NoItem ELSE f[e]
               /\ Once(f) => Once(g)
               /\ {g[e] : e \in Cell} \subseteq {f[e] : e \in Cell} \cup {NoItem}
<1> DEFINE g == [f EXCEPT ![c] = NoItem, ![d] = f[c]]
<1>1. g \in Row
  BY DEF Row
<1>2. \A e \in Cell : g[e] = IF e = d THEN f[c] ELSE IF e = c THEN NoItem ELSE f[e]
  BY DEF Row
<1> HIDE DEF g
<1>3. Once(f) => Once(g)
  BY <1>2 DEF Once
<1>4. {g[e] : e \in Cell} \subseteq {f[e] : e \in Cell} \cup {NoItem}
  BY <1>2
<1>5. g \in Row /\ \A e \in Cell : g[e] = IF e = d THEN f[c]
                                          ELSE IF e = c THEN NoItem ELSE f[e]
  BY <1>1, <1>2
<1> QED BY <1>3, <1>4, <1>5 DEF g, ToCell

LEMMA MovedInOrder ==
    ASSUME NEW f \in Row, Books(f), NEW c \in Cell, NEW d \in Cell, f[c] \in Item,
           OnPage(d, f[c]), d \in Window => Size[f[c]] = 1,
           Span(d, f[c]) \cap Covered(f) \subseteq Span(c, f[c])
    PROVE  LET g == ToCell(f, c, d)
           IN  Books(g) /\ \A e \in Cell : f[e] # NoItem => \E x \in Cell : g[x] = f[e]
<1> DEFINE i == f[c]
           h == [f EXCEPT ![c] = NoItem]
           g == [h EXCEPT ![d] = i]
<1>1. NoItem \notin Item /\ h \in Row /\ \A e \in Cell : h[e] = IF e = c THEN NoItem ELSE f[e]
  BY ConstantTypes DEF Row
<1>2. \A e \in Cell : g[e] = IF e = d THEN i ELSE h[e]
  BY <1>1 DEF Row
<1> HIDE DEF h, g
<1>3. Books(h) /\ Covered(h) \subseteq Covered(f)
  BY <1>1, BooksWithout
<1>4. Covered(h) \cap Span(c, i) = {}
  <2> SUFFICES ASSUME NEW x \in Covered(h), x \in Span(c, i)
               PROVE  FALSE
    OBVIOUS
  <2>1. PICK e \in Cell : h[e] # NoItem /\ x \in Span(e, h[e])
    BY DEF Covered
  <2>2. e # c /\ f[e] # NoItem /\ x \in Span(e, f[e])
    BY <2>1, <1>1
  <2> QED BY <2>2, <1>1 DEF Books
<1>5. Books(g)
  <2>1. Fits(d, i, Covered(h))
    BY <1>3, <1>4 DEF Fits
  <2> HIDE DEF i
  <2>2. d \in Window => Size[i] = 1
    BY DEF i
  <2>3. i \in Item
    BY DEF i
  <2>4. Books([h EXCEPT ![d] = i])
    BY <2>1, <2>2, <2>3, <1>1, <1>3, BooksWith
  <2> QED BY <2>4 DEF g
<1>6. ASSUME NEW e \in Cell, f[e] # NoItem
      PROVE  \E x \in Cell : g[x] = f[e]
  <2>1. CASE e = c
    BY <2>1, <1>2
  <2>2. CASE e # c
    <3>1. e # d
      <4> SUFFICES ASSUME e = d
                   PROVE  FALSE
        OBVIOUS
      <4>1. d \in Span(d, f[d]) /\ d \in Span(d, i)
        BY <1>6, InSpan DEF Row
      <4>2. d \in Covered(f)
        BY <4>1, <1>6 DEF Covered
      <4>3. d \in Span(c, i)
        BY <4>1, <4>2
      <4> QED BY <4>1, <4>3, <1>1, <1>6, <2>2 DEF Books
    <3> QED BY <3>1, <2>2, <1>1, <1>2
  <2> QED BY <2>1, <2>2
<1>7. Books(g) /\ \A e \in Cell : f[e] # NoItem => \E x \in Cell : g[x] = f[e]
  BY <1>5, <1>6
<1>8. ToCell(f, c, d) = g
  BY DEF ToCell, g, h, Row
<1> QED BY <1>7, <1>8

LEMMA HeldIs ==
    ASSUME NEW p \in Player, inv \in [Player -> Row]
    PROVE  /\ Held(p) = {inv[p][c] : c \in Cell} \ {NoItem}
           /\ inv[p] \in Row
  BY DEF Held, Filled

LEMMA MoveItemKeeps ==
    ASSUME IInv, NEW p \in Player, NEW c \in Cell, NEW d \in Cell, MoveItem(p, c, d)
    PROVE  /\ IInv'
           /\ Held(p)' \subseteq Held(p)
           /\ \A r \in Player \ {p} : Held(r)' = Held(r)
<1> DEFINE f == inv[p]
           g == ToCell(f, c, d)
<1>1. /\ Event /\ f[c] \in Item /\ OnPage(d, f[c])
      /\ d \in Inventory \/ c \in Window \/ f[c] \in Special
      /\ p \in torn \/ Span(d, f[c]) \cap Covered(f) \subseteq Span(c, f[c])
      /\ Rearranged(p, g)
      /\ UNCHANGED <<torn, purse, exch, exchanging, done, reborn>>
  BY DEF MoveItem, ToCell
<1>2. /\ inv \in [Player -> Row] /\ f \in Row /\ Once(f) /\ NoItem \notin Item
      /\ p \notin torn => Books(f)
      /\ Held(p) = {f[e] : e \in Cell} \ {NoItem}
  BY HeldIs, ConstantTypes DEF IInv, TypeOK, InventoryBooks, Row
<1> HIDE DEF f
<1>3. /\ g \in Row /\ Once(g)
      /\ {g[e] : e \in Cell} \subseteq {f[e] : e \in Cell} \cup {NoItem}
  <2>1. LET h == ToCell(f, c, d)
        IN  /\ h \in Row /\ (Once(f) => Once(h))
            /\ {h[e] : e \in Cell} \subseteq {f[e] : e \in Cell} \cup {NoItem}
    BY <1>1, <1>2, MovedRow
  <2> QED BY <2>1, <1>2
<1>4. ASSUME p \notin torn
      PROVE  Books(g) /\ Held(p) \subseteq {g[e] : e \in Cell}
  <2>1. d \in Window => Size[f[c]] = 1
    <3>1. Inventory \cap Window = {}
      BY ConstantTypes DEF Inventory, Window, Num
    <3>2. c \in Window => Size[f[c]] = 1
      BY <1>1, <1>2, <1>4 DEF Books
    <3> QED BY <3>1, <3>2, <1>1, ConstantTypes
  <2>2. Books(g) /\ \A e \in Cell : f[e] # NoItem => \E x \in Cell : g[x] = f[e]
    <3>1. /\ Books(f) /\ OnPage(d, f[c])
          /\ Span(d, f[c]) \cap Covered(f) \subseteq Span(c, f[c])
      BY <1>1, <1>2, <1>4
    <3>2. LET h == ToCell(f, c, d)
          IN  Books(h) /\ \A e \in Cell : f[e] # NoItem => \E x \in Cell : h[x] = f[e]
      BY <2>1, <3>1, <1>1, <1>2, MovedInOrder
    <3> QED BY <3>2
  <2> HIDE DEF g
  <2> QED BY <2>2, <1>2
<1> HIDE DEF g
<1>5. {g[e] : e \in Cell} \subseteq Held(p) \cup {NoItem}
  BY <1>2, <1>3
<1> QED BY <1>1, <1>3, <1>4, <1>5, RearrangedKeeps

-----------------------------------------------------------------------------
(***************************************************************************)
(* The swap of MoveItem: two blocks of cells change places, and no item     *)
(* reaches across the edge of either.                                       *)
(***************************************************************************)

LEMMA Spans ==
    ASSUME NEW x \in Int, NEW i \in Item
    PROVE  /\ Span(x, i) \subseteq Int
           /\ \A y : y \in Span(x, i) <=> \E k \in 0 .. Size[i] - 1 : y = x + Width * k
           /\ \A k \in 0 .. Size[i] - 1 : Width * k \in Int
  BY ConstantTypes DEF Span

LEMMA Shifted ==
    ASSUME NEW x \in Int, NEW y \in Int, NEW n \in Int, NEW i \in Item
    PROVE  y \in Span(x, i) <=> (y + n) \in Span(x + n, i)
<1>1. \A k \in 0 .. Size[i] - 1 : y = x + Width * k <=> y + n = (x + n) + Width * k
  BY Spans
<1>2. y + n \in Int /\ x + n \in Int
  OBVIOUS
<1> QED BY <1>1, <1>2, Spans

\* Items that cover a cell in common: one starts in the other.
LEMMA Overlap ==
    ASSUME NEW x \in Int, NEW y \in Int, NEW i \in Item, NEW j \in Item,
           Span(x, i) \cap Span(y, j) # {}
    PROVE  x \in Span(y, j) \/ y \in Span(x, i)
<1>1. PICK k \in 0 .. Size[i] - 1, m \in 0 .. Size[j] - 1 : x + Width * k = y + Width * m
  BY Spans
<1>2. Width \in Nat /\ Size[i] \in Nat /\ Size[j] \in Nat
  BY ConstantTypes
<1>3. CASE k >= m
  <2>1. k - m \in 0 .. Size[i] - 1 /\ Width * (k - m) = Width * k - Width * m
    BY <1>2, <1>3
  <2>2. Width * k \in Int /\ Width * m \in Int
    BY <1>2
  <2>3. y = x + Width * (k - m)
    BY <1>1, <2>1, <2>2
  <2> QED BY <2>1, <2>3, Spans
<1>4. CASE k < m
  <2>1. m - k \in 0 .. Size[j] - 1 /\ Width * (m - k) = Width * m - Width * k
    BY <1>2, <1>4
  <2>2. Width * k \in Int /\ Width * m \in Int
    BY <1>2
  <2>3. x = y + Width * (m - k)
    BY <1>1, <2>1, <2>2
  <2> QED BY <2>1, <2>3, Spans
<1> QED BY <1>2, <1>3, <1>4

\* An item that starts below another of its size ends below it.
LEMMA EndsBelow ==
    ASSUME NEW x \in Int, NEW y \in Int, NEW i \in Item,
           Span(x, i) \subseteq Span(y, i), x \in Span(y, i)
    PROVE  x = y
<1>1. Width \in Nat /\ Width > 0 /\ Size[i] \in Nat /\ Size[i] > 0
  BY ExchangeAssumption
<1>2. PICK k \in 0 .. Size[i] - 1 : x = y + Width * k
  BY Spans
<1>3. x + Width * (Size[i] - 1) \in Span(x, i)
  BY <1>1, Spans
<1>4. PICK m \in 0 .. Size[i] - 1 : x + Width * (Size[i] - 1) = y + Width * m
  BY <1>3, Spans
<1>5. /\ Width * (Size[i] - 1) = Width * m + Width * ((Size[i] - 1) - m)
      /\ Width * ((Size[i] - 1) - m) >= 0 /\ Width * k >= 0
      /\ Width * m \in Int
  BY <1>1
<1>6. Width * k = 0
  <2> DEFINE first == Width * k  last == Width * m
             rest == Width * ((Size[i] - 1) - m)  all == Width * (Size[i] - 1)
  <2>1. /\ first \in Int /\ last \in Int /\ rest \in Int /\ all \in Int
        /\ first >= 0 /\ rest >= 0 /\ all = last + rest
        /\ x = y + first /\ x + all = y + last
    BY <1>1, <1>2, <1>4, <1>5
  <2>2. first = 0
    <3> HIDE DEF first, last, rest, all
    <3> QED BY <2>1
  <2> QED BY <2>2
<1> QED BY <1>2, <1>6

\* Where an item may be, it covers cells of one page or one cell of its window.
LEMMA OnPageCells ==
    ASSUME NEW c \in Cell, NEW i \in Item, OnPage(c, i), c \in Window => Size[i] = 1
    PROVE  /\ Span(c, i) \subseteq Cell
           /\ \/ Span(c, i) \subseteq Page(c)
              \/ c \in Window \ Inventory /\ Span(c, i) = {c}
<1>1. c \in Int /\ Inventory \cap Window = {}
  BY CellTypes, ConstantTypes DEF Inventory, Window, Num
<1>2. CASE Span(c, i) \subseteq Page(c)
  BY <1>2 DEF Page, Cell
<1>3. CASE c \in Window
  <2>1. Size[i] = 1
    BY <1>3
  <2>2. Span(c, i) = {c}
    <3>1. 0 .. Size[i] - 1 = {0}
      BY <2>1
    <3>2. c + Width * 0 = c
      BY <1>1, ConstantTypes
    <3> QED BY <3>1, <3>2 DEF Span
  <2> QED BY <1>1, <1>3, <2>2
<1> QED BY <1>2, <1>3 DEF OnPage

\* Nor does a block run into that of the item that gives it room.
LEMMA BlocksApart ==
    ASSUME NEW f \in Row, Books(f), NEW c \in Cell, NEW d \in Cell, c # d,
           f[c] \in Item, f[d] \in Item,
           \A e \in Cell : e \in Span(d, f[c]) /\ f[e] # NoItem =>
              Span(e, f[e]) \subseteq Span(d, f[c])
    PROVE  Span(c, f[c]) \cap Span(d, f[c]) = {}
<1> DEFINE i == f[c]
<1>1. /\ i \in Item /\ NoItem \notin Item /\ Cell \subseteq Int
      /\ d \in Span(d, f[d])
  BY ConstantTypes, CellTypes, InSpan
<1> SUFFICES ASSUME Span(c, i) \cap Span(d, i) # {}
             PROVE  FALSE
  OBVIOUS
<1>2. c \in Span(d, i) \/ d \in Span(c, i)
  BY <1>1, Overlap
<1>3. d \notin Span(c, i)
  BY <1>1 DEF Books
<1>4. Span(c, i) \subseteq Span(d, i)
  BY <1>1, <1>2, <1>3
<1> QED BY <1>1, <1>2, <1>3, <1>4, EndsBelow

\* The block of cells below d put in place of that below c.
Blocks(f, c, d) ==
    [e \in Cell |-> IF e = d THEN f[c]
                    ELSE IF e \in Span(c, f[c]) THEN f[(e - c) + d]
                    ELSE IF e \in Span(d, f[c]) THEN NoItem ELSE f[e]]

LEMMA BlocksInOrder ==
    ASSUME NEW f \in Row, Books(f), NEW c \in Cell, NEW d \in Cell, c # d,
           {c, d} \subseteq Inventory,
           f[c] \in Item, f[d] \in Item, OnPage(d, f[c]),
           \A e \in Cell : e \in Span(d, f[c]) /\ f[e] # NoItem =>
              Span(e, f[e]) \subseteq Span(d, f[c])
    PROVE  LET g == Blocks(f, c, d)
           IN  /\ g \in Row /\ Books(g)
               /\ \A e \in Cell : f[e] # NoItem => \E x \in Cell : g[x] = f[e]
<1> DEFINE i == f[c]
           g == Blocks(f, c, d)
           Old(e) == (e - c) + d
<1>1. /\ \A e \in Cell : f[e] \in Item \cup {NoItem}
      /\ NoItem \notin Item
      /\ Cell \subseteq Int
      /\ i \in Item /\ OnPage(c, i) /\ OnPage(d, i)
  BY ConstantTypes, CellTypes DEF Row, Books
<1>17. c \notin Window /\ d \notin Window /\ Inventory \cap Window = {}
  BY ConstantTypes DEF Inventory, Window, Num
<1>18. Span(c, i) \subseteq Page(c)
  BY <1>1, <1>17 DEF OnPage
<1>2. /\ Span(c, i) \subseteq Cell /\ Span(d, i) \subseteq Cell
      /\ c \in Span(c, i) /\ d \in Span(d, i)
      /\ \A e \in Cell : f[e] # NoItem => e \in Span(e, f[e])
  BY <1>1, <1>17, OnPageCells, InSpan
<1>3. Span(c, i) \cap Span(d, i) = {}
  BY BlocksApart
<1>4. \A e \in Cell : g[e] = IF e = d THEN i
                             ELSE IF e \in Span(c, i) THEN f[Old(e)]
                             ELSE IF e \in Span(d, i) THEN NoItem ELSE f[e]
  BY DEF Blocks
<1>5. \A e \in Int : e \in Span(c, i) <=> Old(e) \in Span(d, i)
  <2> SUFFICES ASSUME NEW e \in Int
               PROVE  e \in Span(c, i) <=> Old(e) \in Span(d, i)
    OBVIOUS
  <2>1. e + (d - c) = Old(e) /\ c + (d - c) = d /\ d - c \in Int
    BY <1>1
  <2>2. e \in Span(c, i) <=> (e + (d - c)) \in Span(c + (d - c), i)
    BY <1>1, <2>1, Shifted
  <2> QED BY <2>1, <2>2
<1>6. g \in Row
  <2>1. g = [e \in Cell |-> g[e]]
    BY DEF Blocks
  <2>2. \A e \in Cell : g[e] \in Item \cup {NoItem}
    <3> TAKE e \in Cell
    <3>1. e \in Span(c, i) => Old(e) \in Cell
      BY <1>1, <1>2, <1>5
    <3> HIDE DEF g, Old, i
    <3> QED BY <1>1, <1>4, <3>1
  <2> HIDE DEF g
  <2> QED BY <2>1, <2>2 DEF Row
<1> HIDE DEF g
\* What moved to where i was.
<1>7. ASSUME NEW e \in Span(c, i), g[e] # NoItem
      PROVE  /\ e # d /\ g[e] = f[Old(e)] /\ g[e] \in Item
             /\ Old(e) \in Cell /\ Old(e) \in Span(d, i) /\ Old(e) # c
             /\ Span(Old(e), g[e]) \subseteq Span(d, i)
             /\ Span(e, g[e]) \subseteq Span(c, i)
  <2>1. e \in Cell /\ e # d /\ Old(e) \in Span(d, i) /\ Old(e) \in Cell
    BY <1>1, <1>2, <1>3, <1>5
  <2>2. g[e] = f[Old(e)] /\ g[e] \in Item
    <3> HIDE DEF Old, i
    <3> QED BY <1>1, <1>4, <1>7, <2>1
  <2>3. Span(Old(e), g[e]) \subseteq Span(d, i)
    BY <1>7, <2>1, <2>2
  <2>4. Span(e, g[e]) \subseteq Span(c, i)
    <3> SUFFICES ASSUME NEW x \in Span(e, g[e])
                 PROVE  x \in Span(c, i)
      OBVIOUS
    <3>1. x \in Int /\ e \in Int /\ d - c \in Int
      BY <1>1, <2>1, <2>2, Spans
    <3>2. (x + (d - c)) \in Span(e + (d - c), g[e])
      BY <2>2, <3>1, Shifted
    <3>3. x + (d - c) = Old(x) /\ e + (d - c) = Old(e)
      BY <1>1, <3>1
    <3>4. Old(x) \in Span(d, i)
      BY <2>3, <3>2, <3>3
    <3> QED BY <1>5, <3>1, <3>4
  <2> QED BY <1>2, <1>3, <2>1, <2>2, <2>3, <2>4
\* What did not move.
<1>8. ASSUME NEW e \in Cell, e # d, e \notin Span(c, i), g[e] # NoItem
      PROVE  /\ e # c /\ e \notin Span(d, i) /\ g[e] = f[e] /\ g[e] \in Item
             /\ Span(e, g[e]) \cap Span(c, i) = {}
             /\ Span(e, g[e]) \cap Span(d, i) = {}
  <2>1. e # c /\ e \notin Span(d, i) /\ g[e] = f[e] /\ g[e] \in Item
    <3> HIDE DEF i
    <3> QED BY <1>1, <1>2, <1>4, <1>8
  <2>2. Span(e, f[e]) \cap Span(c, i) = {}
    BY <1>1, <2>1 DEF Books
  <2>3. d \notin Span(e, f[e])
    BY <1>1, <1>2, <1>8, <2>1 DEF Books
  <2>4. Span(e, f[e]) \cap Span(d, i) = {}
    <3>1. e \in Int /\ d \in Int /\ f[e] \in Item /\ i \in Item
      BY <1>1, <2>1
    <3> HIDE DEF i
    <3> QED BY <2>1, <2>3, <3>1, Overlap
  <2> QED BY <2>1, <2>2, <2>4
<1>9. g[d] = i
  BY <1>4
<1>10. ASSUME NEW e \in Cell, g[e] # NoItem
       PROVE  OnPage(e, g[e]) /\ (e \in Window => Size[g[e]] = 1)
  <2>1. CASE e = d
    BY <1>1, <1>9, <1>17, <2>1
  <2>2. CASE e # d /\ e \notin Span(c, i)
    BY <1>8, <1>10, <2>2 DEF Books
  <2>3. CASE e \in Span(c, i)
    <3>1. Span(e, g[e]) \subseteq Page(c) /\ e \in Page(c)
      BY <1>7, <1>10, <2>3, <1>18
    <3>2. Page(e) = Page(c) /\ e \in Inventory
      BY <3>1 DEF Page
    <3> QED BY <3>1, <3>2, <1>17 DEF OnPage
  <2> QED BY <2>1, <2>2, <2>3
<1>11. ASSUME NEW e \in Cell, NEW x \in Cell, g[e] # NoItem, g[x] # NoItem, e # x
       PROVE  Span(e, g[e]) \cap Span(x, g[x]) = {}
  <2>1. ASSUME NEW y \in Span(c, i), g[y] # NoItem
        PROVE  Span(y, g[y]) \cap Span(d, i) = {}
    BY <1>3, <1>7, <2>1
  <2>2. ASSUME NEW y \in Cell, y # d, y \notin Span(c, i), g[y] # NoItem
        PROVE  Span(y, g[y]) \cap Span(d, i) = {}
    BY <1>8, <2>2
  <2>3. CASE e = d \/ x = d
    BY <1>9, <1>11, <2>1, <2>2, <2>3
  <2>4. CASE e \in Span(c, i) /\ x \in Span(c, i)
    <3>1. Old(e) # Old(x) /\ e \in Int /\ x \in Int /\ d - c \in Int
      BY <1>1, <1>11
    <3>2. /\ Old(e) \in Cell /\ Old(x) \in Cell
          /\ g[e] = f[Old(e)] /\ g[x] = f[Old(x)]
          /\ g[e] \in Item /\ g[x] \in Item
      BY <1>7, <1>11, <2>4
    <3>3. Span(Old(e), g[e]) \cap Span(Old(x), g[x]) = {}
      <4>1. \A a, b \in Cell : a # b /\ f[a] # NoItem /\ f[b] # NoItem =>
               Span(a, f[a]) \cap Span(b, f[b]) = {}
        BY DEF Books
      <4> DEFINE a == Old(e)  b == Old(x)
      <4>2. a \in Cell /\ b \in Cell /\ a # b /\ g[e] = f[a] /\ g[x] = f[b]
        BY <3>1, <3>2
      <4> HIDE DEF a, b
      <4>3. Span(a, g[e]) \cap Span(b, g[x]) = {}
        BY <4>1, <4>2, <1>11
      <4> QED BY <4>3 DEF a, b
    <3>4. ASSUME NEW y \in Span(e, g[e]) \cap Span(x, g[x])
          PROVE  FALSE
      <4>1. y \in Int
        BY <3>1, <3>2, Spans
      <4>2. /\ (y + (d - c)) \in Span(e + (d - c), g[e])
            /\ (y + (d - c)) \in Span(x + (d - c), g[x])
        BY <3>1, <3>2, <4>1, Shifted
      <4>3. e + (d - c) = Old(e) /\ x + (d - c) = Old(x)
        <5>1. c \in Int /\ d \in Int
          BY <1>1
        <5> QED BY <3>1, <5>1
      <4> DEFINE z == y + (d - c)
      <4>4. z \in Span(Old(e), g[e]) /\ z \in Span(Old(x), g[x])
        BY <4>2, <4>3
      <4> HIDE DEF z, Old
      <4> QED BY <3>3, <4>4
    <3> QED BY <3>3, <3>4
  <2>5. ASSUME NEW y \in Cell, NEW z \in Cell, g[y] # NoItem, g[z] # NoItem,
               y \in Span(c, i), z \notin Span(c, i), z # d
        PROVE  Span(y, g[y]) \cap Span(z, g[z]) = {}
    <3>1. /\ Old(y) \in Cell /\ g[y] = f[Old(y)] /\ g[y] \in Item
          /\ Old(y) \in Span(d, i) /\ Span(y, g[y]) \subseteq Span(c, i)
      BY <1>7, <2>5
    <3>2. /\ z \notin Span(d, i) /\ g[z] = f[z]
          /\ Span(z, g[z]) \cap Span(c, i) = {}
      BY <1>8, <2>5
    <3> QED BY <3>1, <3>2
  <2>6. CASE e \notin Span(c, i) /\ x \notin Span(c, i) /\ e # d /\ x # d
    <3>1. g[e] = f[e] /\ g[x] = f[x]
      BY <1>8, <1>11, <2>6
    <3> QED BY <1>11, <3>1 DEF Books
  <2> QED BY <1>11, <2>3, <2>4, <2>5, <2>6
<1>12. Books(g)
  BY <1>10, <1>11 DEF Books
<1>14. ASSUME NEW e \in Cell, f[e] # NoItem
       PROVE  \E x \in Cell : g[x] # NoItem /\ g[x] = f[e]
  <2>1. CASE e = c
    BY <1>1, <1>9, <2>1
  <2>2. CASE e \in Span(d, i)
    <3> DEFINE x == (e - d) + c
    <3>1. Old(x) = e /\ x \in Int
      BY <1>1
    <3>2. x \in Span(c, i)
      BY <1>5, <2>2, <3>1
    <3>3. x \in Cell /\ x # d
      BY <1>2, <1>3, <3>2
    <3> HIDE DEF x, Old, i
    <3>4. g[x] = f[e]
      BY <1>4, <3>1, <3>2, <3>3
    <3> QED BY <1>14, <3>3, <3>4
  <2>3. CASE e # c /\ e \notin Span(d, i)
    <3>1. e \notin Span(c, i)
      BY <1>1, <1>2, <1>14, <2>3 DEF Books
    <3>2. g[e] = f[e]
      BY <1>2, <1>4, <2>3, <3>1
    <3> QED BY <1>14, <3>2
  <2> QED BY <2>1, <2>2, <2>3
<1> QED BY <1>6, <1>12, <1>14 DEF g

\* Two items of one size change places.
LEMMA SwapItemsKeeps ==
    ASSUME IInv, NEW p \in Player, NEW c \in Cell, NEW d \in Cell, SwapItems(p, c, d)
    PROVE  /\ IInv'
           /\ Held(p)' \subseteq Held(p)
           /\ \A r \in Player \ {p} : Held(r)' = Held(r)
<1> DEFINE f == inv[p]
           g == [f EXCEPT ![c] = f[d], ![d] = f[c]]
<1>1. /\ Event /\ c # d /\ f[c] \in Item /\ f[d] \in Item /\ Size[f[c]] = Size[f[d]]
      /\ Rearranged(p, g)
      /\ UNCHANGED <<torn, purse, exch, exchanging, done, reborn>>
  BY DEF SwapItems, MaySwap
<1>2. /\ inv \in [Player -> Row] /\ f \in Row /\ Once(f) /\ NoItem \notin Item
      /\ p \notin torn => Books(f)
      /\ Held(p) = {f[e] : e \in Cell} \ {NoItem}
  BY HeldIs, ConstantTypes DEF IInv, TypeOK, InventoryBooks, Row
<1> HIDE DEF f
<1>3. /\ g \in Row
      /\ \A e \in Cell : g[e] = IF e = d THEN f[c] ELSE IF e = c THEN f[d] ELSE f[e]
  BY <1>2 DEF Row
<1> HIDE DEF g
<1>4. Once(g)
  BY <1>2, <1>3 DEF Once
<1>5. {g[e] : e \in Cell} = {f[e] : e \in Cell}
  BY <1>3
<1>6. ASSUME p \notin torn
      PROVE  Books(g)
  <2>1. \A e \in Cell : g[e] # NoItem =>
           /\ f[e] # NoItem /\ Span(e, g[e]) = Span(e, f[e])
           /\ Size[g[e]] = Size[f[e]]
    BY <1>1, <1>2, <1>3 DEF Span
  <2> QED BY <2>1, <1>2, <1>6 DEF Books, OnPage
<1>7. {g[e] : e \in Cell} \subseteq Held(p) \cup {NoItem} /\ Held(p) \subseteq {g[e] : e \in Cell}
  BY <1>2, <1>5
<1> QED BY <1>1, <1>3, <1>4, <1>6, <1>7, RearrangedKeeps

\* A cell's number, as a BYTE.
LEMMA ByteTypes ==
    ASSUME NEW x \in Cell
    PROVE  /\ x % ByteCells \in Cell
           /\ x \in 0 .. ByteCells - 1 => x % ByteCells = x
<1>1. ByteCells \in Nat \ {0} /\ x \in Nat
  BY CellTypes, ExchangeAssumption
<1>2. x % ByteCells \in 0 .. x
  BY <1>1
<1>3. x \in 0 .. ByteCells - 1 => x % ByteCells = x
  BY <1>1
<1>4. Num \in Nat /\ Slots \in Nat
  BY ConstantTypes DEF Num
<1>5. Cell = 0 .. Num + Slots - 1
  BY <1>4 DEF Cell, Inventory, Window
<1> QED BY <1>1, <1>2, <1>3, <1>4, <1>5

LEMMA SetItemRow ==
    ASSUME NEW f \in Row, NEW a \in Cell, NEW b \in Cell
    PROVE  /\ SetItem(f, a, b) \in Row
           /\ Once(f) => Once(SetItem(f, a, b))
           /\ \A e \in Cell : \/ SetItem(f, a, b)[e] = NoItem
                            \/ \E x \in Cell : SetItem(f, a, b)[e] = f[x]
           /\ a # b /\ f[b] = NoItem =>
                 \A e \in Cell : SetItem(f, a, b)[e] = IF e = b THEN f[a]
                                                       ELSE IF e = a THEN NoItem ELSE f[e]
<1>1. CASE f[a] = NoItem
  BY <1>1 DEF SetItem
<1>2. CASE f[a] # NoItem
  <2>1. SetItem(f, a, b) = ToCell(f, a, b)
    BY <1>2 DEF SetItem, ToCell
  <2>2. f[a] \in Item
    BY <1>2 DEF Row
  <2> DEFINE g == ToCell(f, a, b)
  <2>3. /\ g \in Row
        /\ \A e \in Cell : g[e] = IF e = b THEN f[a] ELSE IF e = a THEN NoItem ELSE f[e]
        /\ Once(f) => Once(g)
        /\ \A e \in Cell : g[e] = NoItem \/ \E x \in Cell : g[e] = f[x]
    BY <2>2, MovedRow
  <2> HIDE DEF g
  <2>4. SetItem(f, a, b) = g
    BY <2>1 DEF g
  <2> QED BY <2>3, <2>4
<1> QED BY <1>1, <1>2

LEMMA RoundRow ==
    ASSUME NEW f \in Row, NEW c, NEW d, NEW k,
           c + Width * k \in Cell, d + Width * k \in Cell
    PROVE  /\ Round(f, c, d, k) \in Row
           /\ Once(f) => Once(Round(f, c, d, k))
           /\ {Round(f, c, d, k)[e] : e \in Cell} \subseteq {f[e] : e \in Cell} \cup {NoItem}
<1> DEFINE a == (d + Width * k) % ByteCells
           b == (c + Width * k) % ByteCells
<1>1. a \in Cell /\ b \in Cell
  BY ByteTypes
<1>2. Round(f, c, d, k) = SetItem(f, a, b)
  BY DEF Round
<1> HIDE DEF a, b
<1> DEFINE g == SetItem(f, a, b)
<1>3. g \in Row
  BY <1>1, SetItemRow
<1>4. Once(f) => Once(g)
  BY <1>1, SetItemRow
<1>5. \A e \in Cell : g[e] = NoItem \/ \E x \in Cell : g[e] = f[x]
  BY <1>1, SetItemRow
<1>6. Round(f, c, d, k) = g
  BY <1>2
<1> HIDE DEF g
<1> QED BY <1>3, <1>4, <1>5, <1>6

\* The loop of the swap, before the item that gave room to the others is put down.
Cleared(f, c, d) ==
    LET taken == [f EXCEPT ![c] = NoItem]
        two == Round(Round(taken, c, d, 0), c, d, 1)
    IN  IF Size[f[c]] = 3 THEN Round(two, c, d, 2) ELSE two

LEMMA SpanCells ==
    ASSUME NEW c \in Cell, NEW i \in Item, Size[i] > 1
    PROVE  /\ Span(c, i) = IF Size[i] = 3 THEN {c, c + Width, c + Width * 2}
                                          ELSE {c, c + Width}
           /\ c + Width * 0 = c /\ c + Width * 1 = c + Width
           /\ Size[i] \in {2, 3}
<1>1. c \in Int /\ Width \in Nat /\ Size[i] \in {2, 3}
  BY CellTypes, ExchangeAssumption
<1>2. c + Width * 0 = c /\ c + Width * 1 = c + Width
  BY <1>1
<1>3. CASE Size[i] = 2
  <2>1. 0 .. Size[i] - 1 = {0, 1}
    BY <1>3
  <2>2. Span(c, i) = {c + Width * 0, c + Width * 1}
    BY <2>1 DEF Span
  <2> QED BY <2>2, <1>1, <1>2, <1>3
<1>4. CASE Size[i] = 3
  <2>1. 0 .. Size[i] - 1 = {0, 1, 2}
    BY <1>4
  <2>2. Span(c, i) = {c + Width * 0, c + Width * 1, c + Width * 2}
    BY <2>1 DEF Span
  <2> QED BY <2>2, <1>1, <1>2, <1>4
<1> QED BY <1>1, <1>3, <1>4

\* Whatever cells the loop works on, no item gets two cells, and none comes from elsewhere.
LEMMA SwappedRow ==
    ASSUME NEW f \in Row, Once(f), NEW c \in Cell, NEW d \in Cell,
           f[c] \in Item, Size[f[c]] > 1,
           Span(c, f[c]) \subseteq Cell, Span(d, f[c]) \subseteq Cell
    PROVE  /\ Swapped(f, c, d) \in Row /\ Once(Swapped(f, c, d))
           /\ {Swapped(f, c, d)[e] : e \in Cell} \subseteq {f[e] : e \in Cell} \cup {NoItem}
<1> DEFINE i == f[c]
           taken == [f EXCEPT ![c] = NoItem]
           one == Round(taken, c, d, 0)
           two == Round(one, c, d, 1)
           three == Round(two, c, d, 2)
           all == Cleared(f, c, d)
           g == Swapped(f, c, d)
<1>1. /\ c + Width * 0 \in Cell /\ d + Width * 0 \in Cell
      /\ c + Width * 1 \in Cell /\ d + Width * 1 \in Cell
      /\ Size[i] = 3 => c + Width * 2 \in Cell /\ d + Width * 2 \in Cell
  BY SpanCells
<1>2. /\ taken \in Row /\ NoItem \notin Item
      /\ \A e \in Cell : taken[e] = IF e = c THEN NoItem ELSE f[e]
  BY ConstantTypes DEF Row
<1>3. all = (IF Size[i] = 3 THEN three ELSE two) /\ g = [all EXCEPT ![d] = i]
  BY DEF Cleared, Swapped
<1> HIDE DEF taken
<1>4. /\ Once(taken)
      /\ \A e \in Cell : taken[e] # i
      /\ {taken[e] : e \in Cell} \subseteq {f[e] : e \in Cell} \cup {NoItem}
  BY <1>2 DEF Once
<1>5. /\ one \in Row /\ Once(one)
      /\ {one[e] : e \in Cell} \subseteq {taken[e] : e \in Cell} \cup {NoItem}
  BY <1>1, <1>2, <1>4, RoundRow
<1> HIDE DEF one
<1>6. /\ two \in Row /\ Once(two)
      /\ {two[e] : e \in Cell} \subseteq {one[e] : e \in Cell} \cup {NoItem}
  BY <1>1, <1>5, RoundRow
<1> HIDE DEF two
<1>7. Size[i] = 3 => /\ three \in Row /\ Once(three)
                     /\ {three[e] : e \in Cell} \subseteq {two[e] : e \in Cell} \cup {NoItem}
  BY <1>1, <1>6, RoundRow
<1> HIDE DEF three, all, g, i
<1>8. /\ all \in Row /\ Once(all)
      /\ {all[e] : e \in Cell} \subseteq {taken[e] : e \in Cell} \cup {NoItem}
  <2>1. CASE Size[i] = 3
    BY <2>1, <1>3, <1>5, <1>6, <1>7
  <2>2. CASE Size[i] # 3
    BY <2>2, <1>3, <1>5, <1>6
  <2> QED BY <2>1, <2>2
<1>9. i \in Item /\ i \in {f[e] : e \in Cell}
  BY DEF i
<1>10. \A e \in Cell : all[e] # i
  BY <1>2, <1>4, <1>8, <1>9
<1>11. g \in Row /\ Once(g)
  BY <1>3, <1>8, <1>9, <1>10, OnceWith DEF Row
<1>12. {g[e] : e \in Cell} \subseteq {f[e] : e \in Cell} \cup {NoItem}
  <2>1. \A e \in Cell : g[e] = IF e = d THEN i ELSE all[e]
    BY <1>3, <1>8 DEF Row
  <2> QED BY <2>1, <1>4, <1>8, <1>9
<1> QED BY <1>11, <1>12 DEF g

\* As long as the loop stays in the inventory and its numbers in a BYTE, the blocks
\* change places.
LEMMA SwappedIsBlocks ==
    ASSUME NEW f \in Row, Books(f), NEW c \in Inventory, NEW d \in Inventory,
           f[c] \in Item, Size[f[c]] > 1,
           Span(c, f[c]) \subseteq Inventory \cap 0 .. ByteCells - 1,
           Span(d, f[c]) \subseteq Inventory \cap 0 .. ByteCells - 1,
           Span(c, f[c]) \cap Span(d, f[c]) = {}
    PROVE  Swapped(f, c, d) = Blocks(f, c, d)
<1> DEFINE i == f[c]
           c1 == c + Width * 1  c2 == c + Width * 2
           d1 == d + Width * 1  d2 == d + Width * 2
           taken == [f EXCEPT ![c] = NoItem]
           one == Round(taken, c, d, 0)
           two == Round(one, c, d, 1)
           three == Round(two, c, d, 2)
           all == Cleared(f, c, d)
           g == Swapped(f, c, d)
<1>1. /\ c \in Cell /\ d \in Cell /\ Inventory \subseteq Cell /\ Cell \subseteq Nat
      /\ Width \in Nat /\ Width > 0 /\ NoItem \notin Item
  BY CellTypes, ExchangeAssumption
<1>2. /\ Span(c, i) = IF Size[i] = 3 THEN {c, c1, c2} ELSE {c, c1}
      /\ Span(d, i) = IF Size[i] = 3 THEN {d, d1, d2} ELSE {d, d1}
      /\ c + Width * 0 = c /\ d + Width * 0 = d
      /\ c + Width * 1 = c + Width /\ d + Width * 1 = d + Width
  BY <1>1, SpanCells
<1>3. \A e \in Span(c, i) \cup Span(d, i) : e \in Cell /\ e % ByteCells = e
  BY <1>1, ByteTypes
<1>4. \A e \in Span(c, i) : e # c => f[e] = NoItem
  <2> SUFFICES ASSUME NEW e \in Span(c, i), e # c, f[e] # NoItem
               PROVE  FALSE
    OBVIOUS
  <2>1. e \in Cell /\ f[e] \in Item
    BY <1>3 DEF Row
  <2>2. e \in Span(e, f[e])
    BY <2>1, InSpan
  <2> QED BY <1>1, <2>1, <2>2 DEF Books
<1>5. /\ c1 = (c1 - c) + c /\ (c1 - c) + d = d1 /\ (c - c) + d = d
      /\ (c2 - c) + d = d2
      /\ c # c1 /\ d # d1 /\ c # c2 /\ d # d2 /\ c1 # c2 /\ d1 # d2
  BY <1>1
<1>6. /\ taken \in Row
      /\ \A e \in Cell : taken[e] = IF e = c THEN NoItem ELSE f[e]
  BY DEF Row
<1>7. all = (IF Size[i] = 3 THEN three ELSE two) /\ g = [all EXCEPT ![d] = i]
  BY DEF Cleared, Swapped
<1>8. /\ one = SetItem(taken, d, c)
      /\ two = SetItem(one, d1, c1)
      /\ Size[i] = 3 => three = SetItem(two, d2, c2)
  BY <1>2, <1>3 DEF Round
<1> HIDE DEF c1, c2, d1, d2, taken
<1>9. /\ c1 \in Cell /\ d1 \in Cell /\ c1 \notin {c, d, d1} /\ d1 \notin {c, d} /\ c # d
      /\ Size[i] = 3 => /\ c2 \in Cell /\ d2 \in Cell
                        /\ c2 \notin {c, d, c1, d1, d2} /\ d2 \notin {c, d, c1, d1}
  BY <1>2, <1>3, <1>5
<1> HIDE DEF one
<1>10. /\ one \in Row
       /\ \A e \in Cell : one[e] = IF e = c THEN f[d] ELSE IF e = d THEN NoItem ELSE f[e]
  <2>1. SetItem(taken, d, c) \in Row
    BY <1>1, <1>6, SetItemRow
  <2>2. \A e \in Cell : SetItem(taken, d, c)[e] = IF e = c THEN taken[d]
                                                  ELSE IF e = d THEN NoItem ELSE taken[e]
    <3>1. taken[c] = NoItem /\ d # c /\ c \in Cell /\ d \in Cell
      BY <1>1, <1>6, <1>9
    <3> QED BY <3>1, <1>6, SetItemRow
  <2> QED BY <2>1, <2>2, <1>1, <1>6, <1>8, <1>9
<1> HIDE DEF two
<1>11. /\ two \in Row
       /\ \A e \in Cell : two[e] = IF e = c THEN f[d] ELSE IF e = c1 THEN f[d1]
                                   ELSE IF e \in {d, d1} THEN NoItem ELSE f[e]
  <2>1. one[c1] = NoItem
    BY <1>2, <1>4, <1>5, <1>9, <1>10
  <2>2. SetItem(one, d1, c1) \in Row
    BY <1>9, <1>10, SetItemRow
  <2>3. \A e \in Cell : SetItem(one, d1, c1)[e] = IF e = c1 THEN one[d1]
                                                  ELSE IF e = d1 THEN NoItem ELSE one[e]
    BY <2>1, <1>9, <1>10, SetItemRow
  <2> QED BY <2>2, <2>3, <1>8, <1>9, <1>10
<1> HIDE DEF three
<1>12. ASSUME Size[i] = 3
       PROVE  /\ three \in Row
              /\ \A e \in Cell : three[e] = IF e = c THEN f[d] ELSE IF e = c1 THEN f[d1]
                                            ELSE IF e = c2 THEN f[d2]
                                            ELSE IF e \in {d, d1, d2} THEN NoItem ELSE f[e]
  <2>1. two[c2] = NoItem
    BY <1>2, <1>4, <1>5, <1>9, <1>11, <1>12
  <2>2. SetItem(two, d2, c2) \in Row
    BY <1>9, <1>11, <1>12, SetItemRow
  <2>3. \A e \in Cell : SetItem(two, d2, c2)[e] = IF e = c2 THEN two[d2]
                                                  ELSE IF e = d2 THEN NoItem ELSE two[e]
    <3>1. d2 # c2 /\ c2 \in Cell /\ d2 \in Cell
      BY <1>9, <1>12
    <3> QED BY <2>1, <3>1, <1>11, SetItemRow
  <2> QED BY <2>2, <2>3, <1>8, <1>9, <1>11, <1>12
<1> HIDE DEF all, g
<1>13. all \in Row
  BY <1>7, <1>11, <1>12
<1>14. g \in Row /\ \A e \in Cell : g[e] = IF e = d THEN i ELSE all[e]
  BY <1>7, <1>13 DEF Row
<1>15. \A e \in Cell : all[e] = IF e \in Span(c, i) THEN f[(e - c) + d]
                                ELSE IF e \in Span(d, i) THEN NoItem ELSE f[e]
  <2>1. CASE Size[i] = 3
    <3> TAKE e \in Cell
    <3>1. all[e] = three[e]
      BY <2>1, <1>7
    <3>2. CASE e \in Span(c, i)
      <4>1. e \in {c, c1, c2}
        BY <2>1, <3>2, <1>2
      <4>2. e = c => (e - c) + d = d
        BY <1>5
      <4>3. e = c1 => (e - c) + d = d1
        BY <1>5
      <4>4. e = c2 => (e - c) + d = d2
        BY <1>5
      <4> QED BY <2>1, <3>1, <3>2, <4>1, <4>2, <4>3, <4>4, <1>9, <1>12
    <3>3. CASE e \notin Span(c, i)
      <4> HIDE DEF i
      <4> QED BY <2>1, <3>1, <3>3, <1>2, <1>12
    <3> QED BY <3>2, <3>3
  <2>2. CASE Size[i] # 3
    <3> TAKE e \in Cell
    <3>1. all[e] = two[e]
      BY <2>2, <1>7
    <3>2. CASE e \in Span(c, i)
      <4>1. e \in {c, c1}
        BY <2>2, <3>2, <1>2
      <4>2. e = c => (e - c) + d = d
        BY <1>5
      <4>3. e = c1 => (e - c) + d = d1
        BY <1>5
      <4> QED BY <2>2, <3>1, <3>2, <4>1, <4>2, <4>3, <1>9, <1>11
    <3>3. CASE e \notin Span(c, i)
      <4> HIDE DEF i
      <4> QED BY <2>2, <3>1, <3>3, <1>2, <1>11
    <3> QED BY <3>2, <3>3
  <2> QED BY <2>1, <2>2
<1>16. g = Blocks(f, c, d)
  <2>1. \A e \in Cell : g[e] = Blocks(f, c, d)[e]
    BY <1>14, <1>15 DEF Blocks
  <2>2. g = [e \in Cell |-> g[e]] /\ Blocks(f, c, d) = [e \in Cell |-> Blocks(f, c, d)[e]]
    BY <1>14 DEF Row, Blocks
  <2> DEFINE b == Blocks(f, c, d)
  <2>3. g = [e \in Cell |-> g[e]] /\ b = [e \in Cell |-> b[e]] /\ \A e \in Cell : g[e] = b[e]
    BY <2>1, <2>2
  <2> HIDE DEF b
  <2> QED BY <2>3 DEF b
<1> QED BY <1>16 DEF g

\* What MakesRoom asks of the sizes: the items below d end where the block does.
LEMMA RoomMade ==
    ASSUME NEW f \in Row, NEW c \in Inventory, NEW d \in Inventory,
           f[c] \in Item, f[d] \in Item, Size[f[c]] > 1,
           Span(d, f[c]) \subseteq Inventory, MakesRoom(f, c, d)
    PROVE  /\ OnPage(d, f[c])
           /\ \A e \in Cell : e \in Span(d, f[c]) /\ f[e] # NoItem =>
                 Span(e, f[e]) \subseteq Span(d, f[c])
<1> DEFINE i == f[c]
           d1 == d + Width  d2 == d + Width * 2
           size == Size[i]
           last == d + Width * (size - 1)
<1>1. /\ d \in Cell /\ Inventory \subseteq Nat /\ d \in Nat /\ Width \in Nat /\ Width > 0
      /\ Height \in Nat \ {0} /\ NoItem \notin Item
      /\ size \in {2, 3} /\ \A j \in Item : Size[j] \in 1 .. 3
  BY CellTypes, InSpan, ExchangeAssumption
<1>2. Span(d, i) = IF size = 3 THEN {d, d1, d2} ELSE {d, d1}
  BY <1>1, SpanCells
<1>3. last = IF size = 3 THEN d2 ELSE d1
  BY <1>1
<1>4. \A e : SizeAt(f, e) = IF f[e] = NoItem THEN 0 ELSE Size[f[e]]
  BY DEF SizeAt
<1>5. \A e \in Span(d, i) : SizeAt(f, e) \in 0 .. 3 /\ e \in Inventory /\ e \in Cell
  <2> SUFFICES ASSUME NEW e \in Span(d, i)
               PROVE  SizeAt(f, e) \in 0 .. 3 /\ e \in Inventory /\ e \in Cell
    OBVIOUS
  <2>1. e \in Inventory /\ e \in Cell
    BY CellTypes
  <2>2. f[e] \in Item \cup {NoItem}
    BY <2>1 DEF Row
  <2> QED BY <2>1, <2>2, <1>1, <1>4
<1>6. /\ SizeAt(f, last) <= 1
      /\ last \div (Width * Height) = d \div (Width * Height)
      /\ SizeAt(f, d) + SizeAt(f, d1) + (IF size = 3 THEN SizeAt(f, last) ELSE 0) <= size
  <2> DEFINE total == SizeAt(f, d) + SizeAt(f, d1) + (IF size = 3 THEN SizeAt(f, last) ELSE 0)
  <2>1. /\ SizeAt(f, last) <= 1
        /\ last \div (Width * Height) = d \div (Width * Height)
        /\ total = size \/ total < size
    BY DEF MakesRoom
  <2>2. total \in Int /\ size \in Int
    BY <1>1, <1>2, <1>3, <1>5
  <2>3. total <= size
    <3> HIDE DEF total, size
    <3> QED BY <2>1, <2>2
  <2> QED BY <2>1, <2>3
<1>7. SizeAt(f, d) >= 1
  BY <1>1, <1>4
<1>8. OnPage(d, i)
  <2> DEFINE n == Width * Height
  <2>1. n \in Nat \ {0}
    BY <1>1
  <2>2. d1 \in Nat /\ d2 \in Nat /\ d <= d1 /\ d1 <= d2
    BY <1>1
  <2> HIDE DEF d1, d2, n
  <2>3. \A x, y, z \in Nat : x <= y /\ y <= z /\ z \div n = x \div n => y \div n = x \div n
    BY <2>1
  <2>4. \A e \in Span(d, i) : e \div n = d \div n
    BY <2>2, <2>3, <1>1, <1>2, <1>3, <1>6 DEF n
  <2> QED BY <2>4, <1>5 DEF OnPage, Page, n
<1>9. ASSUME NEW e \in Cell, e \in Span(d, i), f[e] # NoItem
      PROVE  Span(e, f[e]) \subseteq Span(d, i)
  <2>1. f[e] \in Item /\ SizeAt(f, e) = Size[f[e]] /\ Size[f[e]] \in 1 .. 3
    BY <1>1, <1>4, <1>9 DEF Row
  <2>2. /\ Span(e, f[e]) = IF Size[f[e]] = 1 THEN {e}
                           ELSE IF Size[f[e]] = 3 THEN {e, e + Width, e + Width * 2}
                           ELSE {e, e + Width}
    <3>1. CASE Size[f[e]] = 1
      <4>1. 0 .. Size[f[e]] - 1 = {0} /\ e + Width * 0 = e
        BY <3>1, <1>1, CellTypes
      <4> QED BY <3>1, <4>1 DEF Span
    <3>2. CASE Size[f[e]] > 1
      <4>1. Span(e, f[e]) = IF Size[f[e]] = 3 THEN {e, e + Width, e + Width * 2}
                                             ELSE {e, e + Width}
        BY <3>2, <2>1, SpanCells
      <4>2. Size[f[e]] # 1
        BY <3>2, <2>1
      <4> QED BY <4>1, <4>2
    <3> QED BY <3>1, <3>2, <2>1
  <2>3. CASE e = d
    <3>1. Size[f[e]] <= size
      BY <2>1, <2>3, <1>1, <1>2, <1>5, <1>6
    <3> QED BY <3>1, <2>1, <2>2, <2>3, <1>1, <1>2
  <2>4. CASE e = d1 /\ size = 2
    <3>1. Size[f[e]] = 1
      BY <2>1, <2>4, <1>3, <1>6
    <3> QED BY <3>1, <2>2, <1>9
  <2>5. CASE e = d1 /\ size = 3
    <3>1. Size[f[e]] <= 2
      BY <2>1, <2>5, <1>2, <1>3, <1>5, <1>6, <1>7
    <3>2. d1 + Width = d2
      BY <1>1
    <3> QED BY <3>1, <3>2, <2>1, <2>2, <2>5, <1>2
  <2>6. CASE e = d2 /\ size = 3
    <3>1. Size[f[e]] = 1
      BY <2>1, <2>6, <1>3, <1>6
    <3> QED BY <3>1, <2>2, <1>9
  <2> QED BY <2>3, <2>4, <2>5, <2>6, <1>1, <1>2, <1>9
<1> QED BY <1>8, <1>9

\* Items of different sizes change places, and with the smaller one those below it.
LEMMA SwapUnevenKeeps ==
    ASSUME IInv, NEW p \in Player, NEW c \in Cell, NEW d \in Cell, SwapUneven(p, c, d)
    PROVE  /\ IInv'
           /\ Held(p)' \subseteq Held(p)
           /\ \A r \in Player \ {p} : Held(r)' = Held(r)
<1> DEFINE f == inv[p]
           g == Swapped(f, c, d)
           used == Span(c, f[c]) \cup Span(d, f[c])
<1>1. /\ Event /\ c # d /\ f[c] \in Item /\ f[d] \in Item
      /\ Size[f[c]] > 1 /\ used \subseteq Cell /\ MakesRoom(f, c, d)
      /\ Rearranged(p, g)
      /\ torn' = IF used \subseteq Inventory \cap 0 .. ByteCells - 1
                   THEN torn ELSE torn \cup {p}
      /\ UNCHANGED <<purse, exch, exchanging, done, reborn>>
  BY DEF SwapUneven, MaySwap
<1>2. /\ inv \in [Player -> Row] /\ f \in Row /\ Once(f) /\ NoItem \notin Item
      /\ p \notin torn => Books(f)
      /\ Held(p) = {f[e] : e \in Cell} \ {NoItem}
  BY HeldIs, ConstantTypes DEF IInv, TypeOK, InventoryBooks, Row
<1> HIDE DEF f
<1>3. /\ g \in Row /\ Once(g)
      /\ {g[e] : e \in Cell} \subseteq {f[e] : e \in Cell} \cup {NoItem}
  BY <1>1, <1>2, SwappedRow
<1>4. torn \subseteq torn' /\ torn' \subseteq torn \cup {p}
  BY <1>1
<1>5. ASSUME p \notin torn'
      PROVE  Books(g) /\ Held(p) \subseteq {g[e] : e \in Cell}
  <2>1. /\ p \notin torn /\ Books(f)
        /\ Span(c, f[c]) \subseteq Inventory \cap 0 .. ByteCells - 1
        /\ Span(d, f[c]) \subseteq Inventory \cap 0 .. ByteCells - 1
    BY <1>1, <1>2, <1>5
  <2>2. c \in Span(c, f[c]) /\ d \in Span(d, f[c])
    BY <1>1, InSpan
  <2>3. c \in Inventory /\ d \in Inventory
    BY <2>1, <2>2
  <2>4. /\ OnPage(d, f[c])
        /\ \A e \in Cell : e \in Span(d, f[c]) /\ f[e] # NoItem =>
              Span(e, f[e]) \subseteq Span(d, f[c])
    BY <1>1, <1>2, <2>1, <2>3, RoomMade
  <2>5. Span(c, f[c]) \cap Span(d, f[c]) = {}
    BY <1>1, <1>2, <2>1, <2>4, BlocksApart
  <2> DEFINE b == Blocks(f, c, d)
  <2>6. g = b
    BY <1>1, <1>2, <2>1, <2>3, <2>5, SwappedIsBlocks
  <2>7. Books(b) /\ \A e \in Cell : f[e] # NoItem => \E x \in Cell : b[x] = f[e]
    BY <1>1, <1>2, <2>1, <2>3, <2>4, BlocksInOrder
  <2> HIDE DEF b, g
  <2> QED BY <1>2, <2>6, <2>7
<1> HIDE DEF g
<1>6. {g[e] : e \in Cell} \subseteq Held(p) \cup {NoItem}
  BY <1>2, <1>3
<1> QED BY <1>1, <1>3, <1>4, <1>5, <1>6, RearrangedKeeps

-----------------------------------------------------------------------------
LEMMA DestroyKeeps ==
    ASSUME IInv, NEW p \in Player, NEW c \in Cell, Destroy(p, c)
    PROVE  /\ IInv'
           /\ \A r \in Player : Held(r)' = Held(r) \ {inv[p][c]}
           /\ inv[p][c] \in Item
<1> DEFINE i == inv[p][c]
<1>1. /\ Quiet /\ events < MaxEvent /\ events' = events + 1
      /\ i \in Item
      /\ inv' = [inv EXCEPT ![p][c] = NoItem]
      /\ exchanging' = exchanging \ {i} /\ stuck' = stuck \ {i}
      /\ UNCHANGED <<buried, torn, purse, exch, givers, left, before, reborn>>
  BY DEF Destroy, Event
<1>2. /\ inv' \in [Player -> Row]
      /\ InventoryBooks'
      /\ \A r \in Player : Held(r)' = Held(r) \ {i}
      /\ \A r \in Player, d \in Cell : inv[r][d] # i => inv'[r][d] = inv[r][d]
  BY <1>1, ItemLeaves DEF IInv
<1> HIDE DEF i
<1>3. /\ Paired' /\ InPlace'
      /\ \A r \in Player : Offered(r)' = Offered(r)
  <2>1. /\ \A r \in Player : /\ Held(r) \ {i} \subseteq Held(r)'
                               /\ Held(r)' \subseteq Held(r) \cup {i}
        /\ \A s \in Player : i \notin Held(s)'
    BY <1>2
  <2> QED BY <2>1, <1>1, OtherItemsStay
<1>4. TypeOK'
  <2>1. events' \in 0 .. MaxEvent
    BY <1>1, ConstantTypes DEF IInv, TypeOK
  <2> QED BY <2>1, <1>1, <1>2 DEF IInv, TypeOK, Row
<1>5. OutOfReach' /\ Apart'
  BY <1>1, <1>3 DEF IInv, ExchangeBooks, OutOfReach, Apart
<1>6. DoneBooks'
  BY <1>1 DEF IInv, DoneBooks, Quiet
<1>7. IInv'
  BY <1>2, <1>3, <1>4, <1>5, <1>6 DEF IInv, ExchangeBooks
<1> QED BY <1>1, <1>2, <1>7 DEF i

\* A buried item goes, and with it what is in the cell it had.
LEMMA DestroyBuriedKeeps ==
    ASSUME IInv, NEW p \in Player, NEW c \in Cell, NEW i \in Item, DestroyBuried(p, c, i)
    PROVE  /\ IInv'
           /\ Held(p)' \subseteq Held(p)
           /\ \A r \in Player \ {p} : Held(r)' = Held(r)
<1> DEFINE j == inv[p][c]
<1>1. /\ Quiet /\ events < MaxEvent /\ events' = events + 1
      /\ p \in torn /\ i \in buried
      /\ inv' = [inv EXCEPT ![p][c] = NoItem]
      /\ buried' = (buried \ {i}) \cup ({j} \ {NoItem})
      /\ exchanging' = exchanging \ {i} /\ stuck' = stuck \ {i}
      /\ UNCHANGED <<torn, purse, exch, givers, left, before, reborn>>
  BY DEF DestroyBuried, Event
<1>2. /\ inv \in [Player -> Row] /\ NoItem \notin Item
      /\ InventoryBooks /\ TypeOK
  BY ConstantTypes DEF IInv, TypeOK, Row
<1>3. /\ inv' \in [Player -> Row]
      /\ \A r \in Player : Once(inv'[r]) /\ (r \notin torn => Books(inv'[r]))
      /\ \A r \in Player : Held(r)' = Held(r) \ {j}
  BY <1>1, <1>2, CellEmptied
<1>4. j = NoItem \/ (j \in Item /\ j \in Held(p))
  BY <1>2 DEF Held, Filled, Row
<1> HIDE DEF j
<1>5. \A r \in Player : NoItem \notin Held(r)
  BY DEF Held, Filled
<1>6. \A r \in Player : j \in Held(r) => r = p
  BY <1>2, <1>4, <1>5 DEF InventoryBooks
<1>7. InventoryBooks'
  <2>1. \A r, s \in Player : r # s => Held(r)' \cap Held(s)' = {}
    BY <1>2, <1>3 DEF InventoryBooks
  <2>2. \A r \in Player : buried' \cap Held(r)' = {}
    BY <1>1, <1>2, <1>3 DEF InventoryBooks
  <2> QED BY <2>1, <2>2, <1>1, <1>3 DEF InventoryBooks
<1>8. \A r \in Player : Offered(r)' = Offered(r)
  BY <1>1 DEF Offered
<1>9. Paired'
  BY <1>1 DEF IInv, ExchangeBooks, Paired, Company
<1>10. InPlace'
  <2> SUFFICES ASSUME NEW r \in Player, exch'[r] # NoExchange
               PROVE  /\ Len(exch'[r].items) = Len(exch'[r].pos)
                      /\ \A x \in Offered(r)' \ reborn' :
                            \/ x \in Held(r)' \cap exchanging'
                            \/ \A s \in Player : x \notin Held(s)'
    BY DEF InPlace
  <2>1. Len(exch[r].items) = Len(exch[r].pos)
    BY <1>1 DEF IInv, ExchangeBooks, InPlace
  <2>2. ASSUME NEW x \in Offered(r) \ reborn
        PROVE  \/ x \in Held(r)' \cap exchanging'
               \/ \A s \in Player : x \notin Held(s)'
    <3>1. x \in Held(r) \cap exchanging \/ \A s \in Player : x \notin Held(s)
      BY <1>1, <2>2 DEF IInv, ExchangeBooks, InPlace
    <3>2. x \in Held(r) => x # i
      BY <1>1, <1>2 DEF InventoryBooks
    <3> QED BY <3>1, <3>2, <1>1, <1>3
  <2> QED BY <2>1, <2>2, <1>1, <1>8
<1>11. TypeOK'
  <2>1. events' \in 0 .. MaxEvent
    BY <1>1, ConstantTypes DEF IInv, TypeOK
  <2>2. buried' \in SUBSET Item
    BY <1>1, <1>4 DEF IInv, TypeOK
  <2> QED BY <2>1, <2>2, <1>1, <1>3 DEF IInv, TypeOK, Row
<1>12. OutOfReach' /\ Apart'
  BY <1>1, <1>8 DEF IInv, ExchangeBooks, OutOfReach, Apart
<1>13. DoneBooks'
  BY <1>1 DEF IInv, DoneBooks, Quiet
<1>14. IInv'
  BY <1>7, <1>9, <1>10, <1>11, <1>12, <1>13 DEF IInv, ExchangeBooks
<1>15. \A r \in Player \ {p} : Held(r)' = Held(r)
  BY <1>3, <1>6
<1> QED BY <1>3, <1>14, <1>15

LEMMA GainKeeps ==
    ASSUME IInv, NEW p \in Player, NEW i \in Item, Gain(p, i)
    PROVE  /\ IInv'
           /\ \A r \in Player : Held(r)' = (Held(r) \ {i}) \cup (IF r = p THEN {i} ELSE {})
<1>1. /\ Quiet /\ i \notin buried /\ \A r \in Player : i \notin Held(r)
      /\ reborn' = reborn \cup ({i} \cap UNION {Offered(r) : r \in Player})
      /\ UNCHANGED <<buried, torn, purse, events, exch, exchanging, givers, left, before,
                     stuck>>
  BY DEF Gain, done
<1>2. PICK taken \in Grids(p) :
         \E c \in FreeCell(taken, i) : inv' = [inv EXCEPT ![p][c] = i]
  BY DEF Gain
<1>3. PICK c \in FreeCell(taken, i) : inv' = [inv EXCEPT ![p][c] = i]
  BY <1>2
<1>4. /\ c \in Cell /\ Fits(c, i, taken)
      /\ c \in Window => i \in Special
  <2>1. Inventory \cap Window = {}
    BY ConstantTypes DEF Inventory, Window, Num
  <2> QED BY <2>1, <1>3, CellTypes DEF FreeCell, FirstFit, TargetWindow
<1>5. inv \in [Player -> [Cell -> Item \cup {NoItem}]] /\ NoItem \notin Item
  BY ConstantTypes DEF IInv, TypeOK
<1>6. \A r \in Player, d \in Cell : inv[r][d] # i
  BY <1>1, <1>5 DEF Held, Filled
<1>7. inv' = Moved(i, p, {c})
  <2>1. \A r \in Player, e \in Cell :
          inv'[r][e] = IF r = p /\ e = c THEN i ELSE inv[r][e]
    BY <1>3, <1>4, <1>5
  <2>2. \A r \in Player, e \in Cell :
          Moved(i, p, {c})[r][e] = IF r = p /\ e = c THEN i ELSE inv[r][e]
    BY <1>6 DEF Moved
  <2>3. inv' \in [Player -> Row] /\ Moved(i, p, {c}) \in [Player -> Row]
    BY <1>3, <1>5 DEF Moved, Row
  <2> DEFINE g == Moved(i, p, {c})
  <2>4. g \in [Player -> Row] /\ \A r \in Player, e \in Cell : inv'[r][e] = g[r][e]
    BY <2>1, <2>2, <2>3
  <2> HIDE DEF g
  <2>5. inv' = g
    BY <2>3, <2>4, SameCells
  <2> QED BY <2>5 DEF g
<1>8. inv[p][c] = NoItem
  <2>1. Filled(p) \subseteq taken
    BY <1>2, <1>5, GridTypes DEF Filled
  <2>2. c \notin taken
    BY <1>4, InSpan DEF Fits
  <2> QED BY <2>1, <2>2, <1>4 DEF Filled
<1>9. p \notin torn => /\ Covered(Without(p, i)) \subseteq taken
                       /\ Fits(c, i, taken)
                       /\ c \in Window => Size[i] = 1
  <2>1. p \notin torn => taken = Covered(inv[p])
    BY <1>2 DEF Grids
  <2>2. Covered(Without(p, i)) \subseteq Covered(inv[p])
    BY DEF Covered, Without
  <2> QED BY <2>1, <2>2, <1>4, ConstantTypes
<1>10. /\ inv' \in [Player -> Row]
       /\ InventoryBooks'
       /\ \A r \in Player : Held(r)' = (Held(r) \ {i}) \cup (IF r = p THEN {i} ELSE {})
       /\ \A r \in Player, d \in Cell :
             inv[r][d] \in Item \ {i} => inv'[r][d] = inv[r][d]
  BY <1>1, <1>4, <1>7, <1>8, <1>9, ItemMoves DEF IInv
<1>11. /\ Paired' /\ InPlace'
       /\ \A r \in Player : Offered(r)' = Offered(r)
  <2>1. /\ \A r \in Player : /\ Held(r) \ {i} \subseteq Held(r)'
                               /\ Held(r)' \subseteq Held(r) \cup {i}
        /\ \A r \in Player : i \in Offered(r) => i \in reborn'
        /\ reborn \subseteq reborn'
    BY <1>1, <1>10
  <2> QED BY <2>1, <1>1, <1>10, OtherItemsStay
<1>12. TypeOK'
  BY <1>1, <1>10 DEF IInv, TypeOK, Row
<1>13. OutOfReach' /\ Apart'
  BY <1>1, <1>11 DEF IInv, ExchangeBooks, OutOfReach, Apart
<1>14. DoneBooks'
  BY <1>1 DEF IInv, DoneBooks, Quiet
<1> QED BY <1>10, <1>11, <1>12, <1>13, <1>14 DEF IInv, ExchangeBooks

LEMMA EarnOrSpendKeeps ==
    ASSUME IInv, NEW p \in Player, NEW amount \in Amount, EarnOrSpend(p, amount)
    PROVE  IInv'
<1>1. /\ Quiet /\ events < MaxEvent /\ events' = events + 1
      /\ purse[p] + amount >= 0
      /\ purse' = [purse EXCEPT ![p] = Changed(@, amount)]
      /\ UNCHANGED <<inv, buried, torn, exch, exchanging, givers, left, before, stuck, reborn>>
  BY DEF EarnOrSpend, Event, cells, done
<1>2. purse \in [Player -> 0 .. 2 * GoldMax] /\ amount \in Int
  BY ConstantTypes DEF IInv, TypeOK
<1>3. Changed(purse[p], amount) \in 0 .. 2 * GoldMax
  BY <1>1, <1>2, ChangedBounds
<1>4. TypeOK'
  <2>1. purse' \in [Player -> 0 .. 2 * GoldMax]
    BY <1>1, <1>2, <1>3
  <2>2. events' \in 0 .. MaxEvent
    BY <1>1, ConstantTypes DEF IInv, TypeOK
  <2> QED BY <2>1, <2>2, <1>1 DEF IInv, TypeOK
<1>5. InventoryBooks' /\ ExchangeBooks' /\ Apart'
  BY <1>1, SameOffers
<1>6. DoneBooks'
  BY <1>1 DEF IInv, DoneBooks, Quiet
<1> QED BY <1>4, <1>5, <1>6 DEF IInv

-----------------------------------------------------------------------------
(***************************************************************************)
(* Folds.  CheckSpace is the end of a run, a sequence of covered cells each *)
(* of which is made of the one before it and an item.                       *)
(***************************************************************************)

LEMMA LeastExists ==
    ASSUME NEW S \in SUBSET Nat, S # {}
    PROVE  \E x \in S : \A y \in S : x <= y
<1> DEFINE R == {ss \in Nat \X Nat : ss[1] < ss[2]}
<1>1. IsWellFoundedOn(R, Nat)
  BY NatLessThanWellFounded DEF OpToRel
<1>2. PICK x \in S : \A y \in S : ~ (<<y, x>> \in R)
  <2> HIDE DEF R
  <2> QED BY <1>1, WFMin
<1>3. ASSUME NEW y \in S
      PROVE  x <= y
  <2>1. x \in Nat /\ y \in Nat /\ (y < x => <<y, x>> \in R)
    OBVIOUS
  <2> HIDE DEF R
  <2>2. ~(y < x)
    BY <1>2, <2>1
  <2> QED BY <2>1, <2>2
<1> QED BY <1>3

\* Induction, for a set of numbers.
LEMMA Inductive ==
    ASSUME NEW S, 0 \in S, \A k \in Nat : k \in S => k + 1 \in S
    PROVE  \A n \in Nat : n \in S
<1> DEFINE T == {n \in Nat : n \notin S}
<1> SUFFICES ASSUME T # {} PROVE FALSE
  OBVIOUS
<1>1. PICK x \in T : \A y \in T : x <= y
  <2>1. T \in SUBSET Nat
    OBVIOUS
  <2> HIDE DEF T
  <2> QED BY <2>1, LeastExists
<1>2. x # 0 /\ x \in Nat
  OBVIOUS
<1>3. x - 1 \in Nat /\ ~(x <= x - 1)
  BY <1>2
<1>4. x - 1 \notin T
  BY <1>1, <1>3
<1>5. x - 1 \in S
  BY <1>3, <1>4
<1>6. x - 1 + 1 = x
  BY <1>2
<1>7. x \in S
  BY <1>3, <1>5, <1>6
<1> QED BY <1>7

\* How FoldLeft does it, subset by subset.
PutLast(q, base, g, S) ==
    IF S = {} THEN base ELSE PutInto(g[S \ {Max(S)}], q[Max(S)])

LEMMA MaxAt ==
    ASSUME NEW k \in Nat, NEW S \in SUBSET (1 .. k), k \in S
    PROVE  Max(S) = k
<1>1. \A y \in S : k >= y /\ (y >= k => y = k)
  OBVIOUS
<1> QED BY <1>1 DEF Max

LEMMA PutsExist ==
    ASSUME NEW q, NEW base, NEW n \in Nat
    PROVE  \E g : g = [S \in SUBSET (1 .. n) |-> PutLast(q, base, g, S)]
<1> DEFINE P == {k \in Nat : \E g : g = [S \in SUBSET (1 .. k) |-> PutLast(q, base, g, S)]}
<1>1. 0 \in P
  <2> DEFINE g == [S \in SUBSET (1 .. 0) |-> base]
  <2>1. \A S \in SUBSET (1 .. 0) : S = {}
    OBVIOUS
  <2>2. g = [S \in SUBSET (1 .. 0) |-> PutLast(q, base, g, S)]
    BY <2>1 DEF PutLast
  <2> QED BY <2>2
<1>2. ASSUME NEW k \in Nat, k \in P
      PROVE  k + 1 \in P
  <2>1. PICK g : g = [S \in SUBSET (1 .. k) |-> PutLast(q, base, g, S)]
    BY <1>2
  <2> DEFINE f == [S \in SUBSET (1 .. k + 1) |->
                      IF k + 1 \in S THEN PutInto(g[S \ {k + 1}], q[k + 1]) ELSE g[S]]
  <2>2. ASSUME NEW S \in SUBSET (1 .. k + 1)
        PROVE  f[S] = PutLast(q, base, f, S)
    <3>1. CASE k + 1 \in S
      <4>1. Max(S) = k + 1
        BY <3>1, MaxAt
      <4>2. S \ {k + 1} \in SUBSET (1 .. k + 1)
        OBVIOUS
      <4>3. f[S \ {k + 1}] = g[S \ {k + 1}]
        BY <4>2
      <4>4. f[S] = PutInto(g[S \ {k + 1}], q[k + 1])
        BY <3>1
      <4> HIDE DEF f
      <4> QED BY <3>1, <4>1, <4>3, <4>4 DEF PutLast
    <3>2. CASE k + 1 \notin S
      <4>1. S \in SUBSET (1 .. k)
        BY <3>2
      <4>2. g[S] = PutLast(q, base, g, S)
        BY <2>1, <4>1
      <4>3. S \ {Max(S)} \in SUBSET (1 .. k + 1) /\ k + 1 \notin S \ {Max(S)}
        BY <3>2
      <4>4. f[S \ {Max(S)}] = g[S \ {Max(S)}]
        BY <4>3
      <4>5. f[S] = g[S]
        BY <3>2
      <4> HIDE DEF f
      <4> QED BY <4>2, <4>4, <4>5 DEF PutLast
    <3> QED BY <3>1, <3>2
  <2>3. f = [S \in SUBSET (1 .. k + 1) |-> PutLast(q, base, f, S)]
    <3>1. f = [S \in SUBSET (1 .. k + 1) |-> f[S]]
      OBVIOUS
    <3> HIDE DEF f
    <3> QED BY <2>2, <3>1
  <2> HIDE DEF f
  <2>4. k + 1 \in Nat
    OBVIOUS
  <2> QED BY <2>3, <2>4
<1> HIDE DEF P
<1>3. n \in P
  BY <1>1, <1>2, Inductive
<1> QED BY <1>3 DEF P

\* What CheckSpace has covered in the end.
Packed(base, q) == FoldLeft(PutInto, base, q)

LEMMA PutRun ==
    ASSUME NEW q \in Seq(Item), NEW base
    PROVE  \E h : /\ h[0] = base /\ h[Len(q)] = Packed(base, q)
                  /\ \A k \in 1 .. Len(q) : h[k] = PutInto(h[k - 1], q[k])
<1> DEFINE n == Len(q)
           g == CHOOSE g : g = [S \in SUBSET (1 .. n) |-> PutLast(q, base, g, S)]
           h == [j \in 0 .. n |-> g[1 .. j]]
<1>1. n \in Nat /\ DOMAIN q = 1 .. n
  OBVIOUS
<1>2. g = [S \in SUBSET (1 .. n) |-> PutLast(q, base, g, S)]
  BY <1>1, PutsExist
<1>3. Packed(base, q) = g[1 .. n]
  <2>1. Packed(base, q)
          = (CHOOSE f : f = [S \in SUBSET (1 .. Len(q)) |->
                IF S = {} THEN base ELSE PutInto(f[S \ {Max(S)}], q[Max(S)])])[1 .. Len(q)]
    BY <1>1, Zenon DEF Packed, FoldLeft, MapThenFoldSet
  <2> QED BY <2>1, Zenon DEF PutLast
<1> HIDE DEF g
<1>4. h[0] = base
  <2>1. 1 .. 0 = {} /\ 0 \in 0 .. n
    BY <1>1
  <2>2. g[{}] = base
    BY <1>2 DEF PutLast
  <2> QED BY <2>1, <2>2
<1>5. h[n] = g[1 .. n]
  BY <1>1
<1>6. ASSUME NEW j \in 1 .. n
      PROVE  h[j] = PutInto(h[j - 1], q[j])
  <2>1. j \in Nat /\ j \in 0 .. n /\ j - 1 \in 0 .. n
    BY <1>1
  <2>2. 1 .. j \in SUBSET (1 .. n) /\ 1 .. j # {} /\ (1 .. j) \ {j} = 1 .. j - 1
    <3>1. j \in 1 .. j /\ 1 .. j \in SUBSET (1 .. n)
      BY <1>1
    <3>2. \A x : x \in (1 .. j) \ {j} <=> x \in 1 .. j - 1
      BY <2>1
    <3> QED BY <3>1, <3>2
  <2>3. Max(1 .. j) = j
    BY <2>1, MaxAt
  <2>4. g[1 .. j] = PutInto(g[1 .. j - 1], q[j])
    BY <1>2, <2>2, <2>3 DEF PutLast
  <2> QED BY <2>1, <2>4
<1> HIDE DEF h
<1> QED BY <1>3, <1>4, <1>5, <1>6

-----------------------------------------------------------------------------
(***************************************************************************)
(* Rooms for items of one size: cells of the inventory, none of which is in *)
(* the way of another.  Taken one by one, each the first there is, they are *)
(* as many as there can be.                                                 *)
(***************************************************************************)

Meet(a, b, i) == Span(a, i) \cap Span(b, i) # {}
Cover(A, i) == UNION {Span(a, i) : a \in A}

Rooms(A, i, covered) ==
    /\ A \subseteq Inventory
    /\ \A a \in A : Fits(a, i, covered)
    /\ \A a, b \in A : a # b => ~Meet(a, b, i)

\* There is no room before one of A that would not be in the way of an earlier one.
Earliest(A, i, covered) ==
    \A a \in A, d \in Inventory :
        d < a /\ Fits(d, i, covered) => \E b \in A : b <= d /\ Meet(b, d, i)

LEMMA InventoryTypes ==
    /\ Inventory \subseteq Nat /\ IsFiniteSet(Inventory)
    /\ Window \subseteq Nat /\ IsFiniteSet(Window) /\ Inventory \cap Window = {}
<1>1. Num \in Nat /\ Slots \in Nat
  BY ConstantTypes DEF Num
<1>2. Num - 1 \in Int /\ Num + Slots - 1 \in Int
  BY <1>1
<1>3. IsFiniteSet(Inventory) /\ IsFiniteSet(Window)
  BY <1>1, <1>2, FS_Interval DEF Inventory, Window
<1> QED BY <1>1, <1>3 DEF Inventory, Window

LEMMA StartsIn ==
    ASSUME NEW a \in Int, NEW b \in Int, NEW i \in Item, b <= a, Meet(a, b, i)
    PROVE  a \in Span(b, i)
<1>1. a \in Span(b, i) \/ b \in Span(a, i)
  BY Overlap DEF Meet
<1>2. ASSUME b \in Span(a, i)
      PROVE  a = b
  <2>1. PICK k \in 0 .. Size[i] - 1 : b = a + Width * k
    BY <1>2, Spans
  <2>2. Width * k \in Int /\ Width * k >= 0
    BY ConstantTypes
  <2> DEFINE n == Width * k
  <2>3. b = a + n /\ n \in Int /\ n >= 0
    BY <2>1, <2>2
  <2> HIDE DEF n
  <2> QED BY <2>3
<1>3. b \in Span(b, i)
  <2>1. 0 \in 0 .. Size[i] - 1 /\ b = b + Width * 0
    BY ConstantTypes
  <2> QED BY <2>1, Spans
<1> QED BY <1>1, <1>2, <1>3

\* Two that are in the way of one before them are in each other's way.
LEMMA MeetTogether ==
    ASSUME NEW a \in Int, NEW b \in Int, NEW c \in Int, NEW i \in Item,
           b <= a, b <= c, Meet(a, b, i), Meet(c, b, i)
    PROVE  Meet(a, c, i)
<1>1. a \in Span(b, i) /\ c \in Span(b, i)
  BY StartsIn
<1>2. PICK k \in 0 .. Size[i] - 1 : a = b + Width * k
  BY <1>1, Spans
<1>3. PICK m \in 0 .. Size[i] - 1 : c = b + Width * m
  BY <1>1, Spans
<1>4. ASSUME NEW x \in Int, NEW y \in Int,
             NEW n \in 0 .. Size[i] - 1, NEW l \in 0 .. Size[i] - 1,
             x = b + Width * n, y = b + Width * l, n <= l
      PROVE  Span(x, i) \cap Span(y, i) # {}
  <2>1. Width \in Nat /\ Size[i] \in Nat
    BY ConstantTypes
  <2>2. l - n \in 0 .. Size[i] - 1 /\ 0 \in 0 .. Size[i] - 1
    BY <2>1, <1>4
  <2>3. Width * (l - n) = Width * l - Width * n /\ Width * l \in Int /\ Width * n \in Int
    BY <2>1
  <2>4. y = x + Width * (l - n) /\ y = y + Width * 0
    BY <1>4, <2>1, <2>3
  <2>5. y \in Span(x, i) /\ y \in Span(y, i)
    BY <2>2, <2>4, Spans
  <2> QED BY <2>5
<1>5. CASE k <= m
  BY <1>2, <1>3, <1>4, <1>5 DEF Meet
<1>6. CASE m <= k
  <2>1. Span(c, i) \cap Span(a, i) # {}
    BY <1>2, <1>3, <1>4, <1>6
  <2> QED BY <2>1 DEF Meet
<1>7. k \in Int /\ m \in Int
  OBVIOUS
<1> QED BY <1>5, <1>6, <1>7

LEMMA MeetEachOther == \A a, b, i : Meet(a, b, i) => Meet(b, a, i)
  BY DEF Meet

LEMMA RoomsAreFinite ==
    ASSUME NEW A, NEW i, NEW covered, Rooms(A, i, covered)
    PROVE  A \subseteq Int /\ IsFiniteSet(A) /\ Cardinality(A) \in Nat
<1>1. A \in SUBSET Inventory
  BY DEF Rooms
<1>2. IsFiniteSet(A)
  BY <1>1, InventoryTypes, FS_Subset
<1> QED BY <1>1, <1>2, InventoryTypes, FS_CardinalityType

\* If each room of A has one of B before it in its way, B has as many.
LEMMA AsManyRooms ==
    ASSUME NEW i \in Item, NEW A, NEW B, NEW cover, NEW covered,
           Rooms(A, i, cover), Rooms(B, i, covered),
           \A a \in A : \E b \in B : b <= a /\ Meet(b, a, i)
    PROVE  Cardinality(A) <= Cardinality(B)
<1>1. /\ A \subseteq Int /\ IsFiniteSet(A) /\ Cardinality(A) \in Nat
      /\ B \subseteq Int /\ IsFiniteSet(B) /\ Cardinality(B) \in Nat
  BY RoomsAreFinite
<1> SUFFICES ASSUME Cardinality(B) < Cardinality(A)
             PROVE  FALSE
  BY <1>1
<1> DEFINE f == [a \in A |-> CHOOSE b \in B : b <= a /\ Meet(b, a, i)]
<1>2. \A a \in A : f[a] \in B /\ f[a] <= a /\ Meet(f[a], a, i)
  OBVIOUS
<1>3. f \in [A -> B]
  BY <1>2
<1> HIDE DEF f
<1>4. PICK x \in A, y \in A : x # y /\ f[x] = f[y]
  BY <1>1, <1>3, FS_PigeonHole
<1>5. Meet(x, y, i)
  <2>1. /\ f[x] \in Int /\ x \in Int /\ y \in Int /\ f[x] <= x /\ f[x] <= y
        /\ Meet(x, f[x], i) /\ Meet(y, f[x], i)
    BY <1>1, <1>2, <1>4, MeetEachOther
  <2> QED BY <2>1, MeetTogether
<1> QED BY <1>4, <1>5 DEF Rooms

LEMMA FitsBeside ==
    ASSUME NEW d, NEW i, NEW covered, NEW A
    PROVE  Fits(d, i, covered \cup Cover(A, i))
             <=> Fits(d, i, covered) /\ \A a \in A : ~Meet(d, a, i)
  BY DEF Fits, Cover, Meet

\* Where something fits, there is a first cell where it does.
LEMMA FirstFitExists ==
    ASSUME NEW W \in SUBSET Nat, NEW i, NEW covered, NEW d \in W, Fits(d, i, covered)
    PROVE  FirstFit(W, i, covered) # {}
<1> DEFINE S == {c \in W : Fits(c, i, covered)}
<1>1. S \in SUBSET Nat /\ S # {}
  OBVIOUS
<1> HIDE DEF S
<1>2. PICK c \in S : \A e \in S : c <= e
  BY <1>1, LeastExists
<1>3. c \in FirstFit(W, i, covered)
  BY <1>2 DEF S, FirstFit
<1> QED BY <1>3

\* The first room beside some of the rooms is one of the others, or a further one.
LEMMA NextRoom ==
    ASSUME NEW i \in Item, NEW B, NEW O \in SUBSET B, NEW covered, NEW d,
           Rooms(B, i, covered), Earliest(B, i, covered),
           d \in FirstFit(Inventory, i, covered \cup Cover(O, i))
    PROVE  Rooms(B \cup {d}, i, covered) /\ Earliest(B \cup {d}, i, covered)
<1>1. /\ d \in Inventory /\ Fits(d, i, covered) /\ \A o \in O : ~Meet(d, o, i)
      /\ \A e \in Inventory :
            Fits(e, i, covered) /\ (\A o \in O : ~Meet(e, o, i)) => d <= e
  BY FitsBeside DEF FirstFit
<1>2. B \subseteq Inventory /\ Inventory \subseteq Int
  BY InventoryTypes DEF Rooms
<1>3. CASE O = B
  <2>1. Rooms(B \cup {d}, i, covered)
    BY <1>1, <1>3, MeetEachOther DEF Rooms
  <2>2. ASSUME NEW e \in Inventory, e < d, Fits(e, i, covered)
        PROVE  \E b \in B : b <= e /\ Meet(b, e, i)
    <3>1. e \in Int /\ d \in Int
      BY <1>1, <1>2
    <3>2. PICK o \in B : Meet(e, o, i)
      BY <1>1, <1>3, <2>2, <3>1
    <3>3. CASE o <= e
      BY <3>2, <3>3, MeetEachOther
    <3>4. CASE e < o
      BY <2>2, <3>4 DEF Earliest
    <3>5. o \in Int
      BY <1>2
    <3> QED BY <3>1, <3>3, <3>4, <3>5
  <2>3. Earliest(B \cup {d}, i, covered)
    BY <2>2 DEF Earliest
  <2> QED BY <2>1, <2>3
<1>4. CASE O # B
  <2>1. PICK b \in B : b \notin O
    BY <1>4
  <2>2. ASSUME NEW c \in B, c \notin O
        PROVE  d <= c
    BY <1>1, <1>2, <2>2 DEF Rooms
  <2>3. d \in B
    <3>1. CASE d = b
      BY <3>1
    <3>2. CASE d # b
      <4>1. d \in Int /\ b \in Int /\ d <= b
        BY <1>1, <1>2, <2>1, <2>2
      <4>2. PICK c \in B : c <= d /\ Meet(c, d, i)
        BY <4>1, <3>2, <1>1 DEF Earliest
      <4>3. c \notin O
        BY <4>2, <1>1, MeetEachOther
      <4>4. d <= c /\ c \in Int
        BY <2>2, <4>3, <1>2
      <4> QED BY <4>1, <4>2, <4>4
    <3> QED BY <3>1, <3>2
  <2>4. B \cup {d} = B
    BY <2>3
  <2> QED BY <2>4
<1> QED BY <1>3, <1>4

\* If there is none beside them, no more could have been taken.
LEMMA NoRoomLeft ==
    ASSUME NEW i \in Item, NEW A, NEW B, NEW O \in SUBSET B, NEW cover, NEW covered,
           Rooms(A, i, cover), covered \subseteq cover,
           Rooms(B, i, covered), Earliest(B, i, covered),
           FirstFit(Inventory, i, covered \cup Cover(O, i)) = {}
    PROVE  Cardinality(A) <= Cardinality(B)
<1>1. ASSUME NEW a \in A
      PROVE  \E b \in B : b <= a /\ Meet(b, a, i)
  <2>1. a \in Inventory /\ Fits(a, i, covered) /\ a \in Int
    BY InventoryTypes DEF Rooms, Fits
  <2>2. ~Fits(a, i, covered \cup Cover(O, i))
    BY <2>1, InventoryTypes, FirstFitExists
  <2>3. PICK o \in O : Meet(a, o, i)
    BY <2>1, <2>2, FitsBeside
  <2>4. o \in B /\ o \in Int
    BY InventoryTypes DEF Rooms
  <2>5. CASE o <= a
    BY <2>3, <2>4, <2>5, MeetEachOther
  <2>6. CASE a < o
    BY <2>1, <2>4, <2>6 DEF Earliest
  <2> QED BY <2>1, <2>4, <2>5, <2>6
<1> QED BY <1>1, AsManyRooms

-----------------------------------------------------------------------------
(***************************************************************************)
(* How many of a sequence of items are in a set.                            *)
(***************************************************************************)

Upto(q, S, n) == {k \in 1 .. n : q[k] \in S}
Count(q, S) == Cardinality(Upto(q, S, Len(q)))
OneOf(i, S) == IF i \in S THEN 1 ELSE 0

LEMMA UptoNext ==
    ASSUME NEW q, NEW S, NEW n \in Nat
    PROVE  /\ Cardinality(Upto(q, S, n)) \in Nat
           /\ Cardinality(Upto(q, S, 0)) = 0
           /\ Cardinality(Upto(q, S, n + 1))
                = Cardinality(Upto(q, S, n)) + OneOf(q[n + 1], S)
<1>1. ASSUME NEW m \in Nat
      PROVE  IsFiniteSet(Upto(q, S, m)) /\ Cardinality(Upto(q, S, m)) \in Nat
  <2>1. IsFiniteSet(1 .. m) /\ Upto(q, S, m) \in SUBSET (1 .. m)
    BY FS_Interval DEF Upto
  <2>2. IsFiniteSet(Upto(q, S, m))
    BY <2>1, FS_Subset
  <2> QED BY <2>2, FS_CardinalityType
<1>2. Upto(q, S, 0) = {}
  BY DEF Upto
<1>3. CASE q[n + 1] \in S
  <2>1. Upto(q, S, n + 1) = Upto(q, S, n) \cup {n + 1} /\ n + 1 \notin Upto(q, S, n)
    BY <1>3 DEF Upto
  <2>2. Cardinality(Upto(q, S, n + 1)) = Cardinality(Upto(q, S, n)) + 1
    BY <2>1, <1>1, FS_AddElement
  <2> QED BY <1>1, <1>2, <1>3, <2>2, FS_EmptySet DEF OneOf
<1>4. CASE q[n + 1] \notin S
  <2>1. Upto(q, S, n + 1) = Upto(q, S, n)
    BY <1>4 DEF Upto
  <2> QED BY <1>1, <1>2, <1>4, <2>1, FS_EmptySet DEF OneOf
<1> QED BY <1>3, <1>4

LEMMA CountType ==
    ASSUME NEW q \in Seq(Item), NEW S
    PROVE  Count(q, S) \in Nat
  BY UptoNext DEF Count

LEMMA CountEmpty == \A S : Count(<<>>, S) = 0
<1> TAKE S
<1>1. Len(<<>>) = 0 /\ 0 \in Nat
  OBVIOUS
<1> QED BY <1>1, UptoNext DEF Count

LEMMA CountAppend ==
    ASSUME NEW q \in Seq(Item), NEW i \in Item, NEW S
    PROVE  Count(Append(q, i), S) = Count(q, S) + OneOf(i, S)
<1> DEFINE t == Append(q, i)
           n == Len(q)
<1>1. n \in Nat /\ Len(t) = n + 1 /\ t[n + 1] = i /\ \A k \in 1 .. n : t[k] = q[k]
  OBVIOUS
<1> HIDE DEF t
<1>2. Upto(t, S, n) = Upto(q, S, n)
  BY <1>1 DEF Upto
<1>3. Cardinality(Upto(t, S, n + 1)) = Cardinality(Upto(t, S, n)) + OneOf(t[n + 1], S)
  BY <1>1, UptoNext
<1>4. Count(t, S) = Count(q, S) + OneOf(i, S)
  BY <1>1, <1>2, <1>3 DEF Count
<1> QED BY <1>4 DEF t

LEMMA CountPrepend ==
    ASSUME NEW q \in Seq(Item), NEW i \in Item, NEW S
    PROVE  Count(<<i>> \o q, S) = Count(q, S) + OneOf(i, S)
<1> DEFINE t == <<i>> \o q
           n == Len(q)
           P == {k \in Nat : k <= n => Cardinality(Upto(t, S, k + 1))
                                         = Cardinality(Upto(q, S, k)) + OneOf(i, S)}
<1>1. n \in Nat /\ Len(t) = n + 1 /\ t[1] = i /\ \A k \in 1 .. n : t[k + 1] = q[k]
  OBVIOUS
<1> HIDE DEF t
<1>2. 0 \in P
  <2>1. Cardinality(Upto(t, S, 0 + 1)) = Cardinality(Upto(t, S, 0)) + OneOf(t[0 + 1], S)
    BY UptoNext
  <2>2. Cardinality(Upto(t, S, 0)) = 0 /\ Cardinality(Upto(q, S, 0)) = 0
    BY UptoNext
  <2> QED BY <1>1, <2>1, <2>2
<1>3. ASSUME NEW k \in Nat, k \in P
      PROVE  k + 1 \in P
  <2> SUFFICES ASSUME k + 1 <= n
               PROVE  Cardinality(Upto(t, S, (k + 1) + 1))
                        = Cardinality(Upto(q, S, k + 1)) + OneOf(i, S)
    OBVIOUS
  <2>1. k + 1 \in 1 .. n /\ k <= n /\ k + 1 \in Nat
    BY <1>1
  <2>2. Cardinality(Upto(t, S, k + 1)) = Cardinality(Upto(q, S, k)) + OneOf(i, S)
    BY <1>3, <2>1
  <2>3. Cardinality(Upto(t, S, (k + 1) + 1))
          = Cardinality(Upto(t, S, k + 1)) + OneOf(t[(k + 1) + 1], S)
    BY <2>1, UptoNext
  <2>4. Cardinality(Upto(q, S, k + 1)) = Cardinality(Upto(q, S, k)) + OneOf(q[k + 1], S)
    BY UptoNext
  <2>5. t[(k + 1) + 1] = q[k + 1]
    BY <1>1, <2>1
  <2>6. OneOf(i, S) \in Nat /\ OneOf(q[k + 1], S) \in Nat /\ Cardinality(Upto(q, S, k)) \in Nat
    BY UptoNext DEF OneOf
  <2> HIDE DEF P
  <2> QED BY <2>2, <2>3, <2>4, <2>5, <2>6
<1> HIDE DEF P
<1>4. n \in P
  BY <1>1, <1>2, <1>3, Inductive
<1>5. Cardinality(Upto(t, S, n + 1)) = Cardinality(Upto(q, S, n)) + OneOf(i, S)
  BY <1>1, <1>4 DEF P
<1>6. Count(t, S) = Count(q, S) + OneOf(i, S)
  BY <1>1, <1>5 DEF Count
<1> QED BY <1>6 DEF t

LEMMA CountTail ==
    ASSUME NEW q \in Seq(Item), q # <<>>, NEW S
    PROVE  Count(q, S) = Count(Tail(q), S) + OneOf(Head(q), S)
<1>1. Tail(q) \in Seq(Item) /\ Head(q) \in Item /\ q = <<Head(q)>> \o Tail(q)
  OBVIOUS
<1>2. Count(<<Head(q)>> \o Tail(q), S) = Count(Tail(q), S) + OneOf(Head(q), S)
  BY <1>1, CountPrepend
<1> QED BY <1>1, <1>2

\* None of a kind are counted where there are none.
LEMMA CountNone ==
    ASSUME NEW q \in Seq(Item), NEW S, \A k \in 1 .. Len(q) : q[k] \notin S
    PROVE  Count(q, S) = 0
<1>1. Upto(q, S, Len(q)) = {}
  BY DEF Upto
<1> QED BY <1>1, FS_EmptySet DEF Count

-----------------------------------------------------------------------------
(***************************************************************************)
(* What CheckSpace has found out.                                           *)
(***************************************************************************)

Others == Item \ Special

LEMMA SameShape ==
    ASSUME NEW i \in Others, NEW j \in Others, Size[i] = Size[j]
    PROVE  /\ \A c : Span(c, i) = Span(c, j)
           /\ \A c, covered : Fits(c, i, covered) <=> Fits(c, j, covered)
           /\ \A W, covered : FirstFit(W, i, covered) = FirstFit(W, j, covered)
<1>1. \A c : Span(c, i) = Span(c, j)
  BY DEF Span
<1>2. \A c, covered : Fits(c, i, covered) <=> Fits(c, j, covered)
  BY <1>1 DEF Fits, OnPage
<1> QED BY <1>1, <1>2 DEF FirstFit

\* Cells of the two kinds: an item of the inventory stays in it, another takes one cell.
LEMMA InventorySpan ==
    ASSUME NEW c \in Inventory, NEW i \in Item, NEW covered, Fits(c, i, covered)
    PROVE  c \in Span(c, i) /\ Span(c, i) \subseteq Inventory
<1>1. c \in Cell /\ c \notin Window
  BY CellTypes, InventoryTypes
<1>2. Span(c, i) \subseteq Page(c)
  BY <1>1 DEF Fits, OnPage
<1> QED BY <1>1, <1>2, InSpan DEF Page

LEMMA WindowSpan ==
    ASSUME NEW c \in Window, NEW i \in Special
    PROVE  /\ Span(c, i) = {c}
           /\ \A covered : Fits(c, i, covered) <=> c \notin covered
<1>1. i \in Item /\ Size[i] = 1 /\ c \in Nat
  BY ExchangeAssumption, InventoryTypes
<1>2. Span(c, i) = {c}
  <2>1. 0 .. Size[i] - 1 = {0} /\ c + Width * 0 = c
    BY <1>1, ConstantTypes
  <2> QED BY <2>1 DEF Span
<1> QED BY <1>2 DEF Fits, OnPage

\* One item of a run that CheckSpace found a cell for.
LEMMA PutIntoRoom ==
    ASSUME NEW covered, NEW i, PutInto(covered, i) # NoRoom
    PROVE  /\ covered # NoRoom
           /\ \E c \in FirstFit(TargetWindow(i), i, covered) :
                 covered \cup Span(c, i) \subseteq PutInto(covered, i)
<1> DEFINE cell == FirstFit(TargetWindow(i), i, covered)
<1>1. covered # NoRoom /\ cell # {}
      /\ PutInto(covered, i) = covered \cup UNION {Span(c, i) : c \in cell}
  BY DEF PutInto
<1>2. PICK c \in cell : TRUE
  BY <1>1
<1>3. covered \cup Span(c, i) \subseteq PutInto(covered, i)
  BY <1>1, <1>2
<1> QED BY <1>1, <1>2, <1>3

LEMMA RunHasRoom ==
    ASSUME NEW q \in Seq(Item), NEW h, h[Len(q)] # NoRoom,
           \A k \in 1 .. Len(q) : h[k] = PutInto(h[k - 1], q[k])
    PROVE  /\ \A k \in 0 .. Len(q) : h[k] # NoRoom /\ h[0] \subseteq h[k]
           /\ \A k \in 1 .. Len(q) :
                 \E c \in FirstFit(TargetWindow(q[k]), q[k], h[k - 1]) :
                    h[k - 1] \cup Span(c, q[k]) \subseteq h[k]
<1> DEFINE n == Len(q)
           P == {j \in Nat : j <= n => h[n - j] # NoRoom}
           Q == {k \in Nat : k <= n => h[0] \subseteq h[k]}
<1>1. n \in Nat
  OBVIOUS
<1>2. \A j \in Nat : j \in P
  <2>1. 0 \in P
    BY <1>1
  <2>2. ASSUME NEW j \in Nat, j \in P
        PROVE  j + 1 \in P
    <3> SUFFICES ASSUME j + 1 <= n PROVE h[n - (j + 1)] # NoRoom
      OBVIOUS
    <3>1. j <= n /\ n - j \in 1 .. n /\ (n - j) - 1 = n - (j + 1)
      BY <1>1
    <3>2. h[n - j] # NoRoom
      BY <2>2, <3>1
    <3>3. h[n - j] = PutInto(h[n - (j + 1)], q[n - j])
      BY <3>1
    <3> QED BY <3>2, <3>3, PutIntoRoom
  <2> HIDE DEF P
  <2> QED BY <2>1, <2>2, Inductive
<1>3. \A k \in 0 .. n : h[k] # NoRoom
  <2> TAKE k \in 0 .. n
  <2>1. n - k \in Nat /\ n - k <= n /\ n - (n - k) = k
    BY <1>1
  <2> QED BY <1>2, <2>1
<1>4. ASSUME NEW k \in 1 .. n
      PROVE  \E c \in FirstFit(TargetWindow(q[k]), q[k], h[k - 1]) :
                h[k - 1] \cup Span(c, q[k]) \subseteq h[k]
  <2>1. k \in 0 .. n /\ h[k] = PutInto(h[k - 1], q[k])
    BY <1>1
  <2> QED BY <1>3, <2>1, PutIntoRoom
<1>5. \A k \in Nat : k \in Q
  <2>1. 0 \in Q
    OBVIOUS
  <2>2. ASSUME NEW k \in Nat, k \in Q
        PROVE  k + 1 \in Q
    <3> SUFFICES ASSUME k + 1 <= n PROVE h[0] \subseteq h[k + 1]
      OBVIOUS
    <3>1. k <= n /\ k + 1 \in 1 .. n /\ (k + 1) - 1 = k
      BY <1>1
    <3>2. h[k] \subseteq h[k + 1]
      BY <3>1, <1>4
    <3>3. h[0] \subseteq h[k]
      BY <2>2, <3>1
    <3> QED BY <3>2, <3>3
  <2> HIDE DEF Q
  <2> QED BY <2>1, <2>2, Inductive
<1>6. \A k \in 0 .. n : h[0] \subseteq h[k]
  BY <1>1, <1>5
<1> QED BY <1>3, <1>4, <1>6

LEMMA WindowChecked ==
    ASSUME NEW q \in Seq(Item), NEW covered, Packed(covered, q) # NoRoom
    PROVE  Count(q, Special) <= Cardinality(Window \ covered)
<1> DEFINE n == Len(q)
<1>1. PICK h : /\ h[0] = covered /\ h[n] # NoRoom
               /\ \A k \in 1 .. n : h[k] = PutInto(h[k - 1], q[k])
  BY PutRun
<1>2. /\ \A k \in 0 .. n : covered \subseteq h[k]
      /\ \A k \in 1 .. n : \E c \in FirstFit(TargetWindow(q[k]), q[k], h[k - 1]) :
            h[k - 1] \cup Span(c, q[k]) \subseteq h[k]
  BY <1>1, RunHasRoom
<1>3. n \in Nat
  OBVIOUS
<1>4. ASSUME NEW W \in SUBSET (Window \ covered)
      PROVE  IsFiniteSet(W) /\ Cardinality(W) <= Cardinality(Window \ covered)
  BY InventoryTypes, FS_Subset
<1> DEFINE P == {k \in Nat : k <= n => \E W \in SUBSET (Window \ covered) :
                    W \subseteq h[k] /\ Cardinality(W) = Cardinality(Upto(q, Special, k))}
<1>5. 0 \in P
  <2>1. Cardinality({}) = Cardinality(Upto(q, Special, 0))
    BY UptoNext, FS_EmptySet
  <2> QED BY <2>1
<1>6. ASSUME NEW k \in Nat, k \in P
      PROVE  k + 1 \in P
  <2> SUFFICES ASSUME k + 1 <= n
               PROVE  \E W \in SUBSET (Window \ covered) :
                         /\ W \subseteq h[k + 1]
                         /\ Cardinality(W) = Cardinality(Upto(q, Special, k + 1))
    OBVIOUS
  <2>1. k <= n /\ k + 1 \in 1 .. n /\ (k + 1) - 1 = k /\ k \in 0 .. n
    BY <1>3
  <2>2. PICK W \in SUBSET (Window \ covered) :
          W \subseteq h[k] /\ Cardinality(W) = Cardinality(Upto(q, Special, k))
    BY <1>6, <2>1
  <2> HIDE DEF P
  <2>3. PICK i : i = q[k + 1]
    OBVIOUS
  <2>4. PICK c \in FirstFit(TargetWindow(i), i, h[k]) : h[k] \cup Span(c, i) \subseteq h[k + 1]
    BY <1>2, <2>1, <2>3
  <2>5. Cardinality(Upto(q, Special, k + 1))
          = Cardinality(Upto(q, Special, k)) + OneOf(i, Special)
    BY <2>3, UptoNext
  <2>6. CASE i \in Special
    <3>1. c \in Window /\ Fits(c, i, h[k])
      BY <2>4, <2>6 DEF FirstFit, TargetWindow
    <3>2. c \notin h[k] /\ Span(c, i) = {c}
      BY <3>1, <2>6, WindowSpan
    <3>3. c \notin covered /\ c \notin W
      BY <3>2, <1>2, <2>1, <2>2
    <3>4. W \cup {c} \in SUBSET (Window \ covered) /\ W \cup {c} \subseteq h[k + 1]
      BY <3>1, <3>2, <3>3, <2>2, <2>4
    <3>5. Cardinality(W \cup {c}) = Cardinality(W) + 1
      BY <1>4, <3>3, FS_AddElement
    <3> QED BY <3>4, <3>5, <2>2, <2>5, <2>6 DEF OneOf
  <2>7. CASE i \notin Special
    <3>1. W \subseteq h[k + 1]
      BY <2>2, <2>4
    <3>2. Cardinality(Upto(q, Special, k)) \in Nat
      BY UptoNext
    <3> QED BY <3>1, <3>2, <2>2, <2>5, <2>7 DEF OneOf
  <2> QED BY <2>6, <2>7
<1> HIDE DEF P
<1>7. n \in P
  BY <1>3, <1>5, <1>6, Inductive
<1>8. PICK W \in SUBSET (Window \ covered) : Cardinality(W) = Cardinality(Upto(q, Special, n))
  BY <1>3, <1>7 DEF P
<1> QED BY <1>4, <1>8 DEF Count

LEMMA InventoryChecked ==
    ASSUME NEW q \in Seq(Item), NEW covered, Packed(covered, q) # NoRoom,
           NEW i \in Others, \A k \in 1 .. Len(q) : q[k] \in Others => Size[q[k]] = Size[i]
    PROVE  \E A : Rooms(A, i, covered) /\ Cardinality(A) = Count(q, Others)
<1> DEFINE n == Len(q)
<1>1. PICK h : /\ h[0] = covered /\ h[n] # NoRoom
               /\ \A k \in 1 .. n : h[k] = PutInto(h[k - 1], q[k])
  BY PutRun
<1>2. /\ \A k \in 0 .. n : covered \subseteq h[k]
      /\ \A k \in 1 .. n : \E c \in FirstFit(TargetWindow(q[k]), q[k], h[k - 1]) :
            h[k - 1] \cup Span(c, q[k]) \subseteq h[k]
  BY <1>1, RunHasRoom
<1>3. n \in Nat
  OBVIOUS
<1> DEFINE P == {k \in Nat : k <= n => \E A :
                    /\ Rooms(A, i, covered) /\ Cover(A, i) \subseteq h[k]
                    /\ Cardinality(A) = Cardinality(Upto(q, Others, k))}
<1>4. 0 \in P
  <2>1. Cardinality({}) = Cardinality(Upto(q, Others, 0))
    BY UptoNext, FS_EmptySet
  <2>2. Rooms({}, i, covered) /\ Cover({}, i) = {}
    BY DEF Rooms, Cover
  <2> QED BY <2>1, <2>2
<1>5. ASSUME NEW k \in Nat, k \in P
      PROVE  k + 1 \in P
  <2> SUFFICES ASSUME k + 1 <= n
               PROVE  \E A : /\ Rooms(A, i, covered) /\ Cover(A, i) \subseteq h[k + 1]
                             /\ Cardinality(A) = Cardinality(Upto(q, Others, k + 1))
    OBVIOUS
  <2>1. k <= n /\ k + 1 \in 1 .. n /\ (k + 1) - 1 = k /\ k \in 0 .. n
    BY <1>3
  <2>2. PICK A : /\ Rooms(A, i, covered) /\ Cover(A, i) \subseteq h[k]
                 /\ Cardinality(A) = Cardinality(Upto(q, Others, k))
    BY <1>5, <2>1
  <2> HIDE DEF P
  <2>3. PICK j \in Item : j = q[k + 1]
    BY <2>1
  <2>4. PICK c \in FirstFit(TargetWindow(j), j, h[k]) : h[k] \cup Span(c, j) \subseteq h[k + 1]
    BY <1>2, <2>1, <2>3
  <2>5. Cardinality(Upto(q, Others, k + 1))
          = Cardinality(Upto(q, Others, k)) + OneOf(j, Others)
    BY <2>3, UptoNext
  <2>6. CASE j \in Others
    <3>1. Size[j] = Size[i]
      BY <2>1, <2>3, <2>6
    <3>2. c \in Inventory /\ Fits(c, i, h[k]) /\ Span(c, j) = Span(c, i)
      BY <3>1, <2>4, <2>6, SameShape DEF FirstFit, TargetWindow, Others
    <3>3. Fits(c, i, covered)
      BY <3>2, <1>2, <2>1 DEF Fits
    <3>4. \A a \in A : ~Meet(c, a, i)
      BY <3>2, <2>2 DEF Fits, Meet, Cover
    <3>5. c \in Span(c, i)
      BY <3>2, InventorySpan DEF Others
    <3>6. c \notin A
      BY <3>4, <3>5 DEF Meet
    <3>7. Rooms(A \cup {c}, i, covered)
      BY <3>2, <3>3, <3>4, <2>2, MeetEachOther DEF Rooms
    <3>8. Cover(A \cup {c}, i) \subseteq h[k + 1]
      <4>1. Cover(A \cup {c}, i) = Cover(A, i) \cup Span(c, i)
        BY DEF Cover
      <4> QED BY <4>1, <3>2, <2>2, <2>4
    <3>9. Cardinality(A \cup {c}) = Cardinality(A) + 1
      BY <2>2, <3>6, RoomsAreFinite, FS_AddElement
    <3> QED BY <3>7, <3>8, <3>9, <2>2, <2>5, <2>6 DEF OneOf
  <2>7. CASE j \notin Others
    <3>1. Cover(A, i) \subseteq h[k + 1]
      BY <2>2, <2>4
    <3>2. Cardinality(Upto(q, Others, k)) \in Nat
      BY UptoNext
    <3> QED BY <3>1, <3>2, <2>2, <2>5, <2>7 DEF OneOf
  <2> QED BY <2>6, <2>7
<1> HIDE DEF P
<1>6. n \in P
  BY <1>3, <1>4, <1>5, Inductive
<1> QED BY <1>3, <1>6 DEF P, Count

\* What a check of the offer q against what is covered is worth.
LEMMA CheckedNow ==
    ASSUME NEW q \in Seq(Item), NEW covered, Packed(covered, q) # NoRoom
    PROVE  /\ Count(q, Special) <= Cardinality(Window \ covered)
           /\ (\A i, j \in ToSet(q) \ Special : Size[i] = Size[j]) =>
                 \A i \in ToSet(q) \ Special :
                    \E A : Rooms(A, i, covered) /\ Cardinality(A) = Count(q, Others)
<1>1. Count(q, Special) <= Cardinality(Window \ covered)
  BY WindowChecked
<1>2. ASSUME \A i, j \in ToSet(q) \ Special : Size[i] = Size[j],
             NEW i \in ToSet(q) \ Special
      PROVE  \E A : Rooms(A, i, covered) /\ Cardinality(A) = Count(q, Others)
  <2>1. ToSet(q) \subseteq Item /\ \A k \in 1 .. Len(q) : q[k] \in ToSet(q)
    BY DEF ToSet
  <2>2. i \in Others /\ \A k \in 1 .. Len(q) : q[k] \in Others => Size[q[k]] = Size[i]
    BY <1>2, <2>1 DEF Others
  <2> QED BY <2>2, InventoryChecked
<1> QED BY <1>1, <1>2

-----------------------------------------------------------------------------
(***************************************************************************)
(* The theorems.                                                            *)
(***************************************************************************)

LEMMA InitHolds == Init => IInv
<1> SUFFICES ASSUME Init
             PROVE  IInv
  OBVIOUS
<1>1. /\ exch = [p \in Player |-> NoExchange]
      /\ buried = {} /\ torn = {}
      /\ exchanging = {} /\ events = 0 /\ stuck = {} /\ reborn = {}
      /\ givers = <<>> /\ left = <<>>
  BY DEF Init
<1>2. PICK p \in Player : \E f \in Loaded :
        /\ inv = [q \in Player |-> IF q = p THEN f ELSE [c \in Cell |-> NoItem]]
        /\ purse = [q \in Player |-> IF q = p THEN Gold ELSE 0]
  BY DEF Init
<1>3. PICK f \in Loaded :
        /\ inv = [q \in Player |-> IF q = p THEN f ELSE [c \in Cell |-> NoItem]]
        /\ purse = [q \in Player |-> IF q = p THEN Gold ELSE 0]
  BY <1>2
<1>4. f \in Row /\ Books(f) /\ Once(f)
  BY LoadedAssumption DEF Row
<1>5. TypeOK
  <2>1. Gold \in 0 .. 2 * GoldMax /\ 0 \in 0 .. 2 * GoldMax /\ events \in 0 .. MaxEvent
    BY <1>1, ConstantTypes
  <2>2. purse \in [Player -> 0 .. 2 * GoldMax]
    BY <1>3, <2>1
  <2>3. inv \in [Player -> [Cell -> Item \cup {NoItem}]]
    BY <1>3, <1>4 DEF Row
  <2> QED BY <2>1, <2>2, <2>3, <1>1 DEF TypeOK
<1>6. \A q \in Player : Offered(q) = {} /\ (q # p => Held(q) = {})
  BY <1>1, <1>3 DEF Held, Filled, Offered
<1>7. ASSUME NEW q \in Player
      PROVE  Books(inv[q]) /\ Once(inv[q])
  <2>1. CASE q = p
    BY <2>1, <1>3, <1>4
  <2>2. CASE q # p
    BY <2>2, <1>3 DEF Books, Once
  <2> QED BY <2>1, <2>2
<1>8. InventoryBooks
  BY <1>1, <1>6, <1>7 DEF InventoryBooks
<1>9. ExchangeBooks /\ Apart /\ DoneBooks
  BY <1>1, <1>6 DEF ExchangeBooks, Paired, InPlace, OutOfReach, Apart, DoneBooks, Quiet
<1> QED BY <1>5, <1>8, <1>9 DEF IInv

LEMMA StepKeeps == IInv /\ [Next]_vars => IInv'
<1> SUFFICES ASSUME IInv, [Next]_vars
             PROVE  IInv'
  OBVIOUS
<1>1. ASSUME NEW p \in Player, NEW q \in Player, ExchangeStart(p, q)
      PROVE  IInv'
  BY <1>1, ExchangeStartKeeps
<1>2. ASSUME NEW p \in Player, NEW c \in Cell, AddItem(p, c)
      PROVE  IInv'
  BY <1>2, AddItemKeeps
<1>3. ASSUME NEW p \in Player, NEW gold \in 1 .. GoldMax, AddGold(p, gold)
      PROVE  IInv'
  BY <1>3, AddGoldKeeps
<1>4. ASSUME NEW p \in Player, AcceptFirst(p) \/ AcceptBoth(p)
      PROVE  IInv'
  BY <1>4, AcceptKeeps
<1>5. ASSUME NEW p \in Player, AcceptInVain(p) \/ Cancel(p)
      PROVE  IInv'
  BY <1>5, CancelKeeps
<1>6. CASE Collect
  BY <1>6, CollectKeeps
<1>7. CASE MoveNext
  BY <1>7, MoveNextKeeps
<1>8. CASE LeaveBehind
  BY <1>8, LeaveBehindKeeps
<1>9. CASE PayOverFirst
  BY <1>9, PayOverFirstKeeps
<1>10. CASE PayOverSecond
  BY <1>10, PayOverSecondKeeps
<1>11. ASSUME NEW p \in Player, NEW c \in Cell, NEW d \in Cell, MoveItem(p, c, d)
       PROVE  IInv'
  BY <1>11, MoveItemKeeps
<1>12. ASSUME NEW p \in Player, NEW c \in Cell, NEW d \in Cell, SwapItems(p, c, d)
       PROVE  IInv'
  BY <1>12, SwapItemsKeeps
<1>13. ASSUME NEW p \in Player, NEW c \in Cell, NEW d \in Cell, SwapUneven(p, c, d)
       PROVE  IInv'
  BY <1>13, SwapUnevenKeeps
<1>14. ASSUME NEW p \in Player, NEW c \in Cell, Destroy(p, c)
       PROVE  IInv'
  BY <1>14, DestroyKeeps
<1>15. ASSUME NEW p \in Player, NEW c \in Cell, NEW i \in Item, DestroyBuried(p, c, i)
       PROVE  IInv'
  BY <1>15, DestroyBuriedKeeps
<1>16. ASSUME NEW p \in Player, NEW i \in Item, Gain(p, i)
       PROVE  IInv'
  BY <1>16, GainKeeps
<1>17. ASSUME NEW p \in Player, NEW amount \in Amount, EarnOrSpend(p, amount)
       PROVE  IInv'
  BY <1>17, EarnOrSpendKeeps
<1>18. CASE UNCHANGED vars
  <2>1. UNCHANGED <<inv, buried, torn, purse, exch, exchanging, givers, left, stuck, reborn, events>>
    BY <1>18 DEF vars, held, cells, done
  <2>2. InventoryBooks' /\ ExchangeBooks' /\ Apart'
    BY <2>1, SameOffers
  <2>3. TypeOK'
    BY <2>1 DEF IInv, TypeOK
  <2>4. DoneBooks'
    BY <2>1 DEF IInv, DoneBooks, Quiet, Giver, Receiver, Company, Offered
  <2> QED BY <2>2, <2>3, <2>4 DEF IInv
<1>19. \A p \in Player : Filled(p) \subseteq Cell
  BY DEF Filled
<1> QED
  BY <1>1, <1>2, <1>3, <1>4, <1>5, <1>6, <1>7, <1>8, <1>9, <1>10, <1>11, <1>12,
     <1>13, <1>14, <1>15, <1>16, <1>17, <1>18, <1>19 DEF Next

LEMMA IInvHolds == Spec => []IInv
  BY InitHolds, StepKeeps, PTL DEF Spec

\* The variables keep their values' types: no purse leaves what PointChange allows, and
\* the arrays of an exchange hold items and cells.
THEOREM TypeCorrect == Spec => []TypeOK
<1>1. IInv => TypeOK
  BY DEF IInv
<1> QED BY <1>1, IInvHolds, PTL

\* Neither the moves of Done nor those of the client leave an item with two owners, in two
\* cells, or covered by another, but for who has made a swap of different sizes that left
\* the inventory, or the cells a BYTE can number.
THEOREM InventoryInOrder == Spec => []InventoryBooks
<1>1. IInv => InventoryBooks
  BY DEF IInv
<1> QED BY <1>1, IInvHolds, PTL

\* The two sides of an exchange, the items in them and the items' flags agree.
THEOREM ExchangeInOrder == Spec => []ExchangeBooks
<1>1. IInv => ExchangeBooks
  BY DEF IInv
<1> QED BY <1>1, IInvHolds, PTL
=============================================================================
