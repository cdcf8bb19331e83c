------------------------- MODULE GuildSafebox_proofs -------------------------
(***************************************************************************)
(* The books of the safebox of GuildSafebox, its items, its mirrors and its *)
(* gold, for any finite sets of cores and players, any items, any size of   *)
(* the safebox and of the items, and any bounds.                            *)
(***************************************************************************)
EXTENDS GuildSafebox, TLAPS, NaturalsInduction, WellFoundedInduction, FiniteSetTheorems

IInv == Typed /\ BoxBooks

\* Typed, but for what the books are about.
Rest ==
    /\ gold \in Nat
    /\ watchers \subseteq Core
    /\ row \in [Item -> Player \cup {Guild, NoOne}]
    /\ entry \in [Item -> Player \cup {NoOne}]
    /\ due \subseteq Item
    /\ cached \subseteq Player /\ out \subseteq Player /\ logon \subseteq Player
    /\ core \in [Player -> Core \cup {NoCore}]
    /\ login \in [Player -> Nat]
    /\ has \in [Player -> SUBSET Item] /\ dirty \in [Player -> SUBSET Item]
    /\ purse \in [Player -> Nat]
    /\ up \in [Core -> Seq(UpMsg)]
    /\ down \in [Core -> Seq(DownMsg)]
    /\ late \subseteq Item /\ gone \subseteq Item
    /\ events \in 0 .. MaxEvent

-----------------------------------------------------------------------------
(***************************************************************************)
(* Cells.                                                                   *)
(***************************************************************************)

LEMMA ConstantTypes ==
    /\ Size \in [Item -> Nat] /\ \A i \in Item : Size[i] > 0
    /\ MaxNum \in Nat /\ Width \in Nat /\ Height \in Nat /\ Pages \in Nat
    /\ GoldMax \in Nat /\ Gold \in Nat /\ MaxEvent \in Nat
    /\ InBox \subseteq Item
    /\ NoOne \notin Player \cup {Guild} /\ Guild \notin Player
    /\ NoItem \notin Item /\ NoCore \notin Core
  BY GuildSafeboxAssumption

LEMMA TimesMonotone ==
    ASSUME NEW w \in Nat, NEW a \in Nat, NEW b \in Nat, a <= b
    PROVE  w * a <= w * b
<1>1. b - a \in Nat
  OBVIOUS
<1>2. w * (b - a) \in Nat
  BY <1>1
<1>3. w * b = w * a + w * (b - a)
  BY <1>1
<1> QED BY <1>2, <1>3

\* An item that fits covers no cell beyond the arrays.
LEMMA SpanInCells ==
    ASSUME NEW c \in Cell, NEW i \in Item, Fits(c, i)
    PROVE  Span(c, i) \subseteq Cell
<1> SUFFICES ASSUME NEW k \in 0 .. Size[i] - 1
             PROVE  c + Width * k \in Cell
  BY DEF Span
<1>1. /\ k \in Nat /\ Size[i] - 1 \in Nat /\ k <= Size[i] - 1
      /\ Width \in Nat /\ MaxNum \in Nat /\ c \in Nat
  BY ConstantTypes DEF Cell
<1>2. Width * k <= Width * (Size[i] - 1)
  BY <1>1, TimesMonotone
<1>3. Width * k \in Nat /\ Width * (Size[i] - 1) \in Nat
  BY <1>1
<1>4. c < MaxNum - Width * (Size[i] - 1)
  BY DEF Fits
<1> QED BY <1>1, <1>2, <1>3, <1>4 DEF Cell

\* An item covers the cell it is in.
LEMMA InSpan ==
    ASSUME NEW c \in Cell, NEW i \in Item
    PROVE  c \in Span(c, i)
<1>1. 0 \in 0 .. Size[i] - 1
  BY ConstantTypes
<1>2. c + Width * 0 = c
  BY ConstantTypes DEF Cell
<1> QED BY <1>1, <1>2 DEF Span

LEMMA InCovered ==
    ASSUME NEW f \in [Cell -> Item \cup {NoItem}], NEW x
    PROVE  x \in Covered(f) <=>
               \E c \in Cell : f[c] # NoItem /\ x \in Span(c, f[c])
  BY DEF Covered

\* A cell whose item is taken away: the others keep theirs.
LEMMA CoveredWithout ==
    ASSUME NEW f \in [Cell -> Item \cup {NoItem}], NEW c \in Cell, f[c] # NoItem,
           \A d \in Cell : f[d] # NoItem /\ d # c
               => Span(c, f[c]) \cap Span(d, f[d]) = {}
    PROVE  Covered([f EXCEPT ![c] = NoItem]) = Covered(f) \ Span(c, f[c])
<1> DEFINE g == [f EXCEPT ![c] = NoItem]
<1>1. g \in [Cell -> Item \cup {NoItem}]
  OBVIOUS
<1>2. \A x : x \in Covered(g) <=> x \in Covered(f) /\ x \notin Span(c, f[c])
  <2> TAKE x
  <2>1. x \in Covered(g) <=> \E d \in Cell : g[d] # NoItem /\ x \in Span(d, g[d])
    BY <1>1, InCovered
  <2>2. x \in Covered(f) <=> \E d \in Cell : f[d] # NoItem /\ x \in Span(d, f[d])
    BY InCovered
  <2>3. \A d \in Cell : g[d] = IF d = c THEN NoItem ELSE f[d]
    OBVIOUS
  <2> HIDE DEF g
  <2> QED BY <2>1, <2>2, <2>3
<1> QED BY <1>2

\* An item that comes into an empty cell.
LEMMA CoveredWith ==
    ASSUME NEW f \in [Cell -> Item \cup {NoItem}], NEW c \in Cell, f[c] = NoItem,
           NEW i \in Item
    PROVE  Covered([f EXCEPT ![c] = i]) = Covered(f) \cup Span(c, i)
<1> DEFINE g == [f EXCEPT ![c] = i]
<1>1. g \in [Cell -> Item \cup {NoItem}]
  OBVIOUS
<1>2. \A x : x \in Covered(g) <=> x \in Covered(f) \/ x \in Span(c, i)
  <2> TAKE x
  <2>1. x \in Covered(g) <=> \E d \in Cell : g[d] # NoItem /\ x \in Span(d, g[d])
    BY <1>1, InCovered
  <2>2. x \in Covered(f) <=> \E d \in Cell : f[d] # NoItem /\ x \in Span(d, f[d])
    BY InCovered
  <2>3. \A d \in Cell : g[d] = IF d = c THEN i ELSE f[d]
    OBVIOUS
  <2>4. i # NoItem
    BY ConstantTypes
  <2> HIDE DEF g
  <2> QED BY <2>1, <2>2, <2>3, <2>4
<1> QED BY <1>2

-----------------------------------------------------------------------------
(***************************************************************************)
(* The books, as a relation on box, grid and delayed saves.                 *)
(***************************************************************************)

Books(b, g, u) ==
    /\ b \in [Cell -> Item \cup {NoItem}]
    /\ g \subseteq Cell
    /\ \A c, d \in Cell : b[c] # NoItem /\ b[d] # NoItem /\ c # d
           => Span(c, b[c]) \cap Span(d, b[d]) = {}
    /\ g = Covered(b)
    /\ u \subseteq {c \in Cell : b[c] # NoItem}

LEMMA InvParts ==
    /\ IInv <=> Books(box, grid, unsaved) /\ Rest
    /\ IInv' <=> Books(box', grid', unsaved') /\ Rest'
<1>1. IInv <=> Books(box, grid, unsaved) /\ Rest
  <2>1. IInv => Books(box, grid, unsaved) /\ Rest
    BY DEF IInv, Typed, BoxBooks, Books, Filled, Rest
  <2>2. Books(box, grid, unsaved) /\ Rest => IInv
    BY DEF IInv, Typed, BoxBooks, Books, Filled, Rest
  <2> QED BY <2>1, <2>2
<1>2. IInv' <=> Books(box', grid', unsaved') /\ Rest'
  <2>1. IInv' => Books(box', grid', unsaved') /\ Rest'
    BY DEF IInv, Typed, BoxBooks, Books, Filled, Rest
  <2>2. Books(box', grid', unsaved') /\ Rest' => IInv'
    BY DEF IInv, Typed, BoxBooks, Books, Filled, Rest
  <2> QED BY <2>1, <2>2
<1> QED BY <1>1, <1>2

\* What is free is empty, and its span meets none of the items'.
LEMMA FreeFacts ==
    ASSUME NEW b, NEW g, NEW u, Books(b, g, u),
           NEW c \in Cell, NEW i \in Item, Fits(c, i), Span(c, i) \cap g = {}
    PROVE  /\ b[c] = NoItem
           /\ Span(c, i) \subseteq Cell
           /\ \A d \in Cell : b[d] # NoItem => Span(c, i) \cap Span(d, b[d]) = {}
<1>1. \A x : x \in g <=> \E d \in Cell : b[d] # NoItem /\ x \in Span(d, b[d])
  BY InCovered DEF Books
<1>2. \A d \in Cell : b[d] # NoItem => Span(c, i) \cap Span(d, b[d]) = {}
  BY <1>1
<1>3. c \in Span(c, i)
  BY InSpan
<1>4. b[c] # NoItem => c \in Span(c, b[c])
  BY InSpan DEF Books
<1> QED BY <1>2, <1>3, <1>4, SpanInCells

LEMMA BooksAdd ==
    ASSUME NEW b, NEW g, NEW u, Books(b, g, u),
           NEW c \in Cell, NEW i \in Item, Fits(c, i), Span(c, i) \cap g = {}
    PROVE  Books([b EXCEPT ![c] = i], g \cup Span(c, i), u \cup {c})
<1> DEFINE n == [b EXCEPT ![c] = i]
<1>1. /\ b[c] = NoItem
      /\ Span(c, i) \subseteq Cell
      /\ \A d \in Cell : b[d] # NoItem => Span(c, i) \cap Span(d, b[d]) = {}
  BY FreeFacts
<1>2. Covered(n) = Covered(b) \cup Span(c, i)
  <2>1. b \in [Cell -> Item \cup {NoItem}]
    BY DEF Books
  <2>2. b[c] = NoItem
    BY <1>1
  <2> QED BY <2>1, <2>2, CoveredWith, Zenon
<1>3. n \in [Cell -> Item \cup {NoItem}]
  BY DEF Books
<1>4. \A d \in Cell : n[d] = IF d = c THEN i ELSE b[d]
  BY DEF Books
<1>5. i # NoItem
  BY ConstantTypes
<1> HIDE DEF n
<1>6. ASSUME NEW d \in Cell, NEW e \in Cell, n[d] # NoItem, n[e] # NoItem, d # e
      PROVE  Span(d, n[d]) \cap Span(e, n[e]) = {}
  <2>1. CASE d = c
    BY <2>1, <1>1, <1>4, <1>6
  <2>2. CASE e = c
    <3>1. Span(c, i) \cap Span(d, b[d]) = {}
      BY <2>2, <1>1, <1>4, <1>6
    <3> QED BY <3>1, <2>2, <1>4, <1>6
  <2>3. CASE d # c /\ e # c
    BY <2>3, <1>4, <1>6 DEF Books
  <2> QED BY <2>1, <2>2, <2>3
<1>7. u \cup {c} \subseteq {d \in Cell : n[d] # NoItem}
  BY <1>4, <1>5 DEF Books
<1>8. Books(n, g \cup Span(c, i), u \cup {c})
  BY <1>1, <1>2, <1>3, <1>6, <1>7 DEF Books
<1> QED BY <1>8 DEF n

LEMMA BooksTake ==
    ASSUME NEW b, NEW g, NEW u, Books(b, g, u), NEW c \in Cell, b[c] # NoItem
    PROVE  Books([b EXCEPT ![c] = NoItem], g \ Span(c, b[c]), u \ {c})
<1> DEFINE n == [b EXCEPT ![c] = NoItem]
<1>1. Covered(n) = Covered(b) \ Span(c, b[c])
  BY CoveredWithout DEF Books
<1>2. n \in [Cell -> Item \cup {NoItem}]
  BY DEF Books
<1>3. \A d \in Cell : n[d] = IF d = c THEN NoItem ELSE b[d]
  BY DEF Books
<1> HIDE DEF n
<1>4. \A d, e \in Cell : n[d] # NoItem /\ n[e] # NoItem /\ d # e
          => Span(d, n[d]) \cap Span(e, n[e]) = {}
  BY <1>3 DEF Books
<1>5. u \ {c} \subseteq {d \in Cell : n[d] # NoItem}
  BY <1>3 DEF Books
<1>6. Books(n, g \ Span(c, b[c]), u \ {c})
  BY <1>1, <1>2, <1>4, <1>5 DEF Books
<1> QED BY <1>6 DEF n

\* A move takes the item out and puts it in where there was room before.
LEMMA BooksMove ==
    ASSUME NEW b, NEW g, NEW u, Books(b, g, u),
           NEW c \in Cell, NEW d \in Cell, b[c] # NoItem,
           Fits(d, b[c]), Span(d, b[c]) \cap g = {}
    PROVE  Books([b EXCEPT ![c] = NoItem, ![d] = b[c]],
                 (g \ Span(c, b[c])) \cup Span(d, b[c]),
                 (u \ {c}) \cup {d})
<1> DEFINE n == [b EXCEPT ![c] = NoItem]
           h == g \ Span(c, b[c])
<1>1. b[c] \in Item
  BY DEF Books
<1>2. Books(n, h, u \ {c})
  BY BooksTake
<1>3. Span(d, b[c]) \cap h = {}
  OBVIOUS
<1> HIDE DEF n, h
<1>4. Books([n EXCEPT ![d] = b[c]], h \cup Span(d, b[c]), (u \ {c}) \cup {d})
  BY <1>1, <1>2, <1>3, BooksAdd
<1> QED BY <1>4 DEF n, h

-----------------------------------------------------------------------------
(***************************************************************************)
(* Packets.                                                                 *)
(***************************************************************************)

\* What a packet to the db carries, by its type.
LEMMA UpMsgFields ==
    ASSUME NEW m \in UpMsg
    PROVE  /\ m.type = "ADD" => m.pid \in Player /\ m.login \in Nat
                                /\ m.item \in Item /\ m.cell \in Cell
           /\ m.type = "TAKE" => m.pid \in Player /\ m.login \in Nat /\ m.cell \in Cell
           /\ m.type = "MOVE" => m.from \in Cell /\ m.to \in Cell
           /\ m.type = "GIVE_GOLD" => m.gold \in Nat
           /\ m.type = "GET_GOLD" => m.pid \in Player /\ m.login \in Nat
                                     /\ m.gold \in Nat
           /\ m.type = "LOAD" => m.pid \in Player /\ m.login \in Nat
           /\ m.type \in {"SAVE", "LOGOUT"} => m.pid \in Player /\ m.items \subseteq Item
  BY DEF UpMsg

LEMMA DownMsgFields ==
    ASSUME NEW m \in DownMsg
    PROVE  /\ m.type = "GIVE" => m.pid \in Player /\ m.login \in Nat /\ m.item \in Item
           /\ m.type = "PAY" => m.pid \in Player /\ m.login \in Nat /\ m.gold \in Nat
  BY DEF DownMsg

LEMMA TailType ==
    ASSUME NEW M, NEW q \in Seq(M), q # <<>>
    PROVE  Head(q) \in M /\ Tail(q) \in Seq(M)
OBVIOUS

\* The packet a handler gets, and what it leaves alone.
LEMMA Received ==
    ASSUME Typed, NEW c \in Core, NEW type, Receive(c, type)
    PROVE  /\ Head(up[c]) \in UpMsg /\ Head(up[c]).type = type
           /\ up' \in [Core -> Seq(UpMsg)]
           /\ UNCHANGED <<core, login, has, dirty, purse, late, gone, events>>
<1>1. up[c] \in Seq(UpMsg) /\ up[c] # <<>>
  BY DEF Typed, Receive
<1>2. Head(up[c]) \in UpMsg /\ Tail(up[c]) \in Seq(UpMsg)
  BY <1>1, TailType
<1> QED BY <1>2 DEF Typed, Receive, gameVars, history

LEMMA Taken ==
    ASSUME Typed, NEW c \in Core, NEW types, Take(c, types)
    PROVE  /\ Head(down[c]) \in DownMsg /\ Head(down[c]).type \in types
           /\ down' \in [Core -> Seq(DownMsg)]
           /\ UNCHANGED <<box, grid, unsaved, gold, watchers>>
           /\ UNCHANGED <<row, entry, due, cached, out, logon, core, login, late, events>>
<1>1. down[c] \in Seq(DownMsg) /\ down[c] # <<>>
  BY DEF Typed, Take
<1>2. Head(down[c]) \in DownMsg /\ Tail(down[c]) \in Seq(DownMsg)
  BY <1>1, TailType
<1> QED BY <1>2 DEF Typed, Take, boxVars, rowVars

\* A packet is added to what core c gets.
LEMMA AppendDown ==
    ASSUME NEW d \in [Core -> Seq(DownMsg)], NEW c \in Core, NEW m \in DownMsg
    PROVE  [d EXCEPT ![c] = Append(@, m)] \in [Core -> Seq(DownMsg)]
<1>1. Append(d[c], m) \in Seq(DownMsg)
  OBVIOUS
<1> QED BY <1>1

LEMMA AppendUp ==
    ASSUME NEW u \in [Core -> Seq(UpMsg)], NEW c \in Core, NEW m \in UpMsg
    PROVE  [u EXCEPT ![c] = Append(@, m)] \in [Core -> Seq(UpMsg)]
<1>1. Append(u[c], m) \in Seq(UpMsg)
  OBVIOUS
<1> QED BY <1>1

LEMMA ChangedType ==
    ASSUME Typed, NEW c \in Core, NEW ms \in Seq(DownMsg)
    PROVE  Changed(c, ms) \in [Core -> Seq(DownMsg)]
<1>1. \A b \in Core : down[b] \in Seq(DownMsg)
  BY DEF Typed
<1>2. \A b \in Core : down[b] \o ms \in Seq(DownMsg)
  BY <1>1
<1> QED BY <1>1, <1>2 DEF Changed

LEMMA DownMsgs ==
    /\ \A c \in Cell, i \in Item : SetCell(c, i) \in DownMsg
    /\ \A c \in Cell : DelCell(c) \in DownMsg
    /\ \A g \in Nat : SetGold(g) \in DownMsg
<1>1. \A c \in Cell, i \in Item : SetCell(c, i) \in [type : {"SET"}, cell : Cell, item : Item]
  BY DEF SetCell
<1>2. \A c \in Cell : DelCell(c) \in [type : {"DEL"}, cell : Cell]
  BY DEF DelCell
<1>3. \A g \in Nat : SetGold(g) \in [type : {"GOLD"}, gold : Nat]
  BY DEF SetGold
<1> QED BY <1>1, <1>2, <1>3 DEF DownMsg

\* The answers to a player.
LEMMA Answers ==
    ASSUME NEW m, m.pid \in Player, m.login \in Nat
    PROVE  /\ \A i \in Item : GiveItem(m, i) \in DownMsg
           /\ \A g \in Nat : PayGold(m, g) \in DownMsg
<1>1. \A i \in Item : GiveItem(m, i) \in
        [type : {"GIVE"}, pid : Player, login : Nat, item : Item]
  BY DEF GiveItem
<1>2. \A g \in Nat : PayGold(m, g) \in
        [type : {"PAY"}, pid : Player, login : Nat, gold : Nat]
  BY DEF PayGold
<1> QED BY <1>1, <1>2 DEF DownMsg

-----------------------------------------------------------------------------
(***************************************************************************)
(* The db's handlers for the safebox.                                       *)
(***************************************************************************)

LEMMA AddInv ==
    ASSUME IInv, NEW c \in Core, GUILD_SAFEBOX_ADD(c)
    PROVE  IInv'
<1> DEFINE m == Head(up[c])
<1>1. Books(box, grid, unsaved) /\ Rest /\ Typed
  BY InvParts DEF IInv
<1>2. Receive(c, "ADD") /\ Forget(m.item)
      /\ UNCHANGED <<gold, watchers, cached, out, logon>>
  BY DEF GUILD_SAFEBOX_ADD
<1>3. /\ m \in UpMsg /\ m.type = "ADD"
      /\ up' \in [Core -> Seq(UpMsg)]
      /\ UNCHANGED <<core, login, has, dirty, purse, late, gone, events>>
  BY <1>1, <1>2, Received
<1>4. m.pid \in Player /\ m.login \in Nat /\ m.item \in Item /\ m.cell \in Cell
  BY <1>3, UpMsgFields
<1>5. CASE IsFree(m.cell, m.item)
  <2>1. /\ box' = [box EXCEPT ![m.cell] = m.item]
        /\ grid' = grid \cup Span(m.cell, m.item)
        /\ unsaved' = unsaved \cup {m.cell}
        /\ down' = Changed(c, <<SetCell(m.cell, m.item)>>)
        /\ UNCHANGED row
    BY <1>5 DEF GUILD_SAFEBOX_ADD
  <2>2. Books(box', grid', unsaved')
    BY <1>1, <1>4, <1>5, <2>1, BooksAdd DEF IsFree
  <2>3. <<SetCell(m.cell, m.item)>> \in Seq(DownMsg)
    BY <1>4, DownMsgs
  <2>4. down' \in [Core -> Seq(DownMsg)]
    BY <1>1, <2>1, <2>3, ChangedType
  <2>5. Rest'
    BY <1>1, <1>2, <1>3, <2>1, <2>4 DEF Rest, Forget
  <2> QED BY <2>2, <2>5, InvParts
<1>6. CASE ~IsFree(m.cell, m.item)
  <2>1. /\ row' = [row EXCEPT ![m.item] = NoOne]
        /\ down' = [down EXCEPT ![c] = Append(@, GiveItem(m, m.item))]
        /\ UNCHANGED <<box, grid, unsaved>>
    BY <1>6 DEF GUILD_SAFEBOX_ADD
  <2>2. GiveItem(m, m.item) \in DownMsg
    BY <1>4, Answers
  <2>3. down' \in [Core -> Seq(DownMsg)]
    BY <1>1, <2>1, <2>2, AppendDown DEF Rest
  <2>4. Rest'
    BY <1>1, <1>2, <1>3, <2>1, <2>3 DEF Rest, Forget
  <2> QED BY <1>1, <2>1, <2>4, InvParts
<1> QED BY <1>5, <1>6

LEMMA MoveInv ==
    ASSUME IInv, NEW c \in Core, GUILD_SAFEBOX_MOVE(c)
    PROVE  IInv'
<1> DEFINE m == Head(up[c])
           i == box[m.from]
<1>1. Books(box, grid, unsaved) /\ Rest /\ Typed
  BY InvParts DEF IInv
<1>2. Receive(c, "MOVE") /\ UNCHANGED <<gold, watchers, row, entry, due, cached, out, logon>>
  BY DEF GUILD_SAFEBOX_MOVE, rowVars
<1>3. /\ m \in UpMsg /\ m.type = "MOVE"
      /\ up' \in [Core -> Seq(UpMsg)]
      /\ UNCHANGED <<core, login, has, dirty, purse, late, gone, events>>
  BY <1>1, <1>2, Received
<1>4. m.from \in Cell /\ m.to \in Cell
  BY <1>3, UpMsgFields
<1>5. CASE i # NoItem /\ IsFree(m.to, i)
  <2>1. /\ box' = [box EXCEPT ![m.from] = NoItem, ![m.to] = i]
        /\ grid' = (grid \ Span(m.from, i)) \cup Span(m.to, i)
        /\ unsaved' = (unsaved \ {m.from}) \cup {m.to}
        /\ down' = Changed(c, <<DelCell(m.from), SetCell(m.to, i)>>)
    BY <1>5 DEF GUILD_SAFEBOX_MOVE
  <2>2. Books(box', grid', unsaved')
    BY <1>1, <1>4, <1>5, <2>1, BooksMove DEF IsFree
  <2>3. i \in Item
    BY <1>1, <1>4, <1>5 DEF Books
  <2>4. <<DelCell(m.from), SetCell(m.to, i)>> \in Seq(DownMsg)
    <3>1. DelCell(m.from) \in DownMsg /\ SetCell(m.to, i) \in DownMsg
      BY <1>4, <2>3, DownMsgs
    <3> QED BY <3>1
  <2>5. down' \in [Core -> Seq(DownMsg)]
    BY <1>1, <2>1, <2>4, ChangedType
  <2>6. Rest'
    BY <1>1, <1>2, <1>3, <2>5 DEF Rest
  <2> QED BY <2>2, <2>6, InvParts
<1>6. CASE ~(i # NoItem /\ IsFree(m.to, i))
  <2>1. UNCHANGED <<box, grid, unsaved, down>>
    BY <1>6 DEF GUILD_SAFEBOX_MOVE
  <2>2. Rest'
    BY <1>1, <1>2, <1>3, <2>1 DEF Rest
  <2> QED BY <1>1, <2>1, <2>2, InvParts
<1> QED BY <1>5, <1>6

LEMMA TakeInv ==
    ASSUME IInv, NEW c \in Core, GUILD_SAFEBOX_TAKE(c)
    PROVE  IInv'
<1> DEFINE m == Head(up[c])
           i == box[m.cell]
           told == Changed(c, <<DelCell(m.cell)>>)
<1>1. Books(box, grid, unsaved) /\ Rest /\ Typed
  BY InvParts DEF IInv
<1>2. Receive(c, "TAKE") /\ UNCHANGED <<gold, watchers, row, entry, due, cached, out, logon>>
  BY DEF GUILD_SAFEBOX_TAKE, rowVars
<1>3. /\ m \in UpMsg /\ m.type = "TAKE"
      /\ up' \in [Core -> Seq(UpMsg)]
      /\ UNCHANGED <<core, login, has, dirty, purse, late, gone, events>>
  BY <1>1, <1>2, Received
<1>4. m.pid \in Player /\ m.login \in Nat /\ m.cell \in Cell
  BY <1>3, UpMsgFields
<1>5. CASE i # NoItem
  <2>1. /\ box' = [box EXCEPT ![m.cell] = NoItem]
        /\ grid' = grid \ Span(m.cell, i)
        /\ unsaved' = unsaved \ {m.cell}
        /\ down' = [told EXCEPT ![c] = Append(@, GiveItem(m, i))]
    BY <1>5 DEF GUILD_SAFEBOX_TAKE
  <2>2. Books(box', grid', unsaved')
    BY <1>1, <1>4, <1>5, <2>1, BooksTake
  <2>3. i \in Item
    BY <1>1, <1>4, <1>5 DEF Books
  <2>4. told \in [Core -> Seq(DownMsg)]
    <3>1. <<DelCell(m.cell)>> \in Seq(DownMsg)
      BY <1>4, DownMsgs
    <3> QED BY <1>1, <3>1, ChangedType
  <2>5. GiveItem(m, i) \in DownMsg
    BY <1>4, <2>3, Answers
  <2>6. down' \in [Core -> Seq(DownMsg)]
    <3> HIDE DEF told, m, i
    <3> QED BY <2>1, <2>4, <2>5, AppendDown
  <2>7. Rest'
    BY <1>1, <1>2, <1>3, <2>6 DEF Rest
  <2> QED BY <2>2, <2>7, InvParts
<1>6. CASE i = NoItem
  <2>1. UNCHANGED <<box, grid, unsaved, down>>
    BY <1>6 DEF GUILD_SAFEBOX_TAKE
  <2>2. Rest'
    BY <1>1, <1>2, <1>3, <2>1 DEF Rest
  <2> QED BY <1>1, <2>1, <2>2, InvParts
<1> QED BY <1>5, <1>6

\* A step that leaves the books alone.
LEMMA SameBooks ==
    ASSUME IInv, UNCHANGED <<box, grid, unsaved>>, Rest'
    PROVE  IInv'
<1>1. Books(box', grid', unsaved')
  BY InvParts
<1> QED BY <1>1, InvParts

LEMMA GiveGoldInv ==
    ASSUME IInv, NEW c \in Core, GUILD_SAFEBOX_GIVE_GOLD(c)
    PROVE  IInv'
<1> DEFINE m == Head(up[c])
           all == gold + m.gold
<1>1. Rest /\ Typed
  BY InvParts DEF IInv
<1>2. /\ Receive(c, "GIVE_GOLD")
      /\ UNCHANGED <<box, grid, unsaved, watchers, row, entry, due, cached, out, logon>>
      /\ gold' = all /\ down' = Changed(c, <<SetGold(all)>>)
  BY DEF GUILD_SAFEBOX_GIVE_GOLD, rowVars
<1>3. /\ m \in UpMsg /\ m.type = "GIVE_GOLD"
      /\ up' \in [Core -> Seq(UpMsg)]
      /\ UNCHANGED <<core, login, has, dirty, purse, late, gone, events>>
  BY <1>1, <1>2, Received
<1>4. m.gold \in Nat
  BY <1>3, UpMsgFields
<1>5. all \in Nat
  BY <1>1, <1>4 DEF Rest
<1>6. <<SetGold(all)>> \in Seq(DownMsg)
  <2> HIDE DEF all
  <2> QED BY <1>5, DownMsgs
<1>7. down' \in [Core -> Seq(DownMsg)]
  BY <1>1, <1>2, <1>6, ChangedType
<1>8. Rest'
  BY <1>1, <1>2, <1>3, <1>5, <1>7 DEF Rest
<1> QED BY <1>2, <1>8, SameBooks

LEMMA GetGoldInv ==
    ASSUME IInv, NEW c \in Core, GUILD_SAFEBOX_GET_GOLD(c)
    PROVE  IInv'
<1> DEFINE m == Head(up[c])
           left == gold - m.gold
           told == Changed(c, <<SetGold(left)>>)
<1>1. Rest /\ Typed
  BY InvParts DEF IInv
<1>2. /\ Receive(c, "GET_GOLD")
      /\ UNCHANGED <<box, grid, unsaved, watchers, row, entry, due, cached, out, logon>>
  BY DEF GUILD_SAFEBOX_GET_GOLD, rowVars
<1>3. /\ m \in UpMsg /\ m.type = "GET_GOLD"
      /\ up' \in [Core -> Seq(UpMsg)]
      /\ UNCHANGED <<core, login, has, dirty, purse, late, gone, events>>
  BY <1>1, <1>2, Received
<1>4. m.gold \in Nat /\ m.pid \in Player /\ m.login \in Nat
  BY <1>3, UpMsgFields
<1>5. gold' \in Nat /\ down' \in [Core -> Seq(DownMsg)]
  <2>1. CASE CanPay(m.gold)
    <3>1. gold' = left /\ down' = [told EXCEPT ![c] = Append(@, PayGold(m, m.gold))]
      BY <2>1 DEF GUILD_SAFEBOX_GET_GOLD
    <3>2. left \in Nat
      BY <1>1, <1>4, <2>1 DEF Rest, CanPay
    <3>3. <<SetGold(left)>> \in Seq(DownMsg)
      <4> HIDE DEF left
      <4> QED BY <3>2, DownMsgs
    <3>4. told \in [Core -> Seq(DownMsg)]
      BY <1>1, <3>3, ChangedType
    <3>5. PayGold(m, m.gold) \in DownMsg
      BY <1>4, Answers
    <3>6. down' \in [Core -> Seq(DownMsg)]
      <4> HIDE DEF told, m
      <4> QED BY <3>1, <3>4, <3>5, AppendDown
    <3> QED BY <3>1, <3>2, <3>6
  <2>2. CASE ~CanPay(m.gold)
    <3>1. UNCHANGED gold /\ down' = [down EXCEPT ![c] = Append(@, PayGold(m, 0))]
      BY <2>2 DEF GUILD_SAFEBOX_GET_GOLD
    <3>2. PayGold(m, 0) \in DownMsg
      BY <1>4, Answers
    <3>3. down' \in [Core -> Seq(DownMsg)]
      <4> HIDE DEF m
      <4> QED BY <1>1, <3>1, <3>2, AppendDown DEF Rest
    <3> QED BY <1>1, <3>1, <3>3 DEF Rest
  <2> QED BY <2>1, <2>2
<1>6. Rest'
  BY <1>1, <1>2, <1>3, <1>5 DEF Rest
<1> QED BY <1>2, <1>6, SameBooks

LEMMA LoadInv ==
    ASSUME IInv, NEW c \in Core, GUILD_SAFEBOX_LOAD(c)
    PROVE  IInv'
<1> DEFINE m == Head(up[c])
           items == IF c \in watchers THEN [d \in Cell |-> NoItem] ELSE box
           answer == [type |-> "LOADED", pid |-> m.pid, login |-> m.login,
                      items |-> items, gold |-> gold]
<1>1. Books(box, grid, unsaved) /\ Rest /\ Typed
  BY InvParts DEF IInv
<1>2. /\ Receive(c, "LOAD")
      /\ UNCHANGED <<box, grid, unsaved, gold, row, entry, due, cached, out, logon>>
      /\ watchers' = watchers \cup {c}
      /\ down' = [down EXCEPT ![c] = Append(@, answer)]
  BY DEF GUILD_SAFEBOX_LOAD, rowVars
<1>3. /\ m \in UpMsg /\ m.type = "LOAD"
      /\ up' \in [Core -> Seq(UpMsg)]
      /\ UNCHANGED <<core, login, has, dirty, purse, late, gone, events>>
  BY <1>1, <1>2, Received
<1>4. m.pid \in Player /\ m.login \in Nat
  BY <1>3, UpMsgFields
<1>5. items \in [Cell -> Item \cup {NoItem}]
  BY <1>1 DEF Books
<1>6. answer \in DownMsg
  <2> HIDE DEF m, items
  <2> QED BY <1>1, <1>4, <1>5 DEF DownMsg, Rest
<1>7. down' \in [Core -> Seq(DownMsg)]
  <2> HIDE DEF answer
  <2> QED BY <1>1, <1>2, <1>6, AppendDown DEF Rest
<1>8. Rest'
  BY <1>1, <1>2, <1>3, <1>7 DEF Rest
<1> QED BY <1>2, <1>8, SameBooks

\* What is written leaves the delayed saves.
LEMMA FlushItemsInv ==
    ASSUME IInv, NEW S \in SUBSET unsaved, FlushItems(S)
    PROVE  IInv'
<1>1. Books(box, grid, unsaved) /\ Rest
  BY InvParts
<1>2. unsaved' = unsaved \ S /\ UNCHANGED <<box, grid>>
  BY DEF FlushItems
<1>3. Books(box', grid', unsaved')
  BY <1>1, <1>2 DEF Books
<1>4. Rest'
  <2>1. row' \in [Item -> Player \cup {Guild, NoOne}]
    BY <1>1 DEF FlushItems, Rest
  <2> QED BY <1>1, <2>1 DEF FlushItems, Rest, gameVars, history
<1> QED BY <1>3, <1>4, InvParts

-----------------------------------------------------------------------------
(***************************************************************************)
(* The db's handlers for items of players.                                  *)
(***************************************************************************)

LEMMA PutItemsType ==
    ASSUME Rest, NEW p \in Player, NEW I \in SUBSET Item, PutItems(p, I)
    PROVE  /\ row' \in [Item -> Player \cup {Guild, NoOne}]
           /\ entry' \in [Item -> Player \cup {NoOne}]
           /\ due' \subseteq Item
<1>1. CASE p \in cached
  BY <1>1 DEF PutItems, Rest
<1>2. CASE p \notin cached
  BY <1>2 DEF PutItems, Rest
<1> QED BY <1>1, <1>2

LEMMA ItemSaveInv ==
    ASSUME IInv, NEW c \in Core, QUERY_ITEM_SAVE(c)
    PROVE  IInv'
<1> DEFINE m == Head(up[c])
<1>1. Rest /\ Typed
  BY InvParts DEF IInv
<1>2. /\ Receive(c, "SAVE") /\ PutItems(m.pid, m.items)
      /\ UNCHANGED <<box, grid, unsaved, gold, watchers, cached, out, logon, down>>
  BY DEF QUERY_ITEM_SAVE, boxVars
<1>3. /\ m \in UpMsg /\ m.type = "SAVE"
      /\ up' \in [Core -> Seq(UpMsg)]
      /\ UNCHANGED <<core, login, has, dirty, purse, late, gone, events>>
  BY <1>1, <1>2, Received
<1>4. m.pid \in Player /\ m.items \in SUBSET Item
  BY <1>3, UpMsgFields
<1>5. /\ row' \in [Item -> Player \cup {Guild, NoOne}]
      /\ entry' \in [Item -> Player \cup {NoOne}]
      /\ due' \subseteq Item
  <2> HIDE DEF m
  <2> QED BY <1>1, <1>2, <1>4, PutItemsType
<1>6. Rest'
  BY <1>1, <1>2, <1>3, <1>5 DEF Rest
<1> QED BY <1>2, <1>6, SameBooks

LEMMA QueryLogoutInv ==
    ASSUME IInv, NEW c \in Core, QUERY_LOGOUT(c)
    PROVE  IInv'
<1> DEFINE m == Head(up[c])
<1>1. Rest /\ Typed
  BY InvParts DEF IInv
<1>2. /\ Receive(c, "LOGOUT") /\ PutItems(m.pid, m.items)
      /\ logon' = logon \ {m.pid} /\ out' = out \cup {m.pid}
      /\ UNCHANGED <<box, grid, unsaved, gold, watchers, cached, down>>
  BY DEF QUERY_LOGOUT, boxVars
<1>3. /\ m \in UpMsg /\ m.type = "LOGOUT"
      /\ up' \in [Core -> Seq(UpMsg)]
      /\ UNCHANGED <<core, login, has, dirty, purse, late, gone, events>>
  BY <1>1, <1>2, Received
<1>4. m.pid \in Player /\ m.items \in SUBSET Item
  BY <1>3, UpMsgFields
<1>5. /\ row' \in [Item -> Player \cup {Guild, NoOne}]
      /\ entry' \in [Item -> Player \cup {NoOne}]
      /\ due' \subseteq Item
  <2> HIDE DEF m
  <2> QED BY <1>1, <1>2, <1>4, PutItemsType
<1>6. Rest'
  BY <1>1, <1>2, <1>3, <1>4, <1>5 DEF Rest
<1> QED BY <1>2, <1>6, SameBooks

LEMMA WriteBackInv ==
    ASSUME IInv, \/ \E i \in Item : UpdateItemCache(i)
                 \/ \E p \in Player : UpdateLogoutPlayer(p)
    PROVE  IInv'
<1>1. Rest
  BY InvParts
<1>2. \A i \in due : entry[i] \in Player \cup {Guild, NoOne}
  BY <1>1 DEF Rest
<1>3. ASSUME NEW i \in Item, UpdateItemCache(i)
      PROVE  IInv'
  <2>1. row' \in [Item -> Player \cup {Guild, NoOne}]
    BY <1>1, <1>2, <1>3 DEF UpdateItemCache, Flush, Rest
  <2>2. Rest'
    BY <1>1, <1>3, <2>1 DEF UpdateItemCache, Rest, boxVars, gameVars, history
  <2> QED BY <1>3, <2>2, SameBooks DEF UpdateItemCache, boxVars
<1>4. ASSUME NEW p \in Player, UpdateLogoutPlayer(p)
      PROVE  IInv'
  <2>1. row' \in [Item -> Player \cup {Guild, NoOne}]
    BY <1>1, <1>2, <1>4 DEF UpdateLogoutPlayer, Flush, Rest
  <2>2. entry' \in [Item -> Player \cup {NoOne}] /\ due' \subseteq Item
    BY <1>1, <1>4 DEF UpdateLogoutPlayer, Rest
  <2>3. Rest'
    BY <1>1, <1>4, <2>1, <2>2 DEF UpdateLogoutPlayer, Rest, boxVars, gameVars, history
  <2> QED BY <1>4, <2>3, SameBooks DEF UpdateLogoutPlayer, boxVars
<1> QED BY <1>3, <1>4

-----------------------------------------------------------------------------
(***************************************************************************)
(* The game cores.                                                          *)
(***************************************************************************)

LEMMA CountedType ==
    ASSUME Rest, Counted
    PROVE  events' \in 0 .. MaxEvent
  BY ConstantTypes DEF Rest, Counted

LEMMA LoginInv ==
    ASSUME IInv, NEW p \in Player, NEW c \in Core, Login(p, c)
    PROVE  IInv'
<1> DEFINE I == {i \in Item : Stored(p, i)}
<1>1. Rest
  BY InvParts
<1>2. /\ Counted
      /\ has' = [has EXCEPT ![p] = I \ OnCore(c)]
      /\ cached' = cached \cup {p} /\ out' = out \ {p} /\ logon' = logon \cup {p}
      /\ core' = [core EXCEPT ![p] = c]
      /\ login' = [login EXCEPT ![p] = @ + 1]
      /\ UNCHANGED <<box, grid, unsaved, gold, watchers, row, due, dirty, purse,
                     up, down, gone>>
  BY DEF Login, boxVars
<1>3. entry' \in [Item -> Player \cup {NoOne}] /\ late' \subseteq Item
  <2>1. CASE p \in cached
    BY <1>1, <2>1 DEF Login, Rest
  <2>2. CASE p \notin cached
    BY <1>1, <2>2 DEF Login, Rest
  <2> QED BY <2>1, <2>2
<1>4. has' \in [Player -> SUBSET Item]
  BY <1>1, <1>2 DEF Rest
<1>5. core' \in [Player -> Core \cup {NoCore}] /\ login' \in [Player -> Nat]
  BY <1>1, <1>2 DEF Rest
<1>6. events' \in 0 .. MaxEvent
  BY <1>1, <1>2, CountedType
<1>7. Rest'
  BY <1>1, <1>2, <1>3, <1>4, <1>5, <1>6 DEF Rest
<1> QED BY <1>2, <1>7, SameBooks

LEMMA ItemPackets ==
    ASSUME NEW p \in Player, NEW I \in SUBSET Item
    PROVE  /\ [type |-> "SAVE", pid |-> p, items |-> I] \in UpMsg
           /\ [type |-> "LOGOUT", pid |-> p, items |-> I] \in UpMsg
  BY DEF UpMsg

LEMMA OfflineInv ==
    ASSUME IInv, NEW p \in Player,
           Logout(p) \/ \E I \in SUBSET dirty[p] : SaveItems(p, I)
    PROVE  IInv'
<1>1. Rest
  BY InvParts
<1>2. CASE Logout(p)
  <2>1. [type |-> "LOGOUT", pid |-> p, items |-> dirty[p]] \in UpMsg
    BY <1>1, ItemPackets DEF Rest
  <2>2. core[p] \in Core
    BY <1>1, <1>2 DEF Rest, Logout
  <2>3. up' \in [Core -> Seq(UpMsg)]
    BY <1>1, <1>2, <2>1, <2>2, AppendUp DEF Rest, Logout, Sends
  <2>4. Rest'
    BY <1>1, <1>2, <2>3 DEF Rest, Logout, boxVars, rowVars, history
  <2> QED BY <1>2, <2>4, SameBooks DEF Logout, boxVars
<1>3. ASSUME NEW I \in SUBSET dirty[p], SaveItems(p, I)
      PROVE  IInv'
  <2>1. I \in SUBSET Item
    BY <1>1 DEF Rest
  <2>2. [type |-> "SAVE", pid |-> p, items |-> I] \in UpMsg
    BY <2>1, ItemPackets
  <2>3. core[p] \in Core
    BY <1>1, <1>3 DEF Rest, SaveItems
  <2>4. up' \in [Core -> Seq(UpMsg)]
    BY <1>1, <1>3, <2>2, <2>3, AppendUp DEF Rest, SaveItems, Sends
  <2>5. Rest'
    BY <1>1, <1>3, <2>4 DEF Rest, SaveItems, boxVars, rowVars, history
  <2> QED BY <1>3, <2>5, SameBooks DEF SaveItems, boxVars
<1> QED BY <1>2, <1>3

\* A request changes nothing but the player who makes it.
LEMMA RequestInv ==
    ASSUME IInv, NEW p \in Player, NEW m \in UpMsg, Request(p, m),
           has' \in [Player -> SUBSET Item],
           dirty' \in [Player -> SUBSET Item],
           purse' \in [Player -> Nat]
    PROVE  IInv'
<1>1. Rest
  BY InvParts
<1>2. core[p] \in Core
  BY <1>1 DEF Rest, Request
<1>3. up' \in [Core -> Seq(UpMsg)]
  BY <1>1, <1>2, AppendUp DEF Rest, Request, Sends
<1>4. events' \in 0 .. MaxEvent
  BY <1>1, CountedType DEF Request
<1>5. Rest'
  BY <1>1, <1>3, <1>4 DEF Rest, Request, boxVars, rowVars
<1> QED BY <1>5, SameBooks DEF Request, boxVars

LEMMA ClientsInv ==
    ASSUME IInv, NEW p \in Player,
           \/ OpenSafebox(p)
           \/ \E i \in Item, c \in Cell : CheckInItem(p, i, c)
           \/ \E c \in Cell : CheckOutItem(p, c)
           \/ \E c, d \in Cell : MoveItem(p, c, d)
           \/ \E g \in Amount : GiveGold(p, g) \/ TakeGold(p, g)
    PROVE  IInv'
<1>1. Rest
  BY InvParts
<1>2. /\ has \in [Player -> SUBSET Item] /\ dirty \in [Player -> SUBSET Item]
      /\ purse \in [Player -> Nat] /\ login[p] \in Nat
  BY <1>1 DEF Rest
<1>3. CASE OpenSafebox(p)
  <2>1. [type |-> "LOAD", pid |-> p, login |-> login[p]] \in UpMsg
    BY <1>2 DEF UpMsg
  <2> QED BY <1>2, <1>3, <2>1, RequestInv DEF OpenSafebox
<1>4. ASSUME NEW i \in Item, NEW c \in Cell, CheckInItem(p, i, c)
      PROVE  IInv'
  <2>1. [type |-> "ADD", pid |-> p, login |-> login[p], item |-> i, cell |-> c] \in UpMsg
    BY <1>2 DEF UpMsg
  <2>2. has' \in [Player -> SUBSET Item] /\ dirty' \in [Player -> SUBSET Item]
    BY <1>2, <1>4 DEF CheckInItem
  <2> QED BY <1>2, <1>4, <2>1, <2>2, RequestInv DEF CheckInItem, ViewerAsks
<1>5. ASSUME NEW c \in Cell, CheckOutItem(p, c)
      PROVE  IInv'
  <2>1. [type |-> "TAKE", pid |-> p, login |-> login[p], cell |-> c] \in UpMsg
    BY <1>2 DEF UpMsg
  <2> QED BY <1>2, <1>5, <2>1, RequestInv DEF CheckOutItem, ViewerAsks
<1>6. ASSUME NEW c \in Cell, NEW d \in Cell, MoveItem(p, c, d)
      PROVE  IInv'
  <2>1. [type |-> "MOVE", from |-> c, to |-> d] \in UpMsg
    BY DEF UpMsg
  <2> QED BY <1>2, <1>6, <2>1, RequestInv DEF MoveItem, ViewerAsks
<1>7. ASSUME NEW g \in Amount, GiveGold(p, g)
      PROVE  IInv'
  <2>1. g \in Nat
    BY ConstantTypes DEF Amount
  <2>2. [type |-> "GIVE_GOLD", gold |-> g] \in UpMsg
    BY <2>1 DEF UpMsg
  <2>3. purse[p] - g \in Nat
    BY <1>2, <1>7, <2>1 DEF GiveGold
  <2>4. purse' \in [Player -> Nat]
    BY <1>2, <1>7, <2>3 DEF GiveGold
  <2> QED BY <1>2, <1>7, <2>2, <2>4, RequestInv DEF GiveGold, ViewerAsks
<1>8. ASSUME NEW g \in Amount, TakeGold(p, g)
      PROVE  IInv'
  <2>1. g \in Nat
    BY ConstantTypes DEF Amount
  <2>2. [type |-> "GET_GOLD", pid |-> p, login |-> login[p], gold |-> g] \in UpMsg
    BY <1>2, <2>1 DEF UpMsg
  <2> QED BY <1>2, <1>8, <2>2, RequestInv DEF TakeGold, ViewerAsks
<1> QED BY <1>3, <1>4, <1>5, <1>6, <1>7, <1>8

LEMMA ChangesInv ==
    ASSUME IInv, NEW c \in Core, Changes(c)
    PROVE  IInv'
<1>1. Rest /\ Typed
  BY InvParts DEF IInv
<1>2. Take(c, {"SET", "DEL", "GOLD", "LOADED"})
      /\ UNCHANGED <<up, has, dirty, purse, gone>>
  BY DEF Changes
<1>3. /\ down' \in [Core -> Seq(DownMsg)]
      /\ UNCHANGED <<box, grid, unsaved, gold, watchers>>
      /\ UNCHANGED <<row, entry, due, cached, out, logon, core, login, late, events>>
  BY <1>1, <1>2, Taken
<1>4. Rest'
  BY <1>1, <1>2, <1>3 DEF Rest
<1> QED BY <1>3, <1>4, SameBooks

LEMMA GiveInv ==
    ASSUME IInv, NEW c \in Core, Give(c)
    PROVE  IInv'
<1> DEFINE m == Head(down[c])
<1>1. Rest /\ Typed
  BY InvParts DEF IInv
<1>2. Take(c, {"GIVE"}) /\ UNCHANGED <<up, purse>>
  BY DEF Give
<1>3. /\ m \in DownMsg /\ m.type = "GIVE"
      /\ down' \in [Core -> Seq(DownMsg)]
      /\ UNCHANGED <<box, grid, unsaved, gold, watchers>>
      /\ UNCHANGED <<row, entry, due, cached, out, logon, core, login, late, events>>
  BY <1>1, <1>2, Taken
<1>4. m.pid \in Player /\ m.item \in Item
  BY <1>3, DownMsgFields
<1>5. /\ has' \in [Player -> SUBSET Item] /\ dirty' \in [Player -> SUBSET Item]
      /\ gone' \subseteq Item
  <2>1. CASE StillThere(c, m) /\ m.item \notin OnCore(c)
    <3>1. /\ has' = [has EXCEPT ![m.pid] = @ \cup {m.item}]
          /\ dirty' = [dirty EXCEPT ![m.pid] = @ \cup {m.item}]
          /\ UNCHANGED gone
      BY <2>1 DEF Give
    <3> HIDE DEF m
    <3> QED BY <1>1, <1>4, <3>1 DEF Rest
  <2>2. CASE ~(StillThere(c, m) /\ m.item \notin OnCore(c))
    <3>1. gone' = gone \cup {m.item} /\ UNCHANGED <<has, dirty>>
      BY <2>2 DEF Give
    <3> HIDE DEF m
    <3> QED BY <1>1, <1>4, <3>1 DEF Rest
  <2> QED BY <2>1, <2>2
<1>6. Rest'
  BY <1>1, <1>2, <1>3, <1>5 DEF Rest
<1> QED BY <1>3, <1>6, SameBooks

LEMMA PayInv ==
    ASSUME IInv, NEW c \in Core, Pay(c)
    PROVE  IInv'
<1> DEFINE m == Head(down[c])
<1>1. Rest /\ Typed
  BY InvParts DEF IInv
<1>2. Take(c, {"PAY"}) /\ UNCHANGED <<has, dirty, gone>>
  BY DEF Pay
<1>3. /\ m \in DownMsg /\ m.type = "PAY"
      /\ down' \in [Core -> Seq(DownMsg)]
      /\ UNCHANGED <<box, grid, unsaved, gold, watchers>>
      /\ UNCHANGED <<row, entry, due, cached, out, logon, core, login, late, events>>
  BY <1>1, <1>2, Taken
<1>4. m.pid \in Player /\ m.gold \in Nat
  BY <1>3, DownMsgFields
<1>5. purse' \in [Player -> Nat] /\ up' \in [Core -> Seq(UpMsg)]
  <2>1. CASE StillThere(c, m)
    <3>1. purse' = [purse EXCEPT ![m.pid] = @ + m.gold] /\ UNCHANGED up
      BY <2>1 DEF Pay
    <3>2. purse[m.pid] + m.gold \in Nat
      BY <1>1, <1>4 DEF Rest
    <3> HIDE DEF m
    <3> QED BY <1>1, <1>4, <3>1, <3>2 DEF Rest
  <2>2. CASE ~StillThere(c, m)
    <3>1. Sends(c, [type |-> "GIVE_GOLD", gold |-> m.gold]) /\ UNCHANGED purse
      BY <2>2 DEF Pay
    <3>2. [type |-> "GIVE_GOLD", gold |-> m.gold] \in UpMsg
      BY <1>4 DEF UpMsg
    <3> HIDE DEF m
    <3> QED BY <1>1, <3>1, <3>2, AppendUp DEF Rest, Sends
  <2> QED BY <2>1, <2>2
<1>6. Rest'
  BY <1>1, <1>2, <1>3, <1>5 DEF Rest
<1> QED BY <1>3, <1>6, SameBooks

LEMMA LinkLossInv ==
    ASSUME IInv, NEW c \in Core, LinkLoss(c)
    PROVE  IInv'
<1>1. Rest
  BY InvParts
<1>2. <<>> \in Seq(UpMsg) /\ <<>> \in Seq(DownMsg)
  OBVIOUS
<1>3. up' \in [Core -> Seq(UpMsg)] /\ down' \in [Core -> Seq(DownMsg)]
  BY <1>1, <1>2 DEF Rest, LinkLoss
<1>4. watchers' \subseteq Core /\ logon' \subseteq Player /\ gone' \subseteq Item
  BY <1>1 DEF Rest, LinkLoss
<1>5. events' \in 0 .. MaxEvent
  BY <1>1, CountedType DEF LinkLoss
<1>6. Rest'
  BY <1>1, <1>3, <1>4, <1>5 DEF Rest, LinkLoss, gameVars
<1> QED BY <1>6, SameBooks DEF LinkLoss

-----------------------------------------------------------------------------
LEMMA InitInv == Init => IInv
<1> SUFFICES ASSUME Init PROVE IInv
  OBVIOUS
<1>1. InBox \subseteq Item /\ 0 \in 0 .. MaxEvent
  BY ConstantTypes
<1>2. box \in [Cell -> Item \cup {NoItem}]
  BY <1>1 DEF Init
<1>3. grid \subseteq Cell
  <2>1. \A c \in Cell : box[c] # NoItem => box[c] \in Item /\ Fits(c, box[c])
    BY <1>2 DEF Init, Filled
  <2>2. \A c \in Cell : box[c] # NoItem => Span(c, box[c]) \subseteq Cell
    BY <2>1, SpanInCells
  <2> QED BY <1>2, <2>2, InCovered DEF Init
<1>4. Books(box, grid, unsaved)
  BY <1>2, <1>3 DEF Init, Books, Filled
<1>5. Rest
  <2>1. \A c \in Core : up[c] = <<>> /\ down[c] = <<>>
    BY DEF Init
  <2>2. up \in [Core -> Seq(UpMsg)] /\ down \in [Core -> Seq(DownMsg)]
    BY DEF Init
  <2> QED BY <1>1, <2>2, ConstantTypes DEF Init, Rest
<1> QED BY <1>4, <1>5, InvParts

LEMMA NextInv == IInv /\ [Next]_vars => IInv'
<1> SUFFICES ASSUME IInv, [Next]_vars PROVE IInv'
  OBVIOUS
<1>1. CASE Db
  <2>1. ASSUME NEW c \in Core,
               \/ GUILD_SAFEBOX_ADD(c) \/ GUILD_SAFEBOX_MOVE(c) \/ GUILD_SAFEBOX_TAKE(c)
               \/ GUILD_SAFEBOX_GIVE_GOLD(c) \/ GUILD_SAFEBOX_GET_GOLD(c)
               \/ GUILD_SAFEBOX_LOAD(c)
               \/ QUERY_ITEM_SAVE(c) \/ QUERY_LOGOUT(c)
        PROVE  IInv'
    BY <2>1, AddInv, MoveInv, TakeInv, GiveGoldInv, GetGoldInv, LoadInv,
       ItemSaveInv, QueryLogoutInv
  <2>2. ASSUME NEW S \in SUBSET unsaved, FlushItems(S)
        PROVE  IInv'
    BY <2>2, FlushItemsInv
  <2>3. CASE \/ \E i \in Item : UpdateItemCache(i)
             \/ \E p \in Player : UpdateLogoutPlayer(p)
    BY <2>3, WriteBackInv
  <2> QED BY <1>1, <2>1, <2>2, <2>3 DEF Db
<1>2. CASE Game
  <2>1. ASSUME NEW p \in Player,
               (\E c \in Core : Login(p, c)) \/ Logout(p)
               \/ \E I \in SUBSET dirty[p] : SaveItems(p, I)
        PROVE  IInv'
    BY <2>1, LoginInv, OfflineInv
  <2>2. ASSUME NEW p \in Player,
               \/ OpenSafebox(p)
               \/ \E i \in Item, c \in Cell : CheckInItem(p, i, c)
               \/ \E c \in Cell : CheckOutItem(p, c)
               \/ \E c, d \in Cell : MoveItem(p, c, d)
               \/ \E g \in Amount : GiveGold(p, g) \/ TakeGold(p, g)
        PROVE  IInv'
    BY <2>2, ClientsInv
  <2>3. ASSUME NEW c \in Core, Changes(c) \/ Give(c) \/ Pay(c) \/ LinkLoss(c)
        PROVE  IInv'
    BY <2>3, ChangesInv, GiveInv, PayInv, LinkLossInv
  <2> QED BY <1>2, <2>1, <2>2, <2>3 DEF Game
<1>3. CASE UNCHANGED vars
  <2>1. Rest'
    BY <1>3, InvParts DEF vars, boxVars, rowVars, gameVars, history, Rest
  <2> QED BY <1>3, <2>1, SameBooks DEF vars, boxVars
<1> QED BY <1>1, <1>2, <1>3 DEF Next

LEMMA IInvHolds == Spec => []IInv
<1> QED BY InitInv, NextInv, PTL DEF Spec

\* No cell beyond the db's arrays is used and the gold there never goes below
\* zero, in GuildSafeboxManager.cpp and for the gold of players.
THEOREM TypeCorrect == Spec => []Typed
<1>1. IInv => Typed
  BY DEF IInv
<1> QED BY <1>1, IInvHolds, PTL

\* RequestAddItem, RequestMoveItem and RequestTakeItem keep the grid in step with
\* the items, which never overlap, and FlushItems writes only items that are in
\* the box, whatever the cores ask for.
THEOREM BoxBooksAgree == Spec => []BoxBooks
<1>1. IInv => BoxBooks
  BY DEF IInv
<1> QED BY <1>1, IInvHolds, PTL
-----------------------------------------------------------------------------
(***************************************************************************)
(* Where an item is: in the safebox, on its way out of it, or a player's.   *)
(***************************************************************************)

\* A packet of M is in queue q; none of A comes after one of B.
Some(q, M) == \E n \in DOMAIN q : q[n] \in M
NoneAfter(q, A, B) == \A j, k \in DOMAIN q : q[j] \in A /\ q[k] \in B => j <= k

OwnOf(p) == {m \in UpMsg : m.type \in {"ADD", "SAVE", "LOGOUT"} /\ m.pid = p}
LogoutOf(p) == {m \in UpMsg : m.type = "LOGOUT" /\ m.pid = p}
CarrierOf(i) == {m \in UpMsg : Carries(m, i)}
AddOf(i) == {m \in UpMsg : m.type = "ADD" /\ m.item = i}
GiveOf(i) == {m \in DownMsg : m.type = "GIVE" /\ m.item = i}

\* A player on a core is logged on for the db, and the db has a cache for one who
\* is logged on and for one who is in the item cache.
SessionsInv ==
    /\ \A p \in Player : core[p] # NoCore => p \in logon
    /\ logon \subseteq cached /\ logon \cap out = {}
    /\ \A i \in Item : entry[i] # NoOne => entry[i] \in cached
    /\ \A i \in due : entry[i] # NoOne
    /\ \A p \in Player : dirty[p] \subseteq has[p]
    /\ \A p \in Player : core[p] = NoCore => has[p] = {}

\* Packets with items of player p are on one connection, that of the core he is on
\* if he is on one; the db has him logged on as long as there are some, and his
\* LOGOUT, which he sends when he leaves, is the last.
PacketsOf(p) ==
    \A c \in Core :
        /\ Some(up[c], OwnOf(p)) =>
            /\ p \in logon /\ core[p] \in {c, NoCore}
            /\ \A d \in Core : Some(up[d], OwnOf(p)) => d = c
        /\ Some(up[c], LogoutOf(p)) => core[p] = NoCore
        /\ NoneAfter(up[c], OwnOf(p), LogoutOf(p))
PacketsInv == \A p \in Player : PacketsOf(p)

\* Item i is in cell d, and nowhere else, and its row is the guild's or will be.
Boxed(i, d) ==
    /\ box[d] = i /\ (d \in unsaved \/ row[i] = Guild)
    /\ \A e \in Cell : box[e] = i => e = d
    /\ \A c \in Core : ~Some(down[c], GiveOf(i)) /\ ~Some(up[c], CarrierOf(i))
    /\ entry[i] = NoOne
    /\ \A p \in Player : i \notin has[p]

\* It is on its way out, to core c.
Given(i, c) ==
    /\ Some(down[c], GiveOf(i)) /\ NoneAfter(down[c], GiveOf(i), GiveOf(i))
    /\ \A b \in Core : Some(down[b], GiveOf(i)) => b = c
    /\ \A e \in Cell : box[e] # i
    /\ \A b \in Core : ~Some(up[b], CarrierOf(i))
    /\ entry[i] = NoOne
    /\ \A p \in Player : i \notin has[p]

\* It is player p's: he has it, or an ADD has it after all saves, or he is offline;
\* and the db knows, or will know.
OfPlayer(i, p) ==
    /\ \A e \in Cell : box[e] # i
    /\ \A c \in Core : ~Some(down[c], GiveOf(i))
    /\ \A q \in Player : i \in has[q] => q = p
    /\ \A c \in Core :
        /\ ~Some(up[c], CarrierOf(i) \ OwnOf(p))
        /\ NoneAfter(up[c], CarrierOf(i), AddOf(i))
        /\ Some(up[c], AddOf(i)) => i \notin has[p]
    /\ i \in has[p] \/ core[p] = NoCore \/ \E c \in Core : Some(up[c], AddOf(i))
    /\ entry[i] \in {NoOne, p}
    /\ entry[i] = p => i \in due \/ row[i] = p
    /\ \/ i \in dirty[p] \/ entry[i] = p
       \/ \E c \in Core : Some(up[c], CarrierOf(i))
       \/ p \notin cached /\ row[i] = p

Where(i) ==
    \/ \E d \in Cell : Boxed(i, d)
    \/ \E c \in Core : Given(i, c)
    \/ \E p \in Player : OfPlayer(i, p)
WhereInv == \A i \in Item \ (late \cup gone) : Where(i)

-----------------------------------------------------------------------------
(***************************************************************************)
(* Queues.                                                                  *)
(***************************************************************************)

LEMMA AppendAt ==
    ASSUME NEW T, NEW q \in Seq(T), NEW m \in T
    PROVE  /\ \A M : Some(Append(q, m), M) <=> Some(q, M) \/ m \in M
           /\ \A A, B : NoneAfter(q, A, B) /\ ~(m \in A /\ Some(q, B))
                  => NoneAfter(Append(q, m), A, B)
<1>1. /\ Len(q) \in Nat /\ DOMAIN q = 1 .. Len(q)
      /\ DOMAIN Append(q, m) = 1 .. Len(q) + 1
      /\ \A i \in 1 .. Len(q) : Append(q, m)[i] = q[i]
      /\ Append(q, m)[Len(q) + 1] = m
  OBVIOUS
<1>2. \A i \in 1 .. Len(q) + 1 : i \in 1 .. Len(q) \/ i = Len(q) + 1
  BY <1>1
<1>3. /\ 1 .. Len(q) \subseteq 1 .. Len(q) + 1 /\ Len(q) + 1 \in 1 .. Len(q) + 1
      /\ \A i \in 1 .. Len(q) + 1 : i <= Len(q) + 1
  BY <1>1
<1>4. ASSUME NEW M
      PROVE  Some(Append(q, m), M) <=> Some(q, M) \/ m \in M
  BY <1>1, <1>2, <1>3, Zenon DEF Some
<1>5. ASSUME NEW A, NEW B, NoneAfter(q, A, B), ~(m \in A /\ Some(q, B))
      PROVE  NoneAfter(Append(q, m), A, B)
  <2> SUFFICES ASSUME NEW j \in 1 .. Len(q) + 1, NEW k \in 1 .. Len(q) + 1,
                      Append(q, m)[j] \in A, Append(q, m)[k] \in B
               PROVE  j <= k
    BY <1>1 DEF NoneAfter
  <2>1. CASE k = Len(q) + 1
    BY <2>1, <1>3
  <2>2. CASE k \in 1 .. Len(q) /\ j \in 1 .. Len(q)
    BY <2>2, <1>1, <1>5 DEF NoneAfter
  <2>3. CASE k \in 1 .. Len(q) /\ j = Len(q) + 1
    BY <2>3, <1>1, <1>5 DEF Some
  <2> QED BY <2>1, <2>2, <2>3, <1>2
<1> QED BY <1>4, <1>5

LEMMA TailAt ==
    ASSUME NEW T, NEW q \in Seq(T), q # <<>>
    PROVE  /\ \A M : Some(q, M) <=> Head(q) \in M \/ Some(Tail(q), M)
           /\ \A A, B : NoneAfter(q, A, B)
                  => NoneAfter(Tail(q), A, B) /\ (Head(q) \in B => ~Some(Tail(q), A))
<1>1. /\ Len(q) \in Nat /\ Len(q) > 0 /\ Head(q) = q[1]
      /\ DOMAIN q = 1 .. Len(q) /\ DOMAIN Tail(q) = 1 .. Len(q) - 1
      /\ \A i \in 1 .. Len(q) - 1 : Tail(q)[i] = q[i + 1]
  OBVIOUS
<1>2. \A i \in 1 .. Len(q) - 1 : i + 1 \in 1 .. Len(q) /\ ~(i + 1 <= 1)
  BY <1>1
<1>3. \A i \in 1 .. Len(q) : i = 1 \/ (i - 1 \in 1 .. Len(q) - 1 /\ q[i] = Tail(q)[i - 1])
  BY <1>1
<1>4. 1 \in 1 .. Len(q)
  BY <1>1
<1>5. ASSUME NEW M
      PROVE  Some(q, M) <=> Head(q) \in M \/ Some(Tail(q), M)
  BY <1>1, <1>2, <1>3, <1>4, Zenon DEF Some
<1>6. ASSUME NEW A, NEW B, NoneAfter(q, A, B)
      PROVE  NoneAfter(Tail(q), A, B) /\ (Head(q) \in B => ~Some(Tail(q), A))
  <2>1. ASSUME NEW j \in 1 .. Len(q) - 1, NEW k \in 1 .. Len(q) - 1,
               Tail(q)[j] \in A, Tail(q)[k] \in B
        PROVE  j <= k
    <3>1. j + 1 <= k + 1
      BY <1>1, <1>2, <1>6, <2>1 DEF NoneAfter
    <3> QED BY <3>1
  <2>2. ASSUME Head(q) \in B, NEW j \in 1 .. Len(q) - 1, Tail(q)[j] \in A
        PROVE  FALSE
    <3>1. j + 1 <= 1
      BY <1>1, <1>2, <1>4, <1>6, <2>2 DEF NoneAfter
    <3> QED BY <1>2, <3>1
  <2> QED BY <1>1, <2>1, <2>2, Zenon DEF Some, NoneAfter
<1> QED BY <1>5, <1>6

LEMMA EmptyAt ==
    /\ \A M : ~Some(<<>>, M)
    /\ \A A, B : NoneAfter(<<>>, A, B)
  BY DEF Some, NoneAfter

\* Packets that are not of O are added at the end.
LEMMA ConcatAt ==
    ASSUME NEW T, NEW q \in Seq(T), NEW p \in Seq(T), NEW O, ~Some(p, O)
    PROVE  /\ \A M \in SUBSET O : Some(q \o p, M) <=> Some(q, M)
           /\ \A A, B \in SUBSET O : NoneAfter(q, A, B) => NoneAfter(q \o p, A, B)
<1>1. /\ Len(q) \in Nat /\ Len(p) \in Nat
      /\ DOMAIN q = 1 .. Len(q) /\ DOMAIN p = 1 .. Len(p)
      /\ DOMAIN (q \o p) = 1 .. Len(q) + Len(p)
      /\ \A i \in 1 .. Len(q) : (q \o p)[i] = q[i]
      /\ \A i \in 1 .. Len(p) : (q \o p)[Len(q) + i] = p[i]
  OBVIOUS
<1>2. ASSUME NEW i \in 1 .. Len(q) + Len(p), (q \o p)[i] \in O
      PROVE  i \in 1 .. Len(q)
  <2> SUFFICES ASSUME i \notin 1 .. Len(q) PROVE FALSE
    OBVIOUS
  <2>1. i - Len(q) \in 1 .. Len(p) /\ i = Len(q) + (i - Len(q))
    BY <1>1
  <2>2. p[i - Len(q)] \in O
    BY <1>1, <1>2, <2>1
  <2> QED BY <1>1, <2>1, <2>2 DEF Some
<1>3. 1 .. Len(q) \subseteq 1 .. Len(q) + Len(p)
  BY <1>1
<1>4. ASSUME NEW M \in SUBSET O
      PROVE  Some(q \o p, M) <=> Some(q, M)
  BY <1>1, <1>2, <1>3 DEF Some
<1>5. ASSUME NEW A \in SUBSET O, NEW B \in SUBSET O, NoneAfter(q, A, B)
      PROVE  NoneAfter(q \o p, A, B)
  BY <1>1, <1>2, <1>3, <1>5 DEF NoneAfter
<1> QED BY <1>4, <1>5

\* Packets of O are in the same order, and on the same connections, in u and v.
Quiet(u, v, O) ==
    \A c \in Core :
        /\ \A M \in SUBSET O : Some(v[c], M) <=> Some(u[c], M)
        /\ \A A, B \in SUBSET O : NoneAfter(u[c], A, B) => NoneAfter(v[c], A, B)

LEMMA QuietSame == \A u, O : Quiet(u, u, O)
  BY DEF Quiet

LEMMA QuietTail ==
    ASSUME NEW T, NEW u \in [Core -> Seq(T)], NEW c \in Core, u[c] # <<>>,
           NEW O, Head(u[c]) \notin O
    PROVE  Quiet(u, [u EXCEPT ![c] = Tail(@)], O)
<1>1. u[c] \in Seq(T)
  OBVIOUS
<1>2. \A M \in SUBSET O : Some(Tail(u[c]), M) <=> Some(u[c], M)
  BY <1>1, TailAt
<1>3. \A A, B \in SUBSET O : NoneAfter(u[c], A, B) => NoneAfter(Tail(u[c]), A, B)
  BY <1>1, TailAt
<1> QED BY <1>2, <1>3 DEF Quiet

LEMMA QuietAppend ==
    ASSUME NEW T, NEW u \in [Core -> Seq(T)], NEW c \in Core, NEW m \in T,
           NEW O, m \notin O
    PROVE  Quiet(u, [u EXCEPT ![c] = Append(@, m)], O)
<1>1. u[c] \in Seq(T)
  OBVIOUS
<1>2. \A M \in SUBSET O : Some(Append(u[c], m), M) <=> Some(u[c], M)
  BY <1>1, AppendAt
<1>3. \A A, B \in SUBSET O : NoneAfter(u[c], A, B) => NoneAfter(Append(u[c], m), A, B)
  BY <1>1, AppendAt
<1> QED BY <1>2, <1>3 DEF Quiet

LEMMA QuietChain ==
    ASSUME NEW u, NEW v, NEW w, NEW O, Quiet(u, v, O), Quiet(v, w, O)
    PROVE  Quiet(u, w, O)
  BY DEF Quiet

LEMMA QuietChanged ==
    ASSUME Typed, NEW c \in Core, NEW ms \in Seq(DownMsg), NEW O, ~Some(ms, O)
    PROVE  Quiet(down, Changed(c, ms), O)
<1>1. \A b \in Core : down[b] \in Seq(DownMsg)
  BY DEF Typed
<1>2. \A b \in Core : Changed(c, ms)[b] = down[b] \/ Changed(c, ms)[b] = down[b] \o ms
  BY DEF Changed
<1>3. ASSUME NEW b \in Core
      PROVE  /\ \A M \in SUBSET O : Some(Changed(c, ms)[b], M) <=> Some(down[b], M)
             /\ \A A, B \in SUBSET O :
                   NoneAfter(down[b], A, B) => NoneAfter(Changed(c, ms)[b], A, B)
  <2>1. /\ \A M \in SUBSET O : Some(down[b] \o ms, M) <=> Some(down[b], M)
        /\ \A A, B \in SUBSET O : NoneAfter(down[b], A, B) => NoneAfter(down[b] \o ms, A, B)
    BY <1>1, ConcatAt
  <2> QED BY <1>2, <2>1
<1> QED BY <1>3 DEF Quiet

-----------------------------------------------------------------------------
(***************************************************************************)
(* Packets with items.                                                      *)
(***************************************************************************)

LEMMA OwnSets ==
    /\ \A p \in Player : LogoutOf(p) \subseteq OwnOf(p)
    /\ \A i \in Item : AddOf(i) \subseteq CarrierOf(i)
    /\ \A p \in Player, i \in Item : CarrierOf(i) \ OwnOf(p) \subseteq CarrierOf(i)
  BY DEF LogoutOf, OwnOf, AddOf, CarrierOf, Carries

\* A packet without items.
LEMMA PlainUp ==
    ASSUME NEW m \in UpMsg, m.type \in {"TAKE", "MOVE", "GIVE_GOLD", "GET_GOLD", "LOAD"}
    PROVE  /\ \A p : m \notin OwnOf(p)
           /\ \A i : m \notin CarrierOf(i)
  BY DEF OwnOf, CarrierOf, Carries

LEMMA AddUp ==
    ASSUME NEW m \in UpMsg, m.type = "ADD"
    PROVE  /\ \A p : (m \in OwnOf(p) <=> p = m.pid) /\ m \notin LogoutOf(p)
           /\ \A i : (m \in CarrierOf(i) <=> i = m.item) /\ (m \in AddOf(i) <=> i = m.item)
  BY DEF OwnOf, LogoutOf, CarrierOf, AddOf, Carries

LEMMA SaveUp ==
    ASSUME NEW m \in UpMsg, m.type \in {"SAVE", "LOGOUT"}
    PROVE  /\ \A p : (m \in OwnOf(p) <=> p = m.pid)
                     /\ (m \in LogoutOf(p) <=> m.type = "LOGOUT" /\ p = m.pid)
           /\ \A i : (m \in CarrierOf(i) <=> i \in m.items) /\ m \notin AddOf(i)
  BY DEF OwnOf, LogoutOf, CarrierOf, AddOf, Carries

LEMMA GiveDown ==
    ASSUME NEW m \in DownMsg
    PROVE  \A i : m \in GiveOf(i) <=> m.type = "GIVE" /\ m.item = i
  BY DEF GiveOf

\* What the db forwards to the watchers gives nobody an item.
LEMMA NewsDown ==
    /\ \A c \in Cell, i \in Item : \A j : SetCell(c, i) \notin GiveOf(j)
    /\ \A c \in Cell : \A j : DelCell(c) \notin GiveOf(j)
    /\ \A g \in Nat : \A j : SetGold(g) \notin GiveOf(j)
  BY DEF SetCell, DelCell, SetGold, GiveOf

LEMMA ShortAt ==
    ASSUME NEW M
    PROVE  /\ \A m : Some(<<m>>, M) <=> m \in M
           /\ \A m, n : Some(<<m, n>>, M) <=> m \in M \/ n \in M
<1>1. \A m, n : /\ DOMAIN <<m>> = {1} /\ DOMAIN <<m, n>> = {1, 2}
                /\ <<m>>[1] = m /\ <<m, n>>[1] = m /\ <<m, n>>[2] = n
  OBVIOUS
<1> QED BY <1>1 DEF Some

\* The model's test for an item on its way is the one of the invariant.
LEMMA InQueueUp ==
    ASSUME Typed, NEW c \in Core, NEW i \in Item
    PROVE  InQueue(up[c], i) <=> Some(up[c], CarrierOf(i))
<1>1. up[c] \in Seq(UpMsg)
  BY DEF Typed
<1>2. /\ DOMAIN up[c] = 1 .. Len(up[c])
      /\ \A n \in 1 .. Len(up[c]) : up[c][n] \in UpMsg
  BY <1>1
<1> QED BY <1>2, Zenon DEF InQueue, Some, CarrierOf

LEMMA InQueueDown ==
    ASSUME Typed, NEW c \in Core, NEW i \in Item, Some(down[c], GiveOf(i))
    PROVE  InQueue(down[c], i)
<1>1. down[c] \in Seq(DownMsg)
  BY DEF Typed
<1>2. DOMAIN down[c] = 1 .. Len(down[c])
  BY <1>1
<1> QED BY <1>2 DEF InQueue, Some, GiveOf, Carries

-----------------------------------------------------------------------------
(***************************************************************************)
(* What keeps the parts of the invariant.                                   *)
(***************************************************************************)

ItemsInv == IInv /\ SessionsInv /\ PacketsInv /\ WhereInv
Next3 == SessionsInv' /\ PacketsInv' /\ WhereInv'

LEMMA BoxedKept ==
    ASSUME NEW i \in Item, NEW d \in Cell, Boxed(i, d),
           \A e \in Cell : box'[e] = i <=> box[e] = i,
           d \in unsaved => d \in unsaved' \/ row'[i] = Guild,
           row[i] = Guild => row'[i] = Guild,
           entry'[i] = entry[i],
           \A p \in Player : i \in has'[p] => i \in has[p],
           \A c \in Core : Some(down'[c], GiveOf(i)) => Some(down[c], GiveOf(i)),
           \A c \in Core : Some(up'[c], CarrierOf(i)) => Some(up[c], CarrierOf(i))
    PROVE  Boxed(i, d)'
  BY DEF Boxed

LEMMA GivenKept ==
    ASSUME NEW i \in Item, NEW c \in Core, Given(i, c),
           \A e \in Cell : box'[e] = i => box[e] = i,
           entry'[i] = entry[i],
           \A p \in Player : i \in has'[p] => i \in has[p],
           Quiet(down, down', GiveOf(i)),
           \A b \in Core : Some(up'[b], CarrierOf(i)) => Some(up[b], CarrierOf(i))
    PROVE  Given(i, c)'
<1>1. GiveOf(i) \in SUBSET GiveOf(i)
  OBVIOUS
<1>2. \A b \in Core : /\ Some(down'[b], GiveOf(i)) <=> Some(down[b], GiveOf(i))
                      /\ NoneAfter(down[b], GiveOf(i), GiveOf(i))
                         => NoneAfter(down'[b], GiveOf(i), GiveOf(i))
  BY <1>1 DEF Quiet
<1> QED BY <1>2 DEF Given

LEMMA OfPlayerKept ==
    ASSUME NEW i \in Item, NEW p \in Player, OfPlayer(i, p),
           \A e \in Cell : box'[e] = i => box[e] = i,
           entry'[i] = entry[i], row'[i] = row[i], i \in due' <=> i \in due,
           \A q \in Player : i \in has'[q] <=> i \in has[q],
           i \in dirty[p] => i \in dirty'[p],
           core[p] = NoCore => core'[p] = NoCore,
           p \notin cached => p \notin cached',
           \A c \in Core : Some(down'[c], GiveOf(i)) => Some(down[c], GiveOf(i)),
           Quiet(up, up', CarrierOf(i))
    PROVE  OfPlayer(i, p)'
<1>1. \A c \in Core :
        /\ Some(up'[c], CarrierOf(i)) <=> Some(up[c], CarrierOf(i))
        /\ Some(up'[c], AddOf(i)) <=> Some(up[c], AddOf(i))
        /\ Some(up'[c], CarrierOf(i) \ OwnOf(p)) <=> Some(up[c], CarrierOf(i) \ OwnOf(p))
        /\ NoneAfter(up[c], CarrierOf(i), AddOf(i)) => NoneAfter(up'[c], CarrierOf(i), AddOf(i))
  BY OwnSets DEF Quiet
<1> QED BY <1>1 DEF OfPlayer

\* The step does not concern item i.
LEMMA WhereKept ==
    ASSUME NEW i \in Item, Where(i),
           \A e \in Cell : box'[e] = i <=> box[e] = i,
           \A e \in Cell : box[e] = i /\ e \in unsaved => e \in unsaved',
           entry'[i] = entry[i], row'[i] = row[i], i \in due' <=> i \in due,
           \A q \in Player : (i \in has'[q] <=> i \in has[q])
                             /\ (i \in dirty[q] => i \in dirty'[q]),
           \A p \in Player : core[p] = NoCore => core'[p] = NoCore,
           \A p \in Player : p \notin cached => p \notin cached',
           Quiet(down, down', GiveOf(i)), Quiet(up, up', CarrierOf(i))
    PROVE  Where(i)'
<1>1. \A c \in Core : /\ Some(down'[c], GiveOf(i)) <=> Some(down[c], GiveOf(i))
                      /\ Some(up'[c], CarrierOf(i)) <=> Some(up[c], CarrierOf(i))
  BY DEF Quiet
<1>2. ASSUME NEW d \in Cell, Boxed(i, d) PROVE Boxed(i, d)'
  <2>1. box[d] = i
    BY <1>2 DEF Boxed
  <2> QED BY <1>1, <1>2, <2>1, BoxedKept
<1>3. ASSUME NEW c \in Core, Given(i, c) PROVE Given(i, c)'
  BY <1>1, <1>3, GivenKept
<1>4. ASSUME NEW p \in Player, OfPlayer(i, p) PROVE OfPlayer(i, p)'
  BY <1>1, <1>4, OfPlayerKept
<1> QED BY <1>2, <1>3, <1>4 DEF Where

LEMMA PacketsKept ==
    ASSUME NEW p \in Player, PacketsOf(p), Quiet(up, up', OwnOf(p)),
           p \in logon => p \in logon', core'[p] = core[p]
    PROVE  PacketsOf(p)'
<1>1. \A c \in Core :
        /\ Some(up'[c], OwnOf(p)) <=> Some(up[c], OwnOf(p))
        /\ Some(up'[c], LogoutOf(p)) <=> Some(up[c], LogoutOf(p))
        /\ NoneAfter(up[c], OwnOf(p), LogoutOf(p)) => NoneAfter(up'[c], OwnOf(p), LogoutOf(p))
  <2>1. OwnOf(p) \in SUBSET OwnOf(p) /\ LogoutOf(p) \in SUBSET OwnOf(p)
    BY DEF OwnOf, LogoutOf
  <2> QED BY <2>1 DEF Quiet
<1> QED BY <1>1 DEF PacketsOf

\* A step that moves no item and no player.
LEMMA PlainStep ==
    ASSUME ItemsInv,
           \A p \in Player : Quiet(up, up', OwnOf(p)),
           \A i \in Item : Quiet(up, up', CarrierOf(i)),
           \A i \in Item : Quiet(down, down', GiveOf(i)),
           UNCHANGED <<box, unsaved, row, entry, due, cached, out, logon, core, has,
                       dirty, late, gone>>
    PROVE  Next3
<1>1. SessionsInv'
  BY DEF ItemsInv, SessionsInv
<1>2. PacketsInv'
  BY PacketsKept DEF ItemsInv, PacketsInv
<1>3. WhereInv'
  <2> SUFFICES ASSUME NEW i \in Item \ (late \cup gone) PROVE Where(i)'
    BY DEF WhereInv
  <2>1. Where(i)
    BY DEF ItemsInv, WhereInv
  <2> QED BY <2>1, WhereKept
<1> QED BY <1>1, <1>2, <1>3 DEF Next3

\* What becomes of the packets when the db takes the head of a queue.
LEMMA HeadTaken ==
    ASSUME Typed, NEW c \in Core, NEW type, Receive(c, type)
    PROVE  /\ \A O : Head(up[c]) \notin O => Quiet(up, up', O)
           /\ \A b \in Core : \A M :
                /\ Some(up'[b], M) => Some(up[b], M)
                /\ Some(up[b], M) => Some(up'[b], M) \/ (b = c /\ Head(up[c]) \in M)
           /\ \A M : Head(up[c]) \in M => Some(up[c], M)
           /\ \A b \in Core : \A A, B : NoneAfter(up[b], A, B) => NoneAfter(up'[b], A, B)
           /\ \A A, B : NoneAfter(up[c], A, B) /\ Head(up[c]) \in B => ~Some(up'[c], A)
<1>1. up \in [Core -> Seq(UpMsg)] /\ up[c] \in Seq(UpMsg) /\ up[c] # <<>>
      /\ up' = [up EXCEPT ![c] = Tail(@)]
  BY DEF Receive, Typed
<1>2. up'[c] = Tail(up[c]) /\ \A b \in Core : b # c => up'[b] = up[b]
  BY <1>1
<1>3. ASSUME NEW O, Head(up[c]) \notin O PROVE Quiet(up, up', O)
  BY <1>1, <1>3, QuietTail
<1>4. /\ \A M : Some(up[c], M) <=> Head(up[c]) \in M \/ Some(Tail(up[c]), M)
      /\ \A A, B : NoneAfter(up[c], A, B)
             => NoneAfter(Tail(up[c]), A, B) /\ (Head(up[c]) \in B => ~Some(Tail(up[c]), A))
  BY <1>1, TailAt
<1>5. ASSUME NEW b \in Core, NEW M
      PROVE  /\ Some(up'[b], M) => Some(up[b], M)
             /\ Some(up[b], M) => Some(up'[b], M) \/ (b = c /\ Head(up[c]) \in M)
  BY <1>2, <1>4
<1>6. ASSUME NEW b \in Core, NEW A, NEW B, NoneAfter(up[b], A, B)
      PROVE  NoneAfter(up'[b], A, B)
  BY <1>2, <1>4, <1>6
<1> QED BY <1>2, <1>3, <1>4, <1>5, <1>6

\* What a packet at the end of a queue changes.
Added(u, v, c, m) ==
    /\ \A O : m \notin O => Quiet(u, v, O)
    /\ \A b \in Core : \A M : Some(v[b], M) <=> Some(u[b], M) \/ (b = c /\ m \in M)
    /\ \A b \in Core : \A A, B : NoneAfter(u[b], A, B) /\ ~(b = c /\ m \in A /\ Some(u[b], B))
           => NoneAfter(v[b], A, B)

LEMMA PutUp ==
    ASSUME NEW u \in [Core -> Seq(UpMsg)], NEW c \in Core, NEW m \in UpMsg
    PROVE  Added(u, [u EXCEPT ![c] = Append(@, m)], c, m)
<1> DEFINE v == [u EXCEPT ![c] = Append(@, m)]
<1>1. u[c] \in Seq(UpMsg) /\ v[c] = Append(u[c], m) /\ \A b \in Core : b # c => v[b] = u[b]
  OBVIOUS
<1>2. ASSUME NEW O, m \notin O PROVE Quiet(u, v, O)
  BY <1>2, QuietAppend
<1>3. /\ \A M : Some(Append(u[c], m), M) <=> Some(u[c], M) \/ m \in M
      /\ \A A, B : NoneAfter(u[c], A, B) /\ ~(m \in A /\ Some(u[c], B))
                  => NoneAfter(Append(u[c], m), A, B)
  BY <1>1, AppendAt
<1> HIDE DEF v
<1>4. ASSUME NEW b \in Core, NEW M
      PROVE  Some(v[b], M) <=> Some(u[b], M) \/ (b = c /\ m \in M)
  BY <1>1, <1>3
<1>5. ASSUME NEW b \in Core, NEW A, NEW B, NoneAfter(u[b], A, B),
             ~(b = c /\ m \in A /\ Some(u[b], B))
      PROVE  NoneAfter(v[b], A, B)
  <2>1. CASE b = c
    BY <1>1, <1>3, <1>5, <2>1
  <2>2. CASE b # c
    BY <1>1, <1>5, <2>2
  <2> QED BY <2>1, <2>2
<1>6. Added(u, v, c, m)
  BY <1>2, <1>4, <1>5 DEF Added
<1> QED BY <1>6 DEF v

LEMMA PutDown ==
    ASSUME NEW u \in [Core -> Seq(DownMsg)], NEW c \in Core, NEW m \in DownMsg
    PROVE  Added(u, [u EXCEPT ![c] = Append(@, m)], c, m)
<1> DEFINE v == [u EXCEPT ![c] = Append(@, m)]
<1>1. u[c] \in Seq(DownMsg) /\ v[c] = Append(u[c], m) /\ \A b \in Core : b # c => v[b] = u[b]
  OBVIOUS
<1>2. ASSUME NEW O, m \notin O PROVE Quiet(u, v, O)
  BY <1>2, QuietAppend
<1>3. /\ \A M : Some(Append(u[c], m), M) <=> Some(u[c], M) \/ m \in M
      /\ \A A, B : NoneAfter(u[c], A, B) /\ ~(m \in A /\ Some(u[c], B))
                  => NoneAfter(Append(u[c], m), A, B)
  BY <1>1, AppendAt
<1> HIDE DEF v
<1>4. ASSUME NEW b \in Core, NEW M
      PROVE  Some(v[b], M) <=> Some(u[b], M) \/ (b = c /\ m \in M)
  BY <1>1, <1>3
<1>5. ASSUME NEW b \in Core, NEW A, NEW B, NoneAfter(u[b], A, B),
             ~(b = c /\ m \in A /\ Some(u[b], B))
      PROVE  NoneAfter(v[b], A, B)
  <2>1. CASE b = c
    BY <1>1, <1>3, <1>5, <2>1
  <2>2. CASE b # c
    BY <1>1, <1>5, <2>2
  <2> QED BY <2>1, <2>2
<1>6. Added(u, v, c, m)
  BY <1>2, <1>4, <1>5 DEF Added
<1> QED BY <1>6 DEF v

LEMMA NoneAt ==
    ASSUME NEW q, NEW A, NEW B, ~Some(q, A) \/ ~Some(q, B)
    PROVE  NoneAfter(q, A, B)
  BY DEF Some, NoneAfter

\* A core sends a packet.
LEMMA Sent ==
    ASSUME Typed, NEW c \in Core, NEW m \in UpMsg, Sends(c, m)
    PROVE  Added(up, up', c, m)
<1>1. up \in [Core -> Seq(UpMsg)] /\ up' = [up EXCEPT ![c] = Append(@, m)]
  BY DEF Sends, Typed
<1> QED BY <1>1, PutUp

\* Packets are only taken, and nobody logs out who has some left.
LEMMA PacketsLess ==
    ASSUME PacketsInv,
           \A b \in Core : \A M : Some(up'[b], M) => Some(up[b], M),
           \A b \in Core : \A A, B : NoneAfter(up[b], A, B) => NoneAfter(up'[b], A, B),
           \A b \in Core, p \in Player : Some(up'[b], OwnOf(p)) /\ p \in logon => p \in logon',
           core' = core
    PROVE  PacketsInv'
<1> SUFFICES ASSUME NEW p \in Player PROVE PacketsOf(p)'
  BY DEF PacketsInv
<1>1. PacketsOf(p)
  BY DEF PacketsInv
<1>2. \A b \in Core :
        /\ Some(up'[b], OwnOf(p)) => Some(up[b], OwnOf(p))
        /\ Some(up'[b], LogoutOf(p)) => Some(up[b], LogoutOf(p))
        /\ NoneAfter(up'[b], OwnOf(p), LogoutOf(p))
  BY <1>1 DEF PacketsOf
<1> QED BY <1>1, <1>2 DEF PacketsOf

\* The packets with an item of player p are on one connection.
LEMMA CarrierOwn ==
    ASSUME Typed, PacketsInv, NEW i \in Item, NEW p \in Player, OfPlayer(i, p),
           NEW c \in Core, Some(up[c], CarrierOf(i))
    PROVE  /\ Some(up[c], OwnOf(p))
           /\ p \in logon /\ core[p] \in {c, NoCore}
           /\ \A b \in Core : Some(up[b], CarrierOf(i)) => b = c
<1>1. \A b \in Core : Some(up[b], CarrierOf(i)) => Some(up[b], OwnOf(p))
  BY DEF OfPlayer, Some
<1> QED BY <1>1 DEF PacketsInv, PacketsOf

\* The head of a connection carries item i: it is the sender's.
LEMMA HeadOwner ==
    ASSUME ItemsInv, NEW c \in Core, NEW type, Receive(c, type),
           type \in {"ADD", "SAVE", "LOGOUT"},
           NEW i \in Item \ (late \cup gone), Head(up[c]) \in CarrierOf(i)
    PROVE  OfPlayer(i, Head(up[c]).pid)
<1> DEFINE m == Head(up[c])
<1>1. Typed
  BY DEF ItemsInv, IInv
<1>2. m \in UpMsg /\ m.type = type /\ Some(up[c], CarrierOf(i))
  BY <1>1, Received, HeadTaken
<1>3. PICK p \in Player : OfPlayer(i, p)
  BY <1>2 DEF ItemsInv, WhereInv, Where, Boxed, Given
<1>4. m \in OwnOf(p)
  <2>1. m \notin CarrierOf(i) \ OwnOf(p)
    BY <1>1, <1>3, HeadTaken DEF OfPlayer
  <2> QED BY <2>1
<1>5. m.pid = p
  BY <1>4 DEF OwnOf
<1> QED BY <1>3, <1>5

-----------------------------------------------------------------------------
(***************************************************************************)
(* Items: the safebox of the db.                                            *)
(***************************************************************************)

LEMMA AddItems ==
    ASSUME ItemsInv, NEW c \in Core, GUILD_SAFEBOX_ADD(c)
    PROVE  Next3
<1> DEFINE m == Head(up[c])
<1>1. Typed /\ Books(box, grid, unsaved) /\ SessionsInv /\ PacketsInv
  BY InvParts DEF ItemsInv, IInv
<1>2. Receive(c, "ADD") /\ Forget(m.item) /\ UNCHANGED <<cached, out, logon>>
  BY DEF GUILD_SAFEBOX_ADD
<1>3. /\ m \in UpMsg /\ m.type = "ADD"
      /\ UNCHANGED <<core, login, has, dirty, late, gone>>
  BY <1>1, <1>2, Received
<1>4. m.pid \in Player /\ m.login \in Nat /\ m.item \in Item /\ m.cell \in Cell
  BY <1>3, UpMsgFields
<1>14. PICK j \in Item, k \in Cell : j = m.item /\ k = m.cell
  BY <1>4
<1>5. /\ entry'[j] = NoOne /\ \A i \in Item : i # j => entry'[i] = entry[i]
      /\ \A i \in Item : i # j => (i \in due' <=> i \in due)
      /\ due' = due \ {j} /\ due \subseteq Item
  BY <1>1, <1>2, <1>4, <1>14 DEF Forget, Typed
<1>6. SessionsInv'
  BY <1>1, <1>2, <1>3, <1>5 DEF SessionsInv
<1>7. PacketsInv'
  BY <1>1, <1>2, <1>3, HeadTaken, PacketsLess
<1>8. /\ \A i \in Item : m \in CarrierOf(i) <=> i = j
      /\ m \in AddOf(j)
  BY <1>3, <1>14, AddUp
<1>9. j # NoItem /\ \A i \in Item : i # NoItem
  BY <1>4, ConstantTypes
<1>10. CASE IsFree(k, j)
  <2>1. /\ box' = [box EXCEPT ![k] = j]
        /\ unsaved' = unsaved \cup {k}
        /\ down' = Changed(c, <<SetCell(k, j)>>)
        /\ row' = row
    BY <1>10, <1>14 DEF GUILD_SAFEBOX_ADD
  <2>2. box[k] = NoItem
    BY <1>1, <1>4, <1>10, FreeFacts DEF IsFree
  <2>3. \A e \in Cell : box'[e] = IF e = k THEN j ELSE box[e]
    BY <1>1, <1>4, <2>1 DEF Books
  <2>4. ASSUME NEW i \in Item PROVE Quiet(down, down', GiveOf(i))
    <3>1. <<SetCell(k, j)>> \in Seq(DownMsg)
      BY <1>4, DownMsgs
    <3>2. ~Some(<<SetCell(k, j)>>, GiveOf(i))
      BY <1>4, NewsDown, ShortAt
    <3> QED BY <1>1, <2>1, <3>1, <3>2, QuietChanged
  <2>5. ASSUME NEW i \in Item \ (late \cup gone), i # j PROVE Where(i)'
    <3>1. Where(i)
      BY <2>5 DEF ItemsInv, WhereInv
    <3>2. Quiet(up, up', CarrierOf(i))
      BY <1>1, <1>2, <1>8, <2>5, HeadTaken
    <3> HIDE DEF m
    <3> QED BY <1>2, <1>3, <1>5, <1>9, <2>1, <2>2, <2>3, <2>4, <2>5, <3>1, <3>2, WhereKept
  <2>6. ASSUME j \notin late \cup gone PROVE Boxed(j, k)'
    <3>1. OfPlayer(j, m.pid)
      BY <1>2, <1>4, <1>8, <2>6, HeadOwner
    <3>2. Some(up[c], CarrierOf(j)) /\ Some(up[c], AddOf(j))
      BY <1>1, <1>2, <1>8, HeadTaken
    <3>3. \A b \in Core : ~Some(up'[b], CarrierOf(j))
      <4>1. ~Some(up'[c], CarrierOf(j))
        BY <1>1, <1>2, <1>8, <3>1, HeadTaken DEF OfPlayer
      <4>2. \A b \in Core : Some(up'[b], CarrierOf(j)) => b = c
        BY <1>1, <1>2, <1>4, <3>1, <3>2, HeadTaken, CarrierOwn
      <4> QED BY <4>1, <4>2
    <3>4. \A p \in Player : j \notin has[p]
      BY <3>1, <3>2 DEF OfPlayer
    <3>5. \A b \in Core : ~Some(down'[b], GiveOf(j))
      BY <1>4, <2>4, <3>1 DEF OfPlayer, Quiet
    <3>6. \A e \in Cell : box[e] # j
      BY <3>1 DEF OfPlayer
    <3> QED BY <1>3, <1>4, <1>5, <2>1, <2>3, <3>3, <3>4, <3>5, <3>6 DEF Boxed
  <2>7. WhereInv'
    BY <1>3, <1>4, <2>5, <2>6 DEF WhereInv, Where
  <2> QED BY <1>6, <1>7, <2>7 DEF Next3
<1>11. CASE ~IsFree(k, j)
  <2>1. /\ row' = [row EXCEPT ![j] = NoOne]
        /\ down' = [down EXCEPT ![c] = Append(@, GiveItem(m, j))]
        /\ UNCHANGED <<box, grid, unsaved>>
    BY <1>11, <1>14 DEF GUILD_SAFEBOX_ADD
  <2>2. GiveItem(m, j) \in DownMsg
    BY <1>4, Answers
  <2>3. \A i \in Item : GiveItem(m, j) \in GiveOf(i) <=> i = j
    <3>1. GiveItem(m, j).type = "GIVE" /\ GiveItem(m, j).item = j
      BY DEF GiveItem
    <3> HIDE DEF m
    <3> QED BY <2>2, <3>1, GiveDown
  <2>4. down \in [Core -> Seq(DownMsg)]
    BY <1>1 DEF Typed
  <2>5. ASSUME NEW i \in Item \ (late \cup gone), i # j PROVE Where(i)'
    <3>1. Where(i)
      BY <2>5 DEF ItemsInv, WhereInv
    <3>2. Quiet(up, up', CarrierOf(i))
      BY <1>1, <1>2, <1>8, <2>5, HeadTaken
    <3>3. Quiet(down, down', GiveOf(i))
      <4> HIDE DEF m
      <4>1. Added(down, down', c, GiveItem(m, j))
        BY <2>1, <2>2, <2>4, PutDown
      <4> QED BY <2>3, <2>5, <4>1 DEF Added
    <3>4. row'[i] = row[i]
      BY <1>1, <2>1, <2>5 DEF Typed
    <3> HIDE DEF m
    <3> QED BY <1>2, <1>3, <1>5, <2>1, <2>5, <3>1, <3>2, <3>3, <3>4, WhereKept
  <2>6. ASSUME j \notin late \cup gone PROVE Given(j, c)'
    <3>1. OfPlayer(j, m.pid)
      BY <1>2, <1>4, <1>8, <2>6, HeadOwner
    <3>2. Some(up[c], CarrierOf(j)) /\ Some(up[c], AddOf(j))
      BY <1>1, <1>2, <1>8, HeadTaken
    <3>3. \A b \in Core : ~Some(up'[b], CarrierOf(j))
      <4>1. ~Some(up'[c], CarrierOf(j))
        BY <1>1, <1>2, <1>8, <3>1, HeadTaken DEF OfPlayer
      <4>2. \A b \in Core : Some(up'[b], CarrierOf(j)) => b = c
        BY <1>1, <1>2, <1>4, <3>1, <3>2, HeadTaken, CarrierOwn
      <4> QED BY <4>1, <4>2
    <3>4. \A p \in Player : j \notin has[p]
      BY <3>1, <3>2 DEF OfPlayer
    <3>5. \A b \in Core : ~Some(down[b], GiveOf(j))
      BY <3>1 DEF OfPlayer
    <3>6. /\ \A b \in Core : Some(down'[b], GiveOf(j)) <=> b = c
          /\ NoneAfter(down'[c], GiveOf(j), GiveOf(j))
      <4>1. GiveItem(m, j) \in GiveOf(j)
        BY <1>4, <2>3
      <4>2. NoneAfter(down[c], GiveOf(j), GiveOf(j))
        BY <3>5, NoneAt
      <4> HIDE DEF m
      <4>3. Added(down, down', c, GiveItem(m, j))
        BY <2>1, <2>2, <2>4, PutDown
      <4> QED BY <3>5, <4>1, <4>2, <4>3 DEF Added
    <3>7. \A e \in Cell : box[e] # j
      BY <3>1 DEF OfPlayer
    <3> QED BY <1>3, <1>5, <2>1, <3>3, <3>4, <3>6, <3>7 DEF Given
  <2>7. WhereInv'
    BY <1>3, <1>4, <2>5, <2>6 DEF WhereInv, Where
  <2> QED BY <1>6, <1>7, <2>7 DEF Next3
<1> QED BY <1>10, <1>11

LEMMA MoveItems ==
    ASSUME ItemsInv, NEW c \in Core, GUILD_SAFEBOX_MOVE(c)
    PROVE  Next3
<1> DEFINE m == Head(up[c])
<1>1. Typed /\ Books(box, grid, unsaved) /\ SessionsInv /\ PacketsInv
  BY InvParts DEF ItemsInv, IInv
<1>2. Receive(c, "MOVE") /\ UNCHANGED <<row, entry, due, cached, out, logon>>
  BY DEF GUILD_SAFEBOX_MOVE, rowVars
<1>3. /\ m \in UpMsg /\ m.type = "MOVE"
      /\ UNCHANGED <<core, login, has, dirty, late, gone>>
  BY <1>1, <1>2, Received
<1>4. PICK k \in Cell, l \in Cell : k = m.from /\ l = m.to
  BY <1>3, UpMsgFields
<1>5. /\ \A i \in Item : Quiet(up, up', CarrierOf(i))
      /\ \A p \in Player : Quiet(up, up', OwnOf(p))
  BY <1>1, <1>2, <1>3, HeadTaken, PlainUp
<1>6. CASE box[k] # NoItem /\ IsFree(l, box[k])
  <2>1. /\ box' = [box EXCEPT ![k] = NoItem, ![l] = box[k]]
        /\ unsaved' = (unsaved \ {k}) \cup {l}
        /\ down' = Changed(c, <<DelCell(k), SetCell(l, box[k])>>)
    BY <1>4, <1>6 DEF GUILD_SAFEBOX_MOVE
  <2>2. PICK j \in Item : j = box[k]
    BY <1>1, <1>6 DEF Books
  <2>3. box[l] = NoItem
    BY <1>1, <1>6, <2>2, FreeFacts DEF IsFree
  <2>4. \A e \in Cell : box'[e] = IF e = l THEN j ELSE IF e = k THEN NoItem ELSE box[e]
    BY <1>1, <2>1, <2>2 DEF Books
  <2>5. ASSUME NEW i \in Item PROVE Quiet(down, down', GiveOf(i))
    <3>1. DelCell(k) \in DownMsg /\ SetCell(l, j) \in DownMsg
      BY DownMsgs
    <3>2. <<DelCell(k), SetCell(l, j)>> \in Seq(DownMsg)
      BY <3>1
    <3>3. ~Some(<<DelCell(k), SetCell(l, j)>>, GiveOf(i))
      BY NewsDown, ShortAt
    <3> QED BY <1>1, <2>1, <2>2, <3>2, <3>3, QuietChanged
  <2>6. SessionsInv'
    BY <1>1, <1>2, <1>3 DEF SessionsInv
  <2>7. PacketsInv'
    BY <1>1, <1>2, <1>3, <1>5, PacketsKept DEF PacketsInv
  <2>8. j # NoItem /\ \A i \in Item : i # NoItem
    BY ConstantTypes
  <2>9. ASSUME NEW i \in Item \ (late \cup gone) PROVE Where(i)'
    <3>1. Where(i)
      BY DEF ItemsInv, WhereInv
    <3>2. CASE i # j
      <4>1. \A e \in Cell : box'[e] = i <=> box[e] = i
        BY <2>2, <2>3, <2>4, <2>8, <3>2
      <4>2. \A e \in Cell : box[e] = i /\ e \in unsaved => e \in unsaved'
        BY <2>1, <2>2, <3>2
      <4> QED BY <1>2, <1>3, <1>5, <2>5, <3>1, <4>1, <4>2, WhereKept
    <3>3. CASE i = j
      <4>1. PICK d \in Cell : Boxed(j, d)
        BY <2>2, <3>1, <3>3 DEF Where, Given, OfPlayer
      <4>2. \A e \in Cell : box'[e] = j <=> e = l
        BY <2>2, <2>4, <2>8, <4>1 DEF Boxed
      <4>3. \A b \in Core : ~Some(down'[b], GiveOf(j)) /\ ~Some(up'[b], CarrierOf(j))
        BY <1>5, <2>5, <4>1 DEF Boxed, Quiet
      <4>4. Boxed(j, l)'
        BY <1>2, <1>3, <2>1, <4>1, <4>2, <4>3 DEF Boxed
      <4> QED BY <3>3, <4>4 DEF Where
    <3> QED BY <3>2, <3>3
  <2> QED BY <1>3, <2>6, <2>7, <2>9 DEF Next3, WhereInv
<1>7. CASE ~(box[k] # NoItem /\ IsFree(l, box[k]))
  <2>1. UNCHANGED <<box, unsaved, down>>
    BY <1>4, <1>7 DEF GUILD_SAFEBOX_MOVE
  <2> QED BY <1>2, <1>3, <1>5, <2>1, QuietSame, PlainStep
<1> QED BY <1>6, <1>7

LEMMA TakeItems ==
    ASSUME ItemsInv, NEW c \in Core, GUILD_SAFEBOX_TAKE(c)
    PROVE  Next3
<1> DEFINE m == Head(up[c])
<1>1. Typed /\ Books(box, grid, unsaved) /\ SessionsInv /\ PacketsInv
  BY InvParts DEF ItemsInv, IInv
<1>2. Receive(c, "TAKE") /\ UNCHANGED <<row, entry, due, cached, out, logon>>
  BY DEF GUILD_SAFEBOX_TAKE, rowVars
<1>3. /\ m \in UpMsg /\ m.type = "TAKE"
      /\ UNCHANGED <<core, login, has, dirty, late, gone>>
  BY <1>1, <1>2, Received
<1>4. m.pid \in Player /\ m.login \in Nat /\ m.cell \in Cell
  BY <1>3, UpMsgFields
<1>5. PICK k \in Cell : k = m.cell
  BY <1>4
<1>6. /\ \A i \in Item : Quiet(up, up', CarrierOf(i))
      /\ \A p \in Player : Quiet(up, up', OwnOf(p))
  BY <1>1, <1>2, <1>3, HeadTaken, PlainUp
<1>7. CASE box[k] # NoItem
  <2>1. PICK j \in Item : j = box[k]
    BY <1>1, <1>7 DEF Books
  <2> DEFINE told == Changed(c, <<DelCell(k)>>)
             g == GiveItem(m, j)
  <2>2. /\ box' = [box EXCEPT ![k] = NoItem]
        /\ unsaved' = unsaved \ {k}
        /\ down' = [told EXCEPT ![c] = Append(@, g)]
    BY <1>5, <1>7, <2>1 DEF GUILD_SAFEBOX_TAKE
  <2>3. \A e \in Cell : box'[e] = IF e = k THEN NoItem ELSE box[e]
    BY <1>1, <2>2 DEF Books
  <2>4. told \in [Core -> Seq(DownMsg)] /\ \A i \in Item : Quiet(down, told, GiveOf(i))
    <3>1. <<DelCell(k)>> \in Seq(DownMsg)
      BY DownMsgs
    <3>2. \A i : ~Some(<<DelCell(k)>>, GiveOf(i))
      BY NewsDown, ShortAt
    <3> QED BY <1>1, <3>1, <3>2, ChangedType, QuietChanged
  <2>5. g \in DownMsg
    BY <1>4, Answers
  <2>6. \A i \in Item : g \in GiveOf(i) <=> i = j
    <3>1. g.type = "GIVE" /\ g.item = j
      BY DEF GiveItem
    <3> HIDE DEF g
    <3> QED BY <2>5, <3>1, GiveDown
  <2> HIDE DEF m, told, g
  <2>7. Added(told, down', c, g)
    BY <2>2, <2>4, <2>5, PutDown
  <2>8. SessionsInv'
    BY <1>1, <1>2, <1>3 DEF SessionsInv
  <2>9. PacketsInv'
    BY <1>1, <1>2, <1>3, <1>6, PacketsKept DEF PacketsInv
  <2>10. j # NoItem /\ \A i \in Item : i # NoItem
    BY ConstantTypes
  <2>11. ASSUME NEW i \in Item \ (late \cup gone) PROVE Where(i)'
    <3>1. Where(i)
      BY DEF ItemsInv, WhereInv
    <3>2. CASE i # j
      <4>1. \A e \in Cell : box'[e] = i <=> box[e] = i
        BY <2>1, <2>3, <2>10, <3>2
      <4>2. \A e \in Cell : box[e] = i /\ e \in unsaved => e \in unsaved'
        BY <2>1, <2>2, <3>2
      <4>3. Quiet(told, down', GiveOf(i))
        BY <2>6, <2>7, <3>2 DEF Added
      <4>4. Quiet(down, down', GiveOf(i))
        BY <2>4, <4>3, QuietChain
      <4> QED BY <1>2, <1>3, <1>6, <3>1, <4>1, <4>2, <4>4, WhereKept
    <3>3. CASE i = j
      <4>1. PICK d \in Cell : Boxed(j, d)
        BY <2>1, <3>1, <3>3 DEF Where, Given, OfPlayer
      <4>2. \A e \in Cell : box'[e] # j
        BY <2>1, <2>3, <2>10, <4>1 DEF Boxed
      <4>3. \A b \in Core : ~Some(told[b], GiveOf(j)) /\ ~Some(up'[b], CarrierOf(j))
        BY <1>6, <2>4, <4>1 DEF Boxed, Quiet
      <4>4. /\ \A b \in Core : Some(down'[b], GiveOf(j)) <=> b = c
            /\ NoneAfter(down'[c], GiveOf(j), GiveOf(j))
        <5>1. NoneAfter(told[c], GiveOf(j), GiveOf(j))
          BY <4>3, NoneAt
        <5> QED BY <2>6, <2>7, <4>3, <5>1 DEF Added
      <4>5. Given(j, c)'
        BY <1>2, <1>3, <4>1, <4>2, <4>3, <4>4 DEF Boxed, Given
      <4> QED BY <3>3, <4>5 DEF Where
    <3> QED BY <3>2, <3>3
  <2> QED BY <1>3, <2>8, <2>9, <2>11 DEF Next3, WhereInv
<1>8. CASE box[k] = NoItem
  <2>1. UNCHANGED <<box, unsaved, down>>
    BY <1>5, <1>8 DEF GUILD_SAFEBOX_TAKE
  <2> QED BY <1>2, <1>3, <1>6, <2>1, QuietSame, PlainStep
<1> QED BY <1>7, <1>8

LEMMA FlushItemsItems ==
    ASSUME ItemsInv, NEW S \in SUBSET unsaved, FlushItems(S)
    PROVE  Next3
<1>1. Typed /\ Books(box, grid, unsaved) /\ SessionsInv /\ PacketsInv
  BY InvParts DEF ItemsInv, IInv
<1>2. /\ unsaved' = unsaved \ S
      /\ row' = [i \in Item |-> IF \E c \in S : box[c] = i THEN Guild ELSE row[i]]
      /\ UNCHANGED <<box, entry, due, cached, out, logon, core, has, dirty, up, down,
                     late, gone>>
  BY DEF FlushItems, gameVars, history
<1>3. SessionsInv'
  BY <1>1, <1>2 DEF SessionsInv
<1>4. PacketsInv'
  BY <1>1, <1>2, QuietSame, PacketsKept DEF PacketsInv
<1>5. S \subseteq Cell
  BY <1>1 DEF Books
<1>6. ASSUME NEW i \in Item \ (late \cup gone) PROVE Where(i)'
  <2>1. Where(i)
    BY DEF ItemsInv, WhereInv
  <2>2. ASSUME NEW d \in Cell, Boxed(i, d) PROVE Boxed(i, d)'
    <3>1. box[d] = i
      BY <2>2 DEF Boxed
    <3>2. d \in unsaved => d \in unsaved' \/ row'[i] = Guild
      BY <1>2, <3>1
    <3>3. row[i] = Guild => row'[i] = Guild
      BY <1>2
    <3> QED BY <1>2, <2>2, <3>2, <3>3, BoxedKept
  <2>3. ASSUME NEW c \in Core, Given(i, c) PROVE Given(i, c)'
    BY <1>2, <2>3, QuietSame, GivenKept
  <2>4. ASSUME NEW p \in Player, OfPlayer(i, p) PROVE OfPlayer(i, p)'
    <3>1. row'[i] = row[i]
      BY <1>2, <1>5, <2>4 DEF OfPlayer
    <3> QED BY <1>2, <2>4, <3>1, QuietSame, OfPlayerKept
  <2> QED BY <2>1, <2>2, <2>3, <2>4 DEF Where
<1> QED BY <1>2, <1>3, <1>4, <1>6 DEF Next3, WhereInv

\* Gold is paid in and out, and the safebox is loaded.
LEMMA OtherPackets ==
    ASSUME ItemsInv, NEW c \in Core,
           \/ GUILD_SAFEBOX_GIVE_GOLD(c) \/ GUILD_SAFEBOX_GET_GOLD(c)
           \/ GUILD_SAFEBOX_LOAD(c)
    PROVE  Next3
<1> DEFINE m == Head(up[c])
<1>1. Typed
  BY DEF ItemsInv, IInv
<1>2. PICK type \in {"GIVE_GOLD", "GET_GOLD", "LOAD"} : Receive(c, type)
  BY DEF GUILD_SAFEBOX_GIVE_GOLD, GUILD_SAFEBOX_GET_GOLD, GUILD_SAFEBOX_LOAD
<1>3. UNCHANGED <<box, unsaved, row, entry, due, cached, out, logon>>
  BY DEF GUILD_SAFEBOX_GIVE_GOLD, GUILD_SAFEBOX_GET_GOLD, GUILD_SAFEBOX_LOAD, rowVars
<1>4. /\ m \in UpMsg /\ m.type = type
      /\ UNCHANGED <<core, login, has, dirty, late, gone>>
  BY <1>1, <1>2, Received
<1>5. /\ \A i \in Item : Quiet(up, up', CarrierOf(i))
      /\ \A p \in Player : Quiet(up, up', OwnOf(p))
  BY <1>1, <1>2, <1>4, HeadTaken, PlainUp
<1>6. ASSUME NEW i \in Item PROVE Quiet(down, down', GiveOf(i))
  <2>1. down \in [Core -> Seq(DownMsg)] /\ gold \in Nat /\ box \in [Cell -> Item \cup {NoItem}]
    BY <1>1 DEF Typed
  <2>2. CASE GUILD_SAFEBOX_GIVE_GOLD(c)
    <3>1. m.gold \in Nat
      BY <1>4, <2>2, UpMsgFields DEF GUILD_SAFEBOX_GIVE_GOLD, Receive
    <3>2. PICK all \in Nat : all = gold + m.gold
      BY <2>1, <3>1
    <3>3. down' = Changed(c, <<SetGold(all)>>)
      BY <2>2, <3>2 DEF GUILD_SAFEBOX_GIVE_GOLD
    <3>4. <<SetGold(all)>> \in Seq(DownMsg) /\ ~Some(<<SetGold(all)>>, GiveOf(i))
      BY DownMsgs, NewsDown, ShortAt
    <3> QED BY <1>1, <3>3, <3>4, QuietChanged
  <2>3. CASE GUILD_SAFEBOX_GET_GOLD(c)
    <3>1. m.gold \in Nat /\ m.pid \in Player /\ m.login \in Nat
      BY <1>4, <2>3, UpMsgFields DEF GUILD_SAFEBOX_GET_GOLD, Receive
    <3>2. \A g \in Nat : PayGold(m, g) \in DownMsg /\ PayGold(m, g) \notin GiveOf(i)
      <4>1. \A g \in Nat : PayGold(m, g) \in DownMsg
        BY <3>1, Answers
      <4>2. \A g \in Nat : PayGold(m, g).type # "GIVE"
        BY DEF PayGold
      <4> QED BY <4>1, <4>2, GiveDown
    <3> HIDE DEF m
    <3>3. CASE CanPay(m.gold)
      <4>1. PICK left \in Nat : left = gold - m.gold
        BY <2>1, <3>1, <3>3 DEF CanPay
      <4> DEFINE told == Changed(c, <<SetGold(left)>>)
      <4>2. down' = [told EXCEPT ![c] = Append(@, PayGold(m, m.gold))]
        BY <2>3, <3>3, <4>1 DEF GUILD_SAFEBOX_GET_GOLD, m
      <4>3. <<SetGold(left)>> \in Seq(DownMsg) /\ ~Some(<<SetGold(left)>>, GiveOf(i))
        BY DownMsgs, NewsDown, ShortAt
      <4>4. told \in [Core -> Seq(DownMsg)] /\ Quiet(down, told, GiveOf(i))
        BY <1>1, <4>3, ChangedType, QuietChanged
      <4> HIDE DEF told
      <4>5. Added(told, down', c, PayGold(m, m.gold))
        BY <3>1, <3>2, <4>2, <4>4, PutDown
      <4>6. Quiet(told, down', GiveOf(i))
        BY <3>1, <3>2, <4>5 DEF Added
      <4> QED BY <4>4, <4>6, QuietChain
    <3>4. CASE ~CanPay(m.gold)
      <4>1. down' = [down EXCEPT ![c] = Append(@, PayGold(m, 0))]
        BY <2>3, <3>4 DEF GUILD_SAFEBOX_GET_GOLD, m
      <4>2. Added(down, down', c, PayGold(m, 0))
        BY <2>1, <3>2, <4>1, PutDown
      <4> QED BY <3>2, <4>2 DEF Added
    <3> QED BY <3>3, <3>4
  <2>4. CASE GUILD_SAFEBOX_LOAD(c)
    <3>1. m.pid \in Player /\ m.login \in Nat
      BY <1>4, <2>4, UpMsgFields DEF GUILD_SAFEBOX_LOAD, Receive
    <3>2. PICK items \in [Cell -> Item \cup {NoItem}] :
              items = IF c \in watchers THEN [d \in Cell |-> NoItem] ELSE box
      BY <2>1
    <3> DEFINE answer == [type |-> "LOADED", pid |-> m.pid, login |-> m.login,
                          items |-> items, gold |-> gold]
    <3>3. answer \in DownMsg /\ answer \notin GiveOf(i)
      <4>1. answer.type = "LOADED"
        OBVIOUS
      <4>2. answer \in DownMsg
        BY <2>1, <3>1 DEF DownMsg
      <4> QED BY <4>1, <4>2, GiveDown
    <3>4. down' = [down EXCEPT ![c] = Append(@, answer)]
      BY <2>4, <3>2 DEF GUILD_SAFEBOX_LOAD
    <3> HIDE DEF answer
    <3>5. Added(down, down', c, answer)
      BY <2>1, <3>3, <3>4, PutDown
    <3> QED BY <3>3, <3>5 DEF Added
  <2> QED BY <2>2, <2>3, <2>4
<1> QED BY <1>3, <1>4, <1>5, <1>6, PlainStep

-----------------------------------------------------------------------------
(***************************************************************************)
(* Items: what the db does for players.                                     *)
(***************************************************************************)

\* The save of a player's items comes to his cache, which is there.
LEMMA SavedItems ==
    ASSUME ItemsInv, NEW c \in Core, NEW type \in {"SAVE", "LOGOUT"}, Receive(c, type),
           PutItems(Head(up[c]).pid, Head(up[c]).items),
           UNCHANGED <<boxVars, cached, down>>
    PROVE  /\ WhereInv'
           /\ \A i \in Item : entry'[i] = entry[i] \/ entry'[i] = Head(up[c]).pid
           /\ \A i \in due' : i \in due \/ entry'[i] # NoOne
           /\ \A i \in due : entry'[i] = entry[i] \/ entry'[i] # NoOne
           /\ Head(up[c]).pid \in logon
<1>1. Typed /\ SessionsInv /\ PacketsInv
  BY DEF ItemsInv, IInv
<1>2. PICK m \in UpMsg : m = Head(up[c]) /\ m.type = type
  BY <1>1, Received
<1>3. UNCHANGED <<box, unsaved, core, has, dirty, late, gone, cached, down>>
  BY <1>1, Received DEF boxVars
<1>4. m.pid \in Player /\ m.items \subseteq Item
  BY <1>2, UpMsgFields
<1>5. PICK p \in Player, I \in SUBSET Item : p = m.pid /\ I = m.items
  BY <1>4
<1>6. p \in logon
  <2>1. m \in OwnOf(p)
    BY <1>2, <1>5, SaveUp
  <2>2. Some(up[c], OwnOf(p))
    BY <1>1, <1>2, <2>1, HeadTaken
  <2> QED BY <1>1, <2>2 DEF PacketsInv, PacketsOf
<1>7. /\ entry' = [i \in Item |-> IF i \in I THEN p ELSE entry[i]]
      /\ due' = due \cup I /\ row' = row
  BY <1>1, <1>2, <1>5, <1>6 DEF PutItems, SessionsInv
<1>8. \A i \in Item : (m \in CarrierOf(i) <=> i \in I) /\ m \notin AddOf(i)
  BY <1>2, <1>5, SaveUp
<1>9. p # NoOne /\ due \subseteq Item
  BY <1>1, ConstantTypes DEF Typed
<1>10. ASSUME NEW i \in Item \ (late \cup gone), i \notin I PROVE Where(i)'
  <2>1. Where(i)
    BY <1>10 DEF ItemsInv, WhereInv
  <2>2. Quiet(up, up', CarrierOf(i))
    BY <1>1, <1>2, <1>8, <1>10, HeadTaken
  <2> QED BY <1>3, <1>7, <1>10, <2>1, <2>2, QuietSame, WhereKept
<1>11. ASSUME NEW i \in Item \ (late \cup gone), i \in I PROVE OfPlayer(i, p)'
  <2>1. OfPlayer(i, p)
    BY <1>2, <1>5, <1>8, <1>11, HeadOwner
  <2>2. \A b \in Core : Some(up[b], AddOf(i)) => Some(up'[b], AddOf(i))
    BY <1>1, <1>2, <1>8, HeadTaken
  <2>3. \A b \in Core : \A M : Some(up'[b], M) => Some(up[b], M)
    BY <1>1, HeadTaken
  <2>4. \A b \in Core : NoneAfter(up'[b], CarrierOf(i), AddOf(i))
    BY <1>1, <2>1, HeadTaken DEF OfPlayer
  <2>5. entry'[i] = p /\ i \in due'
    BY <1>7, <1>11
  <2> QED BY <1>3, <2>1, <2>2, <2>3, <2>4, <2>5 DEF OfPlayer
<1>12. WhereInv'
  BY <1>3, <1>10, <1>11 DEF WhereInv, Where
<1> QED BY <1>2, <1>5, <1>6, <1>7, <1>9, <1>12

LEMMA ItemSaveItems ==
    ASSUME ItemsInv, NEW c \in Core, QUERY_ITEM_SAVE(c)
    PROVE  Next3
<1>1. Typed /\ SessionsInv /\ PacketsInv
  BY DEF ItemsInv, IInv
<1>2. /\ Receive(c, "SAVE") /\ PutItems(Head(up[c]).pid, Head(up[c]).items)
      /\ UNCHANGED <<boxVars, cached, out, logon, down>>
  BY DEF QUERY_ITEM_SAVE
<1>3. UNCHANGED <<core, has, dirty>>
  BY <1>1, <1>2, Received
<1>4. PacketsInv'
  BY <1>1, <1>2, <1>3, HeadTaken, PacketsLess
<1>5. /\ WhereInv'
      /\ \A i \in Item : entry'[i] = entry[i] \/ entry'[i] = Head(up[c]).pid
      /\ \A i \in due' : i \in due \/ entry'[i] # NoOne
      /\ \A i \in due : entry'[i] = entry[i] \/ entry'[i] # NoOne
      /\ Head(up[c]).pid \in logon
  BY <1>2, SavedItems
<1>6. SessionsInv'
  BY <1>1, <1>2, <1>3, <1>5 DEF SessionsInv
<1> QED BY <1>4, <1>5, <1>6 DEF Next3

LEMMA QueryLogoutItems ==
    ASSUME ItemsInv, NEW c \in Core, QUERY_LOGOUT(c)
    PROVE  Next3
<1>1. Typed /\ SessionsInv /\ PacketsInv
  BY DEF ItemsInv, IInv
<1>2. /\ Receive(c, "LOGOUT") /\ PutItems(Head(up[c]).pid, Head(up[c]).items)
      /\ UNCHANGED <<boxVars, cached, down>>
      /\ logon' = logon \ {Head(up[c]).pid} /\ out' = out \cup {Head(up[c]).pid}
  BY DEF QUERY_LOGOUT
<1>3. UNCHANGED <<core, has, dirty>>
  BY <1>1, <1>2, Received
<1>4. PICK p \in Player : p = Head(up[c]).pid /\ Head(up[c]) \in LogoutOf(p)
  <2>1. PICK m \in UpMsg : m = Head(up[c]) /\ m.type = "LOGOUT"
    BY <1>1, <1>2, Received
  <2>2. m.pid \in Player /\ m \in LogoutOf(m.pid)
    BY <2>1, UpMsgFields, SaveUp
  <2> QED BY <2>1, <2>2
<1>5. Some(up[c], LogoutOf(p)) /\ Some(up[c], OwnOf(p))
  <2>1. Head(up[c]) \in OwnOf(p)
    BY <1>4 DEF OwnOf, LogoutOf
  <2> QED BY <1>1, <1>2, <1>4, <2>1, HeadTaken
<1>6. core[p] = NoCore
  BY <1>1, <1>5 DEF PacketsInv, PacketsOf
<1>7. \A b \in Core : ~Some(up'[b], OwnOf(p))
  <2>1. PacketsOf(p)
    BY <1>1 DEF PacketsInv
  <2>2. \A b \in Core : Some(up'[b], OwnOf(p)) => b = c
    BY <1>1, <1>2, <1>5, <2>1, HeadTaken DEF PacketsOf
  <2>3. ~Some(up'[c], OwnOf(p))
    BY <1>1, <1>2, <1>4, <2>1, HeadTaken DEF PacketsOf
  <2> QED BY <2>2, <2>3
<1>8. PacketsInv'
  BY <1>1, <1>2, <1>3, <1>4, <1>7, HeadTaken, PacketsLess
<1>9. /\ WhereInv'
      /\ \A i \in Item : entry'[i] = entry[i] \/ entry'[i] = Head(up[c]).pid
      /\ \A i \in due' : i \in due \/ entry'[i] # NoOne
      /\ \A i \in due : entry'[i] = entry[i] \/ entry'[i] # NoOne
      /\ Head(up[c]).pid \in logon
  BY <1>2, SavedItems
<1>10. SessionsInv'
  BY <1>1, <1>2, <1>3, <1>4, <1>6, <1>9 DEF SessionsInv
<1> QED BY <1>8, <1>9, <1>10 DEF Next3

LEMMA ItemCacheItems ==
    ASSUME ItemsInv, NEW j \in Item, UpdateItemCache(j)
    PROVE  Next3
<1>1. Typed /\ SessionsInv /\ PacketsInv
  BY DEF ItemsInv, IInv
<1>2. /\ j \in due /\ due' = due \ {j}
      /\ row' = [i \in Item |-> IF i \in {j} \cap due THEN entry[i] ELSE row[i]]
      /\ UNCHANGED <<box, unsaved, entry, cached, out, logon, core, has, dirty, up, down,
                     late, gone>>
  BY DEF UpdateItemCache, Flush, boxVars, gameVars, history
<1>3. SessionsInv'
  BY <1>1, <1>2 DEF SessionsInv
<1>4. PacketsInv'
  BY <1>1, <1>2, QuietSame, PacketsKept DEF PacketsInv
<1>5. ASSUME NEW i \in Item \ (late \cup gone) PROVE Where(i)'
  <2>1. Where(i)
    BY DEF ItemsInv, WhereInv
  <2>2. CASE i # j
    BY <1>2, <2>1, <2>2, QuietSame, WhereKept
  <2>3. CASE i = j
    <3>1. entry[i] # NoOne
      BY <1>1, <1>2, <2>3 DEF SessionsInv
    <3>2. PICK p \in Player : OfPlayer(i, p)
      BY <2>1, <3>1 DEF Where, Boxed, Given
    <3>3. entry[i] = p
      BY <3>1, <3>2 DEF OfPlayer
    <3>4. row'[i] = p
      BY <1>2, <2>3, <3>3
    <3>5. OfPlayer(i, p)'
      BY <1>2, <3>2, <3>3, <3>4 DEF OfPlayer
    <3> QED BY <3>5 DEF Where
  <2> QED BY <2>2, <2>3
<1> QED BY <1>2, <1>3, <1>4, <1>5 DEF Next3, WhereInv

LEMMA LogoutPlayerItems ==
    ASSUME ItemsInv, NEW p \in Player, UpdateLogoutPlayer(p)
    PROVE  Next3
<1>1. Typed /\ SessionsInv /\ PacketsInv
  BY DEF ItemsInv, IInv
<1> DEFINE I == {i \in Item : entry[i] = p}
<1>2. /\ p \in out /\ due' = due \ I
      /\ row' = [i \in Item |-> IF i \in I \cap due THEN entry[i] ELSE row[i]]
      /\ entry' = [i \in Item |-> IF i \in I THEN NoOne ELSE entry[i]]
      /\ cached' = cached \ {p} /\ out' = out \ {p}
      /\ UNCHANGED <<box, unsaved, logon, core, has, dirty, up, down, late, gone>>
  BY DEF UpdateLogoutPlayer, Flush, boxVars, gameVars, history
<1>3. p \notin logon /\ core[p] = NoCore /\ has[p] = {} /\ p # NoOne
  BY <1>1, <1>2, ConstantTypes DEF SessionsInv
<1>4. \A b \in Core : ~Some(up[b], OwnOf(p))
  BY <1>1, <1>3 DEF PacketsInv, PacketsOf
<1>5. SessionsInv'
  <2>1. \A i \in Item : entry'[i] # NoOne => entry'[i] = entry[i] /\ entry[i] # p
    BY <1>2
  <2>2. \A i \in due' : i \in Item /\ entry[i] # NoOne /\ entry[i] # p
    BY <1>1, <1>2 DEF SessionsInv, Typed
  <2>3. \A i \in due' : entry'[i] # NoOne
    BY <1>2, <2>2
  <2> QED BY <1>1, <1>2, <1>3, <2>1, <2>3 DEF SessionsInv
<1>6. PacketsInv'
  BY <1>1, <1>2, QuietSame, PacketsKept DEF PacketsInv
<1>7. ASSUME NEW i \in Item \ (late \cup gone) PROVE Where(i)'
  <2>1. Where(i)
    BY DEF ItemsInv, WhereInv
  <2>2. CASE entry[i] # p
    <3>1. entry'[i] = entry[i] /\ row'[i] = row[i] /\ (i \in due' <=> i \in due)
      BY <1>2, <2>2
    <3> QED BY <1>2, <2>1, <3>1, QuietSame, WhereKept
  <2>3. CASE entry[i] = p
    <3>1. PICK q \in Player : OfPlayer(i, q)
      BY <1>3, <2>1, <2>3 DEF Where, Boxed, Given
    <3>2. q = p
      BY <1>3, <2>3, <3>1 DEF OfPlayer
    <3>3. row'[i] = p
      <4>1. i \in due \/ row[i] = p
        BY <2>3, <3>1, <3>2 DEF OfPlayer
      <4> QED BY <1>2, <2>3, <4>1
    <3>4. entry'[i] = NoOne /\ p \notin cached'
      BY <1>2, <2>3
    <3>5. OfPlayer(i, p)'
      BY <1>2, <1>3, <3>1, <3>2, <3>3, <3>4 DEF OfPlayer
    <3> QED BY <3>5 DEF Where
  <2> QED BY <2>2, <2>3
<1> QED BY <1>2, <1>5, <1>6, <1>7 DEF Next3, WhereInv

-----------------------------------------------------------------------------
(***************************************************************************)
(* Items: players come, go and ask.                                         *)
(***************************************************************************)

\* A player who is not logged on gets his items and no others.
LEMMA LoginItems ==
    ASSUME ItemsInv, NEW p \in Player, NEW c \in Core, Login(p, c)
    PROVE  Next3
<1>1. Typed /\ SessionsInv /\ PacketsInv
  BY DEF ItemsInv, IInv
<1> DEFINE I == {i \in Item : Stored(p, i)}
<1>2. /\ p \notin logon
      /\ has' = [has EXCEPT ![p] = I \ OnCore(c)]
      /\ cached' = cached \cup {p} /\ out' = out \ {p} /\ logon' = logon \cup {p}
      /\ core' = [core EXCEPT ![p] = c]
      /\ UNCHANGED <<box, unsaved, row, due, dirty, up, down, gone>>
  BY DEF Login, boxVars
<1>3. /\ p \in cached => entry' = entry /\ late' = late
      /\ p \notin cached =>
            /\ entry' = [i \in Item |-> IF i \in I THEN p ELSE entry[i]]
            /\ late' = late \cup {i \in I : RowIsLate(i)}
  BY DEF Login
<1>4. /\ \A q \in Player : core'[q] = IF q = p THEN c ELSE core[q]
      /\ \A q \in Player : has'[q] = IF q = p THEN I \ OnCore(c) ELSE has[q]
  BY <1>1, <1>2 DEF Typed
<1>5. core[p] = NoCore /\ has[p] = {} /\ dirty[p] = {} /\ p # NoOne /\ p # Guild
      /\ \A b \in Core : ~Some(up[b], OwnOf(p))
  BY <1>1, <1>2, ConstantTypes DEF SessionsInv, PacketsInv, PacketsOf
<1>6. \A i \in I : (p \in cached => entry[i] = p) /\ (p \notin cached => row[i] = p)
  BY DEF Stored
<1>7. \A i \in Item : entry'[i] = entry[i] \/ entry'[i] = p
  BY <1>1, <1>3 DEF Typed
<1>8. SessionsInv'
  <2>1. \A i \in Item : entry'[i] # NoOne => entry'[i] \in cached'
    BY <1>1, <1>2, <1>7 DEF SessionsInv
  <2>2. \A i \in due' : entry'[i] # NoOne
    BY <1>1, <1>2, <1>5, <1>7 DEF SessionsInv, Typed
  <2>3. \A q \in Player : /\ core'[q] # NoCore => q \in logon'
                          /\ dirty'[q] \subseteq has'[q]
                          /\ core'[q] = NoCore => has'[q] = {}
    <3>1. c # NoCore
      BY ConstantTypes
    <3> QED BY <1>1, <1>2, <1>4, <1>5, <3>1 DEF SessionsInv
  <2>4. logon' \subseteq cached' /\ logon' \cap out' = {}
    BY <1>1, <1>2 DEF SessionsInv
  <2> QED BY <2>1, <2>2, <2>3, <2>4 DEF SessionsInv
<1>9. PacketsInv'
  <2> SUFFICES ASSUME NEW q \in Player PROVE PacketsOf(q)'
    BY DEF PacketsInv
  <2>1. PacketsOf(q)
    BY <1>1 DEF PacketsInv
  <2>2. CASE q # p
    <3>1. core'[q] = core[q] /\ (q \in logon => q \in logon')
      BY <1>2, <1>4, <2>2
    <3> QED BY <1>2, <2>1, <3>1, QuietSame, PacketsKept
  <2>3. CASE q = p
    <3>1. \A b \in Core : ~Some(up[b], OwnOf(q)) /\ ~Some(up[b], LogoutOf(q))
      BY <1>5, <2>3 DEF Some, OwnOf, LogoutOf
    <3> QED BY <1>2, <3>1, NoneAt DEF PacketsOf
  <2> QED BY <2>2, <2>3
<1>10. ASSUME NEW i \in Item \ (late' \cup gone') PROVE Where(i)'
  <2>1. i \notin late /\ i \notin gone
    BY <1>2, <1>3
  <2>2. Where(i)
    BY <2>1 DEF ItemsInv, WhereInv
  <2>3. i \in I /\ p \notin cached => ~RowIsLate(i)
    BY <1>3
  <2>4. i \notin I => entry'[i] = entry[i]
    BY <1>1, <1>3 DEF Typed
  <2>5. ASSUME i \notin I
        PROVE  \A q \in Player : i \in has'[q] <=> i \in has[q]
    BY <1>4, <1>5, <2>5
  <2>6. ASSUME NEW d \in Cell, Boxed(i, d) PROVE Boxed(i, d)'
    <3>1. i \notin I
      <4> SUFFICES ASSUME i \in I PROVE FALSE
        OBVIOUS
      <4>1. p \notin cached /\ row[i] = p
        BY <1>5, <1>6, <2>6 DEF Boxed
      <4>2. d \in unsaved /\ box[d] = i
        BY <1>5, <2>6, <4>1 DEF Boxed
      <4> QED BY <2>3, <4>1, <4>2 DEF RowIsLate
    <3> QED BY <1>2, <2>4, <2>5, <2>6, <3>1, BoxedKept
  <2>7. ASSUME NEW b \in Core, Given(i, b) PROVE Given(i, b)'
    <3>1. i \notin I
      <4> SUFFICES ASSUME i \in I PROVE FALSE
        OBVIOUS
      <4>1. p \notin cached
        BY <1>5, <1>6, <2>7 DEF Given
      <4>2. InQueue(down[b], i)
        BY <1>1, <2>7, InQueueDown DEF Given
      <4> QED BY <2>3, <4>1, <4>2 DEF RowIsLate
    <3> QED BY <1>2, <2>4, <2>5, <2>7, <3>1, QuietSame, GivenKept
  <2>8. ASSUME NEW q \in Player, OfPlayer(i, q), q # p PROVE OfPlayer(i, q)'
    <3>1. i \notin I
      <4> SUFFICES ASSUME i \in I PROVE FALSE
        OBVIOUS
      <4>1. p \notin cached /\ row[i] = p
        BY <1>5, <1>6, <2>8 DEF OfPlayer
      <4>2. ~RowIsLate(i)
        BY <2>3, <4>1
      <4>3. i \notin due /\ i \notin dirty[q] /\ \A b \in Core : ~Some(up[b], CarrierOf(i))
        BY <1>1, <4>2, InQueueUp DEF RowIsLate
      <4> QED BY <2>8, <4>1, <4>3 DEF OfPlayer
    <3>2. /\ core[q] = NoCore => core'[q] = NoCore
          /\ q \notin cached => q \notin cached'
      BY <1>2, <1>4, <2>8
    <3> QED BY <1>2, <2>4, <2>5, <2>8, <3>1, <3>2, QuietSame, OfPlayerKept
  <2>9. ASSUME OfPlayer(i, p) PROVE OfPlayer(i, p)'
    <3>1. \A b \in Core : ~Some(up[b], CarrierOf(i))
      BY <1>5, <2>9 DEF OfPlayer, Some
    <3>2. p \in cached => entry[i] = p
      BY <1>5, <2>9, <3>1 DEF OfPlayer
    <3>3. p \notin cached => row[i] = p
      <4>1. p \notin cached => entry[i] # p
        BY <1>1, <1>5 DEF SessionsInv
      <4> QED BY <1>5, <2>9, <3>1, <4>1 DEF OfPlayer
    <3>4. i \in I
      BY <3>2, <3>3 DEF Stored
    <3>5. i \notin OnCore(c)
      <4>1. \A q \in Player : i \notin has[q]
        BY <1>5, <2>9 DEF OfPlayer
      <4> QED BY <4>1 DEF OnCore, On
    <3>6. i \in has'[p]
      BY <1>4, <3>4, <3>5
    <3>7. entry'[i] = p
      BY <1>3, <3>2, <3>4
    <3>8. i \in due \/ row[i] = p
      BY <2>9, <3>2, <3>3 DEF OfPlayer
    <3>9. \A b \in Core : /\ ~Some(up[b], CarrierOf(i) \ OwnOf(p))
                          /\ ~Some(up[b], AddOf(i))
      BY <3>1, OwnSets DEF Some
    <3> HIDE DEF I
    <3> QED BY <1>2, <1>4, <2>9, <3>6, <3>7, <3>8, <3>9 DEF OfPlayer
  <2> QED BY <2>2, <2>6, <2>7, <2>8, <2>9 DEF Where
<1> QED BY <1>8, <1>9, <1>10 DEF Next3, WhereInv

\* A player on a core sends a packet with items.
LEMMA OwnSent ==
    ASSUME PacketsInv, SessionsInv, NEW p \in Player, core[p] # NoCore,
           NEW m \in UpMsg, m.pid = p, m \in OwnOf(p),
           Added(up, up', core[p], m), logon' = logon,
           \A q \in Player : q # p => core'[q] = core[q],
           core'[p] \in {core[p], NoCore},
           m \in LogoutOf(p) => core'[p] = NoCore
    PROVE  PacketsInv'
<1> SUFFICES ASSUME NEW q \in Player PROVE PacketsOf(q)'
  BY DEF PacketsInv
<1>1. PacketsOf(q)
  BY DEF PacketsInv
<1>2. CASE q # p
  <2>1. m \notin OwnOf(q)
    BY <1>2 DEF OwnOf
  <2>2. Quiet(up, up', OwnOf(q))
    BY <2>1 DEF Added
  <2> QED BY <1>1, <1>2, <2>2, PacketsKept
<1>3. CASE q = p
  <2>1. p \in logon
    BY DEF SessionsInv
  <2>2. \A b \in Core : Some(up[b], OwnOf(p)) => b = core[p]
    BY <1>1, <1>3 DEF PacketsOf
  <2>3. \A b \in Core : ~Some(up[b], LogoutOf(p))
    BY <1>1, <1>3 DEF PacketsOf
  <2>4. \A b \in Core : Some(up'[b], OwnOf(p)) => b = core[p]
    BY <2>2 DEF Added
  <2>5. \A b \in Core : Some(up'[b], LogoutOf(p)) => core'[p] = NoCore
    BY <2>3 DEF Added
  <2>6. \A b \in Core : NoneAfter(up'[b], OwnOf(p), LogoutOf(p))
    BY <1>1, <1>3, <2>3 DEF Added, PacketsOf
  <2> QED BY <1>3, <2>1, <2>4, <2>5, <2>6 DEF PacketsOf
<1> QED BY <1>2, <1>3

\* What the new packet m, of player p, does not say of item i.
LEMMA SentFor ==
    ASSUME NEW c \in Core, NEW m \in UpMsg, NEW p \in Player, m \in OwnOf(p),
           Added(up, up', c, m), NEW i \in Item, OfPlayer(i, p),
           m \in AddOf(i) => i \in has[p] /\ i \notin has'[p],
           m \in CarrierOf(i) => i \in has[p],
           i \in has'[p] => i \in has[p]
    PROVE  \A b \in Core :
               /\ ~Some(up'[b], CarrierOf(i) \ OwnOf(p))
               /\ NoneAfter(up'[b], CarrierOf(i), AddOf(i))
               /\ Some(up'[b], AddOf(i)) => i \notin has'[p]
               /\ Some(up[b], AddOf(i)) => Some(up'[b], AddOf(i))
               /\ Some(up[b], CarrierOf(i)) => Some(up'[b], CarrierOf(i))
<1> TAKE b \in Core
<1>1. /\ ~Some(up[b], CarrierOf(i) \ OwnOf(p))
      /\ NoneAfter(up[b], CarrierOf(i), AddOf(i))
      /\ Some(up[b], AddOf(i)) => i \notin has[p]
  BY DEF OfPlayer
<1>2. m \notin CarrierOf(i) \ OwnOf(p)
  OBVIOUS
<1> QED BY <1>1, <1>2 DEF Added

LEMMA SavesSent ==
    ASSUME ItemsInv, NEW p \in Player, core[p] # NoCore,
           NEW m \in UpMsg, m.type \in {"SAVE", "LOGOUT"}, m.pid = p, m.items \subseteq dirty[p],
           Added(up, up', core[p], m),
           \A q \in Player : q # p => /\ core'[q] = core[q] /\ has'[q] = has[q]
                                      /\ dirty'[q] = dirty[q],
           dirty[p] \ m.items \subseteq dirty'[p],
           \/ core'[p] = core[p] /\ has'[p] = has[p]
           \/ core'[p] = NoCore /\ has'[p] = {},
           UNCHANGED <<box, unsaved, row, entry, due, cached, down, late, gone>>
    PROVE  WhereInv'
<1>1. Typed /\ SessionsInv /\ PacketsInv
  BY DEF ItemsInv, IInv
<1>2. core[p] \in Core
  BY <1>1 DEF Typed
<1>3. m \in OwnOf(p) /\ \A i \in Item : (m \in CarrierOf(i) <=> i \in m.items) /\ m \notin AddOf(i)
  BY SaveUp
<1>4. dirty[p] \subseteq has[p]
  BY <1>1 DEF SessionsInv
<1> SUFFICES ASSUME NEW i \in Item \ (late \cup gone) PROVE Where(i)'
  BY DEF WhereInv
<1>5. Where(i)
  BY DEF ItemsInv, WhereInv
<1>6. CASE i \notin has[p]
  <2>1. Quiet(up, up', CarrierOf(i))
    BY <1>3, <1>4, <1>6 DEF Added
  <2>2. \A q \in Player : /\ i \in has'[q] <=> i \in has[q]
                          /\ i \in dirty[q] => i \in dirty'[q]
                          /\ core[q] = NoCore => core'[q] = NoCore
    BY <1>4, <1>6
  <2> QED BY <1>5, <2>1, <2>2, QuietSame, WhereKept
<1>7. CASE i \in has[p]
  <2>1. OfPlayer(i, p)
    BY <1>5, <1>7 DEF Where, Boxed, Given, OfPlayer
  <2>2. \A b \in Core :
            /\ ~Some(up'[b], CarrierOf(i) \ OwnOf(p))
            /\ NoneAfter(up'[b], CarrierOf(i), AddOf(i))
            /\ Some(up'[b], AddOf(i)) => i \notin has'[p]
            /\ Some(up[b], AddOf(i)) => Some(up'[b], AddOf(i))
            /\ Some(up[b], CarrierOf(i)) => Some(up'[b], CarrierOf(i))
    <3>1. i \in has'[p] => i \in has[p]
      BY <1>7
    <3> QED BY <1>2, <1>3, <1>7, <2>1, <3>1, SentFor
  <2>3. i \in dirty[p] => i \in dirty'[p] \/ Some(up'[core[p]], CarrierOf(i))
    <3>1. m \in CarrierOf(i) => Some(up'[core[p]], CarrierOf(i))
      BY <1>2 DEF Added
    <3> QED BY <1>3, <3>1
  <2>4. i \in has'[p] \/ core'[p] = NoCore
    BY <1>7
  <2>5. \A q \in Player : i \in has'[q] => q = p
    BY <2>1 DEF OfPlayer
  <2>6. OfPlayer(i, p)'
    BY <1>2, <2>1, <2>2, <2>3, <2>4, <2>5 DEF OfPlayer
  <2> QED BY <2>6 DEF Where
<1> QED BY <1>6, <1>7

LEMMA OfflineItems ==
    ASSUME ItemsInv, NEW p \in Player, Logout(p)
    PROVE  Next3
<1>1. Typed /\ SessionsInv /\ PacketsInv
  BY DEF ItemsInv, IInv
<1> DEFINE l == [type |-> "LOGOUT", pid |-> p, items |-> dirty[p]]
<1>2. core[p] # NoCore /\ core[p] \in Core
  BY <1>1 DEF Typed, Logout
<1>3. /\ Sends(core[p], l)
      /\ core' = [core EXCEPT ![p] = NoCore]
      /\ has' = [has EXCEPT ![p] = {}] /\ dirty' = [dirty EXCEPT ![p] = {}]
      /\ UNCHANGED <<box, unsaved, row, entry, due, cached, out, logon, down, late, gone>>
  BY DEF Logout, boxVars, rowVars, history
<1>4. /\ \A q \in Player : core'[q] = IF q = p THEN NoCore ELSE core[q]
      /\ \A q \in Player : has'[q] = IF q = p THEN {} ELSE has[q]
      /\ \A q \in Player : dirty'[q] = IF q = p THEN {} ELSE dirty[q]
  BY <1>1, <1>3 DEF Typed
<1>5. l \in UpMsg
  BY <1>1, ItemPackets DEF Typed
<1>6. PICK m \in UpMsg : m = l
  BY <1>5
<1>7. m.type = "LOGOUT" /\ m.pid = p /\ m.items = dirty[p]
  BY <1>6
<1> HIDE DEF l
<1>8. Added(up, up', core[p], m)
  BY <1>1, <1>2, <1>3, <1>6, Sent
<1>9. SessionsInv'
  BY <1>1, <1>3, <1>4 DEF SessionsInv
<1>10. PacketsInv'
  <2>1. m \in OwnOf(p)
    BY <1>7, SaveUp
  <2> QED BY <1>1, <1>2, <1>3, <1>4, <1>7, <1>8, <2>1, OwnSent
<1>11. WhereInv'
  BY <1>2, <1>3, <1>4, <1>7, <1>8, SavesSent
<1> QED BY <1>9, <1>10, <1>11 DEF Next3

LEMMA SaveItemsItems ==
    ASSUME ItemsInv, NEW p \in Player, NEW I \in SUBSET dirty[p], SaveItems(p, I)
    PROVE  Next3
<1>1. Typed /\ SessionsInv /\ PacketsInv
  BY DEF ItemsInv, IInv
<1> DEFINE l == [type |-> "SAVE", pid |-> p, items |-> I]
<1>2. core[p] # NoCore /\ core[p] \in Core
  BY <1>1 DEF Typed, SaveItems
<1>3. /\ Sends(core[p], l)
      /\ dirty' = [dirty EXCEPT ![p] = @ \ I]
      /\ UNCHANGED <<box, unsaved, row, entry, due, cached, out, logon, core, has, down,
                     late, gone>>
  BY DEF SaveItems, boxVars, rowVars, history
<1>4. \A q \in Player : dirty'[q] = IF q = p THEN dirty[p] \ I ELSE dirty[q]
  BY <1>1, <1>3 DEF Typed
<1>5. l \in UpMsg
  <2>1. I \in SUBSET Item
    BY <1>1 DEF Typed
  <2> QED BY <2>1, ItemPackets
<1>6. PICK m \in UpMsg : m = l
  BY <1>5
<1>7. m.type = "SAVE" /\ m.pid = p /\ m.items = I
  BY <1>6
<1> HIDE DEF l
<1>8. Added(up, up', core[p], m)
  BY <1>1, <1>2, <1>3, <1>6, Sent
<1>9. SessionsInv'
  BY <1>1, <1>3, <1>4 DEF SessionsInv
<1>10. PacketsInv'
  <2>1. m \in OwnOf(p) /\ m \notin LogoutOf(p)
    BY <1>7, SaveUp
  <2> QED BY <1>1, <1>2, <1>3, <1>7, <1>8, <2>1, OwnSent
<1>11. WhereInv'
  BY <1>2, <1>3, <1>4, <1>7, <1>8, SavesSent
<1> QED BY <1>9, <1>10, <1>11 DEF Next3

\* The item leaves the player with a packet that comes after his saves of it.
LEMMA CheckInItems ==
    ASSUME ItemsInv, NEW p \in Player, NEW j \in Item, NEW k \in Cell, CheckInItem(p, j, k)
    PROVE  Next3
<1>1. Typed /\ SessionsInv /\ PacketsInv
  BY DEF ItemsInv, IInv
<1> DEFINE l == [type |-> "ADD", pid |-> p, login |-> login[p], item |-> j, cell |-> k]
<1>2. core[p] # NoCore /\ core[p] \in Core
  BY <1>1 DEF Typed, CheckInItem, ViewerAsks, Request
<1>3. /\ Sends(core[p], l) /\ j \in has[p]
      /\ has' = [has EXCEPT ![p] = @ \ {j}] /\ dirty' = [dirty EXCEPT ![p] = @ \ {j}]
      /\ UNCHANGED <<box, unsaved, row, entry, due, cached, out, logon, core, down,
                     late, gone>>
  BY DEF CheckInItem, ViewerAsks, Request, boxVars, rowVars
<1>4. /\ \A q \in Player : has'[q] = IF q = p THEN has[p] \ {j} ELSE has[q]
      /\ \A q \in Player : dirty'[q] = IF q = p THEN dirty[p] \ {j} ELSE dirty[q]
  BY <1>1, <1>3 DEF Typed
<1>5. l \in UpMsg
  BY <1>1 DEF Typed, UpMsg
<1>6. PICK m \in UpMsg : m = l
  BY <1>5
<1>7. m.type = "ADD" /\ m.pid = p /\ m.item = j
  BY <1>6
<1> HIDE DEF l
<1>8. Added(up, up', core[p], m)
  BY <1>1, <1>2, <1>3, <1>6, Sent
<1>9. /\ m \in OwnOf(p) /\ m \notin LogoutOf(p)
      /\ \A i \in Item : (m \in CarrierOf(i) <=> i = j) /\ (m \in AddOf(i) <=> i = j)
  BY <1>7, AddUp
<1>10. SessionsInv'
  BY <1>1, <1>3, <1>4 DEF SessionsInv
<1>11. PacketsInv'
  BY <1>1, <1>2, <1>3, <1>7, <1>8, <1>9, OwnSent
<1>12. ASSUME NEW i \in Item \ (late \cup gone) PROVE Where(i)'
  <2>1. Where(i)
    BY DEF ItemsInv, WhereInv
  <2>2. CASE i # j
    <3>1. Quiet(up, up', CarrierOf(i))
      BY <1>8, <1>9, <2>2 DEF Added
    <3>2. \A q \in Player : (i \in has'[q] <=> i \in has[q]) /\ (i \in dirty[q] => i \in dirty'[q])
      BY <1>4, <2>2
    <3> QED BY <1>3, <2>1, <3>1, <3>2, QuietSame, WhereKept
  <2>3. CASE i = j
    <3>1. OfPlayer(j, p)
      BY <1>3, <2>1, <2>3 DEF Where, Boxed, Given, OfPlayer
    <3>2. \A q \in Player : j \notin has'[q]
      BY <1>4, <3>1 DEF OfPlayer
    <3>3. \A b \in Core : /\ ~Some(up'[b], CarrierOf(j) \ OwnOf(p))
                          /\ NoneAfter(up'[b], CarrierOf(j), AddOf(j))
      BY <1>2, <1>3, <1>8, <1>9, <3>1, <3>2, SentFor
    <3>4. Some(up'[core[p]], CarrierOf(j)) /\ Some(up'[core[p]], AddOf(j))
      BY <1>2, <1>8, <1>9 DEF Added
    <3>5. OfPlayer(j, p)'
      BY <1>2, <1>3, <3>1, <3>2, <3>3, <3>4 DEF OfPlayer
    <3> QED BY <2>3, <3>5 DEF Where
  <2> QED BY <2>2, <2>3
<1> QED BY <1>3, <1>10, <1>11, <1>12 DEF Next3, WhereInv

LEMMA PlainRequestItems ==
    ASSUME ItemsInv, NEW p \in Player, NEW m \in UpMsg, Request(p, m),
           m.type \in {"TAKE", "MOVE", "GIVE_GOLD", "GET_GOLD", "LOAD"},
           UNCHANGED <<has, dirty>>
    PROVE  Next3
<1>1. Typed
  BY DEF ItemsInv, IInv
<1>2. /\ core[p] \in Core /\ Sends(core[p], m)
      /\ UNCHANGED <<box, unsaved, row, entry, due, cached, out, logon, core, down,
                     late, gone>>
  BY <1>1 DEF Request, Typed, boxVars, rowVars
<1>3. Added(up, up', core[p], m)
  BY <1>1, <1>2, Sent
<1>4. /\ \A q \in Player : Quiet(up, up', OwnOf(q))
      /\ \A i \in Item : Quiet(up, up', CarrierOf(i))
  BY <1>3, PlainUp DEF Added
<1> QED BY <1>2, <1>4, QuietSame, PlainStep

LEMMA RequestsItems ==
    ASSUME ItemsInv, NEW p \in Player,
           \/ OpenSafebox(p)
           \/ \E c \in Cell : CheckOutItem(p, c)
           \/ \E c, d \in Cell : MoveItem(p, c, d)
           \/ \E g \in Amount : GiveGold(p, g) \/ TakeGold(p, g)
    PROVE  Next3
<1>1. login[p] \in Nat /\ Amount \subseteq Nat
  BY ConstantTypes DEF ItemsInv, IInv, Typed, Amount
<1>2. CASE OpenSafebox(p)
  <2>1. [type |-> "LOAD", pid |-> p, login |-> login[p]] \in UpMsg
    BY <1>1 DEF UpMsg
  <2> QED BY <1>2, <2>1, PlainRequestItems DEF OpenSafebox
<1>3. ASSUME NEW c \in Cell, CheckOutItem(p, c)
      PROVE  Next3
  <2>1. [type |-> "TAKE", pid |-> p, login |-> login[p], cell |-> c] \in UpMsg
    BY <1>1 DEF UpMsg
  <2> QED BY <1>3, <2>1, PlainRequestItems DEF CheckOutItem, ViewerAsks
<1>4. ASSUME NEW c \in Cell, NEW d \in Cell, MoveItem(p, c, d)
      PROVE  Next3
  <2>1. [type |-> "MOVE", from |-> c, to |-> d] \in UpMsg
    BY DEF UpMsg
  <2> QED BY <1>4, <2>1, PlainRequestItems DEF MoveItem, ViewerAsks
<1>5. ASSUME NEW g \in Amount, GiveGold(p, g)
      PROVE  Next3
  <2>1. [type |-> "GIVE_GOLD", gold |-> g] \in UpMsg
    BY <1>1 DEF UpMsg
  <2> QED BY <1>5, <2>1, PlainRequestItems DEF GiveGold, ViewerAsks
<1>6. ASSUME NEW g \in Amount, TakeGold(p, g)
      PROVE  Next3
  <2>1. [type |-> "GET_GOLD", pid |-> p, login |-> login[p], gold |-> g] \in UpMsg
    BY <1>1 DEF UpMsg
  <2> QED BY <1>6, <2>1, PlainRequestItems DEF TakeGold, ViewerAsks
<1> QED BY <1>2, <1>3, <1>4, <1>5, <1>6

-----------------------------------------------------------------------------
(***************************************************************************)
(* Items: what cores get, and lose.                                         *)
(***************************************************************************)

\* What becomes of the packets when a core takes the head of its queue.
LEMMA DownTaken ==
    ASSUME Typed, NEW c \in Core, NEW types, Take(c, types)
    PROVE  /\ \A O : Head(down[c]) \notin O => Quiet(down, down', O)
           /\ \A b \in Core : \A M : Some(down'[b], M) => Some(down[b], M)
           /\ \A M : Head(down[c]) \in M => Some(down[c], M)
           /\ \A A, B : NoneAfter(down[c], A, B) /\ Head(down[c]) \in B => ~Some(down'[c], A)
<1>1. /\ down \in [Core -> Seq(DownMsg)] /\ down[c] \in Seq(DownMsg) /\ down[c] # <<>>
      /\ down' = [down EXCEPT ![c] = Tail(@)]
  BY DEF Take, Typed
<1>2. down'[c] = Tail(down[c]) /\ \A b \in Core : b # c => down'[b] = down[b]
  BY <1>1
<1>3. ASSUME NEW O, Head(down[c]) \notin O PROVE Quiet(down, down', O)
  BY <1>1, <1>3, QuietTail
<1>4. /\ \A M : Some(down[c], M) <=> Head(down[c]) \in M \/ Some(Tail(down[c]), M)
      /\ \A A, B : NoneAfter(down[c], A, B)
             => NoneAfter(Tail(down[c]), A, B) /\ (Head(down[c]) \in B => ~Some(Tail(down[c]), A))
  BY <1>1, TailAt
<1>5. ASSUME NEW b \in Core, NEW M, Some(down'[b], M) PROVE Some(down[b], M)
  BY <1>2, <1>4, <1>5
<1> QED BY <1>2, <1>3, <1>4, <1>5

LEMMA ChangesItems ==
    ASSUME ItemsInv, NEW c \in Core, Changes(c)
    PROVE  Next3
<1>1. Typed
  BY DEF ItemsInv, IInv
<1>2. Take(c, {"SET", "DEL", "GOLD", "LOADED"}) /\ UNCHANGED <<up, has, dirty, gone>>
  BY DEF Changes
<1>3. /\ Head(down[c]) \in DownMsg /\ Head(down[c]).type # "GIVE"
      /\ UNCHANGED <<box, unsaved, row, entry, due, cached, out, logon, core, late>>
  BY <1>1, <1>2, Taken
<1>4. \A i \in Item : Quiet(down, down', GiveOf(i))
  BY <1>1, <1>2, <1>3, DownTaken, GiveDown
<1> QED BY <1>2, <1>3, <1>4, QuietSame, PlainStep

LEMMA PayItems ==
    ASSUME ItemsInv, NEW c \in Core, Pay(c)
    PROVE  Next3
<1> DEFINE m == Head(down[c])
<1>1. Typed
  BY DEF ItemsInv, IInv
<1>2. Take(c, {"PAY"}) /\ UNCHANGED <<has, dirty, gone>>
  BY DEF Pay
<1>3. /\ m \in DownMsg /\ m.type = "PAY"
      /\ UNCHANGED <<box, unsaved, row, entry, due, cached, out, logon, core, late>>
  BY <1>1, <1>2, Taken
<1>4. \A i \in Item : Quiet(down, down', GiveOf(i))
  BY <1>1, <1>2, <1>3, DownTaken, GiveDown
<1>5. (\A p \in Player : Quiet(up, up', OwnOf(p))) /\ \A i \in Item : Quiet(up, up', CarrierOf(i))
  <2>1. CASE up' = up
    BY <2>1, QuietSame
  <2>2. CASE up' # up
    <3>1. PICK g \in Nat : g = m.gold
      BY <1>3, DownMsgFields
    <3>2. PICK n \in UpMsg : n = [type |-> "GIVE_GOLD", gold |-> g]
      BY DEF UpMsg
    <3>3. Sends(c, n)
      BY <2>2, <3>1, <3>2 DEF Pay
    <3>4. Added(up, up', c, n)
      BY <1>1, <3>3, Sent
    <3>5. n.type = "GIVE_GOLD"
      BY <3>2
    <3> QED BY <3>4, <3>5, PlainUp DEF Added
  <2> QED BY <2>1, <2>2
<1> QED BY <1>2, <1>3, <1>4, <1>5, PlainStep

\* The item on its way becomes the player's, who has it saved, or is gone.
LEMMA GiveItems ==
    ASSUME ItemsInv, NEW c \in Core, Give(c)
    PROVE  Next3
<1> DEFINE m == Head(down[c])
<1>1. Typed /\ SessionsInv /\ PacketsInv
  BY DEF ItemsInv, IInv
<1>2. Take(c, {"GIVE"}) /\ UNCHANGED up
  BY DEF Give
<1>3. /\ m \in DownMsg /\ m.type = "GIVE"
      /\ UNCHANGED <<box, unsaved, row, entry, due, cached, out, logon, core, late>>
  BY <1>1, <1>2, Taken
<1>4. PICK p \in Player, j \in Item : p = m.pid /\ j = m.item
  BY <1>3, DownMsgFields
<1>5. \A i \in Item : m \in GiveOf(i) <=> i = j
  BY <1>3, <1>4, GiveDown
<1>6. PacketsInv'
  BY <1>1, <1>2, <1>3, QuietSame, PacketsKept DEF PacketsInv
<1>7. \A i \in Item : i # j => Quiet(down, down', GiveOf(i))
  BY <1>1, <1>2, <1>5, DownTaken
<1>8. CASE StillThere(c, m) /\ j \notin OnCore(c)
  <2>1. /\ has' = [has EXCEPT ![p] = @ \cup {j}]
        /\ dirty' = [dirty EXCEPT ![p] = @ \cup {j}]
        /\ gone' = gone
    BY <1>4, <1>8 DEF Give
  <2>2. core[p] = c /\ c # NoCore
    BY <1>4, <1>8, ConstantTypes DEF StillThere
  <2> HIDE DEF m
  <2>3. /\ \A q \in Player : has'[q] = IF q = p THEN has[p] \cup {j} ELSE has[q]
        /\ \A q \in Player : dirty'[q] = IF q = p THEN dirty[p] \cup {j} ELSE dirty[q]
    BY <1>1, <2>1 DEF Typed
  <2>4. SessionsInv'
    BY <1>1, <1>3, <2>2, <2>3 DEF SessionsInv
  <2>5. ASSUME NEW i \in Item \ (late \cup gone), i # j PROVE Where(i)'
    <3>1. Where(i)
      BY <2>5 DEF ItemsInv, WhereInv
    <3>2. \A q \in Player : (i \in has'[q] <=> i \in has[q]) /\ (i \in dirty[q] => i \in dirty'[q])
      BY <2>3, <2>5
    <3> QED BY <1>2, <1>3, <1>7, <2>5, <3>1, <3>2, QuietSame, WhereKept
  <2>6. ASSUME j \notin late \cup gone PROVE OfPlayer(j, p)'
    <3>1. Some(down[c], GiveOf(j))
      BY <1>1, <1>2, <1>5, DownTaken DEF m
    <3>2. Given(j, c)
      BY <2>6, <3>1 DEF ItemsInv, WhereInv, Where, Boxed, Given, OfPlayer
    <3>3. \A b \in Core : ~Some(down'[b], GiveOf(j))
      <4>1. ~Some(down'[c], GiveOf(j))
        BY <1>1, <1>2, <1>5, <3>2, DownTaken DEF Given, m
      <4>2. \A b \in Core : Some(down'[b], GiveOf(j)) => b = c
        BY <1>1, <1>2, <3>2, DownTaken DEF Given
      <4> QED BY <4>1, <4>2
    <3>4. \A b \in Core : /\ ~Some(up[b], CarrierOf(j)) /\ ~Some(up[b], AddOf(j))
                          /\ ~Some(up[b], CarrierOf(j) \ OwnOf(p))
      BY <3>2, OwnSets DEF Given, Some
    <3>5. \A b \in Core : NoneAfter(up[b], CarrierOf(j), AddOf(j))
      BY <3>4, NoneAt
    <3>6. \A q \in Player : j \in has'[q] <=> q = p
      BY <2>3, <3>2 DEF Given
    <3>7. j \in dirty'[p] /\ entry[j] = NoOne /\ NoOne # p
      BY <2>3, <3>2, ConstantTypes DEF Given
    <3>8. \A e \in Cell : box[e] # j
      BY <3>2 DEF Given
    <3> QED BY <1>2, <1>3, <3>3, <3>4, <3>5, <3>6, <3>7, <3>8 DEF OfPlayer
  <2>7. WhereInv'
    BY <1>3, <2>1, <2>5, <2>6 DEF WhereInv, Where
  <2> QED BY <1>6, <2>4, <2>7 DEF Next3
<1>9. CASE ~(StillThere(c, m) /\ j \notin OnCore(c))
  <2>1. gone' = gone \cup {j} /\ UNCHANGED <<has, dirty>>
    BY <1>4, <1>9 DEF Give
  <2>2. SessionsInv'
    BY <1>1, <1>3, <2>1 DEF SessionsInv
  <2>3. ASSUME NEW i \in Item \ (late' \cup gone') PROVE Where(i)'
    <3>1. i # j /\ Where(i)
      BY <1>3, <2>1 DEF ItemsInv, WhereInv
    <3> QED BY <1>2, <1>3, <1>7, <2>1, <3>1, QuietSame, WhereKept
  <2> QED BY <1>6, <2>2, <2>3 DEF Next3, WhereInv
<1> QED BY <1>8, <1>9

\* A queue without packets of O is emptied.
LEMMA QuietCut ==
    ASSUME NEW T, NEW u \in [Core -> T], NEW c \in Core, NEW O, ~Some(u[c], O)
    PROVE  Quiet(u, [u EXCEPT ![c] = <<>>], O)
<1>1. \A M \in SUBSET O : ~Some(u[c], M)
  BY DEF Some
<1> QED BY <1>1, EmptyAt DEF Quiet

LEMMA LinkLossItems ==
    ASSUME ItemsInv, NEW c \in Core, LinkLoss(c)
    PROVE  Next3
<1>1. Typed /\ SessionsInv /\ PacketsInv
  BY DEF ItemsInv, IInv
<1> DEFINE L == {p \in Player : \E n \in 1 .. Len(up[c]) :
                      up[c][n].type = "LOGOUT" /\ up[c][n].pid = p}
<1>2. /\ logon' = logon \ L
      /\ up' = [up EXCEPT ![c] = <<>>] /\ down' = [down EXCEPT ![c] = <<>>]
      /\ gone' = gone \cup {i \in Item : InQueue(up[c], i) \/ InQueue(down[c], i)}
      /\ UNCHANGED <<box, unsaved, row, entry, due, cached, out, core, has, dirty, late>>
  BY DEF LinkLoss, gameVars
<1>3. \A p \in L : Some(up[c], LogoutOf(p)) /\ Some(up[c], OwnOf(p))
  <2>1. up[c] \in Seq(UpMsg)
    BY <1>1 DEF Typed
  <2>2. DOMAIN up[c] = 1 .. Len(up[c]) /\ \A n \in 1 .. Len(up[c]) : up[c][n] \in UpMsg
    BY <2>1
  <2> QED BY <2>2 DEF Some, LogoutOf, OwnOf
<1>4. up \in [Core -> Seq(UpMsg)] /\ down \in [Core -> Seq(DownMsg)]
  BY <1>1 DEF Typed
<1>5. \A b \in Core : up'[b] = IF b = c THEN <<>> ELSE up[b]
  BY <1>2, <1>4
<1> HIDE DEF L
<1>6. SessionsInv'
  <2>1. \A p \in Player : core[p] # NoCore => p \notin L
    BY <1>1, <1>3 DEF PacketsInv, PacketsOf
  <2> QED BY <1>1, <1>2, <2>1 DEF SessionsInv
<1>7. PacketsInv'
  <2>1. \A b \in Core : \A M : Some(up'[b], M) => Some(up[b], M) /\ b # c
    BY <1>5, EmptyAt
  <2>2. \A b \in Core : \A A, B : NoneAfter(up[b], A, B) => NoneAfter(up'[b], A, B)
    BY <1>5, EmptyAt
  <2>3. ASSUME NEW b \in Core, NEW p \in Player, Some(up'[b], OwnOf(p)), p \in logon
        PROVE  p \in logon'
    BY <1>1, <1>2, <1>3, <2>1, <2>3 DEF PacketsInv, PacketsOf
  <2> QED BY <1>1, <1>2, <2>1, <2>2, <2>3, PacketsLess
<1>8. ASSUME NEW i \in Item \ (late' \cup gone') PROVE Where(i)'
  <2>1. i \notin late \cup gone /\ ~InQueue(up[c], i) /\ ~InQueue(down[c], i)
    BY <1>2
  <2>2. Where(i)
    BY <2>1 DEF ItemsInv, WhereInv
  <2>3. ~Some(up[c], CarrierOf(i)) /\ ~Some(down[c], GiveOf(i))
    BY <1>1, <2>1, InQueueUp, InQueueDown
  <2>4. Quiet(up, up', CarrierOf(i)) /\ Quiet(down, down', GiveOf(i))
    BY <1>2, <1>4, <2>3, QuietCut
  <2> QED BY <1>2, <2>2, <2>4, WhereKept
<1> QED BY <1>6, <1>7, <1>8 DEF Next3, WhereInv

-----------------------------------------------------------------------------
LEMMA InitItems == Init => ItemsInv
<1> SUFFICES ASSUME Init PROVE ItemsInv
  OBVIOUS
<1>1. IInv
  BY InitInv
<1>2. /\ core = [p \in Player |-> NoCore] /\ has = [p \in Player |-> {}]
      /\ dirty = [p \in Player |-> {}] /\ entry = [i \in Item |-> NoOne]
      /\ due = {} /\ cached = {} /\ out = {} /\ logon = {} /\ late = {} /\ gone = {}
      /\ \A c \in Core : up[c] = <<>> /\ down[c] = <<>>
  BY DEF Init
<1>3. SessionsInv
  BY <1>2 DEF SessionsInv
<1>4. PacketsInv
  BY <1>2, EmptyAt DEF PacketsInv, PacketsOf
<1>5. \A c \in Core : \A M, A, B :
          ~Some(up[c], M) /\ ~Some(down[c], M) /\ NoneAfter(up[c], A, B)
  BY <1>2, EmptyAt
<1>6. ASSUME NEW i \in Item PROVE Where(i)
  <2>1. CASE row[i] = Guild
    <3>1. i \in InBox
      BY <2>1 DEF Init
    <3>2. PICK d \in Cell : {e \in Cell : box[e] = i} = {d}
      BY <3>1 DEF Init
    <3>3. Boxed(i, d)
      BY <1>2, <1>5, <2>1, <3>2 DEF Boxed
    <3> QED BY <3>3 DEF Where
  <2>2. CASE row[i] # Guild
    <3>1. PICK p \in Player : row[i] = p
      BY <2>2 DEF Init
    <3>2. \A e \in Cell : box[e] # i
      BY <2>2, ConstantTypes DEF Init
    <3>3. p # NoOne
      BY ConstantTypes
    <3>4. OfPlayer(i, p)
      BY <1>2, <1>5, <3>1, <3>2, <3>3 DEF OfPlayer
    <3> QED BY <3>4 DEF Where
  <2> QED BY <2>1, <2>2
<1> QED BY <1>1, <1>3, <1>4, <1>6 DEF ItemsInv, WhereInv

LEMMA NextItems == ItemsInv /\ [Next]_vars => ItemsInv'
<1> SUFFICES ASSUME ItemsInv, [Next]_vars PROVE Next3
  BY NextInv DEF ItemsInv, Next3
<1>1. CASE Db
  <2>1. ASSUME NEW c \in Core,
               \/ GUILD_SAFEBOX_ADD(c) \/ GUILD_SAFEBOX_MOVE(c) \/ GUILD_SAFEBOX_TAKE(c)
               \/ GUILD_SAFEBOX_GIVE_GOLD(c) \/ GUILD_SAFEBOX_GET_GOLD(c)
               \/ GUILD_SAFEBOX_LOAD(c)
               \/ QUERY_ITEM_SAVE(c) \/ QUERY_LOGOUT(c)
        PROVE  Next3
    BY <2>1, AddItems, MoveItems, TakeItems, OtherPackets, ItemSaveItems, QueryLogoutItems
  <2>2. ASSUME NEW S \in SUBSET unsaved, FlushItems(S)
        PROVE  Next3
    BY <2>2, FlushItemsItems
  <2>3. ASSUME NEW i \in Item, UpdateItemCache(i)
        PROVE  Next3
    BY <2>3, ItemCacheItems
  <2>4. ASSUME NEW p \in Player, UpdateLogoutPlayer(p)
        PROVE  Next3
    BY <2>4, LogoutPlayerItems
  <2> QED BY <1>1, <2>1, <2>2, <2>3, <2>4 DEF Db
<1>2. CASE Game
  <2>1. ASSUME NEW p \in Player, NEW c \in Core, Login(p, c)
        PROVE  Next3
    BY <2>1, LoginItems
  <2>2. ASSUME NEW p \in Player, Logout(p) \/ \E I \in SUBSET dirty[p] : SaveItems(p, I)
        PROVE  Next3
    BY <2>2, OfflineItems, SaveItemsItems
  <2>3. ASSUME NEW p \in Player, NEW i \in Item, NEW c \in Cell, CheckInItem(p, i, c)
        PROVE  Next3
    BY <2>3, CheckInItems
  <2>4. ASSUME NEW p \in Player,
               \/ OpenSafebox(p)
               \/ \E c \in Cell : CheckOutItem(p, c)
               \/ \E c, d \in Cell : MoveItem(p, c, d)
               \/ \E g \in Amount : GiveGold(p, g) \/ TakeGold(p, g)
        PROVE  Next3
    BY <2>4, RequestsItems
  <2>5. ASSUME NEW c \in Core, Changes(c) \/ Give(c) \/ Pay(c) \/ LinkLoss(c)
        PROVE  Next3
    BY <2>5, ChangesItems, GiveItems, PayItems, LinkLossItems
  <2> QED BY <1>2, <2>1, <2>2, <2>3, <2>4, <2>5 DEF Game
<1>3. CASE UNCHANGED vars
  BY <1>3, QuietSame, PlainStep DEF vars, boxVars, rowVars, gameVars, history
<1> QED BY <1>1, <1>2, <1>3 DEF Next

LEMMA ItemsInvHolds == Spec => []ItemsInv
<1> QED BY InitItems, NextItems, PTL DEF Spec

-----------------------------------------------------------------------------
(***************************************************************************)
(* The places of an item.                                                   *)
(***************************************************************************)

LEMMA MovesAt ==
    ASSUME Typed, NEW c \in Core, NEW i \in Item, NEW n
    PROVE  /\ n \in Moves(up[c], i) <=> n \in DOMAIN up[c] /\ up[c][n] \in AddOf(i)
           /\ n \in Moves(down[c], i) <=> n \in DOMAIN down[c] /\ down[c][n] \in GiveOf(i)
<1>1. up[c] \in Seq(UpMsg) /\ down[c] \in Seq(DownMsg)
  BY DEF Typed
<1>2. /\ DOMAIN up[c] = 1 .. Len(up[c]) /\ \A k \in DOMAIN up[c] : up[c][k] \in UpMsg
      /\ DOMAIN down[c] = 1 .. Len(down[c]) /\ \A k \in DOMAIN down[c] : down[c][k] \in DownMsg
  BY <1>1
<1>3. \A m \in UpMsg : m.type # "GIVE"
  BY DEF UpMsg
<1>4. \A m \in DownMsg : m.type # "ADD"
  BY DEF DownMsg
<1>5. n \in Moves(up[c], i) <=> n \in DOMAIN up[c] /\ up[c][n] \in AddOf(i)
  BY <1>2, <1>3 DEF Moves, AddOf
<1>6. n \in Moves(down[c], i) <=> n \in DOMAIN down[c] /\ down[c][n] \in GiveOf(i)
  BY <1>2, <1>4 DEF Moves, GiveOf
<1> QED BY <1>5, <1>6

LEMMA PlaceIn ==
    ASSUME NEW i \in Item, NEW x
    PROVE  x \in Places(i) <=>
               \/ \E p \in Player : i \in has[p] /\ x = <<"player", p>>
               \/ \E c \in Cell : box[c] = i /\ x = <<"cell", c>>
               \/ \E c \in Core : \E n \in Moves(up[c], i) : x = <<"up", c, n>>
               \/ \E c \in Core : \E n \in Moves(down[c], i) : x = <<"down", c, n>>
<1> DEFINE P == {"player"} \X {p \in Player : i \in has[p]}
           B == {"cell"} \X {c \in Cell : box[c] = i}
           Q(c) == ({"up"} \X {c} \X Moves(up[c], i)) \cup ({"down"} \X {c} \X Moves(down[c], i))
<1>1. x \in P <=> \E p \in Player : i \in has[p] /\ x = <<"player", p>>
  OBVIOUS
<1>2. x \in B <=> \E c \in Cell : box[c] = i /\ x = <<"cell", c>>
  OBVIOUS
<1>3. \A c \in Core : x \in Q(c) <=> \/ \E n \in Moves(up[c], i) : x = <<"up", c, n>>
                                     \/ \E n \in Moves(down[c], i) : x = <<"down", c, n>>
  OBVIOUS
<1>4. Places(i) = P \cup B \cup UNION {Q(c) : c \in Core}
  BY DEF Places
<1> HIDE DEF P, B, Q
<1>5. x \in Places(i) <=> x \in P \/ x \in B \/ \E c \in Core : x \in Q(c)
  BY <1>4
<1> QED BY <1>1, <1>2, <1>3, <1>5

LEMMA OnePlace ==
    ASSUME ItemsInv, NEW i \in Item \ (late \cup gone)
    PROVE  \E z : \A x \in Places(i) : x = z
<1>1. Typed /\ SessionsInv /\ PacketsInv /\ Where(i)
  BY DEF ItemsInv, IInv, WhereInv
<1>2. \A c \in Core : /\ \A n \in Moves(up[c], i) : Some(up[c], AddOf(i)) /\ Some(up[c], CarrierOf(i))
                      /\ \A n \in Moves(down[c], i) : Some(down[c], GiveOf(i))
  BY <1>1, MovesAt, OwnSets DEF Some
<1>3. ASSUME NEW d \in Cell, Boxed(i, d)
      PROVE  \A x \in Places(i) : x = <<"cell", d>>
  BY <1>2, <1>3, PlaceIn DEF Boxed
<1>4. ASSUME NEW c \in Core, Given(i, c)
      PROVE  \E z : \A x \in Places(i) : x = z
  <2>1. PICK n \in DOMAIN down[c] : down[c][n] \in GiveOf(i)
    BY <1>4 DEF Given, Some
  <2>2. ASSUME NEW x \in Places(i) PROVE x = <<"down", c, n>>
    <3>0. PICK b \in Core : \E k \in Moves(down[b], i) : x = <<"down", b, k>>
      BY <1>2, <1>4, PlaceIn DEF Given
    <3>1. PICK k \in Moves(down[b], i) : x = <<"down", b, k>>
      BY <3>0
    <3>2. b = c
      BY <1>2, <1>4 DEF Given
    <3>3. k \in DOMAIN down[c] /\ down[c][k] \in GiveOf(i)
      BY <1>1, <3>2, MovesAt
    <3>4. k <= n /\ n <= k
      BY <1>4, <2>1, <3>3 DEF Given, NoneAfter
    <3>5. k \in Nat /\ n \in Nat
      <4>1. down[c] \in Seq(DownMsg)
        BY <1>1 DEF Typed
      <4> QED BY <2>1, <3>3, <4>1
    <3> QED BY <3>1, <3>2, <3>4, <3>5
  <2> QED BY <2>2
<1>5. ASSUME NEW p \in Player, OfPlayer(i, p)
      PROVE  \E z : \A x \in Places(i) : x = z
  <2>1. ASSUME NEW x \in Places(i)
        PROVE  \/ x = <<"player", p>> /\ i \in has[p]
               \/ \E c \in Core : \E n \in Moves(up[c], i) : x = <<"up", c, n>>
    BY <1>2, <1>5, PlaceIn DEF OfPlayer
  <2>2. CASE i \in has[p]
    <3>1. \A c \in Core : ~Some(up[c], AddOf(i))
      BY <1>5, <2>2 DEF OfPlayer
    <3>2. \A x \in Places(i) : x = <<"player", p>>
      BY <1>2, <2>1, <3>1
    <3> QED BY <3>2
  <2>3. ASSUME i \notin has[p], NEW c \in Core, NEW n \in Moves(up[c], i)
        PROVE  \A x \in Places(i) : x = <<"up", c, n>>
    <3> SUFFICES ASSUME NEW x \in Places(i) PROVE x = <<"up", c, n>>
      OBVIOUS
    <3>0. PICK b \in Core : \E k \in Moves(up[b], i) : x = <<"up", b, k>>
      BY <2>1, <2>3
    <3>1. PICK k \in Moves(up[b], i) : x = <<"up", b, k>>
      BY <3>0
    <3>2. b = c
      BY <1>1, <1>2, <1>5, CarrierOwn
    <3>3. /\ k \in DOMAIN up[c] /\ up[c][k] \in AddOf(i) /\ up[c][k] \in CarrierOf(i)
          /\ n \in DOMAIN up[c] /\ up[c][n] \in AddOf(i) /\ up[c][n] \in CarrierOf(i)
      BY <1>1, <3>2, MovesAt, OwnSets
    <3>4. k <= n /\ n <= k
      BY <1>5, <3>3 DEF OfPlayer, NoneAfter
    <3>5. k \in Nat /\ n \in Nat
      <4>1. up[c] \in Seq(UpMsg)
        BY <1>1 DEF Typed
      <4> QED BY <3>3, <4>1
    <3> QED BY <3>1, <3>2, <3>4, <3>5
  <2>4. CASE i \notin has[p] /\ \A c \in Core : Moves(up[c], i) = {}
    BY <2>1, <2>4
  <2> QED BY <2>2, <2>3, <2>4
<1> QED BY <1>1, <1>3, <1>4, <1>5 DEF Where

\* An item that no packet was lost with and nobody got from an old row is never in
\* two places, a player's and a cell of the safebox, two cells or two packets, in
\* whatever order ADD, the saves, TAKE, the flushes, logouts and logins are handled.
THEOREM ItemInOnePlace == Spec => []ItemOnce
<1>1. ItemsInv => ItemOnce
  <2> SUFFICES ASSUME ItemsInv, NEW i \in Item \ (late \cup gone),
                      NEW x \in Places(i), NEW y \in Places(i)
               PROVE  x = y
    BY DEF ItemOnce
  <2> QED BY OnePlace
<1> QED BY <1>1, ItemsInvHolds, PTL

\* Such an item is somewhere too: in its place, in a save on its way, or its owner,
\* who is offline, has it in the cache or the table he will be loaded from.
THEOREM ItemIsKept == Spec => []ItemKept
<1>1. ItemsInv => ItemKept
  <2> SUFFICES ASSUME ItemsInv, NEW i \in Item \ (late \cup gone)
               PROVE  \/ \E x : x \in Places(i)
                      \/ \E c \in Core : InQueue(up[c], i)
                      \/ \E p \in Player : core[p] = NoCore /\ Stored(p, i)
    BY DEF ItemKept
  <2>1. Typed /\ SessionsInv /\ Where(i)
    BY DEF ItemsInv, IInv, WhereInv
  <2>2. ASSUME NEW d \in Cell, Boxed(i, d) PROVE <<"cell", d>> \in Places(i)
    BY <2>2, PlaceIn DEF Boxed
  <2>3. ASSUME NEW c \in Core, Given(i, c) PROVE \E x : x \in Places(i)
    <3>1. PICK n : n \in Moves(down[c], i)
      BY <2>1, <2>3, MovesAt DEF Given, Some
    <3>2. <<"down", c, n>> \in Places(i)
      BY <3>1, PlaceIn
    <3> QED BY <3>2
  <2>4. ASSUME NEW p \in Player, OfPlayer(i, p)
        PROVE  \/ \E x : x \in Places(i)
               \/ \E c \in Core : InQueue(up[c], i)
               \/ core[p] = NoCore /\ Stored(p, i)
    <3>1. CASE i \in has[p]
      <4>1. <<"player", p>> \in Places(i)
        BY <3>1, PlaceIn
      <4> QED BY <4>1
    <3>2. ASSUME NEW c \in Core, Some(up[c], CarrierOf(i)) PROVE InQueue(up[c], i)
      BY <2>1, <3>2, InQueueUp
    <3>3. CASE i \notin has[p] /\ \A c \in Core : ~Some(up[c], CarrierOf(i))
      <4>1. \A c \in Core : ~Some(up[c], AddOf(i))
        BY <3>3, OwnSets DEF Some
      <4>2. core[p] = NoCore
        BY <2>4, <3>3, <4>1 DEF OfPlayer
      <4>3. i \notin dirty[p]
        BY <2>1, <3>3 DEF SessionsInv
      <4>4. entry[i] = p => p \in cached
        <5>1. p # NoOne
          BY ConstantTypes
        <5> QED BY <2>1, <5>1 DEF SessionsInv
      <4> QED BY <2>4, <3>3, <4>2, <4>3, <4>4 DEF OfPlayer, Stored
    <3> QED BY <3>1, <3>2, <3>3
  <2> QED BY <2>1, <2>2, <2>3, <2>4 DEF Where
<1> QED BY <1>1, ItemsInvHolds, PTL

-----------------------------------------------------------------------------
(***************************************************************************)
(* Folds.  A fold over a queue of packets is the end of a run, a sequence   *)
(* of values each of which is made of the one before it and a packet.       *)
(***************************************************************************)

LEMMA LeastExists ==
    ASSUME NEW S \in SUBSET Nat, S # {}
    PROVE  \E x \in S : \A y \in S : x <= y
<1> DEFINE R == {ss \in Nat \X Nat : ss[1] < ss[2]}
<1>1. IsWellFoundedOn(R, Nat)
  BY NatLessThanWellFounded DEF OpToRel
<1>2. PICK x \in S : \A y \in S : ~ (<<y, x>> \in R)
  <2> HIDE DEF R
  <2> QED BY <1>1, WFMin
<1>3. ASSUME NEW y \in S
      PROVE  x <= y
  <2>1. x \in Nat /\ y \in Nat /\ (y < x => <<y, x>> \in R)
    OBVIOUS
  <2> HIDE DEF R
  <2>2. ~(y < x)
    BY <1>2, <2>1
  <2> QED BY <2>1, <2>2
<1> QED BY <1>3

\* Induction, for a set of numbers.
LEMMA Inductive ==
    ASSUME NEW S, 0 \in S, \A k \in Nat : k \in S => k + 1 \in S
    PROVE  \A n \in Nat : n \in S
<1> DEFINE T == {n \in Nat : n \notin S}
<1> SUFFICES ASSUME T # {} PROVE FALSE
  OBVIOUS
<1>1. PICK x \in T : \A y \in T : x <= y
  <2>1. T \in SUBSET Nat
    OBVIOUS
  <2> HIDE DEF T
  <2> QED BY <2>1, LeastExists
<1>2. x # 0 /\ x \in Nat
  OBVIOUS
<1>3. x - 1 \in Nat /\ ~(x <= x - 1)
  BY <1>2
<1>4. x - 1 \notin T
  BY <1>1, <1>3
<1>5. x - 1 \in S
  BY <1>3, <1>4
<1>6. x - 1 + 1 = x
  BY <1>2
<1>7. x \in S
  BY <1>3, <1>5, <1>6
<1> QED BY <1>7

\* The two things that are folded: what packets make of a mirror, and
\* the gold they carry.
Put(what, m, s) == IF what = "mirror" THEN Apply(m, s) ELSE s + Carried(m)

Run(k, h, s, q, t) ==
    /\ h[0] = s /\ h[Len(q)] = t
    /\ \A n \in 1 .. Len(q) : h[n] = Put(k, q[n], h[n - 1])
Leads(k, s, q, t) == \E h : Run(k, h, s, q, t)

\* How FoldLeft does it, subset by subset.
PutLast(k, q, s, g, S) == IF S = {} THEN s ELSE Put(k, q[Max(S)], g[S \ {Max(S)}])

LEMMA MaxAt ==
    ASSUME NEW k \in Nat, NEW S \in SUBSET (1 .. k), k \in S
    PROVE  Max(S) = k
<1>1. \A y \in S : k >= y /\ (y >= k => y = k)
  OBVIOUS
<1> QED BY <1>1 DEF Max

LEMMA PutsExist ==
    ASSUME NEW i, NEW q, NEW s, NEW n \in Nat
    PROVE  \E g : g = [S \in SUBSET (1 .. n) |-> PutLast(i, q, s, g, S)]
<1> DEFINE P == {k \in Nat : \E g : g = [S \in SUBSET (1 .. k) |-> PutLast(i, q, s, g, S)]}
<1>1. 0 \in P
  <2> DEFINE g == [S \in SUBSET (1 .. 0) |-> s]
  <2>1. \A S \in SUBSET (1 .. 0) : S = {}
    OBVIOUS
  <2>2. g = [S \in SUBSET (1 .. 0) |-> PutLast(i, q, s, g, S)]
    BY <2>1 DEF PutLast
  <2> QED BY <2>2
<1>2. ASSUME NEW k \in Nat, k \in P
      PROVE  k + 1 \in P
  <2>1. PICK g : g = [S \in SUBSET (1 .. k) |-> PutLast(i, q, s, g, S)]
    BY <1>2
  <2> DEFINE f == [S \in SUBSET (1 .. k + 1) |->
                      IF k + 1 \in S THEN Put(i, q[k + 1], g[S \ {k + 1}]) ELSE g[S]]
  <2>2. ASSUME NEW S \in SUBSET (1 .. k + 1)
        PROVE  f[S] = PutLast(i, q, s, f, S)
    <3>1. CASE k + 1 \in S
      <4>1. Max(S) = k + 1
        BY <3>1, MaxAt
      <4>2. S \ {k + 1} \in SUBSET (1 .. k + 1)
        OBVIOUS
      <4>3. f[S \ {k + 1}] = g[S \ {k + 1}]
        BY <4>2
      <4>4. f[S] = Put(i, q[k + 1], g[S \ {k + 1}])
        BY <3>1
      <4> HIDE DEF f
      <4> QED BY <3>1, <4>1, <4>3, <4>4 DEF PutLast
    <3>2. CASE k + 1 \notin S
      <4>1. S \in SUBSET (1 .. k)
        BY <3>2
      <4>2. g[S] = PutLast(i, q, s, g, S)
        BY <2>1, <4>1
      <4>3. S \ {Max(S)} \in SUBSET (1 .. k + 1) /\ k + 1 \notin S \ {Max(S)}
        BY <3>2
      <4>4. f[S \ {Max(S)}] = g[S \ {Max(S)}]
        BY <4>3
      <4>5. f[S] = g[S]
        BY <3>2
      <4> HIDE DEF f
      <4> QED BY <4>2, <4>4, <4>5 DEF PutLast
    <3> QED BY <3>1, <3>2
  <2>3. f = [S \in SUBSET (1 .. k + 1) |-> PutLast(i, q, s, f, S)]
    <3>1. f = [S \in SUBSET (1 .. k + 1) |-> f[S]]
      OBVIOUS
    <3> HIDE DEF f
    <3> QED BY <2>2, <3>1
  <2> HIDE DEF f
  <2>4. k + 1 \in Nat
    OBVIOUS
  <2> QED BY <2>3, <2>4
<1> HIDE DEF P
<1>3. n \in P
  BY <1>1, <1>2, Inductive
<1> QED BY <1>3 DEF P

\* Every queue has a run, whose end is what a fold computes.
Puts(k, q, s) == CHOOSE g : g = [S \in SUBSET (1 .. Len(q)) |-> PutLast(k, q, s, g, S)]

LEMMA RunExists ==
    ASSUME NEW T, NEW q \in Seq(T), NEW k, NEW s
    PROVE  LET h == [n \in 0 .. Len(q) |-> Puts(k, q, s)[1 .. n]]
           IN  Run(k, h, s, q, Puts(k, q, s)[1 .. Len(q)])
<1> DEFINE n == Len(q)
           g == Puts(k, q, s)
           h == [j \in 0 .. n |-> g[1 .. j]]
<1>1. n \in Nat
  OBVIOUS
<1>2. g = [S \in SUBSET (1 .. n) |-> PutLast(k, q, s, g, S)]
  BY <1>1, PutsExist DEF Puts
<1> HIDE DEF g
<1>3. h[0] = s
  <2>1. 1 .. 0 = {} /\ 0 \in 0 .. n
    BY <1>1
  <2>2. g[{}] = s
    BY <1>2 DEF PutLast
  <2> QED BY <2>1, <2>2
<1>4. h[n] = g[1 .. n]
  BY <1>1
<1>5. ASSUME NEW j \in 1 .. n
      PROVE  h[j] = Put(k, q[j], h[j - 1])
  <2>1. j \in Nat /\ j \in 0 .. n /\ j - 1 \in 0 .. n
    BY <1>1
  <2>2. 1 .. j \in SUBSET (1 .. n) /\ 1 .. j # {} /\ (1 .. j) \ {j} = 1 .. j - 1
    <3>1. j \in 1 .. j /\ 1 .. j \in SUBSET (1 .. n)
      BY <1>1
    <3>2. \A x : x \in (1 .. j) \ {j} <=> x \in 1 .. j - 1
      BY <2>1
    <3> QED BY <3>1, <3>2
  <2>3. Max(1 .. j) = j
    BY <2>1, MaxAt
  <2>4. g[1 .. j] = Put(k, q[j], g[1 .. j - 1])
    BY <1>2, <2>2, <2>3 DEF PutLast
  <2> QED BY <2>1, <2>4
<1> HIDE DEF h
<1>6. Run(k, h, s, q, g[1 .. n])
  BY <1>3, <1>4, <1>5 DEF Run
<1> QED BY <1>6 DEF h, g

LEMMA RunIsOne ==
    ASSUME NEW T, NEW q \in Seq(T), NEW k, NEW s, NEW t, NEW u,
           Leads(k, s, q, t), Leads(k, s, q, u)
    PROVE  t = u
<1>1. PICK h : Run(k, h, s, q, t)
  BY DEF Leads
<1>2. PICK g : Run(k, g, s, q, u)
  BY DEF Leads
<1> DEFINE n == Len(q)
           P == {j \in Nat : j <= n => h[j] = g[j]}
<1>3. n \in Nat
  OBVIOUS
<1>4. 0 \in P
  BY <1>1, <1>2 DEF Run
<1>5. ASSUME NEW j \in Nat, j \in P
      PROVE  j + 1 \in P
  <2> SUFFICES ASSUME j + 1 <= n PROVE h[j + 1] = g[j + 1]
    OBVIOUS
  <2>1. j <= n /\ j + 1 \in 1 .. n /\ j + 1 - 1 = j
    BY <1>3
  <2>2. h[j] = g[j]
    BY <1>5, <2>1
  <2> QED BY <1>1, <1>2, <2>1, <2>2 DEF Run
<1> HIDE DEF P
<1>6. n \in P
  BY <1>3, <1>4, <1>5, Inductive
<1>7. h[n] = g[n]
  BY <1>3, <1>6 DEF P
<1> QED BY <1>1, <1>2, <1>7 DEF Run

\* What packets make of a mirror, and the gold they carry.
LEMMA FoldMirror ==
    ASSUME NEW T, NEW q \in Seq(T), NEW s, NEW t, Leads("mirror", s, q, t)
    PROVE  FoldLeft(LAMBDA a, m : Apply(m, a), s, q) = t
<1>1. Len(q) \in Nat /\ DOMAIN q = 1 .. Len(q)
  OBVIOUS
<1>2. FoldLeft(LAMBDA a, m : Apply(m, a), s, q)
        = (CHOOSE g : g = [S \in SUBSET (1 .. Len(q)) |->
              IF S = {} THEN s ELSE Apply(q[Max(S)], g[S \ {Max(S)}])])[1 .. Len(q)]
  BY <1>1, Zenon DEF FoldLeft, MapThenFoldSet
<1>3. \A g : \A S : (IF S = {} THEN s ELSE Apply(q[Max(S)], g[S \ {Max(S)}]))
                   = PutLast("mirror", q, s, g, S)
  BY DEF PutLast, Put
<1>4. Puts("mirror", q, s) = CHOOSE g : g = [S \in SUBSET (1 .. Len(q)) |->
          IF S = {} THEN s ELSE Apply(q[Max(S)], g[S \ {Max(S)}])]
  BY <1>3, Zenon DEF Puts, PutLast, Put
<1>5. Leads("mirror", s, q, Puts("mirror", q, s)[1 .. Len(q)])
  BY RunExists DEF Leads
<1>6. Puts("mirror", q, s)[1 .. Len(q)] = t
  BY <1>5, RunIsOne
<1> QED BY <1>2, <1>4, <1>6, Zenon

LEMMA FoldGold ==
    ASSUME NEW T, NEW q \in Seq(T)
    PROVE  Leads("gold", 0, q, GoldIn(q))
<1>1. Len(q) \in Nat /\ DOMAIN q = 1 .. Len(q)
  OBVIOUS
<1>2. GoldIn(q)
        = (CHOOSE g : g = [S \in SUBSET (1 .. Len(q)) |->
              IF S = {} THEN 0 ELSE g[S \ {Max(S)}] + Carried(q[Max(S)])])[1 .. Len(q)]
  BY <1>1, Zenon DEF GoldIn, FoldLeft, MapThenFoldSet
<1>4. Puts("gold", q, 0) = CHOOSE g : g = [S \in SUBSET (1 .. Len(q)) |->
          IF S = {} THEN 0 ELSE g[S \ {Max(S)}] + Carried(q[Max(S)])]
  BY Zenon DEF Puts, PutLast, Put
<1>5. Leads("gold", 0, q, Puts("gold", q, 0)[1 .. Len(q)])
  BY RunExists DEF Leads
<1> QED BY <1>2, <1>4, <1>5, Zenon

\* Runs of a queue that is empty, gets a packet, or loses its first one.
LEMMA LeadsEmpty == \A k, s : Leads(k, s, <<>>, s)
<1> TAKE k, s
<1> DEFINE h == [j \in {0} |-> s]
<1>1. Len(<<>>) = 0 /\ 1 .. 0 = {}
  OBVIOUS
<1>2. Run(k, h, s, <<>>, s)
  BY <1>1 DEF Run
<1> QED BY <1>2 DEF Leads

LEMMA LeadsAppend ==
    ASSUME NEW T, NEW q \in Seq(T), NEW m \in T, NEW k, NEW s, NEW t, Leads(k, s, q, t)
    PROVE  Leads(k, s, Append(q, m), Put(k, m, t))
<1>1. PICK h : Run(k, h, s, q, t)
  BY DEF Leads
<1> DEFINE n == Len(q)
           r == Append(q, m)
           u == Put(k, m, t)
           g == [j \in 0 .. n + 1 |-> IF j = n + 1 THEN u ELSE h[j]]
<1>2. n \in Nat /\ Len(r) = n + 1 /\ r[n + 1] = m /\ \A j \in 1 .. n : r[j] = q[j]
  OBVIOUS
<1>3. g[n + 1] = u /\ \A j \in 0 .. n : g[j] = h[j]
  BY <1>2
<1> HIDE DEF g, r, u
<1>4. g[0] = s
  BY <1>1, <1>2, <1>3 DEF Run
<1>5. ASSUME NEW j \in 1 .. n + 1
      PROVE  g[j] = Put(k, r[j], g[j - 1])
  <2>1. CASE j = n + 1
    <3>1. g[n] = t
      BY <1>1, <1>2, <1>3 DEF Run
    <3>2. j - 1 = n
      BY <2>1, <1>2
    <3> QED BY <2>1, <3>1, <3>2, <1>2, <1>3 DEF u
  <2>2. CASE j # n + 1
    <3>1. j \in 1 .. n /\ j - 1 \in 0 .. n /\ j \in 0 .. n
      BY <2>2, <1>2
    <3> QED BY <3>1, <1>1, <1>2, <1>3 DEF Run
  <2> QED BY <2>1, <2>2
<1>6. Run(k, g, s, r, u)
  BY <1>2, <1>3, <1>4, <1>5 DEF Run
<1> QED BY <1>6 DEF Leads, r, u

LEMMA LeadsTail ==
    ASSUME NEW T, NEW q \in Seq(T), q # <<>>, NEW k, NEW s, NEW t, Leads(k, s, q, t)
    PROVE  Leads(k, Put(k, Head(q), s), Tail(q), t)
<1>1. PICK h : Run(k, h, s, q, t)
  BY DEF Leads
<1> DEFINE n == Len(q)
           r == Tail(q)
           g == [j \in 0 .. n - 1 |-> h[j + 1]]
<1>2. n \in Nat /\ n >= 1 /\ Len(r) = n - 1 /\ q[1] = Head(q)
      /\ \A j \in 1 .. n - 1 : r[j] = q[j + 1]
  OBVIOUS
<1>3. \A j \in 0 .. n - 1 : g[j] = h[j + 1]
  OBVIOUS
<1> HIDE DEF g, r
<1>4. h[1] = Put(k, Head(q), s)
  <2>1. 1 \in 1 .. n /\ 1 - 1 = 0
    BY <1>2
  <2> QED BY <1>1, <1>2, <2>1 DEF Run
<1>5. g[0] = Put(k, Head(q), s)
  <2>1. 0 \in 0 .. n - 1 /\ 0 + 1 = 1
    BY <1>2
  <2> QED BY <1>3, <1>4, <2>1
<1>6. g[n - 1] = t
  <2>1. n - 1 \in 0 .. n - 1 /\ n - 1 + 1 = n
    BY <1>2
  <2> QED BY <1>1, <1>3, <2>1 DEF Run
<1>7. ASSUME NEW j \in 1 .. n - 1
      PROVE  g[j] = Put(k, r[j], g[j - 1])
  <2>1. j \in 0 .. n - 1 /\ j - 1 \in 0 .. n - 1 /\ j + 1 \in 1 .. n
        /\ j - 1 + 1 = j /\ j + 1 - 1 = j
    BY <1>2
  <2>2. h[j + 1] = Put(k, q[j + 1], h[j])
    BY <1>1, <2>1 DEF Run
  <2> QED BY <1>2, <1>3, <2>1, <2>2
<1>8. Run(k, g, Put(k, Head(q), s), r, t)
  BY <1>2, <1>5, <1>6, <1>7 DEF Run
<1> QED BY <1>8 DEF Leads, r

-----------------------------------------------------------------------------
(***************************************************************************)
(* The gold in a queue.                                                     *)
(***************************************************************************)

LEMMA RunOfNats ==
    ASSUME NEW T, NEW q \in Seq(T), \A m \in T : Carried(m) \in Nat,
           NEW s \in Nat, NEW t, NEW h, Run("gold", h, s, q, t)
    PROVE  t \in Nat /\ \A j \in 0 .. Len(q) : h[j] \in Nat
<1> DEFINE n == Len(q)
           P == {j \in Nat : j <= n => h[j] \in Nat}
<1>1. n \in Nat
  OBVIOUS
<1>2. 0 \in P
  BY DEF Run
<1>3. ASSUME NEW j \in Nat, j \in P
      PROVE  j + 1 \in P
  <2> SUFFICES ASSUME j + 1 <= n PROVE h[j + 1] \in Nat
    OBVIOUS
  <2>1. j <= n /\ j + 1 \in 1 .. n /\ j + 1 - 1 = j
    BY <1>1
  <2>2. h[j] \in Nat
    BY <1>3, <2>1
  <2>3. h[j + 1] = h[j] + Carried(q[j + 1])
    BY <2>1 DEF Run, Put
  <2>4. q[j + 1] \in T
    BY <2>1
  <2> QED BY <2>2, <2>3, <2>4
<1> HIDE DEF P
<1>4. \A j \in Nat : j \in P
  BY <1>2, <1>3, Inductive
<1>5. \A j \in 0 .. n : h[j] \in Nat
  BY <1>1, <1>4 DEF P
<1>6. h[n] = t /\ n \in 0 .. n
  BY <1>1 DEF Run
<1> QED BY <1>5, <1>6

LEMMA GoldEmpty == GoldIn(<<>>) = 0
<1>1. <<>> \in Seq({})
  OBVIOUS
<1>2. Leads("gold", 0, <<>>, GoldIn(<<>>)) /\ Leads("gold", 0, <<>>, 0)
  BY <1>1, FoldGold, LeadsEmpty
<1> QED BY <1>1, <1>2, RunIsOne

LEMMA GoldType ==
    ASSUME NEW T, NEW q \in Seq(T), \A m \in T : Carried(m) \in Nat
    PROVE  GoldIn(q) \in Nat
<1>1. PICK h : Run("gold", h, 0, q, GoldIn(q))
  BY FoldGold DEF Leads
<1> QED BY <1>1, RunOfNats

LEMMA GoldAppend ==
    ASSUME NEW T, NEW q \in Seq(T), NEW m \in T
    PROVE  GoldIn(Append(q, m)) = GoldIn(q) + Carried(m)
<1> DEFINE r == Append(q, m)
           u == GoldIn(q) + Carried(m)
<1>1. r \in Seq(T)
  OBVIOUS
<1>2. Leads("gold", 0, r, u)
  <2>1. Leads("gold", 0, q, GoldIn(q))
    BY FoldGold
  <2>2. Leads("gold", 0, r, Put("gold", m, GoldIn(q)))
    BY <2>1, LeadsAppend
  <2>3. Put("gold", m, GoldIn(q)) = u
    BY DEF Put
  <2> HIDE DEF u
  <2> QED BY <2>2, <2>3
<1> HIDE DEF r, u
<1>3. Leads("gold", 0, r, GoldIn(r))
  BY <1>1, FoldGold
<1>4. GoldIn(r) = u
  BY <1>1, <1>2, <1>3, RunIsOne
<1> QED BY <1>4 DEF r, u

LEMMA GoldTail ==
    ASSUME NEW T, NEW q \in Seq(T), q # <<>>, \A m \in T : Carried(m) \in Nat
    PROVE  GoldIn(q) = Carried(Head(q)) + GoldIn(Tail(q))
<1> DEFINE x == Carried(Head(q))
           r == Tail(q)
<1>1. x \in Nat /\ r \in Seq(T)
  OBVIOUS
<1>2. Leads("gold", x, r, GoldIn(q))
  <2>1. Leads("gold", Put("gold", Head(q), 0), r, GoldIn(q))
    BY FoldGold, LeadsTail
  <2>2. Put("gold", Head(q), 0) = x
    BY <1>1 DEF Put
  <2> QED BY <2>1, <2>2
<1> HIDE DEF r, x
<1>3. PICK h : Run("gold", h, 0, r, GoldIn(r))
  BY <1>1, FoldGold DEF Leads
<1>4. GoldIn(r) \in Nat /\ \A j \in 0 .. Len(r) : h[j] \in Nat
  BY <1>1, <1>3, RunOfNats
<1> DEFINE g == [j \in 0 .. Len(r) |-> x + h[j]]
<1>5. Len(r) \in Nat /\ \A j \in 0 .. Len(r) : g[j] = x + h[j]
  BY <1>1
<1> HIDE DEF g
<1>6. g[0] = x /\ g[Len(r)] = x + GoldIn(r)
  BY <1>1, <1>3, <1>5 DEF Run
<1>7. ASSUME NEW j \in 1 .. Len(r)
      PROVE  g[j] = Put("gold", r[j], g[j - 1])
  <2>1. j \in 0 .. Len(r) /\ j - 1 \in 0 .. Len(r)
    BY <1>5
  <2>2. h[j] = h[j - 1] + Carried(r[j])
    BY <1>3 DEF Run, Put
  <2>3. Carried(r[j]) \in Nat
    BY <1>1
  <2>4. g[j] = x + h[j] /\ g[j - 1] = x + h[j - 1] /\ h[j - 1] \in Nat
    BY <1>4, <1>5, <2>1
  <2>5. g[j] = g[j - 1] + Carried(r[j])
    BY <1>1, <2>2, <2>3, <2>4
  <2> QED BY <2>5 DEF Put
<1>8. Leads("gold", x, r, x + GoldIn(r))
  <2>1. Run("gold", g, x, r, x + GoldIn(r))
    BY <1>6, <1>7 DEF Run
  <2> QED BY <2>1 DEF Leads
<1>9. GoldIn(q) = x + GoldIn(r)
  BY <1>1, <1>2, <1>8, RunIsOne
<1> QED BY <1>9 DEF r, x

-----------------------------------------------------------------------------
(***************************************************************************)
(* Sums over finite sets.                                                   *)
(***************************************************************************)

\* What SumFunction computes, subset by subset.
One(s) == CHOOSE x \in s : TRUE
Part(f, g, s) == IF s = {} THEN 0 ELSE f[One(s)] + g[s \ {One(s)}]

LEMMA OneAt ==
    ASSUME NEW s, s # {}
    PROVE  One(s) \in s
  BY DEF One

LEMMA Less ==
    ASSUME NEW S, IsFiniteSet(S), NEW s \in SUBSET S, s # {}
    PROVE  /\ Cardinality(s) \in Nat /\ s \ {One(s)} \in SUBSET S
           /\ \A k \in Nat : Cardinality(s) <= k + 1 => Cardinality(s \ {One(s)}) <= k
<1>1. IsFiniteSet(s)
  BY FS_Subset
<1>2. Cardinality(s) \in Nat
  BY <1>1, FS_CardinalityType
<1>3. One(s) \in s
  BY OneAt
<1>4. Cardinality(s \ {One(s)}) = Cardinality(s) - 1
  BY <1>1, <1>3, FS_RemoveElement
<1> QED BY <1>2, <1>4

LEMMA PartsExist ==
    ASSUME NEW S, IsFiniteSet(S), NEW f
    PROVE  \E g : g = [s \in SUBSET S |-> Part(f, g, s)]
<1> DEFINE Small(k) == {s \in SUBSET S : Cardinality(s) <= k}
           P == {k \in Nat : \E g : g = [s \in Small(k) |-> Part(f, g, s)]}
<1>1. 0 \in P
  <2> DEFINE g == [s \in Small(0) |-> 0]
  <2>1. \A s \in Small(0) : s = {}
    BY FS_Subset, FS_CardinalityType, FS_EmptySet
  <2>2. g = [s \in Small(0) |-> Part(f, g, s)]
    BY <2>1 DEF Part
  <2> QED BY <2>2
<1>2. ASSUME NEW k \in Nat, k \in P
      PROVE  k + 1 \in P
  <2>1. PICK g : g = [s \in Small(k) |-> Part(f, g, s)]
    BY <1>2
  <2> DEFINE h == [s \in Small(k + 1) |-> Part(f, g, s)]
  <2>2. ASSUME NEW s \in Small(k + 1)
        PROVE  h[s] = Part(f, h, s)
    <3>1. CASE s = {}
      BY <3>1 DEF Part
    <3>2. CASE s # {}
      <4> DEFINE t == s \ {One(s)}
      <4>1. t \in Small(k) /\ t \in Small(k + 1)
        <5>1. t \in SUBSET S /\ Cardinality(t) <= k
          BY <3>2, Less
        <5>2. Cardinality(t) \in Nat
          BY <5>1, FS_Subset, FS_CardinalityType
        <5> QED BY <5>1, <5>2
      <4> HIDE DEF t
      <4>2. h[t] = g[t]
        BY <2>1, <4>1
      <4> HIDE DEF h
      <4>3. h[s] = Part(f, g, s)
        BY DEF h
      <4> QED BY <3>2, <4>2, <4>3 DEF Part, t
    <3> QED BY <3>1, <3>2
  <2>3. h = [s \in Small(k + 1) |-> Part(f, h, s)]
    <3>1. h = [s \in Small(k + 1) |-> h[s]]
      OBVIOUS
    <3> HIDE DEF h
    <3> QED BY <2>2, <3>1
  <2> HIDE DEF h
  <2>4. k + 1 \in Nat
    OBVIOUS
  <2> QED BY <2>3, <2>4
<1>3. Cardinality(S) \in Nat
  BY FS_CardinalityType
<1>4. SUBSET S = Small(Cardinality(S))
  BY FS_Subset
<1> HIDE DEF Small
<1>5. Cardinality(S) \in P
  <2> HIDE DEF P
  <2> QED BY <1>1, <1>2, <1>3, Inductive
<1> QED BY <1>4, <1>5

LEMMA SumAt ==
    ASSUME NEW f, IsFiniteSet(DOMAIN f)
    PROVE  \E g : /\ \A s \in SUBSET DOMAIN f : g[s] = Part(f, g, s)
                  /\ SumFunction(f) = g[DOMAIN f]
<1> DEFINE g == CHOOSE g : g = [s \in SUBSET DOMAIN f |-> Part(f, g, s)]
<1>1. SumFunction(f) = g[DOMAIN f]
  BY Zenon DEF SumFunction, SumFunctionOnSet, FoldFunctionOnSet, MapThenFoldSet, Part, One
<1>2. g = [s \in SUBSET DOMAIN f |-> Part(f, g, s)]
  BY PartsExist
<1> HIDE DEF g
<1>3. \A s \in SUBSET DOMAIN f : g[s] = Part(f, g, s)
  BY <1>2
<1> QED BY <1>1, <1>3, Zenon

\* The sums of two functions, subset by subset: what holds of the parts holds of
\* the sums.
LEMMA SumOfNats ==
    ASSUME NEW S, IsFiniteSet(S), NEW f \in [S -> Nat]
    PROVE  SumFunction(f) \in Nat
<1>1. DOMAIN f = S
  OBVIOUS
<1>2. PICK g : (\A s \in SUBSET S : g[s] = Part(f, g, s)) /\ SumFunction(f) = g[S]
  BY <1>1, SumAt
<1> DEFINE P == {k \in Nat : \A s \in SUBSET S : Cardinality(s) <= k => g[s] \in Nat}
<1>3. 0 \in P
  <2> SUFFICES ASSUME NEW s \in SUBSET S, Cardinality(s) <= 0 PROVE g[s] \in Nat
    OBVIOUS
  <2>1. s = {}
    BY FS_Subset, FS_CardinalityType, FS_EmptySet
  <2>2. g[s] = Part(f, g, s)
    BY <1>2
  <2>3. g[s] = 0
    BY <2>1, <2>2, Zenon DEF Part
  <2> QED BY <2>3
<1>4. ASSUME NEW k \in Nat, k \in P
      PROVE  k + 1 \in P
  <2> SUFFICES ASSUME NEW s \in SUBSET S, Cardinality(s) <= k + 1 PROVE g[s] \in Nat
    OBVIOUS
  <2>1. CASE s = {}
    BY <1>2, <2>1 DEF Part
  <2>2. CASE s # {}
    <3>1. One(s) \in S /\ s \ {One(s)} \in SUBSET S /\ Cardinality(s \ {One(s)}) <= k
      BY <2>2, OneAt, Less
    <3>2. g[s \ {One(s)}] \in Nat
      BY <1>4, <3>1
    <3>3. g[s] = f[One(s)] + g[s \ {One(s)}]
      BY <1>2, <2>2 DEF Part
    <3> QED BY <3>1, <3>2, <3>3
  <2> QED BY <2>1, <2>2
<1>5. Cardinality(S) \in Nat
  BY FS_CardinalityType
<1> HIDE DEF P
<1>6. Cardinality(S) \in P
  BY <1>3, <1>4, <1>5, Inductive
<1> QED BY <1>2, <1>5, <1>6 DEF P

LEMMA SumOfZeros ==
    ASSUME NEW S, IsFiniteSet(S), NEW f, DOMAIN f = S, \A x \in S : f[x] = 0
    PROVE  SumFunction(f) = 0
<1>2. PICK g : (\A s \in SUBSET S : g[s] = Part(f, g, s)) /\ SumFunction(f) = g[S]
  BY SumAt
<1> DEFINE P == {k \in Nat : \A s \in SUBSET S : Cardinality(s) <= k => g[s] = 0}
<1>3. 0 \in P
  <2> SUFFICES ASSUME NEW s \in SUBSET S, Cardinality(s) <= 0 PROVE g[s] = 0
    OBVIOUS
  <2>1. s = {}
    BY FS_Subset, FS_CardinalityType, FS_EmptySet
  <2> QED BY <1>2, <2>1 DEF Part
<1>4. ASSUME NEW k \in Nat, k \in P
      PROVE  k + 1 \in P
  <2> SUFFICES ASSUME NEW s \in SUBSET S, Cardinality(s) <= k + 1 PROVE g[s] = 0
    OBVIOUS
  <2>1. CASE s = {}
    BY <1>2, <2>1 DEF Part
  <2>2. CASE s # {}
    <3>1. One(s) \in S /\ s \ {One(s)} \in SUBSET S /\ Cardinality(s \ {One(s)}) <= k
      BY <2>2, OneAt, Less
    <3>2. g[s \ {One(s)}] = 0
      BY <1>4, <3>1
    <3>3. g[s] = f[One(s)] + g[s \ {One(s)}]
      BY <1>2, <2>2 DEF Part
    <3> QED BY <3>1, <3>2, <3>3
  <2> QED BY <2>1, <2>2
<1>5. Cardinality(S) \in Nat
  BY FS_CardinalityType
<1> HIDE DEF P
<1>6. Cardinality(S) \in P
  BY <1>3, <1>4, <1>5, Inductive
<1> QED BY <1>2, <1>5, <1>6 DEF P

\* One summand changes.
LEMMA SumChange ==
    ASSUME NEW S, IsFiniteSet(S), NEW e \in [S -> Nat], NEW f \in [S -> Nat],
           NEW x \in S, \A y \in S \ {x} : e[y] = f[y]
    PROVE  SumFunction(f) + e[x] = SumFunction(e) + f[x]
<1>1. DOMAIN e = S /\ DOMAIN f = S
  OBVIOUS
<1>2. PICK g : (\A s \in SUBSET S : g[s] = Part(e, g, s)) /\ SumFunction(e) = g[S]
  BY <1>1, SumAt
<1>3. PICK h : (\A s \in SUBSET S : h[s] = Part(f, h, s)) /\ SumFunction(f) = h[S]
  BY <1>1, SumAt
<1> DEFINE Good(s) == /\ g[s] \in Nat /\ h[s] \in Nat
                      /\ IF x \in s THEN h[s] + e[x] = g[s] + f[x] ELSE h[s] = g[s]
           P == {k \in Nat : \A s \in SUBSET S : Cardinality(s) <= k => Good(s)}
<1>4. Good({})
  <2>1. g[{}] = 0 /\ h[{}] = 0
    <3>1. {} \in SUBSET S
      OBVIOUS
    <3>2. g[{}] = Part(e, g, {}) /\ h[{}] = Part(f, h, {})
      BY <1>2, <1>3, <3>1
    <3> QED BY <3>2, Zenon DEF Part
  <2> QED BY <2>1
<1>5. 0 \in P
  <2> SUFFICES ASSUME NEW s \in SUBSET S, Cardinality(s) <= 0 PROVE Good(s)
    OBVIOUS
  <2>1. s = {}
    BY FS_Subset, FS_CardinalityType, FS_EmptySet
  <2> HIDE DEF Good
  <2> QED BY <1>4, <2>1
<1>6. ASSUME NEW k \in Nat, k \in P
      PROVE  k + 1 \in P
  <2> SUFFICES ASSUME NEW s \in SUBSET S, Cardinality(s) <= k + 1 PROVE Good(s)
    OBVIOUS
  <2>1. CASE s = {}
    <3> HIDE DEF Good
    <3> QED BY <1>4, <2>1
  <2>2. CASE s # {}
    <3> DEFINE o == One(s)
               t == s \ {o}
    <3>1. o \in s /\ o \in S /\ t \in SUBSET S /\ Cardinality(t) <= k
      BY <2>2, OneAt, Less
    <3>2. Good(t)
      <4> HIDE DEF Good, t
      <4> QED BY <1>6, <3>1
    <3>3. g[s] = e[o] + g[t] /\ h[s] = f[o] + h[t]
      BY <1>2, <1>3, <2>2 DEF Part
    <3>4. e[o] \in Nat /\ f[o] \in Nat /\ e[x] \in Nat /\ f[x] \in Nat
      BY <3>1
    <3>5. x \in s <=> o = x \/ x \in t
      BY <3>1
    <3>6. o # x => e[o] = f[o]
      BY <3>1
    <3>7. o = x => x \notin t
      OBVIOUS
    <3> HIDE DEF o, t
    <3>8. g[t] \in Nat /\ h[t] \in Nat
      BY <3>2
    <3>9. CASE o = x
      BY <3>2, <3>3, <3>4, <3>5, <3>7, <3>8, <3>9
    <3>10. CASE o # x /\ x \in t
      BY <3>2, <3>3, <3>4, <3>5, <3>6, <3>8, <3>10
    <3>11. CASE o # x /\ x \notin t
      BY <3>2, <3>3, <3>4, <3>5, <3>6, <3>8, <3>11
    <3> QED BY <3>9, <3>10, <3>11
  <2> QED BY <2>1, <2>2
<1>7. Cardinality(S) \in Nat
  BY FS_CardinalityType
<1>8. Cardinality(S) \in P
  <2> HIDE DEF P
  <2> QED BY <1>5, <1>6, <1>7, Inductive
<1>9. Good(S)
  <2> HIDE DEF Good
  <2> QED BY <1>7, <1>8
<1> QED BY <1>2, <1>3, <1>9

LEMMA LeadsConcat ==
    ASSUME NEW T, NEW q \in Seq(T), NEW p \in Seq(T), NEW k, NEW s, NEW t, NEW u,
           Leads(k, s, q, t), Leads(k, t, p, u)
    PROVE  Leads(k, s, q \o p, u)
<1>1. PICK h : Run(k, h, s, q, t)
  BY DEF Leads
<1>2. PICK g : Run(k, g, t, p, u)
  BY DEF Leads
<1> DEFINE n == Len(q)
           l == Len(p)
           r == q \o p
           f == [j \in 0 .. n + l |-> IF j <= n THEN h[j] ELSE g[j - n]]
<1>3. /\ n \in Nat /\ l \in Nat /\ Len(r) = n + l
      /\ \A j \in 1 .. n : r[j] = q[j]
      /\ \A j \in 1 .. l : r[n + j] = p[j]
  OBVIOUS
<1>4. \A j \in 0 .. n + l : f[j] = IF j <= n THEN h[j] ELSE g[j - n]
  OBVIOUS
<1>5. h[0] = s /\ h[n] = t /\ g[0] = t /\ g[l] = u
  BY <1>1, <1>2 DEF Run
<1> HIDE DEF f, r
<1>6. f[0] = s /\ f[n + l] = u
  <2>1. f[0] = s
    BY <1>3, <1>4, <1>5
  <2>2. CASE l = 0
    <3>1. f[n + l] = h[n]
      BY <1>3, <1>4, <2>2
    <3> QED BY <1>5, <2>1, <2>2, <3>1
  <2>3. CASE l # 0
    <3>1. n + l \in 0 .. n + l /\ ~(n + l <= n) /\ n + l - n = l
      BY <1>3, <2>3
    <3> QED BY <1>4, <1>5, <2>1, <3>1
  <2> QED BY <2>2, <2>3
<1>7. ASSUME NEW j \in 1 .. n + l
      PROVE  f[j] = Put(k, r[j], f[j - 1])
  <2>1. CASE j <= n
    <3>1. j \in 1 .. n /\ j \in 0 .. n + l /\ j - 1 \in 0 .. n + l /\ j - 1 <= n
      BY <1>3, <2>1
    <3>2. h[j] = Put(k, q[j], h[j - 1])
      BY <1>1, <3>1 DEF Run
    <3> QED BY <1>3, <1>4, <2>1, <3>1, <3>2
  <2>2. CASE ~(j <= n)
    <3> DEFINE i == j - n
    <3>1. i \in 1 .. l /\ j \in 0 .. n + l /\ j - 1 \in 0 .. n + l /\ n + i = j
          /\ j - 1 - n = i - 1
      BY <1>3, <2>2
    <3>2. g[i] = Put(k, p[i], g[i - 1])
      BY <1>2, <3>1 DEF Run
    <3>3. f[j] = g[i] /\ r[j] = p[i]
      BY <1>3, <1>4, <2>2, <3>1
    <3>4. f[j - 1] = g[i - 1]
      <4>1. CASE j - 1 <= n
        <5>1. j - 1 = n /\ i - 1 = 0
          BY <1>3, <2>2, <3>1, <4>1
        <5> QED BY <1>4, <1>5, <3>1, <4>1, <5>1
      <4>2. CASE ~(j - 1 <= n)
        BY <1>4, <3>1, <4>2
      <4> QED BY <4>1, <4>2
    <3> QED BY <3>2, <3>3, <3>4
  <2> QED BY <2>1, <2>2
<1>8. Run(k, f, s, r, u)
  BY <1>3, <1>6, <1>7 DEF Run
<1> QED BY <1>8 DEF Leads, r

LEMMA LeadsShort ==
    ASSUME NEW k, NEW s, NEW a, NEW b
    PROVE  /\ Leads(k, s, <<a>>, Put(k, a, s))
           /\ Leads(k, s, <<a, b>>, Put(k, b, Put(k, a, s)))
<1> DEFINE t == Put(k, a, s)
           u == Put(k, b, t)
           h == [j \in 0 .. 2 |-> IF j = 0 THEN s ELSE IF j = 1 THEN t ELSE u]
<1>1. /\ Len(<<a>>) = 1 /\ <<a>>[1] = a
      /\ Len(<<a, b>>) = 2 /\ <<a, b>>[1] = a /\ <<a, b>>[2] = b
  OBVIOUS
<1>2. h[0] = s /\ h[1] = t /\ h[2] = u
  OBVIOUS
<1>3. 1 .. 1 = {1} /\ 1 .. 2 = {1, 2} /\ 1 - 1 = 0 /\ 2 - 1 = 1
  OBVIOUS
<1> HIDE DEF h
<1>4. h[1] = Put(k, a, h[0]) /\ h[2] = Put(k, b, h[1])
  BY <1>2
<1>5. Run(k, h, s, <<a>>, t)
  BY <1>1, <1>2, <1>3, <1>4 DEF Run
<1>6. Run(k, h, s, <<a, b>>, u)
  BY <1>1, <1>2, <1>3, <1>4 DEF Run
<1> QED BY <1>5, <1>6 DEF Leads

-----------------------------------------------------------------------------
(***************************************************************************)
(* Mirrors.                                                                 *)
(***************************************************************************)

\* Packets that change a mirror, ask for one, or would have a mirror reach beyond the
\* cells there are.
News == {m \in DownMsg : m.type \in {"SET", "DEL", "GOLD", "LOADED"}}
Loads == {m \in UpMsg : m.type = "LOAD"}
Beyond == {m \in DownMsg : \/ m.type = "SET" /\ ~(Span(m.cell, m.item) \subseteq Cell)
                           \/ m.type = "LOADED" /\ ~(Covered(m.items) \subseteq Cell)}

With(b, c, i) == [b EXCEPT ![c] = i]
Full(b, g, x) == [loaded |-> TRUE, items |-> b, grid |-> g, gold |-> x]
Safebox == Full(box, grid, gold)

\* Mirror s of a core with packets u from it and d to it, when the safebox is t: a
\* watcher's becomes t, one that is no watcher hears nothing, and asks once.
Follows(watcher, s, u, d, t) ==
    IF watcher THEN Leads("mirror", s, d, t)
    ELSE ~Some(d, News) /\ (Some(u, Loads) => ~s.loaded)

Mirror == [loaded : BOOLEAN, items : [Cell -> Item \cup {NoItem}],
           grid : SUBSET Cell, gold : Nat]

MirrorInv ==
    /\ mirror \in [Core -> Mirror]
    /\ \A c \in Core : ~Some(down[c], Beyond)
    /\ \A c \in Core : Follows(c \in watchers, mirror[c], up[c], down[c], Safebox)

\* A packet that is no news leaves a mirror as it is, as do queues of such packets.
LEMMA NoNews ==
    ASSUME NEW m \in DownMsg, m \notin News
    PROVE  /\ m.type \in {"GIVE", "PAY"}
           /\ \A s : Apply(m, s) = s
<1>1. m.type \in {"GIVE", "PAY"}
  BY DEF DownMsg, News
<1> QED BY <1>1 DEF Apply

LEMMA LeadsNoNews ==
    ASSUME NEW q \in Seq(DownMsg), ~Some(q, News), NEW s
    PROVE  Leads("mirror", s, q, s)
<1> DEFINE h == [j \in 0 .. Len(q) |-> s]
<1>1. Len(q) \in Nat /\ DOMAIN q = 1 .. Len(q) /\ \A j \in 1 .. Len(q) : q[j] \in DownMsg
  OBVIOUS
<1>2. \A j \in 0 .. Len(q) : h[j] = s
  OBVIOUS
<1> HIDE DEF h
<1>3. ASSUME NEW j \in 1 .. Len(q)
      PROVE  h[j] = Put("mirror", q[j], h[j - 1])
  <2>1. j \in 0 .. Len(q) /\ j - 1 \in 0 .. Len(q)
    BY <1>1
  <2>2. q[j] \in DownMsg /\ q[j] \notin News
    BY <1>1 DEF Some
  <2>3. Apply(q[j], s) = s
    BY <2>2, NoNews
  <2> QED BY <1>2, <2>1, <2>3 DEF Put
<1>4. Run("mirror", h, s, q, s)
  <2>1. h[0] = s /\ h[Len(q)] = s
    BY <1>1, <1>2
  <2> QED BY <1>3, <2>1 DEF Run
<1> QED BY <1>4 DEF Leads

LEMMA NewsFields ==
    ASSUME NEW m \in DownMsg
    PROVE  /\ m.type = "SET" => m.cell \in Cell /\ m.item \in Item
           /\ m.type = "DEL" => m.cell \in Cell
           /\ m.type = "GOLD" => m.gold \in Nat
           /\ m.type = "LOADED" => m.items \in [Cell -> Item \cup {NoItem}] /\ m.gold \in Nat
  BY DEF DownMsg

LEMMA ApplyType ==
    ASSUME NEW m \in DownMsg, m \notin Beyond, NEW s \in Mirror
    PROVE  Apply(m, s) \in Mirror
<1>1. s.loaded \in BOOLEAN /\ s.items \in [Cell -> Item \cup {NoItem}]
      /\ s.grid \subseteq Cell /\ s.gold \in Nat
  BY DEF Mirror
<1>2. CASE m.type = "SET"
  <2>1. m.cell \in Cell /\ m.item \in Item /\ Span(m.cell, m.item) \subseteq Cell
    BY <1>2, NewsFields DEF Beyond
  <2>2. Apply(m, s) = [s EXCEPT !.items[m.cell] = m.item,
                                !.grid = @ \cup Span(m.cell, m.item)]
    BY <1>2 DEF Apply
  <2> QED BY <1>1, <2>1, <2>2 DEF Mirror
<1>3. CASE m.type = "DEL"
  <2>1. m.cell \in Cell
    BY <1>3, NewsFields
  <2>2. CASE s.items[m.cell] # NoItem
    <3>1. Apply(m, s) = [s EXCEPT !.items[m.cell] = NoItem,
                                  !.grid = @ \ Span(m.cell, s.items[m.cell])]
      BY <1>3, <2>2 DEF Apply
    <3> QED BY <1>1, <2>1, <3>1 DEF Mirror
  <2>3. CASE s.items[m.cell] = NoItem
    BY <1>3, <2>3 DEF Apply
  <2> QED BY <2>2, <2>3
<1>4. CASE m.type = "GOLD" \/ (m.type = "LOADED" /\ s.loaded)
  <2>1. m.gold \in Nat
    BY <1>4, NewsFields
  <2>2. Apply(m, s) = [s EXCEPT !.gold = m.gold]
    BY <1>4 DEF Apply
  <2> QED BY <1>1, <2>1, <2>2 DEF Mirror
<1>5. CASE m.type = "LOADED" /\ ~s.loaded
  <2>1. m.items \in [Cell -> Item \cup {NoItem}] /\ m.gold \in Nat
        /\ Covered(m.items) \subseteq Cell
    BY <1>5, NewsFields DEF Beyond
  <2>2. Apply(m, s) = [loaded |-> TRUE, items |-> m.items,
                       grid |-> Covered(m.items), gold |-> m.gold]
    BY <1>5 DEF Apply
  <2> QED BY <2>1, <2>2 DEF Mirror
<1>6. CASE m.type \notin {"SET", "DEL", "GOLD", "LOADED"}
  <2>1. Apply(m, s) = s
    BY <1>6 DEF Apply
  <2> QED BY <2>1
<1> QED BY <1>2, <1>3, <1>4, <1>5, <1>6

\* What the packets of the db make of a mirror that has what the db has.
LEMMA SetApplied ==
    ASSUME NEW b \in [Cell -> Item \cup {NoItem}], NEW g, NEW x, NEW c \in Cell, NEW i \in Item
    PROVE  Put("mirror", SetCell(c, i), Full(b, g, x))
               = Full(With(b, c, i), g \cup Span(c, i), x)
<1> DEFINE s == Full(b, g, x)
<1>1. s.loaded = TRUE /\ s.items = b /\ s.grid = g /\ s.gold = x
      /\ s = [loaded |-> TRUE, items |-> b, grid |-> g, gold |-> x]
  BY DEF Full
<1>2. SetCell(c, i).type = "SET" /\ SetCell(c, i).cell = c /\ SetCell(c, i).item = i
  BY DEF SetCell
<1>3. Put("mirror", SetCell(c, i), s) = [s EXCEPT !.items[c] = i, !.grid = @ \cup Span(c, i)]
  BY <1>2 DEF Put, Apply
<1> QED BY <1>1, <1>3 DEF Full, With

LEMMA DelApplied ==
    ASSUME NEW b \in [Cell -> Item \cup {NoItem}], NEW g, NEW x, NEW c \in Cell, b[c] # NoItem
    PROVE  Put("mirror", DelCell(c), Full(b, g, x))
               = Full(With(b, c, NoItem), g \ Span(c, b[c]), x)
<1> DEFINE s == Full(b, g, x)
<1>1. s.loaded = TRUE /\ s.items = b /\ s.grid = g /\ s.gold = x
      /\ s = [loaded |-> TRUE, items |-> b, grid |-> g, gold |-> x]
  BY DEF Full
<1>2. DelCell(c).type = "DEL" /\ DelCell(c).cell = c
  BY DEF DelCell
<1>3. Put("mirror", DelCell(c), s) = [s EXCEPT !.items[c] = NoItem, !.grid = @ \ Span(c, b[c])]
  BY <1>1, <1>2 DEF Put, Apply
<1> QED BY <1>1, <1>3 DEF Full, With

LEMMA GoldApplied ==
    ASSUME NEW b, NEW g, NEW x, NEW y
    PROVE  Put("mirror", SetGold(y), Full(b, g, x)) = Full(b, g, y)
<1> DEFINE s == Full(b, g, x)
<1>1. s.loaded = TRUE /\ s.items = b /\ s.grid = g /\ s.gold = x
      /\ s = [loaded |-> TRUE, items |-> b, grid |-> g, gold |-> x]
  BY DEF Full
<1>2. SetGold(y).type = "GOLD" /\ SetGold(y).gold = y
  BY DEF SetGold
<1>3. Put("mirror", SetGold(y), s) = [s EXCEPT !.gold = y]
  BY <1>2 DEF Put, Apply
<1> QED BY <1>1, <1>3 DEF Full, With

LEMMA SafeboxNews ==
    ASSUME Typed
    PROVE  /\ \A a \in Cell, i \in Item : Put("mirror", SetCell(a, i), Safebox)
                  = Full(With(box, a, i), grid \cup Span(a, i), gold)
           /\ \A a \in Cell : box[a] # NoItem => Put("mirror", DelCell(a), Safebox)
                  = Full(With(box, a, NoItem), grid \ Span(a, box[a]), gold)
           /\ \A y : Put("mirror", SetGold(y), Safebox) = Full(box, grid, y)
<1>1. box \in [Cell -> Item \cup {NoItem}]
  BY DEF Typed
<1>2. \A a \in Cell, i \in Item : Put("mirror", SetCell(a, i), Safebox)
          = Full(With(box, a, i), grid \cup Span(a, i), gold)
  BY <1>1, SetApplied DEF Safebox
<1>3. \A a \in Cell : box[a] # NoItem => Put("mirror", DelCell(a), Safebox)
          = Full(With(box, a, NoItem), grid \ Span(a, box[a]), gold)
  BY <1>1, DelApplied DEF Safebox
<1>4. \A y : Put("mirror", SetGold(y), Safebox) = Full(box, grid, y)
  BY GoldApplied DEF Safebox
<1> QED BY <1>2, <1>3, <1>4

LEMMA NewsKinds ==
    /\ \A c \in Cell, i \in Item : Span(c, i) \subseteq Cell => SetCell(c, i) \notin Beyond
    /\ \A c \in Cell : DelCell(c) \notin Beyond
    /\ \A g : SetGold(g) \notin Beyond
    /\ \A m, x : GiveItem(m, x) \notin News /\ PayGold(m, x) \notin News
    /\ Beyond \subseteq News
<1>1. \A c, i : SetCell(c, i).type = "SET" /\ SetCell(c, i).cell = c /\ SetCell(c, i).item = i
  BY DEF SetCell
<1>2. \A c : DelCell(c).type = "DEL"
  BY DEF DelCell
<1>3. \A g : SetGold(g).type = "GOLD"
  BY DEF SetGold
<1>4. \A m, x : GiveItem(m, x).type = "GIVE" /\ PayGold(m, x).type = "PAY"
  BY DEF GiveItem, PayGold
<1> QED BY <1>1, <1>2, <1>3, <1>4 DEF Beyond, News

\* What becomes of a core's mirror when queues change.
LEMMA FollowsTold ==
    ASSUME NEW w, NEW s, NEW u, NEW v, NEW d \in Seq(DownMsg), NEW ms \in Seq(DownMsg),
           NEW t, NEW r, Follows(w, s, u, d, t), Leads("mirror", t, ms, r),
           Some(v, Loads) => Some(u, Loads)
    PROVE  Follows(w, s, v, IF w THEN d \o ms ELSE d, r)
  BY LeadsConcat DEF Follows

LEMMA FollowsAnswer ==
    ASSUME NEW w, NEW s, NEW u, NEW d \in Seq(DownMsg), NEW t, Follows(w, s, u, d, t),
           NEW a \in DownMsg, a \notin News
    PROVE  Follows(w, s, u, Append(d, a), t)
<1>1. Put("mirror", a, t) = t
  BY NoNews DEF Put
<1>2. CASE w
  BY <1>1, <1>2, LeadsAppend DEF Follows
<1>3. CASE ~w
  BY <1>3, AppendAt DEF Follows
<1> QED BY <1>2, <1>3

LEMMA FollowsTaken ==
    ASSUME NEW w, NEW s, NEW u, NEW d \in Seq(DownMsg), d # <<>>, NEW t,
           Follows(w, s, u, d, t)
    PROVE  /\ Head(d) \in News => w
           /\ Follows(w, Apply(Head(d), s), u, Tail(d), t)
<1>1. Head(d) \in DownMsg
  OBVIOUS
<1>2. CASE w
  <2>1. Leads("mirror", Put("mirror", Head(d), s), Tail(d), t)
    BY <1>2, LeadsTail DEF Follows
  <2> QED BY <1>2, <2>1 DEF Follows, Put
<1>3. CASE ~w
  <2>1. ~Some(d, News) /\ (Some(u, Loads) => ~s.loaded)
    BY <1>3 DEF Follows
  <2>2. Head(d) \notin News /\ ~Some(Tail(d), News)
    BY <2>1, TailAt
  <2>3. Apply(Head(d), s) = s
    BY <1>1, <2>2, NoNews
  <2> QED BY <1>3, <2>1, <2>2, <2>3 DEF Follows
<1> QED BY <1>2, <1>3

\* The safebox and the mirrors stay; cores send packets, the db takes or answers some.
LEMMA StillMirror ==
    ASSUME Typed, MirrorInv, UNCHANGED <<box, grid, gold, watchers, mirror>>,
           \A b \in Core : Some(up'[b], Loads) => Some(up[b], Loads) \/ ~mirror[b].loaded,
           \/ down' = down
           \/ \E c \in Core, a \in DownMsg \ News : down' = [down EXCEPT ![c] = Append(@, a)]
    PROVE  MirrorInv'
<1>1. down \in [Core -> Seq(DownMsg)]
  BY DEF Typed
<1>2. Safebox' = Safebox
  BY DEF Safebox
<1>3. ASSUME NEW b \in Core
      PROVE  /\ ~Some(down'[b], Beyond)
             /\ Follows(b \in watchers', mirror'[b], up'[b], down'[b], Safebox')
  <2>1. ~Some(down[b], Beyond)
        /\ Follows(b \in watchers, mirror[b], up[b], down[b], Safebox)
    BY DEF MirrorInv
  <2>2. Follows(b \in watchers, mirror[b], up'[b], down[b], Safebox)
    BY <2>1 DEF Follows
  <2>3. CASE down'[b] = down[b]
    BY <1>2, <2>1, <2>2, <2>3
  <2>4. CASE down'[b] # down[b]
    <3>1. PICK c \in Core : \E a \in DownMsg \ News : down' = [down EXCEPT ![c] = Append(@, a)]
      BY <2>4
    <3>2. PICK a \in DownMsg \ News : down' = [down EXCEPT ![c] = Append(@, a)]
      BY <3>1
    <3>3. b = c /\ down'[b] = Append(down[b], a) /\ down[b] \in Seq(DownMsg)
      BY <1>1, <2>4, <3>2
    <3>4. Follows(b \in watchers, mirror[b], up'[b], Append(down[b], a), Safebox)
      BY <2>2, <3>3, FollowsAnswer
    <3>5. ~Some(Append(down[b], a), Beyond)
      BY <2>1, <3>3, AppendAt, NewsKinds
    <3> QED BY <1>2, <3>3, <3>4, <3>5
  <2> QED BY <2>3, <2>4
<1> QED BY <1>3 DEF MirrorInv

\* The safebox changes and the watchers are told.
LEMMA ToldMirror ==
    ASSUME Typed, MirrorInv, NEW c \in Core, NEW ms \in Seq(DownMsg), ~Some(ms, Beyond),
           Leads("mirror", Safebox, ms, Safebox'), UNCHANGED <<watchers, mirror>>,
           \A b \in Core : Some(up'[b], Loads) => Some(up[b], Loads),
           \/ down' = Changed(c, ms)
           \/ \E a \in DownMsg \ News : down' = [Changed(c, ms) EXCEPT ![c] = Append(@, a)]
    PROVE  MirrorInv'
<1> DEFINE told == Changed(c, ms)
<1>1. /\ told \in [Core -> Seq(DownMsg)]
      /\ \A b \in Core : told[b] = IF b \in watchers THEN down[b] \o ms ELSE down[b]
      /\ \A b \in Core : down[b] \in Seq(DownMsg)
  BY ChangedType DEF Changed, Typed
<1>2. ASSUME NEW b \in Core
      PROVE  /\ ~Some(told[b], Beyond)
             /\ Follows(b \in watchers, mirror[b], up'[b], told[b], Safebox')
  <2>1. ~Some(down[b], Beyond)
        /\ Follows(b \in watchers, mirror[b], up[b], down[b], Safebox)
    BY DEF MirrorInv
  <2>2. ~Some(down[b] \o ms, Beyond)
    BY <1>1, <2>1, ConcatAt
  <2>3. Follows(b \in watchers, mirror[b], up'[b],
                IF b \in watchers THEN down[b] \o ms ELSE down[b], Safebox')
    BY <1>1, <2>1, FollowsTold
  <2> QED BY <1>1, <2>1, <2>2, <2>3
<1> HIDE DEF told
<1>3. ASSUME NEW b \in Core
      PROVE  /\ ~Some(down'[b], Beyond)
             /\ Follows(b \in watchers', mirror'[b], up'[b], down'[b], Safebox')
  <2>1. CASE down'[b] = told[b]
    BY <1>2, <2>1
  <2>2. CASE down'[b] # told[b]
    <3>1. PICK a \in DownMsg \ News : down' = [told EXCEPT ![c] = Append(@, a)]
      BY <2>2 DEF told
    <3>2. b = c /\ down'[b] = Append(told[b], a) /\ told[b] \in Seq(DownMsg)
      BY <1>1, <2>2, <3>1
    <3>3. Follows(b \in watchers, mirror[b], up'[b], Append(told[b], a), Safebox')
      BY <1>2, <3>2, FollowsAnswer
    <3>4. ~Some(Append(told[b], a), Beyond)
      BY <1>2, <3>2, AppendAt, NewsKinds
    <3> QED BY <3>2, <3>3, <3>4
  <2> QED BY <2>1, <2>2
<1> QED BY <1>3 DEF MirrorInv

\* No LOAD comes with a packet that the db takes.
LEMMA ReceivedMirror ==
    ASSUME Typed, NEW c \in Core, NEW type, Receive(c, type)
    PROVE  /\ \A b \in Core : Some(up'[b], Loads) => Some(up[b], Loads)
           /\ UNCHANGED mirror
  BY HeadTaken DEF Receive, gameVars

LEMMA AddMirror ==
    ASSUME IInv, MirrorInv, NEW c \in Core, GUILD_SAFEBOX_ADD(c)
    PROVE  MirrorInv'
<1> DEFINE m == Head(up[c])
           ms == <<SetCell(m.cell, m.item)>>
<1>1. Typed /\ Books(box, grid, unsaved)
  BY InvParts DEF IInv
<1>2. Receive(c, "ADD") /\ UNCHANGED <<gold, watchers>>
  BY DEF GUILD_SAFEBOX_ADD
<1>3. m \in UpMsg /\ m.type = "ADD"
  BY <1>1, <1>2, Received
<1>4. m.pid \in Player /\ m.login \in Nat /\ m.item \in Item /\ m.cell \in Cell
  BY <1>3, UpMsgFields
<1>5. (\A b \in Core : Some(up'[b], Loads) => Some(up[b], Loads)) /\ UNCHANGED mirror
  BY <1>1, <1>2, ReceivedMirror
<1>6. CASE IsFree(m.cell, m.item)
  <2>1. /\ box' = [box EXCEPT ![m.cell] = m.item]
        /\ grid' = grid \cup Span(m.cell, m.item)
        /\ down' = Changed(c, ms)
    BY <1>6 DEF GUILD_SAFEBOX_ADD
  <2>2. SetCell(m.cell, m.item) \in DownMsg /\ ms \in Seq(DownMsg)
    BY <1>4, DownMsgs
  <2>3. ~Some(ms, Beyond)
    <3>1. Span(m.cell, m.item) \subseteq Cell
      BY <1>4, <1>6, SpanInCells DEF IsFree
    <3> QED BY <1>4, <3>1, NewsKinds, ShortAt
  <2>4. Leads("mirror", Safebox, ms, Safebox')
    <3>1. Put("mirror", SetCell(m.cell, m.item), Safebox) = Safebox'
      BY <1>1, <1>2, <1>4, <2>1, SafeboxNews DEF Safebox, With
    <3> QED BY <3>1, LeadsShort
  <2> HIDE DEF ms
  <2> QED BY <1>1, <1>2, <1>5, <2>1, <2>2, <2>3, <2>4, ToldMirror
<1>7. CASE ~IsFree(m.cell, m.item)
  <2>1. /\ down' = [down EXCEPT ![c] = Append(@, GiveItem(m, m.item))]
        /\ UNCHANGED <<box, grid>>
    BY <1>7 DEF GUILD_SAFEBOX_ADD
  <2>2. GiveItem(m, m.item) \in DownMsg \ News
    BY <1>4, Answers, NewsKinds
  <2> QED BY <1>1, <1>2, <1>5, <2>1, <2>2, StillMirror
<1> QED BY <1>6, <1>7

LEMMA MoveMirror ==
    ASSUME IInv, MirrorInv, NEW c \in Core, GUILD_SAFEBOX_MOVE(c)
    PROVE  MirrorInv'
<1> DEFINE m == Head(up[c])
           i == box[m.from]
           ms == <<DelCell(m.from), SetCell(m.to, i)>>
<1>1. Typed
  BY DEF IInv
<1>2. Receive(c, "MOVE") /\ UNCHANGED <<gold, watchers>>
  BY DEF GUILD_SAFEBOX_MOVE
<1>3. m \in UpMsg /\ m.type = "MOVE"
  BY <1>1, <1>2, Received
<1>4. m.from \in Cell /\ m.to \in Cell
  BY <1>3, UpMsgFields
<1>5. (\A b \in Core : Some(up'[b], Loads) => Some(up[b], Loads)) /\ UNCHANGED mirror
  BY <1>1, <1>2, ReceivedMirror
<1>6. CASE i # NoItem /\ IsFree(m.to, i)
  <2>1. /\ box' = [box EXCEPT ![m.from] = NoItem, ![m.to] = i]
        /\ grid' = (grid \ Span(m.from, i)) \cup Span(m.to, i)
        /\ down' = Changed(c, ms)
    BY <1>6 DEF GUILD_SAFEBOX_MOVE
  <2>2. i \in Item
    BY <1>1, <1>4, <1>6 DEF Typed
  <2>3. ms \in Seq(DownMsg)
    <3>1. DelCell(m.from) \in DownMsg /\ SetCell(m.to, i) \in DownMsg
      BY <1>4, <2>2, DownMsgs
    <3> QED BY <3>1
  <2>4. ~Some(ms, Beyond)
    <3>1. Span(m.to, i) \subseteq Cell
      BY <1>4, <1>6, <2>2, SpanInCells DEF IsFree
    <3> QED BY <1>4, <2>2, <3>1, NewsKinds, ShortAt
  <2>5. Leads("mirror", Safebox, ms, Safebox')
    <3> DEFINE b == With(box, m.from, NoItem)
               g == grid \ Span(m.from, i)
               s == Full(b, g, gold)
    <3>1. b \in [Cell -> Item \cup {NoItem}]
      BY <1>1 DEF Typed, With
    <3>2. Put("mirror", DelCell(m.from), Safebox) = s
      BY <1>1, <1>4, <1>6, SafeboxNews
    <3>3. Safebox' = Full(With(b, m.to, i), g \cup Span(m.to, i), gold)
      BY <1>2, <2>1 DEF Safebox, With
    <3> HIDE DEF b, g
    <3>4. \A a \in Cell, k \in Item :
             Put("mirror", SetCell(a, k), s) = Full(With(b, a, k), g \cup Span(a, k), gold)
      BY <3>1, SetApplied
    <3>5. Put("mirror", SetCell(m.to, i), s) = Safebox'
      BY <1>4, <2>2, <3>3, <3>4
    <3> QED BY <3>2, <3>5, LeadsShort
  <2> HIDE DEF ms
  <2> QED BY <1>1, <1>2, <1>5, <2>1, <2>3, <2>4, <2>5, ToldMirror
<1>7. CASE ~(i # NoItem /\ IsFree(m.to, i))
  <2>1. UNCHANGED <<box, grid, down>>
    BY <1>7 DEF GUILD_SAFEBOX_MOVE
  <2> QED BY <1>1, <1>2, <1>5, <2>1, StillMirror
<1> QED BY <1>6, <1>7

LEMMA TakeMirror ==
    ASSUME IInv, MirrorInv, NEW c \in Core, GUILD_SAFEBOX_TAKE(c)
    PROVE  MirrorInv'
<1> DEFINE m == Head(up[c])
           i == box[m.cell]
           ms == <<DelCell(m.cell)>>
<1>1. Typed
  BY DEF IInv
<1>2. Receive(c, "TAKE") /\ UNCHANGED <<gold, watchers>>
  BY DEF GUILD_SAFEBOX_TAKE
<1>3. m \in UpMsg /\ m.type = "TAKE"
  BY <1>1, <1>2, Received
<1>4. m.pid \in Player /\ m.login \in Nat /\ m.cell \in Cell
  BY <1>3, UpMsgFields
<1>5. (\A b \in Core : Some(up'[b], Loads) => Some(up[b], Loads)) /\ UNCHANGED mirror
  BY <1>1, <1>2, ReceivedMirror
<1>6. CASE i # NoItem
  <2>1. /\ box' = [box EXCEPT ![m.cell] = NoItem]
        /\ grid' = grid \ Span(m.cell, i)
        /\ down' = [Changed(c, ms) EXCEPT ![c] = Append(@, GiveItem(m, i))]
    BY <1>6 DEF GUILD_SAFEBOX_TAKE
  <2>2. DelCell(m.cell) \in DownMsg /\ ms \in Seq(DownMsg)
    BY <1>4, DownMsgs
  <2>3. ~Some(ms, Beyond)
    BY <1>4, NewsKinds, ShortAt
  <2>4. Leads("mirror", Safebox, ms, Safebox')
    <3>1. Put("mirror", DelCell(m.cell), Safebox) = Safebox'
      BY <1>1, <1>2, <1>4, <1>6, <2>1, SafeboxNews DEF Safebox, With
    <3> QED BY <3>1, LeadsShort
  <2>5. GiveItem(m, i) \in DownMsg \ News
    <3>1. i \in Item
      BY <1>1, <1>4, <1>6 DEF Typed
    <3> QED BY <1>4, <3>1, Answers, NewsKinds
  <2> HIDE DEF ms, i
  <2> QED BY <1>1, <1>2, <1>5, <2>1, <2>2, <2>3, <2>4, <2>5, ToldMirror
<1>7. CASE i = NoItem
  <2>1. UNCHANGED <<box, grid, down>>
    BY <1>7 DEF GUILD_SAFEBOX_TAKE
  <2> QED BY <1>1, <1>2, <1>5, <2>1, StillMirror
<1> QED BY <1>6, <1>7

LEMMA GiveGoldMirror ==
    ASSUME IInv, MirrorInv, NEW c \in Core, GUILD_SAFEBOX_GIVE_GOLD(c)
    PROVE  MirrorInv'
<1> DEFINE m == Head(up[c])
           all == gold + m.gold
           ms == <<SetGold(all)>>
<1>1. Typed /\ gold \in Nat
  BY DEF IInv, Typed
<1>2. /\ Receive(c, "GIVE_GOLD") /\ UNCHANGED <<box, grid, watchers>>
      /\ gold' = all /\ down' = Changed(c, ms)
  BY DEF GUILD_SAFEBOX_GIVE_GOLD
<1>3. m \in UpMsg /\ m.type = "GIVE_GOLD"
  BY <1>1, <1>2, Received
<1>4. m.gold \in Nat
  BY <1>3, UpMsgFields
<1>5. (\A b \in Core : Some(up'[b], Loads) => Some(up[b], Loads)) /\ UNCHANGED mirror
  BY <1>1, <1>2, ReceivedMirror
<1>6. all \in Nat
  BY <1>1, <1>4
<1>7. SetGold(all) \in DownMsg /\ SetGold(all) \notin Beyond
  <2> HIDE DEF all
  <2> QED BY <1>6, DownMsgs, NewsKinds
<1>8. ms \in Seq(DownMsg) /\ ~Some(ms, Beyond)
  BY <1>7, ShortAt
<1>9. Leads("mirror", Safebox, ms, Safebox')
  <2>1. Safebox' = Full(box, grid, all)
    BY <1>2 DEF Safebox
  <2> HIDE DEF all
  <2>2. Put("mirror", SetGold(all), Safebox) = Full(box, grid, all)
    BY <1>1, SafeboxNews
  <2> QED BY <2>1, <2>2, LeadsShort
<1> HIDE DEF ms
<1> QED BY <1>1, <1>2, <1>5, <1>8, <1>9, ToldMirror

LEMMA GetGoldMirror ==
    ASSUME IInv, MirrorInv, NEW c \in Core, GUILD_SAFEBOX_GET_GOLD(c)
    PROVE  MirrorInv'
<1> DEFINE m == Head(up[c])
           left == gold - m.gold
           ms == <<SetGold(left)>>
<1>1. Typed /\ gold \in Nat
  BY DEF IInv, Typed
<1>2. Receive(c, "GET_GOLD") /\ UNCHANGED <<box, grid, watchers>>
  BY DEF GUILD_SAFEBOX_GET_GOLD
<1>3. m \in UpMsg /\ m.type = "GET_GOLD"
  BY <1>1, <1>2, Received
<1>4. m.pid \in Player /\ m.login \in Nat /\ m.gold \in Nat
  BY <1>3, UpMsgFields
<1>5. (\A b \in Core : Some(up'[b], Loads) => Some(up[b], Loads)) /\ UNCHANGED mirror
  BY <1>1, <1>2, ReceivedMirror
<1>6. CASE CanPay(m.gold)
  <2>1. gold' = left /\ down' = [Changed(c, ms) EXCEPT ![c] = Append(@, PayGold(m, m.gold))]
    BY <1>6 DEF GUILD_SAFEBOX_GET_GOLD
  <2>2. left \in Nat
    BY <1>1, <1>4, <1>6 DEF CanPay
  <2>3. SetGold(left) \in DownMsg /\ SetGold(left) \notin Beyond
    <3> HIDE DEF left
    <3> QED BY <2>2, DownMsgs, NewsKinds
  <2>4. ms \in Seq(DownMsg) /\ ~Some(ms, Beyond)
    BY <2>3, ShortAt
  <2>5. Leads("mirror", Safebox, ms, Safebox')
    <3>1. Safebox' = Full(box, grid, left)
      BY <1>2, <2>1 DEF Safebox
    <3> HIDE DEF left
    <3>2. Put("mirror", SetGold(left), Safebox) = Full(box, grid, left)
      BY <1>1, SafeboxNews
    <3> QED BY <3>1, <3>2, LeadsShort
  <2>6. PayGold(m, m.gold) \in DownMsg \ News
    BY <1>4, Answers, NewsKinds
  <2> HIDE DEF ms
  <2> QED BY <1>1, <1>2, <1>5, <2>1, <2>4, <2>5, <2>6, ToldMirror
<1>7. CASE ~CanPay(m.gold)
  <2>1. UNCHANGED gold /\ down' = [down EXCEPT ![c] = Append(@, PayGold(m, 0))]
    BY <1>7 DEF GUILD_SAFEBOX_GET_GOLD
  <2>2. PayGold(m, 0) \in DownMsg \ News
    BY <1>4, Answers, NewsKinds
  <2> QED BY <1>1, <1>2, <1>5, <2>1, <2>2, StillMirror
<1> QED BY <1>6, <1>7

\* What LOADED makes of a mirror that is not loaded, and of one that is.
LEMMA LoadedApplied ==
    ASSUME NEW m, m.type = "LOADED", NEW s
    PROVE  /\ ~s.loaded => Put("mirror", m, s) = Full(m.items, Covered(m.items), m.gold)
           /\ \A b, g : s = Full(b, g, m.gold) => Put("mirror", m, s) = s
<1>1. ~s.loaded => Put("mirror", m, s) = Full(m.items, Covered(m.items), m.gold)
  BY DEF Put, Apply, Full
<1>2. ASSUME NEW b, NEW g, s = Full(b, g, m.gold)
      PROVE  Put("mirror", m, s) = s
  <2>1. s.loaded = TRUE /\ s.gold = m.gold
        /\ s = [loaded |-> TRUE, items |-> b, grid |-> g, gold |-> m.gold]
    BY <1>2 DEF Full
  <2>2. Put("mirror", m, s) = [s EXCEPT !.gold = m.gold]
    BY <2>1 DEF Put, Apply
  <2> QED BY <2>1, <2>2
<1> QED BY <1>1, <1>2

LEMMA LoadMirror ==
    ASSUME IInv, MirrorInv, NEW c \in Core, GUILD_SAFEBOX_LOAD(c)
    PROVE  MirrorInv'
<1> DEFINE m == Head(up[c])
           empty == [d \in Cell |-> NoItem]
           items == IF c \in watchers THEN empty ELSE box
           answer == [type |-> "LOADED", pid |-> m.pid, login |-> m.login,
                      items |-> items, gold |-> gold]
<1>1. /\ Typed /\ grid = Covered(box) /\ grid \subseteq Cell /\ gold \in Nat
      /\ box \in [Cell -> Item \cup {NoItem}] /\ up[c] \in Seq(UpMsg)
      /\ down \in [Core -> Seq(DownMsg)]
  BY DEF IInv, Typed, BoxBooks
<1>2. /\ Receive(c, "LOAD") /\ UNCHANGED <<box, grid, gold>>
      /\ watchers' = watchers \cup {c}
      /\ down' = [down EXCEPT ![c] = Append(@, answer)]
  BY DEF GUILD_SAFEBOX_LOAD
<1>3. m \in UpMsg /\ m.type = "LOAD"
  BY <1>1, <1>2, Received
<1>4. m.pid \in Player /\ m.login \in Nat
  BY <1>3, UpMsgFields
<1>5. (\A b \in Core : Some(up'[b], Loads) => Some(up[b], Loads)) /\ UNCHANGED mirror
  BY <1>1, <1>2, ReceivedMirror
<1>6. /\ answer.type = "LOADED" /\ answer.items = items /\ answer.gold = gold
      /\ Safebox' = Safebox
  BY <1>2 DEF Safebox
<1>7. answer \in DownMsg
  <2>1. items \in [Cell -> Item \cup {NoItem}]
    BY <1>1
  <2> HIDE DEF m, items
  <2> QED BY <1>1, <1>4, <2>1 DEF DownMsg
<1>8. answer \notin Beyond
  <2>1. Covered(empty) \subseteq Cell
    BY DEF Covered
  <2>2. Covered(items) \subseteq Cell
    <3> HIDE DEF empty
    <3> QED BY <1>1, <2>1
  <2> HIDE DEF items, answer
  <2> QED BY <1>6, <2>2 DEF Beyond
<1>9. ~Some(down[c], Beyond)
      /\ Follows(c \in watchers, mirror[c], up[c], down[c], Safebox)
  BY DEF MirrorInv
<1>10. Leads("mirror", mirror[c], Append(down[c], answer), Safebox)
  <2>1. down[c] \in Seq(DownMsg)
    BY <1>1
  <2>2. CASE c \in watchers
    <3>1. Leads("mirror", mirror[c], down[c], Safebox)
      BY <1>9, <2>2 DEF Follows
    <3> HIDE DEF answer
    <3>2. Put("mirror", answer, Safebox) = Safebox
      BY <1>6, LoadedApplied DEF Safebox
    <3>3. Leads("mirror", mirror[c], Append(down[c], answer), Put("mirror", answer, Safebox))
      BY <1>7, <2>1, <3>1, LeadsAppend
    <3> QED BY <3>2, <3>3
  <2>3. CASE c \notin watchers
    <3>1. Some(up[c], Loads)
      <4>1. up[c] # <<>> /\ m \in Loads
        BY <1>2, <1>3 DEF Receive, Loads
      <4> QED BY <1>1, <4>1, TailAt
    <3>2. ~mirror[c].loaded /\ ~Some(down[c], News)
      BY <1>9, <2>3, <3>1 DEF Follows
    <3>3. Leads("mirror", mirror[c], down[c], mirror[c])
      BY <2>1, <3>2, LeadsNoNews
    <3>4. items = box
      BY <2>3
    <3> HIDE DEF answer, items
    <3>5. Put("mirror", answer, mirror[c]) = Safebox
      BY <1>1, <1>6, <3>2, <3>4, LoadedApplied DEF Safebox
    <3>6. Leads("mirror", mirror[c], Append(down[c], answer), Put("mirror", answer, mirror[c]))
      BY <1>7, <2>1, <3>3, LeadsAppend
    <3> QED BY <3>5, <3>6
  <2> QED BY <2>2, <2>3
<1> HIDE DEF answer, items
<1>11. ASSUME NEW b \in Core
       PROVE  /\ ~Some(down'[b], Beyond)
              /\ Follows(b \in watchers', mirror'[b], up'[b], down'[b], Safebox')
  <2>1. CASE b = c
    <3>1. down'[b] = Append(down[c], answer) /\ down[c] \in Seq(DownMsg)
      BY <1>1, <1>2, <2>1
    <3>2. ~Some(Append(down[c], answer), Beyond)
      BY <1>7, <1>8, <1>9, <3>1, AppendAt
    <3>3. b \in watchers'
      BY <1>2, <2>1
    <3> QED BY <1>5, <1>6, <1>10, <2>1, <3>1, <3>2, <3>3 DEF Follows
  <2>2. CASE b # c
    <3>1. down'[b] = down[b] /\ (b \in watchers' <=> b \in watchers)
      BY <1>1, <1>2, <2>2
    <3>2. ~Some(down[b], Beyond)
          /\ Follows(b \in watchers, mirror[b], up[b], down[b], Safebox)
      BY DEF MirrorInv
    <3> QED BY <1>5, <1>6, <3>1, <3>2 DEF Follows
  <2> QED BY <2>1, <2>2
<1> QED BY <1>5, <1>11 DEF MirrorInv

\* Players' items are saved, on request or by the heart beat.
LEMMA SavedMirror ==
    ASSUME IInv, MirrorInv,
           \/ \E c \in Core : QUERY_ITEM_SAVE(c) \/ QUERY_LOGOUT(c)
           \/ \E S \in SUBSET unsaved : FlushItems(S)
           \/ \E i \in Item : UpdateItemCache(i)
           \/ \E p \in Player : UpdateLogoutPlayer(p)
    PROVE  MirrorInv'
<1>1. Typed
  BY DEF IInv
<1>2. ASSUME NEW c \in Core, QUERY_ITEM_SAVE(c) \/ QUERY_LOGOUT(c)
      PROVE  MirrorInv'
  <2>1. UNCHANGED <<box, grid, gold, watchers, down>>
    BY <1>2 DEF QUERY_ITEM_SAVE, QUERY_LOGOUT, boxVars
  <2>2. \E type : Receive(c, type)
    BY <1>2 DEF QUERY_ITEM_SAVE, QUERY_LOGOUT
  <2>3. (\A b \in Core : Some(up'[b], Loads) => Some(up[b], Loads)) /\ UNCHANGED mirror
    BY <1>1, <2>2, ReceivedMirror
  <2> QED BY <1>1, <2>1, <2>3, StillMirror
<1>3. CASE \/ \E S \in SUBSET unsaved : FlushItems(S)
           \/ \E i \in Item : UpdateItemCache(i)
           \/ \E p \in Player : UpdateLogoutPlayer(p)
  <2>1. UNCHANGED <<box, grid, gold, watchers, mirror, up, down>>
    BY <1>3 DEF FlushItems, UpdateItemCache, UpdateLogoutPlayer, boxVars, gameVars
  <2> QED BY <1>1, <2>1, StillMirror
<1> QED BY <1>2, <1>3

\* A core sends a packet; it sends LOAD if its mirror is not loaded.
LEMMA SentMirror ==
    ASSUME IInv, MirrorInv, NEW c \in Core, NEW m \in UpMsg, Sends(c, m),
           m \in Loads => ~mirror[c].loaded,
           UNCHANGED <<box, grid, gold, watchers, mirror, down>>
    PROVE  MirrorInv'
<1>1. Typed /\ up \in [Core -> Seq(UpMsg)]
  BY DEF IInv, Typed
<1>2. ASSUME NEW b \in Core, Some(up'[b], Loads)
      PROVE  Some(up[b], Loads) \/ ~mirror[b].loaded
  <2>1. CASE b = c
    <3>1. up'[b] = Append(up[b], m) /\ up[b] \in Seq(UpMsg)
      BY <1>1, <2>1 DEF Sends
    <3> QED BY <1>2, <2>1, <3>1, AppendAt
  <2>2. CASE b # c
    <3>1. up'[b] = up[b]
      BY <1>1, <2>2 DEF Sends
    <3> QED BY <1>2, <3>1
  <2> QED BY <2>1, <2>2
<1> QED BY <1>1, <1>2, StillMirror

LEMMA PlayersMirror ==
    ASSUME IInv, MirrorInv, NEW p \in Player,
           \/ \E c \in Core : Login(p, c)
           \/ Logout(p)
           \/ \E I \in SUBSET dirty[p] : SaveItems(p, I)
    PROVE  MirrorInv'
<1>1. Typed /\ dirty[p] \subseteq Item /\ core[p] \in Core \cup {NoCore}
  BY DEF IInv, Typed
<1>2. ASSUME NEW c \in Core, Login(p, c)
      PROVE  MirrorInv'
  <2>1. UNCHANGED <<box, grid, gold, watchers, mirror, up, down>>
    BY <1>2 DEF Login, boxVars
  <2> QED BY <1>1, <2>1, StillMirror
<1>3. CASE Logout(p)
  <2> DEFINE m == [type |-> "LOGOUT", pid |-> p, items |-> dirty[p]]
  <2>1. m \in UpMsg /\ m \notin Loads
    BY <1>1, ItemPackets DEF Loads
  <2>2. /\ core[p] \in Core /\ Sends(core[p], m)
        /\ UNCHANGED <<box, grid, gold, watchers, mirror, down>>
    BY <1>1, <1>3 DEF Logout, boxVars
  <2> HIDE DEF m
  <2> QED BY <2>1, <2>2, SentMirror
<1>4. ASSUME NEW I \in SUBSET dirty[p], SaveItems(p, I)
      PROVE  MirrorInv'
  <2> DEFINE m == [type |-> "SAVE", pid |-> p, items |-> I]
  <2>1. m \in UpMsg /\ m \notin Loads
    <3>1. I \in SUBSET Item
      BY <1>1
    <3> QED BY <3>1, ItemPackets DEF Loads
  <2>2. /\ core[p] \in Core /\ Sends(core[p], m)
        /\ UNCHANGED <<box, grid, gold, watchers, mirror, down>>
    BY <1>1, <1>4 DEF SaveItems, boxVars
  <2> HIDE DEF m
  <2> QED BY <2>1, <2>2, SentMirror
<1> QED BY <1>2, <1>3, <1>4

LEMMA RequestMirror ==
    ASSUME IInv, MirrorInv, NEW p \in Player, NEW m \in UpMsg, Request(p, m),
           m \in Loads => ~mirror[core[p]].loaded
    PROVE  MirrorInv'
<1>1. core[p] \in Core
  BY DEF IInv, Typed, Request
<1>2. Sends(core[p], m) /\ UNCHANGED <<box, grid, gold, watchers, mirror, down>>
  BY DEF Request, boxVars
<1> QED BY <1>1, <1>2, SentMirror

\* The packet of a client's request, which is no LOAD but for the first.
LEMMA RequestMsgs ==
    ASSUME Typed, NEW p \in Player
    PROVE  /\ [type |-> "LOAD", pid |-> p, login |-> login[p]] \in UpMsg
           /\ \A i \in Item, c \in Cell :
                 [type |-> "ADD", pid |-> p, login |-> login[p], item |-> i, cell |-> c]
                     \in UpMsg \ Loads
           /\ \A c \in Cell :
                 [type |-> "TAKE", pid |-> p, login |-> login[p], cell |-> c] \in UpMsg \ Loads
           /\ \A c, d \in Cell : [type |-> "MOVE", from |-> c, to |-> d] \in UpMsg \ Loads
           /\ \A g \in Nat : [type |-> "GIVE_GOLD", gold |-> g] \in UpMsg \ Loads
           /\ \A g \in Nat :
                 [type |-> "GET_GOLD", pid |-> p, login |-> login[p], gold |-> g]
                     \in UpMsg \ Loads
<1>1. login[p] \in Nat
  BY DEF Typed
<1> QED BY <1>1 DEF UpMsg, Loads

LEMMA ClientsMirror ==
    ASSUME IInv, MirrorInv, NEW p \in Player,
           \/ OpenSafebox(p)
           \/ \E i \in Item, c \in Cell : CheckInItem(p, i, c)
           \/ \E c \in Cell : CheckOutItem(p, c)
           \/ \E c, d \in Cell : MoveItem(p, c, d)
           \/ \E g \in Amount : GiveGold(p, g) \/ TakeGold(p, g)
    PROVE  MirrorInv'
<1>1. Typed
  BY DEF IInv
<1>2. \A g \in Amount : g \in Nat
  BY ConstantTypes DEF Amount
<1>3. CASE OpenSafebox(p)
  BY <1>1, <1>3, RequestMsgs, RequestMirror DEF OpenSafebox
<1>4. ASSUME NEW m \in UpMsg \ Loads, Request(p, m)
      PROVE  MirrorInv'
  BY <1>4, RequestMirror
<1>5. ASSUME NEW i \in Item, NEW c \in Cell, CheckInItem(p, i, c)
      PROVE  MirrorInv'
  BY <1>1, <1>4, <1>5, RequestMsgs DEF CheckInItem, ViewerAsks
<1>6. ASSUME NEW c \in Cell, CheckOutItem(p, c)
      PROVE  MirrorInv'
  BY <1>1, <1>4, <1>6, RequestMsgs DEF CheckOutItem, ViewerAsks
<1>7. ASSUME NEW c \in Cell, NEW d \in Cell, MoveItem(p, c, d)
      PROVE  MirrorInv'
  BY <1>1, <1>4, <1>7, RequestMsgs DEF MoveItem, ViewerAsks
<1>8. ASSUME NEW g \in Amount, GiveGold(p, g) \/ TakeGold(p, g)
      PROVE  MirrorInv'
  BY <1>1, <1>2, <1>4, <1>8, RequestMsgs DEF GiveGold, TakeGold, ViewerAsks
<1> QED BY <1>3, <1>5, <1>6, <1>7, <1>8

\* A core takes a packet; its mirror becomes what the packet makes of it.
LEMMA TakenMirror ==
    ASSUME IInv, MirrorInv, NEW c \in Core, NEW types, Take(c, types),
           mirror' = [mirror EXCEPT ![c] = Apply(Head(down[c]), @)],
           \A b \in Core : Some(up'[b], Loads) => Some(up[b], Loads)
    PROVE  MirrorInv'
<1>1. Typed /\ down \in [Core -> Seq(DownMsg)]
  BY DEF IInv, Typed
<1>2. UNCHANGED <<box, grid, gold, watchers>> /\ Head(down[c]) \in DownMsg
  BY <1>1, Taken
<1>3. down[c] # <<>> /\ down' = [down EXCEPT ![c] = Tail(@)]
  BY DEF Take
<1>4. mirror \in [Core -> Mirror] /\ mirror[c] \in Mirror /\ down[c] \in Seq(DownMsg)
  BY <1>1 DEF MirrorInv
<1>5. ~Some(down[c], Beyond) /\ Follows(c \in watchers, mirror[c], up[c], down[c], Safebox)
  BY DEF MirrorInv
<1>6. Head(down[c]) \notin Beyond /\ ~Some(Tail(down[c]), Beyond)
  BY <1>3, <1>4, <1>5, TailAt
<1>7. Apply(Head(down[c]), mirror[c]) \in Mirror
  BY <1>2, <1>4, <1>6, ApplyType
<1>8. mirror' \in [Core -> Mirror]
  BY <1>4, <1>7
<1>9. Follows(c \in watchers, Apply(Head(down[c]), mirror[c]), up[c], Tail(down[c]), Safebox)
  BY <1>3, <1>4, <1>5, FollowsTaken
<1>10. Safebox' = Safebox
  BY <1>2 DEF Safebox
<1>11. ASSUME NEW b \in Core
       PROVE  /\ ~Some(down'[b], Beyond)
              /\ Follows(b \in watchers, mirror'[b], up[b], down'[b], Safebox)
  <2>1. CASE b = c
    BY <1>1, <1>3, <1>4, <1>6, <1>9, <2>1
  <2>2. CASE b # c
    BY <1>1, <1>3, <1>4, <2>2 DEF MirrorInv
  <2> QED BY <2>1, <2>2
<1>12. ASSUME NEW b \in Core
       PROVE  Follows(b \in watchers, mirror'[b], up'[b], down'[b], Safebox)
  <2>1. Follows(b \in watchers, mirror'[b], up[b], down'[b], Safebox)
    BY <1>11
  <2> QED BY <2>1 DEF Follows
<1> QED BY <1>2, <1>8, <1>10, <1>11, <1>12 DEF MirrorInv

LEMMA ChangesMirror ==
    ASSUME IInv, MirrorInv, NEW c \in Core, Changes(c)
    PROVE  MirrorInv'
<1>1. /\ Take(c, {"SET", "DEL", "GOLD", "LOADED"}) /\ UNCHANGED up
      /\ mirror' = [mirror EXCEPT ![c] = Apply(Head(down[c]), @)]
  BY DEF Changes
<1> QED BY <1>1, TakenMirror

LEMMA AnsweredMirror ==
    ASSUME IInv, MirrorInv, NEW c \in Core, Give(c) \/ Pay(c)
    PROVE  MirrorInv'
<1>1. Typed /\ up \in [Core -> Seq(UpMsg)] /\ mirror \in [Core -> Mirror]
  BY DEF IInv, Typed, MirrorInv
<1>2. PICK types \in {{"GIVE"}, {"PAY"}} : Take(c, types)
  BY DEF Give, Pay
<1>3. UNCHANGED mirror
  BY DEF Give, Pay
<1>4. Head(down[c]) \in DownMsg /\ Head(down[c]) \notin News
  BY <1>1, <1>2, Taken DEF News
<1>5. mirror' = [mirror EXCEPT ![c] = Apply(Head(down[c]), @)]
  <2>1. Apply(Head(down[c]), mirror[c]) = mirror[c]
    BY <1>4, NoNews
  <2> QED BY <1>1, <1>3, <2>1
<1>6. ASSUME NEW b \in Core, Some(up'[b], Loads)
      PROVE  Some(up[b], Loads)
  <2>1. CASE up' = up
    BY <1>6, <2>1
  <2>2. CASE up' # up
    <3> DEFINE g == Head(down[c]).gold
               m == [type |-> "GIVE_GOLD", gold |-> g]
    <3>1. Pay(c) /\ Sends(c, m)
      BY <2>2 DEF Give, Pay
    <3>2. g \in Nat
      BY <1>1, <3>1, Taken, DownMsgFields DEF Pay
    <3>3. m \in UpMsg /\ m \notin Loads
      <4> HIDE DEF g
      <4> QED BY <3>2 DEF UpMsg, Loads
    <3> HIDE DEF m
    <3>4. CASE b = c
      <4>1. up'[b] = Append(up[b], m) /\ up[b] \in Seq(UpMsg)
        BY <1>1, <3>1, <3>4 DEF Sends
      <4> QED BY <1>6, <3>3, <4>1, AppendAt
    <3>5. CASE b # c
      <4>1. up'[b] = up[b]
        BY <1>1, <3>1, <3>5 DEF Sends
      <4> QED BY <1>6, <4>1
    <3> QED BY <3>4, <3>5
  <2> QED BY <2>1, <2>2
<1> QED BY <1>2, <1>3, <1>5, <1>6, TakenMirror

LEMMA LossMirror ==
    ASSUME IInv, MirrorInv, NEW c \in Core, LinkLoss(c)
    PROVE  MirrorInv'
<1>1. up \in [Core -> Seq(UpMsg)] /\ down \in [Core -> Seq(DownMsg)]
  BY DEF IInv, Typed
<1>2. /\ UNCHANGED <<box, grid, gold, mirror>> /\ watchers' = watchers \ {c}
      /\ up' = [up EXCEPT ![c] = <<>>] /\ down' = [down EXCEPT ![c] = <<>>]
  BY DEF LinkLoss, gameVars
<1>3. Safebox' = Safebox
  BY <1>2 DEF Safebox
<1>4. ASSUME NEW b \in Core
      PROVE  /\ ~Some(down'[b], Beyond)
             /\ Follows(b \in watchers', mirror'[b], up'[b], down'[b], Safebox')
  <2>1. CASE b = c
    <3>1. up'[b] = <<>> /\ down'[b] = <<>> /\ b \notin watchers'
      BY <1>1, <1>2, <2>1
    <3> QED BY <3>1, EmptyAt DEF Follows
  <2>2. CASE b # c
    <3>1. up'[b] = up[b] /\ down'[b] = down[b] /\ (b \in watchers' <=> b \in watchers)
      BY <1>1, <1>2, <2>2
    <3>2. ~Some(down[b], Beyond)
          /\ Follows(b \in watchers, mirror[b], up[b], down[b], Safebox)
      BY DEF MirrorInv
    <3> QED BY <1>2, <1>3, <3>1, <3>2 DEF Follows
  <2> QED BY <2>1, <2>2
<1>5. mirror' \in [Core -> Mirror]
  BY <1>2 DEF MirrorInv
<1> QED BY <1>4, <1>5 DEF MirrorInv

LEMMA InitMirror == Init => MirrorInv
<1> SUFFICES ASSUME Init PROVE MirrorInv
  OBVIOUS
<1>1. /\ mirror = [c \in Core |-> NoMirror] /\ watchers = {}
      /\ up = [c \in Core |-> <<>>] /\ down = [c \in Core |-> <<>>]
  BY DEF Init
<1>2. NoMirror \in Mirror
  BY DEF NoMirror, Mirror
<1>3. mirror \in [Core -> Mirror]
  BY <1>1, <1>2
<1>4. ASSUME NEW c \in Core
      PROVE  /\ ~Some(down[c], Beyond)
             /\ Follows(c \in watchers, mirror[c], up[c], down[c], Safebox)
  BY <1>1, EmptyAt DEF Follows
<1> QED BY <1>3, <1>4 DEF MirrorInv

LEMMA NextMirror == IInv /\ MirrorInv /\ [Next]_vars => MirrorInv'
<1> SUFFICES ASSUME IInv, MirrorInv, [Next]_vars PROVE MirrorInv'
  OBVIOUS
<1>1. CASE Db
  <2>1. ASSUME NEW c \in Core,
               \/ GUILD_SAFEBOX_ADD(c) \/ GUILD_SAFEBOX_MOVE(c) \/ GUILD_SAFEBOX_TAKE(c)
               \/ GUILD_SAFEBOX_GIVE_GOLD(c) \/ GUILD_SAFEBOX_GET_GOLD(c)
               \/ GUILD_SAFEBOX_LOAD(c)
        PROVE  MirrorInv'
    BY <2>1, AddMirror, MoveMirror, TakeMirror, GiveGoldMirror, GetGoldMirror, LoadMirror
  <2>2. CASE \/ \E c \in Core : QUERY_ITEM_SAVE(c) \/ QUERY_LOGOUT(c)
             \/ \E S \in SUBSET unsaved : FlushItems(S)
             \/ \E i \in Item : UpdateItemCache(i)
             \/ \E p \in Player : UpdateLogoutPlayer(p)
    BY <2>2, SavedMirror
  <2> QED BY <1>1, <2>1, <2>2 DEF Db
<1>2. CASE Game
  <2>1. ASSUME NEW p \in Player,
               (\E c \in Core : Login(p, c)) \/ Logout(p)
               \/ \E I \in SUBSET dirty[p] : SaveItems(p, I)
        PROVE  MirrorInv'
    BY <2>1, PlayersMirror
  <2>2. ASSUME NEW p \in Player,
               \/ OpenSafebox(p)
               \/ \E i \in Item, c \in Cell : CheckInItem(p, i, c)
               \/ \E c \in Cell : CheckOutItem(p, c)
               \/ \E c, d \in Cell : MoveItem(p, c, d)
               \/ \E g \in Amount : GiveGold(p, g) \/ TakeGold(p, g)
        PROVE  MirrorInv'
    BY <2>2, ClientsMirror
  <2>3. ASSUME NEW c \in Core, Changes(c) \/ Give(c) \/ Pay(c) \/ LinkLoss(c)
        PROVE  MirrorInv'
    BY <2>3, ChangesMirror, AnsweredMirror, LossMirror
  <2> QED BY <1>2, <2>1, <2>2, <2>3 DEF Game
<1>3. CASE UNCHANGED vars
  <2>1. UNCHANGED <<box, grid, gold, watchers, mirror, up, down>> /\ Typed
    BY <1>3 DEF vars, boxVars, gameVars, IInv
  <2> QED BY <2>1, StillMirror
<1> QED BY <1>1, <1>2, <1>3 DEF Next

LEMMA MirrorInvHolds == Spec => [](IInv /\ MirrorInv)
<1> QED BY InitInv, NextInv, InitMirror, NextMirror, PTL DEF Spec

LEMMA MirrorFollowsInv ==
    ASSUME IInv, MirrorInv
    PROVE  MirrorFollows
<1>1. /\ watchers \subseteq Core
      /\ \A c \in Core : down[c] \in Seq(DownMsg)
  BY DEF IInv, Typed
<1>2. ASSUME NEW c \in Core, c \in watchers
      PROVE  FoldLeft(LAMBDA s, m : Apply(m, s), mirror[c], down[c]) = Safebox
  <2>1. Leads("mirror", mirror[c], down[c], Safebox)
    BY <1>2 DEF MirrorInv, Follows
  <2> QED BY <1>1, <2>1, FoldMirror
<1>3. /\ Safebox.loaded = TRUE /\ Safebox.items = box
      /\ Safebox.grid = grid /\ Safebox.gold = gold
  BY DEF Safebox, Full
<1> QED BY <1>1, <1>2, <1>3 DEF MirrorFollows

\* What ForwardPacket sends a core, and LoadItems in the order in which it comes,
\* makes of its mirror what the safebox is: no change passes a core by, is forwarded
\* twice or reaches a mirror that is not loaded, whatever connections are lost.
THEOREM MirrorsFollow == Spec => []MirrorFollows
<1>1. IInv /\ MirrorInv => MirrorFollows
  BY MirrorFollowsInv
<1> QED BY <1>1, MirrorInvHolds, PTL

-----------------------------------------------------------------------------
(***************************************************************************)
(* Gold: in the safebox, in purses, in packets, lost with packets.          *)
(***************************************************************************)

Way(u, d) == [c \in Core |-> GoldIn(u[c]) + GoldIn(d[c])]
GoldInv == spilt \in Nat /\ GoldKept

LEMMA CarriedUp ==
    ASSUME NEW m \in UpMsg
    PROVE  /\ Carried(m) \in Nat
           /\ m.type # "GIVE_GOLD" => Carried(m) = 0
           /\ m.type = "GIVE_GOLD" => Carried(m) = m.gold
<1>1. m.type # "PAY"
  BY DEF UpMsg
<1>2. m.type = "GIVE_GOLD" => m.gold \in Nat
  BY UpMsgFields
<1> QED BY <1>1, <1>2 DEF Carried

LEMMA CarriedDown ==
    ASSUME NEW m \in DownMsg
    PROVE  /\ Carried(m) \in Nat
           /\ m.type # "PAY" => Carried(m) = 0
           /\ m.type = "PAY" => Carried(m) = m.gold
<1>1. m.type # "GIVE_GOLD"
  BY DEF DownMsg
<1>2. m.type = "PAY" => m.gold \in Nat
  BY DownMsgFields
<1> QED BY <1>1, <1>2 DEF Carried

\* Packets without gold add none.
LEMMA GoldConcat ==
    ASSUME NEW q \in Seq(DownMsg), NEW p \in Seq(DownMsg),
           \A n \in DOMAIN p : Carried(p[n]) = 0
    PROVE  GoldIn(q \o p) = GoldIn(q)
<1> DEFINE s == GoldIn(q)
           r == q \o p
           h == [j \in 0 .. Len(p) |-> s]
<1>1. s \in Nat
  BY CarriedDown, GoldType
<1>2. r \in Seq(DownMsg) /\ Len(p) \in Nat /\ DOMAIN p = 1 .. Len(p)
  OBVIOUS
<1>3. Leads("gold", 0, q, s)
  BY FoldGold
<1>4. \A j \in 0 .. Len(p) : h[j] = s
  OBVIOUS
<1> HIDE DEF s, h
<1>5. ASSUME NEW j \in 1 .. Len(p)
      PROVE  h[j] = Put("gold", p[j], h[j - 1])
  <2>1. j \in 0 .. Len(p) /\ j - 1 \in 0 .. Len(p) /\ Carried(p[j]) = 0
    BY <1>2
  <2>2. s + Carried(p[j]) = s
    BY <1>1, <2>1
  <2> QED BY <1>4, <2>1, <2>2 DEF Put
<1>6. h[0] = s /\ h[Len(p)] = s
  BY <1>2, <1>4
<1>7. Leads("gold", s, p, s)
  <2>1. Run("gold", h, s, p, s)
    BY <1>5, <1>6 DEF Run
  <2> QED BY <2>1 DEF Leads
<1>8. Leads("gold", 0, r, s)
  BY <1>3, <1>7, LeadsConcat
<1> HIDE DEF r
<1>9. Leads("gold", 0, r, GoldIn(r))
  BY <1>2, FoldGold
<1>10. GoldIn(r) = s
  BY <1>2, <1>8, <1>9, RunIsOne
<1> QED BY <1>10 DEF r, s

LEMMA GoldNats ==
    ASSUME NEW u \in [Core -> Seq(UpMsg)], NEW d \in [Core -> Seq(DownMsg)],
           NEW f \in [Player -> Nat]
    PROVE  /\ \A c \in Core : GoldIn(u[c]) \in Nat /\ GoldIn(d[c]) \in Nat
           /\ Way(u, d) \in [Core -> Nat] /\ SumFunction(Way(u, d)) \in Nat
           /\ SumFunction(f) \in Nat
<1>1. \A c \in Core : u[c] \in Seq(UpMsg) /\ d[c] \in Seq(DownMsg)
  OBVIOUS
<1>2. \A c \in Core : GoldIn(u[c]) \in Nat /\ GoldIn(d[c]) \in Nat
  BY <1>1, GoldType, CarriedUp, CarriedDown
<1>3. \A c \in Core : GoldIn(u[c]) + GoldIn(d[c]) \in Nat
  BY <1>2
<1>4. Way(u, d) \in [Core -> Nat]
  BY <1>3 DEF Way
<1> QED BY <1>2, <1>4, SumOfNats, FiniteAssumption

\* Gold moves between the safebox, one core's packets and purses: y - x of it goes
\* to purses.
LEMMA GoldMoved ==
    ASSUME Typed, Typed', GoldInv, NEW c \in Core, NEW x \in Nat, NEW y \in Nat,
           \A b \in Core \ {c} : GoldIn(up'[b]) + GoldIn(down'[b])
                                    = GoldIn(up[b]) + GoldIn(down[b]),
           SumFunction(purse') + x = SumFunction(purse) + y,
           spilt' \in Nat,
           gold' + spilt' + y + GoldIn(up'[c]) + GoldIn(down'[c])
               = gold + spilt + x + GoldIn(up[c]) + GoldIn(down[c])
    PROVE  GoldInv'
<1> DEFINE e == Way(up, down)
           f == Way(up', down')
<1>1. /\ e \in [Core -> Nat] /\ f \in [Core -> Nat]
      /\ SumFunction(e) \in Nat /\ SumFunction(f) \in Nat
      /\ SumFunction(purse) \in Nat /\ SumFunction(purse') \in Nat
      /\ GoldIn(up[c]) \in Nat /\ GoldIn(down[c]) \in Nat
      /\ GoldIn(up'[c]) \in Nat /\ GoldIn(down'[c]) \in Nat
  BY GoldNats DEF Typed
<1>2. /\ \A b \in Core : e[b] = GoldIn(up[b]) + GoldIn(down[b])
      /\ \A b \in Core : f[b] = GoldIn(up'[b]) + GoldIn(down'[b])
  BY DEF Way
<1>3. gold \in Nat /\ gold' \in Nat /\ spilt \in Nat
  BY DEF Typed, GoldInv
<1>4. gold + spilt + SumFunction(purse) + SumFunction(e) = Gold
  BY DEF GoldInv, GoldKept, Way
<1> HIDE DEF e, f
<1>5. \A b \in Core \ {c} : e[b] = f[b]
  BY <1>2
<1>6. SumFunction(f) + e[c] = SumFunction(e) + f[c]
  BY <1>1, <1>5, SumChange, FiniteAssumption
<1>7. /\ e[c] = GoldIn(up[c]) + GoldIn(down[c])
      /\ f[c] = GoldIn(up'[c]) + GoldIn(down'[c])
  BY <1>2
<1>8. gold' + spilt' + SumFunction(purse') + SumFunction(f) = Gold
  BY <1>1, <1>3, <1>4, <1>6, <1>7
<1>9. GoldKept' <=> gold' + spilt' + SumFunction(purse') + SumFunction(f) = Gold
  BY DEF GoldKept, Way, f
<1> QED BY <1>8, <1>9 DEF GoldInv

LEMMA GoldStays ==
    ASSUME GoldInv, UNCHANGED <<gold, spilt, purse, up, down>>
    PROVE  GoldInv'
<1>1. GoldKept' <=> GoldKept
  BY DEF GoldKept
<1> QED BY <1>1 DEF GoldInv

\* What a queue holds when a packet is taken from it or put into it.
LEMMA ReceivedGold ==
    ASSUME Typed, NEW c \in Core, NEW type, Receive(c, type)
    PROVE  /\ GoldIn(up[c]) = Carried(Head(up[c])) + GoldIn(up'[c])
           /\ \A b \in Core \ {c} : up'[b] = up[b]
           /\ UNCHANGED <<purse, spilt>>
           /\ Head(up[c]) \in UpMsg
           /\ type # "GIVE_GOLD" => Carried(Head(up[c])) = 0
           /\ type = "GIVE_GOLD" => Carried(Head(up[c])) = Head(up[c]).gold
<1>1. up[c] \in Seq(UpMsg) /\ up[c] # <<>> /\ up \in [Core -> Seq(UpMsg)]
  BY DEF Typed, Receive
<1>2. up' = [up EXCEPT ![c] = Tail(@)] /\ UNCHANGED <<purse, spilt>>
  BY DEF Receive, gameVars, history
<1>3. Head(up[c]) \in UpMsg /\ Head(up[c]).type = type
  BY Received
<1>4. GoldIn(up[c]) = Carried(Head(up[c])) + GoldIn(Tail(up[c]))
  BY <1>1, GoldTail, CarriedUp
<1>5. up'[c] = Tail(up[c]) /\ \A b \in Core \ {c} : up'[b] = up[b]
  BY <1>1, <1>2
<1> QED BY <1>2, <1>3, <1>4, <1>5, CarriedUp

LEMMA ToldGold ==
    ASSUME Typed, NEW c \in Core, NEW ms \in Seq(DownMsg),
           \A n \in DOMAIN ms : Carried(ms[n]) = 0
    PROVE  \A b \in Core : GoldIn(Changed(c, ms)[b]) = GoldIn(down[b])
<1> TAKE b \in Core
<1>1. down[b] \in Seq(DownMsg)
  BY DEF Typed
<1>2. Changed(c, ms)[b] = IF b \in watchers THEN down[b] \o ms ELSE down[b]
  BY DEF Changed
<1>3. CASE b \in watchers
  BY <1>1, <1>2, <1>3, GoldConcat
<1>4. CASE b \notin watchers
  BY <1>2, <1>4
<1> QED BY <1>3, <1>4

LEMMA SentGold ==
    ASSUME NEW T, \A m \in T : Carried(m) \in Nat, NEW q \in [Core -> Seq(T)],
           NEW c \in Core, NEW m \in T
    PROVE  LET r == [q EXCEPT ![c] = Append(@, m)]
           IN  /\ GoldIn(r[c]) = GoldIn(q[c]) + Carried(m)
               /\ \A b \in Core \ {c} : r[b] = q[b]
<1>1. q[c] \in Seq(T)
  OBVIOUS
<1>2. GoldIn(Append(q[c], m)) = GoldIn(q[c]) + Carried(m)
  BY <1>1, GoldAppend
<1> QED BY <1>2

\* The db takes a packet that carries no gold and answers with none.
LEMMA NoGold ==
    ASSUME Typed, Typed', GoldInv, NEW c \in Core, NEW type, Receive(c, type),
           type # "GIVE_GOLD", UNCHANGED gold,
           \A b \in Core : GoldIn(down'[b]) = GoldIn(down[b])
    PROVE  GoldInv'
<1>1. /\ GoldIn(up[c]) = Carried(Head(up[c])) + GoldIn(up'[c])
      /\ \A b \in Core \ {c} : up'[b] = up[b]
      /\ UNCHANGED <<purse, spilt>> /\ Carried(Head(up[c])) = 0
  BY ReceivedGold
<1>2. GoldIn(up[c]) \in Nat /\ GoldIn(down[c]) \in Nat
      /\ GoldIn(up'[c]) \in Nat
  BY GoldNats DEF Typed
<1>3. gold \in Nat /\ spilt \in Nat
  BY DEF Typed, GoldInv
<1>4. GoldIn(up'[c]) = GoldIn(up[c])
  BY <1>1, <1>2
<1>5. gold' + spilt' + 0 + GoldIn(up'[c]) + GoldIn(down'[c])
          = gold + spilt + 0 + GoldIn(up[c]) + GoldIn(down[c])
  BY <1>1, <1>4
<1>6. SumFunction(purse') + 0 = SumFunction(purse) + 0
  BY <1>1
<1>7. \A b \in Core \ {c} : GoldIn(up'[b]) + GoldIn(down'[b])
                                    = GoldIn(up[b]) + GoldIn(down[b])
  BY <1>1
<1>8. spilt' \in Nat
  BY <1>1, <1>3
<1> HIDE DEF GoldInv
<1> QED BY <1>5, <1>6, <1>7, <1>8, GoldMoved

LEMMA ShortGold ==
    /\ \A c, i : Carried(SetCell(c, i)) = 0
    /\ \A c : Carried(DelCell(c)) = 0
    /\ \A g : Carried(SetGold(g)) = 0
    /\ \A m, i : Carried(GiveItem(m, i)) = 0
    /\ \A m, g : Carried(PayGold(m, g)) = g
  BY DEF Carried, SetCell, DelCell, SetGold, GiveItem, PayGold

LEMMA AnsweredGold ==
    ASSUME NEW d \in [Core -> Seq(DownMsg)], NEW c \in Core, NEW a \in DownMsg,
           \A b \in Core : GoldIn(d[b]) = GoldIn(down[b]),
           down' = [d EXCEPT ![c] = Append(@, a)], Typed
    PROVE  /\ GoldIn(down'[c]) = GoldIn(down[c]) + Carried(a)
           /\ \A b \in Core \ {c} : GoldIn(down'[b]) = GoldIn(down[b])
           /\ Carried(a) = 0 => \A b \in Core : GoldIn(down'[b]) = GoldIn(down[b])
<1>1. d[c] \in Seq(DownMsg) /\ down'[c] = Append(d[c], a)
      /\ \A b \in Core \ {c} : down'[b] = d[b]
  OBVIOUS
<1>2. GoldIn(Append(d[c], a)) = GoldIn(d[c]) + Carried(a)
  BY <1>1, GoldAppend
<1>3. GoldIn(down'[c]) = GoldIn(down[c]) + Carried(a)
      /\ \A b \in Core \ {c} : GoldIn(down'[b]) = GoldIn(down[b])
  BY <1>1, <1>2
<1>4. GoldIn(down[c]) \in Nat
  BY GoldNats DEF Typed
<1> QED BY <1>3, <1>4

LEMMA AddGold ==
    ASSUME IInv, IInv', GoldInv, NEW c \in Core, GUILD_SAFEBOX_ADD(c)
    PROVE  GoldInv'
<1> DEFINE m == Head(up[c])
           ms == <<SetCell(m.cell, m.item)>>
<1>1. Typed /\ Typed' /\ down \in [Core -> Seq(DownMsg)]
  BY DEF IInv, Typed
<1>2. Receive(c, "ADD") /\ UNCHANGED gold
  BY DEF GUILD_SAFEBOX_ADD
<1>3. m \in UpMsg /\ m.type = "ADD"
  BY <1>1, <1>2, Received
<1>4. m.pid \in Player /\ m.login \in Nat /\ m.item \in Item /\ m.cell \in Cell
  BY <1>3, UpMsgFields
<1>5. \A b \in Core : GoldIn(down'[b]) = GoldIn(down[b])
  <2>1. CASE IsFree(m.cell, m.item)
    <3>1. down' = Changed(c, ms)
      BY <2>1 DEF GUILD_SAFEBOX_ADD
    <3>2. ms \in Seq(DownMsg) /\ \A n \in DOMAIN ms : Carried(ms[n]) = 0
      BY <1>4, DownMsgs, ShortGold
    <3> HIDE DEF ms
    <3> QED BY <1>1, <3>1, <3>2, ToldGold
  <2>2. CASE ~IsFree(m.cell, m.item)
    <3>1. down' = [down EXCEPT ![c] = Append(@, GiveItem(m, m.item))]
      BY <2>2 DEF GUILD_SAFEBOX_ADD
    <3>2. GiveItem(m, m.item) \in DownMsg /\ Carried(GiveItem(m, m.item)) = 0
      BY <1>4, Answers, ShortGold
    <3> QED BY <1>1, <3>1, <3>2, AnsweredGold
  <2> QED BY <2>1, <2>2
<1> QED BY <1>1, <1>2, <1>5, NoGold

LEMMA MoveGold ==
    ASSUME IInv, IInv', GoldInv, NEW c \in Core, GUILD_SAFEBOX_MOVE(c)
    PROVE  GoldInv'
<1> DEFINE m == Head(up[c])
           i == box[m.from]
           ms == <<DelCell(m.from), SetCell(m.to, i)>>
<1>1. Typed /\ Typed'
  BY DEF IInv
<1>2. Receive(c, "MOVE") /\ UNCHANGED gold
  BY DEF GUILD_SAFEBOX_MOVE
<1>3. m \in UpMsg /\ m.type = "MOVE"
  BY <1>1, <1>2, Received
<1>4. m.from \in Cell /\ m.to \in Cell
  BY <1>3, UpMsgFields
<1>5. \A b \in Core : GoldIn(down'[b]) = GoldIn(down[b])
  <2>1. CASE i # NoItem /\ IsFree(m.to, i)
    <3>1. down' = Changed(c, ms)
      BY <2>1 DEF GUILD_SAFEBOX_MOVE
    <3>2. i \in Item
      BY <1>1, <1>4, <2>1 DEF Typed
    <3>3. ms \in Seq(DownMsg) /\ \A n \in DOMAIN ms : Carried(ms[n]) = 0
      BY <1>4, <3>2, DownMsgs, ShortGold
    <3> HIDE DEF ms
    <3> QED BY <1>1, <3>1, <3>3, ToldGold
  <2>2. CASE ~(i # NoItem /\ IsFree(m.to, i))
    BY <2>2 DEF GUILD_SAFEBOX_MOVE
  <2> QED BY <2>1, <2>2
<1> QED BY <1>1, <1>2, <1>5, NoGold

LEMMA TakeItemGold ==
    ASSUME IInv, IInv', GoldInv, NEW c \in Core, GUILD_SAFEBOX_TAKE(c)
    PROVE  GoldInv'
<1> DEFINE m == Head(up[c])
           i == box[m.cell]
           ms == <<DelCell(m.cell)>>
           told == Changed(c, ms)
<1>1. Typed /\ Typed'
  BY DEF IInv
<1>2. Receive(c, "TAKE") /\ UNCHANGED gold
  BY DEF GUILD_SAFEBOX_TAKE
<1>3. m \in UpMsg /\ m.type = "TAKE"
  BY <1>1, <1>2, Received
<1>4. m.pid \in Player /\ m.login \in Nat /\ m.cell \in Cell
  BY <1>3, UpMsgFields
<1>5. \A b \in Core : GoldIn(down'[b]) = GoldIn(down[b])
  <2>1. CASE i # NoItem
    <3>1. down' = [told EXCEPT ![c] = Append(@, GiveItem(m, i))]
      BY <2>1 DEF GUILD_SAFEBOX_TAKE
    <3>2. ms \in Seq(DownMsg) /\ \A n \in DOMAIN ms : Carried(ms[n]) = 0
      BY <1>4, DownMsgs, ShortGold
    <3>3. GiveItem(m, i) \in DownMsg /\ Carried(GiveItem(m, i)) = 0
      <4>1. i \in Item
        BY <1>1, <1>4, <2>1 DEF Typed
      <4> HIDE DEF i
      <4> QED BY <1>4, <4>1, Answers, ShortGold
    <3> HIDE DEF ms
    <3>4. told \in [Core -> Seq(DownMsg)] /\ \A b \in Core : GoldIn(told[b]) = GoldIn(down[b])
      BY <1>1, <3>2, ChangedType, ToldGold
    <3> HIDE DEF told
    <3> QED BY <1>1, <3>1, <3>3, <3>4, AnsweredGold
  <2>2. CASE i = NoItem
    BY <2>2 DEF GUILD_SAFEBOX_TAKE
  <2> QED BY <2>1, <2>2
<1> QED BY <1>1, <1>2, <1>5, NoGold

LEMMA LoadGold ==
    ASSUME IInv, IInv', GoldInv, NEW c \in Core, GUILD_SAFEBOX_LOAD(c)
    PROVE  GoldInv'
<1> DEFINE m == Head(up[c])
           items == IF c \in watchers THEN [d \in Cell |-> NoItem] ELSE box
           answer == [type |-> "LOADED", pid |-> m.pid, login |-> m.login,
                      items |-> items, gold |-> gold]
<1>1. /\ Typed /\ Typed' /\ down \in [Core -> Seq(DownMsg)] /\ gold \in Nat
      /\ box \in [Cell -> Item \cup {NoItem}]
  BY DEF IInv, Typed
<1>2. /\ Receive(c, "LOAD") /\ UNCHANGED gold
      /\ down' = [down EXCEPT ![c] = Append(@, answer)]
  BY DEF GUILD_SAFEBOX_LOAD
<1>3. m \in UpMsg /\ m.type = "LOAD"
  BY <1>1, <1>2, Received
<1>4. m.pid \in Player /\ m.login \in Nat
  BY <1>3, UpMsgFields
<1>5. answer \in DownMsg
  <2>1. items \in [Cell -> Item \cup {NoItem}]
    BY <1>1
  <2> HIDE DEF m, items
  <2> QED BY <1>1, <1>4, <2>1 DEF DownMsg
<1>6. Carried(answer) = 0
  BY DEF Carried
<1> HIDE DEF answer
<1>7. \A b \in Core : GoldIn(down'[b]) = GoldIn(down[b])
  BY <1>1, <1>2, <1>5, <1>6, AnsweredGold
<1> QED BY <1>1, <1>2, <1>7, NoGold

LEMMA GivenGold ==
    ASSUME IInv, IInv', GoldInv, NEW c \in Core, GUILD_SAFEBOX_GIVE_GOLD(c)
    PROVE  GoldInv'
<1> DEFINE g == Head(up[c]).gold
           all == gold + g
           ms == <<SetGold(all)>>
<1>1. Typed /\ Typed' /\ gold \in Nat /\ spilt \in Nat
  BY DEF IInv, Typed, GoldInv
<1>2. Receive(c, "GIVE_GOLD") /\ gold' = all /\ down' = Changed(c, ms)
  BY DEF GUILD_SAFEBOX_GIVE_GOLD
<1>3. g \in Nat
  BY <1>1, <1>2, Received, UpMsgFields
<1>4. /\ GoldIn(up[c]) = g + GoldIn(up'[c])
      /\ \A b \in Core \ {c} : up'[b] = up[b]
      /\ UNCHANGED <<purse, spilt>>
  BY <1>1, <1>2, ReceivedGold
<1> HIDE DEF g
<1>5. all \in Nat
  BY <1>1, <1>3
<1>6. ms \in Seq(DownMsg) /\ \A n \in DOMAIN ms : Carried(ms[n]) = 0
  <2> HIDE DEF all
  <2>1. SetGold(all) \in DownMsg
    BY <1>5, DownMsgs
  <2> QED BY <2>1, ShortGold
<1>7. \A b \in Core : GoldIn(down'[b]) = GoldIn(down[b])
  <2> HIDE DEF ms
  <2> QED BY <1>1, <1>2, <1>6, ToldGold
<1>8. GoldIn(down[c]) \in Nat /\ GoldIn(up'[c]) \in Nat
  BY <1>1, GoldNats DEF Typed
<1>9. gold' + spilt' + 0 + GoldIn(up'[c]) + GoldIn(down'[c])
          = gold + spilt + 0 + GoldIn(up[c]) + GoldIn(down[c])
  BY <1>1, <1>2, <1>3, <1>4, <1>7, <1>8
<1>10. SumFunction(purse') + 0 = SumFunction(purse) + 0
  BY <1>4
<1>11. \A b \in Core \ {c} : GoldIn(up'[b]) + GoldIn(down'[b])
                                = GoldIn(up[b]) + GoldIn(down[b])
  BY <1>4, <1>7
<1> QED BY <1>1, <1>4, <1>9, <1>10, <1>11, GoldMoved

LEMMA AskedGold ==
    ASSUME IInv, IInv', GoldInv, NEW c \in Core, GUILD_SAFEBOX_GET_GOLD(c)
    PROVE  GoldInv'
<1> DEFINE m == Head(up[c])
           g == m.gold
           left == gold - g
           ms == <<SetGold(left)>>
           told == Changed(c, ms)
           pay == PayGold(m, g)
<1>1. /\ Typed /\ Typed' /\ gold \in Nat /\ spilt \in Nat
      /\ down \in [Core -> Seq(DownMsg)]
  BY DEF IInv, Typed, GoldInv
<1>2. Receive(c, "GET_GOLD")
  BY DEF GUILD_SAFEBOX_GET_GOLD
<1>3. m \in UpMsg /\ m.type = "GET_GOLD"
  BY <1>1, <1>2, Received
<1>4. m.pid \in Player /\ m.login \in Nat /\ g \in Nat
  BY <1>3, UpMsgFields
<1>5. CASE CanPay(g)
  <2>1. gold' = left /\ down' = [told EXCEPT ![c] = Append(@, pay)]
    BY <1>5 DEF GUILD_SAFEBOX_GET_GOLD
  <2>2. left \in Nat /\ left + g = gold
    <3>1. gold >= g
      BY <1>5 DEF CanPay
    <3> HIDE DEF g
    <3> QED BY <1>1, <1>4, <3>1
  <2>3. pay \in DownMsg /\ Carried(pay) = g
    BY <1>4, Answers, ShortGold
  <2>4. ms \in Seq(DownMsg) /\ \A n \in DOMAIN ms : Carried(ms[n]) = 0
    <3> HIDE DEF left
    <3>1. SetGold(left) \in DownMsg
      BY <2>2, DownMsgs
    <3> QED BY <3>1, ShortGold
  <2> HIDE DEF ms
  <2>5. told \in [Core -> Seq(DownMsg)] /\ \A b \in Core : GoldIn(told[b]) = GoldIn(down[b])
    BY <1>1, <2>4, ChangedType, ToldGold
  <2>6. /\ GoldIn(up[c]) = GoldIn(up'[c]) /\ \A b \in Core \ {c} : up'[b] = up[b]
        /\ UNCHANGED <<purse, spilt>>
    <3>1. GoldIn(up'[c]) \in Nat
      BY <1>1, GoldNats DEF Typed
    <3> QED BY <1>1, <1>2, <3>1, ReceivedGold
  <2> HIDE DEF told, left, g, pay
  <2>7. GoldIn(down'[c]) = GoldIn(down[c]) + g
        /\ \A b \in Core \ {c} : GoldIn(down'[b]) = GoldIn(down[b])
    BY <1>1, <2>1, <2>3, <2>5, AnsweredGold
  <2>8. GoldIn(down[c]) \in Nat /\ GoldIn(up[c]) \in Nat
    BY <1>1, GoldNats DEF Typed
  <2>9. gold' + spilt' + 0 + GoldIn(up'[c]) + GoldIn(down'[c])
            = gold + spilt + 0 + GoldIn(up[c]) + GoldIn(down[c])
    <3> DEFINE u == GoldIn(up[c])
               d == GoldIn(down[c])
               e == GoldIn(down'[c])
    <3>1. /\ u \in Nat /\ d \in Nat /\ g \in Nat /\ left \in Nat /\ spilt \in Nat
          /\ left + g = gold /\ e = d + g
      BY <1>1, <1>4, <2>2, <2>7, <2>8
    <3>2. gold' = left /\ spilt' = spilt /\ GoldIn(up'[c]) = u
      BY <2>1, <2>6
    <3> HIDE DEF u, d, e
    <3>3. left + spilt + 0 + u + e = gold + spilt + 0 + u + d
      BY <3>1
    <3> QED BY <3>2, <3>3 DEF u, d, e
  <2>10. SumFunction(purse') + 0 = SumFunction(purse) + 0
    BY <2>6
  <2>11. \A b \in Core \ {c} : GoldIn(up'[b]) + GoldIn(down'[b])
                                  = GoldIn(up[b]) + GoldIn(down[b])
    BY <2>6, <2>7
  <2> QED BY <1>1, <2>6, <2>9, <2>10, <2>11, GoldMoved
<1>6. CASE ~CanPay(g)
  <2>1. UNCHANGED gold /\ down' = [down EXCEPT ![c] = Append(@, PayGold(m, 0))]
    BY <1>6 DEF GUILD_SAFEBOX_GET_GOLD
  <2>2. PayGold(m, 0) \in DownMsg /\ Carried(PayGold(m, 0)) = 0
    BY <1>4, Answers, ShortGold
  <2>3. \A b \in Core : GoldIn(down'[b]) = GoldIn(down[b])
    BY <1>1, <2>1, <2>2, AnsweredGold
  <2> QED BY <1>1, <1>2, <2>1, <2>3, NoGold
<1> QED BY <1>5, <1>6

LEMMA SavedGold ==
    ASSUME IInv, IInv', GoldInv,
           \/ \E c \in Core : QUERY_ITEM_SAVE(c) \/ QUERY_LOGOUT(c)
           \/ \E S \in SUBSET unsaved : FlushItems(S)
           \/ \E i \in Item : UpdateItemCache(i)
           \/ \E p \in Player : UpdateLogoutPlayer(p)
    PROVE  GoldInv'
<1>1. Typed /\ Typed'
  BY DEF IInv
<1>2. ASSUME NEW c \in Core, QUERY_ITEM_SAVE(c) \/ QUERY_LOGOUT(c)
      PROVE  GoldInv'
  <2>1. PICK type \in {"SAVE", "LOGOUT"} : Receive(c, type)
    BY <1>2 DEF QUERY_ITEM_SAVE, QUERY_LOGOUT
  <2>2. UNCHANGED <<gold, down>>
    BY <1>2 DEF QUERY_ITEM_SAVE, QUERY_LOGOUT, boxVars
  <2> QED BY <1>1, <2>1, <2>2, NoGold
<1>3. CASE \/ \E S \in SUBSET unsaved : FlushItems(S)
           \/ \E i \in Item : UpdateItemCache(i)
           \/ \E p \in Player : UpdateLogoutPlayer(p)
  <2>1. UNCHANGED <<gold, spilt, purse, up, down>>
    BY <1>3 DEF FlushItems, UpdateItemCache, UpdateLogoutPlayer, boxVars, gameVars, history
  <2> QED BY <2>1, GoldStays
<1> QED BY <1>2, <1>3

LEMMA PurseChanged ==
    ASSUME NEW e \in [Player -> Nat], NEW f \in [Player -> Nat], NEW p \in Player,
           \A q \in Player \ {p} : e[q] = f[q]
    PROVE  SumFunction(f) + e[p] = SumFunction(e) + f[p]
  BY SumChange, FiniteAssumption

\* A core sends a packet with gold of player p, or without.
LEMMA SentGoldOn ==
    ASSUME IInv, IInv', GoldInv, NEW c \in Core, NEW p \in Player, NEW m \in UpMsg,
           Sends(c, m), UNCHANGED <<gold, spilt, down>>,
           purse' = [purse EXCEPT ![p] = @ - Carried(m)]
    PROVE  GoldInv'
<1>1. /\ Typed /\ Typed' /\ gold \in Nat /\ spilt \in Nat /\ up \in [Core -> Seq(UpMsg)]
      /\ purse \in [Player -> Nat] /\ purse' \in [Player -> Nat]
  BY DEF IInv, Typed, GoldInv
<1>2. /\ GoldIn(up'[c]) = GoldIn(up[c]) + Carried(m)
      /\ \A b \in Core \ {c} : up'[b] = up[b]
  BY <1>1, SentGold, CarriedUp DEF Sends
<1>3. Carried(m) \in Nat /\ purse[p] \in Nat /\ purse'[p] \in Nat
      /\ purse'[p] + Carried(m) = purse[p]
  BY <1>1, CarriedUp
<1>4. SumFunction(purse') + purse[p] = SumFunction(purse) + purse'[p]
  <2>1. \A q \in Player \ {p} : purse[q] = purse'[q]
    BY <1>1
  <2> QED BY <1>1, <2>1, PurseChanged
<1>5. GoldIn(down[c]) \in Nat /\ GoldIn(up[c]) \in Nat
  BY <1>1, GoldNats DEF Typed
<1>6. gold' + spilt' + purse'[p] + GoldIn(up'[c]) + GoldIn(down'[c])
          = gold + spilt + purse[p] + GoldIn(up[c]) + GoldIn(down[c])
  <2> DEFINE x == purse[p]
             y == purse'[p]
             z == Carried(m)
             u == GoldIn(up[c])
             v == GoldIn(up'[c])
             d == GoldIn(down[c])
  <2>1. /\ x \in Nat /\ y \in Nat /\ z \in Nat /\ y + z = x
        /\ u \in Nat /\ d \in Nat /\ v = u + z
        /\ gold \in Nat /\ spilt \in Nat
    BY <1>1, <1>2, <1>3, <1>5
  <2> HIDE DEF x, y, z, u, v, d
  <2>2. gold + spilt + y + v + d = gold + spilt + x + u + d
    BY <2>1
  <2> QED BY <2>2 DEF x, y, u, v, d
<1>7. \A b \in Core \ {c} : GoldIn(up'[b]) + GoldIn(down'[b])
                                = GoldIn(up[b]) + GoldIn(down[b])
  BY <1>2
<1> QED BY <1>1, <1>3, <1>4, <1>6, <1>7, GoldMoved

LEMMA PlayersGold ==
    ASSUME IInv, IInv', GoldInv, NEW p \in Player,
           \/ \E c \in Core : Login(p, c)
           \/ Logout(p)
           \/ \E I \in SUBSET dirty[p] : SaveItems(p, I)
    PROVE  GoldInv'
<1>1. /\ dirty[p] \subseteq Item /\ core[p] \in Core \cup {NoCore}
      /\ purse \in [Player -> Nat]
  BY DEF IInv, Typed
<1>2. \A m \in UpMsg : Carried(m) = 0 => purse = [purse EXCEPT ![p] = @ - Carried(m)]
  BY <1>1
<1>3. ASSUME NEW c \in Core, Login(p, c)
      PROVE  GoldInv'
  <2>1. UNCHANGED <<gold, spilt, purse, up, down>>
    BY <1>3 DEF Login, boxVars
  <2> QED BY <2>1, GoldStays
<1>4. CASE Logout(p)
  <2> DEFINE m == [type |-> "LOGOUT", pid |-> p, items |-> dirty[p]]
  <2>1. m \in UpMsg /\ Carried(m) = 0
    BY <1>1, ItemPackets DEF Carried
  <2>2. core[p] \in Core /\ Sends(core[p], m) /\ UNCHANGED <<gold, spilt, purse, down>>
    BY <1>1, <1>4 DEF Logout, boxVars, history
  <2> HIDE DEF m
  <2> QED BY <1>2, <2>1, <2>2, SentGoldOn
<1>5. ASSUME NEW I \in SUBSET dirty[p], SaveItems(p, I)
      PROVE  GoldInv'
  <2> DEFINE m == [type |-> "SAVE", pid |-> p, items |-> I]
  <2>1. m \in UpMsg /\ Carried(m) = 0
    <3>1. I \in SUBSET Item
      BY <1>1
    <3> QED BY <3>1, ItemPackets DEF Carried
  <2>2. core[p] \in Core /\ Sends(core[p], m) /\ UNCHANGED <<gold, spilt, purse, down>>
    BY <1>1, <1>5 DEF SaveItems, boxVars, history
  <2> HIDE DEF m
  <2> QED BY <1>2, <2>1, <2>2, SentGoldOn
<1> QED BY <1>3, <1>4, <1>5

LEMMA ClientsGold ==
    ASSUME IInv, IInv', GoldInv, NEW p \in Player,
           \/ OpenSafebox(p)
           \/ \E i \in Item, c \in Cell : CheckInItem(p, i, c)
           \/ \E c \in Cell : CheckOutItem(p, c)
           \/ \E c, d \in Cell : MoveItem(p, c, d)
           \/ \E g \in Amount : GiveGold(p, g) \/ TakeGold(p, g)
    PROVE  GoldInv'
<1>1. Typed /\ purse \in [Player -> Nat]
  BY DEF IInv, Typed
<1>2. \A g \in Amount : g \in Nat
  BY ConstantTypes DEF Amount
<1>3. ASSUME NEW m \in UpMsg, Request(p, m), purse' = [purse EXCEPT ![p] = @ - Carried(m)]
      PROVE  GoldInv'
  <2>1. core[p] \in Core
    BY <1>1, <1>3 DEF Typed, Request
  <2>2. Sends(core[p], m) /\ UNCHANGED <<gold, spilt, down>>
    BY <1>3 DEF Request, boxVars
  <2> QED BY <1>3, <2>1, <2>2, SentGoldOn
<1>4. ASSUME NEW m \in UpMsg, m.type # "GIVE_GOLD", Request(p, m), UNCHANGED purse
      PROVE  GoldInv'
  <2>1. Carried(m) = 0
    BY <1>4, CarriedUp
  <2>2. purse' = [purse EXCEPT ![p] = @ - Carried(m)]
    BY <1>1, <1>4, <2>1
  <2> QED BY <1>3, <1>4, <2>2
<1>5. CASE OpenSafebox(p)
  BY <1>1, <1>4, <1>5, RequestMsgs DEF OpenSafebox
<1>6. ASSUME NEW i \in Item, NEW c \in Cell, CheckInItem(p, i, c)
      PROVE  GoldInv'
  BY <1>1, <1>4, <1>6, RequestMsgs DEF CheckInItem, ViewerAsks
<1>7. ASSUME NEW c \in Cell, CheckOutItem(p, c)
      PROVE  GoldInv'
  BY <1>1, <1>4, <1>7, RequestMsgs DEF CheckOutItem, ViewerAsks
<1>8. ASSUME NEW c \in Cell, NEW d \in Cell, MoveItem(p, c, d)
      PROVE  GoldInv'
  BY <1>1, <1>4, <1>8, RequestMsgs DEF MoveItem, ViewerAsks
<1>9. ASSUME NEW g \in Amount, GiveGold(p, g)
      PROVE  GoldInv'
  <2> DEFINE m == [type |-> "GIVE_GOLD", gold |-> g]
  <2>1. m \in UpMsg /\ Carried(m) = g
    BY <1>1, <1>2, RequestMsgs DEF Carried
  <2>2. Request(p, m) /\ purse' = [purse EXCEPT ![p] = @ - g]
    BY <1>9 DEF GiveGold, ViewerAsks
  <2> HIDE DEF m
  <2> QED BY <1>3, <2>1, <2>2
<1>10. ASSUME NEW g \in Amount, TakeGold(p, g)
       PROVE  GoldInv'
  BY <1>1, <1>2, <1>4, <1>10, RequestMsgs DEF TakeGold, ViewerAsks
<1> QED BY <1>5, <1>6, <1>7, <1>8, <1>9, <1>10

LEMMA TakenGold ==
    ASSUME Typed, NEW c \in Core, NEW types, Take(c, types)
    PROVE  /\ GoldIn(down[c]) = Carried(Head(down[c])) + GoldIn(down'[c])
           /\ \A b \in Core \ {c} : down'[b] = down[b]
           /\ Head(down[c]) \in DownMsg /\ Head(down[c]).type \in types
           /\ "PAY" \notin types => Carried(Head(down[c])) = 0
           /\ types = {"PAY"} => Carried(Head(down[c])) = Head(down[c]).gold
<1>1. down[c] \in Seq(DownMsg) /\ down[c] # <<>> /\ down \in [Core -> Seq(DownMsg)]
  BY DEF Typed, Take
<1>2. down' = [down EXCEPT ![c] = Tail(@)]
  BY DEF Take
<1>3. Head(down[c]) \in DownMsg /\ Head(down[c]).type \in types
  BY Taken
<1>4. GoldIn(down[c]) = Carried(Head(down[c])) + GoldIn(Tail(down[c]))
  BY <1>1, GoldTail, CarriedDown
<1>5. down'[c] = Tail(down[c]) /\ \A b \in Core \ {c} : down'[b] = down[b]
  BY <1>1, <1>2
<1> QED BY <1>3, <1>4, <1>5, CarriedDown

LEMMA TakenNoGold ==
    ASSUME IInv, IInv', GoldInv, NEW c \in Core, Changes(c) \/ Give(c)
    PROVE  GoldInv'
<1>1. /\ Typed /\ Typed' /\ gold \in Nat /\ spilt \in Nat
  BY DEF IInv, Typed, GoldInv
<1>2. PICK types \in {{"SET", "DEL", "GOLD", "LOADED"}, {"GIVE"}} : Take(c, types)
  BY DEF Changes, Give
<1>3. UNCHANGED <<gold, spilt, purse, up>>
  BY DEF Changes, Give, Take, boxVars
<1>4. Carried(Head(down[c])) = 0
  BY <1>1, <1>2, TakenGold
<1>5. GoldIn(down'[c]) \in Nat
  BY <1>1, GoldNats DEF Typed
<1>6. GoldIn(down'[c]) = GoldIn(down[c]) /\ \A b \in Core \ {c} : down'[b] = down[b]
  BY <1>1, <1>2, <1>4, <1>5, TakenGold
<1>7. gold' + spilt' + 0 + GoldIn(up'[c]) + GoldIn(down'[c])
          = gold + spilt + 0 + GoldIn(up[c]) + GoldIn(down[c])
  BY <1>3, <1>6
<1>8. SumFunction(purse') + 0 = SumFunction(purse) + 0
  BY <1>3
<1>9. \A b \in Core \ {c} : GoldIn(up'[b]) + GoldIn(down'[b])
                                = GoldIn(up[b]) + GoldIn(down[b])
  BY <1>3, <1>6
<1> QED BY <1>1, <1>3, <1>7, <1>8, <1>9, GoldMoved

LEMMA PaidGold ==
    ASSUME IInv, IInv', GoldInv, NEW c \in Core, Pay(c)
    PROVE  GoldInv'
<1> DEFINE m == Head(down[c])
           g == m.gold
           p == m.pid
           u == GoldIn(up[c])
           d == GoldIn(down[c])
           e == GoldIn(down'[c])
<1>1. /\ Typed /\ Typed' /\ gold \in Nat /\ spilt \in Nat /\ up \in [Core -> Seq(UpMsg)]
      /\ purse \in [Player -> Nat] /\ purse' \in [Player -> Nat]
  BY DEF IInv, Typed, GoldInv
<1>2. Take(c, {"PAY"}) /\ UNCHANGED <<gold, spilt>>
  BY DEF Pay, Take, boxVars
<1>3. g \in Nat /\ p \in Player
  <2>1. m \in DownMsg /\ m.type = "PAY"
    BY <1>1, <1>2, Taken
  <2> HIDE DEF m
  <2> QED BY <2>1, DownMsgFields
<1>4. d = g + e /\ \A b \in Core \ {c} : down'[b] = down[b]
  BY <1>1, <1>2, TakenGold
<1>5. u \in Nat /\ d \in Nat /\ e \in Nat
  BY <1>1, GoldNats DEF Typed
<1>6. CASE StillThere(c, m)
  <2>1. purse' = [purse EXCEPT ![p] = @ + g] /\ UNCHANGED up
    BY <1>6 DEF Pay
  <2> HIDE DEF g, p, u, d, e
  <2>2. purse[p] \in Nat /\ purse'[p] = purse[p] + g
        /\ \A q \in Player \ {p} : purse[q] = purse'[q]
    BY <1>1, <1>3, <2>1
  <2>3. SumFunction(purse') + purse[p] = SumFunction(purse) + purse'[p]
    BY <1>1, <1>3, <2>2, PurseChanged
  <2> DEFINE x == purse[p]
             y == purse'[p]
  <2>4. x \in Nat /\ y \in Nat /\ y = x + g
    BY <1>3, <2>2
  <2> HIDE DEF x, y
  <2>5. gold + spilt + y + u + e = gold + spilt + x + u + d
    BY <1>1, <1>3, <1>4, <1>5, <2>4
  <2>6. gold' + spilt' + purse'[p] + GoldIn(up'[c]) + GoldIn(down'[c])
            = gold + spilt + purse[p] + GoldIn(up[c]) + GoldIn(down[c])
    BY <1>2, <2>1, <2>5 DEF x, y, u, d, e
  <2>7. \A b \in Core \ {c} : GoldIn(up'[b]) + GoldIn(down'[b])
                                  = GoldIn(up[b]) + GoldIn(down[b])
    BY <1>4, <2>1
  <2>8. purse[p] \in Nat /\ purse'[p] \in Nat /\ spilt' \in Nat
    BY <1>1, <1>2, <2>4 DEF x, y
  <2> QED BY <1>1, <2>3, <2>6, <2>7, <2>8, GoldMoved
<1>7. CASE ~StillThere(c, m)
  <2> DEFINE back == [type |-> "GIVE_GOLD", gold |-> g]
             v == GoldIn(up'[c])
  <2>1. up' = [up EXCEPT ![c] = Append(@, back)] /\ UNCHANGED purse
    BY <1>7 DEF Pay, Sends
  <2>2. back \in UpMsg /\ Carried(back) = g
    <3> HIDE DEF g
    <3> QED BY <1>3 DEF UpMsg, Carried
  <2> HIDE DEF back, g
  <2>3. v = u + g /\ \A b \in Core \ {c} : up'[b] = up[b]
    BY <1>1, <2>1, <2>2, SentGold, CarriedUp
  <2> HIDE DEF u, v, d, e
  <2>4. gold + spilt + 0 + v + e = gold + spilt + 0 + u + d
    BY <1>1, <1>3, <1>4, <1>5, <2>3
  <2>5. gold' + spilt' + 0 + GoldIn(up'[c]) + GoldIn(down'[c])
            = gold + spilt + 0 + GoldIn(up[c]) + GoldIn(down[c])
    BY <1>2, <2>4 DEF u, v, d, e
  <2>6. SumFunction(purse') + 0 = SumFunction(purse) + 0
    BY <2>1
  <2>7. \A b \in Core \ {c} : GoldIn(up'[b]) + GoldIn(down'[b])
                                  = GoldIn(up[b]) + GoldIn(down[b])
    BY <1>4, <2>3
  <2> QED BY <1>1, <1>2, <2>5, <2>6, <2>7, GoldMoved
<1> QED BY <1>6, <1>7

LEMMA LostGold ==
    ASSUME IInv, IInv', GoldInv, NEW c \in Core, LinkLoss(c)
    PROVE  GoldInv'
<1> DEFINE u == GoldIn(up[c])
           d == GoldIn(down[c])
<1>1. /\ Typed /\ Typed' /\ gold \in Nat /\ spilt \in Nat
      /\ up \in [Core -> Seq(UpMsg)] /\ down \in [Core -> Seq(DownMsg)]
  BY DEF IInv, Typed, GoldInv
<1>2. /\ UNCHANGED <<gold, purse>> /\ spilt' = spilt + u + d
      /\ up' = [up EXCEPT ![c] = <<>>] /\ down' = [down EXCEPT ![c] = <<>>]
  BY DEF LinkLoss, gameVars
<1>3. /\ up'[c] = <<>> /\ down'[c] = <<>>
      /\ \A b \in Core \ {c} : up'[b] = up[b] /\ down'[b] = down[b]
  BY <1>1, <1>2
<1>4. u \in Nat /\ d \in Nat
  BY <1>1, GoldNats DEF Typed
<1> HIDE DEF u, d
<1>5. spilt' \in Nat
  BY <1>1, <1>2, <1>4
<1>6. gold' + spilt' + 0 + GoldIn(up'[c]) + GoldIn(down'[c])
          = gold + spilt + 0 + GoldIn(up[c]) + GoldIn(down[c])
  <2>1. gold + (spilt + u + d) + 0 + 0 + 0 = gold + spilt + 0 + u + d
    BY <1>1, <1>4
  <2> QED BY <1>2, <1>3, <2>1, GoldEmpty DEF u, d
<1>7. SumFunction(purse') + 0 = SumFunction(purse) + 0
  BY <1>2
<1>8. \A b \in Core \ {c} : GoldIn(up'[b]) + GoldIn(down'[b])
                                = GoldIn(up[b]) + GoldIn(down[b])
  BY <1>3
<1> QED BY <1>1, <1>5, <1>6, <1>7, <1>8, GoldMoved

LEMMA InitGold == Init => GoldInv
<1> SUFFICES ASSUME Init PROVE GoldInv
  OBVIOUS
<1>1. /\ gold = Gold /\ spilt = 0 /\ purse = [p \in Player |-> 0]
      /\ up = [c \in Core |-> <<>>] /\ down = [c \in Core |-> <<>>]
  BY DEF Init
<1>2. SumFunction(purse) = 0
  BY <1>1, SumOfZeros, FiniteAssumption
<1>3. SumFunction(Way(up, down)) = 0
  <2>1. DOMAIN Way(up, down) = Core
    BY DEF Way
  <2>2. \A c \in Core : Way(up, down)[c] = 0
    BY <1>1, GoldEmpty DEF Way
  <2> QED BY <2>1, <2>2, SumOfZeros, FiniteAssumption
<1>4. gold + spilt + SumFunction(purse) + SumFunction(Way(up, down)) = Gold
  BY <1>1, <1>2, <1>3, ConstantTypes
<1> QED BY <1>1, <1>4 DEF GoldInv, GoldKept, Way

LEMMA NextGold == IInv /\ IInv' /\ GoldInv /\ [Next]_vars => GoldInv'
<1> SUFFICES ASSUME IInv, IInv', GoldInv, [Next]_vars PROVE GoldInv'
  OBVIOUS
<1>1. CASE Db
  <2>1. ASSUME NEW c \in Core,
               \/ GUILD_SAFEBOX_ADD(c) \/ GUILD_SAFEBOX_MOVE(c) \/ GUILD_SAFEBOX_TAKE(c)
               \/ GUILD_SAFEBOX_GIVE_GOLD(c) \/ GUILD_SAFEBOX_GET_GOLD(c)
               \/ GUILD_SAFEBOX_LOAD(c)
        PROVE  GoldInv'
    BY <2>1, AddGold, MoveGold, TakeItemGold, GivenGold, AskedGold, LoadGold
  <2>2. CASE \/ \E c \in Core : QUERY_ITEM_SAVE(c) \/ QUERY_LOGOUT(c)
             \/ \E S \in SUBSET unsaved : FlushItems(S)
             \/ \E i \in Item : UpdateItemCache(i)
             \/ \E p \in Player : UpdateLogoutPlayer(p)
    BY <2>2, SavedGold
  <2> QED BY <1>1, <2>1, <2>2 DEF Db
<1>2. CASE Game
  <2>1. ASSUME NEW p \in Player,
               (\E c \in Core : Login(p, c)) \/ Logout(p)
               \/ \E I \in SUBSET dirty[p] : SaveItems(p, I)
        PROVE  GoldInv'
    BY <2>1, PlayersGold
  <2>2. ASSUME NEW p \in Player,
               \/ OpenSafebox(p)
               \/ \E i \in Item, c \in Cell : CheckInItem(p, i, c)
               \/ \E c \in Cell : CheckOutItem(p, c)
               \/ \E c, d \in Cell : MoveItem(p, c, d)
               \/ \E g \in Amount : GiveGold(p, g) \/ TakeGold(p, g)
        PROVE  GoldInv'
    BY <2>2, ClientsGold
  <2>3. ASSUME NEW c \in Core, Changes(c) \/ Give(c) \/ Pay(c) \/ LinkLoss(c)
        PROVE  GoldInv'
    BY <2>3, TakenNoGold, PaidGold, LostGold
  <2> QED BY <1>2, <2>1, <2>2, <2>3 DEF Game
<1>3. CASE UNCHANGED vars
  BY <1>3, GoldStays DEF vars, boxVars, gameVars, history
<1> QED BY <1>1, <1>2, <1>3 DEF Next

LEMMA GoldInvHolds == Spec => [](IInv /\ GoldInv)
<1> QED BY InitInv, NextInv, InitGold, NextGold, PTL DEF Spec

\* Gold is in the safebox, in a purse or in a packet, whichever requests GET_GOLD
\* grants or refuses and whoever is gone when PAY comes; only a connection lost
\* takes some with it.
THEOREM GoldIsKept == Spec => []GoldKept
<1>1. GoldInv => GoldKept
  BY DEF GoldInv
<1> QED BY <1>1, GoldInvHolds, PTL

\* No cell beyond the arrays is used, in the db or in a mirror of a core, and gold
\* never goes below zero.
THEOREM TypesHold == Spec => []TypeOK
<1>1. IInv /\ MirrorInv /\ GoldInv => TypeOK
  BY DEF IInv, MirrorInv, Mirror, GoldInv, TypeOK
<1> QED BY <1>1, MirrorInvHolds, GoldInvHolds, PTL
=============================================================================
