------------------------ MODULE ExchangeTrade_proofs ------------------------
(***************************************************************************)
(* Exchange implements Trade, for any players and items, any size of the    *)
(* inventories and of the items, and any bounds.  While Done runs nothing   *)
(* has happened yet as Trade sees it: DealBooks says how far Done has come  *)
(* from there, and its last step makes all of it happen.                    *)
(*                                                                         *)
(* RoomBooks says what room is left meanwhile: there is enough, but for     *)
(* offers of items of different sizes.                                      *)
(***************************************************************************)
EXTENDS Exchange_proofs

Was(p) == before.exch[p]
HeldBefore(p) == {before.inv[p][c] : c \in Cell} \ {NoItem}
OfferedBefore(p) == ToSet(Was(p).items)

\* The one who agreed last, whose Done comes first, and the other.
First == IF Len(givers) = 2 THEN Giver ELSE Receiver
Second == IF Len(givers) = 2 THEN Receiver ELSE Giver

\* What both agreed to when Done was called.
Agreed ==
    /\ before.inv \in [Player -> Row] /\ before.purse \in [Player -> Nat]
    /\ before.exch \in [Player -> Side \cup {NoExchange}]
    /\ Was(First) # NoExchange /\ Was(First).company = Second
    /\ Was(Second) # NoExchange /\ Was(Second).company = First
    /\ Was(Second).accept
    /\ HeldBefore(First) \cap HeldBefore(Second) = {}
    /\ OfferedBefore(First) \subseteq HeldBefore(First)
    /\ OfferedBefore(Second) \subseteq HeldBefore(Second)
    /\ Was(First).gold <= before.purse[First]
    /\ Was(Second).gold <= before.purse[Second]
    /\ before.purse[Second] + Was(First).gold <= GoldMax
    /\ before.purse[First] + Was(Second).gold <= GoldMax

\* What Done still has in hand of it.
InHand ==
    /\ exch[First].gold = Was(First).gold /\ exch[Second].gold = Was(Second).gold
    /\ Offered(First) \subseteq OfferedBefore(First)
    /\ Offered(Second) \subseteq OfferedBefore(Second)
    /\ ToSet(left) \subseteq OfferedBefore(Giver)

\* What has changed hands, and what has not.
Passed ==
    /\ \A r \in Player \ {First, Second} : exch[r] = Was(r) /\ Held(r) = HeldBefore(r)
    /\ \E given \in SUBSET OfferedBefore(First), taken \in SUBSET OfferedBefore(Second) :
          /\ Held(First) = (HeldBefore(First) \ given) \cup taken
          /\ Held(Second) = (HeldBefore(Second) \ taken) \cup given
    /\ purse = IF Len(givers) = 2 THEN before.purse
               ELSE [before.purse EXCEPT ![First] = @ - Was(First).gold,
                                         ![Second] = @ + Was(First).gold]

DealBooks == ~Quiet => Agreed /\ InHand /\ Passed

-----------------------------------------------------------------------------
(***************************************************************************)
(* Done.                                                                    *)
(***************************************************************************)

LEMMA Both ==
    ASSUME IInv, ~Quiet
    PROVE  /\ First \in Player /\ Second \in Player /\ First # Second
           /\ {First, Second} = {Giver, Receiver}
           /\ Company(First) = Second /\ Company(Second) = First
           /\ Len(givers) = 1 \/ Len(givers) = 2
  BY Parties DEF First, Second, Receiver, IInv, DoneBooks

\* The turns when the second has agreed.
LEMMA AcceptBothTurn ==
    ASSUME IInv, NEW p \in Player, AcceptBoth(p)
    PROVE  \E q \in Player :
              /\ q = Company(p) /\ q # p /\ Company(q) = p
              /\ exch[p] \in Side /\ exch[q] \in Side /\ exch[q] # NoExchange
              /\ Giver' = p /\ Receiver' = q /\ First' = p /\ Second' = q
              /\ Len(givers') = 2 /\ UNCHANGED inv
              /\ \A r \in {p, q} : /\ exch'[r].items = exch[r].items
                                   /\ exch'[r].gold = exch[r].gold
              /\ \A r \in Player : /\ before'.inv[r] = inv[r] /\ Was(r)' = exch[r]
                                   /\ HeldBefore(r)' = Held(r) /\ Held(r)' = Held(r)
<1>1. PICK q \in Player : q = Company(p)
  BY Sides DEF AcceptBoth, MayAccept, IInv, ExchangeBooks
<1>2. /\ exch[p] # NoExchange /\ exch' = [exch EXCEPT ![p].accept = TRUE]
      /\ givers' = <<p, q>>
      /\ before' = [inv |-> inv, purse |-> purse, exch |-> exch]
      /\ UNCHANGED inv
      /\ exch \in [Player -> Side \cup {NoExchange}]
  BY <1>1 DEF AcceptBoth, MayAccept, held, cells, IInv, TypeOK
<1>3. /\ q # p /\ exch[p] \in Side /\ exch[q] \in Side
      /\ exch[q] # NoExchange /\ Company(q) = p
  BY <1>1, <1>2, Sides DEF IInv, ExchangeBooks
<1>4. /\ exch'[p] = [exch[p] EXCEPT !.accept = TRUE]
      /\ \A r \in Player \ {p} : exch'[r] = exch[r]
  BY <1>2, <1>3
<1>5. /\ exch'[p].gold = exch[p].gold /\ exch'[p].items = exch[p].items
      /\ exch'[p].company = q
  BY <1>1, <1>3, <1>4 DEF Side, Company
<1>6. Giver' = p /\ Len(givers') = 2
  BY <1>2 DEF Giver
<1>7. Receiver' = q
  BY <1>5, <1>6 DEF Receiver, Company
<1>8. First' = p /\ Second' = q
  BY <1>6, <1>7 DEF First, Second
<1>9. \A r \in Player : /\ before'.inv[r] = inv[r] /\ Was(r)' = exch[r]
                        /\ HeldBefore(r)' = Held(r) /\ Held(r)' = Held(r)
  <2>1. before'.inv = inv /\ before'.exch = exch
    BY <1>2
  <2>2. \A r \in Player : {inv[r][c] : c \in Cell} \ {NoItem} = Held(r)
    BY DEF Held, Filled
  <2> QED BY <1>2, <2>1, <2>2 DEF Was, HeldBefore, Held, Filled
<1> QED BY <1>1, <1>2, <1>3, <1>4, <1>5, <1>6, <1>7, <1>8, <1>9

LEMMA AcceptBothDeal ==
    ASSUME IInv, NEW p \in Player, AcceptBoth(p)
    PROVE  DealBooks'
<1>1. PICK q \in Player :
          /\ q = Company(p) /\ q # p /\ Company(q) = p
          /\ exch[p] \in Side /\ exch[q] \in Side /\ exch[q] # NoExchange
          /\ Giver' = p /\ Receiver' = q /\ First' = p /\ Second' = q
          /\ Len(givers') = 2
          /\ \A r \in {p, q} : /\ exch'[r].items = exch[r].items
                               /\ exch'[r].gold = exch[r].gold
          /\ \A r \in Player : /\ before'.inv[r] = inv[r] /\ Was(r)' = exch[r]
                               /\ HeldBefore(r)' = Held(r) /\ Held(r)' = Held(r)
  BY AcceptBothTurn
<1>2. /\ Quiet /\ exch[p] # NoExchange /\ exch[q].accept
      /\ Check(p) /\ Check(q)
      /\ exch' = [exch EXCEPT ![p].accept = TRUE]
      /\ givers' = <<p, q>>
      /\ before' = [inv |-> inv, purse |-> purse, exch |-> exch]
      /\ UNCHANGED <<inv, purse, left>>
  BY <1>1 DEF AcceptBoth, MayAccept, CanExchange, held, cells
<1>3. /\ inv \in [Player -> Row] /\ exch \in [Player -> Side \cup {NoExchange}]
      /\ purse \in [Player -> 0 .. 2 * GoldMax]
  BY DEF IInv, TypeOK, Row
<1>4. /\ q \in Player /\ q # p /\ exch[p] \in Side /\ exch[q] \in Side
      /\ exch[q] # NoExchange /\ Company(q) = p
  BY <1>1
<1>5. \A r \in Player \ {p} : exch'[r] = exch[r]
  BY <1>2, <1>3
<1>6. Giver' = p /\ Len(givers') = 2 /\ Receiver' = q /\ First' = p /\ Second' = q
  BY <1>1
<1>7. before'.inv = inv /\ before'.purse = purse /\ before'.exch = exch
  BY <1>2
<1>8. \A r \in Player : {inv[r][c] : c \in Cell} \ {NoItem} = Held(r)
  BY DEF Held, Filled
<1>9. \A r \in {p, q} : ToSet(exch[r].items) \subseteq Held(r)
  <2> SUFFICES ASSUME NEW r \in {p, q}, NEW k \in DOMAIN exch[r].items
               PROVE  exch[r].items[k] \in Held(r)
    BY DEF ToSet
  <2>1. /\ exch[r].items[k] = inv[r][exch[r].pos[k]]
        /\ exch[r].items \in Seq(Item) /\ exch[r].pos \in Seq(Cell)
        /\ Len(exch[r].items) = Len(exch[r].pos)
    BY <1>2, <1>4 DEF Check, Side, IInv, ExchangeBooks, InPlace
  <2>2. exch[r].items[k] \in Item /\ exch[r].pos[k] \in Cell
    BY <2>1
  <2> QED BY <2>1, <2>2, ConstantTypes DEF Held, Filled
<1>10. Held(p) \cap Held(q) = {}
  BY <1>4 DEF IInv, InventoryBooks
<1>11. /\ exch[p].gold <= purse[p] /\ exch[q].gold <= purse[q]
       /\ purse[q] + exch[p].gold <= GoldMax /\ purse[p] + exch[q].gold <= GoldMax
  BY <1>2, <1>3, <1>4, <1>1, ConstantTypes DEF Check, Side
<1>12. \A r \in Player : Held(r)' = Held(r)
  BY <1>2 DEF Held, Filled
<1>13. \A r \in Player : /\ before'.exch[r] = exch[r]
                         /\ {before'.inv[r][c] : c \in Cell} \ {NoItem} = Held(r)
  BY <1>7, <1>8
<1>14. /\ Was(First)' = exch[p] /\ Was(Second)' = exch[q]
       /\ HeldBefore(First)' = Held(p) /\ HeldBefore(Second)' = Held(q)
       /\ OfferedBefore(First)' = ToSet(exch[p].items)
       /\ OfferedBefore(Second)' = ToSet(exch[q].items)
       /\ Held(First)' = Held(p) /\ Held(Second)' = Held(q)
       /\ \A r \in Player : Was(r)' = exch[r] /\ HeldBefore(r)' = Held(r)
  <2>1. \A r \in Player : before'.exch[r] = exch[r] /\ Was(r)' = before'.exch[r]
    BY <1>13 DEF Was
  <2>2. \A r \in Player : HeldBefore(r)' = Held(r)
    BY <1>13 DEF HeldBefore
  <2>3. Was(First)' = exch[p] /\ Was(Second)' = exch[q]
    BY <2>1, <1>4, <1>6 DEF Was
  <2>4. HeldBefore(First)' = Held(p) /\ HeldBefore(Second)' = Held(q)
    BY <1>4, <1>6, <1>13 DEF HeldBefore
  <2>5. /\ OfferedBefore(First)' = ToSet(exch[p].items)
        /\ OfferedBefore(Second)' = ToSet(exch[q].items)
    BY <2>3 DEF OfferedBefore, ToSet
  <2>6. Held(First)' = Held(p) /\ Held(Second)' = Held(q)
    BY <1>2, <1>6 DEF Held, Filled
  <2> QED BY <2>1, <2>2, <2>3, <2>4, <2>5, <2>6
<1>15. Agreed'
  <2>1. purse \in [Player -> Nat]
    BY <1>3, ConstantTypes
  <2>2. /\ before'.inv \in [Player -> Row] /\ before'.purse \in [Player -> Nat]
        /\ before'.exch \in [Player -> Side \cup {NoExchange}]
    BY <1>3, <1>7, <2>1
  <2>3. /\ Was(First)' # NoExchange /\ Was(First)'.company = Second'
        /\ Was(Second)' # NoExchange /\ Was(Second)'.company = First'
        /\ Was(Second)'.accept
    BY <1>2, <1>4, <1>6, <1>14, <1>1 DEF Company
  <2>4. /\ HeldBefore(First)' \cap HeldBefore(Second)' = {}
        /\ OfferedBefore(First)' \subseteq HeldBefore(First)'
        /\ OfferedBefore(Second)' \subseteq HeldBefore(Second)'
    BY <1>9, <1>10, <1>14
  <2>5. /\ Was(First)'.gold <= before'.purse[First']
        /\ Was(Second)'.gold <= before'.purse[Second']
        /\ before'.purse[Second'] + Was(First)'.gold <= GoldMax
        /\ before'.purse[First'] + Was(Second)'.gold <= GoldMax
    BY <1>6, <1>7, <1>11, <1>14
  <2> QED BY <2>2, <2>3, <2>4, <2>5 DEF Agreed
<1>16. InHand'
  <2>1. \A r \in {p, q} : exch'[r].gold = exch[r].gold /\ exch'[r].items = exch[r].items
    BY <1>1
  <2>2. \A r \in {p, q} : Offered(r)' \subseteq ToSet(exch[r].items)
    BY <2>1 DEF Offered
  <2>3. Offered(First)' = Offered(p)' /\ Offered(Second)' = Offered(q)'
    BY <1>6 DEF Offered
  <2>4. ToSet(left') = {}
    BY <1>2 DEF IInv, DoneBooks, ToSet
  <2>5. exch'[First'].gold = Was(First)'.gold /\ exch'[Second'].gold = Was(Second)'.gold
    BY <2>1, <1>6, <1>14
  <2>6. ToSet(left)' = {}
    BY <2>4 DEF ToSet
  <2> QED BY <2>2, <2>3, <2>5, <2>6, <1>14 DEF InHand
<1>17. Passed'
  <2>1. \A r \in Player \ {First', Second'} :
           exch'[r] = Was(r)' /\ Held(r)' = HeldBefore(r)'
    BY <1>5, <1>6, <1>12, <1>14
  <2>2. \E given \in SUBSET OfferedBefore(First)', taken \in SUBSET OfferedBefore(Second)' :
           /\ Held(First)' = (HeldBefore(First)' \ given) \cup taken
           /\ Held(Second)' = (HeldBefore(Second)' \ taken) \cup given
    <3>1. {} \in SUBSET OfferedBefore(First)' /\ {} \in SUBSET OfferedBefore(Second)'
      OBVIOUS
    <3>2. /\ Held(First)' = (HeldBefore(First)' \ {}) \cup {}
          /\ Held(Second)' = (HeldBefore(Second)' \ {}) \cup {}
      BY <1>14
    <3> QED BY <3>1, <3>2
  <2>3. purse' = before'.purse /\ Len(givers') = 2
    BY <1>2, <1>6, <1>7
  <2> QED BY <2>1, <2>2, <2>3 DEF Passed
<1> QED BY <1>15, <1>16, <1>17 DEF DealBooks

\* A step of Done after which the same two are at it, with the same in mind.
LEMMA SameDeal ==
    ASSUME Agreed, ~Quiet, before' = before, First' = First, Second' = Second,
           InHand', Passed'
    PROVE  DealBooks'
  BY DEF Agreed, DealBooks, Was, HeldBefore, OfferedBefore

\* One in which nobody gives up his turn.
LEMMA SameTurn ==
    ASSUME IInv, ~Quiet, UNCHANGED <<givers, before>>,
           \A r \in Player : exch'[r].company = exch[r].company
    PROVE  /\ Giver' = Giver /\ Receiver' = Receiver
           /\ First' = First /\ Second' = Second
           /\ \A r \in Player : /\ Was(r)' = Was(r)
                                /\ HeldBefore(r)' = HeldBefore(r)
                                /\ OfferedBefore(r)' = OfferedBefore(r)
<1>1. Giver \in Player
  BY Parties
<1>2. Giver' = Giver
  BY DEF Giver
<1>3. Receiver' = Receiver
  BY <1>1, <1>2 DEF Receiver, Company
<1>4. First' = First /\ Second' = Second
  BY <1>2, <1>3 DEF First, Second
<1>5. \A r \in Player : /\ Was(r)' = Was(r)
                        /\ HeldBefore(r)' = HeldBefore(r)
                        /\ OfferedBefore(r)' = OfferedBefore(r)
  BY DEF Was, HeldBefore, OfferedBefore
<1> QED BY <1>2, <1>3, <1>4, <1>5

LEMMA PassedThen ==
    ASSUME NEW f, NEW s, First' = f, Second' = s,
           \A r \in Player \ {f, s} : exch'[r] = Was(r)' /\ Held(r)' = HeldBefore(r)',
           \E given \in SUBSET OfferedBefore(f)', taken \in SUBSET OfferedBefore(s)' :
              /\ Held(f)' = (HeldBefore(f)' \ given) \cup taken
              /\ Held(s)' = (HeldBefore(s)' \ taken) \cup given,
           purse' = IF Len(givers') = 2 THEN before'.purse
                    ELSE [before'.purse EXCEPT ![f] = @ - Was(f)'.gold,
                                               ![s] = @ + Was(f)'.gold]
    PROVE  Passed'
<1>1. Was(First)' = Was(f)' /\ Was(Second)' = Was(s)'
  BY DEF Was
<1>2. HeldBefore(First)' = HeldBefore(f)' /\ HeldBefore(Second)' = HeldBefore(s)'
  BY DEF HeldBefore
<1>3. /\ OfferedBefore(First)' = OfferedBefore(f)'
      /\ OfferedBefore(Second)' = OfferedBefore(s)'
  BY <1>1 DEF OfferedBefore
<1>4. Held(First)' = Held(f)' /\ Held(Second)' = Held(s)'
  BY DEF Held, Filled
<1>5. \A r \in Player \ {First', Second'} :
         exch'[r] = Was(r)' /\ Held(r)' = HeldBefore(r)'
  OBVIOUS
<1>6. \E given \in SUBSET OfferedBefore(First)', taken \in SUBSET OfferedBefore(Second)' :
         /\ Held(First)' = (HeldBefore(First)' \ given) \cup taken
         /\ Held(Second)' = (HeldBefore(Second)' \ taken) \cup given
  BY <1>2, <1>3, <1>4
<1>7. purse' = IF Len(givers') = 2 THEN before'.purse
               ELSE [before'.purse EXCEPT ![First'] = @ - Was(First)'.gold,
                                          ![Second'] = @ + Was(First)'.gold]
  BY <1>1
<1> QED BY <1>5, <1>6, <1>7 DEF Passed

\* One in which no item changes hands, and no gold.
LEMMA SamePassed ==
    ASSUME IInv, ~Quiet, Passed, UNCHANGED <<givers, before, purse>>,
           \A r \in Player : exch'[r].company = exch[r].company,
           \A r \in Player \ {First, Second} : exch'[r] = exch[r],
           \A r \in Player : Held(r)' = Held(r)
    PROVE  Passed'
<1>1. PICK f \in Player, s \in Player : f = First /\ s = Second
  BY Both
<1>2. /\ First' = f /\ Second' = s
      /\ \A r \in Player : /\ Was(r)' = Was(r)
                           /\ HeldBefore(r)' = HeldBefore(r)
                           /\ OfferedBefore(r)' = OfferedBefore(r)
  BY <1>1, SameTurn
<1>3. \A r \in Player \ {f, s} : exch'[r] = Was(r)' /\ Held(r)' = HeldBefore(r)'
  BY <1>1, <1>2 DEF Passed
<1>4. \E given \in SUBSET OfferedBefore(f)', taken \in SUBSET OfferedBefore(s)' :
         /\ Held(f)' = (HeldBefore(f)' \ given) \cup taken
         /\ Held(s)' = (HeldBefore(s)' \ taken) \cup given
  <2>1. \E given \in SUBSET OfferedBefore(f), taken \in SUBSET OfferedBefore(s) :
           /\ Held(f) = (HeldBefore(f) \ given) \cup taken
           /\ Held(s) = (HeldBefore(s) \ taken) \cup given
    BY <1>1 DEF Passed
  <2> QED BY <2>1, <1>2
<1>5. purse' = IF Len(givers') = 2 THEN before'.purse
               ELSE [before'.purse EXCEPT ![f] = @ - Was(f)'.gold,
                                          ![s] = @ + Was(f)'.gold]
  BY <1>1, <1>2 DEF Passed
<1> QED BY <1>2, <1>3, <1>4, <1>5, PassedThen

LEMMA CollectDeal ==
    ASSUME IInv, DealBooks, Collect
    PROVE  DealBooks'
<1>1. /\ ~Quiet /\ exch[Giver].items # <<>>
      /\ left' = Pushed(Head(exch[Giver].items))
      /\ exch' = [exch EXCEPT ![Giver].items = Tail(@), ![Giver].pos = Tail(@)]
      /\ UNCHANGED <<inv, purse, givers, before>>
  BY DEF Collect, Collected, held, cells
<1>2. Agreed /\ InHand /\ Passed
  BY <1>1 DEF DealBooks
<1>3. PICK g \in Player, f \in Player, s \in Player :
        g = Giver /\ f = First /\ s = Second
  BY <1>1, Both, Parties
<1>4. /\ exch[g] \in Side /\ exch[g] # NoExchange
      /\ Offered(g) = ToSet(exch[g].items) /\ exch[g].items \in Seq(Item)
      /\ exch \in [Player -> Side \cup {NoExchange}] /\ left \in Seq(Item)
  BY <1>1, <1>3, Parties DEF IInv, TypeOK
<1>5. PICK i \in Item : /\ i = Head(exch[g].items) /\ i \in Offered(g)
                        /\ Offered(g) = ToSet(Tail(exch[g].items)) \cup {i}
  BY <1>1, <1>3, <1>4, ToSetOfParts
<1>6. ToSet(left') = ToSet(left) \cup {i}
  BY <1>1, <1>3, <1>4, <1>5, ToSetOfParts DEF Pushed
<1>7. /\ \A r \in Player \ {g} : exch'[r] = exch[r]
      /\ exch'[g].gold = exch[g].gold /\ exch'[g].company = exch[g].company
      /\ exch'[g].items = Tail(exch[g].items)
  BY <1>1, <1>3, <1>4 DEF Side
<1>8. \A r \in Player :
        exch'[r].company = exch[r].company /\ exch'[r].gold = exch[r].gold
  BY <1>7
<1>9. /\ Giver' = Giver /\ First' = First /\ Second' = Second
      /\ \A r \in Player : /\ Was(r)' = Was(r)
                           /\ HeldBefore(r)' = HeldBefore(r)
                           /\ OfferedBefore(r)' = OfferedBefore(r)
  BY <1>1, <1>8, SameTurn
<1>10. \A r \in Player : Offered(r)' \subseteq Offered(r)
  <2> TAKE r \in Player
  <2>1. CASE r = g
    BY <2>1, <1>4, <1>5, <1>7 DEF Offered, ToSet
  <2>2. CASE r # g
    BY <2>2, <1>7 DEF Offered
  <2> QED BY <2>1, <2>2
<1>11. \A r \in Player : Held(r)' = Held(r)
  BY <1>1 DEF Held, Filled
<1>12. g \in {f, s}
  BY <1>1, <1>3, Both
<1>13. InHand'
  <2>1. /\ exch'[f].gold = Was(f)'.gold /\ exch'[s].gold = Was(s)'.gold
        /\ Offered(f)' \subseteq OfferedBefore(f)'
        /\ Offered(s)' \subseteq OfferedBefore(s)'
        /\ ToSet(left') \subseteq OfferedBefore(g)'
    <3>1. /\ exch[f].gold = Was(f).gold /\ exch[s].gold = Was(s).gold
          /\ Offered(f) \subseteq OfferedBefore(f) /\ Offered(s) \subseteq OfferedBefore(s)
          /\ ToSet(left) \subseteq OfferedBefore(g)
      BY <1>2, <1>3 DEF InHand
    <3> QED BY <3>1, <1>5, <1>6, <1>8, <1>9, <1>10, <1>12
  <2>2. First' = f /\ Second' = s /\ Giver' = g
    BY <1>3, <1>9
  <2>3. ToSet(left)' = ToSet(left')
    BY DEF ToSet
  <2> QED BY <2>1, <2>2, <2>3 DEF InHand, Was, OfferedBefore, Offered
<1>14. Passed'
  BY <1>1, <1>2, <1>3, <1>7, <1>8, <1>11, <1>12, SamePassed
<1> QED BY <1>1, <1>2, <1>9, <1>13, <1>14, SameDeal

LEMMA LeaveBehindDeal ==
    ASSUME IInv, DealBooks, LeaveBehind
    PROVE  DealBooks'
<1>1. /\ ~Quiet /\ left # <<>> /\ left' = Tail(left)
      /\ UNCHANGED <<inv, purse, exch, givers, before>>
  BY DEF LeaveBehind, held, cells
<1>2. Agreed /\ InHand /\ Passed
  BY <1>1 DEF DealBooks
<1>3. /\ Giver' = Giver /\ First' = First /\ Second' = Second
  BY <1>1, SameTurn
<1>4. \A r \in Player : Held(r)' = Held(r)
  BY <1>1 DEF Held, Filled
<1>5. ToSet(left') \subseteq ToSet(left)
  BY <1>1, NextItem
<1>6. InHand'
  <2>1. ToSet(left)' \subseteq ToSet(left)
    BY <1>5 DEF ToSet
  <2> QED BY <1>1, <1>2, <1>3, <2>1 DEF InHand, Was, OfferedBefore, Offered
<1>7. Passed'
  BY <1>1, <1>2, <1>4, SamePassed
<1> QED BY <1>1, <1>2, <1>3, <1>6, <1>7, SameDeal

\* The next item is one the giver offered; it is not one he was given.
LEMMA MoveNextDeal ==
    ASSUME IInv, DealBooks, MoveNext
    PROVE  DealBooks'
<1>1. /\ ~Quiet /\ left # <<>> /\ left' = Tail(left)
      /\ UNCHANGED <<purse, exch, givers, before>>
  BY DEF MoveNext
<1>2. Agreed /\ InHand /\ Passed
  BY <1>1 DEF DealBooks
<1>3. PICK f \in Player, s \in Player, g \in Player, q \in Player :
        f = First /\ s = Second /\ g = Giver /\ q = Receiver
  BY <1>1, Both, Parties
<1>4. /\ f # s /\ {f, s} = {g, q}
      /\ Giver' = g /\ First' = f /\ Second' = s
      /\ \A r \in Player : /\ Was(r)' = Was(r)
                           /\ HeldBefore(r)' = HeldBefore(r)
                           /\ OfferedBefore(r)' = OfferedBefore(r)
  BY <1>1, <1>3, Both, SameTurn
<1>5. PICK i \in Item : /\ i = Head(left) /\ i \in ToSet(left)
                        /\ ToSet(left') \subseteq ToSet(left)
  BY <1>1, NextItem
<1>6. \A r \in Player : Held(r)' = (Held(r) \ {i}) \cup (IF r = q THEN {i} ELSE {})
  BY <1>3, <1>5, MoveNextKeeps
<1>7. i \in OfferedBefore(g)
  BY <1>2, <1>3, <1>5 DEF InHand
<1>8. PICK given \in SUBSET OfferedBefore(f), taken \in SUBSET OfferedBefore(s) :
         /\ Held(f) = (HeldBefore(f) \ given) \cup taken
         /\ Held(s) = (HeldBefore(s) \ taken) \cup given
  BY <1>2, <1>3 DEF Passed
<1>9. /\ HeldBefore(f) \cap HeldBefore(s) = {}
      /\ OfferedBefore(f) \subseteq HeldBefore(f)
      /\ OfferedBefore(s) \subseteq HeldBefore(s)
  BY <1>2, <1>3 DEF Agreed
<1>10. i \in Held(f) \cup Held(s)
  BY <1>4, <1>7, <1>8, <1>9
<1>11. \A r \in Player \ {f, s} : Held(r)' = Held(r)
  <2> TAKE r \in Player \ {f, s}
  <2>1. i \notin Held(r)
    BY <1>10 DEF IInv, InventoryBooks
  <2> QED BY <1>4, <1>6, <2>1
<1>12. \E more \in SUBSET OfferedBefore(f), back \in SUBSET OfferedBefore(s) :
          /\ Held(f)' = (HeldBefore(f) \ more) \cup back
          /\ Held(s)' = (HeldBefore(s) \ back) \cup more
  <2>1. CASE g = f
    <3>1. q = s
      BY <1>4, <2>1
    <3>2. /\ Held(f)' = (HeldBefore(f) \ (given \cup {i})) \cup taken
          /\ Held(s)' = (HeldBefore(s) \ taken) \cup (given \cup {i})
      BY <1>4, <1>6, <1>7, <1>8, <1>9, <2>1, <3>1
    <3>3. given \cup {i} \in SUBSET OfferedBefore(f)
      BY <1>7, <2>1
    <3> QED BY <3>2, <3>3
  <2>2. CASE g = s
    <3>1. q = f
      BY <1>4, <2>2
    <3>2. /\ Held(f)' = (HeldBefore(f) \ given) \cup (taken \cup {i})
          /\ Held(s)' = (HeldBefore(s) \ (taken \cup {i})) \cup given
      BY <1>4, <1>6, <1>7, <1>8, <1>9, <2>2, <3>1
    <3>3. taken \cup {i} \in SUBSET OfferedBefore(s)
      BY <1>7, <2>2
    <3> QED BY <3>2, <3>3
  <2> QED BY <1>4, <2>1, <2>2
<1>13. InHand'
  <2>1. ToSet(left)' \subseteq ToSet(left)
    BY <1>5 DEF ToSet
  <2> QED BY <1>1, <1>2, <1>3, <1>4, <2>1 DEF InHand, Was, OfferedBefore, Offered
<1>14. Passed'
  <2>1. \A r \in Player \ {f, s} : exch'[r] = Was(r)' /\ Held(r)' = HeldBefore(r)'
    BY <1>1, <1>2, <1>3, <1>4, <1>11 DEF Passed
  <2>2. \E more \in SUBSET OfferedBefore(f)', back \in SUBSET OfferedBefore(s)' :
           /\ Held(f)' = (HeldBefore(f)' \ more) \cup back
           /\ Held(s)' = (HeldBefore(s)' \ back) \cup more
    BY <1>4, <1>12
  <2>3. purse' = IF Len(givers') = 2 THEN before'.purse
                 ELSE [before'.purse EXCEPT ![f] = @ - Was(f)'.gold,
                                            ![s] = @ + Was(f)'.gold]
    BY <1>1, <1>2, <1>3, <1>4 DEF Passed
  <2> QED BY <1>4, <2>1, <2>2, <2>3, PassedThen
<1> QED BY <1>1, <1>2, <1>3, <1>4, <1>13, <1>14, SameDeal

\* What the gold of an exchange changes: both agreed to what they have, and have room
\* for, so that PointChange does not refuse it.
LEMMA Payment ==
    ASSUME IInv, Agreed, InHand, PayOver, NEW g, NEW q, g = Giver, q = Receiver,
           purse[g] >= Was(g).gold, purse[q] + Was(g).gold <= 2 * GoldMax
    PROVE  purse' = [purse EXCEPT ![g] = @ - Was(g).gold, ![q] = @ + Was(g).gold]
<1>1. /\ ~Quiet /\ g \in Player /\ q \in Player /\ g # q
      /\ exch[g].gold \in Nat
  BY Parties DEF PayOver
<1>2. exch[g].gold = Was(g).gold
  BY <1>1, Both DEF InHand
<1>3. purse \in [Player -> 0 .. 2 * GoldMax]
  BY DEF IInv, TypeOK
<1> DEFINE gold == Was(g).gold
<1>4. purse' = [purse EXCEPT ![g] = Changed(@, -gold), ![q] = Changed(@, gold)]
  BY <1>2 DEF PayOver
<1>5. gold \in Nat /\ purse[g] \in Nat /\ purse[q] \in Nat /\ purse[g] <= 2 * GoldMax
  BY <1>1, <1>2, <1>3, ConstantTypes
<1> HIDE DEF gold
<1>6. Changed(purse[g], -gold) = purse[g] - gold
  BY <1>5, ConstantTypes DEF Changed
<1>7. Changed(purse[q], gold) = purse[q] + gold
  BY <1>5, ConstantTypes DEF Changed, gold
<1> QED BY <1>1, <1>3, <1>4, <1>6, <1>7 DEF gold

LEMMA PayOverFirstDeal ==
    ASSUME IInv, DealBooks, PayOverFirst
    PROVE  DealBooks'
<1>1. /\ ~Quiet /\ left = <<>> /\ PayOver
      /\ Len(givers) = 2 /\ givers' = Tail(givers)
      /\ UNCHANGED <<inv, exch, left, before>>
  BY DEF PayOverFirst, PayOver, cells
<1>2. Agreed /\ InHand /\ Passed
  BY <1>1 DEF DealBooks
<1>3. PICK f \in Player, s \in Player :
        /\ f = First /\ s = Second /\ f = Giver /\ s = Receiver /\ f # s
        /\ Company(s) = f
  BY <1>1, Both, Parties DEF First, Second
<1>4. givers' = <<s>>
  BY <1>1, <1>3, PayOverFirstTurn
<1>5. Giver' = s /\ Receiver' = f /\ Len(givers') = 1
  <2>1. Giver' = s /\ Len(givers') = 1
    BY <1>4 DEF Giver
  <2> QED BY <2>1, <1>1, <1>3 DEF Receiver, Company
<1>6. First' = f /\ Second' = s
  BY <1>5 DEF First, Second
<1>7. \A r \in Player : /\ Was(r)' = Was(r)
                        /\ HeldBefore(r)' = HeldBefore(r)
                        /\ OfferedBefore(r)' = OfferedBefore(r)
                        /\ Held(r)' = Held(r) /\ Offered(r)' = Offered(r)
  BY <1>1 DEF Was, HeldBefore, OfferedBefore, Held, Filled, Offered
<1>8. purse = before.purse
  BY <1>1, <1>2 DEF Passed
<1>9. purse' = [purse EXCEPT ![f] = @ - Was(f).gold, ![s] = @ + Was(f).gold]
  <2>1. /\ before.purse[f] >= Was(f).gold /\ before.purse[s] + Was(f).gold <= GoldMax
    BY <1>2, <1>3 DEF Agreed
  <2>2. purse[f] >= Was(f).gold /\ purse[s] + Was(f).gold <= 2 * GoldMax
    <3>1. /\ purse[s] \in Nat /\ exch[f].gold \in Nat /\ exch[f].gold = Was(f).gold
      BY <1>1, <1>2, <1>3, Parties, ConstantTypes DEF IInv, TypeOK, InHand
    <3> QED BY <2>1, <3>1, <1>8, ConstantTypes
  <2> QED BY <2>2, <1>1, <1>2, <1>3, Payment
<1>10. Passed'
  <2>1. \A r \in Player \ {f, s} : exch'[r] = Was(r)' /\ Held(r)' = HeldBefore(r)'
    BY <1>1, <1>2, <1>3, <1>7 DEF Passed
  <2>2. \E given \in SUBSET OfferedBefore(f)', taken \in SUBSET OfferedBefore(s)' :
           /\ Held(f)' = (HeldBefore(f)' \ given) \cup taken
           /\ Held(s)' = (HeldBefore(s)' \ taken) \cup given
    <3>1. \E given \in SUBSET OfferedBefore(f), taken \in SUBSET OfferedBefore(s) :
             /\ Held(f) = (HeldBefore(f) \ given) \cup taken
             /\ Held(s) = (HeldBefore(s) \ taken) \cup given
      BY <1>2, <1>3 DEF Passed
    <3> QED BY <3>1, <1>7
  <2>3. purse' = [before'.purse EXCEPT ![f] = @ - Was(f)'.gold,
                                       ![s] = @ + Was(f)'.gold]
    BY <1>1, <1>7, <1>8, <1>9
  <2> QED BY <2>1, <2>2, <2>3, <1>5, <1>6, PassedThen
<1>11. InHand'
  <2>1. ToSet(left)' = {}
    BY <1>1 DEF ToSet
  <2> QED BY <2>1, <1>1, <1>2, <1>3, <1>6 DEF InHand, Was, OfferedBefore, Offered
<1> QED BY <1>1, <1>2, <1>3, <1>6, <1>10, <1>11, SameDeal

-----------------------------------------------------------------------------
(***************************************************************************)
(* What Trade sees.                                                         *)
(***************************************************************************)

LEMMA View ==
    /\ Quiet => /\ TradeHolds = [p \in Player |-> Held(p)]
                /\ TradePurse = purse
                /\ TradeDeal = [p \in Player |-> TradeSide(exch[p])]
    /\ ~Quiet => /\ TradeHolds = [p \in Player |-> HeldBefore(p)]
                 /\ TradePurse = before.purse
                 /\ TradeDeal = [p \in Player |-> TradeSide(Was(p))]
  BY DEF TradeHolds, TradePurse, TradeDeal, HeldBefore, Was

LEMMA ViewThen ==
    /\ Quiet' => /\ TradeHolds' = [p \in Player |-> Held(p)']
                 /\ TradePurse' = purse'
                 /\ TradeDeal' = [p \in Player |-> TradeSide(exch'[p])]
    /\ ~Quiet' => /\ TradeHolds' = [p \in Player |-> HeldBefore(p)']
                  /\ TradePurse' = before'.purse
                  /\ TradeDeal' = [p \in Player |-> TradeSide(Was(p)')]
  BY DEF TradeHolds, TradePurse, TradeDeal, HeldBefore, Was, TradeSide

\* An exchange, as Trade sees it.
Told == [with : Player, items : SUBSET Item, gold : Nat, agreed : BOOLEAN]

LEMMA SideView ==
    ASSUME NEW e \in Side
    PROVE  /\ TradeSide(e) = [with |-> e.company, items |-> ToSet(e.items),
                              gold |-> e.gold, agreed |-> e.accept]
           /\ TradeSide(e) # NoExchange /\ TradeSide(e) \in Told
           /\ TradeSide(e).with = e.company /\ TradeSide(e).items = ToSet(e.items)
           /\ TradeSide(e).gold = e.gold /\ TradeSide(e).agreed = e.accept
<1>1. e # NoExchange
  BY ConstantTypes
<1>2. TradeSide(e) = [with |-> e.company, items |-> ToSet(e.items),
                      gold |-> e.gold, agreed |-> e.accept]
  BY <1>1 DEF TradeSide
<1>3. ToSet(e.items) \in SUBSET Item
  <2>1. e.items \in Seq(Item)
    BY DEF Side
  <2> QED BY <2>1, ToSetOfParts DEF ToSet
<1>4. TradeSide(e) \in Told
  BY <1>2, <1>3 DEF Side, Told
<1> QED BY <1>2, <1>4, ExchangeAssumption DEF Told

LEMMA SameSide ==
    ASSUME NEW side \in Told, NEW other \in Told,
           side.with = other.with, side.items = other.items, side.gold = other.gold,
           side.agreed = other.agreed
    PROVE  side = other
  BY DEF Told

LEMMA ChangedSide ==
    ASSUME NEW side \in Told, NEW items \in SUBSET Item, NEW gold \in Nat,
           NEW agreed \in BOOLEAN
    PROVE  /\ [side EXCEPT !.items = items, !.gold = gold, !.agreed = agreed]
                = [with |-> side.with, items |-> items, gold |-> gold, agreed |-> agreed]
           /\ [side EXCEPT !.agreed = agreed]
                = [with |-> side.with, items |-> side.items, gold |-> side.gold,
                   agreed |-> agreed]
<1> DEFINE changed == [side EXCEPT !.items = items, !.gold = gold, !.agreed = agreed]
           new == [with |-> side.with, items |-> items, gold |-> gold, agreed |-> agreed]
<1>1. /\ changed \in Told /\ changed.with = side.with /\ changed.items = items
      /\ changed.gold = gold /\ changed.agreed = agreed
  BY DEF Told
<1>2. /\ new \in Told /\ new.with = side.with /\ new.items = items
      /\ new.gold = gold /\ new.agreed = agreed
  BY DEF Told
<1>3. [side EXCEPT !.agreed = agreed]
         = [with |-> side.with, items |-> side.items, gold |-> side.gold, agreed |-> agreed]
  BY DEF Told
<1> HIDE DEF changed, new
<1>4. changed = new
  BY <1>1, <1>2, SameSide
<1> QED BY <1>3, <1>4 DEF changed, new

LEMMA NoSideView == TradeSide(NoExchange) = NoExchange
  BY DEF TradeSide

\* One who is in an exchange, as Trade sees him.
LEMMA DealView ==
    ASSUME IInv, Quiet, NEW p \in Player
    PROVE  /\ Deals!InDeal(p) <=> exch[p] # NoExchange
           /\ Deals!InDeal(p) =>
                 /\ Deals!With(p) = Company(p)
                 /\ TradeDeal[p].items = Offered(p)
                 /\ TradeDeal[p].gold = exch[p].gold
                 /\ TradeDeal[p].agreed = exch[p].accept
<1>1. TradeDeal[p] = TradeSide(exch[p])
  BY View
<1>2. CASE exch[p] = NoExchange
  BY <1>1, <1>2, NoSideView DEF Deals!InDeal
<1>3. CASE exch[p] # NoExchange
  <2>1. exch[p] \in Side
    BY <1>3 DEF IInv, TypeOK
  <2>2. /\ TradeDeal[p] = [with |-> exch[p].company, items |-> ToSet(exch[p].items),
                           gold |-> exch[p].gold, agreed |-> exch[p].accept]
        /\ TradeDeal[p] # NoExchange
    BY <1>1, <2>1, SideView
  <2> QED BY <1>3, <2>2 DEF Deals!InDeal, Deals!With, Company, Offered
<1> QED BY <1>2, <1>3

\* Who does not see a change: what is said, and moves within an inventory.
LEMMA SameHolds ==
    ASSUME Quiet, Quiet', \A r \in Player : Held(r)' = Held(r)
    PROVE  TradeHolds' = TradeHolds
  BY View, ViewThen

LEMMA SamePurse ==
    ASSUME Quiet, Quiet', purse' = purse
    PROVE  TradePurse' = TradePurse
  BY View, ViewThen

LEMMA SameExchanges ==
    ASSUME Quiet, Quiet', exch' = exch
    PROVE  TradeDeal' = TradeDeal
  BY View, ViewThen

-----------------------------------------------------------------------------
(***************************************************************************)
(* Steps of the exchange window, and the steps of Trade they are.           *)
(***************************************************************************)

LEMMA ExchangeStartOpens ==
    ASSUME IInv, NEW p \in Player, NEW q \in Player, ExchangeStart(p, q)
    PROVE  Deals!Next
<1> DEFINE New(r) == [company |-> r, accept |-> FALSE, items |-> <<>>, pos |-> <<>>,
                      gold |-> 0]
           Fresh(r) == [with |-> r, items |-> {}, gold |-> 0, agreed |-> FALSE]
<1>1. /\ Quiet /\ p # q /\ exch[p] = NoExchange /\ exch[q] = NoExchange
      /\ exch' = [exch EXCEPT ![p] = New(q), ![q] = New(p)]
      /\ UNCHANGED <<inv, purse, givers>>
  BY DEF ExchangeStart, Event, cells, done
<1>2. Quiet' /\ exch \in [Player -> Side \cup {NoExchange}]
  BY <1>1 DEF Quiet, IInv, TypeOK
<1>3. ASSUME NEW r \in Player
      PROVE  TradeSide(New(r)) = Fresh(r)
  <2>1. New(r) \in Side
    BY DEF Side
  <2>2. ToSet(New(r).items) = {}
    BY DEF ToSet
  <2> QED BY <2>1, <2>2, SideView
<1>4. /\ TradeDeal = [r \in Player |-> TradeSide(exch[r])]
      /\ TradeDeal' = [r \in Player |-> TradeSide(exch'[r])]
  BY <1>1, <1>2, View, ViewThen
<1>5. \A r \in Player :
        exch'[r] = IF r = q THEN New(p) ELSE IF r = p THEN New(q) ELSE exch[r]
  BY <1>1, <1>2
<1> HIDE DEF New
<1>6. TradeDeal' = [TradeDeal EXCEPT ![p] = Fresh(q), ![q] = Fresh(p)]
  BY <1>3, <1>4, <1>5
<1>7. ~Deals!InDeal(p) /\ ~Deals!InDeal(q)
  BY <1>1, DealView
<1>8. Deals!Open(p, q)
  BY <1>1, <1>6, <1>7 DEF Deals!Open
<1>9. TradeHolds' = TradeHolds /\ TradePurse' = TradePurse
  <2>1. \A r \in Player : Held(r)' = Held(r)
    BY <1>1 DEF Held, Filled
  <2> QED BY <2>1, <1>1, <1>2, SameHolds, SamePurse
<1> QED BY <1>8, <1>9 DEF Deals!Next, Deals!Talk

\* An offer that changes takes back both agreements.
LEMMA OfferChanges ==
    ASSUME IInv, Quiet, Quiet', NEW p \in Player, exch[p] # NoExchange,
           ~exch[Company(p)].accept,
           NEW mine \in Side, NEW items \in SUBSET Item, NEW gold \in Nat,
           mine.company = Company(p), ~mine.accept, ToSet(mine.items) = items,
           mine.gold = gold,
           exch' = [Unaccepted(p) EXCEPT ![p] = mine]
    PROVE  Deals!Change(p, items, gold)
<1>1. PICK q \in Player : q = Company(p)
  BY Sides DEF IInv, ExchangeBooks
<1>2. /\ q # p /\ exch[p] \in Side /\ exch[q] \in Side /\ exch[q] # NoExchange
      /\ exch \in [Player -> Side \cup {NoExchange}]
  BY <1>1, Sides DEF IInv, ExchangeBooks, TypeOK
<1> DEFINE other == [exch[q] EXCEPT !.accept = FALSE]
<1>3. /\ other \in Side
      /\ other.company = exch[q].company /\ other.items = exch[q].items
      /\ other.gold = exch[q].gold /\ ~other.accept
  BY <1>2 DEF Side
<1>4. \A r \in Player :
        exch'[r] = IF r = p THEN mine ELSE IF r = q THEN other ELSE exch[r]
  BY <1>1, <1>2 DEF Unaccepted
<1> HIDE DEF other
<1>5. /\ TradeDeal = [r \in Player |-> TradeSide(exch[r])]
      /\ TradeDeal' = [r \in Player |-> TradeSide(exch'[r])]
  BY View, ViewThen
<1>6. /\ Deals!With(p) = q
      /\ TradeDeal[q].agreed = exch[q].accept
  BY <1>1, <1>2, DealView
<1>7. TradeSide(mine) = [TradeSide(exch[p]) EXCEPT !.items = items, !.gold = gold,
                                                   !.agreed = FALSE]
  <2>1. mine.accept = FALSE
    BY DEF Side
  <2>2. TradeSide(mine) = [with |-> q, items |-> items, gold |-> gold, agreed |-> FALSE]
    BY <1>1, <2>1, SideView
  <2>3. PICK side \in Told : side = TradeSide(exch[p]) /\ side.with = q
    BY <1>1, <1>2, SideView DEF Company
  <2>4. [side EXCEPT !.items = items, !.gold = gold, !.agreed = FALSE]
           = [with |-> side.with, items |-> items, gold |-> gold, agreed |-> FALSE]
    BY ChangedSide, Zenon
  <2> QED BY <2>2, <2>3, <2>4, Zenon
<1>8. TradeSide(other) = [TradeSide(exch[q]) EXCEPT !.agreed = FALSE]
  <2>1. other.accept = FALSE
    BY <1>3 DEF Side
  <2>2. TradeSide(other) = [with |-> exch[q].company, items |-> ToSet(exch[q].items),
                            gold |-> exch[q].gold, agreed |-> FALSE]
    BY <1>3, <2>1, SideView
  <2>3. /\ TradeSide(exch[q]) \in Told
        /\ TradeSide(exch[q]).with = exch[q].company
        /\ TradeSide(exch[q]).items = ToSet(exch[q].items)
        /\ TradeSide(exch[q]).gold = exch[q].gold
    BY <1>2, SideView
  <2> QED BY <2>2, <2>3, ChangedSide
<1>9. TradeDeal' = [TradeDeal EXCEPT ![p].items = items, ![p].gold = gold,
                                     ![p].agreed = FALSE, ![q].agreed = FALSE]
  <2> DEFINE old == [r \in Player |-> TradeSide(exch[r])]
             new == [old EXCEPT ![p].items = items, ![p].gold = gold,
                                ![p].agreed = FALSE, ![q].agreed = FALSE]
  <2>1. DOMAIN new = Player /\ new = [r \in Player |-> new[r]]
    OBVIOUS
  <2>2. \A r \in Player :
          new[r] = IF r = p THEN TradeSide(mine)
                   ELSE IF r = q THEN TradeSide(other) ELSE TradeSide(exch[r])
    BY <1>2, <1>7, <1>8
  <2>3. \A r \in Player : TradeSide(exch'[r]) = new[r]
    BY <1>4, <2>2
  <2> QED BY <1>5, <2>1, <2>3
<1> QED BY <1>1, <1>6, <1>9 DEF Deals!Change

\* Nothing is seen but a change of the deal.
LEMMA OnlySaid ==
    ASSUME Quiet, UNCHANGED <<inv, purse, givers>>
    PROVE  Quiet' /\ TradeHolds' = TradeHolds /\ TradePurse' = TradePurse
<1>1. Quiet'
  BY DEF Quiet
<1>2. \A r \in Player : Held(r)' = Held(r)
  BY DEF Held, Filled
<1> QED BY <1>1, <1>2, SameHolds, SamePurse

LEMMA AddItemOffers ==
    ASSUME IInv, NEW p \in Player, NEW c \in Cell, AddItem(p, c)
    PROVE  Deals!Next
<1>1. /\ Quiet /\ exch[p] # NoExchange /\ ~exch[Company(p)].accept
      /\ exch' = [Unaccepted(p) EXCEPT ![p].items = Append(@, inv[p][c]),
                                       ![p].pos = Append(@, c)]
      /\ UNCHANGED <<inv, purse, givers>>
  BY DEF AddItem, MayOffer, held, cells, done
<1>2. PICK i \in Item : i = inv[p][c] /\ i \in Held(p)
  BY ConstantTypes DEF AddItem, Held, Filled
<1>3. /\ exch[p] \in Side /\ Company(p) \in Player /\ Company(p) # p
      /\ Offered(p) = ToSet(exch[p].items)
      /\ exch \in [Player -> Side \cup {NoExchange}]
  BY <1>1, Sides DEF IInv, ExchangeBooks, TypeOK
<1>4. exch[p].items \in Seq(Item) /\ exch[p].pos \in Seq(Cell) /\ exch[p].gold \in Nat
  BY <1>3 DEF Side
<1> DEFINE mine == [exch[p] EXCEPT !.accept = FALSE, !.items = Append(@, i),
                                   !.pos = Append(@, c)]
<1>5. Append(exch[p].items, i) \in Seq(Item) /\ Append(exch[p].pos, c) \in Seq(Cell)
  BY <1>4, Appended
<1>6. /\ mine \in Side /\ mine.company = Company(p) /\ ~mine.accept
      /\ mine.items = Append(exch[p].items, i) /\ mine.gold = exch[p].gold
  BY <1>3, <1>5 DEF Side, Company
<1>7. exch' = [Unaccepted(p) EXCEPT ![p] = mine]
  BY <1>1, <1>2, <1>3 DEF Unaccepted, Side
<1> HIDE DEF mine
<1>8. ToSet(mine.items) = Offered(p) \cup {i} /\ Offered(p) \cup {i} \in SUBSET Item
  <2>1. ToSet(Append(exch[p].items, i)) = ToSet(exch[p].items) \cup {i}
    BY <1>4, ToSetOfParts
  <2>2. ToSet(exch[p].items) \subseteq Item
    BY <1>4 DEF ToSet
  <2> QED BY <1>3, <1>6, <2>1, <2>2
<1>9. Quiet' /\ TradeHolds' = TradeHolds /\ TradePurse' = TradePurse
  BY <1>1, OnlySaid
<1>10. Deals!Change(p, Offered(p) \cup {i}, exch[p].gold)
  BY <1>1, <1>4, <1>6, <1>7, <1>8, <1>9, OfferChanges
<1>11. Deals!InDeal(p) /\ TradeDeal[p].items = Offered(p) /\ TradeDeal[p].gold = exch[p].gold
  BY <1>1, DealView
<1>12. i \in TradeHolds[p]
  BY <1>1, <1>2, View
<1>13. Deals!OfferItem(p, i)
  BY <1>10, <1>11, <1>12 DEF Deals!OfferItem
<1> QED BY <1>9, <1>11, <1>13 DEF Deals!Next, Deals!Talk

LEMMA AddGoldOffers ==
    ASSUME IInv, NEW p \in Player, NEW gold \in 1 .. GoldMax, AddGold(p, gold)
    PROVE  Deals!Next
<1>1. /\ Quiet /\ exch[p] # NoExchange /\ ~exch[Company(p)].accept
      /\ purse[p] >= gold /\ exch[p].gold = 0
      /\ exch' = [Unaccepted(p) EXCEPT ![p].gold = gold]
      /\ UNCHANGED <<inv, purse, givers>>
  BY DEF AddGold, MayOffer, held, cells, done
<1>2. /\ exch[p] \in Side /\ Company(p) \in Player /\ Company(p) # p
      /\ Offered(p) = ToSet(exch[p].items)
      /\ exch \in [Player -> Side \cup {NoExchange}] /\ gold \in Nat
  BY <1>1, Sides, ConstantTypes DEF IInv, ExchangeBooks, TypeOK
<1> DEFINE mine == [exch[p] EXCEPT !.accept = FALSE, !.gold = gold]
<1>3. /\ mine \in Side /\ mine.company = Company(p) /\ ~mine.accept
      /\ mine.items = exch[p].items /\ mine.gold = gold
  BY <1>2 DEF Side, Company
<1>4. exch' = [Unaccepted(p) EXCEPT ![p] = mine]
  BY <1>1, <1>2 DEF Unaccepted, Side
<1> HIDE DEF mine
<1>5. ToSet(mine.items) = Offered(p) /\ Offered(p) \in SUBSET Item
  <2>1. exch[p].items \in Seq(Item)
    BY <1>2 DEF Side
  <2>2. ToSet(exch[p].items) \subseteq Item
    BY <2>1 DEF ToSet
  <2> QED BY <1>2, <1>3, <2>2
<1>6. Quiet' /\ TradeHolds' = TradeHolds /\ TradePurse' = TradePurse
  BY <1>1, OnlySaid
<1>7. Deals!Change(p, Offered(p), gold)
  BY <1>1, <1>2, <1>3, <1>4, <1>5, <1>6, OfferChanges
<1>8. Deals!InDeal(p) /\ TradeDeal[p].items = Offered(p) /\ TradeDeal[p].gold = exch[p].gold
  BY <1>1, DealView
<1>9. gold \in 1 .. TradePurse[p]
  <2>1. TradePurse[p] = purse[p] /\ purse[p] \in Nat
    BY <1>1, View, ConstantTypes DEF IInv, TypeOK
  <2> QED BY <1>1, <2>1
<1>10. Deals!OfferGold(p, gold)
  BY <1>1, <1>7, <1>8 DEF Deals!OfferGold
<1> QED BY <1>6, <1>8, <1>9, <1>10 DEF Deals!Next, Deals!Talk

LEMMA AcceptFirstAgrees ==
    ASSUME IInv, NEW p \in Player, AcceptFirst(p)
    PROVE  Deals!Next
<1>1. /\ Quiet /\ exch[p] # NoExchange /\ ~exch[Company(p)].accept
      /\ exch' = [exch EXCEPT ![p].accept = TRUE]
      /\ UNCHANGED <<inv, purse, givers>>
  BY DEF AcceptFirst, MayAccept, held, cells, done
<1>2. PICK q \in Player : q = Company(p)
  BY <1>1, Sides DEF IInv, ExchangeBooks
<1>3. /\ exch[p] \in Side /\ exch[q] # NoExchange
      /\ exch \in [Player -> Side \cup {NoExchange}]
  BY <1>1, <1>2, Sides DEF IInv, ExchangeBooks, TypeOK
<1> DEFINE mine == [exch[p] EXCEPT !.accept = TRUE]
<1>4. /\ mine \in Side /\ mine.company = exch[p].company /\ mine.accept = TRUE
      /\ mine.items = exch[p].items /\ mine.gold = exch[p].gold
  BY <1>3 DEF Side
<1>5. \A r \in Player : exch'[r] = IF r = p THEN mine ELSE exch[r]
  BY <1>1, <1>3
<1> HIDE DEF mine
<1>6. Quiet' /\ TradeHolds' = TradeHolds /\ TradePurse' = TradePurse
  BY <1>1, OnlySaid
<1>7. /\ TradeDeal = [r \in Player |-> TradeSide(exch[r])]
      /\ TradeDeal' = [r \in Player |-> TradeSide(exch'[r])]
  BY <1>1, <1>6, View, ViewThen
<1>8. TradeSide(mine) = [TradeSide(exch[p]) EXCEPT !.agreed = TRUE]
  <2>1. /\ TradeSide(mine) = [with |-> exch[p].company, items |-> ToSet(exch[p].items),
                              gold |-> exch[p].gold, agreed |-> TRUE]
        /\ TradeSide(exch[p]) \in Told
        /\ TradeSide(exch[p]).with = exch[p].company
        /\ TradeSide(exch[p]).items = ToSet(exch[p].items)
        /\ TradeSide(exch[p]).gold = exch[p].gold
    BY <1>3, <1>4, SideView
  <2> QED BY <2>1, ChangedSide
<1>9. TradeDeal' = [TradeDeal EXCEPT ![p].agreed = TRUE]
  BY <1>5, <1>7, <1>8
<1>10. /\ Deals!InDeal(p) /\ Deals!With(p) = q
       /\ TradeDeal[q].agreed = exch[q].accept
  BY <1>1, <1>2, <1>3, DealView
<1>11. Deals!Agree(p)
  BY <1>1, <1>2, <1>9, <1>10 DEF Deals!Agree
<1> QED BY <1>6, <1>10, <1>11 DEF Deals!Next, Deals!Talk

\* An exchange that ends is a deal that ends.
LEMMA CloseCloses ==
    ASSUME IInv, NEW p \in Player, exch[p] # NoExchange, Close(p), Quiet'
    PROVE  TradeDeal' = [r \in Player |-> IF r \in {p, Company(p)} THEN NoExchange
                                          ELSE TradeSide(exch[r])]
<1>1. Company(p) \in Player /\ exch \in [Player -> Side \cup {NoExchange}]
  BY Sides DEF IInv, ExchangeBooks, TypeOK
<1>2. \A r \in Player :
        exch'[r] = IF r \in {p, Company(p)} THEN NoExchange ELSE exch[r]
  BY <1>1 DEF Close
<1> QED BY <1>2, ViewThen, NoSideView

LEMMA CancelCallsOff ==
    ASSUME IInv, NEW p \in Player, Cancel(p) \/ AcceptInVain(p)
    PROVE  Deals!Next
<1>1. /\ Quiet /\ exch[p] # NoExchange /\ Close(p)
      /\ UNCHANGED <<inv, purse, givers>>
  BY DEF Cancel, AcceptInVain, MayAccept, held, cells, done
<1>2. PICK q \in Player : q = Company(p)
  BY <1>1, Sides DEF IInv, ExchangeBooks
<1>3. Quiet' /\ TradeHolds' = TradeHolds /\ TradePurse' = TradePurse
  BY <1>1, OnlySaid
<1>4. TradeDeal' = [r \in Player |-> IF r \in {p, q} THEN NoExchange
                                     ELSE TradeSide(exch[r])]
  BY <1>1, <1>2, <1>3, CloseCloses
<1>5. TradeDeal = [r \in Player |-> TradeSide(exch[r])]
  BY <1>1, View
<1>6. Deals!InDeal(p) /\ Deals!With(p) = q
  BY <1>1, <1>2, DealView
<1>7. TradeDeal' = [TradeDeal EXCEPT ![p] = NoExchange, ![q] = NoExchange]
  BY <1>4, <1>5
<1>8. Deals!CallOff(p)
  BY <1>6, <1>7 DEF Deals!CallOff, Deals!Closed
<1> QED BY <1>3, <1>6, <1>8 DEF Deals!Next, Deals!Talk

-----------------------------------------------------------------------------
(***************************************************************************)
(* Done: nothing is seen of it before its last step.                        *)
(***************************************************************************)

LEMMA AcceptBothUnseen ==
    ASSUME IInv, NEW p \in Player, AcceptBoth(p)
    PROVE  UNCHANGED Deals!vars
<1>1. /\ Quiet /\ givers' = <<p, Company(p)>>
      /\ before' = [inv |-> inv, purse |-> purse, exch |-> exch]
  BY DEF AcceptBoth, MayAccept
<1>2. ~Quiet'
  BY <1>1 DEF Quiet
<1>3. before'.inv = inv /\ before'.purse = purse /\ before'.exch = exch
  BY <1>1
<1>4. \A r \in Player : HeldBefore(r)' = Held(r) /\ Was(r)' = exch[r]
  BY <1>3 DEF HeldBefore, Was, Held, Filled
<1>5. /\ TradeHolds' = TradeHolds /\ TradePurse' = TradePurse /\ TradeDeal' = TradeDeal
  BY <1>1, <1>2, <1>3, <1>4, View, ViewThen
<1> QED BY <1>5 DEF Deals!vars

LEMMA DoneUnseen ==
    ASSUME ~Quiet, ~Quiet', before' = before
    PROVE  UNCHANGED Deals!vars
<1>1. \A r \in Player : HeldBefore(r)' = HeldBefore(r) /\ Was(r)' = Was(r)
  BY DEF HeldBefore, Was
<1>2. /\ TradeHolds' = TradeHolds /\ TradePurse' = TradePurse /\ TradeDeal' = TradeDeal
  BY <1>1, View, ViewThen
<1> QED BY <1>2 DEF Deals!vars

\* The last step of Done is the whole exchange.
LEMMA PayOverSecondSettles ==
    ASSUME IInv, DealBooks, PayOverSecond
    PROVE  Deals!Next
<1>1. /\ ~Quiet /\ PayOver /\ Len(givers) = 1
      /\ givers' = <<>> /\ Close(Giver) /\ UNCHANGED inv
  BY DEF PayOverSecond, PayOver, cells
<1>2. Agreed /\ InHand /\ Passed /\ Quiet'
  BY <1>1 DEF DealBooks, Quiet
<1>3. PICK f \in Player, s \in Player :
        /\ f = First /\ s = Second /\ s = Giver /\ f = Receiver /\ f # s
        /\ Company(s) = f /\ exch[s] # NoExchange
  BY <1>1, Both, Parties DEF First, Second
<1> DEFINE old == before.purse
<1>4. /\ old \in [Player -> Nat] /\ before.exch \in [Player -> Side \cup {NoExchange}]
      /\ Was(f) # NoExchange /\ Was(f).company = s
      /\ Was(s) # NoExchange /\ Was(s).company = f /\ Was(s).accept
      /\ HeldBefore(f) \cap HeldBefore(s) = {}
      /\ OfferedBefore(f) \subseteq HeldBefore(f) /\ OfferedBefore(s) \subseteq HeldBefore(s)
      /\ Was(f).gold <= old[f] /\ Was(s).gold <= old[s]
      /\ old[s] + Was(f).gold <= GoldMax /\ old[f] + Was(s).gold <= GoldMax
  BY <1>2, <1>3 DEF Agreed
<1>5. Was(f) \in Side /\ Was(s) \in Side /\ Was(f).gold \in Nat /\ Was(s).gold \in Nat
  BY <1>4 DEF Was, Side
<1>6. /\ TradeHolds = [r \in Player |-> HeldBefore(r)]
      /\ TradePurse = old
      /\ TradeDeal = [r \in Player |-> TradeSide(Was(r))]
  BY <1>1, View
<1>7. /\ Deals!InDeal(f) /\ Deals!With(f) = s
      /\ TradeDeal[f].items = OfferedBefore(f) /\ TradeDeal[f].gold = Was(f).gold
      /\ TradeDeal[s].items = OfferedBefore(s) /\ TradeDeal[s].gold = Was(s).gold
      /\ TradeDeal[s].agreed
  BY <1>4, <1>5, <1>6, SideView DEF Deals!InDeal, Deals!With, OfferedBefore
<1>8. purse = [old EXCEPT ![f] = @ - Was(f).gold, ![s] = @ + Was(f).gold]
  BY <1>1, <1>2, <1>3 DEF Passed
<1> HIDE DEF old
<1>9. /\ purse[f] = old[f] - Was(f).gold /\ purse[s] = old[s] + Was(f).gold
      /\ old[f] \in Nat /\ old[s] \in Nat
  BY <1>3, <1>4, <1>8
<1>10. purse' = [purse EXCEPT ![s] = @ - Was(s).gold, ![f] = @ + Was(s).gold]
  <2>1. purse[s] >= Was(s).gold /\ purse[f] + Was(s).gold <= 2 * GoldMax
    BY <1>4, <1>5, <1>9, ConstantTypes
  <2> QED BY <2>1, <1>1, <1>2, <1>3, Payment
<1>11. TradePurse' = [old EXCEPT ![f] = @ - Was(f).gold + Was(s).gold,
                                 ![s] = @ - Was(s).gold + Was(f).gold]
  <2> DEFINE new == [old EXCEPT ![f] = @ - Was(f).gold + Was(s).gold,
                                ![s] = @ - Was(s).gold + Was(f).gold]
  <2>1. TradePurse' = purse'
    BY <1>2, ViewThen
  <2>2. DOMAIN purse' = Player /\ purse' = [r \in Player |-> purse'[r]]
    BY <1>4, <1>8, <1>10
  <2>3. DOMAIN new = Player /\ new = [r \in Player |-> new[r]]
    BY <1>4
  <2>4. \A r \in Player \ {f, s} : purse'[r] = old[r] /\ new[r] = old[r]
    BY <1>4, <1>8, <1>10
  <2>5. /\ purse'[f] = purse[f] + Was(s).gold /\ purse'[s] = purse[s] - Was(s).gold
        /\ new[f] = old[f] - Was(f).gold + Was(s).gold
        /\ new[s] = old[s] - Was(s).gold + Was(f).gold
    BY <1>3, <1>4, <1>8, <1>10
  <2>6. purse'[f] = new[f] /\ purse'[s] = new[s]
    BY <2>5, <1>5, <1>9
  <2> HIDE DEF new
  <2>7. purse' = new
    BY <2>2, <2>3, <2>4, <2>6
  <2> QED BY <2>1, <2>7 DEF new
<1>12. \E given \in SUBSET OfferedBefore(f), taken \in SUBSET OfferedBefore(s) :
          TradeHolds' = [TradeHolds EXCEPT ![f] = (@ \ given) \cup taken,
                                           ![s] = (@ \ taken) \cup given]
  <2>1. PICK given \in SUBSET OfferedBefore(f), taken \in SUBSET OfferedBefore(s) :
           /\ Held(f) = (HeldBefore(f) \ given) \cup taken
           /\ Held(s) = (HeldBefore(s) \ taken) \cup given
    BY <1>2, <1>3 DEF Passed
  <2>2. TradeHolds' = [r \in Player |-> Held(r)]
    <3>1. \A r \in Player : Held(r)' = Held(r)
      BY <1>1 DEF Held, Filled
    <3> QED BY <3>1, <1>2, ViewThen
  <2>3. \A r \in Player \ {f, s} : Held(r) = HeldBefore(r)
    BY <1>2, <1>3 DEF Passed
  <2>4. [r \in Player |-> Held(r)]
           = [TradeHolds EXCEPT ![f] = (@ \ given) \cup taken,
                                ![s] = (@ \ taken) \cup given]
    BY <2>1, <2>3, <1>3, <1>6
  <2> QED BY <2>2, <2>4
<1>13. TradeDeal' = [TradeDeal EXCEPT ![f] = NoExchange, ![s] = NoExchange]
  <2>1. TradeDeal' = [r \in Player |-> IF r \in {s, f} THEN NoExchange
                                       ELSE TradeSide(exch[r])]
    BY <1>1, <1>2, <1>3, CloseCloses
  <2>2. \A r \in Player \ {f, s} : exch[r] = Was(r)
    BY <1>2, <1>3 DEF Passed
  <2> QED BY <2>1, <2>2, <1>6
<1>14. Deals!Settle(f)
  <2>1. /\ TradeDeal[s].agreed
        /\ TradeDeal[f].items \subseteq TradeHolds[f]
        /\ TradeDeal[s].items \subseteq TradeHolds[s]
        /\ TradeDeal[f].gold <= TradePurse[f] /\ TradeDeal[s].gold <= TradePurse[s]
        /\ TradePurse[s] + TradeDeal[f].gold <= GoldMax
        /\ TradePurse[f] + TradeDeal[s].gold <= GoldMax
    BY <1>4, <1>6, <1>7
  <2>2. \E given \in SUBSET TradeDeal[f].items, taken \in SUBSET TradeDeal[s].items :
           TradeHolds' = [TradeHolds EXCEPT ![f] = (@ \ given) \cup taken,
                                            ![s] = (@ \ taken) \cup given]
    BY <1>7, <1>12
  <2>3. TradePurse' = [TradePurse EXCEPT ![f] = @ - TradeDeal[f].gold + TradeDeal[s].gold,
                                         ![s] = @ - TradeDeal[s].gold + TradeDeal[f].gold]
    BY <1>6, <1>7, <1>11
  <2>4. TradeDeal' = Deals!Closed(f)
    BY <1>7, <1>13 DEF Deals!Closed
  <2> QED BY <1>7, <2>1, <2>2, <2>3, <2>4, Zenon DEF Deals!Settle
<1> QED BY <1>14 DEF Deals!Next

-----------------------------------------------------------------------------
(***************************************************************************)
(* What happens beside the exchanges.                                       *)
(***************************************************************************)

\* One of them has fewer items, or what he had in another order.
LEMMA HeldLost ==
    ASSUME Quiet, UNCHANGED <<purse, exch, givers>>, NEW p \in Player,
           Held(p)' \subseteq Held(p), \A r \in Player \ {p} : Held(r)' = Held(r)
    PROVE  Deals!Next
<1>1. Quiet'
  BY DEF Quiet
<1>2. /\ TradeHolds = [r \in Player |-> Held(r)]
      /\ TradeHolds' = [r \in Player |-> Held(r)']
  BY <1>1, View, ViewThen
<1>3. /\ TradeHolds' = [TradeHolds EXCEPT ![p] = TradeHolds'[p]]
      /\ TradeHolds'[p] \subseteq TradeHolds[p]
  BY <1>2
<1>4. TradePurse' = TradePurse /\ TradeDeal' = TradeDeal
  BY <1>1, SamePurse, SameExchanges
<1>5. Deals!Lose(p)
  BY <1>3, <1>4 DEF Deals!Lose
<1> QED BY <1>4, <1>5 DEF Deals!Next, Deals!Elsewhere

LEMMA MovesLose ==
    ASSUME IInv, NEW p \in Player, NEW c \in Cell, NEW d \in Cell,
           MoveItem(p, c, d) \/ SwapItems(p, c, d) \/ SwapUneven(p, c, d)
    PROVE  Deals!Next
<1>1. Quiet /\ UNCHANGED <<purse, exch, givers>>
  BY DEF MoveItem, SwapItems, SwapUneven, MaySwap, Event, done
<1>2. Held(p)' \subseteq Held(p) /\ \A r \in Player \ {p} : Held(r)' = Held(r)
  BY MoveItemKeeps, SwapItemsKeeps, SwapUnevenKeeps
<1> QED BY <1>1, <1>2, HeldLost

LEMMA DestroyLoses ==
    ASSUME IInv, NEW p \in Player, NEW c \in Cell, Destroy(p, c)
    PROVE  Deals!Next
<1>1. Quiet /\ UNCHANGED <<purse, exch, givers>>
  BY DEF Destroy, Event
<1>2. PICK i \in Item : i = inv[p][c] /\ \A r \in Player : Held(r)' = Held(r) \ {i}
  BY DestroyKeeps
<1>3. i \in Held(p) /\ \A r \in Player \ {p} : i \notin Held(r)
  BY <1>2, ConstantTypes DEF Held, Filled, IInv, InventoryBooks
<1>4. Held(p)' \subseteq Held(p) /\ \A r \in Player \ {p} : Held(r)' = Held(r)
  BY <1>2, <1>3
<1> QED BY <1>1, <1>4, HeldLost

LEMMA DestroyBuriedLoses ==
    ASSUME IInv, NEW p \in Player, NEW c \in Cell, NEW i \in Item, DestroyBuried(p, c, i)
    PROVE  Deals!Next
<1>1. Quiet /\ UNCHANGED <<purse, exch, givers>>
  BY DEF DestroyBuried, Event
<1> QED BY <1>1, DestroyBuriedKeeps, HeldLost

LEMMA GainFinds ==
    ASSUME IInv, NEW p \in Player, NEW i \in Item, Gain(p, i)
    PROVE  Deals!Next
<1>1. /\ Quiet /\ UNCHANGED <<purse, exch, givers>>
      /\ \A r \in Player : i \notin Held(r)
  BY DEF Gain, done
<1>2. \A r \in Player : Held(r)' = (Held(r) \ {i}) \cup (IF r = p THEN {i} ELSE {})
  BY GainKeeps
<1>3. Quiet'
  BY <1>1 DEF Quiet
<1>4. /\ TradeHolds = [r \in Player |-> Held(r)]
      /\ TradeHolds' = [r \in Player |-> Held(r)']
  BY <1>1, <1>3, View, ViewThen
<1>5. TradeHolds' = [TradeHolds EXCEPT ![p] = @ \cup {i}]
  <2>1. \A r \in Player \ {p} : Held(r)' = Held(r)
    BY <1>1, <1>2
  <2>2. Held(p)' = Held(p) \cup {i}
    BY <1>1, <1>2
  <2> QED BY <1>4, <2>1, <2>2
<1>6. TradePurse' = TradePurse /\ TradeDeal' = TradeDeal
  BY <1>1, <1>3, SamePurse, SameExchanges
<1>7. i \in Deals!HeldByNoOne
  BY <1>1, <1>4 DEF Deals!HeldByNoOne
<1>8. Deals!Find(p, i)
  BY <1>5, <1>6, <1>7 DEF Deals!Find
<1> QED BY <1>6, <1>8 DEF Deals!Next, Deals!Elsewhere

LEMMA EarnOrSpendEarns ==
    ASSUME IInv, NEW p \in Player, NEW amount \in Amount, EarnOrSpend(p, amount)
    PROVE  Deals!Next
<1>1. /\ Quiet /\ UNCHANGED <<inv, exch, givers>>
      /\ purse' = [purse EXCEPT ![p] = Changed(@, amount)]
  BY DEF EarnOrSpend, Event, cells, done
<1>2. purse \in [Player -> 0 .. 2 * GoldMax] /\ purse' \in [Player -> 0 .. 2 * GoldMax]
  <2>1. IInv'
    BY EarnOrSpendKeeps
  <2> QED BY <2>1 DEF IInv, TypeOK
<1>3. Quiet'
  BY <1>1 DEF Quiet
<1>4. TradePurse = purse /\ TradePurse' = purse'
  BY <1>1, <1>3, View, ViewThen
<1>5. \A r \in Player : Held(r)' = Held(r)
  BY <1>1 DEF Held, Filled
<1>6. TradeHolds' = TradeHolds /\ TradeDeal' = TradeDeal
  BY <1>1, <1>3, <1>5, SameHolds, SameExchanges
<1>7. /\ TradePurse' \in [Player -> Nat]
      /\ \A r \in Player \ {p} : TradePurse'[r] = TradePurse[r]
  BY <1>1, <1>2, <1>4, ConstantTypes
<1>8. Deals!EarnOrSpend(p)
  BY <1>6, <1>7 DEF Deals!EarnOrSpend
<1> QED BY <1>6, <1>8 DEF Deals!Next, Deals!Elsewhere

-----------------------------------------------------------------------------
(***************************************************************************)
(* The theorem.                                                             *)
(***************************************************************************)

LEMMA InitIsInit == Init => Deals!Init /\ DealBooks
<1> SUFFICES ASSUME Init
             PROVE  Deals!Init /\ DealBooks
  OBVIOUS
<1>1. Quiet /\ exch = [p \in Player |-> NoExchange]
  BY DEF Init, Quiet
<1>2. inv \in [Player -> Row] /\ purse \in [Player -> Nat]
  BY InitHolds, ConstantTypes DEF IInv, TypeOK, Row
<1>3. /\ TradeHolds = [p \in Player |-> Held(p)] /\ TradePurse = purse
      /\ TradeDeal = [p \in Player |-> TradeSide(exch[p])]
  BY <1>1, View
<1>4. \A p \in Player : Held(p) \subseteq Item
  BY <1>2 DEF Held, Filled, Row
<1>5. TradeHolds \in [Player -> SUBSET Item]
  BY <1>3, <1>4
<1>6. TradeDeal = [p \in Player |-> NoExchange]
  BY <1>1, <1>3, NoSideView
<1> QED BY <1>1, <1>2, <1>3, <1>5, <1>6 DEF Deals!Init, DealBooks

LEMMA StepIsStep ==
    IInv /\ DealBooks /\ [Next]_vars => [Deals!Next]_(Deals!vars) /\ DealBooks'
<1> SUFFICES ASSUME IInv, DealBooks, [Next]_vars
             PROVE  (Deals!Next \/ UNCHANGED Deals!vars) /\ DealBooks'
  OBVIOUS
<1>1. ASSUME Quiet, Quiet'
      PROVE  DealBooks'
  BY <1>1 DEF DealBooks
<1>2. ASSUME Quiet, givers' = givers
      PROVE  DealBooks'
  BY <1>2 DEF DealBooks, Quiet
<1>3. ASSUME NEW p \in Player, NEW q \in Player, ExchangeStart(p, q)
      PROVE  Deals!Next /\ DealBooks'
  BY <1>2, <1>3, ExchangeStartOpens DEF ExchangeStart, Event, done
<1>4. ASSUME NEW p \in Player, NEW c \in Cell, AddItem(p, c)
      PROVE  Deals!Next /\ DealBooks'
  BY <1>2, <1>4, AddItemOffers DEF AddItem, MayOffer, done
<1>5. ASSUME NEW p \in Player, NEW gold \in 1 .. GoldMax, AddGold(p, gold)
      PROVE  Deals!Next /\ DealBooks'
  BY <1>2, <1>5, AddGoldOffers DEF AddGold, MayOffer, done
<1>6. ASSUME NEW p \in Player, AcceptFirst(p)
      PROVE  Deals!Next /\ DealBooks'
  BY <1>2, <1>6, AcceptFirstAgrees DEF AcceptFirst, MayAccept, done
<1>7. ASSUME NEW p \in Player, AcceptBoth(p)
      PROVE  UNCHANGED Deals!vars /\ DealBooks'
  BY <1>7, AcceptBothUnseen, AcceptBothDeal
<1>8. ASSUME NEW p \in Player, Cancel(p) \/ AcceptInVain(p)
      PROVE  Deals!Next /\ DealBooks'
  BY <1>2, <1>8, CancelCallsOff DEF Cancel, AcceptInVain, MayAccept, done
<1>9. CASE Collect \/ MoveNext \/ LeaveBehind
  <2>1. ~Quiet /\ ~Quiet' /\ before' = before
    BY <1>9 DEF Collect, MoveNext, LeaveBehind, Quiet
  <2> QED BY <1>9, <2>1, DoneUnseen, CollectDeal, MoveNextDeal, LeaveBehindDeal
<1>10. CASE PayOverFirst
  <2>1. ~Quiet /\ ~Quiet' /\ before' = before
    BY <1>10, PayOverFirstTurn DEF PayOverFirst, PayOver, Quiet
  <2> QED BY <1>10, <2>1, DoneUnseen, PayOverFirstDeal
<1>11. CASE PayOverSecond
  <2>1. DealBooks'
    BY <1>11 DEF PayOverSecond, DealBooks, Quiet
  <2> QED BY <1>11, <2>1, PayOverSecondSettles
<1>12. ASSUME NEW p \in Player, NEW c \in Cell, NEW d \in Cell,
              MoveItem(p, c, d) \/ SwapItems(p, c, d) \/ SwapUneven(p, c, d)
       PROVE  Deals!Next /\ DealBooks'
  BY <1>2, <1>12, MovesLose DEF MoveItem, SwapItems, SwapUneven, MaySwap, Event, done
<1>13. ASSUME NEW p \in Player, NEW c \in Cell, Destroy(p, c)
       PROVE  Deals!Next /\ DealBooks'
  BY <1>2, <1>13, DestroyLoses DEF Destroy, Event
<1>14. ASSUME NEW p \in Player, NEW c \in Cell, NEW i \in Item, DestroyBuried(p, c, i)
       PROVE  Deals!Next /\ DealBooks'
  BY <1>2, <1>14, DestroyBuriedLoses DEF DestroyBuried, Event
<1>15. ASSUME NEW p \in Player, NEW i \in Item, Gain(p, i)
       PROVE  Deals!Next /\ DealBooks'
  BY <1>2, <1>15, GainFinds DEF Gain, done
<1>16. ASSUME NEW p \in Player, NEW amount \in Amount, EarnOrSpend(p, amount)
       PROVE  Deals!Next /\ DealBooks'
  BY <1>2, <1>16, EarnOrSpendEarns DEF EarnOrSpend, Event, done
<1>17. CASE UNCHANGED vars
  <2>1. UNCHANGED <<inv, purse, exch, givers, left, before>>
    BY <1>17 DEF vars, held, cells, done
  <2>2. UNCHANGED Deals!vars
    BY <2>1 DEF Deals!vars, TradeHolds, TradePurse, TradeDeal, Quiet, Held, Filled
  <2>3. ASSUME ~Quiet
        PROVE  DealBooks'
    <3>1. Agreed /\ InHand /\ Passed
      BY <2>3 DEF DealBooks
    <3>2. /\ \A r \in Player : Held(r)' = Held(r)
          /\ Giver' = Giver /\ First' = First /\ Second' = Second
      BY <2>1, <2>3, SameTurn DEF Held, Filled
    <3>3. Passed'
      BY <2>1, <2>3, <3>1, <3>2, SamePassed
    <3>4. InHand'
      BY <2>1, <3>1, <3>2 DEF InHand, Was, OfferedBefore, Offered, ToSet
    <3> QED BY <2>1, <2>3, <3>1, <3>2, <3>3, <3>4, SameDeal
  <2>4. DealBooks'
    BY <1>2, <2>1, <2>3
  <2> QED BY <2>2, <2>4
<1>18. \A p \in Player : Filled(p) \subseteq Cell
  BY DEF Filled
<1> QED
  BY <1>3, <1>4, <1>5, <1>6, <1>7, <1>8, <1>9, <1>10, <1>11, <1>12, <1>13, <1>14,
     <1>15, <1>16, <1>17, <1>18 DEF Next

\* Every exchange is one that both agreed to, or none, however many players, items and
\* cells there are, and whatever is destroyed, moved or earned meanwhile.
THEOREM Implements == Spec => ImplementsTrade
  BY IInvHolds, InitIsInit, StepIsStep, PTL DEF Spec, ImplementsTrade, Deals!Spec

-----------------------------------------------------------------------------
(***************************************************************************)
(* How far Done has come with the items of one of the two, and the room     *)
(* there is for the rest of them.                                           *)
(***************************************************************************)

\* All that g offers, but for the items of the other window, is of one size.
Even(g) == \A i, j \in OfferedBefore(g) \ Special : Size[i] = Size[j]

\* When Done was called r had room for what g offers, as far as CheckSpace could tell.
Checked(g, r) ==
    r \in torn \/
    /\ Count(Was(g).items, Special) <= Cardinality(Window \ Covered(before.inv[r]))
    /\ Even(g) => \A i \in OfferedBefore(g) \ Special :
          \E A : /\ Rooms(A, i, Covered(before.inv[r]))
                 /\ Cardinality(A) = Count(Was(g).items, Others)

\* The cells of what r had then and still has, what it covers, and the cells of what
\* he has got since.
Own(r) == {c \in Filled(r) : inv[r][c] \in HeldBefore(r)}
OwnCover(r) == UNION {Span(c, inv[r][c]) : c \in Own(r)}
Got(r) == Filled(r) \ Own(r)

\* Items still to come that are in S.
Pending(S) == Count(left, S) + Count(exch[Giver].items, S)

\* What somebody keeps stays where it is; of what is collected the items of the other
\* window are last; the second to give has what he gave, and the first has got nothing.
InTurn ==
    /\ \A r \in {First, Second} : \A c \in Own(r) : before.inv[r][c] = inv[r][c]
    /\ \A k, m \in 1 .. Len(left) :
          k < m /\ left[k] \in Special => left[m] \in Special
    /\ Len(givers) = 2 =>
          exch[Second].items = Was(Second).items /\ Got(First) = {}

WindowRoom ==
    \/ Receiver \in torn
    \/ Pending(Special) <= Cardinality(Window \ Covered(inv[Receiver]))

\* Room for n more items of the size of i, whatever has been taken of what was there:
\* those that have come were put in the first cells there were, so that they do not
\* take more room than they have to.
HasRoom(i, cover, own, got, n) ==
    \E A, B \in SUBSET Inventory :
       /\ Rooms(A, i, cover) /\ Rooms(B, i, own) /\ Earliest(B, i, own)
       /\ got \subseteq B
       /\ Cardinality(B) + n <= Cardinality(A)

InventoryRoom ==
    Receiver \notin torn /\ Even(Giver) /\ Pending(Others) > 0 =>
        \A i \in OfferedBefore(Giver) \ Special :
           /\ HasRoom(i, Covered(before.inv[Receiver]), OwnCover(Receiver), Got(Receiver),
                      Pending(Others))
           /\ \A c \in Got(Receiver) : inv[Receiver][c] \in OfferedBefore(Giver) \ Special

RoomBooks ==
    ~Quiet => /\ Checked(First, Second) /\ Checked(Second, First)
              /\ InTurn /\ WindowRoom /\ InventoryRoom

LEMMA RoomAtFirst ==
    ASSUME NEW i \in Item, NEW A, NEW cover, NEW own, Rooms(A, i, cover)
    PROVE  HasRoom(i, cover, own, {}, Cardinality(A))
<1>1. A \in SUBSET Inventory /\ {} \in SUBSET Inventory
  BY DEF Rooms
<1>2. Rooms({}, i, own) /\ Earliest({}, i, own)
  BY DEF Rooms, Earliest
<1>3. Cardinality({}) + Cardinality(A) <= Cardinality(A)
  BY RoomsAreFinite, FS_EmptySet
<1> QED BY <1>1, <1>2, <1>3 DEF HasRoom

LEMMA RoomThen ==
    ASSUME NEW i \in Item, NEW cover, NEW own, NEW got, NEW n \in Nat, n > 0,
           HasRoom(i, cover, own, got, n),
           NEW d \in FirstFit(Inventory, i, own \cup Cover(got, i)),
           NEW more \in SUBSET (got \cup {d})
    PROVE  HasRoom(i, cover, own, more, n - 1)
<1>1. PICK A \in SUBSET Inventory, B \in SUBSET Inventory :
        /\ Rooms(A, i, cover) /\ Rooms(B, i, own) /\ Earliest(B, i, own)
        /\ got \subseteq B
        /\ Cardinality(B) + n <= Cardinality(A)
  BY DEF HasRoom
<1>2. Rooms(B \cup {d}, i, own) /\ Earliest(B \cup {d}, i, own)
  BY <1>1, NextRoom
<1>3. Cardinality(B \cup {d}) <= Cardinality(B) + 1 /\ Cardinality(B \cup {d}) \in Nat
  BY <1>1, <1>2, RoomsAreFinite, FS_AddElement
<1>4. B \cup {d} \in SUBSET Inventory /\ more \subseteq B \cup {d}
  BY <1>1, <1>2 DEF Rooms
<1>5. Cardinality(B \cup {d}) + (n - 1) <= Cardinality(A)
  <2>1. Cardinality(A) \in Nat /\ Cardinality(B) \in Nat
    BY <1>1, RoomsAreFinite
  <2> QED BY <2>1, <1>1, <1>3
<1> QED BY <1>1, <1>2, <1>4, <1>5 DEF HasRoom

LEMMA RoomStill ==
    ASSUME NEW i \in Item, NEW cover, NEW own, own \subseteq cover, NEW got,
           NEW n \in Nat, n > 0, HasRoom(i, cover, own, got, n)
    PROVE  FirstFit(Inventory, i, own \cup Cover(got, i)) # {}
<1>1. PICK A \in SUBSET Inventory, B \in SUBSET Inventory :
        /\ Rooms(A, i, cover) /\ Rooms(B, i, own) /\ Earliest(B, i, own)
        /\ got \subseteq B
        /\ Cardinality(B) + n <= Cardinality(A)
  BY DEF HasRoom
<1>2. Cardinality(A) \in Nat /\ Cardinality(B) \in Nat
  BY <1>1, RoomsAreFinite
<1>3. ~(Cardinality(A) <= Cardinality(B))
  BY <1>1, <1>2
<1> QED BY <1>1, <1>3, NoRoomLeft

LEMMA OwnIsCovered ==
    ASSUME NEW r, \A c \in Own(r) : before.inv[r][c] = inv[r][c],
           \A c \in Own(r) : inv[r][c] # NoItem
    PROVE  OwnCover(r) \subseteq Covered(before.inv[r])
  BY DEF OwnCover, Own, Filled, Covered

LEMMA AllCovered ==
    ASSUME NEW r
    PROVE  Covered(inv[r]) = OwnCover(r) \cup UNION {Span(c, inv[r][c]) : c \in Got(r)}
<1>1. {d \in Cell : inv[r][d] # NoItem} = Own(r) \cup Got(r)
  BY DEF Own, Got, Filled
<1> QED BY <1>1 DEF Covered, OwnCover

\* What is to know of the two while Done is at it.
LEMMA TheTwo ==
    ASSUME IInv, DealBooks, ~Quiet
    PROVE  /\ Giver \in Player /\ Receiver \in Player /\ Giver # Receiver
           /\ {First, Second} = {Giver, Receiver} /\ First # Second
           /\ HeldBefore(Giver) \cap HeldBefore(Receiver) = {}
           /\ ToSet(left) \subseteq OfferedBefore(Giver)
           /\ OfferedBefore(Giver) \subseteq HeldBefore(Giver)
           /\ left \in Seq(Item) /\ exch[Giver].items \in Seq(Item)
           /\ before.inv \in [Player -> Row]
           /\ OfferedBefore(Giver) \subseteq Item
<1>1. Agreed /\ InHand
  BY DEF DealBooks
<1>2. /\ Giver \in Player /\ Receiver \in Player /\ Giver # Receiver
      /\ {First, Second} = {Giver, Receiver} /\ First # Second
      /\ exch[Giver].items \in Seq(Item) /\ left \in Seq(Item)
  BY Both, Parties DEF IInv, TypeOK
<1>3. Giver = First \/ Giver = Second
  BY <1>2
<1>4. /\ HeldBefore(First) \cap HeldBefore(Second) = {}
      /\ OfferedBefore(First) \subseteq HeldBefore(First)
      /\ OfferedBefore(Second) \subseteq HeldBefore(Second)
      /\ ToSet(left) \subseteq OfferedBefore(Giver)
      /\ before.inv \in [Player -> Row]
  BY <1>1 DEF Agreed, InHand
<1>5. /\ HeldBefore(Giver) \cap HeldBefore(Receiver) = {}
      /\ OfferedBefore(Giver) \subseteq HeldBefore(Giver)
  <2>1. CASE Giver = First
    <3>1. Receiver = Second
      BY <1>2, <2>1
    <3> QED BY <1>4, <2>1, <3>1
  <2>2. CASE Giver = Second
    <3>1. Receiver = First
      BY <1>2, <2>2
    <3> QED BY <1>4, <2>2, <3>1
  <2> QED BY <1>3, <2>1, <2>2
<1>6. HeldBefore(Giver) \subseteq Item
  BY <1>2, <1>4 DEF HeldBefore, Row
<1> QED BY <1>2, <1>4, <1>5, <1>6

\* In which order the deque comes to be.
LEMMA PushedLast ==
    ASSUME left \in Seq(Item), NEW i \in Item,
           \A k, m \in 1 .. Len(left) : k < m /\ left[k] \in Special => left[m] \in Special
    PROVE  /\ Pushed(i) \in Seq(Item)
           /\ \A k, m \in 1 .. Len(Pushed(i)) :
                 k < m /\ Pushed(i)[k] \in Special => Pushed(i)[m] \in Special
           /\ \A S : Count(Pushed(i), S) = Count(left, S) + OneOf(i, S)
<1> DEFINE n == Len(left)
<1>1. n \in Nat
  OBVIOUS
<1>2. CASE i \in Special
  <2> DEFINE t == Append(left, i)
  <2>1. Pushed(i) = t
    BY <1>2 DEF Pushed
  <2>2. t \in Seq(Item) /\ Len(t) = n + 1 /\ t[n + 1] = i /\ \A k \in 1 .. n : t[k] = left[k]
    OBVIOUS
  <2>3. \A S : Count(t, S) = Count(left, S) + OneOf(i, S)
    BY CountAppend
  <2> HIDE DEF t
  <2>4. ASSUME NEW k \in 1 .. Len(t), NEW m \in 1 .. Len(t), k < m, t[k] \in Special
        PROVE  t[m] \in Special
    <3>1. CASE m = n + 1
      BY <3>1, <1>2, <2>2
    <3>2. CASE m # n + 1
      <4>1. k \in 1 .. n /\ m \in 1 .. n
        BY <1>1, <2>2, <2>4, <3>2
      <4> QED BY <4>1, <2>2, <2>4
    <3> QED BY <3>1, <3>2
  <2> QED BY <2>1, <2>2, <2>3, <2>4
<1>3. CASE i \notin Special
  <2> DEFINE t == <<i>> \o left
  <2>1. Pushed(i) = t
    BY <1>3 DEF Pushed
  <2>2. t \in Seq(Item) /\ Len(t) = n + 1 /\ t[1] = i /\ \A k \in 1 .. n : t[k + 1] = left[k]
    OBVIOUS
  <2>3. \A S : Count(t, S) = Count(left, S) + OneOf(i, S)
    BY CountPrepend
  <2> HIDE DEF t
  <2>4. ASSUME NEW k \in 1 .. Len(t), NEW m \in 1 .. Len(t), k < m, t[k] \in Special
        PROVE  t[m] \in Special
    <3>1. k # 1
      BY <1>3, <2>2, <2>4
    <3>2. /\ k - 1 \in 1 .. n /\ m - 1 \in 1 .. n /\ k - 1 < m - 1
          /\ k - 1 + 1 = k /\ m - 1 + 1 = m
      BY <1>1, <2>2, <2>4, <3>1
    <3>3. t[k] = left[k - 1] /\ t[m] = left[m - 1]
      BY <2>2, <3>2
    <3> QED BY <2>4, <3>2, <3>3
  <2> QED BY <2>1, <2>2, <2>3, <2>4
<1> QED BY <1>2, <1>3

LEMMA TailLast ==
    ASSUME left \in Seq(Item), left # <<>>,
           \A k, m \in 1 .. Len(left) : k < m /\ left[k] \in Special => left[m] \in Special
    PROVE  /\ \A k, m \in 1 .. Len(Tail(left)) :
                 k < m /\ Tail(left)[k] \in Special => Tail(left)[m] \in Special
           /\ Head(left) \in Special => Count(Tail(left), Others) = 0
<1> DEFINE n == Len(left)
           t == Tail(left)
<1>1. /\ n \in Nat /\ Len(t) = n - 1 /\ left[1] = Head(left) /\ n >= 1
      /\ \A k \in 1 .. n - 1 : t[k] = left[k + 1]
      /\ t \in Seq(Item)
  OBVIOUS
<1> HIDE DEF t
<1>2. \A k \in 1 .. Len(t) : k + 1 \in 1 .. n /\ 1 < k + 1 /\ t[k] = left[k + 1]
  BY <1>1
<1>3. ASSUME NEW k \in 1 .. Len(t), NEW m \in 1 .. Len(t), k < m, t[k] \in Special
      PROVE  t[m] \in Special
  <2>1. k + 1 < m + 1
    BY <1>1, <1>3
  <2> QED BY <1>2, <1>3, <2>1
<1>4. ASSUME Head(left) \in Special
      PROVE  Count(t, Others) = 0
  <2>1. \A k \in 1 .. Len(t) : t[k] \in Special
    BY <1>1, <1>2, <1>4
  <2>2. \A k \in 1 .. Len(t) : t[k] \notin Others
    BY <2>1 DEF Others
  <2> QED BY <1>1, <2>2, CountNone
<1> QED BY <1>3, <1>4 DEF t

\* What r has got covers as much as items of one size do.
LEMMA GotCovers ==
    ASSUME NEW r, NEW i \in Others, NEW S \in SUBSET Others,
           \A j \in S : Size[j] = Size[i], \A c \in Got(r) : inv[r][c] \in S
    PROVE  Covered(inv[r]) = OwnCover(r) \cup Cover(Got(r), i)
<1>1. \A c \in Got(r) : Span(c, inv[r][c]) = Span(c, i)
  BY SameShape
<1>2. UNION {Span(c, inv[r][c]) : c \in Got(r)} = Cover(Got(r), i)
  BY <1>1 DEF Cover
<1> QED BY <1>2, AllCovered

-----------------------------------------------------------------------------
(***************************************************************************)
(* The steps of Done.                                                       *)
(***************************************************************************)

LEMMA SameChecked ==
    ASSUME UNCHANGED <<before, torn>>, NEW g, NEW r, Checked(g, r)
    PROVE  Checked(g, r)' /\ (Even(g)' <=> Even(g))
  BY DEF Checked, Even, Was, OfferedBefore

\* RoomBooks after a step, with the names of those who are at it then.
LEMMA RoomBooksThen ==
    ASSUME NEW f, NEW s, NEW g, NEW q,
           First' = f, Second' = s, Giver' = g, Receiver' = q,
           Checked(f, s)', Checked(s, f)',
           \A r \in {f, s} : \A c \in Own(r)' : before'.inv[r][c] = inv'[r][c],
           \A k, m \in 1 .. Len(left') :
              k < m /\ left'[k] \in Special => left'[m] \in Special,
           Len(givers') = 2 => exch'[s].items = Was(s)'.items /\ Got(f)' = {},
           \/ q \in torn'
           \/ Count(left', Special) + Count(exch'[g].items, Special)
                 <= Cardinality(Window \ Covered(inv'[q])),
           NEW n, n = Count(left', Others) + Count(exch'[g].items, Others),
           q \notin torn' /\ Even(g)' /\ n > 0 =>
              \A i \in OfferedBefore(g)' \ Special :
                 /\ HasRoom(i, Covered(before'.inv[q]), OwnCover(q)', Got(q)', n)
                 /\ \A c \in Got(q)' : inv'[q][c] \in OfferedBefore(g)' \ Special
    PROVE  RoomBooks'
<1>1. Checked(First, Second)' /\ Checked(Second, First)'
  BY DEF Checked, Even, Was, OfferedBefore
<1>2. InTurn'
  BY DEF InTurn, Own, Got, Filled, HeldBefore, Was
<1>3. WindowRoom'
  BY DEF WindowRoom, Pending
<1>4. InventoryRoom'
  <2>1. /\ Pending(Others)' = n /\ (Even(Giver)' <=> Even(g)')
        /\ OfferedBefore(Giver)' = OfferedBefore(g)'
        /\ OwnCover(Receiver)' = OwnCover(q)' /\ Got(Receiver)' = Got(q)'
    BY DEF Pending, Even, OfferedBefore, Was, OwnCover, Own, Got, Filled, HeldBefore
  <2> QED BY <2>1 DEF InventoryRoom
<1> QED BY <1>1, <1>2, <1>3, <1>4 DEF RoomBooks

LEMMA AcceptBothRooms ==
    ASSUME IInv, NEW p \in Player, AcceptBoth(p)
    PROVE  RoomBooks'
<1>1. PICK q \in Player :
        /\ q = Company(p) /\ q # p /\ Company(q) = p
        /\ exch[p] \in Side /\ exch[q] \in Side
        /\ Giver' = p /\ Receiver' = q /\ First' = p /\ Second' = q
        /\ UNCHANGED <<inv, torn>>
        /\ \A r \in {p, q} : exch'[r].items = exch[r].items
        /\ \A r \in Player : /\ before'.inv[r] = inv[r] /\ Was(r)' = exch[r]
                             /\ HeldBefore(r)' = Held(r) /\ Held(r)' = Held(r)
  BY AcceptBothTurn DEF AcceptBoth, held, cells
<1>2. exch[p].items \in Seq(Item) /\ exch[q].items \in Seq(Item)
  BY <1>1 DEF Side
<1>3. CheckSpace(p) /\ CheckSpace(q) /\ left' = <<>>
  BY <1>1 DEF AcceptBoth, CanExchange, MayAccept, IInv, DoneBooks, Quiet
<1>4. /\ q \in torn \/ Packed(Covered(inv[q]), exch[p].items) # NoRoom
      /\ p \in torn \/ Packed(Covered(inv[p]), exch[q].items) # NoRoom
  BY <1>1, <1>3, Zenon DEF CheckSpace, Packed
<1>5. Checked(p, q)' /\ Checked(q, p)'
  <2> DEFINE a == exch[p].items
             b == exch[q].items
             ca == Covered(inv[q])
             cb == Covered(inv[p])
  <2>1. /\ Was(p)'.items = a /\ OfferedBefore(p)' = ToSet(a)
        /\ Was(q)'.items = b /\ OfferedBefore(q)' = ToSet(b)
    BY <1>1 DEF OfferedBefore
  <2>2. Covered(before'.inv[q]) = ca /\ Covered(before'.inv[p]) = cb
    BY <1>1
  <2>3. /\ a \in Seq(Item) /\ b \in Seq(Item)
        /\ q \in torn' \/ Packed(ca, a) # NoRoom
        /\ p \in torn' \/ Packed(cb, b) # NoRoom
    BY <1>1, <1>2, <1>4
  <2> HIDE DEF a, b, ca, cb
  <2>4. Checked(p, q)'
    BY <2>1, <2>2, <2>3, CheckedNow DEF Checked, Even
  <2>5. Checked(q, p)'
    BY <2>1, <2>2, <2>3, CheckedNow DEF Checked, Even
  <2> QED BY <2>4, <2>5
<1>6. \A r \in {p, q} : Got(r)' = {} /\ \A c \in Own(r)' : before'.inv[r][c] = inv'[r][c]
  <2>1. \A r \in {p, q} : \A c \in Filled(r)' : inv'[r][c] \in HeldBefore(r)'
    BY <1>1 DEF Held
  <2> QED BY <1>1, <2>1 DEF Got, Own
<1> DEFINE n == Count(exch[p].items, Others)
<1>7. n \in Nat /\ Count(exch[p].items, Special) \in Nat
  BY <1>2, CountType
<1>8. /\ Count(left', Others) + Count(exch'[p].items, Others) = n
      /\ Count(left', Special) + Count(exch'[p].items, Special)
            = Count(exch[p].items, Special)
  BY <1>1, <1>3, <1>7, CountEmpty
<1>9. \/ q \in torn'
      \/ Count(left', Special) + Count(exch'[p].items, Special)
            <= Cardinality(Window \ Covered(inv'[q]))
  BY <1>1, <1>2, <1>4, <1>8, WindowChecked
<1>10. ASSUME q \notin torn', Even(p)', NEW i \in OfferedBefore(p)' \ Special
       PROVE  HasRoom(i, Covered(before'.inv[q]), OwnCover(q)', {}, n)
  <2>1. i \in Item /\ Was(p)'.items = exch[p].items
    <3>1. OfferedBefore(p)' = ToSet(exch[p].items)
      BY <1>1 DEF OfferedBefore
    <3> QED BY <1>1, <1>2, <1>10, <3>1 DEF ToSet
  <2>2. PICK A : Rooms(A, i, Covered(before'.inv[q])) /\ Cardinality(A) = n
    BY <1>5, <1>10, <2>1 DEF Checked
  <2> QED BY <2>1, <2>2, RoomAtFirst
<1>11. \A k, m \in 1 .. Len(left') :
          k < m /\ left'[k] \in Special => left'[m] \in Special
  BY <1>3
<1> HIDE DEF n
<1>12. exch'[q].items = Was(q)'.items
  BY <1>1
<1>13. q \notin torn' /\ Even(p)' /\ n > 0 =>
          \A i \in OfferedBefore(p)' \ Special :
             /\ HasRoom(i, Covered(before'.inv[q]), OwnCover(q)', Got(q)', n)
             /\ \A c \in Got(q)' : inv'[q][c] \in OfferedBefore(p)' \ Special
  BY <1>6, <1>10
<1>14. /\ First' = p /\ Second' = q /\ Giver' = p /\ Receiver' = q
       /\ \A r \in {p, q} : \A c \in Own(r)' : before'.inv[r][c] = inv'[r][c]
       /\ Got(p)' = {} /\ n = Count(left', Others) + Count(exch'[p].items, Others)
  BY <1>1, <1>6, <1>8
<1> QED BY <1>5, <1>9, <1>11, <1>12, <1>13, <1>14, RoomBooksThen

LEMMA CollectRooms ==
    ASSUME IInv, DealBooks, RoomBooks, Collect
    PROVE  RoomBooks'
<1>1. /\ ~Quiet /\ exch[Giver].items # <<>>
      /\ left' = Pushed(Head(exch[Giver].items))
      /\ exch' = [exch EXCEPT ![Giver].items = Tail(@), ![Giver].pos = Tail(@)]
      /\ UNCHANGED <<inv, torn, givers, before>>
  BY DEF Collect, Collected, held, cells
<1>2. /\ Checked(First, Second) /\ Checked(Second, First)
      /\ InTurn /\ WindowRoom /\ InventoryRoom
  BY <1>1 DEF RoomBooks
<1>3. PICK f \in Player, s \in Player, g \in Player, q \in Player :
        /\ f = First /\ s = Second /\ g = Giver /\ q = Receiver
        /\ f # s /\ {f, s} = {g, q}
        /\ left \in Seq(Item) /\ exch[g].items \in Seq(Item)
  BY <1>1, Both, Parties, TheTwo
<1>4. /\ exch[g] \in Side /\ exch \in [Player -> Side \cup {NoExchange}]
  BY <1>1, <1>3, Parties DEF IInv, TypeOK
<1>5. /\ \A r \in Player \ {g} : exch'[r] = exch[r]
      /\ exch'[g].company = exch[g].company
      /\ exch'[g].items = Tail(exch[g].items)
  BY <1>1, <1>3, <1>4 DEF Side
<1>6. /\ Giver' = g /\ Receiver' = q /\ First' = f /\ Second' = s
      /\ \A r \in Player : /\ Was(r)' = Was(r)
                           /\ HeldBefore(r)' = HeldBefore(r)
                           /\ OfferedBefore(r)' = OfferedBefore(r)
  BY <1>1, <1>3, <1>5, SameTurn
<1>7. \A r \in Player : Own(r)' = Own(r) /\ Got(r)' = Got(r) /\ OwnCover(r)' = OwnCover(r)
  BY <1>1, <1>6 DEF OwnCover, Own, Got, Filled
<1>8. PICK i \in Item : i = Head(exch[g].items)
  BY <1>1, <1>3
<1>9. /\ left' \in Seq(Item)
      /\ \A k, m \in 1 .. Len(left') :
            k < m /\ left'[k] \in Special => left'[m] \in Special
      /\ \A S : Count(left', S) = Count(left, S) + OneOf(i, S)
  BY <1>1, <1>2, <1>3, <1>8, PushedLast DEF InTurn
<1>10. ASSUME NEW S
       PROVE  Count(left', S) + Count(exch'[g].items, S) = Pending(S)
  <2> DEFINE old == Count(exch[g].items, S)
             new == Count(Tail(exch[g].items), S)
             one == OneOf(i, S)
             mine == Count(left, S)
  <2>1. old = new + one
    BY <1>1, <1>3, <1>8, CountTail
  <2>2. Tail(exch[g].items) \in Seq(Item)
    BY <1>1, <1>3
  <2>3. new \in Nat /\ mine \in Nat /\ one \in Nat
    BY <1>3, <2>2, CountType DEF OneOf
  <2>4. Count(left', S) = mine + one /\ Count(exch'[g].items, S) = new
    BY <1>5, <1>9
  <2>5. Pending(S) = mine + old
    BY <1>3 DEF Pending
  <2> HIDE DEF old, new, one, mine
  <2> QED BY <2>1, <2>3, <2>4, <2>5
<1> DEFINE n == Pending(Others)
<1>11. n = Count(left', Others) + Count(exch'[g].items, Others)
  BY <1>10
<1>12. \/ q \in torn'
       \/ Count(left', Special) + Count(exch'[g].items, Special)
             <= Cardinality(Window \ Covered(inv'[q]))
  BY <1>1, <1>2, <1>3, <1>10 DEF WindowRoom
<1>13. Checked(f, s)' /\ Checked(s, f)' /\ (Even(g)' <=> Even(g))
  BY <1>1, <1>2, <1>3, SameChecked
<1>14. q \notin torn' /\ Even(g)' /\ n > 0 =>
          \A j \in OfferedBefore(g)' \ Special :
             /\ HasRoom(j, Covered(before'.inv[q]), OwnCover(q)', Got(q)', n)
             /\ \A c \in Got(q)' : inv'[q][c] \in OfferedBefore(g)' \ Special
  BY <1>1, <1>2, <1>3, <1>6, <1>7, <1>13 DEF InventoryRoom
<1>15. Len(givers') = 2 => exch'[s].items = Was(s)'.items /\ Got(f)' = {}
  <2>1. ASSUME Len(givers) = 2
        PROVE  exch'[s] = exch[s]
    <3>1. f = g
      BY <1>3, <2>1 DEF First
    <3> QED BY <1>3, <1>5, <3>1
  <2> QED BY <1>1, <1>2, <1>3, <1>6, <1>7, <2>1 DEF InTurn
<1>16. \A r \in {f, s} : \A c \in Own(r)' : before'.inv[r][c] = inv'[r][c]
  BY <1>1, <1>2, <1>3, <1>7 DEF InTurn
<1> HIDE DEF n
<1> QED BY <1>6, <1>9, <1>11, <1>12, <1>13, <1>14, <1>15, <1>16, RoomBooksThen

\* What the next item leaves to come.
LEMMA OneLess ==
    ASSUME IInv, ~Quiet, Collected, left # <<>>, NEW S
    PROVE  /\ Count(Tail(left), S) \in Nat
           /\ Pending(S) = Count(Tail(left), S) + OneOf(Head(left), S)
           /\ Count(Tail(left), S) + Count(exch[Giver].items, S) = Count(Tail(left), S)
<1>1. left \in Seq(Item) /\ Tail(left) \in Seq(Item)
  BY NextItem DEF IInv, TypeOK
<1>2. Count(exch[Giver].items, S) = 0
  BY CountEmpty DEF Collected
<1>3. /\ Count(Tail(left), S) \in Nat
      /\ Count(left, S) = Count(Tail(left), S) + OneOf(Head(left), S)
      /\ OneOf(Head(left), S) \in Nat
  BY <1>1, CountType, CountTail DEF OneOf
<1> QED BY <1>2, <1>3 DEF Pending

\* An item for which there is no cell is of an offer of items of different sizes.
LEMMA OnlyUneven ==
    ASSUME IInv, DealBooks, RoomBooks, LeaveBehind
    PROVE  Receiver \notin torn => ~Even(Giver)
<1> SUFFICES ASSUME Receiver \notin torn, Even(Giver)
             PROVE  FALSE
  OBVIOUS
<1> DEFINE i == Head(left)
           q == Receiver
<1>1. /\ ~Quiet /\ Collected /\ left # <<>> /\ {} \in Places(q, i) /\ q \notin torn
  BY DEF LeaveBehind
<1>2. InTurn /\ WindowRoom /\ InventoryRoom
  BY <1>1 DEF RoomBooks
<1>3. /\ i \in Item /\ i \in OfferedBefore(Giver)
      /\ q \in Player /\ q \in {First, Second}
      /\ OfferedBefore(Giver) \subseteq Item
  BY <1>1, NextItem, TheTwo
<1> HIDE DEF i, q
<1>4. \A S : Pending(S) \in Nat /\ (i \in S => Pending(S) > 0)
  <2> TAKE S
  <2>1. /\ Pending(S) = Count(Tail(left), S) + OneOf(i, S)
        /\ Count(Tail(left), S) \in Nat
    BY <1>1, OneLess DEF i
  <2> QED BY <2>1 DEF OneOf
<1>5. /\ FirstFit(TargetWindow(i), i, Covered(inv[q])) = {}
      /\ FirstFit(Inventory, i, Covered(inv[q])) = {}
  <2>1. PICK taken \in Grids(q) : PlaceIn(taken, i) = {}
    BY <1>1 DEF Places
  <2>2. taken = Covered(inv[q])
    BY <1>1, <2>1 DEF Grids
  <2> QED BY <2>1, <2>2 DEF PlaceIn
<1>6. CASE i \in Special
  <2>1. \A d \in Window : d \in Covered(inv[q])
    <3> SUFFICES ASSUME NEW d \in Window, d \notin Covered(inv[q])
                 PROVE  FALSE
      OBVIOUS
    <3>1. Fits(d, i, Covered(inv[q]))
      BY <1>6, WindowSpan
    <3>2. FirstFit(Window, i, Covered(inv[q])) # {}
      BY <3>1, FirstFitExists, InventoryTypes
    <3> QED BY <1>5, <1>6, <3>2 DEF TargetWindow
  <2>2. Window \ Covered(inv[q]) = {}
    BY <2>1
  <2>3. Cardinality(Window \ Covered(inv[q])) = 0
    BY <2>2, FS_EmptySet
  <2> QED BY <1>2, <1>4, <1>6, <2>3 DEF WindowRoom, q
<1>7. CASE i \notin Special
  <2>1. i \in Others /\ i \in OfferedBefore(Giver) \ Special
    BY <1>3, <1>7 DEF Others
  <2> DEFINE n == Pending(Others)
  <2>2. /\ HasRoom(i, Covered(before.inv[q]), OwnCover(q), Got(q), n)
        /\ \A c \in Got(q) : inv[q][c] \in OfferedBefore(Giver) \ Special
    BY <1>2, <1>4, <2>1 DEF InventoryRoom, q
  <2>3. Covered(inv[q]) = OwnCover(q) \cup Cover(Got(q), i)
    <3>1. /\ OfferedBefore(Giver) \ Special \in SUBSET Others
          /\ \A j \in OfferedBefore(Giver) \ Special : Size[j] = Size[i]
      BY <1>3, <2>1 DEF Others, Even
    <3> QED BY <2>1, <2>2, <3>1, GotCovers
  <2>4. OwnCover(q) \subseteq Covered(before.inv[q])
    BY <1>1, <1>2, <1>3, OwnIsCovered DEF InTurn, Own, Filled
  <2>5. n \in Nat /\ n > 0
    BY <1>4, <2>1
  <2> HIDE DEF n
  <2>6. FirstFit(Inventory, i, OwnCover(q) \cup Cover(Got(q), i)) # {}
    BY <1>3, <2>2, <2>4, <2>5, RoomStill
  <2> QED BY <1>5, <2>3, <2>6
<1> QED BY <1>6, <1>7

LEMMA LeaveBehindRooms ==
    ASSUME IInv, DealBooks, RoomBooks, LeaveBehind
    PROVE  RoomBooks'
<1>1. /\ ~Quiet /\ Collected /\ left # <<>> /\ left' = Tail(left)
      /\ UNCHANGED <<inv, torn, exch, givers, before>>
  BY DEF LeaveBehind, held, cells
<1>2. /\ Checked(First, Second) /\ Checked(Second, First) /\ InTurn /\ WindowRoom
  BY <1>1 DEF RoomBooks
<1>3. PICK f \in Player, s \in Player, g \in Player, q \in Player :
        /\ f = First /\ s = Second /\ g = Giver /\ q = Receiver
        /\ {f, s} = {g, q} /\ left \in Seq(Item)
  BY <1>1, Both, Parties, TheTwo
<1>4. /\ Giver' = g /\ Receiver' = q /\ First' = f /\ Second' = s
      /\ \A r \in Player : /\ Was(r)' = Was(r)
                           /\ HeldBefore(r)' = HeldBefore(r)
                           /\ OfferedBefore(r)' = OfferedBefore(r)
  BY <1>1, <1>3, SameTurn
<1>5. \A r \in Player : Own(r)' = Own(r) /\ Got(r)' = Got(r)
  BY <1>1, <1>4 DEF Own, Got, Filled
<1>6. Checked(f, s)' /\ Checked(s, f)' /\ (q \notin torn => ~Even(g)')
  <2>1. q \notin torn => ~Even(g)
    BY <1>3, OnlyUneven
  <2>2. Checked(f, s) /\ Checked(s, f)
    BY <1>2, <1>3
  <2> QED BY <1>1, <1>3, <2>1, <2>2, SameChecked
<1>7. \A k, m \in 1 .. Len(left') :
         k < m /\ left'[k] \in Special => left'[m] \in Special
  BY <1>1, <1>2, <1>3, TailLast DEF InTurn
<1>8. \/ q \in torn'
      \/ Count(left', Special) + Count(exch'[g].items, Special)
            <= Cardinality(Window \ Covered(inv'[q]))
  <2> SUFFICES ASSUME q \notin torn
               PROVE  Count(left', Special) + Count(exch'[g].items, Special)
                         <= Cardinality(Window \ Covered(inv'[q]))
    BY <1>1
  <2> DEFINE free == Cardinality(Window \ Covered(inv[q]))
             n == Count(Tail(left), Special)
             one == OneOf(Head(left), Special)
  <2>1. /\ n \in Nat /\ one \in Nat /\ n + one <= free
        /\ n + Count(exch[g].items, Special) = n
    BY <1>1, <1>2, <1>3, OneLess DEF WindowRoom, OneOf
  <2>2. free \in Nat
    BY InventoryTypes, FS_Difference, FS_CardinalityType
  <2>3. /\ Count(left', Special) + Count(exch'[g].items, Special) = n
        /\ Cardinality(Window \ Covered(inv'[q])) = free
    BY <1>1, <2>1
  <2> HIDE DEF free, n, one
  <2> QED BY <2>1, <2>2, <2>3
<1>9. /\ \A r \in {f, s} : \A c \in Own(r)' : before'.inv[r][c] = inv'[r][c]
      /\ Len(givers') = 2 => exch'[s].items = Was(s)'.items /\ Got(f)' = {}
  BY <1>1, <1>2, <1>3, <1>4, <1>5 DEF InTurn
<1> QED BY <1>1, <1>4, <1>6, <1>7, <1>8, <1>9, RoomBooksThen

\* The first to give has got nothing yet: there is as much room as there was.
LEMMA PayOverFirstRooms ==
    ASSUME IInv, DealBooks, RoomBooks, PayOverFirst
    PROVE  RoomBooks'
<1>1. /\ ~Quiet /\ left = <<>> /\ Collected /\ Len(givers) = 2
      /\ givers' = <<Receiver>> /\ UNCHANGED <<inv, torn, exch, left, before>>
  BY PayOverFirstTurn DEF PayOverFirst, PayOver, cells
<1>2. Checked(First, Second) /\ Checked(Second, First) /\ InTurn
  BY <1>1 DEF RoomBooks
<1>3. PICK f \in Player, s \in Player :
        /\ f = First /\ s = Second /\ f = Giver /\ s = Receiver /\ f # s
        /\ Company(s) = f
  BY <1>1, Both, Parties DEF First, Second
<1>4. Giver' = s /\ Receiver' = f /\ Len(givers') = 1
  <2>1. Giver' = s /\ Len(givers') = 1
    BY <1>1, <1>3 DEF Giver
  <2> QED BY <2>1, <1>1, <1>3 DEF Receiver, Company
<1>5. First' = f /\ Second' = s
  BY <1>4 DEF First, Second
<1>6. \A r \in Player : /\ Was(r)' = Was(r)
                        /\ HeldBefore(r)' = HeldBefore(r)
                        /\ OfferedBefore(r)' = OfferedBefore(r)
  BY <1>1 DEF Was, HeldBefore, OfferedBefore
<1>7. \A r \in Player : Own(r)' = Own(r) /\ Got(r)' = Got(r) /\ OwnCover(r)' = OwnCover(r)
  BY <1>1, <1>6 DEF OwnCover, Own, Got, Filled
<1>8. Checked(f, s)' /\ Checked(s, f)' /\ (Even(s)' <=> Even(s))
  BY <1>1, <1>2, <1>3, SameChecked
<1>9. exch[s].items = Was(s).items /\ Got(f) = {} /\ exch[s].items \in Seq(Item)
  BY <1>1, <1>2, <1>3, Parties DEF InTurn, Side
<1> DEFINE n == Count(Was(s).items, Others)
           special == Count(Was(s).items, Special)
<1>10. n \in Nat /\ special \in Nat
  BY <1>9, CountType
<1>11. /\ Count(left', Others) + Count(exch'[s].items, Others) = n
       /\ Count(left', Special) + Count(exch'[s].items, Special) = special
  BY <1>1, <1>9, <1>10, CountEmpty
<1>12. f \in torn \/ special <= Cardinality(Window \ Covered(before.inv[f]))
  BY <1>2, <1>3 DEF Checked
<1>13. Covered(inv[f]) = OwnCover(f) /\ OwnCover(f) \subseteq Covered(before.inv[f])
  <2>1. Covered(inv[f]) = OwnCover(f)
    BY <1>9, AllCovered
  <2>2. \A c \in Own(f) : before.inv[f][c] = inv[f][c] /\ inv[f][c] # NoItem
    BY <1>2, <1>3 DEF InTurn, Own, Filled
  <2> QED BY <2>1, <2>2, OwnIsCovered
<1>14. f \in torn \/ special <= Cardinality(Window \ Covered(inv'[f]))
  <2> DEFINE now == Window \ Covered(inv[f])
             then == Window \ Covered(before.inv[f])
  <2>1. then \in SUBSET now /\ IsFiniteSet(now)
    BY <1>13, InventoryTypes, FS_Difference
  <2>2. Cardinality(then) <= Cardinality(now)
    BY <2>1, FS_Subset
  <2>3. Cardinality(then) \in Nat /\ Cardinality(now) \in Nat
    BY <2>1, FS_Subset, FS_CardinalityType
  <2>4. (f \in torn \/ special <= Cardinality(then)) /\ Window \ Covered(inv'[f]) = now
    BY <1>1, <1>12
  <2> HIDE DEF now, then, special
  <2> QED BY <1>10, <2>2, <2>3, <2>4
<1>15. ASSUME f \notin torn, Even(s), NEW i \in OfferedBefore(s) \ Special
       PROVE  HasRoom(i, Covered(before.inv[f]), OwnCover(f), {}, n)
  <2>1. i \in Item
    BY <1>9 DEF OfferedBefore, ToSet
  <2>2. PICK A : Rooms(A, i, Covered(before.inv[f])) /\ Cardinality(A) = n
    BY <1>2, <1>3, <1>15 DEF Checked
  <2> QED BY <2>1, <2>2, RoomAtFirst
<1> HIDE DEF n, special
<1>16. f \notin torn' /\ Even(s)' /\ n > 0 =>
          \A i \in OfferedBefore(s)' \ Special :
             /\ HasRoom(i, Covered(before'.inv[f]), OwnCover(f)', Got(f)', n)
             /\ \A c \in Got(f)' : inv'[f][c] \in OfferedBefore(s)' \ Special
  BY <1>1, <1>6, <1>7, <1>8, <1>9, <1>15
<1>17. /\ \A r \in {f, s} : \A c \in Own(r)' : before'.inv[r][c] = inv'[r][c]
       /\ Len(givers') # 2
       /\ \A k, m \in 1 .. Len(left') :
             k < m /\ left'[k] \in Special => left'[m] \in Special
  BY <1>1, <1>2, <1>3, <1>4, <1>7 DEF InTurn
<1>18. /\ n = Count(left', Others) + Count(exch'[s].items, Others)
       /\ \/ f \in torn'
          \/ Count(left', Special) + Count(exch'[s].items, Special)
                <= Cardinality(Window \ Covered(inv'[f]))
  BY <1>1, <1>11, <1>14
<1> QED BY <1>4, <1>5, <1>8, <1>16, <1>17, <1>18, RoomBooksThen

\* What the next item takes of the room there is.
LEMMA MoveNextRooms ==
    ASSUME IInv, DealBooks, RoomBooks, MoveNext
    PROVE  RoomBooks'
<1>1. /\ ~Quiet /\ Collected /\ left # <<>> /\ left' = Tail(left)
      /\ \E to \in Places(Receiver, Head(left)) \ {{}} : inv' = Moved(Head(left), Receiver, to)
      /\ UNCHANGED <<torn, exch, givers, before>>
  BY DEF MoveNext
<1>2. /\ Checked(First, Second) /\ Checked(Second, First)
      /\ InTurn /\ WindowRoom /\ InventoryRoom
  BY <1>1 DEF RoomBooks
<1>3. PICK f \in Player, s \in Player, g \in Player, q \in Player :
        /\ f = First /\ s = Second /\ g = Giver /\ q = Receiver
        /\ {f, s} = {g, q} /\ f # s /\ g # q /\ left \in Seq(Item)
        /\ HeldBefore(g) \cap HeldBefore(q) = {}
        /\ ToSet(left) \subseteq OfferedBefore(g)
        /\ OfferedBefore(g) \subseteq HeldBefore(g)
        /\ OfferedBefore(g) \subseteq Item
  BY <1>1, Both, Parties, TheTwo
<1>4. PICK i \in Item : i = Head(left) /\ i \in OfferedBefore(g)
  BY <1>1, <1>3, NextItem
<1>23. PICK taken \in Grids(q) :
          PlaceIn(taken, i) # {} /\ inv' = Moved(i, q, PlaceIn(taken, i))
  BY <1>1, <1>3, <1>4 DEF Places
<1>5. PICK c \in PlaceIn(taken, i) : TRUE
  BY <1>23
<1>6. /\ c \in Cell /\ PlaceIn(taken, i) = {c} /\ Fits(c, i, taken)
      /\ inv[q][c] = NoItem /\ inv' = Moved(i, q, {c})
      /\ q \notin torn => taken = Covered(inv[q])
  <2>1. c \in Cell /\ Fits(c, i, taken)
    BY <1>5, PlaceFits
  <2>2. \A d \in PlaceIn(taken, i) : d = c
    BY <1>5, PlaceFits
  <2>3. PlaceIn(taken, i) = {c}
    BY <1>5, <2>2
  <2>4. inv[q] \in [Cell -> Item \cup {NoItem}]
    BY <1>3 DEF IInv, TypeOK
  <2>5. c \in Span(c, i) /\ Span(c, i) \cap taken = {}
    BY <2>1, InSpan DEF Fits
  <2>6. inv[q][c] = NoItem /\ (q \notin torn => taken = Covered(inv[q]))
    BY <2>1, <2>4, <2>5, GridTypes
  <2> QED BY <1>23, <2>1, <2>3, <2>6
<1>7. /\ Giver' = g /\ Receiver' = q /\ First' = f /\ Second' = s
      /\ \A r \in Player : /\ Was(r)' = Was(r)
                           /\ HeldBefore(r)' = HeldBefore(r)
                           /\ OfferedBefore(r)' = OfferedBefore(r)
  BY <1>1, <1>3, SameTurn
<1>8. /\ \A d \in Cell : inv'[q][d] = IF d = c THEN i
                                      ELSE IF inv[q][d] = i THEN NoItem ELSE inv[q][d]
      /\ \A d \in Cell : inv'[g][d] = IF inv[g][d] = i THEN NoItem ELSE inv[g][d]
  BY <1>3, <1>6 DEF Moved
<1>9. i \notin HeldBefore(q) /\ i # NoItem
  BY <1>3, <1>4, ConstantTypes
<1>10. /\ Own(q)' = Own(q) /\ \A d \in Own(q) : inv'[q][d] = inv[q][d]
       /\ Got(q)' \subseteq Got(q) \cup {c}
       /\ \A d \in Got(q)' : inv'[q][d] = i \/ (d \in Got(q) /\ inv'[q][d] = inv[q][d])
  <2> DEFINE was == HeldBefore(q)
  <2>1. was = HeldBefore(q)'
    BY <1>7
  <2>2. /\ Own(q) = {d \in Cell : inv[q][d] # NoItem /\ inv[q][d] \in was}
        /\ Own(q)' = {d \in Cell : inv'[q][d] # NoItem /\ inv'[q][d] \in was}
        /\ Got(q) = {d \in Cell : inv[q][d] # NoItem /\ inv[q][d] \notin was}
        /\ Got(q)' = {d \in Cell : inv'[q][d] # NoItem /\ inv'[q][d] \notin was}
    BY <2>1 DEF Own, Got, Filled
  <2>3. NoItem \notin was
    BY DEF HeldBefore
  <2> HIDE DEF was
  <2>4. \A d \in Cell : d \in Own(q)' <=> d \in Own(q)
    BY <1>6, <1>8, <1>9, <2>2, <2>3 DEF was
  <2>5. Own(q)' = Own(q)
    BY <2>2, <2>4
  <2>6. \A d \in Own(q) : inv'[q][d] = inv[q][d]
    BY <1>6, <1>8, <1>9, <2>2 DEF was
  <2>7. \A d \in Got(q)' : d \in Got(q) \cup {c}
    BY <1>8, <2>2
  <2>8. \A d \in Got(q)' : inv'[q][d] = i \/ (d \in Got(q) /\ inv'[q][d] = inv[q][d])
    BY <1>8, <2>2
  <2> QED BY <2>5, <2>6, <2>7, <2>8
<1>11. OwnCover(q)' = OwnCover(q)
  BY <1>10 DEF OwnCover
<1>12. /\ Own(g)' \subseteq Own(g) /\ \A d \in Own(g)' : inv'[g][d] = inv[g][d]
       /\ Got(g)' \subseteq Got(g)
  BY <1>3, <1>7, <1>8 DEF Own, Got, Filled
<1>13. Checked(f, s)' /\ Checked(s, f)' /\ (Even(g)' <=> Even(g))
  <2>1. Checked(f, s) /\ Checked(s, f)
    BY <1>2, <1>3
  <2> QED BY <1>1, <1>3, <2>1, SameChecked
<1>14. \A r \in {f, s} : \A d \in Own(r)' : before'.inv[r][d] = inv'[r][d]
  <2>1. \A r \in {g, q} : \A d \in Own(r) : before.inv[r][d] = inv[r][d]
    BY <1>2, <1>3 DEF InTurn
  <2>2. \A r \in {g, q} : \A d \in Own(r)' : before'.inv[r][d] = inv'[r][d]
    BY <1>1, <1>10, <1>12, <2>1
  <2> QED BY <1>3, <2>2
<1>15. Len(givers') = 2 => exch'[s].items = Was(s)'.items /\ Got(f)' = {}
  <2> SUFFICES ASSUME Len(givers) = 2
               PROVE  exch'[s].items = Was(s)'.items /\ Got(f)' = {}
    BY <1>1
  <2>1. f = g
    BY <1>3 DEF First
  <2> QED BY <1>1, <1>2, <1>3, <1>7, <1>12, <2>1 DEF InTurn
<1>16. /\ \A k, m \in 1 .. Len(left') :
             k < m /\ left'[k] \in Special => left'[m] \in Special
       /\ i \in Special => Count(left', Others) = 0
  BY <1>1, <1>2, <1>3, <1>4, TailLast DEF InTurn
<1>17. \A S : /\ Count(left', S) \in Nat
              /\ Pending(S) = Count(left', S) + OneOf(i, S)
              /\ Count(left', S) + Count(exch'[g].items, S) = Count(left', S)
  BY <1>1, <1>3, <1>4, OneLess
<1>18. Covered(inv'[q]) \subseteq Covered(inv[q]) \cup Span(c, i)
  BY <1>8 DEF Covered
<1>19. \/ q \in torn'
       \/ Count(left', Special) + Count(exch'[g].items, Special)
             <= Cardinality(Window \ Covered(inv'[q]))
  <2> SUFFICES ASSUME q \notin torn
               PROVE  Count(left', Special) + Count(exch'[g].items, Special)
                         <= Cardinality(Window \ Covered(inv'[q]))
    BY <1>1
  <2> DEFINE n == Count(left', Special)
             now == Window \ Covered(inv[q])
             then == Window \ Covered(inv'[q])
  <2>1. /\ n \in Nat /\ n + OneOf(i, Special) <= Cardinality(now)
        /\ Count(left', Special) + Count(exch'[g].items, Special) = n
    BY <1>2, <1>3, <1>17 DEF WindowRoom
  <2>2. /\ now \ Span(c, i) \subseteq then /\ IsFiniteSet(now) /\ IsFiniteSet(then)
        /\ Cardinality(now) \in Nat /\ Cardinality(then) \in Nat
        /\ Window \cap Inventory = {}
    BY <1>18, InventoryTypes, FS_Difference, FS_CardinalityType
  <2> SUFFICES n <= Cardinality(then)
    BY <2>1
  <2> HIDE DEF n, now, then
  <2>3. CASE c \in Inventory
    <3>1. Span(c, i) \subseteq Inventory
      BY <1>6, <2>3, InventorySpan
    <3>2. now \subseteq then
      BY <2>2, <3>1 DEF now
    <3>3. Cardinality(now) <= Cardinality(then)
      BY <2>2, <3>2, FS_Subset
    <3> QED BY <2>1, <2>2, <3>3 DEF OneOf
  <2>4. CASE c \notin Inventory
    <3>1. c \in TargetWindow(i)
      BY <1>5, <2>4 DEF PlaceIn, FirstFit
    <3>2. i \in Special /\ c \in Window
      BY <2>4, <3>1 DEF TargetWindow
    <3>3. now \ {c} \subseteq then
      BY <2>2, <3>2, WindowSpan
    <3>4. Cardinality(now) - 1 <= Cardinality(then)
      <4>1. Cardinality(now \ {c}) = IF c \in now THEN Cardinality(now) - 1 ELSE Cardinality(now)
        BY <2>2, FS_RemoveElement
      <4>2. Cardinality(now \ {c}) <= Cardinality(then)
        BY <2>2, <3>3, FS_Subset
      <4> QED BY <2>2, <4>1, <4>2
    <3>5. n + 1 <= Cardinality(now)
      BY <2>1, <3>2 DEF OneOf
    <3> QED BY <2>1, <2>2, <3>4, <3>5
  <2> QED BY <2>3, <2>4
<1> DEFINE n == Count(left', Others)
<1>20. n \in Nat /\ n = Count(left', Others) + Count(exch'[g].items, Others)
  BY <1>17
<1>21. ASSUME q \notin torn, Even(g), n > 0, NEW j \in OfferedBefore(g) \ Special
       PROVE  /\ HasRoom(j, Covered(before.inv[q]), OwnCover(q), Got(q)', n)
              /\ \A d \in Got(q)' : inv'[q][d] \in OfferedBefore(g) \ Special
  <2>1. i \in Others /\ i \in OfferedBefore(g) \ Special
    BY <1>4, <1>16, <1>20, <1>21 DEF Others
  <2>2. j \in Others /\ Size[i] = Size[j]
    BY <1>3, <1>21, <2>1 DEF Even, Others
  <2>3. Pending(Others) \in Nat /\ Pending(Others) > 0 /\ Pending(Others) - 1 = n
    BY <1>17, <1>20, <2>1 DEF OneOf
  <2>4. /\ HasRoom(j, Covered(before.inv[q]), OwnCover(q), Got(q), Pending(Others))
        /\ \A d \in Got(q) : inv[q][d] \in OfferedBefore(g) \ Special
    BY <1>2, <1>3, <1>21, <2>3 DEF InventoryRoom
  <2>5. c \in FirstFit(Inventory, i, Covered(inv[q]))
    BY <1>5, <1>6, <1>21, <2>1 DEF PlaceIn, TargetWindow, Others
  <2>6. Covered(inv[q]) = OwnCover(q) \cup Cover(Got(q), j)
    <3>1. /\ OfferedBefore(g) \ Special \in SUBSET Others
          /\ \A k \in OfferedBefore(g) \ Special : Size[k] = Size[j]
      BY <1>3, <1>21 DEF Others, Even
    <3> QED BY <2>2, <2>4, <3>1, GotCovers
  <2>7. c \in FirstFit(Inventory, j, OwnCover(q) \cup Cover(Got(q), j))
    BY <2>1, <2>2, <2>5, <2>6, SameShape
  <2> DEFINE m == Pending(Others)
  <2>8. m \in Nat /\ m > 0 /\ m - 1 = n
    BY <2>3
  <2>9. HasRoom(j, Covered(before.inv[q]), OwnCover(q), Got(q), m)
    BY <2>4
  <2>10. j \in Item /\ Got(q)' \in SUBSET (Got(q) \cup {c})
    BY <1>10, <2>2 DEF Others
  <2> HIDE DEF m, n
  <2>11. HasRoom(j, Covered(before.inv[q]), OwnCover(q), Got(q)', m - 1)
    BY <2>7, <2>8, <2>9, <2>10, RoomThen
  <2> QED BY <1>10, <2>1, <2>4, <2>8, <2>11
<1>22. q \notin torn' /\ Even(g)' /\ n > 0 =>
          \A j \in OfferedBefore(g)' \ Special :
             /\ HasRoom(j, Covered(before'.inv[q]), OwnCover(q)', Got(q)', n)
             /\ \A d \in Got(q)' : inv'[q][d] \in OfferedBefore(g)' \ Special
  BY <1>1, <1>7, <1>11, <1>13, <1>21
<1> HIDE DEF n
<1> QED BY <1>7, <1>13, <1>14, <1>15, <1>16, <1>19, <1>20, <1>22, RoomBooksThen

LEMMA SameRooms ==
    ASSUME RoomBooks, UNCHANGED <<inv, torn, exch, givers, left, before>>
    PROVE  RoomBooks'
<1>1. /\ Giver' = Giver /\ Receiver' = Receiver /\ (Quiet' <=> Quiet)
  BY DEF Giver, Receiver, Company, Quiet
<1>2. First' = First /\ Second' = Second
  BY <1>1 DEF First, Second
<1>3. \A r : /\ Was(r)' = Was(r) /\ OfferedBefore(r)' = OfferedBefore(r)
             /\ (Even(r)' <=> Even(r)) /\ Own(r)' = Own(r) /\ Got(r)' = Got(r)
             /\ OwnCover(r)' = OwnCover(r)
  BY DEF Was, OfferedBefore, Even, OwnCover, Own, Got, Filled, HeldBefore
<1>4. \A S : Pending(S)' = Pending(S)
  BY <1>1 DEF Pending
<1>5. /\ Checked(First, Second)' <=> Checked(First, Second)
      /\ Checked(Second, First)' <=> Checked(Second, First)
  BY <1>2, <1>3 DEF Checked, Even, Was, OfferedBefore
<1>6. (WindowRoom' <=> WindowRoom) /\ (InventoryRoom' <=> InventoryRoom) /\ (InTurn' <=> InTurn)
  BY <1>1, <1>2, <1>3, <1>4
     DEF WindowRoom, InventoryRoom, InTurn, Pending, Even, Was, OfferedBefore, OwnCover,
         Own, Got, Filled, HeldBefore
<1> QED BY <1>1, <1>5, <1>6 DEF RoomBooks

\* A step leaves an item behind only when what is offered is of different sizes.
LEMMA StepLeaves ==
    ASSUME IInv, DealBooks, RoomBooks, [Next]_vars
    PROVE  /\ RoomBooks'
           /\ \/ stuck' \subseteq stuck
              \/ Receiver \in torn
              \/ \E i, j \in OfferedBefore(Giver) \ Special : Size[i] # Size[j]
<1>1. ASSUME Quiet, UNCHANGED <<givers, stuck>>
      PROVE  RoomBooks' /\ stuck' \subseteq stuck
  BY <1>1 DEF RoomBooks, Quiet
<1>2. ASSUME NEW p \in Player,
             \/ \E q \in Player : ExchangeStart(p, q)
             \/ \E c \in Cell : AddItem(p, c)
             \/ \E gold \in 1 .. GoldMax : AddGold(p, gold)
             \/ AcceptFirst(p) \/ AcceptInVain(p) \/ Cancel(p)
             \/ \E c, d \in Cell : MoveItem(p, c, d) \/ SwapItems(p, c, d) \/ SwapUneven(p, c, d)
             \/ \E i \in Item : Gain(p, i)
             \/ \E amount \in Amount : EarnOrSpend(p, amount)
      PROVE  RoomBooks' /\ stuck' \subseteq stuck
  <2>1. Quiet /\ UNCHANGED <<givers, stuck>>
    BY <1>2 DEF ExchangeStart, AddItem, AddGold, AcceptFirst, AcceptInVain, Cancel,
                MoveItem, SwapItems, SwapUneven, MaySwap, Gain, EarnOrSpend, Event, MayOffer,
                MayAccept, done
  <2> QED BY <1>1, <2>1
<1>3. ASSUME NEW p \in Player, AcceptBoth(p)
      PROVE  RoomBooks' /\ stuck' \subseteq stuck
  BY <1>3, AcceptBothRooms DEF AcceptBoth
<1>4. CASE Collect
  BY <1>4, CollectRooms DEF Collect
<1>5. CASE MoveNext
  BY <1>5, MoveNextRooms DEF MoveNext
<1>6. CASE LeaveBehind
  BY <1>6, LeaveBehindRooms, OnlyUneven DEF Even
<1>7. CASE PayOverFirst
  BY <1>7, PayOverFirstRooms DEF PayOverFirst, PayOver
<1>8. CASE PayOverSecond
  BY <1>8 DEF PayOverSecond, PayOver, RoomBooks, Quiet
<1>9. ASSUME NEW p \in Player, NEW c \in Cell, Destroy(p, c)
      PROVE  RoomBooks' /\ stuck' \subseteq stuck
  BY <1>9 DEF Destroy, Event, RoomBooks, Quiet
<1>11. ASSUME NEW p \in Player, NEW c \in Cell, NEW i \in Item, DestroyBuried(p, c, i)
       PROVE  RoomBooks' /\ stuck' \subseteq stuck
  BY <1>11 DEF DestroyBuried, Event, RoomBooks, Quiet
<1>10. CASE UNCHANGED vars
  BY <1>10, SameRooms DEF vars, held, cells, done
<1>12. \A p \in Player : Filled(p) \subseteq Cell
  BY DEF Filled
<1> QED
  BY <1>2, <1>3, <1>4, <1>5, <1>6, <1>7, <1>8, <1>9, <1>10, <1>11, <1>12 DEF Next

\* Whatever the size of the inventories, and whatever they hold, Done leaves behind no
\* item of an offer whose items, but for those of the other window, are of one size:
\* though it moves them in another order than CheckSpace tried them in, and to one who
\* has other things than he had then.  Of a receiver with a torn inventory nothing is said.
THEOREM LeftBehindOnlyByOrder == Spec => LeftOnlyByOrder
<1>1. Init => RoomBooks
  BY DEF Init, RoomBooks, Quiet
<1>2. IInv /\ DealBooks /\ RoomBooks /\ [Next]_vars =>
        /\ RoomBooks'
        /\ [\/ stuck' \subseteq stuck
            \/ Receiver \in torn
            \/ \E i, j \in ToSet(before.exch[Giver].items) \ Special :
                  Size[i] # Size[j]]_vars
  BY StepLeaves DEF OfferedBefore, Was
<1> QED BY IInvHolds, InitIsInit, StepIsStep, <1>1, <1>2, PTL DEF Spec, LeftOnlyByOrder
=============================================================================
