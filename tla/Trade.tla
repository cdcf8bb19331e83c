------------------------------- MODULE Trade -------------------------------
(***************************************************************************)
(* What an exchange promises two players, without inventories, windows and  *)
(* flags: what is offered is open to both; whoever changes his offer takes  *)
(* back both agreements; and the exchange takes place in one step, when the *)
(* second of the two agrees, with what both agreed to: no item that was not *)
(* offered changes hands, an item does not get lost on the way and the gold *)
(* is what was offered.  It may leave offered items with their owner, and   *)
(* it may be called off at any moment, which changes nothing but the deal.  *)
(*                                                                         *)
(* Outside a deal players find and lose items and gold as they like.        *)
(* Exchange implements it: Exchange!Deals is the refinement mapping.        *)
(***************************************************************************)
EXTENDS Naturals

CONSTANTS
    Player,
    Item,
    GoldMax,        \* the gold a player may have after an exchange
    NoDeal

VARIABLES
    holds,          \* the items of a player
    purse,          \* his gold
    deal            \* his side of the deal he is in, or NoDeal

vars == <<holds, purse, deal>>

HeldByNoOne == {i \in Item : \A p \in Player : i \notin holds[p]}
InDeal(p) == deal[p] # NoDeal
With(p) == deal[p].with
Closed(p) == [deal EXCEPT ![p] = NoDeal, ![With(p)] = NoDeal]

Init ==
    /\ holds \in [Player -> SUBSET Item]
    /\ purse \in [Player -> Nat]
    /\ deal = [p \in Player |-> NoDeal]

(* What is said changes the deal only. *)

Open(p, q) ==
    /\ p # q
    /\ ~InDeal(p) /\ ~InDeal(q)
    /\ LET Side(r) == [with |-> r, items |-> {}, gold |-> 0, agreed |-> FALSE]
       IN  deal' = [deal EXCEPT ![p] = Side(q), ![q] = Side(p)]

\* p changes his offer: both have to agree again.
Change(p, items, gold) ==
    /\ ~deal[With(p)].agreed
    /\ deal' = [deal EXCEPT ![p].items = items, ![p].gold = gold,
                            ![p].agreed = FALSE, ![With(p)].agreed = FALSE]

OfferItem(p, i) ==
    /\ i \in holds[p]
    /\ Change(p, deal[p].items \cup {i}, deal[p].gold)

OfferGold(p, gold) ==
    /\ deal[p].gold = 0
    /\ Change(p, deal[p].items, gold)

Agree(p) ==
    /\ ~deal[With(p)].agreed
    /\ deal' = [deal EXCEPT ![p].agreed = TRUE]

CallOff(p) == deal' = Closed(p)

Talk ==
    /\ UNCHANGED <<holds, purse>>
    /\ \/ \E p, q \in Player : Open(p, q)
       \/ \E p \in {q \in Player : InDeal(q)} :
             \/ \E i \in Item : OfferItem(p, i)
             \/ \E gold \in 1 .. purse[p] : OfferGold(p, gold)
             \/ Agree(p)
             \/ CallOff(p)

\* p agrees, and the other one has: the items given and taken change hands.
Settle(p) ==
    /\ InDeal(p)
    /\ LET q == With(p)
       IN  /\ deal[q].agreed
           /\ deal[p].items \subseteq holds[p] /\ deal[q].items \subseteq holds[q]
           /\ deal[p].gold <= purse[p] /\ deal[q].gold <= purse[q]
           /\ purse[q] + deal[p].gold <= GoldMax
           /\ purse[p] + deal[q].gold <= GoldMax
           /\ \E given \in SUBSET deal[p].items, taken \in SUBSET deal[q].items :
                 holds' = [holds EXCEPT ![p] = (@ \ given) \cup taken,
                                        ![q] = (@ \ taken) \cup given]
           /\ purse' = [purse EXCEPT ![p] = @ - deal[p].gold + deal[q].gold,
                                     ![q] = @ - deal[q].gold + deal[p].gold]
    /\ deal' = Closed(p)

(* What happens elsewhere leaves the deals alone. *)

Find(p, i) ==
    /\ i \in HeldByNoOne
    /\ holds' = [holds EXCEPT ![p] = @ \cup {i}]
    /\ UNCHANGED purse

Lose(p) ==
    /\ holds'[p] \subseteq holds[p]
    /\ holds' = [holds EXCEPT ![p] = holds'[p]]
    /\ UNCHANGED purse

EarnOrSpend(p) ==
    /\ purse' \in [Player -> Nat]
    /\ \A q \in Player \ {p} : purse'[q] = purse[q]
    /\ UNCHANGED holds

Elsewhere ==
    /\ UNCHANGED deal
    /\ \E p \in Player :
          \/ EarnOrSpend(p)
          \/ Lose(p)
          \/ \E i \in Item : Find(p, i)

Next == Elsewhere \/ Talk \/ (\E p \in Player : Settle(p))

Spec == Init /\ [][Next]_vars
=============================================================================
