---------------------------- MODULE MCGuildSafebox ----------------------------
(* GuildSafebox for TLC, with the claim of the code that does not hold.      *)
EXTENDS GuildSafebox, TLC

CONSTANTS i1, i2, Tall

\* Item i2 is Tall cells high.
Sizes == [i \in Item |-> IF i = i2 THEN Tall ELSE 1]

\* Cores and players are only compared with each other.
Symmetry == Permutations(Core) \cup Permutations(Player)

\* Bound: items and gold, which share the queues and the mirrors but no condition,
\* are not both on the move.
Asked(types) == \E c \in Core : \E m \in ToSet(up[c]) : m.type \in types
ItemsMove == \/ Asked({"ADD", "TAKE", "MOVE"})
             \/ {box[c] : c \in Filled} # InBox
GoldMoves == Asked({"GIVE_GOLD", "GET_GOLD"}) \/ gold # Gold
ItemsOrGold == ~(ItemsMove /\ GoldMoves)

\* CheckInItem says "dont send destroy packet to db (guild safebox will handle
\* this itself)" (guild_safebox.cpp:302): an item that is in the safebox is
\* nowhere else.
InBoxOnly == \A c \in Filled : Places(box[c]) = {<<"cell", c>>}
=============================================================================
