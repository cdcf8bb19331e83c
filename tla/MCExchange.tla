---------------------------- MODULE MCExchange ----------------------------
(* Exchange for TLC.                                                        *)
EXTENDS Exchange, TLC

CONSTANTS a, b, s

\* a is two cells high; s has a window of its own.
MCSize == [i \in Item |-> IF i = a THEN 2 ELSE 1]

\* No items; or a swap has put b beside s.
MCLoaded ==
    {[c \in Cell |-> NoItem], [c \in Cell |-> IF c = Num THEN b ELSE
                                              IF c = Num + 1 THEN s ELSE NoItem]}

\* More than a purse may hold after an exchange; what can be offered.
MCAmount == {GoldMax, -1}

Symmetry == Permutations(Player)
=============================================================================
