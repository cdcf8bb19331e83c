----------------------------- MODULE MCItemCache -----------------------------
(* ItemCache for TLC, with the claim of the code that does not hold.         *)
EXTENDS ItemCache, TLC

Symmetry == Permutations(Player) \cup Permutations(Core)

\* "Hotfix prevent item copy" (questlua_pc.cpp:2301) asks for a flush and takes
\* the player off 3 seconds later: no item is on two cores at once, unless a
\* channel overtook another.
NoItemCopy ==
    \A i \in Item \ raced, b, c \in Core :
        on[b][i] # Nobody /\ on[c][i] # Nobody => b = c

\* Bound: what follows an overtaking is not looked at.
InOrder == raced = {}
=============================================================================
