---------------------------- MODULE MCItemIDRange ----------------------------
(* ItemIDRange for TLC, with the claim of the code that does not hold.       *)
EXTENDS ItemIDRange, TLC

MCRanges == <<<<1, 3>>, <<4, 5>>, <<6, 7>>, <<8, 9>>>>
Symmetry == Permutations(Core)

\* "Unique ID" (item_manager.cpp:279): no item is created under the id of
\* another.
UniqueIDs == duplicated = {}
=============================================================================
