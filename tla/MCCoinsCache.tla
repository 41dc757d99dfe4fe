---------------------------- MODULE MCCoinsCache ----------------------------
(* CoinsCache with two outpoints, two coins and two blocks.                 *)
EXTENDS CoinsCache, TLC

\* Outpoints, coins and blocks are only compared for equality.
Symmetry == Permutations(Outpoint) \cup Permutations(Coin) \cup Permutations(Block)
=============================================================================
