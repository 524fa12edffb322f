---------------------------- MODULE MCGameCache ----------------------------
EXTENDS GameCache, TLC

CONSTANTS g1, g2, g3, white, black, guest

\* Game objects are built in any order.
Symmetry == Permutations(Games)
=============================================================================
