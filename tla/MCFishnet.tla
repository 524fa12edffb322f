---------------------------- MODULE MCFishnet -----------------------------
(* Two workers and one move of each kind for TLC. *)
EXTENDS Fishnet, TLC

CONSTANTS w1, w2, theHuman, e4, e5

\* Workers are interchangeable.
Symmetry == Permutations(Workers)
=============================================================================
