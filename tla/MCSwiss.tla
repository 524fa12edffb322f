------------------------------- MODULE MCSwiss -------------------------------
(* Small tournaments for TLC. *)
EXTENDS Swiss, TLC

CONSTANTS anna, boris, carla, d1

Symmetry == Permutations({anna, boris, carla})

=============================================================================
