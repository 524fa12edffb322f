------------------------------- MODULE MCLobby -------------------------------
(* A small lobby for TLC. *)
EXTENDS Lobby, TLC

CONSTANTS anna, boris, carla, ta, tb, tc, td

MCOwner == [t \in Tabs |-> CASE t = ta -> anna [] t = tc -> carla [] OTHER -> boris]

\* Whom anna challenges: carla with her one tab, or boris with his two.
AnnaCarla == {<<anna, carla>>}
AnnaBoris == {<<anna, boris>>}

\* The two tabs of boris serve the same requests.
TabSymmetry == Permutations({tb, td})

=============================================================================
