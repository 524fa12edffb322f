----------------------------- MODULE GameRecord -----------------------------
(***************************************************************************)
(* What the rest of the server relies on of a game: its outcome is decided *)
(* once, the database stores that outcome or drops the game, once, and the *)
(* result is applied to the players' ratings and counts at most once and   *)
(* only after the outcome is durable ("Persist the authoritative final     *)
(* game state before any external result side effects", Game.save_game).   *)
(* Between the two, a restart finds a stored game whose effects may still  *)
(* be pending.                                                             *)
(***************************************************************************)
EXTENDS Naturals

CONSTANTS Outcomes, NoOutcome, Discarded

VARIABLES
    outcome,    \* the outcome, or NoOutcome while the game is in play
    stored,     \* the outcome in the database, NoOutcome or Discarded
    applied     \* times the result was applied to the players

recordVars == <<outcome, stored, applied>>

Init == outcome = NoOutcome /\ stored = NoOutcome /\ applied = 0

Decide ==
    /\ outcome = NoOutcome
    /\ outcome' \in Outcomes
    /\ UNCHANGED <<stored, applied>>

Store ==
    /\ outcome # NoOutcome /\ stored = NoOutcome
    /\ stored' = outcome
    /\ UNCHANGED <<outcome, applied>>

Discard ==
    /\ outcome # NoOutcome /\ stored = NoOutcome
    /\ stored' = Discarded
    /\ UNCHANGED <<outcome, applied>>

Apply ==
    /\ stored \notin {NoOutcome, Discarded}
    /\ applied = 0
    /\ applied' = 1
    /\ UNCHANGED <<outcome, stored>>

Next == Decide \/ Store \/ Discard \/ Apply

Spec == Init /\ [][Next]_recordVars
=============================================================================
