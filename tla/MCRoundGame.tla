---------------------------- MODULE MCRoundGame ----------------------------
EXTENDS RoundGame, TLC

CONSTANTS w1, w2, b1, tw, tv, tb

MCOwner == [p \in Conns \cup Tasks |-> IF p \in {w1, w2, tw, tv} THEN White
                                       ELSE Black]

\* White's two tabs, and the tasks their closing starts, are interchangeable.
WhiteSymmetry == Permutations(Conns \ {b1}) \cup Permutations(Tasks \ {tb})
=============================================================================
