-------------------------- MODULE SwissRoundsProof --------------------------
(***************************************************************************)
(* The pairing of a round and the end of the tournament keep what          *)
(* SwissStandingsProof states, and what follows from it: points stand at   *)
(* their games, rounds are stored one by one with one entry for each       *)
(* player, who did not show up stays out, and a tournament that is stored  *)
(* as finished is complete.                                                *)
(***************************************************************************)
EXTENDS SwissStandingsProof

-----------------------------------------------------------------------------
(* A pairing coroutine, before it has the pairings and at the end *)

\* One coroutine pairs at a time.
LEMMA Alone ==
    ASSUME State, NEW pr \in Pairers, Pairing(pr)
    PROVE  /\ phase = "up" /\ ongoing = made[pr]
           /\ \A other \in Pairers \ {pr} :
                  ppc[other] = "idle" /\ made[other] = {} /\ cur[other] = None
           /\ \A e \in Entries :
                /\ InHand(e) <=> \/ e \in made[pr]
                                 \/ /\ cur[pr] = e
                                    /\ ppc[pr] \in {"bye", "byedoc", "absent", "absentdoc"}
                /\ Present(e) <=> gdoc[e] # "none" \/ pdoc[e] # "none" \/ cur[pr] = e
<1> USE DEF State, SInv
<1>1. phase = "up"
    BY NoPairing
<1>2. \A other \in Pairers \ {pr} : ppc[other] = "idle" /\ made[other] = {} /\ cur[other] = None
    BY DEF Solo, Opening, Pairing, Filling
<1>3. \A e \in Entries : e # None
    BY SwissAssumption
<1> QED
    BY <1>1, <1>2, <1>3 DEF Opening, InHand, Present

\* Nobody has made anything of a round, before the step and after.
EmptyHanded ==
    \A pr \in Pairers : /\ made[pr] = {} /\ cur[pr] = None
                        /\ made'[pr] = {} /\ cur'[pr] = None

\* The stored rounds, when entries are settled at most.
LEMMA KeepRounds ==
    ASSUME State, SameStandings, UNCHANGED <<gpc, todo, phase>>, EmptyHanded, phase = "up"
    PROVE  /\ Kinds' /\ Sorted' /\ Docs' /\ Unique' /\ Ordered'
           /\ Remembered' /\ Pointed' /\ Documented' /\ Playing'
           /\ (\A pr \in Pairers : ppc'[pr] \notin Filling) => Fills' /\ Planned'
           /\ \A e \in Entries : /\ Present(e)' <=> Present(e)
                                 /\ Settled(e)' <=> Settled(e)
                                 /\ Present(e) <=> gdoc[e] # "none" \/ pdoc[e] # "none"
<1> USE DEF State, SInv
<1>1. \A e \in Entries : e # None
    BY SwissAssumption
<1>2. \A e \in Entries : /\ ~InHand(e) /\ ~InHand(e)'
                         /\ Present(e) <=> gdoc[e] # "none" \/ pdoc[e] # "none"
                         /\ Present(e)' <=> Present(e)
    BY <1>1 DEF EmptyHanded, InHand, Present, SameStandings
<1>3. /\ \A e \in Entries : Settled(e)' <=> Settled(e)
      /\ \A p \in Players : /\ GameSet(p)' = GameSet(p) /\ PointSet(p)' = PointSet(p)
                            /\ ScoredSet(p)' = ScoredSet(p)
    BY SettledKeeps DEF SameStandings, GameSet, PointSet, ScoredSet
<1>4. Kinds' /\ Sorted'
    BY DEF Kinds, Sorted, SameStandings
<1>5. Docs'
    BY <1>3 DEF Docs, SameStandings
<1>6. Unique' /\ Ordered'
    BY <1>2, <1>3 DEF Book, Unique, Ordered, SameStandings
<1>7. Remembered'
    BY <1>2, <1>3 DEF Remembered, SameStandings
<1>8. Pointed'
    BY <1>3 DEF Pointed, SameStandings
<1>9. Documented'
    BY <1>1, <1>3 DEF Documented, SameStandings, EmptyHanded
<1>10. Playing'
    <2>1. \A e \in Entries : ~\E pr \in Pairers : e \in made[pr]
        BY DEF EmptyHanded
    <2>2. \A e \in Entries : \A p \in who[e] : PointSet(p)' = PointSet(p) /\ ScoredSet(p)' = ScoredSet(p)
        BY <1>3, Types
    <2>3. UNCHANGED <<kind, who, gdoc, pdoc, ongoing, rolled, gpc, todo, phase>>
        BY DEF SameStandings
    <2> QED
        BY <2>1, <2>2, <2>3 DEF Playing
<1>11. (\A pr \in Pairers : ppc'[pr] \notin Filling) => Fills' /\ Planned'
    BY DEF Fills, Planned
<1> QED
    BY <1>2, <1>3, <1>4, <1>5, <1>6, <1>7, <1>8, <1>9, <1>10, <1>11

\* When no round is being paired and no game is in play, every entry is settled.
LEMMA AllSettled ==
    ASSUME State, phase = "up", ongoing = {}, \A pr \in Pairers : ~Pairing(pr),
           NEW e \in Entries, Present(e)
    PROVE  Settled(e) /\ (status = "started" => rnd[e] <= tdoc.cr)
<1> USE DEF State, SInv
<1>1. \A pr \in Pairers : ppc[pr] = "idle" /\ made[pr] = {} /\ cur[pr] = None
    BY DEF Opening, Pairing, Filling
<1>2. gdoc[e] # "none" \/ pdoc[e] # "none"
    BY <1>1, SwissAssumption DEF Present
<1>3. pdoc[e] # "none"
    BY <1>1, <1>2, SwissAssumption DEF Documented
<1>4. pdoc[e] # "live"
    BY DEF Docs, Documented
<1>5. Settled(e)
    BY <1>1, <1>3, <1>4, SwissAssumption, Types DEF Documented
<1>6. status = "started" => rnd[e] <= tdoc.cr
    <2>1. rnd[e] # 0
        BY DEF Book, InRounds
    <2>2. status = "started" => tdoc.status = "started" /\ tdoc.inProgress = 0
        BY DEF Registers
    <2>3. status = "started" => rnd[e] \in 1..tdoc.cr
        BY <2>1, <2>2 DEF Book, InRounds
    <2> QED
        BY <2>3, RegisterTypes DEF Documents
<1> QED
    BY <1>5, <1>6

\* A coroutine begins to pair a round.
LEMMA BeginKeeps ==
    ASSUME State, NEW pr \in Pairers, ppc[pr] = "idle", phase = "up", status = "started",
           ongoing = {}, Begin(pr, round + 1), SameStandings, ~Disturbed',
           UNCHANGED <<gpc, todo, phase, tdoc>>
    PROVE  SInv'
<1> USE DEF State, SInv
<1>1. /\ round' = round + 1 /\ UNCHANGED <<status, cur, made>>
      /\ ppc'[pr] \in {"mark", "chat"}
      /\ ppc'[pr] = "mark" => inProgress' = round + 1
      /\ ppc'[pr] = "chat" => inProgress' = inProgress
      /\ rest'[pr] = free \ paused
      /\ \A other \in Pairers \ {pr} : ppc'[other] = ppc[other]
    BY PairerTypes DEF Begin, Moves, WaitingPlayers
<1>2. \A other \in Pairers : ~Pairing(other)
    <2>1. raced' = (raced \/ \E other \in Pairers \ {pr} : Pairing(other)) /\ ~raced'
        BY DEF Begin, Races, Disturbed
    <2> QED
        BY <2>1 DEF Pairing
<1>3. round = tdoc.cr /\ inProgress = 0 /\ tdoc.inProgress = 0 /\ tdoc.status = "started"
    BY <1>2 DEF Registers
<1>4. \A other \in Pairers : ppc[other] = "idle" /\ made[other] = {} /\ cur[other] = None
    BY <1>2 DEF Pairing, Opening, Filling
<1>5. EmptyHanded /\ \A other \in Pairers : ppc'[other] \notin Filling
    BY <1>1, <1>4 DEF EmptyHanded, Filling
<1>6. /\ Kinds' /\ Sorted' /\ Docs' /\ Unique' /\ Ordered'
      /\ Remembered' /\ Pointed' /\ Documented' /\ Playing' /\ Fills' /\ Planned'
      /\ \A e \in Entries : /\ Present(e)' <=> Present(e)
                            /\ Settled(e)' <=> Settled(e)
    BY <1>5, KeepRounds
<1>7. InRounds' /\ Full'
    BY <1>6 DEF Book, InRounds, Full, SameStandings
<1>8. Registers'
    <2>1. \E other \in Pairers : Pairing(other)'
        BY <1>1 DEF Pairing
    <2>2. phase' = "up" /\ status' = "started" /\ rolling' = {}
        BY <1>1 DEF Registers, SameStandings
    <2> QED
        BY <1>3, <2>1, <2>2 DEF Registers
<1>9. Solo'
    BY <1>1, <1>4 DEF Solo, Pairing
<1>10. Opening'
    <2>1. \A e \in Entries : Present(e) => Settled(e) /\ rnd[e] <= tdoc.cr
        BY <1>2, AllSettled
    <2>2. \A other \in Pairers : ppc'[other] # "idle" => other = pr
        BY <1>1, <1>4
    <2>3. ongoing' = {} /\ UNCHANGED <<rnd, paused>>
        BY DEF SameStandings
    <2> QED
        BY <1>1, <1>3, <1>4, <1>6, <2>1, <2>2, <2>3 DEF Opening, Pairing, Filling
<1> QED
    BY <1>6, <1>7, <1>8, <1>9, <1>10 DEF Book

\* The mark of the round in progress is set or taken away.
LEMMA MarkKeeps ==
    ASSUME State, NEW pr \in Pairers, NoLegalPairing(pr) \/ Unmark(pr) PROVE SInv'
<1> USE DEF State, SInv
<1>1. /\ SameStandings /\ UNCHANGED <<gpc, todo, phase, status, round, cur, made>>
      /\ \A other \in Pairers \ {pr} : ppc'[other] = ppc[other]
    BY PairerTypes DEF NoLegalPairing, Unmark, SameStandings, untouchedByPairing, playerDocs,
           gameDocs, gameProcs, roundVars, history, Moves
<1>2. /\ inProgress' = 0 /\ tdoc'.status = tdoc.status /\ tdoc'.cr = tdoc.cr
      /\ \/ ppc[pr] = "mark" /\ ppc'[pr] = "unmark" /\ tdoc'.inProgress = round
         \/ ppc[pr] = "unmark" /\ ppc'[pr] = "chat" /\ tdoc'.inProgress = 0
    <2>1. CASE NoLegalPairing(pr)
        <3>1. inProgress = round
            BY <2>1 DEF NoLegalPairing, Opening
        <3> QED
            BY <2>1, <3>1, PairerTypes, RegisterTypes DEF NoLegalPairing, Documents, Moves
    <2>2. CASE Unmark(pr)
        <3>1. inProgress = 0 /\ inProgress' = inProgress
            BY <2>2 DEF Unmark, Opening, roundVars
        <3> QED
            BY <2>2, <3>1, PairerTypes, RegisterTypes DEF Unmark, Documents, Moves
    <2> QED
        BY <2>1, <2>2
<1>3. Pairing(pr)
    BY <1>2 DEF Pairing
<1>4. /\ phase = "up" /\ ongoing = made[pr] /\ made[pr] = {} /\ cur[pr] = None
      /\ \A other \in Pairers \ {pr} :
             ppc[other] = "idle" /\ made[other] = {} /\ cur[other] = None
    BY <1>2, <1>3, Alone DEF Opening, Filling
<1>5. EmptyHanded /\ \A other \in Pairers : ppc'[other] \notin Filling
    BY <1>1, <1>2, <1>4 DEF EmptyHanded, Filling
<1>6. /\ Kinds' /\ Sorted' /\ Docs' /\ Unique' /\ Ordered'
      /\ Remembered' /\ Pointed' /\ Documented' /\ Playing' /\ Fills' /\ Planned'
      /\ \A e \in Entries : /\ Present(e)' <=> Present(e)
                            /\ Settled(e)' <=> Settled(e)
    BY <1>4, <1>5, <1>1, KeepRounds
<1>7. /\ round = tdoc.cr + 1 /\ status = "started" /\ tdoc.status = "started"
      /\ \A e \in Entries : Present(e) => Settled(e) /\ rnd[e] <= tdoc.cr /\ rnd[e] # 0
    <2>1. round = tdoc.cr + 1 /\ status = "started"
          /\ \A e \in Entries : Present(e) => Settled(e) /\ rnd[e] <= tdoc.cr
        BY <1>2 DEF Opening
    <2> QED
        BY <2>1 DEF Registers, Book, InRounds
<1>8. InRounds' /\ Full'
    <2>1. \A e \in Entries : Present(e) => rnd[e] \in 1..tdoc.cr
        BY <1>7, Types, RegisterTypes DEF Documents
    <2>2. \A e \in Entries : kind[e] # "none" => rnd[e] <= tdoc.cr + 1
        BY <1>7 DEF Book, InRounds
    <2> QED
        BY <1>1, <1>2, <1>6, <1>7, <2>1, <2>2 DEF Book, InRounds, Full, SameStandings
<1>9. Registers'
    <2>1. \E other \in Pairers : Pairing(other)'
        BY <1>2 DEF Pairing
    <2>2. phase' = "up" /\ status' = "started" /\ rolling' = {} /\ tdoc'.status = "started"
        BY <1>1, <1>2, <1>4, <1>7 DEF Registers, SameStandings
    <2> QED
        BY <2>1, <2>2 DEF Registers
<1>10. Solo'
    BY <1>1, <1>4 DEF Solo, Pairing
<1>11. Opening'
    <2>1. \A other \in Pairers : ppc'[other] # "idle" => other = pr
        BY <1>1, <1>4
    <2>2. UNCHANGED <<rnd, paused, ongoing>>
        BY <1>1 DEF SameStandings
    <2> QED
        BY <1>1, <1>2, <1>4, <1>6, <1>7, <2>1, <2>2 DEF Opening, Pairing, Filling
<1> QED
    BY <1>6, <1>8, <1>9, <1>10, <1>11 DEF Book

-----------------------------------------------------------------------------
(* The entries of a round *)

\* The state in which a coroutine makes the entries of a round.
LEMMA AtFill ==
    ASSUME State, NEW pr \in Pairers, ppc[pr] \in Filling
    PROVE  /\ Pairing(pr) /\ phase = "up" /\ ongoing = made[pr]
           /\ \A other \in Pairers \ {pr} :
                  ppc[other] = "idle" /\ made[other] = {} /\ cur[other] = None
           /\ round = tdoc.cr + 1 /\ inProgress = round /\ tdoc.inProgress = round
           /\ round \in 1..Rounds /\ tdoc.cr \in Nat
           /\ status = "started" /\ tdoc.status = "started" /\ rolling = {}
           /\ \A e \in Entries :
                /\ Present(e) => rnd[e] \in 1..round
                /\ Present(e) /\ rnd[e] # round => Settled(e) /\ rnd[e] \in 1..tdoc.cr
                /\ kind[e] # "none" => rnd[e] \in 0..round
<1> USE DEF State, SInv
<1>1. Pairing(pr)
    BY DEF Pairing, Filling
<1>2. /\ phase = "up" /\ ongoing = made[pr]
      /\ \A other \in Pairers \ {pr} :
             ppc[other] = "idle" /\ made[other] = {} /\ cur[other] = None
    BY <1>1, Alone
<1>3. /\ round = tdoc.cr + 1 /\ status = "started"
      /\ \A e \in Entries : Present(e) /\ rnd[e] <= tdoc.cr => Settled(e)
      /\ inProgress = round /\ tdoc.inProgress = round
    BY DEF Opening, Fills
<1>4. tdoc.status = "started" /\ rolling = {}
    BY <1>2, <1>3 DEF Registers
<1>5. tdoc.cr \in Nat /\ round \in 1..Rounds
    BY <1>3, RegisterTypes DEF Documents
<1>6. ASSUME NEW e \in Entries
      PROVE  /\ Present(e) => rnd[e] \in 1..round
             /\ Present(e) /\ rnd[e] # round => Settled(e) /\ rnd[e] \in 1..tdoc.cr
             /\ kind[e] # "none" => rnd[e] \in 0..round
    <2>1. Present(e) => rnd[e] \in 1..tdoc.cr \/ rnd[e] = round
        BY <1>3, <1>4 DEF Book, InRounds
    <2>2. kind[e] # "none" => rnd[e] <= round
        BY <1>3, <1>4 DEF Book, InRounds
    <2>3. rnd[e] \in Nat
        BY Types, RegisterTypes
    <2> QED
        BY <1>3, <1>5, <2>1, <2>2, <2>3
<1> QED
    BY <1>1, <1>2, <1>3, <1>4, <1>5, <1>6

\* It goes on alone.
LEMMA FillsAlone ==
    ASSUME State, NEW pr \in Pairers, Pairing(pr), ppc'[pr] # "idle",
           \A other \in Pairers \ {pr} : ppc'[other] = ppc[other],
           UNCHANGED <<phase, status, rolling>>, tdoc'.status = tdoc.status,
           status = "started"
    PROVE  Solo' /\ Registers'
<1> USE DEF State, SInv
<1>1. /\ phase = "up" /\ tdoc.status = "started" /\ rolling = {}
      /\ \A other \in Pairers \ {pr} : ppc[other] = "idle"
    BY Alone DEF Registers
<1>2. Solo'
    BY <1>1 DEF Solo, Pairing
<1>3. Registers'
    BY <1>1 DEF Registers, Pairing
<1> QED
    BY <1>2, <1>3

\* The pairing of a bye or an absence is stored.
LEMMA StoreUnplayedKeeps ==
    ASSUME State, NEW pr \in Pairers, StoreUnplayed(pr) PROVE SInv'
<1> USE DEF State, SInv
<1> DEFINE c == cur[pr]
<1>1. /\ UNCHANGED <<kind, who, rnd, noshow, gdoc, scored, away, games, points, paused, ongoing,
                     rolling, rolled, gpc, todo, phase, status, round, inProgress, tdoc, plan,
                     rest, cur, made>>
      /\ pdoc' = [pdoc EXCEPT ![c] = "over"]
    BY DEF StoreUnplayed, untouchedByPairing, playerDocs, gameDocs, gameProcs, roundVars, history
<1>2. /\ ppc[pr] \in {"bye", "absent"} /\ ppc[pr] \in Filling /\ c # None /\ c \in Entries
      /\ ppc[pr] = "bye" => ppc'[pr] = "byedoc"
      /\ ppc[pr] = "absent" => ppc'[pr] = "absentdoc"
      /\ \A other \in Pairers \ {pr} : ppc'[other] = ppc[other]
    BY PairerTypes DEF StoreUnplayed, Moves, Filling
<1>3. /\ pdoc'[c] = "over" /\ \A e \in Entries \ {c} : pdoc'[e] = pdoc[e]
    BY <1>1, <1>2, Types
<1>4. /\ Pairing(pr) /\ phase = "up" /\ ongoing = made[pr]
      /\ \A other \in Pairers \ {pr} :
             ppc[other] = "idle" /\ made[other] = {} /\ cur[other] = None
      /\ round = tdoc.cr + 1 /\ inProgress = round /\ tdoc.inProgress = round
      /\ round \in 1..Rounds /\ tdoc.cr \in Nat
      /\ status = "started" /\ tdoc.status = "started"
    BY <1>2, AtFill
<1>5. /\ kind[c] \in {"U", "Z"} /\ gdoc[c] = "none" /\ gpc[c] = "none" /\ c \notin made[pr]
      /\ \A p \in who[c] : c \in PointSet(p)
      /\ rnd[c] = round /\ Present(c)
    <2>1. kind[c] \in {"U", "Z"}
        BY <1>2 DEF IInv, PairInv, Resting
    <2>2. gdoc[c] = "none" /\ gpc[c] = "none"
        BY <1>2, <2>1 DEF Kinds
    <2>3. c \notin made[pr]
        BY <1>2, <2>2 DEF Fills
    <2> QED
        BY <1>2, <2>1, <2>2, <2>3 DEF Fills, Present
<1>6. /\ \A e \in Entries : /\ Present(e)' <=> Present(e)
                            /\ Settled(e) => Settled(e)'
                            /\ InHand(e)' <=> InHand(e)
      /\ \A p \in Players : /\ GameSet(p)' = GameSet(p) /\ PointSet(p)' = PointSet(p)
                            /\ ScoredSet(p)' = ScoredSet(p)
    <2>1. \A e \in Entries : Present(e)' <=> Present(e)
        BY <1>1, <1>3, <1>5 DEF Present
    <2>2. \A p \in Players : /\ GameSet(p)' = GameSet(p) /\ PointSet(p)' = PointSet(p)
                             /\ ScoredSet(p)' = ScoredSet(p)
        BY <1>1 DEF GameSet, PointSet, ScoredSet
    <2>3. \A e \in Entries : Settled(e) => Settled(e)'
        BY <1>1, <1>3, <2>2, Types DEF Settled
    <2>4. \A e \in Entries : InHand(e)' <=> InHand(e)
        BY <1>1, <1>2 DEF InHand
    <2> QED
        BY <2>1, <2>2, <2>3, <2>4
<1>7. Kinds' /\ Sorted'
    BY <1>1 DEF Kinds, Sorted
<1>8. Book'
    <2>1. \A e \in Entries : pdoc[e] # "none" => pdoc'[e] # "none"
        BY <1>3
    <2> QED
        BY <1>1, <1>6, <2>1, BookKeeps DEF SameRound
<1>9. Docs'
    BY <1>1, <1>3, <1>4, <1>5, <1>6, Members DEF Docs
<1>10. Remembered'
    <2>1. InHand(c)
        BY <1>2 DEF InHand
    <2> QED
        BY <1>1, <1>3, <1>4, <1>6, <2>1 DEF Remembered
<1>11. Pointed'
    BY <1>1, <1>4, <1>6 DEF Pointed
<1>12. Documented'
    BY <1>1, <1>2, <1>3, <1>4, <1>5, <1>6 DEF Documented
<1>13. Playing'
    <2>1. \A e \in Entries : \A p \in who[e] : PointSet(p)' = PointSet(p) /\ ScoredSet(p)' = ScoredSet(p)
        BY <1>6, Types
    <2>2. \A e \in Entries : e \in ongoing => e # c
        BY <1>4, <1>5
    <2> QED
        BY <1>1, <1>3, <2>1, <2>2 DEF Playing
<1>14. Solo' /\ Registers'
    BY <1>1, <1>2, <1>4, FillsAlone
<1>15. Opening'
    BY <1>1, <1>2, <1>4, <1>6 DEF Opening, Pairing, Filling
<1>16. Fills'
    <2>1. UNCHANGED <<who, rnd, gdoc, plan, rest, cur, made, round, inProgress, tdoc>>
        BY <1>1
    <2>2. \A p \in who[c] : c \in PointSet(p)'
        BY <1>2, <1>5, <1>6, Types
    <2>3. \A e \in Entries : pdoc[e] = "over" => pdoc'[e] = "over"
        BY <1>3
    <2>4. \A e \in made[pr] : e \in Entries /\ pdoc'[e] = pdoc[e]
        BY <1>3, <1>5, PairerTypes
    <2>5. \A other \in Pairers : ppc'[other] \in Filling => other = pr
        BY <1>2, <1>4 DEF Filling
    <2> QED
        BY <1>2, <1>3, <1>4, <2>1, <2>2, <2>3, <2>4, <2>5 DEF Fills, Filling
<1>17. Planned'
    BY <1>1, <1>2, <1>4, <1>6 DEF Planned, Filling
<1> QED
    BY <1>7, <1>8, <1>9, <1>10, <1>11, <1>12, <1>13, <1>14, <1>15, <1>16, <1>17

\* So is the player it is of.
LEMMA SaveUnplayedKeeps ==
    ASSUME State, NEW pr \in Pairers, SaveUnplayed(pr) PROVE SInv'
<1> USE DEF State, SInv
<1>0. PICK c : c = cur[pr]
    OBVIOUS
<1>1. /\ UNCHANGED <<kind, who, rnd, noshow, gdoc, pdoc, games, points, paused, ongoing,
                     rolling, rolled, gpc, todo, phase, status, round, inProgress, tdoc, plan,
                     rest, made>>
      /\ cur' = [cur EXCEPT ![pr] = None]
    BY DEF SaveUnplayed, untouchedByPairing, gameDocs, gameProcs, roundVars, history
<1>2. /\ ppc[pr] \in {"byedoc", "absentdoc"} /\ ppc[pr] \in Filling
      /\ ppc[pr] = "byedoc" => ppc'[pr] = "create"
      /\ ppc[pr] = "absentdoc" => ppc'[pr] = "absent"
      /\ \A other \in Pairers \ {pr} : ppc'[other] = ppc[other]
    BY PairerTypes DEF SaveUnplayed, Moves, Filling
<1>3. /\ Pairing(pr) /\ phase = "up" /\ ongoing = made[pr]
      /\ \A other \in Pairers \ {pr} :
             ppc[other] = "idle" /\ made[other] = {} /\ cur[other] = None
      /\ round = tdoc.cr + 1 /\ inProgress = round /\ tdoc.inProgress = round
      /\ status = "started" /\ tdoc.status = "started"
    BY <1>2, AtFill
<1>4. /\ c = cur[pr] /\ c # None /\ c \in Entries /\ pdoc[c] = "over" /\ rnd[c] = round
      /\ \A p \in who[c] : c \in PointSet(p)
      /\ kind[c] \in {"U", "Z"} /\ c \notin made[pr]
    <2>1. /\ c # None /\ pdoc[c] = "over" /\ rnd[c] = round
          /\ \A p \in who[c] : c \in PointSet(p)
        BY <1>0, <1>2 DEF Fills
    <2>2. c \in Entries /\ kind[c] \in {"U", "Z"}
        BY <1>0, <1>2, <2>1, PairerTypes DEF IInv, PairInv, Resting
    <2>3. c \notin made[pr]
        BY <1>2, <2>2 DEF Fills, Kinds
    <2> QED
        BY <1>0, <2>1, <2>2, <2>3
<1>5. PICK p \in who[c] : SavePlayer(p)
    BY <1>0 DEF SaveUnplayed
<1>6. p \in Players /\ who[c] = {p}
    BY <1>4, <1>5, Types DEF Kinds
<1>7. /\ cur'[pr] = None /\ \A other \in Pairers \ {pr} : cur'[other] = cur[other]
    BY <1>1, PairerTypes
<1>8. /\ ScoredSet(p)' = PointSet(p) /\ Rising(scored'[p])
      /\ \A q \in Players \ {p} : ScoredSet(q)' = ScoredSet(q) /\ scored'[q] = scored[q]
    BY <1>5, <1>6, SavedIs DEF SavePlayer
<1>9. \A q \in Players : ScoredSet(q) \subseteq PointSet(q) /\ ScoredSet(q) \subseteq ScoredSet(q)'
    BY <1>3, <1>6, <1>8 DEF Pointed
<1>10. \A q \in Players : GameSet(q)' = GameSet(q) /\ PointSet(q)' = PointSet(q)
    BY <1>1 DEF GameSet, PointSet
<1>11. Settled(c)' /\ \A e \in Entries : Settled(e) => Settled(e)'
    <2>1. c \in ScoredSet(p)'
        BY <1>4, <1>5, <1>8
    <2>2. Settled(c)'
        <3>1. pdoc'[c] = "over" /\ who'[c] = {p}
            BY <1>1, <1>4, <1>6
        <3> QED
            BY <2>1, <3>1 DEF Settled
    <2>3. \A e \in Entries : Settled(e) => Settled(e)'
        BY <1>1, <1>9, Types DEF Settled
    <2> QED
        BY <2>2, <2>3
<1>12. \A e \in Entries : Present(e)' <=> Present(e)
    BY <1>1, <1>3, <1>4, <1>7, SwissAssumption DEF Present
<1>13. /\ \A e \in Entries : InHand(e)' => InHand(e)
       /\ \A e \in Entries : InHand(e) => InHand(e)' \/ e = c
       /\ ~InHand(c)'
    BY <1>1, <1>2, <1>3, <1>4, <1>7, SwissAssumption DEF InHand
<1>14. Kinds' /\ Sorted'
    BY <1>1, <1>6, <1>8 DEF Kinds, Sorted
<1>15. Book'
    BY <1>1, <1>11, <1>12, BookKeeps DEF SameRound
<1>16. Docs'
    <2>1. ASSUME NEW e \in PointSet(p)
          PROVE  /\ e \in Entries /\ p \in who[e] /\ gdoc[e] # "live"
                 /\ pdoc[e] = "over" \/ gdoc[e] = "over"
                 /\ noshow[e] = p => p \in away'
        <3>1. /\ e \in Entries /\ p \in who[e] /\ gdoc[e] # "live"
              /\ noshow[e] = p => p \in paused
              /\ ~InHand(e) \/ pdoc[e] # "none" => pdoc[e] = "over" \/ gdoc[e] = "over"
            BY <1>3, <1>6, PointsStored
        <3>2. CASE InHand(e)
            <4>1. e = c \/ e \in made[pr]
                BY <1>3, <1>4, <3>1, <3>2, SwissAssumption DEF InHand
            <4>2. e \notin made[pr]
                BY <1>2, <3>1 DEF Fills
            <4> QED
                BY <1>4, <1>5, <3>1, <4>1, <4>2 DEF SavePlayer
        <3> QED
            BY <1>5, <3>1, <3>2 DEF SavePlayer
    <2>2. \A q \in Players \ {p} : q \in away' <=> q \in away
        BY <1>5 DEF SavePlayer
    <2> QED
        BY <1>1, <1>3, <1>6, <1>8, <2>1, <2>2 DEF Docs
<1>17. Remembered'
    BY <1>1, <1>3, <1>4, <1>10, <1>13 DEF Remembered
<1>18. Pointed'
    <2>1. \A q \in Players : ScoredSet(q)' \subseteq PointSet(q)
        BY <1>6, <1>8, <1>9
    <2> QED
        BY <1>1, <1>3, <1>10, <2>1 DEF Pointed
<1>19. Documented'
    <2>1. \A e \in Entries : pdoc[e] = "over" => Settled(e)'
        <3>1. \A e \in Entries : pdoc[e] = "over" => Settled(e) \/ e = c
            BY <1>3, <1>4, SwissAssumption DEF Documented
        <3> QED
            BY <1>11, <3>1
    <2>2. \A e \in Entries : gdoc[e] # "none" => pdoc[e] # "none" \/ e \in made[pr]
        BY <1>2, <1>3, <1>4, SwissAssumption DEF Documented
    <2>3. \A e \in Entries : pdoc[e] = "live" /\ gdoc[e] # "none" => e \in ongoing
        BY <1>3 DEF Documented
    <2> QED
        BY <1>1, <1>3, <2>1, <2>2, <2>3 DEF Documented
<1>20. Playing'
    <2>1. \A e \in Entries : \A q \in who[e] :
              PointSet(q)' = PointSet(q) /\ ScoredSet(q) \subseteq ScoredSet(q)'
        BY <1>9, <1>10, Types
    <2> QED
        BY <1>1, <2>1 DEF Playing
<1>21. Solo' /\ Registers'
    BY <1>1, <1>2, <1>3, FillsAlone
<1>22. Opening'
    BY <1>1, <1>2, <1>3, <1>7, <1>11, <1>12 DEF Opening, Pairing, Filling
<1>23. Fills'
    <2>1. UNCHANGED <<who, rnd, gdoc, pdoc, plan, rest, made, round, inProgress, tdoc>>
        BY <1>1
    <2>2. \A other \in Pairers : ppc'[other] \in Filling => other = pr
        BY <1>2, <1>3 DEF Filling
    <2>3. \A q \in rest[pr] : \E e \in Entries : q \in who[e] /\ rnd[e] = round /\ pdoc[e] = "over"
        BY <1>2, <1>4 DEF Fills
    <2> QED
        BY <1>2, <1>3, <1>7, <2>1, <2>2, <2>3 DEF Fills
<1>24. Planned'
    BY <1>1, <1>2, <1>3, <1>12 DEF Planned, Filling
<1> QED
    BY <1>14, <1>15, <1>16, <1>17, <1>18, <1>19, <1>20, <1>21, <1>22, <1>23, <1>24

\* A game that has been stored is added to the round.
LEMMA AddGameKeeps ==
    ASSUME State, NEW pr \in Pairers, AddGame(pr) PROVE SInv'
<1> USE DEF State, SInv
<1> DEFINE c == cur[pr]
<1>1. /\ UNCHANGED <<kind, who, rnd, noshow, gdoc, pdoc, scored, away, points, paused,
                     rolling, rolled, gpc, todo, phase, status, round, inProgress, tdoc, plan,
                     rest>>
      /\ cur' = [cur EXCEPT ![pr] = None] /\ made' = [made EXCEPT ![pr] = @ \cup {c}]
      /\ ongoing' = ongoing \cup {c} /\ games' = Added(games, who[c], c)
    BY DEF AddGame, untouchedByPairing, gameDocs, playerDocs, gameProcs, roundVars, history
<1>2. /\ ppc[pr] = "add" /\ ppc[pr] \in Filling /\ ppc'[pr] = "create"
      /\ \A other \in Pairers \ {pr} : ppc'[other] = ppc[other]
    BY PairerTypes DEF AddGame, Moves, Filling
<1>3. /\ Pairing(pr) /\ phase = "up" /\ ongoing = made[pr]
      /\ \A other \in Pairers \ {pr} :
             ppc[other] = "idle" /\ made[other] = {} /\ cur[other] = None
      /\ round = tdoc.cr + 1 /\ inProgress = round /\ tdoc.inProgress = round
      /\ status = "started" /\ tdoc.status = "started"
    BY <1>2, AtFill
<1>4. /\ c # None /\ c \in Entries /\ pdoc[c] = "none" /\ gdoc[c] = "live" /\ rnd[c] = round
      /\ kind[c] = "game" /\ c \notin made[pr] /\ gpc[c] = "none" /\ Present(c) /\ ~Settled(c)
    <2>1. /\ c # None /\ pdoc[c] = "none" /\ gdoc[c] = "live" /\ rnd[c] = round
          /\ c \notin made[pr]
        BY <1>2 DEF Fills
    <2>2. c \in Entries /\ c \in Held(pr)
        BY <1>2, <2>1, PairerTypes DEF Held
    <2>3. kind[c] = "game" /\ gpc[c] = "none"
        BY <2>2 DEF IInv, PairInv, Creating
    <2> QED
        BY <2>1, <2>2, <2>3 DEF Present, Settled
<1>5. /\ cur'[pr] = None /\ made'[pr] = made[pr] \cup {c}
      /\ \A other \in Pairers \ {pr} : cur'[other] = cur[other] /\ made'[other] = made[other]
    BY <1>1, PairerTypes
<1>6. /\ \A e \in Entries : /\ Present(e)' <=> Present(e)
                            /\ Settled(e)' <=> Settled(e)
                            /\ InHand(e)' <=> InHand(e) \/ e = c
      /\ ~InHand(c)
      /\ \A p \in Players : PointSet(p)' = PointSet(p) /\ ScoredSet(p)' = ScoredSet(p)
    <2>1. \A p \in Players : PointSet(p)' = PointSet(p) /\ ScoredSet(p)' = ScoredSet(p)
        BY <1>1 DEF PointSet, ScoredSet
    <2>2. \A e \in Entries : Present(e)' <=> Present(e)
        BY <1>1, <1>3, <1>4, <1>5, SwissAssumption DEF Present
    <2>3. /\ \A e \in Entries : InHand(e)' <=> InHand(e) \/ e = c
          /\ ~InHand(c)
        BY <1>2, <1>3, <1>4, <1>5, SwissAssumption DEF InHand
    <2>4. \A e \in Entries : Settled(e)' <=> Settled(e)
        BY <1>1, SettledKeeps
    <2> QED
        BY <2>1, <2>2, <2>3, <2>4
<1>7. ASSUME NEW p \in Players
      PROVE  /\ Rising(games'[p])
             /\ GameSet(p)' = IF p \in who[c] THEN GameSet(p) \cup {c} ELSE GameSet(p)
    <2>1. games[p] \in Seq(Entries) /\ Rising(games[p])
        BY MemoryTypes DEF Sorted
    <2>2. games'[p] = IF p \in who[c] THEN Append(games[p], c) ELSE games[p]
        BY <1>1 DEF Added
    <2>3. CASE p \in who[c]
        <3>1. \A x \in ToSet(games[p]) : x # c
            BY <1>3, <1>4, <1>6 DEF Remembered, GameSet
        <3>2. \A x \in ToSet(games[p]) : x < c
            BY <1>4, <2>3, <3>1, GamesPresent, Latest DEF GameSet
        <3>3. Rising(Append(games[p], c)) /\ ToSet(Append(games[p], c)) = ToSet(games[p]) \cup {c}
            BY <1>4, <2>1, <3>2, AppendIs
        <3> QED
            BY <2>2, <2>3, <3>3 DEF GameSet
    <2> QED
        BY <2>1, <2>2, <2>3 DEF GameSet
<1>8. Kinds' /\ Sorted'
    BY <1>1, <1>7 DEF Kinds, Sorted
<1>9. Book'
    BY <1>1, <1>6, BookKeeps DEF SameRound
<1>10. Docs'
    BY <1>1, <1>6 DEF Docs
<1>11. Remembered'
    BY <1>1, <1>3, <1>4, <1>6, <1>7 DEF Remembered
<1>12. Pointed'
    BY <1>1, <1>3, <1>6, <1>7 DEF Pointed
<1>13. Documented'
    <2>1. \A e \in Entries : pdoc[e] = "over" => Settled(e)'
        BY <1>2, <1>3, <1>6, SwissAssumption DEF Documented
    <2>2. \A e \in Entries : gdoc[e] # "none" => pdoc[e] # "none" \/ e \in made'[pr]
        BY <1>3, <1>5, SwissAssumption DEF Documented
    <2>3. \A e \in Entries : pdoc[e] = "live" /\ gdoc[e] # "none" => e \in ongoing'
        BY <1>1, <1>3 DEF Documented
    <2> QED
        BY <1>1, <1>3, <2>1, <2>2, <2>3 DEF Documented
<1>14. Playing'
    <2>1. \A e \in Entries : \A q \in who[e] : PointSet(q)' = PointSet(q) /\ ScoredSet(q)' = ScoredSet(q)
        BY <1>6, Types
    <2>2. \A e \in Entries : e # c => (e \in ongoing' <=> e \in ongoing)
        BY <1>1
    <2>3. \A e \in Entries : (\E other \in Pairers : e \in made[other]) => e \in made'[pr]
        BY <1>3, <1>5
    <2> QED
        BY <1>1, <1>4, <1>5, <2>1, <2>2, <2>3 DEF Playing
<1>15. Solo' /\ Registers'
    BY <1>1, <1>2, <1>3, FillsAlone
<1>16. Opening'
    BY <1>1, <1>2, <1>3, <1>5, <1>6 DEF Opening, Pairing, Filling
<1>17. Fills'
    <2>1. \A other \in Pairers : ppc'[other] \in Filling => other = pr
        BY <1>2, <1>3 DEF Filling
    <2> QED
        BY <1>1, <1>2, <1>3, <1>4, <1>5, <2>1 DEF Fills
<1>18. Planned'
    BY <1>1, <1>2, <1>3, <1>6 DEF Planned, Filling
<1> QED
    BY <1>8, <1>9, <1>10, <1>11, <1>12, <1>13, <1>14, <1>15, <1>16, <1>17, <1>18

\* The pairings of the games are stored, and the absent players come next.
LEMMA InsertPairingsKeeps ==
    ASSUME State, NEW pr \in Pairers, InsertPairings(pr) PROVE SInv'
<1> USE DEF State, SInv
<1>1. /\ UNCHANGED <<kind, who, rnd, noshow, gdoc, scored, away, games, points, paused, ongoing,
                     rolling, rolled, gpc, todo, phase, status, round, inProgress, tdoc, plan,
                     rest, cur, made>>
      /\ \A e \in Entries : pdoc'[e] = IF e \in made[pr] THEN gdoc[e] ELSE pdoc[e]
    BY DEF InsertPairings, untouchedByPairing, gameDocs, playerDocs, gameProcs, roundVars, history
<1>2. /\ ppc[pr] = "create" /\ plan[pr] = {} /\ ppc[pr] \in Filling /\ ppc'[pr] = "absent"
      /\ \A other \in Pairers \ {pr} : ppc'[other] = ppc[other]
    BY PairerTypes DEF InsertPairings, Moves, Filling
<1>3. /\ Pairing(pr) /\ phase = "up" /\ ongoing = made[pr]
      /\ \A other \in Pairers \ {pr} :
             ppc[other] = "idle" /\ made[other] = {} /\ cur[other] = None
      /\ round = tdoc.cr + 1 /\ inProgress = round /\ tdoc.inProgress = round
      /\ status = "started" /\ tdoc.status = "started"
    BY <1>2, AtFill
<1>4. cur[pr] = None
    BY <1>2 DEF IInv, PairInv, Resting
<1>5. \A e \in made[pr] : e \in Entries /\ rnd[e] = round /\ gdoc[e] = "live" /\ kind[e] = "game"
    <2>1. \A e \in made[pr] : e \in Entries /\ e \in Held(pr)
        BY PairerTypes DEF Held
    <2> QED
        BY <1>2, <2>1 DEF Fills, IInv, PairInv, Creating
<1>6. \A e \in made[pr] : pdoc[e] # "over" /\ pdoc'[e] = "live" /\ InHand(e)
    BY <1>1, <1>5 DEF Docs, InHand
<1>7. \A e \in Entries \ made[pr] : pdoc'[e] = pdoc[e]
    BY <1>1
<1>8. /\ \A e \in Entries : /\ Present(e)' <=> Present(e)
                            /\ Settled(e)' <=> Settled(e)
                            /\ InHand(e)' <=> InHand(e)
      /\ \A p \in Players : /\ GameSet(p)' = GameSet(p) /\ PointSet(p)' = PointSet(p)
                            /\ ScoredSet(p)' = ScoredSet(p)
    <2>1. \A p \in Players : /\ GameSet(p)' = GameSet(p) /\ PointSet(p)' = PointSet(p)
                             /\ ScoredSet(p)' = ScoredSet(p)
        BY <1>1 DEF GameSet, PointSet, ScoredSet
    <2>2. \A e \in Entries : Present(e)' <=> Present(e)
        <3>1. \A e \in made[pr] : Present(e) /\ Present(e)'
            BY <1>1, <1>5 DEF Present
        <3> QED
            BY <1>1, <1>7, <3>1 DEF Present
    <2>3. \A e \in Entries : Settled(e)' <=> Settled(e)
        BY <1>1, <1>6, <1>7, <2>1, Types DEF Settled
    <2>4. \A e \in Entries : InHand(e)' <=> InHand(e)
        BY <1>1, <1>2, <1>3, <1>4, SwissAssumption DEF InHand
    <2> QED
        BY <2>1, <2>2, <2>3, <2>4
<1>9. Kinds' /\ Sorted'
    BY <1>1 DEF Kinds, Sorted
<1>10. Book'
    <2>1. \A e \in Entries : pdoc[e] # "none" => pdoc'[e] # "none"
        BY <1>6, <1>7
    <2> QED
        BY <1>1, <1>8, <2>1, BookKeeps DEF SameRound
<1>11. Docs'
    <2>1. \A e \in Entries : pdoc'[e] = "over" => pdoc[e] = "over"
        BY <1>6, <1>7
    <2>2. \A e \in Entries : pdoc[e] = "over" => pdoc'[e] = "over"
        BY <1>6, <1>7
    <2>3. \A e \in Entries : pdoc'[e] = "live" => pdoc[e] = "live" \/ gdoc[e] = "live"
        BY <1>5, <1>7
    <2> QED
        BY <1>1, <1>3, <1>8, <2>1, <2>2, <2>3, Members DEF Docs
<1>12. Remembered'
    BY <1>1, <1>3, <1>6, <1>7, <1>8 DEF Remembered
<1>13. Pointed'
    BY <1>1, <1>3, <1>8 DEF Pointed
<1>14. Documented'
    BY <1>1, <1>2, <1>3, <1>4, <1>6, <1>7, <1>8, SwissAssumption DEF Documented
<1>15. Playing'
    <2>1. \A e \in Entries : \A q \in who[e] : PointSet(q)' = PointSet(q) /\ ScoredSet(q)' = ScoredSet(q)
        BY <1>8, Types
    <2> QED
        BY <1>1, <1>3, <1>6, <2>1 DEF Playing
<1>16. Solo' /\ Registers'
    BY <1>1, <1>2, <1>3, FillsAlone
<1>17. Opening'
    BY <1>1, <1>2, <1>3, <1>8 DEF Opening, Pairing, Filling
<1>18. Fills'
    <2>1. \A other \in Pairers : ppc'[other] \in Filling => other = pr
        BY <1>2, <1>3 DEF Filling
    <2>2. \A e \in Entries : pdoc[e] = "over" => pdoc'[e] = "over"
        BY <1>6, <1>7
    <2> QED
        BY <1>1, <1>2, <1>3, <1>4, <1>6, <2>1, <2>2 DEF Fills
<1>19. Planned'
    BY <1>1, <1>2, <1>3, <1>8 DEF Planned, Filling
<1> QED
    BY <1>9, <1>10, <1>11, <1>12, <1>13, <1>14, <1>15, <1>16, <1>17, <1>18, <1>19

\* What is known of an entry that is being made.
LEMMA NewIs ==
    ASSUME State, phase = "up", NEW k \in {"game", "U", "Z"}, NEW ps \in SUBSET Players,
           NEW n, n = NextEntry, NewEntry(n, k, ps)
    PROVE  /\ n \in Entries /\ n # None
           /\ kind[n] = "none" /\ gdoc[n] = "none" /\ pdoc[n] = "none" /\ gpc[n] = "none"
           /\ noshow[n] = None /\ n \notin ongoing /\ ~Present(n) /\ ~InHand(n)
           /\ \A f \in Entries : Present(f) \/ kind[f] # "none" => f # n /\ f < n
           /\ \A p \in Players :
                /\ \A f \in GameSet(p) \cup PointSet(p) \cup ScoredSet(p) : f \in Entries /\ f < n
                /\ n \notin GameSet(p) /\ n \notin PointSet(p) /\ n \notin ScoredSet(p)
           /\ kind'[n] = k /\ who'[n] = ps /\ rnd'[n] = round
           /\ \A f \in Entries \ {n} : kind'[f] = kind[f] /\ who'[f] = who[f] /\ rnd'[f] = rnd[f]
<1> USE DEF State, SInv
<1>1. n \in Entries /\ n # None
    BY SwissAssumption DEF NewEntry
<1>2. kind[n] = "none"
    BY <1>1, NextIsUnmade DEF IInv
<1>3. gdoc[n] = "none" /\ pdoc[n] = "none" /\ gpc[n] = "none" /\ noshow[n] = None /\ n \notin ongoing
    BY <1>1, <1>2 DEF IInv, Unmade, Kinds, Playing
<1>4. ~Present(n)
    BY <1>1, <1>2, PresentMade
<1>5. ~InHand(n)
    <2>1. \A pr \in Pairers : cur[pr] # n
        BY <1>4 DEF Present
    <2>2. \A pr \in Pairers : n \notin made[pr]
        BY <1>1, <1>2 DEF IInv, PairInv, Creating, Held
    <2> QED
        BY <2>1, <2>2 DEF InHand
<1>6. ASSUME NEW f \in Entries, Present(f) \/ kind[f] # "none" PROVE f # n /\ f < n
    <2>1. kind[f] # "none"
        BY <1>6, PresentMade
    <2>2. PICK m \in 0..MaxEntries : \A e \in Entries : kind[e] # "none" <=> e <= m
        BY DEF IInv, Prefix
    <2>3. f <= m /\ ~(n <= m)
        BY <1>1, <1>2, <2>1, <2>2
    <2> QED
        BY <1>1, <2>2, <2>3, EntriesNat
<1>7. ASSUME NEW p \in Players, NEW f \in GameSet(p) \cup PointSet(p) \cup ScoredSet(p)
      PROVE  f \in Entries /\ f < n
    <2>1. f \in GameSet(p)
        BY <1>7 DEF Pointed
    <2> QED
        BY <1>6, <2>1, GamesPresent
<1>8. ~(n < n)
    BY <1>1, EntriesNat
<1>9. /\ kind'[n] = k /\ who'[n] = ps /\ rnd'[n] = round
      /\ \A f \in Entries \ {n} : kind'[f] = kind[f] /\ who'[f] = who[f] /\ rnd'[f] = rnd[f]
    BY <1>1, Types DEF NewEntry
<1> QED
    BY <1>1, <1>2, <1>3, <1>4, <1>5, <1>6, <1>7, <1>8, <1>9

\* One who did not show up is paused from then on.
LEMMA NoShowPaused ==
    ASSUME State, phase = "up", NEW e \in Entries, Settled(e)
    PROVE  noshow[e] # None => noshow[e] \in paused
<1> USE DEF State, SInv
<1> SUFFICES ASSUME noshow[e] # None PROVE noshow[e] \in paused
    OBVIOUS
<1>1. noshow[e] \in who[e] /\ noshow[e] \in Players
    BY Types DEF Kinds
<1>2. e \in PointSet(noshow[e])
    BY <1>1 DEF Settled, Pointed
<1> QED
    BY <1>1, <1>2 DEF Pointed

\* A game is made and stored.
LEMMA InsertGameKeeps ==
    ASSUME State, NEW pr \in Pairers, InsertGame(pr) PROVE SInv'
<1> USE DEF State, SInv
<1>1. /\ UNCHANGED <<noshow, pdoc, scored, away, games, points, paused, ongoing,
                     rolling, rolled, gpc, todo, phase, status, round, inProgress, tdoc,
                     rest, made>>
      /\ gdoc' = [gdoc EXCEPT ![NextEntry] = "live"] /\ cur' = [cur EXCEPT ![pr] = NextEntry]
    BY DEF InsertGame, playerDocs, gameProcs, roundVars, history
<1>2. /\ ppc[pr] = "create" /\ ppc[pr] \in Filling /\ ppc'[pr] = "add"
      /\ \A other \in Pairers \ {pr} : ppc'[other] = ppc[other]
    BY PairerTypes DEF InsertGame, Moves, Filling
<1>3. /\ Pairing(pr) /\ phase = "up" /\ ongoing = made[pr]
      /\ \A other \in Pairers \ {pr} :
             ppc[other] = "idle" /\ made[other] = {} /\ cur[other] = None
      /\ round = tdoc.cr + 1 /\ inProgress = round /\ tdoc.inProgress = round
      /\ round \in 1..Rounds /\ tdoc.cr \in Nat
      /\ status = "started" /\ tdoc.status = "started"
      /\ \A e \in Entries :
           /\ Present(e) => rnd[e] \in 1..round
           /\ Present(e) /\ rnd[e] # round => Settled(e) /\ rnd[e] \in 1..tdoc.cr
           /\ kind[e] # "none" => rnd[e] \in 0..round
    BY <1>2, AtFill
<1>4. cur[pr] = None
    BY <1>2 DEF IInv, PairInv, Resting
<1>5. PICK pair \in plan[pr] : /\ NewEntry(NextEntry, "game", pair)
                               /\ plan' = [plan EXCEPT ![pr] = @ \ {pair}]
    BY DEF InsertGame
<1>6. /\ pair \in SUBSET Players /\ pair # {} /\ pair \cap paused = {}
      /\ \A e \in Entries : Present(e) /\ rnd[e] = round => pair \cap who[e] = {}
    BY <1>2, PairerTypes DEF Planned
<1>7. PICK n : n = NextEntry
    OBVIOUS
<1>8. /\ n \in Entries /\ n # None
      /\ kind[n] = "none" /\ gdoc[n] = "none" /\ pdoc[n] = "none" /\ gpc[n] = "none"
      /\ noshow[n] = None /\ n \notin ongoing /\ ~Present(n) /\ ~InHand(n)
      /\ \A f \in Entries : Present(f) \/ kind[f] # "none" => f # n /\ f < n
      /\ \A p \in Players : n \notin GameSet(p) /\ n \notin PointSet(p) /\ n \notin ScoredSet(p)
      /\ kind'[n] = "game" /\ who'[n] = pair /\ rnd'[n] = round
      /\ \A f \in Entries \ {n} : kind'[f] = kind[f] /\ who'[f] = who[f] /\ rnd'[f] = rnd[f]
    BY <1>3, <1>5, <1>6, <1>7, NewIs
<1>9. /\ gdoc'[n] = "live" /\ cur'[pr] = n
      /\ plan'[pr] = plan[pr] \ {pair}
      /\ \A f \in Entries \ {n} : gdoc'[f] = gdoc[f]
      /\ \A other \in Pairers \ {pr} : cur'[other] = cur[other]
    BY <1>1, <1>5, <1>7, <1>8, Types, PairerTypes
<1>10. /\ \A e \in Entries : /\ Present(e)' <=> Present(e) \/ e = n
                             /\ e # n => (Settled(e)' <=> Settled(e))
                             /\ InHand(e)' <=> InHand(e)
       /\ \A p \in Players : /\ GameSet(p)' = GameSet(p) /\ PointSet(p)' = PointSet(p)
                             /\ ScoredSet(p)' = ScoredSet(p)
    <2>1. \A p \in Players : /\ GameSet(p)' = GameSet(p) /\ PointSet(p)' = PointSet(p)
                             /\ ScoredSet(p)' = ScoredSet(p)
        BY <1>1 DEF GameSet, PointSet, ScoredSet
    <2>2. \A e \in Entries : Present(e)' <=> Present(e) \/ e = n
        BY <1>1, <1>3, <1>4, <1>8, <1>9, SwissAssumption DEF Present
    <2>3. \A e \in Entries : e # n => (Settled(e)' <=> Settled(e))
        BY <1>1, <1>8, <2>1, Types DEF Settled
    <2>4. \A e \in Entries : InHand(e)' <=> InHand(e)
        BY <1>1, <1>2, <1>3, <1>4, <1>8, <1>9, SwissAssumption DEF InHand
    <2> QED
        BY <2>1, <2>2, <2>3, <2>4
<1>11. Kinds'
    BY <1>1, <1>6, <1>8, <1>9 DEF Kinds
<1>12. Sorted'
    BY <1>1 DEF Sorted
<1>13. Book'
    <2>1. InRounds'
        BY <1>1, <1>3, <1>8, <1>10 DEF InRounds
    <2>2. Full'
        BY <1>1, <1>8 DEF Book, Full
    <2>3. Unique'
        BY <1>6, <1>8, <1>10 DEF Book, Unique
    <2>4. Ordered'
        <3> SUFFICES ASSUME NEW e \in Entries, NEW f \in Entries, Present(e)', kind'[f] # "none",
                            rnd'[e] < rnd'[f]
                     PROVE  Settled(e)' /\ e < f /\ (kind'[f] = "game" => noshow'[e] \notin who'[f])
            BY DEF Ordered
        <3>1. e # n
            BY <1>3, <1>8
        <3>2. CASE f = n
            <4>1. Present(e) /\ Settled(e) /\ e < n
                BY <1>3, <1>8, <1>10, <3>1, <3>2
            <4>2. noshow[e] \notin pair
                BY <1>3, <1>6, <4>1, NoShowPaused, SwissAssumption
            <4> QED
                BY <1>1, <1>8, <1>10, <3>1, <3>2, <4>1, <4>2
        <3>3. CASE f # n
            BY <1>1, <1>8, <1>10, <3>1, <3>3 DEF Book, Ordered
        <3> QED
            BY <3>2, <3>3
    <2> QED
        BY <2>1, <2>2, <2>3, <2>4 DEF Book
<1>14. Docs'
    <2>1. \A p \in Players : \A e \in ScoredSet(p) : e \in Entries /\ e # n
        BY <1>8, Members
    <2> QED
        BY <1>1, <1>3, <1>8, <1>9, <1>10, <2>1 DEF Docs
<1>15. Remembered'
    BY <1>1, <1>3, <1>8, <1>10 DEF Remembered
<1>16. Pointed'
    <2>1. \A p \in Players : \A e \in PointSet(p) : e \in Entries /\ e # n
        BY <1>8, Members
    <2> QED
        BY <1>1, <1>3, <1>9, <1>10, <2>1 DEF Pointed
<1>17. Documented'
    <2>1. \A e \in Entries : pdoc[e] = "over" => Settled(e)'
        BY <1>2, <1>3, <1>8, <1>10 DEF Documented
    <2>2. \A e \in Entries : gdoc'[e] # "none" => pdoc[e] # "none" \/ e \in made[pr] \/ e = n
        BY <1>3, <1>4, <1>9, SwissAssumption DEF Documented
    <2>3. \A e \in Entries : pdoc[e] = "live" /\ gdoc'[e] # "none" => e \in ongoing
        BY <1>3, <1>8, <1>9 DEF Documented
    <2> QED
        BY <1>1, <1>2, <1>3, <1>9, <2>1, <2>2, <2>3 DEF Documented
<1>18. Playing'
    <2>1. \A e \in Entries : \A q \in who[e] : PointSet(q)' = PointSet(q) /\ ScoredSet(q)' = ScoredSet(q)
        BY <1>10, Types
    <2>2. \A e \in Entries \ {n} : kind'[e] = kind[e] /\ who'[e] = who[e] /\ gdoc'[e] = gdoc[e]
        BY <1>8, <1>9
    <2> QED
        BY <1>1, <1>8, <2>1, <2>2 DEF Playing
<1>19. Solo' /\ Registers'
    BY <1>1, <1>2, <1>3, FillsAlone
<1>20. Opening'
    BY <1>1, <1>2, <1>3, <1>8, <1>9, <1>10 DEF Opening, Pairing, Filling
<1>21. Fills'
    <2>1. \A other \in Pairers : ppc'[other] \in Filling => other = pr
        BY <1>2, <1>3 DEF Filling
    <2>2. \A e \in made[pr] : e \in Entries /\ e # n
        BY <1>3, <1>8, PairerTypes
    <2>3. \A q \in rest[pr] : \E e \in Entries : q \in who'[e] /\ rnd'[e] = round /\ pdoc[e] = "over"
        <3>1. \A q \in rest[pr] : \E e \in Entries : q \in who[e] /\ rnd[e] = round /\ pdoc[e] = "over"
            BY <1>2 DEF Fills
        <3> QED
            BY <1>8, <3>1
    <2> QED
        BY <1>1, <1>2, <1>3, <1>8, <1>9, <2>1, <2>2, <2>3 DEF Fills
<1>22. Planned'
    <2>1. \A a \in plan'[pr] : a \in plan[pr] /\ a \cap pair = {}
        BY <1>2, <1>5, <1>9 DEF Planned
    <2>2. \A other \in Pairers : ppc'[other] \in Filling => other = pr
        BY <1>2, <1>3 DEF Filling
    <2> QED
        BY <1>1, <1>2, <1>8, <1>10, <2>1, <2>2 DEF Planned
<1> QED
    BY <1>11, <1>12, <1>13, <1>14, <1>15, <1>16, <1>17, <1>18, <1>19, <1>20, <1>21, <1>22

\* A bye or an absence: its player has the point before any document does.
NewUnplayed(pr, n, k, p) ==
    /\ n = NextEntry /\ NewEntry(n, k, {p})
    /\ games' = Added(games, {p}, n) /\ points' = Added(points, {p}, n)
    /\ cur' = [cur EXCEPT ![pr] = n] /\ cur[pr] = None
    /\ ppc'[pr] \in {"bye", "absent"}
    /\ \A other \in Pairers \ {pr} : ppc'[other] = ppc[other]
    /\ UNCHANGED <<noshow, gdoc, pdoc, scored, away, paused, ongoing, rolling, rolled,
                   gpc, todo, phase, status, round, made>>
    /\ tdoc'.status = tdoc.status /\ tdoc'.cr = tdoc.cr

\* A bye or an absence: an entry with a result and no game.
LEMMA NewUnplayedKeeps ==
    ASSUME State, NEW pr \in Pairers, Pairing(pr), NEW k \in {"U", "Z"}, NEW p \in Players,
           NEW n, NewUnplayed(pr, n, k, p), round \in Nat,
           \A e \in Entries : /\ Present(e) => rnd[e] \in 1..round
                              /\ Present(e) /\ rnd[e] # round => Settled(e)
                              /\ kind[e] # "none" => rnd[e] \in 0..round,
           \A e \in Entries : Present(e) /\ rnd[e] = round => p \notin who[e]
    PROVE  /\ Kinds' /\ Sorted' /\ Full' /\ Unique' /\ Ordered' /\ Docs'
           /\ Remembered' /\ Pointed' /\ Documented' /\ Playing'
           /\ n \in Entries /\ n # None /\ pdoc[n] = "none"
           /\ who'[n] = {p} /\ rnd'[n] = round /\ n \in PointSet(p)' /\ n \notin made[pr]
           /\ \A e \in Entries \ {n} : who'[e] = who[e] /\ rnd'[e] = rnd[e] /\ kind'[e] = kind[e]
           /\ \A e \in Entries : /\ Present(e)' <=> Present(e) \/ e = n
                                 /\ e # n => (Settled(e)' <=> Settled(e))
<1> USE DEF State, SInv, NewUnplayed
<1>1. /\ phase = "up"
      /\ \A other \in Pairers \ {pr} :
             ppc[other] = "idle" /\ made[other] = {} /\ cur[other] = None
    BY Alone
<1>2. /\ n \in Entries /\ n # None
      /\ kind[n] = "none" /\ gdoc[n] = "none" /\ pdoc[n] = "none" /\ gpc[n] = "none"
      /\ noshow[n] = None /\ n \notin ongoing /\ ~Present(n) /\ ~InHand(n)
      /\ \A f \in Entries : Present(f) \/ kind[f] # "none" => f # n /\ f < n
      /\ \A q \in Players :
           /\ \A f \in GameSet(q) \cup PointSet(q) \cup ScoredSet(q) : f \in Entries /\ f < n
           /\ n \notin GameSet(q) /\ n \notin PointSet(q) /\ n \notin ScoredSet(q)
      /\ kind'[n] = k /\ who'[n] = {p} /\ rnd'[n] = round
      /\ \A f \in Entries \ {n} : kind'[f] = kind[f] /\ who'[f] = who[f] /\ rnd'[f] = rnd[f]
    BY <1>1, NewIs
<1>3. cur'[pr] = n /\ \A other \in Pairers \ {pr} : cur'[other] = cur[other]
    BY <1>2, PairerTypes
<1>4. ASSUME NEW q \in Players
      PROVE  /\ Rising(games'[q]) /\ Rising(points'[q])
             /\ GameSet(q)' = IF q = p THEN GameSet(q) \cup {n} ELSE GameSet(q)
             /\ PointSet(q)' = IF q = p THEN PointSet(q) \cup {n} ELSE PointSet(q)
             /\ ScoredSet(q)' = ScoredSet(q)
    <2>1. /\ games[q] \in Seq(Entries) /\ Rising(games[q])
          /\ points[q] \in Seq(Entries) /\ Rising(points[q])
        BY MemoryTypes DEF Sorted
    <2>2. /\ games'[q] = IF q = p THEN Append(games[q], n) ELSE games[q]
          /\ points'[q] = IF q = p THEN Append(points[q], n) ELSE points[q]
        BY DEF Added
    <2>3. /\ Rising(Append(games[q], n)) /\ ToSet(Append(games[q], n)) = ToSet(games[q]) \cup {n}
          /\ Rising(Append(points[q], n)) /\ ToSet(Append(points[q], n)) = ToSet(points[q]) \cup {n}
        <3>1. (\A x \in ToSet(games[q]) : x < n) /\ (\A x \in ToSet(points[q]) : x < n)
            BY <1>2 DEF GameSet, PointSet
        <3> QED
            BY <1>2, <2>1, <3>1, AppendIs
    <2> QED
        BY <2>1, <2>2, <2>3 DEF GameSet, PointSet, ScoredSet
<1>5. /\ \A e \in Entries : /\ Present(e)' <=> Present(e) \/ e = n
                            /\ e # n => (Settled(e)' <=> Settled(e))
                            /\ InHand(e)' <=> InHand(e) \/ e = n
    <2>1. \A e \in Entries : Present(e)' <=> Present(e) \/ e = n
        BY <1>1, <1>2, <1>3, SwissAssumption DEF Present
    <2>2. \A e \in Entries : e # n => (Settled(e)' <=> Settled(e))
        BY <1>2, <1>4, Types DEF Settled
    <2>3. \A e \in Entries : InHand(e)' <=> InHand(e) \/ e = n
        BY <1>1, <1>2, <1>3, SwissAssumption DEF InHand
    <2> QED
        BY <2>1, <2>2, <2>3
<1>6. n \notin made[pr]
    BY <1>2 DEF InHand
<1>7. Kinds'
    BY <1>2 DEF Kinds
<1>8. Sorted'
    BY <1>4 DEF Sorted
<1>9. Full'
    BY <1>2 DEF Book, Full
<1>10. Unique'
    BY <1>2, <1>5 DEF Book, Unique
<1>11. Ordered'
    <2> SUFFICES ASSUME NEW e \in Entries, NEW f \in Entries, Present(e)', kind'[f] # "none",
                        rnd'[e] < rnd'[f]
                 PROVE  Settled(e)' /\ e < f /\ (kind'[f] = "game" => noshow'[e] \notin who'[f])
        BY DEF Ordered
    <2>1. e # n
        BY <1>2
    <2>2. CASE f = n
        BY <1>2, <1>5, <2>1, <2>2
    <2>3. CASE f # n
        BY <1>2, <1>5, <2>1, <2>3 DEF Book, Ordered
    <2> QED
        BY <2>2, <2>3
<1>12. Docs'
    <2>1. \A q \in Players : \A e \in ScoredSet(q) : e \in Entries /\ e # n
        BY <1>2, Members
    <2> QED
        BY <1>1, <1>2, <1>4, <2>1 DEF Docs
<1>13. Remembered'
    BY <1>1, <1>2, <1>4, <1>5 DEF Remembered
<1>14. Pointed'
    <2>1. \A q \in Players : q # None
        BY SwissAssumption
    <2> QED
        BY <1>1, <1>2, <1>4, <2>1 DEF Pointed
<1>15. Documented'
    <2>1. \A e \in Entries : pdoc[e] = "over" => Settled(e)'
        BY <1>1, <1>2, <1>5, SwissAssumption DEF Documented
    <2>2. \A e \in Entries : gdoc[e] # "none" => pdoc[e] # "none" \/ e \in made[pr]
        BY <1>1, SwissAssumption DEF Documented
    <2>3. \A e \in Entries : pdoc[e] = "live" /\ gdoc[e] # "none" => e \in ongoing
        BY <1>1 DEF Documented
    <2> QED
        BY <1>1, <2>1, <2>2, <2>3 DEF Documented
<1>16. Playing'
    <2>1. \A e \in Entries : \A q \in who[e] : PointSet(q) \subseteq PointSet(q)' /\ ScoredSet(q)' = ScoredSet(q)
        BY <1>4, Types
    <2> QED
        BY <1>2, <2>1 DEF Playing
<1> QED
    BY <1>2, <1>4, <1>5, <1>6, <1>7, <1>8, <1>9, <1>10, <1>11, <1>12, <1>13, <1>14, <1>15, <1>16

\* It is given to the next absent player.
LEMMA MarkAbsentKeeps ==
    ASSUME State, NEW pr \in Pairers, MarkAbsent(pr) PROVE SInv'
<1> USE DEF State, SInv
<1>1. /\ UNCHANGED <<noshow, gdoc, pdoc, scored, away, paused, ongoing, rolling, rolled,
                     gpc, todo, phase, status, round, inProgress, tdoc, plan, rest, made, ppc>>
      /\ cur' = [cur EXCEPT ![pr] = NextEntry] /\ cur[pr] = None
      /\ ppc[pr] = "absent" /\ ppc[pr] \in Filling
    BY DEF MarkAbsent, untouchedByPairing, playerDocs, gameDocs, gameProcs, roundVars, history, Filling
<1>2. PICK p \in LeftOut(pr) : /\ NewEntry(NextEntry, "Z", {p})
                               /\ games' = Added(games, {p}, NextEntry)
                               /\ points' = Added(points, {p}, NextEntry)
    BY DEF MarkAbsent
<1>3. /\ Pairing(pr) /\ phase = "up" /\ ongoing = made[pr]
      /\ \A other \in Pairers \ {pr} :
             ppc[other] = "idle" /\ made[other] = {} /\ cur[other] = None
      /\ round = tdoc.cr + 1 /\ inProgress = round /\ tdoc.inProgress = round
      /\ round \in 1..Rounds /\ tdoc.cr \in Nat
      /\ status = "started" /\ tdoc.status = "started"
      /\ \A e \in Entries :
           /\ Present(e) => rnd[e] \in 1..round
           /\ Present(e) /\ rnd[e] # round => Settled(e) /\ rnd[e] \in 1..tdoc.cr
           /\ kind[e] # "none" => rnd[e] \in 0..round
    BY <1>1, AtFill
<1>4. PICK n : n = NextEntry
    OBVIOUS
<1>5. p \in Players /\ \A e \in GameSet(p) : rnd[e] # round
    BY <1>2 DEF LeftOut, GameSet, ToSet
<1>6. ASSUME NEW e \in Entries, Present(e), rnd[e] = round PROVE p \notin who[e]
    <2>1. gdoc[e] # "none" \/ pdoc[e] # "none"
        BY <1>1, <1>3, <1>6, SwissAssumption DEF Present
    <2>2. gdoc[e] # "none" => pdoc[e] # "none" \/ e \in made[pr]
        BY <1>1, <1>3, SwissAssumption DEF Documented
    <2>3. pdoc[e] # "none" \/ InHand(e)
        BY <2>1, <2>2 DEF InHand
    <2>4. p \in who[e] => e \in GameSet(p)
        BY <1>3, <1>5, <2>3 DEF Remembered
    <2> QED
        BY <1>5, <1>6, <2>4
<1>7. NewUnplayed(pr, n, "Z", p)
    BY <1>1, <1>2, <1>4 DEF NewUnplayed
<1>8. /\ Kinds' /\ Sorted' /\ Full' /\ Unique' /\ Ordered' /\ Docs'
      /\ Remembered' /\ Pointed' /\ Documented' /\ Playing'
      /\ n \in Entries /\ n # None /\ pdoc[n] = "none"
      /\ who'[n] = {p} /\ rnd'[n] = round /\ n \in PointSet(p)' /\ n \notin made[pr]
      /\ \A e \in Entries \ {n} : who'[e] = who[e] /\ rnd'[e] = rnd[e] /\ kind'[e] = kind[e]
      /\ \A e \in Entries : /\ Present(e)' <=> Present(e) \/ e = n
                            /\ e # n => (Settled(e)' <=> Settled(e))
    <2>1. round \in Nat
        BY <1>3, RegisterTypes
    <2> QED
        BY <1>3, <1>5, <1>6, <1>7, <2>1, NewUnplayedKeeps
<1>9. cur'[pr] = n /\ \A other \in Pairers \ {pr} : cur'[other] = cur[other]
    BY <1>1, <1>4, <1>8, PairerTypes
<1>10. InRounds'
    BY <1>1, <1>3, <1>8 DEF InRounds
<1>11. Solo' /\ Registers'
    BY <1>1, <1>3, FillsAlone
<1>12. Opening'
    BY <1>1, <1>3, <1>8, <1>9 DEF Opening, Pairing, Filling
<1>13. Fills'
    <2>1. \A other \in Pairers : ppc'[other] \in Filling => other = pr
        BY <1>1, <1>3 DEF Filling
    <2>2. \A e \in made[pr] : e \in Entries /\ e # n
        BY <1>8, PairerTypes
    <2>3. \A q \in rest[pr] : \E e \in Entries : q \in who'[e] /\ rnd'[e] = round /\ pdoc[e] = "over"
        <3>1. \A q \in rest[pr] : \E e \in Entries : q \in who[e] /\ rnd[e] = round /\ pdoc[e] = "over"
            BY <1>1 DEF Fills
        <3> QED
            BY <1>8, <3>1
    <2> QED
        BY <1>1, <1>3, <1>8, <1>9, <2>1, <2>2, <2>3 DEF Fills
<1>14. Planned'
    <2>1. \A other \in Pairers : ppc'[other] \in Filling => other = pr
        BY <1>1, <1>3 DEF Filling
    <2>2. plan[pr] = {}
        BY <1>1 DEF Fills
    <2> QED
        BY <1>1, <2>1, <2>2 DEF Planned
<1> QED
    BY <1>8, <1>10, <1>11, <1>12, <1>13, <1>14 DEF Book

\* What the engine answers.
LEMMA PairingsAre ==
    ASSUME NEW ps \in SUBSET Players, NEW m \in Pairings(ps)
    PROVE  /\ \A a \in m : a # {} /\ a \subseteq ps
           /\ \A a, b \in m : a = b \/ a \cap b = {}
           /\ ps \ UNION m = {} \/ \E p \in Players : ps \ UNION m = {p}
<1>1. /\ m \in SUBSET {pair \in SUBSET ps : Cardinality(pair) = 2}
      /\ \A a, b \in m : a = b \/ a \cap b = {}
      /\ Cardinality(ps \ UNION m) <= 1
    BY DEF Pairings
<1>2. \A a \in m : a # {} /\ a \subseteq ps
    <2> SUFFICES ASSUME NEW a \in m PROVE a # {} /\ a \subseteq ps
        OBVIOUS
    <2>1. a \subseteq ps /\ Cardinality(a) = 2
        BY <1>1
    <2>2. Cardinality({}) = 0
        BY FS_EmptySet
    <2> QED
        BY <2>1, <2>2
<1> DEFINE bye == ps \ UNION m
<1>3. IsFiniteSet(bye)
    BY SwissAssumption, FS_Subset
<1>4. Cardinality(bye) \in Nat
    BY <1>3, FS_CardinalityType
<1>5. Cardinality(bye) = 0 => bye = {}
    BY <1>3, FS_EmptySet
<1>6. Cardinality(bye) = 1 => \E p : bye = {p}
    BY <1>3, FS_Singleton
<1>7. bye \subseteq Players /\ Cardinality(bye) <= 1
    BY <1>1
<1> HIDE DEF bye
<1>8. bye = {} \/ \E p \in Players : bye = {p}
    BY <1>4, <1>5, <1>6, <1>7
<1> QED
    BY <1>1, <1>2, <1>8 DEF bye

\* The pairings of the round are there, and the bye with them.
LEMMA PairKeeps ==
    ASSUME State, NEW pr \in Pairers, Pair(pr) PROVE SInv'
<1> USE DEF State, SInv
<1>1. PICK m \in Pairings(rest[pr]) :
        LET bye == rest[pr] \ UNION m IN
        /\ plan' = [plan EXCEPT ![pr] = m]
        /\ rest' = [rest EXCEPT ![pr] = bye]
        /\ games' = Added(games, bye, NextEntry)
        /\ points' = Added(points, bye, NextEntry)
        /\ IF bye = {}
           THEN /\ Moves(pr, "create")
                /\ UNCHANGED <<kind, who, rnd, cur>>
           ELSE /\ NewEntry(NextEntry, "U", bye)
                /\ cur' = [cur EXCEPT ![pr] = NextEntry]
                /\ Moves(pr, "bye")
    BY DEF Pair
<1> DEFINE bye == rest[pr] \ UNION m
<1>2. /\ UNCHANGED <<noshow, gdoc, pdoc, scored, away, paused, ongoing, rolling, rolled,
                     gpc, todo, phase, status, round, inProgress>>
      /\ made' = [made EXCEPT ![pr] = {}]
      /\ ppc[pr] = "mark" /\ tdoc' = [tdoc EXCEPT !.inProgress = inProgress]
    BY DEF Pair, untouchedByPairing, playerDocs, gameDocs, gameProcs, roundVars, history
<1>3. /\ Pairing(pr) /\ phase = "up" /\ ongoing = made[pr] /\ made[pr] = {} /\ cur[pr] = None
      /\ \A other \in Pairers \ {pr} :
             ppc[other] = "idle" /\ made[other] = {} /\ cur[other] = None
    BY <1>2, Alone DEF Pairing, Opening, Filling
<1>4. /\ round = tdoc.cr + 1 /\ inProgress = round /\ tdoc.inProgress = 0
      /\ status = "started" /\ tdoc.status = "started" /\ rest[pr] \cap paused = {}
      /\ \A e \in Entries : Present(e) => Settled(e) /\ rnd[e] <= tdoc.cr /\ rnd[e] # 0
      /\ \A e \in Entries : kind[e] # "none" => rnd[e] <= tdoc.cr + 1
    <2>1. /\ round = tdoc.cr + 1 /\ inProgress = round /\ tdoc.inProgress = 0
          /\ status = "started" /\ rest[pr] \cap paused = {}
          /\ \A e \in Entries : Present(e) => Settled(e) /\ rnd[e] <= tdoc.cr
        BY <1>2 DEF Opening
    <2> QED
        BY <2>1 DEF Registers, Book, InRounds
<1>5. /\ tdoc'.inProgress = round /\ tdoc'.cr = tdoc.cr /\ tdoc'.status = tdoc.status
      /\ round \in Nat /\ round # 0
      /\ \A e \in Entries : Present(e) => rnd[e] \in 1..tdoc.cr
      /\ \A e \in Entries : kind[e] # "none" => rnd[e] \in 0..round
      /\ tdoc.cr \in Nat
    BY <1>2, <1>4, Types, RegisterTypes DEF Documents
<1>6. /\ made' = made
      /\ plan'[pr] = m /\ rest'[pr] = bye
      /\ ppc'[pr] = IF bye = {} THEN "create" ELSE "bye"
      /\ \A other \in Pairers \ {pr} : ppc'[other] = ppc[other]
    <2>1. made' = made
        BY <1>2, <1>3, PairerTypes
    <2> QED
        BY <1>1, <2>1, PairerTypes DEF Moves
<1>7. /\ \A a \in m : a # {} /\ a \subseteq rest[pr]
      /\ \A a, b \in m : a = b \/ a \cap b = {}
      /\ bye = {} \/ \E p \in Players : bye = {p}
    <2>1. rest[pr] \in SUBSET Players
        BY PairerTypes
    <2> QED
        BY <1>1, <2>1, PairingsAre
<1>8. \A a \in m : a # {} /\ a \cap paused = {} /\ a \cap bye = {}
    BY <1>4, <1>7
<1>9. Solo' /\ Registers'
    BY <1>2, <1>3, <1>4, <1>5, <1>6, FillsAlone
<1>10. \A other \in Pairers : ppc'[other] \in Filling \/ Pairing(other)' => other = pr
    BY <1>3, <1>6 DEF Filling, Pairing
<1>11. CASE bye = {}
    <2>1. /\ UNCHANGED <<kind, who, rnd, cur>> /\ ppc'[pr] = "create"
          /\ games' = Added(games, {}, NextEntry) /\ points' = Added(points, {}, NextEntry)
        BY <1>1, <1>6, <1>11
    <2>2. games' = games /\ points' = points
        BY <2>1, MemoryTypes DEF Added
    <2>3. SameStandings /\ EmptyHanded
        BY <1>2, <1>3, <1>6, <2>1, <2>2 DEF SameStandings, EmptyHanded
    <2>4. /\ Kinds' /\ Sorted' /\ Docs' /\ Unique' /\ Ordered'
          /\ Remembered' /\ Pointed' /\ Documented' /\ Playing'
          /\ \A e \in Entries : /\ Present(e)' <=> Present(e)
                                /\ Settled(e)' <=> Settled(e)
        BY <1>2, <1>3, <2>3, KeepRounds
    <2>5. InRounds' /\ Full'
        BY <1>2, <1>4, <1>5, <2>1, <2>4 DEF Book, InRounds, Full
    <2>6. Opening'
        BY <1>2, <1>3, <1>4, <1>5, <1>6, <1>10, <2>1, <2>4 DEF Opening, Pairing, Filling
    <2>7. Fills'
        BY <1>2, <1>3, <1>4, <1>5, <1>6, <1>10, <1>11, <2>1 DEF Fills
    <2>8. Planned'
        <3>1. \A e \in Entries : Present(e)' => rnd'[e] # round'
            BY <1>2, <1>4, <1>5, <2>1, <2>4
        <3>2. plan'[pr] = m /\ paused' = paused
            BY <1>2, <1>6
        <3> HIDE DEF bye
        <3> QED
            BY <1>7, <1>8, <1>10, <3>1, <3>2 DEF Planned
    <2> QED
        BY <1>9, <2>4, <2>5, <2>6, <2>7, <2>8 DEF Book
<1>12. ASSUME NEW p \in Players, bye = {p} PROVE SInv'
    <2>1. PICK n : n = NextEntry
        OBVIOUS
    <2>2. NewUnplayed(pr, n, "U", p)
        BY <1>1, <1>2, <1>3, <1>5, <1>6, <1>12, <2>1 DEF NewUnplayed
    <2>3. /\ Kinds' /\ Sorted' /\ Full' /\ Unique' /\ Ordered' /\ Docs'
          /\ Remembered' /\ Pointed' /\ Documented' /\ Playing'
          /\ n \in Entries /\ n # None /\ pdoc[n] = "none"
          /\ who'[n] = {p} /\ rnd'[n] = round /\ n \in PointSet(p)' /\ n \notin made[pr]
          /\ \A e \in Entries \ {n} : who'[e] = who[e] /\ rnd'[e] = rnd[e] /\ kind'[e] = kind[e]
          /\ \A e \in Entries : /\ Present(e)' <=> Present(e) \/ e = n
                                /\ e # n => (Settled(e)' <=> Settled(e))
        <3>1. \A e \in Entries : /\ Present(e) => rnd[e] \in 1..round /\ rnd[e] # round
                                 /\ Present(e) => Settled(e)
            BY <1>4, <1>5
        <3> QED
            BY <1>3, <1>5, <2>2, <3>1, NewUnplayedKeeps
    <2>4. cur'[pr] = n /\ \A other \in Pairers \ {pr} : cur'[other] = None
        BY <1>3, <2>2, <2>3, PairerTypes DEF NewUnplayed
    <2>5. InRounds'
        BY <1>4, <1>5, <2>3 DEF InRounds
    <2>6. Opening'
        BY <1>2, <1>3, <1>4, <1>5, <1>6, <1>10, <1>12, <2>3, <2>4 DEF Opening, Pairing, Filling
    <2>7. Fills'
        <3>1. ppc'[pr] = "bye" /\ rest'[pr] = who'[n] /\ made'[pr] = {}
            BY <1>3, <1>6, <1>12, <2>3
        <3>2. \A q \in who'[n] : n \in PointSet(q)'
            BY <2>3
        <3>3. inProgress' = round' /\ tdoc'.inProgress = round' /\ rnd'[n] = round'
            BY <1>2, <1>4, <1>5, <2>3
        <3> QED
            BY <1>10, <2>3, <2>4, <3>1, <3>2, <3>3 DEF Fills
    <2>8. Planned'
        <3>1. \A e \in Entries : Present(e)' /\ rnd'[e] = round => who'[e] = bye
            BY <1>4, <1>5, <1>12, <2>3
        <3> HIDE DEF bye
        <3> QED
            BY <1>2, <1>6, <1>7, <1>8, <1>10, <3>1 DEF Planned
    <2> QED
        BY <1>9, <2>3, <2>5, <2>6, <2>7, <2>8 DEF Book
<1> QED
    BY <1>7, <1>11, <1>12

\* Every player has an entry of the round when nobody is left out.
LEMMA RoundFilled ==
    ASSUME State, NEW pr \in Pairers, ppc[pr] = "absent", cur[pr] = None, LeftOut(pr) = {},
           NEW p \in Players
    PROVE  \E e \in Entries : p \in who[e] /\ rnd[e] = round /\ pdoc[e] # "none"
<1> USE DEF State, SInv
<1>1. /\ ppc[pr] \in Filling /\ phase = "up"
      /\ \A other \in Pairers \ {pr} :
             ppc[other] = "idle" /\ made[other] = {} /\ cur[other] = None
    <2>1. ppc[pr] \in Filling
        BY DEF Filling
    <2> QED
        BY <2>1, AtFill
<1>2. /\ \A e \in made[pr] : e \in Entries /\ rnd[e] = round /\ pdoc[e] = "live"
      /\ \A q \in rest[pr] : \E e \in Entries : q \in who[e] /\ rnd[e] = round /\ pdoc[e] = "over"
    BY <1>1, PairerTypes DEF Fills
<1>3. \/ p \in rest[pr]
      \/ \E e \in made[pr] : p \in who[e]
      \/ \E e \in GameSet(p) : rnd[e] = round
    <2>1. p \notin LeftOut(pr)
        OBVIOUS
    <2>2. (\E i \in DOMAIN games[p] : rnd[games[p][i]] = round) => \E e \in GameSet(p) : rnd[e] = round
        BY DEF GameSet, ToSet
    <2>3. p \in UNION {who[e] : e \in made[pr]} => \E e \in made[pr] : p \in who[e]
        OBVIOUS
    <2> QED
        BY <2>1, <2>2, <2>3 DEF LeftOut
<1>4. ASSUME NEW e \in GameSet(p), rnd[e] = round
      PROVE  e \in Entries /\ p \in who[e] /\ pdoc[e] # "none"
    <2>1. e \in Entries /\ p \in who[e]
        BY GamesPresent
    <2>2. pdoc[e] # "none" \/ InHand(e)
        BY <1>1, <2>1 DEF Remembered
    <2>3. InHand(e) => e \in made[pr]
        BY <1>1, <2>1, SwissAssumption DEF InHand
    <2> QED
        BY <1>2, <2>1, <2>2, <2>3
<1> QED
    BY <1>2, <1>3, <1>4

\* The round is stored and no longer in progress.
LEMMA CommitKeeps ==
    ASSUME State, NEW pr \in Pairers, Commit(pr) PROVE SInv'
<1> USE DEF State, SInv
<1>1. /\ UNCHANGED <<kind, who, rnd, noshow, gdoc, pdoc, scored, away, games, points, paused,
                     ongoing, rolling, rolled, todo, phase, status, round, cur>>
      /\ made' = [made EXCEPT ![pr] = {}]
      /\ ppc[pr] = "absent" /\ ppc[pr] \in Filling /\ cur[pr] = None /\ LeftOut(pr) = {}
      /\ tdoc' = [tdoc EXCEPT !.cr = round, !.next = FALSE,
                              !.inProgress = IF inProgress = round THEN 0 ELSE @]
      /\ inProgress' = IF inProgress = round THEN 0 ELSE inProgress
      /\ \A e \in Entries : gpc'[e] = IF e \in made[pr] THEN "play" ELSE gpc[e]
    BY DEF Commit, untouchedByPairing, playerDocs, gameDocs, gameProcs, roundVars, history, Filling
<1>2. /\ Pairing(pr) /\ phase = "up" /\ ongoing = made[pr]
      /\ \A other \in Pairers \ {pr} :
             ppc[other] = "idle" /\ made[other] = {} /\ cur[other] = None
      /\ round = tdoc.cr + 1 /\ inProgress = round /\ tdoc.inProgress = round
      /\ round \in 1..Rounds /\ tdoc.cr \in Nat
      /\ status = "started" /\ tdoc.status = "started"
      /\ \A e \in Entries : /\ Present(e) => rnd[e] \in 1..round
                            /\ kind[e] # "none" => rnd[e] \in 0..round
    BY <1>1, AtFill
<1>3. /\ inProgress' = 0 /\ tdoc'.inProgress = 0 /\ tdoc'.cr = round /\ tdoc'.status = "started"
    BY <1>1, <1>2, RegisterTypes DEF Documents
<1>4. \A other \in Pairers : ppc'[other] = "idle" /\ made'[other] = {} /\ cur'[other] = None
    <2>1. ppc' = [ppc EXCEPT ![pr] = "idle"]
        BY DEF Commit, Moves
    <2> QED
        BY <1>1, <1>2, <2>1, PairerTypes
<1>5. \A e \in made[pr] : /\ e \in Entries /\ rnd[e] = round /\ pdoc[e] = "live"
                          /\ gdoc[e] = "live" /\ gpc[e] = "none" /\ kind[e] = "game"
    <2>1. \A e \in made[pr] : e \in Held(pr) /\ e \in Entries
        BY PairerTypes DEF Held
    <2> QED
        BY <1>1, <2>1 DEF Fills, IInv, PairInv, Creating
<1>6. /\ Solo' /\ Opening' /\ Fills' /\ Planned'
      /\ \A e \in Entries : ~InHand(e)'
    BY <1>4, NobodyPairs
<1>7. \A e \in Entries : InHand(e) => pdoc[e] # "none"
    BY <1>1, <1>2, <1>5, SwissAssumption DEF InHand
<1>8. /\ \A e \in Entries : /\ Present(e)' <=> Present(e)
                            /\ Settled(e)' <=> Settled(e)
      /\ \A p \in Players : /\ GameSet(p)' = GameSet(p) /\ PointSet(p)' = PointSet(p)
                            /\ ScoredSet(p)' = ScoredSet(p)
    BY <1>1, PresentKeeps, SettledKeeps DEF GameSet, PointSet, ScoredSet
<1>9. Kinds' /\ Sorted'
    BY <1>1, <1>5 DEF Kinds, Sorted
<1>10. Book'
    <2>1. InRounds'
        BY <1>1, <1>2, <1>3, <1>8 DEF InRounds
    <2>2. Full'
        <3> SUFFICES ASSUME NEW p \in Players, NEW r \in 1..round
                     PROVE  \E e \in Entries : p \in who[e] /\ rnd[e] = r /\ pdoc[e] # "none"
            BY <1>1, <1>3 DEF Full
        <3>1. CASE r = round
            BY <1>1, <3>1, RoundFilled
        <3>2. CASE r # round
            BY <1>2, <3>2 DEF Book, Full
        <3> QED
            BY <3>1, <3>2
    <2>3. Unique' /\ Ordered'
        BY <1>1, <1>8 DEF Book, Unique, Ordered
    <2> QED
        BY <2>1, <2>2, <2>3 DEF Book
<1>11. Docs'
    BY <1>1, <1>2, <1>8 DEF Docs
<1>12. Remembered'
    BY <1>1, <1>2, <1>6, <1>7, <1>8 DEF Remembered
<1>13. Pointed'
    BY <1>1, <1>2, <1>8 DEF Pointed
<1>14. Documented'
    <2>1. \A e \in Entries : pdoc[e] = "over" => Settled(e)
        BY <1>1, <1>2, SwissAssumption DEF Documented
    <2>2. \A e \in Entries : gdoc[e] # "none" => pdoc[e] # "none"
        BY <1>1, <1>2, <1>5, SwissAssumption DEF Documented
    <2>3. \A e \in Entries : pdoc[e] = "live" /\ gdoc[e] # "none" => e \in ongoing
        BY <1>2 DEF Documented
    <2> QED
        BY <1>1, <1>2, <1>8, <2>1, <2>2, <2>3 DEF Documented
<1>15. Playing'
    <2>1. \A e \in Entries : \A q \in who[e] : PointSet(q)' = PointSet(q) /\ ScoredSet(q)' = ScoredSet(q)
        BY <1>8, Types
    <2> QED
        BY <1>1, <1>2, <1>5, <2>1 DEF Playing
<1>16. Registers'
    BY <1>1, <1>2, <1>3 DEF Registers
<1> QED
    BY <1>6, <1>9, <1>10, <1>11, <1>12, <1>13, <1>14, <1>15, <1>16

-----------------------------------------------------------------------------
(* The end of a tournament *)

\* finalize() takes no game away from a player: the round is over.
LEMMA NothingPlayed ==
    ASSUME State, phase = "up", ongoing = {}, NEW pr, Finalize(pr),
           \A other \in Pairers : made[other] = {} /\ cur[other] = None
    PROVE  games' = games
<1> USE DEF State, SInv
<1>1. ASSUME NEW e \in Entries PROVE gdoc[e] # "live"
    <2>1. gdoc[e] # "none" => pdoc[e] # "none"
        BY SwissAssumption DEF Documented
    <2>2. gdoc[e] # "none" => pdoc[e] # "live"
        BY DEF Documented
    <2> QED
        BY <2>1, <2>2, Types DEF Docs
<1>2. ASSUME NEW p \in Players, games[p] # <<>> PROVE ~Unfinished(Last(games[p]))
    <2>1. games[p] \in Seq(Entries)
        BY MemoryTypes
    <2>2. Last(games[p]) \in Entries
        BY <1>2, <2>1 DEF Last
    <2> QED
        BY <1>1, <2>2 DEF Unfinished
<1>3. games' = [p \in Players |-> games[p]]
    BY <1>2 DEF Finalize
<1> QED
    BY <1>3, MemoryTypes

\* The tournament is finished in memory, between two rounds.
LEMMA EndKeeps ==
    ASSUME State, phase = "up", ongoing = {}, NEW pr \in Pairers, Finalize(pr),
           \A other \in Pairers : made[other] = {} /\ cur[other] = None,
           \A other \in Pairers \ {pr} : ppc[other] = "idle",
           UNCHANGED <<kind, who, rnd, noshow, gdoc, pdoc, scored, away, points, paused,
                       ongoing, rolling, rolled, gpc, todo, phase, tdoc, cur, made>>,
           round' <= tdoc.cr
    PROVE  SInv'
<1> USE DEF State, SInv
<1>1. games' = games
    BY NothingPlayed
<1>2. /\ status' = "finished" /\ ppc'[pr] = "save"
      /\ \A other \in Pairers \ {pr} : ppc'[other] = "idle"
    BY PairerTypes DEF Finalize, Moves
<1>3. SameStandings /\ EmptyHanded /\ \A other \in Pairers : ppc'[other] \notin Filling
    BY <1>1, <1>2 DEF SameStandings, EmptyHanded, Filling
<1>4. /\ Kinds' /\ Sorted' /\ Docs' /\ Unique' /\ Ordered'
      /\ Remembered' /\ Pointed' /\ Documented' /\ Playing' /\ Fills' /\ Planned'
      /\ \A e \in Entries : /\ Present(e)' <=> Present(e)
                            /\ Settled(e)' <=> Settled(e)
    BY <1>3, KeepRounds
<1>5. InRounds' /\ Full'
    BY <1>4 DEF Book, InRounds, Full
<1>6. Registers'
    BY <1>2 DEF Registers
<1>7. Solo' /\ Opening'
    BY <1>2 DEF Solo, Opening, Pairing, Filling
<1> QED
    BY <1>4, <1>5, <1>6, <1>7 DEF Book

\* A tournament with nobody left to pair is finished.
LEMMA FinishEarlyKeeps ==
    ASSUME State, NEW pr \in Pairers, FinishEarly(pr) PROVE SInv'
<1> USE DEF State, SInv
<1> DEFINE recorded == {rnd[e] : e \in UNION {ToSet(games[p]) : p \in Players}}
<1>1. /\ ppc[pr] = "chat" /\ Pairing(pr) /\ ppc[pr] \notin Filling
    BY DEF FinishEarly, Pairing, Filling
<1>2. /\ phase = "up" /\ ongoing = {} /\ made[pr] = {} /\ cur[pr] = None
      /\ \A other \in Pairers \ {pr} :
             ppc[other] = "idle" /\ made[other] = {} /\ cur[other] = None
    BY <1>1, Alone DEF Opening
<1>3. \A r \in recorded : r \in 0..tdoc.cr
    <2>1. ASSUME NEW p \in Players, NEW e \in ToSet(games[p]) PROVE rnd[e] \in 0..tdoc.cr
        <3>1. e \in Entries /\ Present(e)
            BY GamesPresent DEF GameSet
        <3>2. rnd[e] <= tdoc.cr
            BY <1>1, <3>1 DEF Opening
        <3> QED
            BY <3>1, <3>2, Types, RegisterTypes DEF Documents
    <2> QED
        BY <2>1
<1>4. tdoc.cr \in Nat
    BY RegisterTypes DEF Documents
<1>5. round' = IF recorded = {} THEN 0
               ELSE CHOOSE r \in recorded : \A other \in recorded : other <= r
    BY DEF FinishEarly
<1> HIDE DEF recorded
<1>6. round' <= tdoc.cr
    <2>1. CASE recorded # {}
        <3>1. \E r \in recorded : \A other \in recorded : other <= r
            BY <1>3, <1>4, <2>1, Greatest
        <3>2. round' \in recorded
            BY <1>5, <2>1, <3>1
        <3> QED
            BY <1>3, <1>4, <3>2
    <2> QED
        BY <1>4, <1>5, <2>1
<1>7. /\ Finalize(pr)
      /\ UNCHANGED <<kind, who, rnd, noshow, gdoc, pdoc, scored, away, points, paused,
                     ongoing, rolling, rolled, gpc, todo, phase, tdoc, cur, made>>
    BY DEF FinishEarly, untouchedByPairing, playerDocs, gameDocs, gameProcs, history
<1> QED
    BY <1>2, <1>6, <1>7, EndKeeps

\* The clock task finds the last round over.
LEMMA TickFinishesKeeps ==
    ASSUME State, TickFinishes, ~Disturbed' PROVE SInv'
<1> USE DEF State, SInv
<1>1. /\ phase = "up" /\ ppc[Clock] = "idle" /\ status = "started" /\ ongoing = {}
      /\ Finalize(Clock) /\ Races(Clock) /\ Clock \in Pairers
      /\ UNCHANGED <<kind, who, rnd, noshow, gdoc, pdoc, scored, away, points, paused,
                     ongoing, rolling, rolled, gpc, todo, phase, tdoc, round, cur, made>>
    BY DEF TickFinishes, Ticks, RoundOver, entryVars, gameDocs, playerDocs, gameProcs, Pairers
<1>2. \A other \in Pairers : ~Pairing(other)
    BY <1>1 DEF Races, Disturbed, Pairing
<1>3. \A other \in Pairers : ppc[other] = "idle" /\ made[other] = {} /\ cur[other] = None
    BY <1>2 DEF Pairing, Opening, Filling
<1>4. round = tdoc.cr
    BY <1>1, <1>2 DEF Registers
<1>5. round' <= tdoc.cr
    BY <1>1, <1>4, RegisterTypes
<1> QED
    BY <1>1, <1>3, <1>5, EndKeeps

\* The end is stored with the last points.
LEMMA SaveTournamentKeeps ==
    ASSUME State, NEW pr \in Pairers, SaveTournament(pr) PROVE SInv'
<1> USE DEF State, SInv
<1>1. /\ ppc[pr] = "save" /\ Pairing(pr) /\ ppc[pr] \notin Filling
      /\ SameStandings /\ UNCHANGED <<gpc, todo, phase, status, round, inProgress, cur, made>>
      /\ tdoc' = [tdoc EXCEPT !.status = status, !.cr = round]
    BY DEF SaveTournament, Pairing, Filling, SameStandings, untouchedByPairing, playerDocs,
           gameDocs, gameProcs, roundVars, history
<1>2. /\ phase = "up" /\ ongoing = {} /\ made[pr] = {} /\ cur[pr] = None
      /\ \A other \in Pairers \ {pr} :
             ppc[other] = "idle" /\ made[other] = {} /\ cur[other] = None
      /\ status = "finished" /\ round <= tdoc.cr
    BY <1>1, Alone DEF Opening
<1>3. \A other \in Pairers : ppc'[other] = "idle"
    BY <1>2, PairerTypes DEF SaveTournament, Moves
<1>4. /\ tdoc'.status = "finished" /\ tdoc'.cr = round /\ tdoc.cr \in Nat /\ round \in Nat
    BY <1>1, <1>2, RegisterTypes DEF Documents
<1>5. EmptyHanded /\ \A other \in Pairers : ppc'[other] \notin Filling
    BY <1>1, <1>2, <1>3 DEF EmptyHanded, Filling
<1>6. /\ Kinds' /\ Sorted' /\ Docs' /\ Unique' /\ Ordered'
      /\ Remembered' /\ Pointed' /\ Documented' /\ Playing' /\ Fills' /\ Planned'
      /\ \A e \in Entries : /\ Present(e)' <=> Present(e)
                            /\ Settled(e)' <=> Settled(e)
    BY <1>1, <1>2, <1>5, KeepRounds
<1>7. InRounds'
    BY <1>1, <1>4, <1>6 DEF Book, InRounds, SameStandings
<1>8. Full'
    <2>1. \A r \in 1..round : r \in 1..tdoc.cr
        BY <1>2, <1>4
    <2> QED
        BY <1>1, <1>4, <2>1 DEF Book, Full, SameStandings
<1>9. Registers'
    BY <1>1, <1>2, <1>3, <1>4 DEF Registers, SameStandings
<1>10. Solo' /\ Opening'
    BY <1>1, <1>2, <1>3 DEF Solo, Opening, Pairing, Filling
<1> QED
    BY <1>6, <1>7, <1>8, <1>9, <1>10 DEF Book

-----------------------------------------------------------------------------
(* Every step *)

\* Steps that leave the standings alone: the effects on the users, and waiting.
LEMMA QuietKeeps ==
    ASSUME State,
           \/ \E e \in Entries : \/ UserEffect(e) \/ StoreFx(e) \/ RecoverUser(e) \/ RecoverFx(e)
                                 \/ GameUpdate(e) /\ status = "finished"
           \/ TickWaits \/ TickPlaying \/ UNCHANGED vars
    PROVE  SInv'
<1> USE DEF SameStandings, SamePairing, SamePhase, SameRound
<1>1. ASSUME NEW e \in Entries, UserEffect(e) \/ StoreFx(e) PROVE SInv'
    <2>1. SameStandings /\ SamePairing /\ SamePhase
        BY <1>1 DEF UserEffect, StoreFx, untouchedByGames, entryVars, playerVars, playerDocs,
           gameDocs, roundVars, pairProcs
    <2>2. /\ gpc[e] \in {"users", "fx"} /\ gpc'[e] \in {"users", "fx", "update"}
          /\ \A f \in Entries \ {e} : gpc'[f] = gpc[f] /\ todo'[f] = todo[f]
        BY <1>1, Types DEF UserEffect, StoreFx, State
    <2> QED
        BY <2>1, <2>2, KeepQuiet
<1>2. ASSUME NEW e \in Entries, RecoverUser(e) \/ RecoverFx(e) PROVE SInv'
    <2>1. SameStandings /\ SamePairing /\ SamePhase /\ UNCHANGED <<gpc, todo>>
        BY <1>2 DEF RecoverUser, RecoverFx, untouchedByStart, playerVars, playerDocs, pairProcs
    <2> QED
        BY <2>1, KeepQuiet
<1>3. ASSUME NEW e \in Entries, GameUpdate(e), status = "finished" PROVE SInv'
    <2>1. SameStandings /\ SamePairing /\ SamePhase
        BY <1>3 DEF GameUpdate, entryVars, gameDocs, playerDocs, roundVars, pairProcs, history
    <2>2. /\ gpc[e] = "update" /\ gpc'[e] = "done" /\ ongoing = {}
          /\ \A f \in Entries \ {e} : gpc'[f] = gpc[f] /\ todo'[f] = todo[f]
        BY <1>3, Types DEF GameUpdate, State, SInv, Registers
    <2> QED
        BY <2>1, <2>2, KeepQuiet
<1>4. CASE TickWaits \/ TickPlaying \/ UNCHANGED vars
    <2>1. SameStandings /\ SamePairing /\ UNCHANGED <<gpc, todo, phase, status, round, inProgress>>
        BY <1>4 DEF TickWaits, TickPlaying, Ticks, vars, entryVars, gameDocs, playerDocs, gameProcs,
           roundVars, playerVars, pairProcs, history
    <2>2. SameRound
        BY <1>4, RegisterTypes DEF TickWaits, TickPlaying, vars, State, Documents
    <2> QED
        BY <2>1, <2>2, KeepQuiet
<1> QED
    BY <1>1, <1>2, <1>3, <1>4

\* The steps of the pairing coroutines, of the games and of the start, together.
LEMMA SInvPairing ==
    ASSUME State, NEW pr \in Pairers, PairerStep(pr) PROVE SInv'
BY MarkKeeps, PairKeeps, StoreUnplayedKeeps, SaveUnplayedKeeps, InsertGameKeeps, AddGameKeeps,
   InsertPairingsKeeps, MarkAbsentKeeps, CommitKeeps, FinishEarlyKeeps, SaveTournamentKeeps
   DEF PairerStep

LEMMA SInvBegin ==
    ASSUME State, TickPairs \/ \E d \in Directors : StartNextRound(d), ~Disturbed' PROVE SInv'
<1>1. PICK pr \in Pairers :
        /\ ppc[pr] = "idle" /\ phase = "up" /\ status = "started" /\ ongoing = {}
        /\ Begin(pr, round + 1)
        /\ UNCHANGED <<entryVars, tdoc, gameDocs, pdoc, playerDocs, phase, games, points,
                       paused, ongoing, rolling, gameProcs>>
    BY DEF TickPairs, StartNextRound, Ticks, RoundOver, Pairers, playerVars
<1>2. SameStandings /\ UNCHANGED <<gpc, todo, phase, tdoc>>
    BY <1>1 DEF SameStandings, entryVars, gameDocs, playerDocs, gameProcs, Begin
<1> QED
    BY <1>1, <1>2, BeginKeeps

LEMMA SInvGame ==
    ASSUME State, NEW e \in Entries, GameStep(e) \/ RecoverUser(e) \/ RecoverFx(e), ~Disturbed'
    PROVE  SInv'
<1>1. status \in {"started", "finished"}
    BY RegisterTypes DEF State
<1> QED
    BY <1>1, QuietKeeps, EndGameKeeps, GameUpdateKeeps, UpdatePlayerKeeps, UpdatePairingKeeps
       DEF GameStep

LEMMA SInvStart ==
    ASSUME State, Crash \/ StartStep, ~Disturbed' PROVE SInv'
BY CrashKeeps, LoadKeeps, RecoverScoreKeeps, ScoresRecoveredKeeps, KeepRoundKeeps,
   RollbackGamesKeeps, RollbackPairingsKeeps, RollbackRoundKeeps, RollbackPlayerKeeps, RepairKeeps
   DEF StartStep

LEMMA SInvNext == State /\ [Next]_vars /\ ~Disturbed' => SInv'
<1> SUFFICES ASSUME State, [Next]_vars, ~Disturbed' PROVE SInv'
    OBVIOUS
<1>1. CASE TickWaits \/ TickPlaying \/ UNCHANGED vars
    BY <1>1, QuietKeeps
<1>2. CASE TickFinishes
    BY <1>2, TickFinishesKeeps
<1>3. CASE TickPairs \/ \E d \in Directors : StartNextRound(d)
    BY <1>3, SInvBegin
<1>4. ASSUME NEW pr \in Pairers, PairerStep(pr) PROVE SInv'
    BY <1>4, SInvPairing
<1>5. ASSUME NEW e \in Entries, GameStep(e) \/ RecoverUser(e) \/ RecoverFx(e) PROVE SInv'
    BY <1>5, SInvGame
<1>6. CASE Crash \/ StartStep
    BY <1>6, SInvStart
<1> QED
    BY <1>1, <1>2, <1>3, <1>4, <1>5, <1>6 DEF Next, ClockStep, Pairers

\* The history only grows.
LEMMA DisturbedStays ==
    [Next]_vars /\ Disturbed => Disturbed'
<1> SUFFICES ASSUME [Next]_vars
             PROVE  (ghost => ghost') /\ (torn => torn') /\ (raced => raced')
    BY DEF Disturbed
<1>1. ASSUME NEW pr \in Pairers, PairerStep(pr) PROVE UNCHANGED <<ghost, torn, raced>>
    BY <1>1 DEF PairerStep, NoLegalPairing, Unmark, Pair, StoreUnplayed, SaveUnplayed, InsertGame,
       AddGame, InsertPairings, MarkAbsent, Commit, FinishEarly, SaveTournament, untouchedByPairing,
       history
<1>2. ASSUME NEW pr, Races(pr) PROVE raced => raced'
    BY <1>2, Zenon DEF Races
<1>3. CASE TickPairs \/ TickFinishes \/ \E d \in Directors : StartNextRound(d)
    <2>1. \E pr : Races(pr)
        BY <1>3 DEF TickPairs, TickFinishes, StartNextRound, Begin
    <2>2. UNCHANGED <<ghost, torn>>
        BY <1>3 DEF TickPairs, TickFinishes, StartNextRound, Begin
    <2> QED
        BY <1>2, <2>1, <2>2
<1>4. CASE TickWaits \/ TickPlaying \/ UNCHANGED vars
    BY <1>4 DEF TickWaits, TickPlaying, vars, history
<1>5. ASSUME NEW e \in Entries, GameStep(e) \/ RecoverUser(e) \/ RecoverFx(e)
      PROVE  (ghost => ghost') /\ UNCHANGED <<torn, raced>>
    <2>1. UNCHANGED <<torn, raced>>
        BY <1>5 DEF GameStep, EndGame, UserEffect, StoreFx, GameUpdate, UpdatePlayer, UpdatePairing,
           RecoverUser, RecoverFx, untouchedByGames, untouchedByStart, history
    <2>2. CASE EndGame(e)
        BY <2>2, <2>1, Zenon DEF EndGame
    <2>3. CASE ~EndGame(e)
        <3>1. ghost' = ghost
            BY <1>5, <2>3 DEF GameStep, UserEffect, StoreFx, GameUpdate, UpdatePlayer, UpdatePairing,
               RecoverUser, RecoverFx, history
        <3> QED
            BY <2>1, <3>1
    <2> QED
        BY <2>2, <2>3
<1>6. CASE Crash
    <2>1. UNCHANGED <<ghost, raced>>
        BY <1>6 DEF Crash
    <2>2. torn => torn'
        BY <1>6, Zenon DEF Crash
    <2> QED
        BY <2>1, <2>2
<1>7. CASE StartStep
    <2>1. UNCHANGED <<torn, raced>>
        BY <1>7 DEF StartStep, Load, RecoverScore, ScoresRecovered, KeepRound, RollbackGames,
           RollbackPairings, RollbackRound, RollbackPlayer, Repair, untouchedByStart
    <2>2. CASE RollbackGames
        <3>1. PICK gone : ghost' = (ghost \/ \E e \in gone : gpc[e] \notin {"none", "play"})
            BY <2>2 DEF RollbackGames
        <3> QED
            BY <2>1, <3>1, Zenon
    <2>3. CASE ~RollbackGames
        <3>1. ghost' = ghost
            BY <1>7, <2>3 DEF StartStep, Load, RecoverScore, ScoresRecovered, KeepRound,
               RollbackPairings, RollbackRound, RollbackPlayer, Repair, untouchedByStart
        <3> QED
            BY <2>1, <3>1
    <2> QED
        BY <2>2, <2>3
<1> QED
    BY <1>1, <1>3, <1>4, <1>5, <1>6, <1>7 DEF Next, ClockStep, Pairers

\* A tournament starts with nothing.
LEMMA EmptySequence == Rising(<<>>) /\ ToSet(<<>>) = {}
BY DEF Rising, ToSet

LEMMA SInvInit == Init => SInv
<1> SUFFICES ASSUME Init PROVE SInv
    OBVIOUS
<1>1. /\ \A e \in Entries : /\ kind[e] = "none" /\ who[e] = {} /\ rnd[e] = 0 /\ gdoc[e] = "none"
                            /\ pdoc[e] = "none" /\ noshow[e] = None /\ gpc[e] = "none" /\ e # None
      /\ \A p \in Players : games[p] = <<>> /\ points[p] = <<>> /\ scored[p] = <<>>
      /\ \A pr \in Pairers : ppc[pr] = "idle" /\ made[pr] = {} /\ cur[pr] = None
      /\ tdoc.status = "started" /\ tdoc.cr = 0 /\ tdoc.inProgress = 0
      /\ phase = "up" /\ status = "started" /\ round = 0 /\ inProgress = 0
      /\ ongoing = {} /\ rolling = {} /\ paused = {} /\ away = {}
    BY SwissAssumption DEF Init
<1>2. \A p \in Players : GameSet(p) = {} /\ PointSet(p) = {} /\ ScoredSet(p) = {}
    BY <1>1, EmptySequence DEF GameSet, PointSet, ScoredSet
<1>3. \A e \in Entries : ~Present(e) /\ ~InHand(e)
    BY <1>1 DEF Present, InHand
<1>4. Kinds /\ Sorted
    BY <1>1, EmptySequence DEF Kinds, Sorted
<1>5. Book
    BY <1>1, <1>3 DEF Book, InRounds, Full, Unique, Ordered
<1>6. Docs /\ Remembered /\ Pointed
    BY <1>1, <1>2, <1>3 DEF Docs, Remembered, Pointed
<1>7. Documented /\ Playing /\ Registers
    BY <1>1 DEF Documented, Playing, Registers, Pairing
<1>8. Solo /\ Opening /\ Fills /\ Planned
    BY <1>1 DEF Solo, Opening, Fills, Planned, Pairing, Filling
<1> QED
    BY <1>4, <1>5, <1>6, <1>7, <1>8 DEF SInv

-----------------------------------------------------------------------------
(* The theorems *)

Standing == IInv /\ OnlyPlayers /\ TypeInv /\ (Disturbed \/ SInv)

\* Unless the code is disturbed, what the tournament, its players and its games have in
\* memory and in their documents agree, wherever the process is and whatever was lost.
THEOREM StandingInvariant == Spec => []Standing
<1>1. Init => Standing
    BY IInvInit, TypeInvInit, SInvInit DEF Standing
<1>2. Standing /\ [Next]_vars => Standing'
    <2> SUFFICES ASSUME Standing, [Next]_vars PROVE Standing'
        OBVIOUS
    <2>1. IInv' /\ OnlyPlayers' /\ TypeInv'
        BY IInvNext, TypeInvNext DEF Standing
    <2>2. Disturbed' \/ SInv'
        BY DisturbedStays, SInvNext DEF Standing, State
    <2> QED
        BY <2>1, <2>2 DEF Standing
<1> QED
    BY <1>1, <1>2, PTL DEF Spec

\* Each point of a player stands at the place of the game it was given for, the index by
\* which the result of a game is found again (_player_game_result_applied), through any
\* number of rounds, crashes and rollbacks, unless the code is disturbed (which
\* PointsMatchGames excepts).
THEOREM PointsAtTheirGames == Spec => []PointsMatchGames
<1>1. Standing => PointsMatchGames
    BY MatchAll DEF Standing, State, PointsMatchGames
<1> QED
    BY <1>1, StandingInvariant, PTL

\* Unless the code is disturbed, a round is stored only when every result of the earlier
\* ones is (pair_fixed_round).
THEOREM RoundsOneByOne == Spec => [](Disturbed \/ RoundsInOrder)
<1>1. Standing => Disturbed \/ RoundsInOrder
    <2> SUFFICES ASSUME State, NEW e \in Entries, NEW f \in Entries,
                        Stored(e), Stored(f), rnd[e] < rnd[f]
                 PROVE  pdoc[e] = "over"
        BY DEF Standing, State, RoundsInOrder
    <2> QED
        BY DEF Stored, Present, Settled, State, SInv, Book, Ordered
<1> QED
    BY <1>1, StandingInvariant, PTL

\* Unless the code is disturbed, one who did not show up is in no game of a later round,
\* however often the process died in between (_apply_finished_game_update, recover_game_update).
THEOREM NoShowsStayOut == Spec => [](Disturbed \/ NoShowStaysOut)
<1>1. Standing => Disturbed \/ NoShowStaysOut
    <2> SUFFICES ASSUME State, NEW e \in Entries, NEW f \in Entries,
                        Stored(e), kind[f] = "game", rnd[e] < rnd[f]
                 PROVE  noshow[e] \notin who[f]
        BY DEF Standing, State, NoShowStaysOut
    <2> QED
        BY DEF Stored, Present, State, SInv, Book, Ordered
<1> QED
    BY <1>1, StandingInvariant, PTL

\* A tournament that is stored as finished, undisturbed, has no game in play, and its
\* players' documents have a point for every entry (finish, finalize).
THEOREM FinishedWhole == Spec => []FinishedComplete
<1>1. Standing => FinishedComplete
    <2> SUFFICES ASSUME State, tdoc.status = "finished", NEW e \in Entries,
                        kind[e] # "none", pdoc[e] # "none"
                 PROVE  pdoc[e] = "over" /\ \A p \in who[e] : e \in ToSet(scored[p])
        BY DEF Standing, State, FinishedComplete, AllScored
    <2> USE DEF State, SInv
    <2>1. /\ phase = "up" /\ status = "finished" /\ ongoing = {}
          /\ \A pr \in Pairers : ppc[pr] \in {"idle", "save"}
        BY RegisterTypes DEF Registers
    <2>2. pdoc[e] # "live"
        BY <2>1 DEF Docs, Documented
    <2>3. pdoc[e] = "over"
        BY <2>2, Types
    <2>4. Settled(e)
        BY <2>1, <2>3 DEF Documented
    <2> QED
        BY <2>3, <2>4 DEF Settled, ScoredSet
<1> QED
    BY <1>1, StandingInvariant, PTL

\* Unless the code is disturbed, between the rounds each player has one entry in every
\* stored round: an interrupted commit neither skips a round nor pairs it twice
\* (_recover_incomplete_fixed_round_pairing_round).
THEOREM OneEntryEach == Spec => []OneEntryPerRound
<1>1. Standing => OneEntryPerRound
    <2> SUFFICES ASSUME State, NEW p \in Players, NEW r \in 1..tdoc.cr
                 PROVE  Cardinality({e \in Entries : p \in who[e] /\ rnd[e] = r /\ pdoc[e] # "none"}) = 1
        BY DEF Standing, State, OneEntryPerRound
    <2> DEFINE S == {e \in Entries : p \in who[e] /\ rnd[e] = r /\ pdoc[e] # "none"}
    <2>1. PICK e \in S : TRUE
        BY DEF State, SInv, Book, Full
    <2>2. \A f \in S : f = e
        BY <2>1 DEF State, SInv, Book, Unique, Present
    <2>3. S = {e}
        BY <2>1, <2>2
    <2> QED
        BY <2>3, FS_Singleton
<1> QED
    BY <1>1, StandingInvariant, PTL

=============================================================================
