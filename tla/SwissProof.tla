----------------------------- MODULE SwissProof -----------------------------
(***************************************************************************)
(* Each game of a Swiss tournament is counted once for both its players,   *)
(* and every variable keeps its type, for any number of players, rounds,   *)
(* directors and crashes.                                                  *)
(*                                                                         *)
(* What makes the first inductive is how far the end of a game has got:    *)
(* from the moment its effects are recorded as applied its coroutine, its  *)
(* fx field and its pairing document all come after the marks of both      *)
(* users.  The pairing of a round must be shown to keep out of the way: a  *)
(* game that is being created has no coroutine, is no result, and belongs  *)
(* to one pairing coroutine.                                               *)
(*                                                                         *)
(* The sequences of the players rise, since entries are made one after the *)
(* other, and so are given by their members: the lemmas in the middle are  *)
(* what the types and the standings need of such sequences.                *)
(***************************************************************************)
EXTENDS Swiss, FiniteSetTheorems, SequenceTheorems, WellFoundedInduction, TLAPS

Typed ==
    /\ kind \in [Entries -> {"none", "game", "U", "Z"}]
    /\ who \in [Entries -> SUBSET Players]
    /\ gdoc \in [Entries -> {"none", "live", "over"}]
    /\ fx \in [Entries -> 0..2]
    /\ pdoc \in [Entries -> {"none", "live", "over"}]
    /\ marks \in [Players -> SUBSET Entries]
    /\ counts \in [Players -> Nat]
    /\ gpc \in [Entries -> {"none", "play", "users", "fx", "update",
                            "players", "pairing", "done"}]
    /\ todo \in [Entries -> SUBSET Players]
    /\ ppc \in [Pairers -> {"idle", "mark", "unmark", "bye", "byedoc", "create", "add",
                            "absent", "absentdoc", "chat", "save"}]
    /\ cur \in [Pairers -> Entries \cup {None}]
    /\ made \in [Pairers -> SUBSET Entries]

\* Entries are made one after the other; what is not made is nowhere.
Prefix == \E k \in 0..MaxEntries : \A e \in Entries : kind[e] # "none" <=> e <= k
Unmade == \A e \in Entries : kind[e] = "none" =>
              gdoc[e] = "none" /\ pdoc[e] = "none" /\ fx[e] = 0 /\ gpc[e] = "none"

Marked(e) == \A p \in who[e] : e \in marks[p]

\* Before the effects of a game are stored as applied, and from then on.
Effects ==
    \A e \in Entries :
        /\ gdoc[e] = "over" => fx[e] # 0
        /\ fx[e] = 2 => Marked(e)
        /\ gpc[e] = "users" => \A p \in who[e] \ todo[e] : e \in marks[p]
        /\ gpc[e] \in {"fx", "update", "players", "pairing", "done"} => Marked(e)
        /\ kind[e] = "game" /\ pdoc[e] = "over" => Marked(e)

Counted == \A p \in Players : counts[p] = Cardinality(marks[p])

\* A game that is being created.
Held(pr) == made[pr] \cup {e \in Entries : ppc[pr] = "add" /\ cur[pr] = e}

Creating ==
    /\ \A pr \in Pairers : \A e \in Held(pr) :
          kind[e] = "game" /\ gdoc[e] # "over" /\ gpc[e] = "none"
    /\ \A pr, other \in Pairers : pr # other => Held(pr) \cap Held(other) = {}

\* An entry that is no game, between its documents.
Resting ==
    /\ \A pr \in Pairers : cur[pr] # None =>
          \/ ppc[pr] = "add"
          \/ /\ ppc[pr] \in {"bye", "byedoc", "absent", "absentdoc"}
             /\ kind[cur[pr]] \in {"U", "Z"}
    /\ \A pr \in Pairers : ppc[pr] = "add" => cur[pr] # None

\* Nothing is paired before the process is up.
Quiet == phase # "up" => \A pr \in Pairers : ppc[pr] = "idle" /\ made[pr] = {}

\* Only players are paired.
OnlyPlayers ==
    /\ free \subseteq Players
    /\ rest \in [Pairers -> SUBSET Players]
    /\ plan \in [Pairers -> SUBSET SUBSET Players]

PairInv == Creating /\ Resting /\ Quiet
IInv == Typed /\ Prefix /\ Unmade /\ Effects /\ Counted /\ PairInv

-----------------------------------------------------------------------------
(* Counting *)

LEMMA EntriesFinite == ASSUME NEW S \in SUBSET Entries PROVE IsFiniteSet(S)
<1>1. IsFiniteSet(Entries)
    BY SwissAssumption, FS_Interval DEF Entries
<1> QED
    BY <1>1, FS_Subset

LEMMA NextIsUnmade ==
    ASSUME Typed, Prefix, NextEntry \in Entries
    PROVE  /\ kind[NextEntry] = "none"
           /\ \A k : k \in {"game", "U", "Z"} =>
                \A f : f = [kind EXCEPT ![NextEntry] = k] =>
                    \E n \in 0..MaxEntries : \A e \in Entries : f[e] # "none" <=> e <= n
<1>1. PICK k \in 0..MaxEntries : \A e \in Entries : kind[e] # "none" <=> e <= k
    BY DEF Prefix
<1>2. {e \in Entries : kind[e] # "none"} = 1..k
    BY <1>1, SwissAssumption DEF Entries
<1>3. Cardinality(1..k) = k
    BY <1>1, SwissAssumption, FS_Interval
<1>4. NextEntry = k + 1
    BY <1>2, <1>3 DEF NextEntry
<1>5. kind[NextEntry] = "none" /\ k + 1 \in 0..MaxEntries
    BY <1>1, <1>4, SwissAssumption DEF Entries
<1>6. ASSUME NEW c \in {"game", "U", "Z"}, NEW f, f = [kind EXCEPT ![NextEntry] = c]
      PROVE  \A e \in Entries : f[e] # "none" <=> e <= k + 1
    BY <1>1, <1>4, <1>6 DEF Typed, Entries
<1> QED
    BY <1>5, <1>6

LEMMA ApplyFacts ==
    ASSUME Typed, Counted, NEW e \in Entries, NEW p \in Players, ApplyOnce(e, p)
    PROVE  /\ marks' \in [Players -> SUBSET Entries] /\ counts' \in [Players -> Nat]
           /\ Counted'
           /\ \A q \in Players : marks[q] \subseteq marks'[q]
           /\ e \in marks'[p]
<1>1. marks' = [marks EXCEPT ![p] = @ \cup {e}]
    BY DEF ApplyOnce
<1>2. marks' \in [Players -> SUBSET Entries] /\ counts' \in [Players -> Nat]
    BY DEF ApplyOnce, Typed
<1>3. ASSUME NEW q \in Players PROVE counts'[q] = Cardinality(marks'[q])
    <2>1. marks[q] \in SUBSET Entries /\ IsFiniteSet(marks[q])
        BY EntriesFinite DEF Typed
    <2>2. CASE q = p /\ e \notin marks[p]
        <3>1. Cardinality(marks[p] \cup {e}) = Cardinality(marks[p]) + 1
            BY <2>1, <2>2, FS_AddElement
        <3>2. counts'[p] = counts[p] + 1 /\ marks'[p] = marks[p] \cup {e}
            BY <2>2 DEF ApplyOnce, Typed
        <3> QED
            BY <2>2, <3>1, <3>2 DEF Counted
    <2>3. CASE q = p /\ e \in marks[p]
        <3>1. counts'[p] = counts[p] /\ marks'[p] = marks[p]
            BY <2>3 DEF ApplyOnce, Typed
        <3> QED
            BY <2>3, <3>1 DEF Counted
    <2>4. CASE q # p
        BY <2>4 DEF ApplyOnce, Typed, Counted
    <2> QED
        BY <2>2, <2>3, <2>4
<1> QED
    BY <1>1, <1>2, <1>3 DEF Typed, Counted

-----------------------------------------------------------------------------
(* The games                                                                 *)

\* What a game, its effects and their recovery leave alone.
Paired == UNCHANGED <<kind, who, phase, ppc, cur, made>>

\* Results and their effects go forward, and no game that is being created moves.
Forward ==
    /\ \A p \in Players : marks[p] \subseteq marks'[p]
    /\ \A e \in Entries : \/ gpc'[e] = gpc[e] /\ gdoc'[e] = gdoc[e]
                          \/ gpc[e] # "none"
    /\ \A e \in Entries : \/ kind[e] # "none"
                          \/ UNCHANGED <<fx[e], pdoc[e]>>

LEMMA KeepPaired ==
    ASSUME IInv, Paired, Forward, Typed'
    PROVE  Prefix' /\ Unmade' /\ PairInv'
<1> USE DEF IInv, Typed, Paired, Forward
<1>1. Prefix'
    BY DEF Prefix
<1>2. Unmade'
    BY DEF Unmade
<1>3. \A pr \in Pairers : Held(pr)' = Held(pr) /\ Held(pr) \subseteq Entries
    BY DEF Held
<1>4. Creating'
    BY <1>3 DEF PairInv, Creating
<1>5. Resting' /\ Quiet'
    BY DEF PairInv, Resting, Quiet
<1> QED
    BY <1>1, <1>2, <1>4, <1>5 DEF PairInv

LEMMA StepEndGame ==
    ASSUME IInv, NEW e \in Entries, EndGame(e) PROVE IInv'
<1> USE DEF IInv, EndGame, untouchedByGames, entryVars, playerVars, pairProcs, userDocs,
            playerDocs, roundVars
<1>1. Typed'
    BY DEF Typed
<1>2. Paired /\ Forward
    BY <1>1 DEF Paired, Forward, Unmade, Typed
<1>3. Effects'
    BY DEF Effects, Marked, Typed
<1>4. Counted'
    BY DEF Counted
<1> QED
    BY <1>1, <1>2, <1>3, <1>4, KeepPaired

LEMMA StepUserEffect ==
    ASSUME IInv, NEW e \in Entries, UserEffect(e) PROVE IInv'
<1> USE DEF IInv, untouchedByGames, entryVars, playerVars, pairProcs, gameDocs, playerDocs,
            roundVars
<1>0. PICK p \in todo[e] :
        /\ ApplyOnce(e, p)
        /\ todo' = [todo EXCEPT ![e] = @ \ {p}]
        /\ gpc' = IF todo[e] = {p} THEN [gpc EXCEPT ![e] = "fx"] ELSE gpc
    BY DEF UserEffect
<1>1. p \in Players /\ gpc[e] = "users"
    BY DEF UserEffect, Typed
<1>2. /\ marks' \in [Players -> SUBSET Entries] /\ counts' \in [Players -> Nat]
      /\ Counted' /\ e \in marks'[p]
      /\ \A q \in Players : marks[q] \subseteq marks'[q]
    BY <1>1, <1>0, ApplyFacts
<1>3. Typed'
    BY <1>0, <1>2 DEF Typed, UserEffect
<1>4. Paired /\ Forward
    BY <1>0, <1>1, <1>2 DEF Paired, Forward, Typed, UserEffect
<1>5. Effects'
    <2>1. UNCHANGED <<gdoc, fx, pdoc, kind, who>>
        BY DEF UserEffect
    <2>2. \A f \in Entries : Marked(f) => Marked(f)'
        BY <1>2, <2>1 DEF Marked, Typed
    <2>3. \A q \in who[e] \ todo'[e] : e \in marks'[q]
        BY <1>0, <1>1, <1>2 DEF Effects, Typed
    <2>4. gpc'[e] = "fx" => Marked(e)'
        BY <1>0, <1>1, <2>1, <2>3 DEF Marked, Typed
    <2>5. gpc'[e] \in {"users", "fx"} /\ \A f \in Entries \ {e} : gpc'[f] = gpc[f] /\ todo'[f] = todo[f]
        BY <1>0, <1>1 DEF Typed
    <2> QED
        BY <1>2, <2>1, <2>2, <2>3, <2>4, <2>5 DEF Effects, Typed
<1> QED
    BY <1>2, <1>3, <1>4, <1>5, KeepPaired

\* The other steps at the end of a game.
LEMMA StepGame ==
    ASSUME IInv, NEW e \in Entries,
           StoreFx(e) \/ GameUpdate(e) \/ UpdatePlayer(e) \/ UpdatePairing(e)
    PROVE  IInv'
<1> USE DEF IInv, untouchedByGames, entryVars, playerVars, pairProcs, gameDocs, playerDocs,
            userDocs, roundVars
<1>1. /\ UNCHANGED <<kind, who, gdoc, marks, counts, phase, ppc, cur, made>>
      /\ gpc[e] \in {"fx", "update", "players", "pairing"}
      /\ \A f \in Entries \ {e} : UNCHANGED <<fx[f], gpc[f], pdoc[f], todo[f]>>
      /\ gpc'[e] \in {"update", "players", "pairing", "done"}
    BY DEF StoreFx, GameUpdate, UpdatePlayer, UpdatePairing, EffectsDone, StorePairing, Typed
<1>2. /\ gpc' \in [Entries -> {"none", "play", "users", "fx", "update",
                              "players", "pairing", "done"}]
      /\ todo' \in [Entries -> SUBSET Players]
      /\ fx' \in [Entries -> 0..2]
      /\ pdoc' \in [Entries -> {"none", "live", "over"}]
    BY DEF StoreFx, GameUpdate, UpdatePlayer, UpdatePairing, EffectsDone, StorePairing, Typed
<1>3. fx[e] # 0 => fx'[e] # 0
    BY DEF StoreFx, GameUpdate, UpdatePlayer, UpdatePairing, EffectsDone, Typed
<1>4. Typed'
    BY <1>1, <1>2 DEF Typed
<1>5. kind[e] # "none" /\ Marked(e)
    BY <1>1 DEF Unmade, Effects
<1>6. Paired /\ Forward
    BY <1>1, <1>5 DEF Paired, Forward
<1>7. Effects'
    <2>1. \A f \in Entries : Marked(f)' <=> Marked(f)
        BY <1>1 DEF Marked
    <2> QED
        BY <1>1, <1>3, <1>5, <2>1 DEF Effects
<1>8. Counted'
    BY <1>1 DEF Counted
<1> QED
    BY <1>4, <1>6, <1>7, <1>8, KeepPaired

-----------------------------------------------------------------------------
(* The start of the process                                                  *)

LEMMA StepRecover ==
    ASSUME IInv, NEW e \in Entries, RecoverUser(e) \/ RecoverFx(e) PROVE IInv'
<1> USE DEF IInv, untouchedByStart, pairProcs, playerVars, playerDocs, userDocs
<1>1. CASE RecoverUser(e)
    <2>0. PICK p \in who[e] : ApplyOnce(e, p)
        BY <1>1 DEF RecoverUser
    <2>1. /\ UNCHANGED <<kind, who, gdoc, fx, pdoc, gpc, todo, phase, ppc, cur, made>>
          /\ p \in Players
        BY <1>1 DEF RecoverUser, Typed
    <2>2. /\ marks' \in [Players -> SUBSET Entries] /\ counts' \in [Players -> Nat]
          /\ Counted'
          /\ \A q \in Players : marks[q] \subseteq marks'[q]
        BY <2>0, <2>1, ApplyFacts
    <2>3. Typed' /\ Paired /\ Forward
        BY <2>1, <2>2 DEF Typed, Paired, Forward
    <2>4. Effects'
        BY <2>1, <2>2 DEF Effects, Marked, Typed
    <2> QED
        BY <2>2, <2>3, <2>4, KeepPaired
<1>2. CASE RecoverFx(e)
    <2>1. /\ UNCHANGED <<kind, who, gdoc, pdoc, marks, counts, gpc, todo, phase, ppc, cur, made>>
          /\ fx' = [fx EXCEPT ![e] = 2] /\ fx[e] = 1 /\ Marked(e)
        BY <1>2 DEF RecoverFx, EffectsDone, Marked, Typed
    <2>2. Typed' /\ Paired /\ Forward
        BY <2>1 DEF Typed, Paired, Forward, Unmade
    <2>3. Effects' /\ Counted'
        BY <2>1 DEF Effects, Marked, Typed, Counted
    <2> QED
        BY <2>2, <2>3, KeepPaired
<1> QED
    BY <1>1, <1>2

LEMMA StepCrash ==
    ASSUME IInv, Crash PROVE IInv'
<1> USE DEF IInv, Crash, entryVars, gameDocs, playerDocs, userDocs
<1>1. Typed'
    BY DEF Typed
<1>2. Prefix' /\ Unmade' /\ Counted'
    BY DEF Prefix, Unmade, Counted, Typed
<1>3. Effects'
    BY DEF Effects, Marked, Typed
<1>4. PairInv'
    BY SwissAssumption DEF PairInv, Creating, Held, Resting, Quiet, Typed
<1> QED
    BY <1>1, <1>2, <1>3, <1>4

\* Documents may go or be written while the process starts.
Starts ==
    /\ UNCHANGED <<kind, who, marks, counts, todo, ppc, cur, made>>
    /\ phase # "up"

LEMMA KeepStarts ==
    ASSUME IInv, Starts, Typed', \A e \in Entries : kind[e] = "none" =>
               gdoc'[e] = "none" /\ pdoc'[e] = "none" /\ fx'[e] = 0 /\ gpc'[e] = "none"
    PROVE  Prefix' /\ Unmade' /\ Counted' /\ PairInv'
<1> USE DEF IInv, Starts
<1>1. Prefix' /\ Unmade' /\ Counted'
    BY DEF Prefix, Unmade, Counted
<1>2. \A pr \in Pairers : Held(pr)' = {}
    BY DEF PairInv, Quiet, Held
<1>3. PairInv'
    BY <1>2 DEF PairInv, Creating, Resting, Quiet
<1> QED
    BY <1>1, <1>3

LEMMA StepLoad ==
    ASSUME IInv, Load PROVE IInv'
<1> USE DEF IInv, Load, untouchedByStart, pairProcs, playerDocs, userDocs
<1> DEFINE repaired == [e \in Entries |-> IF gdoc[e] # "none" THEN gdoc[e] ELSE pdoc[e]]
           live == {e \in Entries : repaired[e] = "live" /\ gdoc[e] = "live"}
<1>1. /\ pdoc' = repaired
      /\ gpc' = [e \in Entries |-> IF e \in live THEN "play" ELSE "none"]
    BY DEF GamesResume
<1>2. Starts /\ UNCHANGED <<gdoc, fx>>
    BY DEF Starts
<1>3. Typed'
    BY <1>1, <1>2 DEF Typed, Starts
<1>4. \A e \in Entries : kind[e] = "none" =>
          gdoc'[e] = "none" /\ pdoc'[e] = "none" /\ fx'[e] = 0 /\ gpc'[e] = "none"
    BY <1>1, <1>2 DEF Unmade
<1>5. Effects'
    <2>1. \A e \in Entries : Marked(e)' <=> Marked(e)
        BY <1>2 DEF Marked, Starts
    <2>2. \A e \in Entries : gpc'[e] \in {"play", "none"}
        BY <1>1
    <2>3. ASSUME NEW e \in Entries, kind[e] = "game", pdoc'[e] = "over" PROVE Marked(e)
        <3>1. CASE gdoc[e] = "over"
            <4>1. fx[e] = 1 \/ fx[e] = 2
                BY <3>1 DEF Effects, Typed
            <4>2. EffectsRecovered
                OBVIOUS
            <4> QED
                BY <4>1, <4>2 DEF Effects, Marked, EffectsRecovered
        <3>2. CASE gdoc[e] # "over"
            BY <1>1, <2>3, <3>2 DEF Effects, Typed
        <3> QED
            BY <3>1, <3>2
    <2> QED
        BY <1>2, <2>1, <2>2, <2>3 DEF Effects, Starts
<1> QED
    BY <1>2, <1>3, <1>4, <1>5, KeepStarts

Deletes ==
    /\ \A e \in Entries : \/ gdoc'[e] = gdoc[e] /\ fx'[e] = fx[e]
                          \/ gdoc'[e] = "none" /\ fx'[e] = 0
    /\ \A e \in Entries : pdoc'[e] = pdoc[e] \/ pdoc'[e] = "none"
    /\ gdoc' \in [Entries -> {"none", "live", "over"}]
    /\ fx' \in [Entries -> 0..2]
    /\ pdoc' \in [Entries -> {"none", "live", "over"}]

\* The other steps of the start delete documents at most.
LEMMA StepStart ==
    ASSUME IInv, StartStep, ~Load PROVE IInv'
<1> USE DEF IInv, untouchedByStart, pairProcs, playerDocs, userDocs
<1>1. Starts /\ UNCHANGED gpc
    BY DEF StartStep, RecoverScore, ScoresRecovered, KeepRound, RollbackGames,
       RollbackPairings, RollbackRound, RollbackPlayer, Repair, Starts
<1>0. /\ gdoc \in [Entries -> {"none", "live", "over"}]
      /\ fx \in [Entries -> 0..2] /\ pdoc \in [Entries -> {"none", "live", "over"}]
    BY DEF Typed
<1>2. ASSUME RollbackGames PROVE Deletes
    <2>1. /\ UNCHANGED pdoc
          /\ \E gone : /\ gdoc' = [e \in Entries |-> IF e \in gone THEN "none" ELSE gdoc[e]]
                       /\ fx' = [e \in Entries |-> IF e \in gone THEN 0 ELSE fx[e]]
        BY <1>2 DEF RollbackGames
    <2> QED
        BY <1>0, <2>1 DEF Deletes
<1>3. ASSUME RollbackPairings PROVE Deletes
    <2>1. UNCHANGED <<gdoc, fx>>
        BY <1>3 DEF RollbackPairings
    <2>2. pdoc' = [e \in Entries |-> IF rnd[e] = inProgress THEN "none" ELSE pdoc[e]]
        BY <1>3 DEF RollbackPairings
    <2> QED
        BY <1>0, <2>1, <2>2 DEF Deletes
<1>4. ASSUME UNCHANGED <<gdoc, fx, pdoc>> PROVE Deletes
    BY <1>0, <1>4 DEF Deletes
<1>a. Deletes
    BY <1>2, <1>3, <1>4 DEF StartStep, RecoverScore, ScoresRecovered, KeepRound,
       RollbackRound, RollbackPlayer, Repair
<1>5. Typed'
    BY <1>1, <1>a DEF Typed, Starts, Deletes
<1>6. \A e \in Entries : kind[e] = "none" =>
          gdoc'[e] = "none" /\ pdoc'[e] = "none" /\ fx'[e] = 0 /\ gpc'[e] = "none"
    BY <1>1, <1>a DEF Unmade, Deletes
<1>7. Effects'
    <2>1. \A e \in Entries : Marked(e)' <=> Marked(e)
        BY <1>1 DEF Marked, Starts
    <2> QED
        BY <1>1, <1>a, <2>1 DEF Effects, Starts, Deletes
<1> QED
    BY <1>1, <1>5, <1>6, <1>7, KeepStarts

-----------------------------------------------------------------------------
(* The pairing of a round                                                    *)

\* A coroutine goes on without touching an entry.
Turns(pr) ==
    /\ UNCHANGED <<kind, who, gdoc, fx, pdoc, marks, counts, gpc, todo, phase, cur>>
    /\ made' = made \/ made' = [made EXCEPT ![pr] = {}]
    /\ phase = "up"
    /\ ppc[pr] # "add"
    /\ \E l \in {"idle", "mark", "unmark", "create", "chat", "save"} :
          ppc' = [ppc EXCEPT ![pr] = l]
    /\ ppc[pr] \notin {"bye", "byedoc", "absent", "absentdoc"}

LEMMA KeepTurns ==
    ASSUME IInv, NEW pr \in Pairers, Turns(pr) PROVE IInv'
<1> USE DEF IInv, Turns
<1>1. Typed'
    BY DEF Typed
<1>2. Prefix' /\ Unmade' /\ Counted'
    BY DEF Prefix, Unmade, Counted
<1>3. Effects'
    BY DEF Effects, Marked
<1>4. \A other \in Pairers : Held(other)' \subseteq Held(other) /\ Held(other) \subseteq Entries
    BY DEF Held, Typed
<1>5. PairInv'
    <2>1. Creating'
        BY <1>4 DEF PairInv, Creating
    <2>2. Resting' /\ Quiet'
        BY DEF PairInv, Resting, Quiet, Typed
    <2> QED
        BY <2>1, <2>2 DEF PairInv
<1> QED
    BY <1>1, <1>2, <1>3, <1>5

LEMMA StepTurns ==
    ASSUME IInv, NEW pr \in Pairers,
           \/ NoLegalPairing(pr) \/ Unmark(pr) \/ FinishEarly(pr) \/ SaveTournament(pr)
           \/ pr = Clock /\ (TickPairs \/ TickFinishes)
           \/ pr \in Directors /\ StartNextRound(pr)
    PROVE  IInv'
<1>1. CASE NoLegalPairing(pr) \/ Unmark(pr) \/ FinishEarly(pr) \/ SaveTournament(pr)
    <2>1. phase = "up"
        BY <1>1 DEF NoLegalPairing, Unmark, FinishEarly, SaveTournament, IInv, PairInv, Quiet
    <2> QED
        BY <1>1, <2>1, KeepTurns DEF NoLegalPairing, Unmark, FinishEarly, SaveTournament,
           Finalize, Moves, Turns, untouchedByPairing, gameDocs, userDocs, gameProcs
<1>2. CASE pr = Clock /\ (TickPairs \/ TickFinishes)
    BY <1>2, KeepTurns DEF TickPairs, TickFinishes, Ticks, Begin, Finalize, Moves, Turns,
       entryVars, gameDocs, userDocs, gameProcs
<1>3. CASE pr \in Directors /\ StartNextRound(pr)
    BY <1>3, KeepTurns DEF StartNextRound, Begin, Moves, Turns,
       entryVars, gameDocs, userDocs, gameProcs
<1> QED
    BY <1>1, <1>2, <1>3

\* The clock task waits: nothing here changes.
LEMMA StepTick ==
    ASSUME IInv, TickWaits \/ TickPlaying \/ UNCHANGED vars PROVE IInv'
<1>1. UNCHANGED <<kind, who, gdoc, fx, pdoc, marks, counts, gpc, todo, phase, ppc, cur, made>>
    BY DEF TickWaits, TickPlaying, Ticks, vars, entryVars, gameDocs, userDocs, gameProcs,
       pairProcs
<1>2. Typed' /\ Paired /\ Forward
    BY <1>1 DEF IInv, Typed, Paired, Forward
<1>3. Effects' /\ Counted'
    BY <1>1 DEF IInv, Effects, Marked, Counted
<1> QED
    BY <1>2, <1>3, KeepPaired DEF IInv

\* What a new entry leaves alone: its coroutine has it, and no other does.
NewEntryBy(pr, k) ==
    /\ NextEntry \in Entries /\ phase = "up"
    /\ kind' = [kind EXCEPT ![NextEntry] = k]
    /\ \E ps \in SUBSET Players : who' = [who EXCEPT ![NextEntry] = ps]
    /\ UNCHANGED <<fx, pdoc, marks, counts, gpc, todo, phase>>
    /\ cur' = [cur EXCEPT ![pr] = NextEntry]
    /\ \A other \in Pairers \ {pr} : ppc'[other] = ppc[other]
    /\ made' = made \/ made' = [made EXCEPT ![pr] = {}]

LEMMA KeepNewEntry ==
    ASSUME IInv, NEW pr \in Pairers, NEW k \in {"game", "U", "Z"}, NewEntryBy(pr, k), Typed',
           \/ /\ k = "game" /\ ppc'[pr] = "add"
              /\ gdoc' = [gdoc EXCEPT ![NextEntry] = "live"]
           \/ k # "game" /\ ppc'[pr] \in {"bye", "absent"} /\ UNCHANGED gdoc
    PROVE  IInv'
<1> DEFINE e == NextEntry
<1>1. e \in Entries /\ kind[e] = "none" /\ Prefix'
    <2>1. Typed /\ Prefix
        BY DEF IInv
    <2> QED
        BY <2>1, NextIsUnmade DEF NewEntryBy, Prefix
<1>2. gdoc[e] = "none" /\ pdoc[e] = "none" /\ fx[e] = 0 /\ gpc[e] = "none"
    BY <1>1 DEF IInv, Unmade
<1> USE DEF NewEntryBy
<1> HIDE DEF e
<1>3. /\ kind' = [kind EXCEPT ![e] = k]
      /\ \A f \in Entries \ {e} : who'[f] = who[f] /\ gdoc'[f] = gdoc[f]
      /\ gdoc'[e] # "over"
      /\ cur' = [cur EXCEPT ![pr] = e]
    BY <1>2 DEF e, IInv, Typed
<1>4. Unmade'
    BY <1>1, <1>3 DEF IInv, Unmade, Typed
<1>5. Effects'
    <2>1. \A f \in Entries \ {e} : Marked(f)' <=> Marked(f)
        BY <1>3 DEF Marked
    <2>2. \A f \in Entries \ {e} : kind'[f] = kind[f]
        BY <1>3 DEF IInv, Typed
    <2> QED
        BY <1>2, <1>3, <2>1, <2>2 DEF IInv, Effects
<1>6. Counted'
    BY DEF IInv, Counted
<1>7. \A other \in Pairers : e \notin Held(other)
    BY <1>1 DEF IInv, PairInv, Creating
<1>8. /\ \A other \in Pairers \ {pr} : Held(other)' = Held(other)
      /\ Held(pr)' \subseteq made[pr] \cup {f \in Entries : k = "game" /\ f = e}
    BY <1>3 DEF Held, IInv, Typed
<1>9. made[pr] \subseteq Held(pr) /\ \A other \in Pairers : Held(other) \subseteq Entries
    BY DEF Held, IInv, Typed
<1>10. Creating'
    <2>1. ASSUME NEW other \in Pairers, NEW f \in Held(other)'
          PROVE  kind'[f] = "game" /\ gdoc'[f] # "over" /\ gpc'[f] = "none"
        <3>1. CASE f = e
            BY <1>1, <1>2, <1>3, <1>7, <1>8, <1>9, <2>1, <3>1 DEF IInv, Typed
        <3>2. CASE f # e
            <4>1. f \in Held(other) /\ f \in Entries
                BY <1>8, <1>9, <2>1, <3>2
            <4> QED
                BY <1>3, <3>2, <4>1 DEF IInv, PairInv, Creating, Typed
        <3> QED
            BY <3>1, <3>2
    <2>2. ASSUME NEW p \in Pairers, NEW q \in Pairers, p # q
          PROVE  Held(p)' \cap Held(q)' = {}
        <3>1. Held(p) \cap Held(q) = {}
            BY <2>2 DEF IInv, PairInv, Creating
        <3> QED
            BY <1>7, <1>8, <1>9, <2>2, <3>1
    <2> QED
        BY <2>1, <2>2 DEF Creating
<1>11. Resting'
    <2>1. ASSUME NEW other \in Pairers \ {pr}, cur'[other] # None
          PROVE  \/ ppc'[other] = "add"
                 \/ /\ ppc'[other] \in {"bye", "byedoc", "absent", "absentdoc"}
                    /\ kind'[cur'[other]] \in {"U", "Z"}
        <3>1. cur'[other] = cur[other] /\ ppc'[other] = ppc[other] /\ cur[other] \in Entries
            BY <1>3, <2>1 DEF IInv, Typed
        <3>2. \/ ppc[other] = "add"
              \/ /\ ppc[other] \in {"bye", "byedoc", "absent", "absentdoc"}
                 /\ kind[cur[other]] \in {"U", "Z"}
            BY <2>1, <3>1 DEF IInv, PairInv, Resting
        <3> QED
            BY <1>1, <1>3, <3>1, <3>2 DEF IInv, Typed
    <2>2. ppc'[pr] = "add" \/ (ppc'[pr] \in {"bye", "absent"} /\ kind'[cur'[pr]] \in {"U", "Z"})
        BY <1>1, <1>3 DEF IInv, Typed
    <2>3. \A other \in Pairers : ppc'[other] = "add" => cur'[other] # None
        BY <1>1, <1>3, SwissAssumption DEF IInv, PairInv, Resting, Typed
    <2> QED
        BY <2>1, <2>2, <2>3 DEF Resting
<1>12. Quiet'
    BY DEF Quiet
<1> QED
    BY <1>1, <1>4, <1>5, <1>6, <1>10, <1>11, <1>12 DEF IInv, PairInv

\* A coroutine that is not idle pairs in a process that is up.
LEMMA PairingUp ==
    ASSUME IInv, NEW pr \in Pairers, ppc[pr] # "idle" PROVE phase = "up"
BY DEF IInv, PairInv, Quiet

LEMMA StepPair ==
    ASSUME IInv, OnlyPlayers, NEW pr \in Pairers, Pair(pr) PROVE IInv'
<1>0. phase = "up" /\ ppc[pr] = "mark"
    BY PairingUp DEF Pair
<1>1. /\ UNCHANGED <<gdoc, fx, pdoc, marks, counts, gpc, todo, phase>>
      /\ made' = [made EXCEPT ![pr] = {}]
    BY DEF Pair, untouchedByPairing, gameDocs, userDocs, gameProcs
<1>2. CASE UNCHANGED <<kind, who, cur>> /\ ppc' = [ppc EXCEPT ![pr] = "create"]
    BY <1>0, <1>1, <1>2, KeepTurns DEF Turns
<1>3. ASSUME NEW ps \in SUBSET Players, NewEntry(NextEntry, "U", ps),
             cur' = [cur EXCEPT ![pr] = NextEntry], ppc' = [ppc EXCEPT ![pr] = "bye"]
      PROVE  IInv'
    <2>1. Typed'
        BY <1>1, <1>3 DEF IInv, Typed, NewEntry
    <2>2. NewEntryBy(pr, "U") /\ ppc'[pr] = "bye"
        BY <1>0, <1>1, <1>3 DEF NewEntryBy, NewEntry, IInv, Typed
    <2> QED
        BY <1>1, <2>1, <2>2, KeepNewEntry
<1>4. PICK m \in Pairings(rest[pr]) :
        \/ UNCHANGED <<kind, who, cur>> /\ ppc' = [ppc EXCEPT ![pr] = "create"]
        \/ /\ NewEntry(NextEntry, "U", rest[pr] \ UNION m)
           /\ cur' = [cur EXCEPT ![pr] = NextEntry]
           /\ ppc' = [ppc EXCEPT ![pr] = "bye"]
    BY DEF Pair, Moves
<1>5. rest[pr] \ UNION m \in SUBSET Players
    BY DEF OnlyPlayers
<1> QED
    BY <1>2, <1>3, <1>4, <1>5

LEMMA StepInsertGame ==
    ASSUME IInv, OnlyPlayers, NEW pr \in Pairers, InsertGame(pr) PROVE IInv'
<1>0. phase = "up"
    BY PairingUp DEF InsertGame
<1>1. PICK pair \in plan[pr] : NewEntry(NextEntry, "game", pair)
    BY DEF InsertGame
<1>2. pair \in SUBSET Players
    BY DEF OnlyPlayers
<1>3. /\ UNCHANGED <<fx, pdoc, marks, counts, gpc, todo, phase, made>>
      /\ gdoc' = [gdoc EXCEPT ![NextEntry] = "live"]
      /\ cur' = [cur EXCEPT ![pr] = NextEntry] /\ ppc' = [ppc EXCEPT ![pr] = "add"]
    BY DEF InsertGame, Moves, userDocs, gameProcs
<1>4. Typed'
    BY <1>1, <1>2, <1>3 DEF IInv, Typed, NewEntry
<1>5. NewEntryBy(pr, "game") /\ ppc'[pr] = "add"
    BY <1>0, <1>1, <1>2, <1>3 DEF NewEntryBy, NewEntry, IInv, Typed
<1> QED
    BY <1>3, <1>4, <1>5, KeepNewEntry

LEMMA StepMarkAbsent ==
    ASSUME IInv, NEW pr \in Pairers, MarkAbsent(pr) PROVE IInv'
<1>0. phase = "up" /\ ppc[pr] = "absent"
    BY PairingUp DEF MarkAbsent
<1>1. PICK p \in Players : NewEntry(NextEntry, "Z", {p})
    BY DEF MarkAbsent, LeftOut
<1>3. /\ UNCHANGED <<gdoc, fx, pdoc, marks, counts, gpc, todo, phase, made, ppc>>
      /\ cur' = [cur EXCEPT ![pr] = NextEntry]
    BY DEF MarkAbsent, untouchedByPairing, gameDocs, userDocs, gameProcs
<1>4. Typed'
    BY <1>1, <1>3 DEF IInv, Typed, NewEntry
<1>5. NewEntryBy(pr, "Z") /\ ppc'[pr] = "absent"
    BY <1>0, <1>1, <1>3 DEF NewEntryBy, NewEntry
<1> QED
    BY <1>3, <1>4, <1>5, KeepNewEntry

\* A coroutine stores what it has made, and no game that is over.
Stores(pr) ==
    /\ UNCHANGED <<kind, who, gdoc, fx, marks, counts, gpc, todo, phase>>
    /\ phase = "up"
    /\ \A e \in Entries : \/ pdoc'[e] = pdoc[e]
                          \/ kind[e] # "none" /\ (kind[e] # "game" \/ pdoc'[e] # "over")
    /\ \A other \in Pairers : Held(other)' \subseteq Held(other)
    /\ \A other \in Pairers \ {pr} : cur'[other] = cur[other] /\ ppc'[other] = ppc[other]

LEMMA KeepStores ==
    ASSUME IInv, NEW pr \in Pairers, Stores(pr), Typed',
           cur'[pr] # None =>
               /\ ppc'[pr] \in {"bye", "byedoc", "absent", "absentdoc"}
               /\ kind[cur'[pr]] \in {"U", "Z"},
           ppc'[pr] # "add"
    PROVE  IInv'
<1> USE DEF IInv, Stores
<1>1. Prefix' /\ Unmade' /\ Counted'
    BY DEF Prefix, Unmade, Counted
<1>2. Effects'
    BY DEF Effects, Marked
<1>3. Creating'
    <2>1. \A other \in Pairers : Held(other) \subseteq Entries
        BY DEF Held, Typed
    <2> QED
        BY <2>1 DEF PairInv, Creating
<1>4. Resting' /\ Quiet'
    BY DEF PairInv, Resting, Quiet
<1> QED
    BY <1>1, <1>2, <1>3, <1>4 DEF PairInv

LEMMA StepUnplayed ==
    ASSUME IInv, NEW pr \in Pairers, StoreUnplayed(pr) \/ SaveUnplayed(pr) PROVE IInv'
<1>0. phase = "up"
    BY PairingUp DEF StoreUnplayed, SaveUnplayed
<1>1. CASE StoreUnplayed(pr)
    <2>1. /\ ppc[pr] \in {"bye", "absent"} /\ cur[pr] \in Entries
          /\ cur[pr] # None /\ kind[cur[pr]] \in {"U", "Z"}
        BY <1>1 DEF StoreUnplayed, IInv, PairInv, Resting, Typed
    <2>2. /\ UNCHANGED <<kind, who, gdoc, fx, marks, counts, gpc, todo, phase, cur, made>>
          /\ pdoc' = [pdoc EXCEPT ![cur[pr]] = "over"]
          /\ \E l \in {"byedoc", "absentdoc"} : ppc' = [ppc EXCEPT ![pr] = l]
        BY <1>1 DEF StoreUnplayed, Moves, untouchedByPairing, gameDocs, userDocs, gameProcs
    <2>3. Typed'
        BY <2>1, <2>2 DEF IInv, Typed
    <2>4. \A other \in Pairers : Held(other)' \subseteq Held(other)
        BY <2>2 DEF Held, IInv, Typed
    <2>5. Stores(pr) /\ ppc'[pr] \in {"byedoc", "absentdoc"}
        BY <1>0, <2>1, <2>2, <2>4 DEF Stores, IInv, Typed
    <2> QED
        BY <2>1, <2>2, <2>3, <2>5, KeepStores
<1>2. CASE SaveUnplayed(pr)
    <2>2. /\ UNCHANGED <<kind, who, gdoc, fx, pdoc, marks, counts, gpc, todo, phase, made>>
          /\ cur' = [cur EXCEPT ![pr] = None]
          /\ \E l \in {"create", "absent"} : ppc' = [ppc EXCEPT ![pr] = l]
        BY <1>2 DEF SaveUnplayed, Moves, untouchedByPairing, gameDocs, userDocs, gameProcs
    <2>3. Typed'
        BY <2>2 DEF IInv, Typed
    <2>4. \A other \in Pairers : Held(other)' \subseteq Held(other)
        BY <2>2 DEF Held, IInv, Typed
    <2>5. Stores(pr) /\ cur'[pr] = None /\ ppc'[pr] # "add"
        BY <1>0, <2>2, <2>4 DEF Stores, IInv, Typed
    <2> QED
        BY <2>3, <2>5, KeepStores
<1> QED
    BY <1>1, <1>2

LEMMA StepAddGame ==
    ASSUME IInv, NEW pr \in Pairers, AddGame(pr) PROVE IInv'
<1>0. phase = "up" /\ ppc[pr] = "add"
    BY PairingUp DEF AddGame
<1>1. /\ UNCHANGED <<kind, who, gdoc, fx, pdoc, marks, counts, gpc, todo, phase>>
      /\ made' = [made EXCEPT ![pr] = @ \cup {cur[pr]}]
      /\ cur' = [cur EXCEPT ![pr] = None] /\ ppc' = [ppc EXCEPT ![pr] = "create"]
    BY DEF AddGame, Moves, untouchedByPairing, gameDocs, userDocs, gameProcs
<1>2. cur[pr] \in Entries
    BY <1>0 DEF IInv, Typed, PairInv, Resting
<1>3. Typed'
    BY <1>1, <1>2 DEF IInv, Typed
<1>4. \A other \in Pairers : Held(other)' \subseteq Held(other)
    BY <1>0, <1>1, <1>2 DEF Held, IInv, Typed
<1>5. Stores(pr) /\ cur'[pr] = None /\ ppc'[pr] # "add"
    BY <1>0, <1>1, <1>4 DEF Stores, IInv, Typed
<1> QED
    BY <1>3, <1>5, KeepStores

LEMMA StepInsertPairings ==
    ASSUME IInv, NEW pr \in Pairers, InsertPairings(pr) PROVE IInv'
<1>0. phase = "up" /\ ppc[pr] = "create"
    BY PairingUp DEF InsertPairings
<1>1. /\ UNCHANGED <<kind, who, gdoc, fx, marks, counts, gpc, todo, phase, cur, made>>
      /\ pdoc' = [e \in Entries |-> IF e \in made[pr] THEN gdoc[e] ELSE pdoc[e]]
      /\ ppc' = [ppc EXCEPT ![pr] = "absent"]
    BY DEF InsertPairings, Moves, untouchedByPairing, gameDocs, userDocs, gameProcs
<1>2. Typed'
    BY <1>1 DEF IInv, Typed
<1>3. cur[pr] = None
    BY <1>0 DEF IInv, PairInv, Resting
<1>4. \A other \in Pairers : Held(other)' \subseteq Held(other)
    BY <1>0, <1>1 DEF Held, IInv, Typed
<1>5. \A e \in made[pr] : kind[e] = "game" /\ gdoc[e] # "over"
    BY DEF IInv, PairInv, Creating, Held
<1>6. Stores(pr) /\ cur'[pr] = None /\ ppc'[pr] # "add"
    BY <1>0, <1>1, <1>3, <1>4, <1>5 DEF Stores, IInv, Typed
<1> QED
    BY <1>2, <1>6, KeepStores

\* The games of the round start: they are in the hands of nobody else.
LEMMA StepCommit ==
    ASSUME IInv, NEW pr \in Pairers, Commit(pr) PROVE IInv'
<1>0. phase = "up" /\ ppc[pr] = "absent" /\ cur[pr] = None
    BY PairingUp DEF Commit
<1>1. /\ UNCHANGED <<kind, who, gdoc, fx, pdoc, marks, counts, todo, phase, cur>>
      /\ gpc' = [e \in Entries |-> IF e \in made[pr] THEN "play" ELSE gpc[e]]
      /\ made' = [made EXCEPT ![pr] = {}] /\ ppc' = [ppc EXCEPT ![pr] = "idle"]
    BY DEF Commit, Moves, untouchedByPairing, gameDocs, userDocs, gameProcs
<1>2. Typed'
    BY <1>1 DEF IInv, Typed
<1>3. /\ made[pr] \subseteq Held(pr) /\ made[pr] \subseteq Entries
      /\ \A e \in made[pr] : kind[e] = "game"
    BY DEF Held, IInv, Typed, PairInv, Creating
<1>4. Prefix' /\ Unmade' /\ Counted'
    BY <1>1, <1>3 DEF IInv, Prefix, Unmade, Counted
<1>5. Effects'
    BY <1>1 DEF IInv, Effects, Marked
<1>6. /\ Held(pr)' = {}
      /\ \A other \in Pairers \ {pr} : Held(other)' = Held(other) /\ Held(other) \subseteq Entries
    BY <1>0, <1>1 DEF Held, IInv, Typed
<1>7. Creating'
    <2>1. \A other \in Pairers \ {pr} : Held(other) \cap made[pr] = {}
        BY <1>3 DEF IInv, PairInv, Creating
    <2> QED
        BY <1>1, <1>6, <2>1 DEF IInv, PairInv, Creating
<1>8. Resting' /\ Quiet'
    BY <1>0, <1>1 DEF IInv, PairInv, Resting, Quiet, Typed
<1> QED
    BY <1>2, <1>4, <1>5, <1>7, <1>8 DEF IInv, PairInv

-----------------------------------------------------------------------------
(* Only players are paired                                                   *)

LEMMA KnownPairing ==
    ASSUME IInv, OnlyPlayers, NEW pr \in Pairers, PairerStep(pr) PROVE OnlyPlayers'
<1> USE DEF OnlyPlayers
<1>1. CASE Pair(pr)
    <2>1. PICK m \in Pairings(rest[pr]) :
            /\ plan' = [plan EXCEPT ![pr] = m]
            /\ rest' = [rest EXCEPT ![pr] = rest[pr] \ UNION m]
            /\ UNCHANGED free
        BY <1>1 DEF Pair
    <2>2. m \in SUBSET SUBSET Players
        BY DEF Pairings
    <2> QED
        BY <2>1, <2>2
<1>2. CASE InsertGame(pr)
    BY <1>2 DEF InsertGame
<1>3. CASE AddGame(pr)
    BY <1>3 DEF AddGame
<1>4. CASE \/ NoLegalPairing(pr) \/ Unmark(pr) \/ StoreUnplayed(pr) \/ SaveUnplayed(pr)
           \/ InsertPairings(pr) \/ MarkAbsent(pr) \/ FinishEarly(pr)
    BY <1>4 DEF NoLegalPairing, Unmark, StoreUnplayed, SaveUnplayed, InsertPairings,
       MarkAbsent, FinishEarly
<1>5. CASE Commit(pr) \/ SaveTournament(pr)
    BY <1>5 DEF Commit, SaveTournament
<1> QED
    BY <1>1, <1>2, <1>3, <1>4, <1>5 DEF PairerStep

LEMMA KnownNext ==
    ASSUME IInv, OnlyPlayers, [Next]_vars PROVE OnlyPlayers'
<1> USE DEF OnlyPlayers
<1>1. CASE TickPairs \/ \E d \in Directors : StartNextRound(d)
    <2>1. PICK pr \in Pairers, r \in {round + 1} : Begin(pr, r)
        BY <1>1 DEF TickPairs, StartNextRound, Pairers
    <2>2. UNCHANGED <<plan, free>> /\ rest' = [rest EXCEPT ![pr] = free \ paused]
        BY <1>1, <2>1 DEF TickPairs, StartNextRound, Ticks, Begin, playerVars, WaitingPlayers
    <2> QED
        BY <2>2
<1>2. CASE TickWaits \/ TickFinishes \/ TickPlaying
    BY <1>2 DEF TickWaits, TickFinishes, TickPlaying, Ticks, pairProcs
<1>3. ASSUME NEW e \in Entries, GameStep(e) PROVE OnlyPlayers'
    <2>1. UNCHANGED <<plan, rest>>
        BY <1>3 DEF GameStep, EndGame, UserEffect, StoreFx, GameUpdate, UpdatePlayer,
           UpdatePairing, untouchedByGames, pairProcs
    <2>2. who[e] \subseteq Players
        BY DEF IInv, Typed
    <2>3. free' = free \/ free' = free \cup (who[e] \ {noshow[e]})
        BY <1>3 DEF GameStep, EndGame, UserEffect, StoreFx, GameUpdate, UpdatePlayer,
           UpdatePairing, untouchedByGames, playerVars
    <2> QED
        BY <2>1, <2>2, <2>3
<1>4. ASSUME NEW e \in Entries, RecoverUser(e) \/ RecoverFx(e) PROVE OnlyPlayers'
    BY <1>4 DEF RecoverUser, RecoverFx, untouchedByStart, pairProcs, playerVars
<1>5. CASE Crash
    BY <1>5 DEF Crash
<1>6. CASE StartStep
    <2>1. UNCHANGED <<plan, rest>>
        BY <1>6 DEF StartStep, Load, RecoverScore, ScoresRecovered, KeepRound, RollbackGames,
           RollbackPairings, RollbackRound, RollbackPlayer, Repair, untouchedByStart, pairProcs
    <2>2. free' \subseteq Players
        <3>1. CASE Load
            BY <3>1 DEF Load
        <3>2. CASE RollbackPairings
            BY <3>2 DEF RollbackPairings
        <3>3. CASE ~Load /\ ~RollbackPairings
            BY <1>6, <3>3 DEF StartStep, RecoverScore, ScoresRecovered, KeepRound,
               RollbackGames, RollbackRound, RollbackPlayer, Repair, playerVars
        <3> QED
            BY <3>1, <3>2, <3>3
    <2> QED
        BY <2>1, <2>2
<1>7. CASE UNCHANGED vars
    BY <1>7 DEF vars, playerVars, pairProcs
<1> QED
    BY <1>1, <1>2, <1>3, <1>4, <1>5, <1>6, <1>7, KnownPairing DEF Next, ClockStep, Pairers

-----------------------------------------------------------------------------

LEMMA IInvInit == Init => IInv /\ OnlyPlayers
<1> SUFFICES ASSUME Init PROVE IInv /\ OnlyPlayers
    OBVIOUS
<1>1. Typed /\ OnlyPlayers
    BY DEF Init, Typed, OnlyPlayers
<1>2. Prefix
    <2>1. \A e \in Entries : kind[e] # "none" <=> e <= 0
        BY DEF Init, Entries
    <2> QED
        BY <2>1, SwissAssumption DEF Prefix
<1>3. Unmade /\ Effects /\ PairInv
    BY DEF Init, Unmade, Effects, PairInv, Creating, Held, Resting, Quiet
<1>4. Counted
    BY FS_EmptySet DEF Init, Counted
<1> QED
    BY <1>1, <1>2, <1>3, <1>4 DEF IInv

LEMMA IInvNext == IInv /\ OnlyPlayers /\ [Next]_vars => IInv' /\ OnlyPlayers'
<1> SUFFICES ASSUME IInv, OnlyPlayers, [Next]_vars PROVE IInv' /\ OnlyPlayers'
    OBVIOUS
<1>1. ASSUME NEW pr \in Pairers, PairerStep(pr) PROVE IInv'
    BY <1>1, StepTurns, StepPair, StepUnplayed, StepInsertGame, StepAddGame,
       StepInsertPairings, StepMarkAbsent, StepCommit DEF PairerStep
<1>2. ASSUME TickPairs \/ TickFinishes PROVE IInv'
    <2>1. Clock \in Pairers
        BY DEF Pairers
    <2> QED
        BY <1>2, <2>1, StepTurns
<1>3. ASSUME TickWaits \/ TickPlaying \/ UNCHANGED vars PROVE IInv'
    BY <1>3, StepTick
<1>4. ASSUME NEW d \in Directors, StartNextRound(d) PROVE IInv'
    BY <1>4, StepTurns DEF Pairers
<1>5. ASSUME NEW e \in Entries, GameStep(e) \/ RecoverUser(e) \/ RecoverFx(e) PROVE IInv'
    BY <1>5, StepEndGame, StepUserEffect, StepGame, StepRecover DEF GameStep
<1>6. ASSUME Crash \/ StartStep PROVE IInv'
    BY <1>6, StepCrash, StepLoad, StepStart
<1>7. IInv'
    BY <1>1, <1>2, <1>3, <1>4, <1>5, <1>6 DEF Next, ClockStep, Pairers
<1> QED
    BY <1>7, KnownNext

LEMMA CountedOnce == IInv => ResultsCounted
BY DEF IInv, Counted, Effects, Marked, ResultsCounted

\* The effects of a game reach both users before anything says so, whatever dies in
\* between (save_game, recover_pending_tournament_game_side_effects).
THEOREM Invariant == Spec => [](IInv /\ OnlyPlayers)
BY IInvInit, IInvNext, PTL DEF Spec

\* A finished game is counted once for each player, however often its effects are
\* replayed, and for both once it is stored as over, for any tournament and any
\* number of crashes (apply_tournament_game_effect_once).
THEOREM ResultsCountedHolds == Spec => []ResultsCounted
BY Invariant, CountedOnce, PTL

-----------------------------------------------------------------------------
(* Rising sequences of numbers *)

Rising(s) == \A i, j \in DOMAIN s : i < j => s[i] < s[j]

\* A set of numbers has a least member.
LEMMA Least ==
    ASSUME NEW T \in SUBSET Nat, T # {}
    PROVE  \E x \in T : \A y \in T : x <= y
<1> DEFINE R == OpToRel(<, Nat)
<1>1. R = {ss \in Nat \X Nat : ss[1] < ss[2]}
    BY DEF OpToRel
<1>2. IsWellFoundedOn(R, Nat)
    BY NatLessThanWellFounded
<1> HIDE DEF R
<1>3. PICK x \in T : \A y \in T : ~ (<<y, x>> \in R)
    BY <1>2, WFMin
<1>4. ASSUME NEW y \in T PROVE x <= y
    <2>1. y \in Nat /\ x \in Nat
        OBVIOUS
    <2>2. y < x => <<y, x>> \in R
        BY <1>1, <2>1
    <2> QED
        BY <1>3, <2>1, <2>2
<1> QED
    BY <1>4

\* A sequence goes on as long as it has members of the other.
LEMMA RisingPrefix ==
    ASSUME NEW s \in Seq(Nat), NEW t \in Seq(Nat), Rising(s), Rising(t),
           ToSet(s) \subseteq ToSet(t),
           \A x \in ToSet(t) \ ToSet(s) : \A y \in ToSet(s) : y < x
    PROVE  Len(s) <= Len(t) /\ \A i \in 1..Len(s) : s[i] = t[i]
<1> DEFINE Same(i) == i <= Len(t) /\ s[i] = t[i]
           T == {i \in 1..Len(s) : ~Same(i)}
<1>1. SUFFICES ASSUME T # {} PROVE FALSE
    <2>1. \A i \in 1..Len(s) : Same(i)
        BY <1>1
    <2>2. Len(s) \in Nat /\ Len(t) \in Nat
        OBVIOUS
    <2> QED
        BY <2>1, <2>2
<1>2. PICK i \in T : \A j \in T : i <= j
    <2>1. T \in SUBSET Nat
        OBVIOUS
    <2> HIDE DEF T
    <2> QED
        BY <1>1, <2>1, Least
<1>3. /\ DOMAIN s = 1..Len(s) /\ DOMAIN t = 1..Len(t) /\ Len(s) \in Nat /\ Len(t) \in Nat
      /\ \A j \in 1..Len(s) : s[j] \in Nat
      /\ \A j \in 1..Len(t) : t[j] \in Nat
    OBVIOUS
<1>4. \A j \in 1..(i - 1) : j <= Len(t) /\ s[j] = t[j]
    BY <1>2
<1>5. i \in DOMAIN s /\ s[i] \in ToSet(t)
    <2>1. i \in DOMAIN s
        BY <1>3
    <2> QED
        BY <2>1 DEF ToSet
<1>6. PICK k \in DOMAIN t : t[k] = s[i]
    BY <1>5 DEF ToSet
<1>7. i <= k
    <2> SUFFICES ASSUME k < i PROVE FALSE
        OBVIOUS
    <2>1. k \in 1..(i - 1) /\ k \in DOMAIN s
        BY <1>5, <1>6, <1>3
    <2>2. s[k] = t[k]
        BY <1>4, <2>1
    <2> QED
        BY <1>5, <1>6, <2>1, <2>2 DEF Rising
<1>8. i \in DOMAIN t /\ t[i] \in Nat /\ i # k
    BY <1>5, <1>6, <1>7
<1>9. t[i] < s[i]
    BY <1>6, <1>7, <1>8 DEF Rising
<1>10. t[i] \in ToSet(s)
    <2>1. t[i] \in ToSet(t) /\ s[i] \in ToSet(s) /\ s[i] \in Nat
        BY <1>5, <1>8 DEF ToSet
    <2> QED
        BY <1>8, <1>9, <2>1
<1>11. PICK m \in DOMAIN s : s[m] = t[i]
    BY <1>10 DEF ToSet
<1>12. m < i
    <2> SUFFICES ASSUME ~(m < i) PROVE FALSE
        OBVIOUS
    <2>1. i \in Nat /\ m \in Nat /\ m \in DOMAIN s
        BY <1>5, <1>11, <1>3
    <2>2. s[i] \in Nat /\ s[m] \in Nat
        BY <1>5, <2>1, <1>3
    <2>3. s[m] < s[i]
        BY <1>9, <1>11
    <2>4. CASE i = m
        BY <2>2, <2>3, <2>4
    <2>5. CASE i < m
        <3>1. s[i] < s[m]
            BY <1>5, <2>1, <2>5 DEF Rising
        <3> QED
            BY <2>2, <2>3, <3>1
    <2> QED
        BY <2>1, <2>4, <2>5
<1>13. m \in DOMAIN t /\ t[m] = t[i]
    <2>1. m \in Nat /\ m >= 1 /\ i \in Nat
        BY <1>5, <1>11, <1>3
    <2>2. m \in 1..(i - 1)
        BY <2>1, <1>12
    <2>3. m <= Len(t) /\ s[m] = t[m]
        BY <1>4, <2>2
    <2>4. m \in DOMAIN t
        BY <2>1, <2>3, <1>3
    <2> QED
        BY <1>11, <2>3, <2>4
<1> QED
    BY <1>8, <1>12, <1>13 DEF Rising

\* A greater number goes to the end.
LEMMA RisingAppend ==
    ASSUME NEW s \in Seq(Nat), Rising(s), NEW x \in Nat, \A y \in ToSet(s) : y < x
    PROVE  /\ Append(s, x) \in Seq(Nat) /\ Rising(Append(s, x))
           /\ ToSet(Append(s, x)) = ToSet(s) \cup {x}
<1> DEFINE t == Append(s, x)
<1>1. /\ t \in Seq(Nat) /\ Len(t) = Len(s) + 1 /\ t[Len(s) + 1] = x
      /\ \A i \in 1..Len(s) : t[i] = s[i]
    BY AppendProperties
<1>2. DOMAIN t = 1..(Len(s) + 1) /\ DOMAIN s = 1..Len(s) /\ Len(s) \in Nat
    BY <1>1
<1>3. \A i \in DOMAIN s : s[i] < x
    BY DEF ToSet
<1> HIDE DEF t
<1>4. Rising(t)
    <2> SUFFICES ASSUME NEW i \in DOMAIN t, NEW j \in DOMAIN t, i < j PROVE t[i] < t[j]
        BY DEF Rising
    <2>1. i \in DOMAIN s /\ t[i] = s[i]
        BY <1>1, <1>2
    <2>2. CASE j \in DOMAIN s
        <3>1. t[j] = s[j]
            BY <1>1, <1>2, <2>2
        <3> QED
            BY <2>1, <2>2, <3>1 DEF Rising
    <2>3. CASE j = Len(s) + 1
        BY <1>1, <1>3, <2>1, <2>3
    <2> QED
        BY <1>2, <2>2, <2>3
<1>5. ToSet(t) = ToSet(s) \cup {x}
    <2>1. ToSet(t) \subseteq ToSet(s) \cup {x}
        BY <1>1, <1>2 DEF ToSet
    <2>2. ToSet(s) \subseteq ToSet(t)
        BY <1>1, <1>2 DEF ToSet
    <2>3. x \in ToSet(t)
        BY <1>1, <1>2 DEF ToSet
    <2> QED
        BY <2>1, <2>2, <2>3
<1> QED
    BY <1>1, <1>4, <1>5 DEF t

\* Greater numbers go to the end.
LEMMA RisingConcat ==
    ASSUME NEW s \in Seq(Nat), NEW t \in Seq(Nat), Rising(s), Rising(t),
           \A x \in ToSet(s), y \in ToSet(t) : x < y
    PROVE  /\ s \o t \in Seq(Nat) /\ Rising(s \o t)
           /\ ToSet(s \o t) = ToSet(s) \cup ToSet(t)
<1> DEFINE u == s \o t
<1>1. /\ u \in Seq(Nat) /\ Len(u) = Len(s) + Len(t)
      /\ \A i \in 1..Len(s) + Len(t) : u[i] = IF i <= Len(s) THEN s[i] ELSE t[i - Len(s)]
    BY ConcatProperties
<1>2. /\ DOMAIN u = 1..(Len(s) + Len(t)) /\ DOMAIN s = 1..Len(s) /\ DOMAIN t = 1..Len(t)
      /\ Len(s) \in Nat /\ Len(t) \in Nat
    BY <1>1
<1> HIDE DEF u
<1>3. Rising(u)
    <2> SUFFICES ASSUME NEW i \in DOMAIN u, NEW j \in DOMAIN u, i < j PROVE u[i] < u[j]
        BY DEF Rising
    <2>1. CASE j <= Len(s)
        BY <1>1, <1>2, <2>1 DEF Rising
    <2>2. CASE i <= Len(s) /\ ~(j <= Len(s))
        <3>1. u[i] = s[i] /\ i \in DOMAIN s
            BY <1>1, <1>2, <2>2
        <3>2. j \in 1..(Len(s) + Len(t)) /\ j - Len(s) \in DOMAIN t
            BY <1>2, <2>2
        <3>3. u[j] = t[j - Len(s)]
            BY <1>1, <2>2, <3>2
        <3> QED
            BY <3>1, <3>2, <3>3 DEF ToSet
    <2>3. CASE ~(i <= Len(s))
        <3>1. /\ u[i] = t[i - Len(s)] /\ i - Len(s) \in DOMAIN t
              /\ u[j] = t[j - Len(s)] /\ j - Len(s) \in DOMAIN t
            <4>1. /\ i \in 1..(Len(s) + Len(t)) /\ j \in 1..(Len(s) + Len(t))
                  /\ ~(i <= Len(s)) /\ ~(j <= Len(s))
                BY <1>2, <2>3
            <4>2. i - Len(s) \in 1..Len(t) /\ j - Len(s) \in 1..Len(t)
                BY <1>2, <4>1
            <4> QED
                BY <1>1, <1>2, <4>1, <4>2
        <3>2. i - Len(s) < j - Len(s)
            BY <1>2
        <3> QED
            BY <3>1, <3>2 DEF Rising
    <2> QED
        BY <1>2, <2>1, <2>2, <2>3
<1>4. ToSet(u) = ToSet(s) \cup ToSet(t)
    <2>1. ASSUME NEW i \in DOMAIN u PROVE u[i] \in ToSet(s) \cup ToSet(t)
        <3>1. \/ u[i] = s[i] /\ i \in DOMAIN s
              \/ u[i] = t[i - Len(s)] /\ i - Len(s) \in DOMAIN t
            BY <1>1, <1>2
        <3> QED
            BY <3>1 DEF ToSet
    <2>2. ASSUME NEW i \in DOMAIN s PROVE s[i] \in ToSet(u)
        <3>1. u[i] = s[i] /\ i \in DOMAIN u
            BY <1>1, <1>2
        <3> QED
            BY <3>1 DEF ToSet
    <2>3. ASSUME NEW i \in DOMAIN t PROVE t[i] \in ToSet(u)
        <3>1. /\ i \in 1..Len(t) /\ i + Len(s) \in 1..(Len(s) + Len(t))
              /\ ~(i + Len(s) <= Len(s)) /\ (i + Len(s)) - Len(s) = i
            BY <1>2
        <3>2. u[i + Len(s)] = t[i] /\ i + Len(s) \in DOMAIN u
            BY <1>1, <1>2, <3>1
        <3> QED
            BY <3>2 DEF ToSet
    <2> QED
        BY <2>1, <2>2, <2>3 DEF ToSet
<1> QED
    BY <1>1, <1>3, <1>4 DEF u

\* Ascending lists the members of a set, each once, in order.
LEMMA AscendingIs ==
    ASSUME NEW n \in Nat, NEW S \in SUBSET (1..n)
    PROVE  /\ Ascending(S) \in [1..Cardinality(S) -> S] /\ Cardinality(S) \in Nat
           /\ Rising(Ascending(S)) /\ ToSet(Ascending(S)) = S
<1> DEFINE Upto(m) == S \cap 1..m
           Listed(m) == \E s \in [1..Cardinality(Upto(m)) -> Upto(m)] : Rising(s)
           T == {m \in 0..n : ~Listed(m)}
<1>0. /\ IsFiniteSet(S) /\ Cardinality(S) \in Nat
      /\ \A m \in 0..n : IsFiniteSet(Upto(m)) /\ Cardinality(Upto(m)) \in Nat
    <2>1. IsFiniteSet(1..n)
        BY FS_Interval
    <2>2. \A U \in SUBSET (1..n) : IsFiniteSet(U) /\ Cardinality(U) \in Nat
        BY <2>1, FS_Subset, FS_CardinalityType
    <2>3. \A m \in 0..n : Upto(m) \in SUBSET (1..n)
        OBVIOUS
    <2> QED
        BY <2>2, <2>3
<1>1. Listed(0)
    <2>1. Upto(0) = {} /\ Cardinality({}) = 0
        BY FS_EmptySet
    <2>2. <<>> \in [1..0 -> {}] /\ Rising(<<>>)
        BY DEF Rising
    <2> QED
        BY <2>1, <2>2
<1>2. ASSUME NEW m \in 1..n, Listed(m - 1) PROVE Listed(m)
    <2>1. CASE m \notin S
        <3>1. Upto(m) = Upto(m - 1)
            BY <2>1
        <3> HIDE DEF Upto
        <3> QED
            BY <1>2, <3>1
    <2>2. CASE m \in S
        <3>1. Upto(m) = Upto(m - 1) \cup {m} /\ m \notin Upto(m - 1) /\ m - 1 \in 0..n
            BY <2>2
        <3>2. IsFiniteSet(Upto(m - 1)) /\ Cardinality(Upto(m - 1)) \in Nat
            BY <1>0, <3>1
        <3> DEFINE k == Cardinality(Upto(m - 1))
        <3>3. Cardinality(Upto(m)) = k + 1
            BY <3>1, <3>2, FS_AddElement
        <3>4. PICK s \in [1..k -> Upto(m - 1)] : Rising(s)
            BY <1>2
        <3>5. \A x \in Upto(m - 1) : x < m /\ x \in Nat
            OBVIOUS
        <3> HIDE DEF Upto, k
        <3> DEFINE t == [i \in 1..(k + 1) |-> IF i <= k THEN s[i] ELSE m]
        <3>6. k \in Nat
            BY <3>2 DEF k
        <3>7. t \in [1..(k + 1) -> Upto(m)]
            BY <3>1, <3>4, <3>6
        <3>8. Rising(t)
            <4> SUFFICES ASSUME NEW i \in 1..(k + 1), NEW j \in 1..(k + 1), i < j
                         PROVE  t[i] < t[j]
                BY DEF Rising
            <4>1. i <= k /\ t[i] = s[i] /\ s[i] \in Upto(m - 1)
                BY <3>4, <3>6
            <4>2. CASE j <= k
                BY <3>4, <3>6, <4>1, <4>2 DEF Rising
            <4>3. CASE ~(j <= k)
                BY <3>5, <4>1, <4>3
            <4> QED
                BY <4>2, <4>3
        <3> QED
            BY <3>3, <3>7, <3>8
    <2> QED
        BY <2>1, <2>2
<1>3. Listed(n)
    <2> HIDE DEF Listed
    <2> SUFFICES ASSUME T # {} PROVE FALSE
        OBVIOUS
    <2>0. T \in SUBSET Nat
        OBVIOUS
    <2>1. PICK m \in T : \A j \in T : m <= j
        <3> HIDE DEF T
        <3> QED
            BY <2>0, Least
    <2>2. m \in 1..n /\ m - 1 \notin T /\ m - 1 \in 0..n
        BY <1>1, <2>1
    <2> QED
        BY <1>2, <2>1, <2>2
<1>4. Upto(n) = S
    OBVIOUS
<1>5. \E s \in [1..Cardinality(S) -> S] : \A i, j \in DOMAIN s : i < j => s[i] < s[j]
    BY <1>3, <1>4 DEF Rising
<1> DEFINE a == Ascending(S)
<1>6. a \in [1..Cardinality(S) -> S] /\ Rising(a)
    BY <1>5 DEF Ascending, Rising
<1> HIDE DEF a
<1>7. ToSet(a) = S
    <2>1. a \in Injection(1..Cardinality(S), S)
        <3>1. ASSUME NEW i \in 1..Cardinality(S), NEW j \in 1..Cardinality(S), a[i] = a[j]
              PROVE  i = j
            <4>1. i < j \/ j < i \/ i = j
                BY <1>0
            <4>2. a[i] \in Nat /\ a[j] \in Nat
                <5>1. a[i] \in S /\ a[j] \in S
                    BY <1>6
                <5>2. \A x \in S : x \in Nat
                    OBVIOUS
                <5> HIDE DEF a
                <5> QED
                    BY <5>1, <5>2
            <4> QED
                BY <1>6, <3>1, <4>1, <4>2 DEF Rising
        <3> QED
            BY <1>6, <3>1 DEF Injection, IsInjective
    <2>2. Cardinality(1..Cardinality(S)) = Cardinality(S)
        BY <1>0, FS_Interval
    <2>3. a \in Surjection(1..Cardinality(S), S)
        BY <1>0, <2>1, <2>2, FS_Injection
    <2> QED
        BY <1>6, <2>3 DEF Surjection, ToSet
<1> QED
    BY <1>0, <1>6, <1>7 DEF a

\* What At keeps of a sequence, in the order it had.
LEMMA AtIs ==
    ASSUME NEW R \in SUBSET Nat, NEW s \in Seq(R), NEW I \in SUBSET DOMAIN s
    PROVE  /\ At(s, I) \in Seq(R)
           /\ ToSet(At(s, I)) = {s[i] : i \in I}
           /\ Rising(s) => Rising(At(s, I))
<1> DEFINE a == Ascending(I)
<1>1. Len(s) \in Nat /\ DOMAIN s = 1..Len(s)
    OBVIOUS
<1>2. /\ a \in [1..Cardinality(I) -> I] /\ Cardinality(I) \in Nat
      /\ Rising(a) /\ ToSet(a) = I
    BY <1>1, AscendingIs
<1>3. At(s, I) = [k \in 1..Cardinality(I) |-> s[a[k]]]
    BY <1>2 DEF At
<1> HIDE DEF a
<1>4. \A k \in 1..Cardinality(I) : a[k] \in I /\ a[k] \in Nat /\ s[a[k]] \in R
    BY <1>1, <1>2
<1>5. At(s, I) \in Seq(R)
    BY <1>2, <1>3, <1>4
<1>6. ToSet(At(s, I)) = {s[i] : i \in I}
    BY <1>2, <1>3 DEF ToSet
<1>7. Rising(s) => Rising(At(s, I))
    BY <1>1, <1>2, <1>3, <1>4 DEF Rising
<1> QED
    BY <1>5, <1>6, <1>7

-----------------------------------------------------------------------------
(* The types *)

\* A bounded set of numbers has a greatest member.
LEMMA Greatest ==
    ASSUME NEW n \in Nat, NEW T \in SUBSET (0..n), T # {}
    PROVE  \E x \in T : \A y \in T : y <= x
<1> DEFINE U == {m \in 0..n : n - m \in T}
<1>1. U \in SUBSET Nat /\ U # {}
    <2>1. PICK y \in T : TRUE
        OBVIOUS
    <2>2. n - y \in 0..n /\ n - (n - y) = y
        OBVIOUS
    <2>3. n - y \in U
        BY <2>1, <2>2
    <2>4. U \in SUBSET Nat
        OBVIOUS
    <2> HIDE DEF U
    <2> QED
        BY <2>3, <2>4
<1>2. PICK m \in U : \A k \in U : m <= k
    <2> HIDE DEF U
    <2> QED
        BY <1>1, Least
<1>3. ASSUME NEW y \in T PROVE y <= n - m
    <2>1. n - y \in 0..n /\ n - (n - y) = y
        OBVIOUS
    <2>2. m <= n - y
        BY <1>2, <2>1
    <2> QED
        BY <2>1, <2>2
<1> QED
    BY <1>2, <1>3

Documents == [status : {"started", "finished"}, cr : 0..Rounds,
              next : BOOLEAN, inProgress : 0..Rounds]

Scalars ==
    /\ mode \in Modes /\ tdoc \in Documents
    /\ phase \in {"users", "scores", "round", "pairings", "tournament",
                  "players", "repair", "up"}
    /\ status \in {"started", "finished"} /\ round \in 0..Rounds
    /\ next \in BOOLEAN /\ pending \in BOOLEAN /\ inProgress \in 0..Rounds
    /\ crashes \in 0..MaxCrashes
    /\ ghost \in BOOLEAN /\ torn \in BOOLEAN /\ raced \in BOOLEAN
    /\ rnd \in [Entries -> 0..Rounds]
    /\ phase = "pairings" => inProgress # 0

Sets ==
    /\ away \subseteq Players /\ paused \subseteq Players /\ rolling \subseteq Players
    /\ noshow \in [Entries -> Players \cup {None}]
    /\ ongoing \subseteq Entries /\ rolled \subseteq Entries

Sequenced ==
    /\ scored \in [Players -> Seq(Entries)]
    /\ games \in [Players -> Seq(Entries)] /\ points \in [Players -> Seq(Entries)]

TypeInv == Scalars /\ Sets /\ Sequenced

\* Entries are numbers.
LEMMA EntriesNat == Entries \in SUBSET Nat /\ Entries = 1..MaxEntries /\ MaxEntries \in Nat
BY SwissAssumption DEF Entries

-----------------------------------------------------------------------------

\* The writes of the document of the tournament.
LEMMA Written ==
    ASSUME tdoc \in Documents
    PROVE  /\ \A i \in 0..Rounds : [tdoc EXCEPT !.inProgress = i] \in Documents
           /\ \A n \in BOOLEAN : [tdoc EXCEPT !.next = n] \in Documents
           /\ \A c, i \in 0..Rounds : [tdoc EXCEPT !.cr = c, !.inProgress = i] \in Documents
           /\ \A c, i \in 0..Rounds :
                [tdoc EXCEPT !.cr = c, !.next = FALSE, !.inProgress = i] \in Documents
           /\ \A s \in {"started", "finished"}, c \in 0..Rounds :
                [tdoc EXCEPT !.status = s, !.cr = c] \in Documents
           /\ tdoc.inProgress \in 0..Rounds /\ tdoc.cr \in 0..Rounds /\ tdoc.next \in BOOLEAN
           /\ tdoc.status \in {"started", "finished"}
BY DEF Documents

\* A coroutine that begins to pair notes the round it pairs.
LEMMA TypeBegin ==
    ASSUME Scalars, NEW pr, NEW r \in 0..Rounds, Begin(pr, r)
    PROVE  /\ round' \in 0..Rounds /\ inProgress' \in 0..Rounds /\ raced' \in BOOLEAN
           /\ UNCHANGED <<status, crashes, ghost, torn>>
BY DEF Scalars, Begin, Races

\* The flags and registers, as a round is paired.
LEMMA ScalarsPairing ==
    ASSUME IInv, Scalars, Sequenced, NEW pr \in Pairers, PairerStep(pr) PROVE Scalars'
<1> USE DEF Scalars, untouchedByPairing, history, roundVars
<1>0. Rounds \in Nat /\ 0 \in 0..Rounds
    BY SwissAssumption
<1>1. CASE Pair(pr)
    <2>1. PICK m \in Pairings(rest[pr]) :
            IF rest[pr] \ UNION m = {} THEN UNCHANGED <<kind, who, rnd, cur>>
            ELSE NewEntry(NextEntry, "U", rest[pr] \ UNION m)
        BY <1>1 DEF Pair
    <2>2. rnd' \in [Entries -> 0..Rounds]
        BY <2>1 DEF NewEntry
    <2>3. tdoc' \in Documents
        BY <1>1, Written DEF Pair
    <2> QED
        BY <1>1, <2>2, <2>3 DEF Pair
<1>2. CASE InsertGame(pr) \/ MarkAbsent(pr)
    <2>1. rnd' \in [Entries -> 0..Rounds] /\ UNCHANGED mode
        BY <1>2 DEF InsertGame, MarkAbsent, NewEntry
    <2> QED
        BY <1>2, <2>1 DEF InsertGame, MarkAbsent
<1>3. CASE FinishEarly(pr)
    <2> DEFINE recorded == {rnd[e] : e \in UNION {ToSet(games[p]) : p \in Players}}
    <2>1. round' = IF recorded = {} THEN 0
                   ELSE CHOOSE r \in recorded : \A other \in recorded : other <= r
        BY <1>3 DEF FinishEarly
    <2>2. \A p \in Players : ToSet(games[p]) \subseteq Entries
        BY DEF Sequenced, ToSet
    <2>3. recorded \in SUBSET (0..Rounds)
        BY <2>2
    <2>4. Rounds \in Nat
        BY SwissAssumption
    <2> HIDE DEF recorded
    <2>5. round' \in 0..Rounds
        <3>1. CASE recorded = {}
            BY <2>1, <2>4, <3>1
        <3>2. CASE recorded # {}
            <4>1. \E r \in recorded : \A other \in recorded : other <= r
                BY <2>3, <2>4, <3>2, Greatest
            <4> QED
                BY <2>1, <2>3, <3>2, <4>1
        <3> QED
            BY <3>1, <3>2
    <2> QED
        <3>1. /\ UNCHANGED <<mode, tdoc, phase, crashes, ghost, torn, raced, rnd>>
              /\ status' = "finished" /\ next' = FALSE /\ pending' = FALSE
              /\ inProgress' = IF inProgress > round' THEN 0 ELSE inProgress
              /\ phase # "pairings"
            BY <1>3 DEF FinishEarly, Finalize, IInv, PairInv, Quiet
        <3>2. inProgress' \in 0..Rounds
            BY <1>0, <2>5, <3>1
        <3>3. next' \in BOOLEAN /\ pending' \in BOOLEAN /\ status' \in {"started", "finished"}
            BY <3>1
        <3> QED
            BY <2>5, <3>1, <3>2, <3>3, Zenon
<1>4. CASE NoLegalPairing(pr) \/ Unmark(pr)
    <2>1. tdoc' \in Documents /\ inProgress' \in 0..Rounds
        BY <1>0, <1>4, Written DEF NoLegalPairing, Unmark
    <2> QED
        BY <1>4, <2>1, PairingUp DEF NoLegalPairing, Unmark
<1>5. CASE Commit(pr)
    <2>1. tdoc' = [tdoc EXCEPT !.cr = round, !.next = FALSE,
                       !.inProgress = IF inProgress = round THEN 0 ELSE tdoc.inProgress]
        BY <1>5 DEF Commit, Documents
    <2>2. /\ (IF inProgress = round THEN 0 ELSE tdoc.inProgress) \in 0..Rounds
          /\ inProgress' \in 0..Rounds
        BY <1>0, <1>5, Written DEF Commit
    <2>3. tdoc' \in Documents
        BY <2>1, <2>2, Written
    <2> QED
        BY <1>5, <2>2, <2>3, PairingUp DEF Commit
<1>6. CASE SaveTournament(pr)
    <2>1. tdoc' \in Documents
        BY <1>6, Written DEF SaveTournament
    <2> QED
        BY <1>6, <2>1 DEF SaveTournament
<1>7. CASE StoreUnplayed(pr) \/ SaveUnplayed(pr) \/ AddGame(pr) \/ InsertPairings(pr)
    BY <1>7 DEF StoreUnplayed, SaveUnplayed, AddGame, InsertPairings
<1> QED
    BY <1>1, <1>2, <1>3, <1>4, <1>5, <1>6, <1>7 DEF PairerStep

\* The flags and registers, in every step.
LEMMA ScalarsNext ==
    ASSUME IInv, Scalars, Sequenced, [Next]_vars PROVE Scalars'
<1>a. tdoc.inProgress \in 0..Rounds
    BY Written DEF Scalars
<1> USE DEF Scalars
<1>0. Rounds \in Nat \ {0} /\ MaxCrashes \in Nat
    BY SwissAssumption
<1>1. ASSUME TickPairs \/ \E d \in Directors : StartNextRound(d) PROVE Scalars'
    <2>1. PICK pr \in Pairers : Begin(pr, round + 1) /\ round + 1 \in 0..Rounds
        BY <1>0, <1>1 DEF TickPairs, StartNextRound, Pairers
    <2>2. /\ round' \in 0..Rounds /\ inProgress' \in 0..Rounds /\ raced' \in BOOLEAN
          /\ UNCHANGED <<status, crashes, ghost, torn>>
        BY <2>1, TypeBegin
    <2>3. /\ UNCHANGED <<mode, rnd, tdoc, phase>> /\ next' \in BOOLEAN /\ pending' \in BOOLEAN
          /\ phase = "up"
        BY <1>1 DEF TickPairs, StartNextRound, Ticks, entryVars
    <2> QED
        BY <2>2, <2>3
<1>2. ASSUME TickWaits \/ TickFinishes \/ TickPlaying PROVE Scalars'
    <2>1. tdoc' \in Documents
        BY <1>2, Written DEF TickWaits, TickFinishes, TickPlaying
    <2> QED
        BY <1>2, <2>1 DEF TickWaits, TickFinishes, TickPlaying, Ticks, Finalize, Races, entryVars,
           history
<1>3. ASSUME NEW e \in Entries, GameStep(e) PROVE Scalars'
    <2> USE DEF untouchedByGames, entryVars, history, roundVars
    <2>1. CASE EndGame(e)
        BY <2>1 DEF EndGame
    <2>2. CASE UserEffect(e) \/ StoreFx(e) \/ GameUpdate(e) \/ UpdatePlayer(e)
        BY <2>2 DEF UserEffect, StoreFx, GameUpdate, UpdatePlayer
    <2>3. CASE UpdatePairing(e)
        <3>1. \/ tdoc' = tdoc /\ next' = next
              \/ tdoc' = [tdoc EXCEPT !.next = tdoc.next \/ mode = "auto"] /\ next' = TRUE
            BY <2>3 DEF UpdatePairing, Documents
        <3>2. (tdoc.next \/ mode = "auto") \in BOOLEAN
            OBVIOUS
        <3>3. tdoc' \in Documents /\ next' \in BOOLEAN
            BY <3>1, <3>2, Written
        <3> QED
            BY <2>3, <3>3 DEF UpdatePairing
    <2> QED
        BY <1>3, <2>1, <2>2, <2>3 DEF GameStep
<1>4. ASSUME NEW e \in Entries, RecoverUser(e) \/ RecoverFx(e) PROVE Scalars'
    BY <1>4 DEF RecoverUser, RecoverFx, untouchedByStart, playerVars
<1>5. ASSUME Crash PROVE Scalars'
    <2>1. /\ UNCHANGED <<mode, tdoc, rnd, ghost, raced>>
          /\ phase' = "users" /\ status' = "started" /\ round' = 0
          /\ next' = FALSE /\ pending' = FALSE /\ inProgress' = 0
          /\ crashes' \in 0..MaxCrashes
        BY <1>0, <1>5 DEF Crash, entryVars
    <2>2. torn' \in BOOLEAN
        BY <1>5 DEF Crash
    <2>3. round' \in 0..Rounds /\ inProgress' \in 0..Rounds
        BY <1>0, <2>1
    <2>4. next' \in BOOLEAN /\ pending' \in BOOLEAN /\ status' \in {"started", "finished"}
        BY <2>1
    <2> QED
        BY <2>1, <2>2, <2>3, <2>4, Zenon
<1>6. ASSUME StartStep PROVE Scalars'
    <2> USE DEF untouchedByStart
    <2>1. CASE Load
        BY <2>1, Written DEF Load
    <2>2. CASE RecoverScore \/ ScoresRecovered \/ RollbackPlayer \/ Repair
        <3>1. CASE RecoverScore \/ ScoresRecovered
            BY <3>1 DEF RecoverScore, ScoresRecovered
        <3>2. CASE RollbackPlayer
            BY <3>2 DEF RollbackPlayer
        <3>3. CASE Repair
            BY <3>3 DEF Repair
        <3> QED
            BY <2>2, <3>1, <3>2, <3>3
    <2>3. CASE KeepRound
        <3>1. CASE inProgress = 0
            BY <2>3, <3>1 DEF KeepRound
        <3>2. CASE inProgress # 0
            <4>1. /\ round' \in 0..Rounds /\ inProgress' \in 0..Rounds /\ next' = FALSE
                  /\ tdoc' = [tdoc EXCEPT !.cr = round', !.next = FALSE,
                                !.inProgress = IF inProgress = round' THEN 0 ELSE tdoc.inProgress]
                  /\ UNCHANGED <<mode, status, pending, crashes, ghost, torn, raced, rnd>>
                  /\ phase' = "repair"
                BY <1>0, <2>3, <3>2 DEF KeepRound, Documents
            <4>0. tdoc.inProgress \in 0..Rounds /\ 0 \in 0..Rounds
                BY <1>0, <1>a
            <4>2. (IF inProgress = round' THEN 0 ELSE tdoc.inProgress) \in 0..Rounds
                BY <4>0
            <4>3. tdoc' \in Documents
                BY <4>1, <4>2, Written
            <4> QED
                BY <4>1, <4>3
        <3> QED
            BY <3>1, <3>2
    <2>4. CASE RollbackGames
        BY <2>4 DEF RollbackGames
    <2>5. CASE RollbackPairings
        <3>1. rnd' \in [Entries -> 0..Rounds] /\ round' = inProgress - 1 /\ phase = "pairings"
            BY <1>0, <2>5 DEF RollbackPairings
        <3>2. round' \in 0..Rounds
            BY <1>0, <3>1
        <3>3. /\ UNCHANGED <<mode, tdoc, status, next, pending, inProgress, crashes, ghost, torn, raced>>
              /\ phase' = "tournament"
            BY <2>5 DEF RollbackPairings
        <3> QED
            BY <3>1, <3>2, <3>3
    <2>6. CASE RollbackRound
        <3>1. round \in 0..Rounds /\ 0 \in 0..Rounds
              /\ tdoc' = [tdoc EXCEPT !.cr = round, !.inProgress = 0]
            BY <1>0, <2>6 DEF RollbackRound
        <3>2. tdoc' \in Documents
            BY <3>1, Written
        <3> QED
            BY <1>0, <2>6, <3>2 DEF RollbackRound
    <2> QED
        BY <1>6, <2>1, <2>2, <2>3, <2>4, <2>5, <2>6 DEF StartStep
<1>7. ASSUME UNCHANGED vars PROVE Scalars'
    BY <1>7 DEF vars, entryVars, roundVars, history
<1> QED
    BY <1>1, <1>2, <1>3, <1>4, <1>5, <1>6, <1>7, ScalarsPairing DEF Next, ClockStep, Pairers

-----------------------------------------------------------------------------

\* The sets of players and entries, in every step.
LEMMA SetsNext ==
    ASSUME IInv, Sets, [Next]_vars PROVE Sets'
<1> USE DEF Sets
<1>0. who \in [Entries -> SUBSET Players]
    BY DEF IInv, Typed
<1>1. ASSUME NEW pr \in Pairers, PairerStep(pr) PROVE Sets'
    <2> USE DEF untouchedByPairing, history, playerDocs, gameDocs
    <2>1. CASE AddGame(pr)
        <3>1. cur[pr] \in Entries
            BY <2>1 DEF AddGame, IInv, Typed, PairInv, Resting
        <3> QED
            BY <2>1, <3>1 DEF AddGame
    <2>2. CASE SaveUnplayed(pr)
        BY <2>2 DEF SaveUnplayed, SavePlayer
    <2>3. CASE ~AddGame(pr) /\ ~SaveUnplayed(pr)
        <3>1. UNCHANGED <<away, paused, rolling, noshow, ongoing, rolled>>
            BY <1>1, <2>3 DEF PairerStep, NoLegalPairing, Unmark, Pair, StoreUnplayed, InsertGame,
               InsertPairings, MarkAbsent, Commit, FinishEarly, SaveTournament
        <3> QED
            BY <3>1
    <2> QED
        BY <2>1, <2>2, <2>3
<1>2. ASSUME \/ TickPairs \/ TickWaits \/ TickFinishes \/ TickPlaying
             \/ \E d \in Directors : StartNextRound(d)
      PROVE  Sets'
    BY <1>2 DEF TickPairs, TickWaits, TickFinishes, TickPlaying, StartNextRound, Ticks, Begin,
       gameDocs, playerDocs, playerVars, history
<1>3. ASSUME NEW e \in Entries, GameStep(e) PROVE Sets'
    <2> USE DEF untouchedByGames, playerVars, playerDocs, gameDocs
    <2>1. CASE EndGame(e)
        <3>1. noshow' \in [Entries -> Players \cup {None}]
            BY <1>0, <2>1 DEF EndGame
        <3> QED
            BY <2>1, <3>1 DEF EndGame
    <2>2. CASE UserEffect(e) \/ StoreFx(e)
        BY <2>2 DEF UserEffect, StoreFx
    <2>3. CASE GameUpdate(e)
        <3>1. paused' \subseteq Players
            BY <2>3 DEF GameUpdate, ApplyResult
        <3>2. UNCHANGED <<away, noshow, rolling, ongoing, rolled>>
            BY <2>3 DEF GameUpdate, history
        <3> QED
            BY <3>1, <3>2
    <2>4. CASE UpdatePlayer(e)
        <3>1. PICK p \in todo[e] : SavePlayer(p)
            BY <2>4 DEF UpdatePlayer
        <3>2. p \in Players
            BY <3>1 DEF IInv, Typed
        <3> QED
            BY <2>4, <3>1, <3>2 DEF UpdatePlayer, SavePlayer
    <2>5. CASE UpdatePairing(e)
        BY <2>5 DEF UpdatePairing, history
    <2> QED
        BY <1>3, <2>1, <2>2, <2>3, <2>4, <2>5 DEF GameStep
<1>4. ASSUME NEW e \in Entries, RecoverUser(e) \/ RecoverFx(e) PROVE Sets'
    BY <1>4 DEF RecoverUser, RecoverFx, untouchedByStart, playerDocs, playerVars
<1>5. ASSUME Crash PROVE Sets'
    BY <1>5 DEF Crash, gameDocs, playerDocs
<1>6. ASSUME StartStep PROVE Sets'
    <2> USE DEF untouchedByStart, playerDocs, playerVars
    <2>1. CASE Load
        BY <2>1 DEF Load
    <2>2. CASE RecoverScore
        BY <2>2 DEF RecoverScore, Unscored
    <2>3. CASE RollbackPlayer
        BY <2>3 DEF RollbackPlayer, SavePlayer
    <2>4. CASE RollbackGames
        <3>1. PICK gone : rolled' = rolled \cup gone /\ gone \subseteq Entries
            BY <2>4 DEF RollbackGames, OfRound
        <3> QED
            BY <2>4, <3>1 DEF RollbackGames
    <2>5. CASE RollbackPairings
        <3>1. /\ UNCHANGED <<away, paused, noshow, rolled>>
              /\ rolling' \subseteq Players /\ ongoing' \subseteq ongoing
            BY <2>5 DEF RollbackPairings
        <3> QED
            BY <3>1
    <2>6. CASE Repair
        <3>1. /\ UNCHANGED <<paused, rolling, noshow, ongoing, rolled>>
              /\ \E repaired : away' = (away \ repaired) \cup (paused \cap repaired)
            BY <2>6 DEF Repair
        <3> QED
            BY <3>1
    <2>7. CASE ScoresRecovered \/ KeepRound \/ RollbackRound
        BY <2>7 DEF ScoresRecovered, KeepRound, RollbackRound
    <2> QED
        BY <1>6, <2>1, <2>2, <2>3, <2>4, <2>5, <2>6, <2>7 DEF StartStep
<1>7. ASSUME UNCHANGED vars PROVE Sets'
    BY <1>7 DEF vars, gameDocs, playerDocs, playerVars, history
<1> QED
    BY <1>1, <1>2, <1>3, <1>4, <1>5, <1>6, <1>7 DEF Next, ClockStep, Pairers

-----------------------------------------------------------------------------

\* finalize() drops the last entry of a sequence.
LEMMA FrontSequence ==
    ASSUME NEW s \in Seq(Entries), s # <<>>
    PROVE  Front(s) \in Seq(Entries)
<1>1. Len(s) \in Nat /\ Len(s) - 1 \in Int /\ 1 \in Int
    OBVIOUS
<1>2. \A i \in 1..(Len(s) - 1) : s[i] \in Entries
    BY <1>1
<1> QED
    BY <1>1, <1>2, SubSeqProperties DEF Front

\* An entry goes to the end of the sequences of its players.
LEMMA AddedSequences ==
    ASSUME NEW f \in [Players -> Seq(Entries)], NEW ps, NEW e \in Entries
    PROVE  Added(f, ps, e) \in [Players -> Seq(Entries)]
BY AppendProperties DEF Added

\* The sequences of the players, as a round is paired.
LEMMA SequencesPairing ==
    ASSUME IInv, OnlyPlayers, Sequenced, NEW pr \in Pairers, PairerStep(pr) PROVE Sequenced'
<1> USE DEF Sequenced, untouchedByPairing, playerDocs
<1>1. CASE Pair(pr)
    <2>1. PICK m \in Pairings(rest[pr]) :
            /\ games' = Added(games, rest[pr] \ UNION m, NextEntry)
            /\ points' = Added(points, rest[pr] \ UNION m, NextEntry)
            /\ IF rest[pr] \ UNION m = {} THEN TRUE
               ELSE NewEntry(NextEntry, "U", rest[pr] \ UNION m)
        BY <1>1 DEF Pair
    <2>2. UNCHANGED scored
        BY <1>1 DEF Pair
    <2>3. CASE rest[pr] \ UNION m = {}
        BY <2>1, <2>2, <2>3 DEF Added
    <2>4. CASE NextEntry \in Entries
        BY <2>1, <2>2, <2>4, AddedSequences
    <2> QED
        BY <2>1, <2>3, <2>4 DEF NewEntry
<1>2. CASE MarkAbsent(pr)
    <2>1. PICK p \in Players : /\ games' = Added(games, {p}, NextEntry)
                               /\ points' = Added(points, {p}, NextEntry)
                               /\ NextEntry \in Entries
        BY <1>2 DEF MarkAbsent, LeftOut, NewEntry
    <2>2. UNCHANGED scored
        BY <1>2 DEF MarkAbsent
    <2> QED
        BY <2>1, <2>2, AddedSequences
<1>3. CASE AddGame(pr)
    <2>1. cur[pr] \in Entries
        BY <1>3 DEF AddGame, IInv, Typed, PairInv, Resting
    <2>2. games' = Added(games, who[cur[pr]], cur[pr]) /\ UNCHANGED <<points, scored>>
        BY <1>3 DEF AddGame
    <2> QED
        BY <2>1, <2>2, AddedSequences
<1>4. CASE SaveUnplayed(pr)
    <2>1. PICK p \in who[cur[pr]] : SavePlayer(p)
        BY <1>4 DEF SaveUnplayed
    <2>2. scored' = [scored EXCEPT ![p] = points[p]] /\ UNCHANGED <<games, points>>
        BY <1>4, <2>1 DEF SaveUnplayed, SavePlayer
    <2> QED
        BY <2>2
<1>5. CASE FinishEarly(pr)
    <2>1. /\ games' = [p \in Players |->
                          IF games[p] # <<>> /\ Unfinished(Last(games[p]))
                          THEN Front(games[p]) ELSE games[p]]
          /\ UNCHANGED <<points, scored>>
        BY <1>5 DEF FinishEarly, Finalize
    <2>2. \A p \in Players : games[p] # <<>> => Front(games[p]) \in Seq(Entries)
        BY FrontSequence
    <2> QED
        BY <2>1, <2>2
<1>6. CASE \/ NoLegalPairing(pr) \/ Unmark(pr) \/ StoreUnplayed(pr) \/ InsertGame(pr)
           \/ InsertPairings(pr) \/ Commit(pr) \/ SaveTournament(pr)
    <2>1. UNCHANGED <<games, points, scored>>
        BY <1>6 DEF NoLegalPairing, Unmark, StoreUnplayed, InsertGame, InsertPairings, Commit,
           SaveTournament
    <2> QED
        BY <2>1
<1> QED
    BY <1>1, <1>2, <1>3, <1>4, <1>5, <1>6 DEF PairerStep

\* The same, as the process starts.
LEMMA SequencesStart ==
    ASSUME IInv, Sequenced, StartStep PROVE Sequenced'
<1> USE DEF Sequenced, untouchedByStart, playerDocs, playerVars
<1>1. CASE Load
    <2>1. PICK of \in [Players -> SUBSET Entries] :
            games' = [p \in Players |-> ByDate(of[p])]
        <3> DEFINE repaired == [e \in Entries |-> IF gdoc[e] # "none" THEN gdoc[e] ELSE pdoc[e]]
                   live == {e \in Entries : repaired[e] = "live" /\ gdoc[e] = "live"}
                   over == {e \in Entries : repaired[e] = "over"}
                   of == [p \in Players |-> {e \in live \cup over : p \in who[e]}]
        <3>1. of \in [Players -> SUBSET Entries]
            OBVIOUS
        <3>2. games' = [p \in Players |-> ByDate({e \in live \cup over : p \in who[e]})]
            BY <1>1 DEF Load
        <3>3. games' = [p \in Players |-> ByDate(of[p])]
            BY <3>2
        <3> QED
            BY <3>1, <3>3
    <2>2. \A p \in Players : ByDate(of[p]) \in Seq(Entries)
        <3> SUFFICES ASSUME NEW p \in Players PROVE ByDate(of[p]) \in Seq(Entries)
            OBVIOUS
        <3>1. of[p] \in SUBSET (1..MaxEntries) /\ MaxEntries \in Nat
            BY <2>1, EntriesNat
        <3>2. /\ Ascending(of[p]) \in [1..Cardinality(of[p]) -> of[p]]
              /\ Cardinality(of[p]) \in Nat
            BY <3>1, AscendingIs
        <3>3. Ascending(of[p]) \in [1..Cardinality(of[p]) -> Entries]
            BY <3>1, <3>2, EntriesNat
        <3>4. Ascending(of[p]) \in Seq(Entries)
            <4> DEFINE n == Cardinality(of[p])
                       s == Ascending(of[p])
            <4>1. n \in Nat /\ s \in [1..n -> Entries]
                BY <3>2, <3>3
            <4> HIDE DEF n, s
            <4>2. s \in Seq(Entries)
                BY <4>1, SeqDef
            <4> QED
                BY <4>2 DEF s
        <3> QED
            BY <3>4 DEF ByDate
    <2> QED
        BY <1>1, <2>1, <2>2 DEF Load
<1>2. CASE RecoverScore
    <2>1. PICK e \in Unscored, p \in Players :
            /\ points' = Added(points, {p}, e)
            /\ scored' = [scored EXCEPT ![p] = Append(points[p], e)]
            /\ UNCHANGED games
        BY <1>2 DEF RecoverScore
    <2>2. e \in Entries
        BY DEF Unscored
    <2>3. Append(points[p], e) \in Seq(Entries)
        BY <2>2, AppendProperties
    <2> QED
        BY <2>1, <2>2, <2>3, AddedSequences
<1>3. CASE RollbackPlayer
    <2>1. /\ UNCHANGED <<games, points>>
          /\ scored' = scored \/ \E p \in rolling : scored' = [scored EXCEPT ![p] = points[p]]
        BY <1>3 DEF RollbackPlayer, SavePlayer
    <2> QED
        BY <2>1
<1>4. CASE RollbackPairings
    <2> DEFINE kept(p) == {i \in DOMAIN games[p] : rnd[games[p][i]] # inProgress}
    <2>1. /\ games' = [p \in Players |-> At(games[p], kept(p))]
          /\ \E changed : points' = [p \in Players |->
                                IF p \in changed
                                THEN At(points[p], kept(p) \cap DOMAIN points[p])
                                ELSE points[p]]
          /\ UNCHANGED scored
        BY <1>4 DEF RollbackPairings
    <2>2. \A p \in Players : At(games[p], kept(p)) \in Seq(Entries)
        <3> SUFFICES ASSUME NEW p \in Players PROVE At(games[p], kept(p)) \in Seq(Entries)
            OBVIOUS
        <3>1. kept(p) \in SUBSET DOMAIN games[p]
            OBVIOUS
        <3> HIDE DEF kept
        <3> QED
            BY <3>1, EntriesNat, AtIs
    <2>3. \A p \in Players : At(points[p], kept(p) \cap DOMAIN points[p]) \in Seq(Entries)
        <3> SUFFICES ASSUME NEW p \in Players
                     PROVE  At(points[p], kept(p) \cap DOMAIN points[p]) \in Seq(Entries)
            OBVIOUS
        <3>1. kept(p) \cap DOMAIN points[p] \in SUBSET DOMAIN points[p]
            OBVIOUS
        <3> HIDE DEF kept
        <3> QED
            BY <3>1, EntriesNat, AtIs
    <2> HIDE DEF kept
    <2> QED
        BY <2>1, <2>2, <2>3
<1>5. CASE Repair
    <2> DEFINE missing(p) == DOMAIN games[p] \ DOMAIN points[p]
               first(p) == {i \in missing(p) : \A j \in missing(p) : j <= i => Known(games[p][j])}
               known(p) == At(games[p], first(p))
               extra(p) == SubSeq(points[p], Len(games[p]) + 1, Len(points[p]))
               run(p) == {i \in DOMAIN extra(p) : \A j \in 1..i : kind[extra(p)[j]] = "U"}
               byes(p) == At(extra(p), run(p))
    <2>1. /\ points' = [p \in Players |-> points[p] \o known(p)]
          /\ games' = [p \in Players |-> games[p] \o byes(p)]
          /\ \E repaired : scored' = [p \in Players |-> IF p \in repaired THEN points'[p] ELSE scored[p]]
        BY <1>5 DEF Repair
    <2>2. \A p \in Players : known(p) \in Seq(Entries)
        <3> SUFFICES ASSUME NEW p \in Players PROVE known(p) \in Seq(Entries)
            OBVIOUS
        <3>1. first(p) \in SUBSET DOMAIN games[p]
            OBVIOUS
        <3> HIDE DEF first
        <3> QED
            BY <3>1, EntriesNat, AtIs
    <2>3. \A p \in Players : byes(p) \in Seq(Entries)
        <3> SUFFICES ASSUME NEW p \in Players PROVE byes(p) \in Seq(Entries)
            OBVIOUS
        <3>1. extra(p) \in Seq(Entries)
            <4>1. Len(points[p]) \in Nat /\ Len(games[p]) \in Nat
                OBVIOUS
            <4>2. \A i \in (Len(games[p]) + 1)..Len(points[p]) : points[p][i] \in Entries
                BY <4>1
            <4> QED
                BY <4>1, <4>2, SubSeqProperties
        <3>2. run(p) \in SUBSET DOMAIN extra(p)
            OBVIOUS
        <3> HIDE DEF extra, run
        <3> QED
            BY <3>1, <3>2, EntriesNat, AtIs
    <2> HIDE DEF known, byes
    <2>4. \A p \in Players : /\ points[p] \o known(p) \in Seq(Entries)
                             /\ games[p] \o byes(p) \in Seq(Entries)
        BY <2>2, <2>3, ConcatProperties
    <2> QED
        BY <2>1, <2>4
<1>6. CASE ScoresRecovered \/ KeepRound \/ RollbackGames \/ RollbackRound
    <2>1. UNCHANGED <<games, points, scored>>
        BY <1>6 DEF ScoresRecovered, KeepRound, RollbackGames, RollbackRound
    <2> QED
        BY <2>1
<1> QED
    BY <1>1, <1>2, <1>3, <1>4, <1>5, <1>6 DEF StartStep

\* The same, in every step.
LEMMA SequencesNext ==
    ASSUME IInv, OnlyPlayers, Sequenced, [Next]_vars PROVE Sequenced'
<1> USE DEF Sequenced
<1>1. ASSUME NEW pr \in Pairers, PairerStep(pr) PROVE Sequenced'
    BY <1>1, SequencesPairing
<1>2. ASSUME TickPairs \/ TickWaits \/ TickPlaying \/ \E d \in Directors : StartNextRound(d)
      PROVE  Sequenced'
    <2>1. UNCHANGED <<games, points, scored>>
        BY <1>2 DEF TickPairs, TickWaits, TickPlaying, StartNextRound, Ticks, playerDocs, playerVars
    <2> QED
        BY <2>1
<1>3. ASSUME TickFinishes PROVE Sequenced'
    <2>1. /\ games' = [p \in Players |->
                          IF games[p] # <<>> /\ Unfinished(Last(games[p]))
                          THEN Front(games[p]) ELSE games[p]]
          /\ UNCHANGED <<points, scored>>
        BY <1>3 DEF TickFinishes, Finalize, Ticks, playerDocs
    <2>2. \A p \in Players : games[p] # <<>> => Front(games[p]) \in Seq(Entries)
        BY FrontSequence
    <2> QED
        BY <2>1, <2>2
<1>4. ASSUME NEW e \in Entries, GameStep(e) PROVE Sequenced'
    <2> USE DEF untouchedByGames, playerVars, playerDocs
    <2>1. CASE EndGame(e) \/ UserEffect(e) \/ StoreFx(e) \/ UpdatePairing(e)
        <3>1. UNCHANGED <<games, points, scored>>
            BY <2>1 DEF EndGame, UserEffect, StoreFx, UpdatePairing
        <3> QED
            BY <3>1
    <2>2. CASE GameUpdate(e)
        <3>1. /\ UNCHANGED <<games, scored>>
              /\ points' = points \/ \E ps : points' = Added(points, ps, e)
            BY <2>2 DEF GameUpdate, ApplyResult
        <3> QED
            BY <3>1, AddedSequences
    <2>3. CASE UpdatePlayer(e)
        <3>1. /\ UNCHANGED <<games, points>>
              /\ \E p \in todo[e] : scored' = [scored EXCEPT ![p] = points[p]]
            BY <2>3 DEF UpdatePlayer, SavePlayer
        <3> QED
            BY <3>1
    <2> QED
        BY <1>4, <2>1, <2>2, <2>3 DEF GameStep
<1>5. ASSUME NEW e \in Entries, RecoverUser(e) \/ RecoverFx(e) PROVE Sequenced'
    <2>1. UNCHANGED <<games, points, scored>>
        BY <1>5 DEF RecoverUser, RecoverFx, untouchedByStart, playerDocs, playerVars
    <2> QED
        BY <2>1
<1>6. ASSUME Crash PROVE Sequenced'
    BY <1>6 DEF Crash, playerDocs
<1>7. ASSUME StartStep PROVE Sequenced'
    BY <1>7, SequencesStart
<1>8. ASSUME UNCHANGED vars PROVE Sequenced'
    <2>1. UNCHANGED <<games, points, scored>>
        BY <1>8 DEF vars, playerDocs, playerVars
    <2> QED
        BY <2>1
<1> QED
    BY <1>1, <1>2, <1>3, <1>4, <1>5, <1>6, <1>7, <1>8 DEF Next, ClockStep, Pairers

-----------------------------------------------------------------------------

\* The two halves of the invariance of the types, and what follows from them.
LEMMA TypeInvInit == Init => TypeInv
<1> SUFFICES ASSUME Init PROVE TypeInv
    OBVIOUS
<1>1. Scalars
    <2>1. tdoc \in Documents
        BY SwissAssumption DEF Init, Documents
    <2>2. round \in 0..Rounds /\ inProgress \in 0..Rounds /\ crashes \in 0..MaxCrashes
        BY SwissAssumption DEF Init
    <2>3. rnd \in [Entries -> 0..Rounds]
        BY SwissAssumption DEF Init
    <2> QED
        BY <2>1, <2>2, <2>3 DEF Init, Scalars
<1>2. Sets
    BY DEF Init, Sets
<1>3. Sequenced
    BY DEF Init, Sequenced
<1> QED
    BY <1>1, <1>2, <1>3 DEF TypeInv

LEMMA TypeInvNext == IInv /\ OnlyPlayers /\ TypeInv /\ [Next]_vars => TypeInv'
BY ScalarsNext, SetsNext, SequencesNext DEF TypeInv

LEMMA TypesFollow == IInv /\ OnlyPlayers /\ TypeInv => TypeOK
<1> SUFFICES ASSUME IInv, OnlyPlayers, TypeInv PROVE TypeOK
    OBVIOUS
<1>1. counts \in [Players -> 0..MaxEntries]
    <2> SUFFICES ASSUME NEW p \in Players PROVE counts[p] \in 0..MaxEntries
        BY DEF IInv, Typed
    <2>1. marks[p] \in SUBSET Entries /\ counts[p] = Cardinality(marks[p]) /\ counts[p] \in Nat
        BY DEF IInv, Typed, Counted
    <2>2. IsFiniteSet(Entries) /\ Cardinality(Entries) = MaxEntries
        BY EntriesNat, FS_Interval
    <2>3. Cardinality(marks[p]) <= MaxEntries
        BY <2>1, <2>2, FS_Subset
    <2> QED
        BY <2>1, <2>3, EntriesNat
<1>2. /\ scored \in [Players -> Seq(Entries)]
      /\ games \in [Players -> Seq(Entries)] /\ points \in [Players -> Seq(Entries)]
    BY DEF TypeInv, Sequenced
<1>3. {ghost, torn, raced} \subseteq BOOLEAN
    BY DEF TypeInv, Scalars
<1> HIDE DEF IInv
<1>4. /\ kind \in [Entries -> {"none", "game", "U", "Z"}]
      /\ who \in [Entries -> SUBSET Players]
      /\ gdoc \in [Entries -> {"none", "live", "over"}]
      /\ fx \in [Entries -> 0..2]
      /\ pdoc \in [Entries -> {"none", "live", "over"}]
      /\ marks \in [Players -> SUBSET Entries]
      /\ gpc \in [Entries -> {"none", "play", "users", "fx", "update",
                              "players", "pairing", "done"}]
      /\ todo \in [Entries -> SUBSET Players]
      /\ ppc \in [Pairers -> {"idle", "mark", "unmark", "bye", "byedoc", "create", "add",
                              "absent", "absentdoc", "chat", "save"}]
      /\ cur \in [Pairers -> Entries \cup {None}]
      /\ made \in [Pairers -> SUBSET Entries]
    BY DEF IInv, Typed
<1> QED
    BY <1>1, <1>2, <1>3, <1>4, Zenon DEF TypeOK, TypeInv, Scalars, Sets, OnlyPlayers, Documents

\* Every variable of the tournament keeps its type: the round stays within the
\* rounds, the documents hold rounds and entries that exist, and no player is
\* counted more games than were ever made (Tournament, load_tournament).
THEOREM TypeCorrect == Spec => []TypeOK
<1>1. Spec => [](IInv /\ OnlyPlayers /\ TypeInv)
    <2>1. Init => IInv /\ OnlyPlayers /\ TypeInv
        BY IInvInit, TypeInvInit
    <2>2. IInv /\ OnlyPlayers /\ TypeInv /\ [Next]_vars => (IInv /\ OnlyPlayers /\ TypeInv)'
        BY IInvNext, TypeInvNext
    <2> QED
        BY <2>1, <2>2, PTL DEF Spec
<1> QED
    BY <1>1, TypesFollow, PTL

=============================================================================
