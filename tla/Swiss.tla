-------------------------------- MODULE Swiss --------------------------------
(***************************************************************************)
(* A Swiss tournament from its first pairing to its end: the clock task    *)
(* that pairs round after round, the director who starts a round by hand,  *)
(* the end of each game with its effects on the users (fx) and on the      *)
(* standings, a process that dies at any await, and load_tournament(),     *)
(* which rebuilds the tournament from Mongo.                               *)
(*                                                                         *)
(* A step is what a coroutine does up to the next await that matters; the  *)
(* write it awaits is part of it.  Results, points and tie-breaks are      *)
(* abstracted to the entry (game, bye or absence) that a point is for.     *)
(* Players who join, leave, pause or come back, forbidden and manual       *)
(* pairings, no-show bans and an abort by an administrator are left out.   *)
(* So is a game that ends before its round is stored: the players are told *)
(* of a game by publish_pairings(), after the round has been stored.       *)
(***************************************************************************)
EXTENDS Naturals, Sequences, FiniteSets, SequencesExt

CONSTANTS
    Players,
    Rounds,
    Modes,              \* round_interval: an interval, or started by hand
    Clock,              \* the clock task of the tournament
    Directors,          \* websockets of directors
    None,
    MaxEntries,         \* bound: entries (games, byes, absences) ever made
    MaxCrashes          \* bound: times the process dies

Pairers == {Clock} \cup Directors
Entries == 1..MaxEntries

ASSUME SwissAssumption ==
    /\ Rounds \in Nat \ {0} /\ MaxEntries \in Nat /\ MaxCrashes \in Nat
    /\ Modes \subseteq {"auto", "manual"}
    /\ Clock \notin Directors /\ None \notin Players \cup Entries
    /\ IsFiniteSet(Players)

VARIABLES
    mode,               \* round_interval, which does not change
    kind,               \* of each entry: game, U (bye) or Z (absent); none
    who,                \* its players
    rnd,                \* its round
    \* Mongo
    tdoc,               \* the document of the tournament
    gdoc,               \* of each game: none, live or over
    fx,                 \* its fx field; 0 if it has none
    noshow,             \* its loser by first-move timeout (status FLAG, ply < 2)
    pdoc,               \* the pairing documents: none, live or over
    scored,             \* the player documents: a point for each entry
    away,               \* the players who are paused in them
    marks,              \* tournamentGameEffectIds of each user
    counts,             \* games counted for each user
    \* memory
    phase,              \* how far the start of the process has got
    status, round, next, pending, inProgress,
    games,              \* the entries of each player
    points,             \* what each point of a player was given for
    free, paused,       \* sets of players
    ongoing,            \* games
    rolling,            \* players whose document has yet to be rolled back
    \* coroutines
    gpc,                \* of each game: its clock and handlers
    todo,               \* players whose document the end of a game has to write
    ppc, plan, rest, cur, made,
    \* history
    crashes,
    rolled,             \* games removed by the rollback of a round
    ghost,              \* one of them has ended
    torn,               \* a crash left a point whose pairing had been rolled back
    raced               \* a coroutine paired, or finished, while another paired

entryVars == <<mode, kind, who, rnd>>
gameDocs == <<gdoc, fx, noshow>>
playerDocs == <<scored, away>>
userDocs == <<marks, counts>>
roundVars == <<status, round, next, pending, inProgress>>
playerVars == <<games, points, free, paused, ongoing>>
gameProcs == <<gpc, todo>>
pairProcs == <<ppc, plan, rest, cur, made>>
history == <<crashes, rolled, ghost, torn, raced>>
vars == <<entryVars, tdoc, gameDocs, pdoc, playerDocs, userDocs, phase, roundVars,
          playerVars, rolling, gameProcs, pairProcs, history>>

TypeOK ==
    /\ mode \in Modes
    /\ kind \in [Entries -> {"none", "game", "U", "Z"}]
    /\ who \in [Entries -> SUBSET Players] /\ rnd \in [Entries -> 0..Rounds]
    /\ tdoc \in [status : {"started", "finished"}, cr : 0..Rounds,
                 next : BOOLEAN, inProgress : 0..Rounds]
    /\ gdoc \in [Entries -> {"none", "live", "over"}] /\ fx \in [Entries -> 0..2]
    /\ noshow \in [Entries -> Players \cup {None}]
    /\ pdoc \in [Entries -> {"none", "live", "over"}]
    /\ scored \in [Players -> Seq(Entries)]
    /\ games \in [Players -> Seq(Entries)] /\ points \in [Players -> Seq(Entries)]
    /\ away \subseteq Players
    /\ marks \in [Players -> SUBSET Entries] /\ counts \in [Players -> 0..MaxEntries]
    /\ phase \in {"users", "scores", "round", "pairings", "tournament",
                  "players", "repair", "up"}
    /\ status \in {"started", "finished"} /\ round \in 0..Rounds
    /\ next \in BOOLEAN /\ pending \in BOOLEAN /\ inProgress \in 0..Rounds
    /\ free \subseteq Players /\ paused \subseteq Players
    /\ ongoing \subseteq Entries /\ rolling \subseteq Players
    /\ gpc \in [Entries -> {"none", "play", "users", "fx", "update",
                            "players", "pairing", "done"}]
    /\ todo \in [Entries -> SUBSET Players]
    /\ ppc \in [Pairers -> {"idle", "mark", "unmark", "bye", "byedoc", "create", "add",
                            "absent", "absentdoc", "chat", "save"}]
    /\ plan \in [Pairers -> SUBSET SUBSET Players]
    /\ rest \in [Pairers -> SUBSET Players]
    /\ cur \in [Pairers -> Entries \cup {None}]
    /\ made \in [Pairers -> SUBSET Entries]
    /\ crashes \in 0..MaxCrashes /\ rolled \subseteq Entries
    /\ {ghost, torn, raced} \subseteq BOOLEAN

-----------------------------------------------------------------------------
(* Helpers *)

NextEntry == Cardinality({e \in Entries : kind[e] # "none"}) + 1

\* A new entry e of the current round.
NewEntry(e, k, ps) ==
    /\ e = NextEntry /\ e \in Entries
    /\ kind' = [kind EXCEPT ![e] = k]
    /\ who' = [who EXCEPT ![e] = ps]
    /\ rnd' = [rnd EXCEPT ![e] = round]
    /\ UNCHANGED mode

\* e is added to f[p] for every p in ps.
Added(f, ps, e) == [p \in Players |-> IF p \in ps THEN Append(f[p], e) ELSE f[p]]

\* The point of e is there: by the index of the game, whatever the point is.
Applied(e, p) == \E i \in DOMAIN games[p] : games[p][i] = e /\ i <= Len(points[p])

SavePlayer_NoPause(p) ==
    /\ scored' = [scored EXCEPT ![p] = points[p]]
    /\ UNCHANGED away

\* db_update_player(p, "GAME_END"): all of p.
SavePlayer(p) ==
    /\ scored' = [scored EXCEPT ![p] = points[p]]
    /\ away' = IF p \in paused THEN away \cup {p} ELSE away \ {p}

\* What the Dutch engine may answer: who plays whom; one rests if they are odd.
Pairings(ps) ==
    {m \in SUBSET {pair \in SUBSET ps : Cardinality(pair) = 2} :
        /\ \A a, b \in m : a = b \/ a \cap b = {}
        /\ Cardinality(ps \ UNION m) <= 1}

WaitingPlayers == free \ paused

\* The members of a set of numbers, in order; those of a sequence at some places.
Ascending(S) ==
    CHOOSE s \in [1..Cardinality(S) -> S] : \A i, j \in DOMAIN s : i < j => s[i] < s[j]

At(s, places) == LET order == Ascending(places) IN [k \in DOMAIN order |-> s[order[k]]]

\* The tournament of a process that has just started it.
Init ==
    /\ mode \in Modes
    /\ kind = [e \in Entries |-> "none"]
    /\ who = [e \in Entries |-> {}] /\ rnd = [e \in Entries |-> 0]
    /\ tdoc = [status |-> "started", cr |-> 0, next |-> FALSE, inProgress |-> 0]
    /\ gdoc = [e \in Entries |-> "none"] /\ fx = [e \in Entries |-> 0]
    /\ noshow = [e \in Entries |-> None]
    /\ pdoc = [e \in Entries |-> "none"]
    /\ scored = [p \in Players |-> <<>>] /\ away = {}
    /\ marks = [p \in Players |-> {}] /\ counts = [p \in Players |-> 0]
    /\ phase = "up" /\ status = "started" /\ round = 0
    /\ next = FALSE /\ pending = FALSE /\ inProgress = 0
    /\ games = [p \in Players |-> <<>>] /\ points = [p \in Players |-> <<>>]
    /\ free = Players /\ paused = {} /\ ongoing = {} /\ rolling = {}
    /\ gpc = [e \in Entries |-> "none"] /\ todo = [e \in Entries |-> {}]
    /\ ppc = [pr \in Pairers |-> "idle"] /\ plan = [pr \in Pairers |-> {}]
    /\ rest = [pr \in Pairers |-> {}] /\ cur = [pr \in Pairers |-> None]
    /\ made = [pr \in Pairers |-> {}]
    /\ crashes = 0 /\ rolled = {}
    /\ ghost = FALSE /\ torn = FALSE /\ raced = FALSE

-----------------------------------------------------------------------------
(* Pairing a round: pair_fixed_round(), create_new_pairings() *)

Pairing(pr) == ppc[pr] # "idle"
Moves(pr, pc) == ppc' = [ppc EXCEPT ![pr] = pc]
Races(pr) == raced' = (raced \/ \E other \in Pairers \ {pr} : Pairing(other))

\* Round r is taken and its players fixed; the pairing-in-progress mark is
\* awaited, or the reason of an early end.
Begin(pr, r) ==
    /\ round' = r
    /\ rest' = [rest EXCEPT ![pr] = WaitingPlayers]
    /\ IF Cardinality(WaitingPlayers) < 2
       THEN Moves(pr, "chat") /\ UNCHANGED inProgress
       ELSE Moves(pr, "mark") /\ inProgress' = r
    /\ Races(pr)
    /\ UNCHANGED <<plan, cur, made, status, crashes, rolled, ghost, torn>>

untouchedByPairing == <<gameDocs, userDocs, phase, mode, rolling, history, paused>>

\* The mark is stored and the engine asked; it may know no pairing.
NoLegalPairing(pr) ==
    /\ ppc[pr] = "mark"
    /\ tdoc' = [tdoc EXCEPT !.inProgress = inProgress]
    /\ inProgress' = 0
    /\ Moves(pr, "unmark")
    /\ UNCHANGED <<untouchedByPairing, kind, who, rnd, pdoc, playerDocs, status, round,
                   next, pending, games, points, free, ongoing, gameProcs,
                   plan, rest, cur, made>>

Unmark(pr) ==
    /\ ppc[pr] = "unmark"
    /\ tdoc' = [tdoc EXCEPT !.inProgress = 0]
    /\ Moves(pr, "chat")
    /\ UNCHANGED <<untouchedByPairing, kind, who, rnd, pdoc, playerDocs, roundVars, games,
                   points, free, ongoing, gameProcs, plan, rest, cur, made>>

\* The one who rests gets a bye, in memory only.
Pair(pr) ==
    /\ ppc[pr] = "mark"
    /\ tdoc' = [tdoc EXCEPT !.inProgress = inProgress]
    /\ \E m \in Pairings(rest[pr]) :
        LET bye == rest[pr] \ UNION m IN
        /\ plan' = [plan EXCEPT ![pr] = m]
        /\ rest' = [rest EXCEPT ![pr] = bye]
        /\ games' = Added(games, bye, NextEntry)
        /\ points' = Added(points, bye, NextEntry)
        /\ IF bye = {}
           THEN /\ Moves(pr, "create")
                /\ UNCHANGED <<kind, who, rnd, cur>>
           ELSE /\ NewEntry(NextEntry, "U", bye)
                /\ cur' = [cur EXCEPT ![pr] = NextEntry]
                /\ Moves(pr, "bye")
    /\ made' = [made EXCEPT ![pr] = {}]
    /\ UNCHANGED <<untouchedByPairing, pdoc, playerDocs, roundVars, free, ongoing,
                   gameProcs>>

\* db_insert_bye_pairing() of a bye or an absence, and db_update_player().
StoreUnplayed(pr) ==
    /\ ppc[pr] \in {"bye", "absent"} /\ cur[pr] # None
    /\ pdoc' = [pdoc EXCEPT ![cur[pr]] = "over"]
    /\ Moves(pr, IF ppc[pr] = "bye" THEN "byedoc" ELSE "absentdoc")
    /\ UNCHANGED <<untouchedByPairing, kind, who, rnd, tdoc, playerDocs, roundVars, games,
                   points, free, ongoing, gameProcs, plan, rest, cur, made>>

SaveUnplayed(pr) ==
    /\ ppc[pr] \in {"byedoc", "absentdoc"}
    /\ \E p \in who[cur[pr]] : SavePlayer(p)
    /\ cur' = [cur EXCEPT ![pr] = None]
    /\ Moves(pr, IF ppc[pr] = "byedoc" THEN "create" ELSE "absent")
    /\ UNCHANGED <<untouchedByPairing, kind, who, rnd, tdoc, pdoc, roundVars, games,
                   points, free, ongoing, gameProcs, plan, rest, made>>

\* create_games(): a game is stored, then added to the standings.
InsertGame(pr) ==
    /\ ppc[pr] = "create"
    /\ \E pair \in plan[pr] :
        /\ NewEntry(NextEntry, "game", pair)
        /\ plan' = [plan EXCEPT ![pr] = @ \ {pair}]
    /\ gdoc' = [gdoc EXCEPT ![NextEntry] = "live"]
    /\ cur' = [cur EXCEPT ![pr] = NextEntry]
    /\ Moves(pr, "add")
    /\ UNCHANGED <<fx, noshow, userDocs, phase, rolling, history, paused, tdoc, pdoc, playerDocs, roundVars, games, points, free,
                   ongoing, gameProcs, rest, made>>

AddGame(pr) ==
    /\ ppc[pr] = "add"
    /\ LET e == cur[pr] IN
        /\ ongoing' = ongoing \cup {e}
        /\ games' = Added(games, who[e], e)
        /\ free' = free \ who[e]
        /\ made' = [made EXCEPT ![pr] = @ \cup {e}]
    /\ cur' = [cur EXCEPT ![pr] = None]
    /\ Moves(pr, "create")
    /\ UNCHANGED <<untouchedByPairing, kind, who, rnd, tdoc, pdoc, playerDocs, roundVars,
                   points, gameProcs, plan, rest>>

\* db_insert_pairing(): all the games of the round at a time.
InsertPairings(pr) ==
    /\ ppc[pr] = "create" /\ plan[pr] = {}
    /\ pdoc' = [e \in Entries |-> IF e \in made[pr] THEN gdoc[e] ELSE pdoc[e]]
    /\ Moves(pr, "absent")
    /\ UNCHANGED <<untouchedByPairing, kind, who, rnd, tdoc, playerDocs, roundVars, games,
                   points, free, ongoing, gameProcs, plan, rest, cur, made>>

\* Players without an entry of this round.
LeftOut(pr) ==
    {p \in Players : /\ p \notin rest[pr] \cup UNION {who[e] : e \in made[pr]}
                     /\ \A i \in DOMAIN games[p] : rnd[games[p][i]] # round}

MarkAbsent(pr) ==
    /\ ppc[pr] = "absent" /\ cur[pr] = None
    /\ \E p \in LeftOut(pr) :
        /\ NewEntry(NextEntry, "Z", {p})
        /\ games' = Added(games, {p}, NextEntry)
        /\ points' = Added(points, {p}, NextEntry)
    /\ cur' = [cur EXCEPT ![pr] = NextEntry]
    /\ UNCHANGED <<untouchedByPairing, tdoc, pdoc, playerDocs, roundVars, free, ongoing,
                   gameProcs, ppc, plan, rest, made>>

\* save_current_round(), after which the players are told of their games; their
\* clocks are taken to start here.
Commit(pr) ==
    /\ ppc[pr] = "absent" /\ cur[pr] = None /\ LeftOut(pr) = {}
    /\ tdoc' = [tdoc EXCEPT !.cr = round, !.next = FALSE,
                            !.inProgress = IF inProgress = round THEN 0 ELSE @]
    /\ inProgress' = IF inProgress = round THEN 0 ELSE inProgress
    /\ next' = FALSE /\ pending' = FALSE
    /\ gpc' = [e \in Entries |-> IF e \in made[pr] THEN "play" ELSE gpc[e]]
    /\ made' = [made EXCEPT ![pr] = {}]
    /\ rest' = [rest EXCEPT ![pr] = {}]
    /\ Moves(pr, "idle")
    /\ UNCHANGED <<untouchedByPairing, kind, who, rnd, pdoc, playerDocs, status, round,
                   games, points, free, ongoing, todo, plan, cur>>

-----------------------------------------------------------------------------
(* The end of a tournament: finish(), finalize() *)

Unfinished(e) == kind[e] = "game" /\ gdoc[e] = "live"

\* In memory: the status, and the latest game of a player if it is not over.
Finalize(pr) ==
    /\ status' = "finished"
    /\ games' = [p \in Players |->
                    IF games[p] # <<>> /\ Unfinished(Last(games[p]))
                    THEN Front(games[p]) ELSE games[p]]
    /\ Moves(pr, "save")

\* The reason has been told; round goes back to the last one with an entry.
FinishEarly(pr) ==
    /\ ppc[pr] = "chat"
    /\ Finalize(pr)
    /\ LET recorded == {rnd[e] : e \in UNION {ToSet(games[p]) : p \in Players}} IN
        round' = IF recorded = {} THEN 0
                 ELSE CHOOSE r \in recorded : \A other \in recorded : other <= r
    /\ next' = FALSE /\ pending' = FALSE
    /\ inProgress' = IF inProgress > round' THEN 0 ELSE inProgress
    /\ UNCHANGED <<untouchedByPairing, kind, who, rnd, tdoc, pdoc, playerDocs, points,
                   free, ongoing, gameProcs, plan, rest, cur, made>>

SaveTournament(pr) ==
    /\ ppc[pr] = "save"
    /\ tdoc' = [tdoc EXCEPT !.status = status, !.cr = round]
    /\ Moves(pr, "idle")
    /\ rest' = [rest EXCEPT ![pr] = {}]
    /\ UNCHANGED <<untouchedByPairing, kind, who, rnd, pdoc, playerDocs, roundVars, games,
                   points, free, ongoing, gameProcs, plan, cur, made>>

-----------------------------------------------------------------------------
(* The clock task, and a director *)

\* No game of the round is left.
RoundOver == ongoing = {}

Ticks ==
    /\ phase = "up" /\ ppc[Clock] = "idle" /\ status = "started"
    /\ UNCHANGED <<entryVars, gameDocs, pdoc, playerDocs, userDocs, phase, points, free,
                   paused, ongoing, rolling, gameProcs>>

TickPairs ==
    /\ Ticks /\ RoundOver
    /\ \/ round = 0 /\ UNCHANGED next
       \/ /\ 0 < round /\ round < Rounds /\ mode = "auto" /\ next
          /\ next' = FALSE
    /\ Begin(Clock, round + 1)
    /\ UNCHANGED <<tdoc, pending, games>>

TickWaits ==
    /\ Ticks /\ RoundOver /\ 0 < round /\ round < Rounds
    /\ \/ /\ mode = "auto" /\ ~next
          /\ next' = TRUE /\ tdoc' = [tdoc EXCEPT !.next = TRUE]
          /\ UNCHANGED pending
       \/ /\ mode = "manual" /\ ~pending
          /\ pending' = TRUE /\ UNCHANGED <<tdoc, next>>
    /\ UNCHANGED <<status, round, inProgress, games, pairProcs, history>>

TickFinishes ==
    /\ Ticks /\ RoundOver /\ round = Rounds
    /\ Finalize(Clock)
    /\ Races(Clock)
    /\ UNCHANGED <<tdoc, round, next, pending, inProgress, plan, rest, cur, made,
                   crashes, rolled, ghost, torn>>

TickPlaying ==
    /\ Ticks /\ ongoing # {} /\ (next \/ pending)
    /\ next' = FALSE /\ pending' = FALSE
    /\ UNCHANGED <<tdoc, status, round, inProgress, games, pairProcs, history>>

\* start_next_round_now()
StartNextRound(d) ==
    /\ phase = "up" /\ ppc[d] = "idle" /\ status = "started"
    /\ mode = "manual" /\ pending /\ RoundOver /\ round < Rounds
    /\ pending' = FALSE
    /\ Begin(d, round + 1)
    /\ UNCHANGED <<entryVars, tdoc, gameDocs, pdoc, playerDocs, userDocs, phase, next,
                   playerVars, rolling, gameProcs>>

PairerStep(pr) ==
    \/ NoLegalPairing(pr) \/ Unmark(pr) \/ Pair(pr) \/ StoreUnplayed(pr)
    \/ SaveUnplayed(pr) \/ InsertGame(pr) \/ AddGame(pr) \/ InsertPairings(pr)
    \/ MarkAbsent(pr) \/ Commit(pr) \/ FinishEarly(pr) \/ SaveTournament(pr)

-----------------------------------------------------------------------------
(* The end of a game: save_game(), its effects, game_update() *)

untouchedByGames == <<entryVars, playerVars, rolling, pairProcs, crashes, rolled, torn, raced>>

\* The final write.  The loser may be one who never moved in time.  A game
\* whose document has been deleted writes nothing.
EndGame(e) ==
    /\ gpc[e] = "play"
    /\ \E loser \in who[e] \cup {None} : noshow' = [noshow EXCEPT ![e] = loser]
    /\ IF gdoc[e] = "live"
       THEN gdoc' = [gdoc EXCEPT ![e] = "over"] /\ fx' = [fx EXCEPT ![e] = 1]
       ELSE UNCHANGED <<gdoc, fx>>
    /\ gpc' = [gpc EXCEPT ![e] = "users"]
    /\ todo' = [todo EXCEPT ![e] = who[e]]
    /\ ghost' = (ghost \/ e \in rolled)
    /\ UNCHANGED <<untouchedByGames, tdoc, pdoc, playerDocs, userDocs, phase, roundVars>>

\* apply_tournament_game_effect_once(): one update, filtered by the marks.
ApplyOnce(e, p) ==
    /\ marks' = [marks EXCEPT ![p] = @ \cup {e}]
    /\ counts' = IF e \in marks[p] THEN counts ELSE [counts EXCEPT ![p] = @ + 1]

UserEffect(e) ==
    /\ gpc[e] = "users"
    /\ \E p \in todo[e] :
        /\ ApplyOnce(e, p)
        /\ todo' = [todo EXCEPT ![e] = @ \ {p}]
        /\ gpc' = IF todo[e] = {p} THEN [gpc EXCEPT ![e] = "fx"] ELSE gpc
    /\ UNCHANGED <<untouchedByGames, tdoc, gameDocs, pdoc, playerDocs, phase, roundVars,
                   ghost>>

EffectsDone_Again(e) == fx' = [fx EXCEPT ![e] = @ + 1]

\* fx becomes 2 if it is 1.
EffectsDone(e) == fx' = [fx EXCEPT ![e] = IF @ = 1 THEN 2 ELSE @]

StoreFx(e) ==
    /\ gpc[e] = "fx"
    /\ EffectsDone(e)
    /\ gpc' = [gpc EXCEPT ![e] = "update"]
    /\ UNCHANGED <<untouchedByGames, tdoc, gdoc, noshow, pdoc, playerDocs, userDocs, phase,
                   roundVars, todo, ghost>>

\* _apply_finished_game_update() up to its first await.
ApplyResult(e) ==
    LET touched == {p \in who[e] : ~Applied(e, p)} IN
    /\ points' = Added(points, touched, e)
    /\ paused' = paused \cup ({noshow[e]} \ {None})

GameUpdate(e) ==
    /\ gpc[e] = "update" /\ phase = "up"
    /\ IF status = "finished"
       THEN gpc' = [gpc EXCEPT ![e] = "done"] /\ UNCHANGED <<points, paused, todo>>
       ELSE /\ ApplyResult(e)
            /\ gpc' = [gpc EXCEPT ![e] = "players"]
            /\ todo' = [todo EXCEPT ![e] = who[e]]
    /\ UNCHANGED <<entryVars, games, free, ongoing, rolling, pairProcs, history, tdoc,
                   gameDocs, pdoc, playerDocs, userDocs, phase, roundVars>>

UpdatePlayer(e) ==
    /\ gpc[e] = "players"
    /\ \E p \in todo[e] :
        /\ SavePlayer(p)
        /\ todo' = [todo EXCEPT ![e] = @ \ {p}]
        /\ gpc' = IF todo[e] = {p} THEN [gpc EXCEPT ![e] = "pairing"] ELSE gpc
    /\ UNCHANGED <<untouchedByGames, tdoc, gameDocs, pdoc, userDocs, phase, roundVars,
                   ghost>>

StorePairing_Not(e) == UNCHANGED pdoc

\* db_update_pairing(), an upsert.
StorePairing(e) == pdoc' = [pdoc EXCEPT ![e] = "over"]

\* The pairing, then _finalize_finished_game_once(); the interval is longer than
\* the write of next and than delayed_free().
UpdatePairing(e) ==
    /\ gpc[e] = "pairing"
    /\ StorePairing(e)
    /\ gpc' = [gpc EXCEPT ![e] = "done"]
    /\ IF e \in ongoing
       THEN /\ ongoing' = ongoing \ {e}
            /\ free' = free \cup (who[e] \ {noshow[e]})
            /\ IF /\ ongoing = {e} /\ status = "started" /\ ~next
                  /\ 0 < round /\ round < Rounds
               THEN /\ next' = TRUE
                    /\ tdoc' = [tdoc EXCEPT !.next = @ \/ mode = "auto"]
               ELSE UNCHANGED <<next, tdoc>>
       ELSE UNCHANGED <<ongoing, free, next, tdoc>>
    /\ UNCHANGED <<entryVars, games, points, paused, rolling, pairProcs, history,
                   gameDocs, playerDocs, userDocs, phase, status, round, pending,
                   inProgress, todo>>

GameStep(e) ==
    \/ EndGame(e) \/ UserEffect(e) \/ StoreFx(e) \/ GameUpdate(e)
    \/ UpdatePlayer(e) \/ UpdatePairing(e)

-----------------------------------------------------------------------------
(* The process dies and starts again: load_tournament() *)

Crash ==
    /\ crashes < MaxCrashes /\ tdoc.status = "started"
    /\ crashes' = crashes + 1
    /\ torn' = (torn \/ \E p \in Players : \E e \in ToSet(scored[p]) : pdoc[e] = "none")
    /\ phase' = "users" /\ status' = "started" /\ round' = 0
    /\ next' = FALSE /\ pending' = FALSE /\ inProgress' = 0
    /\ games' = [p \in Players |-> <<>>] /\ points' = [p \in Players |-> <<>>]
    /\ free' = Players /\ paused' = {} /\ ongoing' = {} /\ rolling' = {}
    /\ gpc' = [e \in Entries |-> "none"] /\ todo' = [e \in Entries |-> {}]
    /\ ppc' = [pr \in Pairers |-> "idle"] /\ plan' = [pr \in Pairers |-> {}]
    /\ rest' = [pr \in Pairers |-> {}] /\ cur' = [pr \in Pairers |-> None]
    /\ made' = [pr \in Pairers |-> {}]
    /\ UNCHANGED <<entryVars, tdoc, gameDocs, pdoc, playerDocs, userDocs, rolled, ghost,
                   raced>>

untouchedByStart == <<mode, kind, who, noshow, pairProcs, crashes, torn, raced, status,
                      pending, todo>>

\* recover_pending_tournament_game_side_effects(): before the tournament is
\* loaded, and again in a background task of the started server.
RecoverUser(e) ==
    /\ \/ phase = "users"
       \/ phase = "up" /\ crashes > 0
    /\ fx[e] = 1
    /\ \E p \in who[e] : e \notin marks[p] /\ ApplyOnce(e, p)
    /\ UNCHANGED <<untouchedByStart, rnd, ghost, tdoc, gdoc, fx, pdoc, playerDocs, phase, round, next,
                   inProgress, playerVars, rolling, gpc, rolled>>

RecoverFx(e) ==
    /\ phase = "up" /\ crashes > 0
    /\ fx[e] = 1 /\ \A p \in who[e] : e \in marks[p]
    /\ EffectsDone(e)
    /\ UNCHANGED <<untouchedByStart, rnd, ghost, tdoc, gdoc, pdoc, playerDocs, userDocs, phase, round,
                   next, inProgress, playerVars, rolling, gpc, rolled>>

EffectsRecovered_Skipped == TRUE

EffectsRecovered ==
    \A e \in Entries : fx[e] = 1 => \A p \in who[e] : e \in marks[p]

GamesResume_Stopped(live) == gpc' = [e \in Entries |-> "none"]

\* load_game() starts the clock of a live game again.
GamesResume(live) ==
    gpc' = [e \in Entries |-> IF e \in live THEN "play" ELSE "none"]

ByDate_Reversed(es) == Reverse(Ascending(es))

ByDate(es) == Ascending(es)

\* The documents are read, lost pairing documents are rebuilt from the games,
\* and the pairings replayed by date.
Load ==
    /\ phase = "users"
    /\ EffectsRecovered
    /\ LET repaired == [e \in Entries |-> IF gdoc[e] # "none" THEN gdoc[e] ELSE pdoc[e]]
           live == {e \in Entries : repaired[e] = "live" /\ gdoc[e] = "live"}
           over == {e \in Entries : repaired[e] = "over"}
           ofPlayer(p) == {e \in live \cup over : p \in who[e]}
       IN
        /\ pdoc' = repaired
        /\ games' = [p \in Players |-> ByDate(ofPlayer(p))]
        /\ ongoing' = live
        /\ free' = Players \ UNION {who[e] : e \in live}
        /\ GamesResume(live)
    /\ points' = scored /\ paused' = away
    /\ round' = tdoc.cr /\ next' = tdoc.next /\ inProgress' = tdoc.inProgress
    /\ phase' = "scores"
    /\ UNCHANGED <<untouchedByStart, rnd, ghost, tdoc, gdoc, fx, playerDocs, userDocs, rolling, rolled>>

Unscored == {e \in Entries : /\ kind[e] = "game" /\ pdoc[e] = "over"
                             /\ \E p \in who[e] : e \in ToSet(games[p]) /\ ~Applied(e, p)}

\* recover_game_update(): the points that no document has, game after game.
RecoverScore ==
    /\ phase = "scores"
    /\ \E e \in Unscored, p \in Players :
        /\ \A other \in Unscored : e <= other
        /\ p \in who[e] /\ ~Applied(e, p)
        /\ points' = Added(points, {p}, e)
        /\ paused' = paused \cup ({noshow[e]} \ {None})
        /\ scored' = [scored EXCEPT ![p] = Append(points[p], e)]
        /\ away' = IF p \in paused \cup {noshow[e]} THEN away \cup {p} ELSE away \ {p}
    /\ UNCHANGED <<untouchedByStart, rnd, ghost, tdoc, gdoc, fx, pdoc, userDocs, phase, round, next,
                   inProgress, games, free, ongoing, rolling, gpc, rolled>>

ScoresRecovered ==
    /\ phase = "scores" /\ Unscored = {}
    /\ phase' = "round"
    /\ UNCHANGED <<untouchedByStart, rnd, ghost, tdoc, gdoc, fx, pdoc, playerDocs, userDocs, round,
                   next, inProgress, playerVars, rolling, gpc, rolled>>

\* _recover_incomplete_fixed_round_pairing_round(): a round of which every
\* player has an entry is committed.
OfRound(r) == {e \in Entries : rnd[e] = r /\ pdoc[e] # "none"}
Complete_Any(r) == TRUE

Complete(r) == \A p \in Players : \E i \in DOMAIN games[p] : rnd[games[p][i]] = r

KeepRound ==
    /\ phase = "round" /\ (inProgress = 0 \/ Complete(inProgress))
    /\ IF inProgress = 0
       THEN UNCHANGED <<round, next, inProgress, tdoc>>
       ELSE /\ round' = IF round < inProgress THEN inProgress ELSE round
            /\ next' = FALSE
            /\ inProgress' = IF inProgress = round' THEN 0 ELSE inProgress
            /\ tdoc' = [tdoc EXCEPT !.cr = round', !.next = FALSE,
                                    !.inProgress = IF inProgress = round' THEN 0 ELSE @]
    /\ phase' = "repair"
    /\ UNCHANGED <<untouchedByStart, rnd, ghost, gdoc, fx, pdoc, playerDocs, userDocs, playerVars,
                   rolling, gpc, rolled>>

\* Any other is rolled back: its games, its pairings, the standings, the round,
\* and the documents of its players.
RollbackGames ==
    /\ phase = "round" /\ inProgress # 0 /\ ~Complete(inProgress)
    /\ LET paired == {e \in OfRound(inProgress) : kind[e] = "game"}
           gone == IF paired # {} THEN paired
                   ELSE {e \in Entries : gdoc[e] = "live"}
       IN /\ gdoc' = [e \in Entries |-> IF e \in gone THEN "none" ELSE gdoc[e]]
          /\ fx' = [e \in Entries |-> IF e \in gone THEN 0 ELSE fx[e]]
          /\ rolled' = rolled \cup gone
          /\ ghost' = (ghost \/ \E e \in gone : gpc[e] \notin {"none", "play"})
    /\ phase' = "pairings"
    /\ UNCHANGED <<untouchedByStart, rnd, tdoc, pdoc, playerDocs, userDocs, round, next,
                   inProgress, playerVars, rolling, gpc>>

RollbackPairings ==
    /\ phase = "pairings"
    /\ pdoc' = [e \in Entries |-> IF rnd[e] = inProgress THEN "none" ELSE pdoc[e]]
    /\ rnd' = [e \in Entries |->
                  IF rnd[e] = inProgress /\ kind[e] # "game" THEN 0 ELSE rnd[e]]
    /\ LET kept(p) == {i \in DOMAIN games[p] : rnd[games[p][i]] # inProgress}
           changed == {p \in Players : kept(p) # DOMAIN games[p]}
       IN /\ games' = [p \in Players |-> At(games[p], kept(p))]
          /\ points' = [p \in Players |->
                           IF p \in changed
                           THEN At(points[p], kept(p) \cap DOMAIN points[p])
                           ELSE points[p]]
          /\ free' = free \cup changed
          /\ rolling' = changed
    /\ ongoing' = {e \in ongoing : rnd[e] # inProgress}
    /\ round' = inProgress - 1
    /\ phase' = "tournament"
    /\ UNCHANGED <<untouchedByStart, ghost, tdoc, gdoc, fx, playerDocs, userDocs, next,
                   inProgress, paused, gpc, rolled>>

RollbackRound ==
    /\ phase = "tournament"
    /\ inProgress' = 0
    /\ tdoc' = [tdoc EXCEPT !.cr = round, !.inProgress = 0]
    /\ phase' = "players"
    /\ UNCHANGED <<untouchedByStart, rnd, ghost, gdoc, fx, pdoc, playerDocs, userDocs, round, next,
                   playerVars, rolling, gpc, rolled>>

RollbackPlayer ==
    /\ phase = "players"
    /\ IF rolling = {}
       THEN phase' = "repair" /\ UNCHANGED <<playerDocs, rolling>>
       ELSE \E p \in rolling : /\ SavePlayer(p)
                               /\ rolling' = rolling \ {p}
                               /\ UNCHANGED phase
    /\ UNCHANGED <<untouchedByStart, rnd, ghost, tdoc, gdoc, fx, pdoc, userDocs, round, next,
                   inProgress, playerVars, gpc, rolled>>

Known_Games(e) == pdoc[e] = "over" /\ kind[e] = "game"

\* _infer_swiss_point_from_game()
Known(e) == pdoc[e] = "over"

\* _repair_swiss_state_from_history(): the points of byes and absences whose
\* pairing document was written and whose player document was not; and byes
\* without a round for the points of byes without a pairing.  A player of whom a
\* game has a round is not aligned (_align_player_games_with_points); one with
\* points and no games gets there the byes he gets here.
Repair ==
    /\ phase = "repair"
    /\ LET missing(p) == DOMAIN games[p] \ DOMAIN points[p]
           first(p) == {i \in missing(p) : \A j \in missing(p) : j <= i => Known(games[p][j])}
           known(p) == At(games[p], first(p))
           extra(p) == SubSeq(points[p], Len(games[p]) + 1, Len(points[p]))
           run(p) == {i \in DOMAIN extra(p) : \A j \in 1..i : kind[extra(p)[j]] = "U"}
           byes(p) == At(extra(p), run(p))
           repaired == {p \in Players : known(p) # <<>> \/ byes(p) # <<>>}
       IN /\ points' = [p \in Players |-> points[p] \o known(p)]
          /\ games' = [p \in Players |-> games[p] \o byes(p)]
          /\ scored' = [p \in Players |-> IF p \in repaired THEN points'[p] ELSE scored[p]]
          /\ away' = (away \ repaired) \cup (paused \cap repaired)
    /\ phase' = "up"
    /\ UNCHANGED <<untouchedByStart, rnd, ghost, tdoc, gdoc, fx, pdoc, userDocs, round,
                   next, inProgress, free, paused, ongoing, rolling, gpc, rolled>>

StartStep ==
    \/ Load \/ RecoverScore \/ ScoresRecovered \/ KeepRound \/ RollbackGames
    \/ RollbackPairings \/ RollbackRound \/ RollbackPlayer \/ Repair

-----------------------------------------------------------------------------

ClockStep ==
    PairerStep(Clock) \/ TickPairs \/ TickWaits \/ TickFinishes \/ TickPlaying

Next ==
    \/ ClockStep
    \/ \E d \in Directors : PairerStep(d) \/ StartNextRound(d)
    \/ \E e \in Entries : GameStep(e) \/ RecoverUser(e) \/ RecoverFx(e)
    \/ Crash \/ StartStep

Spec == Init /\ [][Next]_vars

\* The event loop goes on while a task is ready: the clock ticks, an awaited
\* write returns, a game ends by its clock at the latest, a process that died is
\* started again.  A director need not start a round.
Tasks ==
    \/ ClockStep
    \/ \E d \in Directors : PairerStep(d)
    \/ \E e \in Entries : GameStep(e) \/ RecoverUser(e)
    \/ StartStep

Fairness == WF_vars(Tasks)

FairSpec == Spec /\ Fairness

-----------------------------------------------------------------------------
(* Properties *)

\* A finished game restored with its clock (restore_realtime_clock_after_load())
\* after which its round was rolled back, a point that outlived the rollback of
\* its pairing, or two coroutines pairing at a time: what the code does not
\* guard against.
Disturbed == ghost \/ torn \/ raced

\* Each point of a player stands at the place of the game, bye or absence it was
\* given for: the index by which _player_game_result_applied() and the pairing
\* engine find it, whatever was lost with the process.
StandingsMatch == \A p \in Players : IsPrefix(points[p], games[p])

\* The same, unless the code was disturbed.
PointsMatchGames == Disturbed \/ StandingsMatch

\* A game is counted once for a player, however often its effects are replayed;
\* and one whose pairing is stored as over, or whose effects are stored as
\* applied (fx = 2), is counted for both.
ResultsCounted ==
    /\ \A p \in Players : counts[p] = Cardinality(marks[p])
    /\ \A e \in Entries : kind[e] = "game" /\ (fx[e] = 2 \/ pdoc[e] = "over") =>
            \A p \in who[e] : e \in marks[p]

Stored(e) == kind[e] = "game" /\ pdoc[e] # "none"

\* A round is stored only when the results of every earlier one are.
RoundsInOrder ==
    \A e, f \in Entries : Stored(e) /\ Stored(f) /\ rnd[e] < rnd[f] => pdoc[e] = "over"

\* "a restart during the delay cannot lose the penalty": one who did not show up
\* is not paired again, unless he comes back.
NoShowStaysOut ==
    \A e, f \in Entries :
        Stored(e) /\ kind[f] = "game" /\ rnd[e] < rnd[f] => noshow[e] \notin who[f]

\* A finished tournament has no game in play, and the documents of its players
\* have a point for every entry.
AllScored ==
    tdoc.status = "finished" =>
        \A e \in Entries : kind[e] # "none" /\ pdoc[e] # "none" =>
            pdoc[e] = "over" /\ \A p \in who[e] : e \in ToSet(scored[p])

\* The same, unless the code was disturbed.
FinishedComplete == Disturbed \/ AllScored

\* When no round is being paired, every player has one entry in every round up
\* to the stored one: no round is skipped or paired twice by an interrupted
\* commit.
OneEntryPerRound ==
    Disturbed \/ tdoc.inProgress # 0 \/
    \A p \in Players, r \in 1..tdoc.cr :
        Cardinality({e \in Entries : p \in who[e] /\ rnd[e] = r /\ pdoc[e] # "none"}) = 1

\* A tournament that pairs by itself ends, also when the process dies.
TournamentEnds == mode = "auto" ~> tdoc.status = "finished"

=============================================================================
