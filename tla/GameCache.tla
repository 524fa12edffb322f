----------------------------- MODULE GameCache -----------------------------
(***************************************************************************)
(* The cache of games of PychessGlobalAppState, for one game: lazy loading *)
(* (utils.load_game), restore after a restart, the end of the game, and    *)
(* the two ways its Game object leaves the cache.  Every Game object built *)
(* from the document is an instance with a board, a move_lock, a countdown *)
(* task and a saved flag of its own, so it matters how many there are.     *)
(*                                                                         *)
(* A step is what a coroutine does between two awaits.  What RoundGame has *)
(* in detail (a move, the end of a game) is coarse here.                   *)
(***************************************************************************)
EXTENDS Naturals, FiniteSets

CONSTANTS
    Games,              \* the Game objects that may be built; each stands
                        \* for its countdown task too
    Sockets,            \* round websockets
    PlayerSockets,      \* the ones opened by players, the others spectate
    Restorer,           \* the task that restores games after a restart
    None,
    MaxMoves            \* bound: no move is requested from this number on

Loaders == Sockets \cup {Restorer}
Procs == Loaders \cup Games

ASSUME NamesAssumption ==
    /\ PlayerSockets \subseteq Sockets
    /\ Sockets \cap Games = {}
    /\ Restorer \notin Sockets \cup Games
    /\ None \notin Procs
ASSUME MaxMovesAssumption == MaxMoves \in Nat
ASSUME GamesAssumption == IsFiniteSet(Games)

VARIABLES
    st,                 \* none, live (status <= STARTED) or over
    moves,              \* moves on the board of each instance
    diverged,           \* its board has a move that is not in the document
    entry,              \* games[game_id]
    loading,            \* game_load_tasks[game_id]: the document it builds from
    removal,            \* the removal task armed for each instance
    armed,              \* game_remove_tasks[game_id]
    doc,                \* the document in Mongo
    effects,            \* times a result was applied to ratings and counts
    pc,
    game,               \* the instance a socket works on
    snap,               \* the document a query returned, until it is used
    got,                \* the instance load_game() built; the task awaited
    reborn              \* history: a live instance of an ended game was built

vars == <<st, moves, diverged, entry, loading, removal, armed, doc, effects,
          pc, game, snap, got, reborn>>
instVars == <<st, moves, diverged>>
cacheVars == <<entry, loading, removal, armed>>
dbVars == <<doc, effects>>
localVars == <<game, snap, got>>

Docs == [s : {"live", "over"}, m : 0..MaxMoves]

ASSUME DocsAssumption == None \notin Docs

LoadPcs == {"find", "found", "shield", "built"}
EndPcs == {"save_schedule", "save_write", "check", "evict"}
SocketPcs == LoadPcs \cup EndPcs \cup {"away", "opened", "joined"}

TypeOK ==
    /\ st \in [Games -> {"none", "live", "over"}]
    /\ moves \in [Games -> 0..MaxMoves]
    /\ diverged \in [Games -> BOOLEAN]
    /\ entry \in Games \cup {None}
    /\ loading \in Docs \cup {None}
    /\ removal \in [Games -> {"none", "sleep", "evict"}]
    /\ armed \in Games \cup {None}
    /\ doc \in Docs
    /\ effects \in 0..Cardinality(Games)
    /\ \A c \in Sockets : pc[c] \in SocketPcs
    /\ \A g \in Games : pc[g] \in EndPcs \cup {"none", "run", "done"}
    /\ pc[Restorer] \in LoadPcs \cup {"away", "done"}
    /\ game \in [Sockets -> Games \cup {None}]
    /\ snap \in [Loaders -> Docs \cup {None}]
    /\ got \in [Procs -> Games \cup {None}]
    /\ reborn \in BOOLEAN

-----------------------------------------------------------------------------
(* Helpers *)

InstOf(p) == IF p \in Games THEN p ELSE game[p]

\* The socket is registered with its user and, for a spectator, in
\* game.spectators; it stays so while one of its handlers runs.
Audience(c) ==
    \/ pc[c] \in {"joined", "save_schedule", "save_write"}
    \/ pc[c] \in LoadPcs /\ game[c] # None

\* game_is_held(): a player counts by the id of the game, a spectator by the
\* instance.  (Pending analyses are left out.)
Held(g) == \E c \in Sockets : Audience(c) /\ (c \in PlayerSockets \/ game[c] = g)

\* The countdown task of g is cancelled if it is still counting.
StopCountdown(f, g) == [f EXCEPT ![g] = IF @ = "run" THEN "done" ELSE @]

\* schedule_game_cache_removal(g)
Schedule(g) ==
    IF armed # None /\ removal[armed] # "none" THEN UNCHANGED <<removal, armed>>
    ELSE removal' = [removal EXCEPT ![g] = "sleep"] /\ armed' = g

\* load_game() returns g to p while e is cached: a socket that opens works on
\* g from now on, a handler that reloads only answers with it, the restorer
\* caches it.
LoadGameReturns(p, g, e) ==
    /\ pc' = [pc EXCEPT ![p] = IF p = Restorer THEN "done"
                               ELSE IF game[p] = None THEN "opened" ELSE "joined"]
    /\ game' = IF p = Restorer \/ game[p] # None THEN game
               ELSE [game EXCEPT ![p] = g]
    /\ entry' = IF p = Restorer THEN g ELSE e

\* A game in the cache of the process that created it, or a restart.
Init ==
    /\ \/ /\ \E g \in Games :
                /\ entry = g
                /\ st = [h \in Games |-> IF h = g THEN "live" ELSE "none"]
          /\ doc = [s |-> "live", m |-> 0]
       \/ /\ entry = None /\ st = [g \in Games |-> "none"]
          /\ doc \in Docs
    /\ moves = [g \in Games |-> 0]
    /\ diverged = [g \in Games |-> FALSE]
    /\ loading = None
    /\ removal = [g \in Games |-> "none"] /\ armed = None
    /\ effects = 0
    /\ pc = [p \in Procs |-> IF p \in Sockets THEN "away"
                             ELSE IF p = Restorer
                             THEN IF entry = None THEN "away" ELSE "done"
                             ELSE IF p = entry THEN "run" ELSE "none"]
    /\ game = [c \in Sockets |-> None]
    /\ snap = [p \in Loaders |-> None]
    /\ got = [p \in Procs |-> None]
    /\ reborn = FALSE

-----------------------------------------------------------------------------
(* Loading *)

\* round_socket_handler() calls load_game().
Open(c) ==
    /\ pc[c] = "away"
    /\ \/ /\ entry # None
          /\ LoadGameReturns(c, entry, entry)
       \/ /\ entry = None
          /\ pc' = [pc EXCEPT ![c] = "find"]
          /\ UNCHANGED <<game, entry>>
    /\ UNCHANGED <<instVars, loading, removal, armed, dbVars, snap, got, reborn>>

\* The cursor over the active games returns the document; restoring has no
\* look at the cache before it.
RestoreRead ==
    /\ pc[Restorer] = "away"
    /\ \/ /\ doc.s = "live"
          /\ snap' = [snap EXCEPT ![Restorer] = doc]
          /\ pc' = [pc EXCEPT ![Restorer] = "found"]
       \/ /\ doc.s = "over"
          /\ pc' = [pc EXCEPT ![Restorer] = "done"]
          /\ UNCHANGED snap
    /\ UNCHANGED <<instVars, cacheVars, dbVars, game, got, reborn>>

\* Mongo answers find_one(); its caller has yet to resume.
FindServed(c) ==
    /\ pc[c] = "find"
    /\ snap' = [snap EXCEPT ![c] = doc]
    /\ pc' = [pc EXCEPT ![c] = "found"]
    /\ UNCHANGED <<instVars, cacheVars, dbVars, game, got, reborn>>

\* Mutant of LoadFromDoc: the construction task is not shared.
LoadFromDoc_Unshared(p) ==
    /\ pc[p] = "found"
    /\ \E g \in Games :
          /\ st[g] = "none"
          /\ st' = [st EXCEPT ![g] = snap[p].s]
          /\ moves' = [moves EXCEPT ![g] = snap[p].m]
          /\ pc' = [pc EXCEPT ![p] = "built", ![g] = "run"]
          /\ got' = [got EXCEPT ![p] = g]
          /\ entry' = IF snap[p].s = "live" THEN g ELSE entry
    /\ snap' = [snap EXCEPT ![p] = None]
    /\ UNCHANGED <<diverged, loading, removal, armed, dbVars, game, reborn>>

\* load_game_from_doc(): the cached instance, the construction task of
\* somebody else, or a new one.
LoadFromDoc(p) ==
    /\ pc[p] = "found"
    /\ \/ /\ entry # None
          /\ LoadGameReturns(p, entry, entry)
          /\ UNCHANGED loading
       \/ /\ entry = None
          /\ loading' = IF loading = None THEN snap[p] ELSE loading
          /\ pc' = [pc EXCEPT ![p] = "shield"]
          /\ UNCHANGED <<game, entry>>
    /\ snap' = [snap EXCEPT ![p] = None]
    /\ UNCHANGED <<instVars, removal, armed, dbVars, got, reborn>>

\* _load_game_from_doc(): a live game goes into the cache by itself.
Build ==
    /\ loading # None
    /\ \E g \in Games :
          /\ st[g] = "none"
          /\ st' = [st EXCEPT ![g] = loading.s]
          /\ moves' = [moves EXCEPT ![g] = loading.m]
          /\ entry' = IF loading.s = "live" THEN g ELSE entry
          /\ pc' = [p \in Procs |-> IF p = g THEN "run"
                                    ELSE IF pc[p] = "shield" THEN "built"
                                    ELSE pc[p]]
          /\ got' = [p \in Procs |-> IF pc[p] = "shield" THEN g ELSE got[p]]
    /\ reborn' = \/ reborn
                  \/ /\ loading.s = "live"
                     /\ doc.s = "over" \/ (\E g \in Games : st[g] = "over")
    /\ loading' = None
    /\ UNCHANGED <<diverged, removal, armed, dbVars, game, snap>>

\* Mutant of LoadReturned: a finished game is cached without a removal task.
LoadReturned_Unscheduled(p) ==
    /\ pc[p] = "built"
    /\ LoadGameReturns(p, got[p], IF entry = None THEN got[p] ELSE entry)
    /\ got' = [got EXCEPT ![p] = None]
    /\ UNCHANGED <<removal, armed, instVars, loading, dbVars, snap, reborn>>

\* The awaiting callers of the construction task resume; a game that is over
\* by now is cached for a while.
LoadReturned(p) ==
    LET g == got[p]
    IN  /\ pc[p] = "built"
        /\ \/ /\ st[g] = "over" /\ entry = None
              /\ LoadGameReturns(p, g, g)
              /\ Schedule(g)
           \/ /\ st[g] = "over" /\ entry # None
              /\ LoadGameReturns(p, entry, entry)
              /\ UNCHANGED <<removal, armed>>
           \/ /\ st[g] = "live"
              /\ LoadGameReturns(p, g, entry)
              /\ UNCHANGED <<removal, armed>>
        /\ got' = [got EXCEPT ![p] = None]
        /\ UNCHANGED <<instVars, loading, dbVars, snap, reborn>>

-----------------------------------------------------------------------------
(* Playing *)

\* The websocket is registered: handle_game_user_connected().
Join(c) ==
    /\ pc[c] = "opened"
    /\ pc' = [pc EXCEPT ![c] = "joined"]
    /\ UNCHANGED <<instVars, cacheVars, dbVars, localVars, reborn>>

\* The request has no valid session, or was not for a websocket.
GiveUp(c) ==
    /\ pc[c] = "opened"
    /\ pc' = [pc EXCEPT ![c] = "away"]
    /\ game' = [game EXCEPT ![c] = None]
    /\ UNCHANGED <<instVars, cacheVars, dbVars, snap, got, reborn>>

Playing(c) == c \in PlayerSockets /\ pc[c] = "joined" /\ st[game[c]] = "live"

\* A move passes the compare-and-set of Game.save_move(), or finds itself
\* persisted already by another instance.
Move(c) ==
    LET g == game[c]
    IN  /\ Playing(c)
        /\ moves[g] < MaxMoves
        /\ ~diverged[g]
        /\ moves' = [moves EXCEPT ![g] = @ + 1]
        /\ \/ /\ doc = [s |-> "live", m |-> moves[g]]
              /\ doc' = [doc EXCEPT !.m = moves[g] + 1]
           \/ /\ doc.m = moves[g] + 1
              /\ UNCHANGED doc
        /\ UNCHANGED <<st, diverged, cacheVars, effects, pc, localVars, reborn>>

\* StaleMovePersistenceError in utils.play_move(): the board keeps the move,
\* the instance is dropped from the cache, the answer comes from another one.
StaleMove(c) ==
    LET g == game[c]
    IN  /\ Playing(c)
        /\ moves[g] < MaxMoves
        /\ diverged[g] \/ doc # [s |-> "live", m |-> moves[g]]
        /\ moves' = [moves EXCEPT ![g] = @ + 1]
        /\ diverged' = [diverged EXCEPT ![g] = TRUE]
        /\ \/ /\ entry \in {g, None}
              /\ entry' = None
              /\ pc' = [IF entry = g THEN StopCountdown(pc, g) ELSE pc
                        EXCEPT ![c] = "find"]
           \/ /\ entry \notin {g, None}
              /\ UNCHANGED <<entry, pc>>
        /\ UNCHANGED <<st, loading, removal, armed, dbVars, localVars, reborn>>

\* Mutant of EndGame: a player may end a game that is over.
EndGame_Unguarded(p) ==
    LET g == InstOf(p)
    IN  /\ IF p \in Games THEN pc[p] = "run" ELSE p \in PlayerSockets /\ pc[p] = "joined"
        /\ st' = [st EXCEPT ![g] = "over"]
        /\ pc' = [StopCountdown(pc, g) EXCEPT ![p] = "save_schedule"]
        /\ UNCHANGED <<moves, diverged, cacheVars, dbVars, localVars, reborn>>

\* The game ends in a handler of a player, or in a countdown or abandon task;
\* save_game() cancels the countdown.
EndGame(p) ==
    LET g == InstOf(p)
    IN  /\ IF p \in Games THEN pc[p] = "run" ELSE Playing(p)
        /\ st[g] = "live"
        /\ st' = [st EXCEPT ![g] = "over"]
        /\ pc' = [StopCountdown(pc, g) EXCEPT ![p] = "save_schedule"]
        /\ UNCHANGED <<moves, diverged, cacheVars, dbVars, localVars, reborn>>

SaveSchedule(p) ==
    /\ pc[p] = "save_schedule"
    /\ Schedule(InstOf(p))
    /\ pc' = [pc EXCEPT ![p] = "save_write"]
    /\ UNCHANGED <<instVars, entry, loading, dbVars, localVars, reborn>>

\* The final write has no filter.  Tasks go on to give up the instance.
SaveWrite(p) ==
    /\ pc[p] = "save_write"
    /\ doc' = [s |-> "over", m |-> moves[InstOf(p)]]
    /\ effects' = effects + 1
    /\ pc' = [pc EXCEPT ![p] = IF p \in Games THEN "check" ELSE "joined"]
    /\ UNCHANGED <<instVars, cacheVars, localVars, reborn>>

-----------------------------------------------------------------------------
(* Leaving the cache *)

\* finally_logic(): the socket is unregistered, the others are told.
Leave(c) ==
    /\ pc[c] = "joined"
    /\ pc' = [pc EXCEPT ![c] = "check"]
    /\ UNCHANGED <<instVars, cacheVars, dbVars, localVars, reborn>>

\* What p does when it is through with the game.
Gone(p) == [pc EXCEPT ![p] = IF p \in Games THEN "done" ELSE "away"]
Forget(p) == IF p \in Games THEN game ELSE [game EXCEPT ![p] = None]

\* maybe_remove_finished_game_from_cache_now(): remove_game_from_cache_now()
\* cancels the removal task and waits for it.  The task ignores this once it
\* is inside the cancelling of the countdown.
MaybeRemove(p) ==
    LET g == InstOf(p)
        evict == st[g] = "over" /\ entry # None /\ ~Held(g)
    IN  /\ pc[p] = "check"
        /\ \/ /\ evict
              /\ pc' = [pc EXCEPT ![p] = "evict"]
              /\ got' = [got EXCEPT ![p] = armed]
              /\ removal' = [h \in Games |->
                               IF h = armed /\ removal[h] = "sleep" THEN "none"
                               ELSE removal[h]]
              /\ UNCHANGED game
           \/ /\ ~evict
              /\ pc' = Gone(p)
              /\ game' = Forget(p)
              /\ UNCHANGED <<got, removal>>
        /\ UNCHANGED <<instVars, entry, loading, armed, dbVars, snap, reborn>>

\* _evict_game_from_cache(): the entry goes, whatever instance it holds.
EvictNow(p) ==
    /\ pc[p] = "evict"
    /\ got[p] # None => removal[got[p]] # "evict"
    /\ entry' = None
    /\ armed' = None
    /\ pc' = StopCountdown(Gone(p), InstOf(p))
    /\ game' = Forget(p)
    /\ got' = [got EXCEPT ![p] = None]
    /\ UNCHANGED <<instVars, loading, removal, dbVars, snap, reborn>>

\* remove_from_cache(): the keep time is over and nobody holds the game.  The
\* keep time (half an hour) outlasts a write and the opening of a websocket.
RemovalWakes(g) ==
    /\ removal[g] = "sleep"
    /\ \A p \in Procs : pc[p] \notin {"opened", "save_schedule", "save_write"}
    /\ entry = None \/ ~Held(g)
    /\ removal' = [removal EXCEPT ![g] = "evict"]
    /\ UNCHANGED <<instVars, entry, loading, armed, dbVars, pc, localVars, reborn>>

RemovalEvicts(g) ==
    /\ removal[g] = "evict"
    /\ entry' = None
    /\ removal' = [removal EXCEPT ![g] = "none"]
    /\ armed' = None
    /\ pc' = StopCountdown(pc, g)
    /\ UNCHANGED <<instVars, loading, dbVars, localVars, reborn>>

-----------------------------------------------------------------------------

Use(c) == \/ Open(c) \/ Join(c) \/ GiveUp(c) \/ Move(c) \/ StaleMove(c)
          \/ EndGame(c) \/ Leave(c)

Load(p) == LoadFromDoc(p) \/ LoadReturned(p)

Finish(p) == SaveSchedule(p) \/ SaveWrite(p) \/ MaybeRemove(p) \/ EvictNow(p)

Next ==
    \/ \E c \in Sockets : Use(c) \/ FindServed(c)
    \/ \E p \in Loaders : Load(p)
    \/ RestoreRead
    \/ Build
    \/ \E g \in Games : EndGame(g) \/ RemovalWakes(g) \/ RemovalEvicts(g)
    \/ \E p \in Sockets \cup Games : Finish(p)

Spec == Init /\ [][Next]_vars

\* Queries return, coroutines that are ready run, sleeps end.
Fairness ==
    /\ WF_vars(Build)
    /\ \A c \in Sockets : WF_vars(FindServed(c))
    /\ \A p \in Loaders : WF_vars(Load(p))
    /\ \A p \in Sockets \cup Games : WF_vars(Finish(p))
    /\ \A g \in Games : WF_vars(RemovalWakes(g)) /\ WF_vars(RemovalEvicts(g))

FairSpec == Spec /\ Fairness

-----------------------------------------------------------------------------
(* Properties *)

LiveGames == {g \in Games : st[g] = "live"}

\* Until the game ends there is one instance of it, however many requests and
\* the restorer load it at the same time (load_game_from_doc).
SharedConstruction ==
    (\A g \in Games : st[g] # "over") => Cardinality(LiveGames) <= 1

\* "A game can never acquire two independent in-process move locks"
\* (load_game_from_doc): while an instance is in play, or is being saved, there
\* is no other.
OneMoveLock ==
    Cardinality(LiveGames \cup
                {g \in Games : \E p \in Sockets \cup Games :
                                 pc[p] \in {"save_schedule", "save_write"} /\ InstOf(p) = g})
    <= 1

\* The result is applied twice only if an instance is built from a document
\* that was read before the game ended.
AppliedOnce == effects <= 1 \/ reborn

\* A persisted move is never taken back, though the final write of an instance
\* has no filter (Game.save_game), unless an instance was built late.
MovesKept == [][doc'.m >= doc.m \/ reborn]_vars

\* A finished game that nobody uses any more leaves the cache: "a game whose
\* viewers all leave still has to be released" (remove_from_cache).
Released ==
    \A g \in Games :
        []<>(entry # g \/ st[g] # "over" \/ \E c \in Sockets : pc[c] # "away")

=============================================================================
