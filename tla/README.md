# TLA+ models of the pychess-variants server

pychess-variants is a chess-variant server: an aiohttp application
(`server/`) that keeps games, seeks, tournaments and users in memory, stores
them in MongoDB, and talks to browsers (`client/`) over websockets. It is one
process with one asyncio event loop, so there are no data races, but there are
hundreds of `await`s: between two of them anything else may run. This
directory holds TLA+ models of the parts where that matters, TLC
configurations that check them on small instances, and TLAPS proofs of the
properties that matter most.

## 1. Inventory of the system

| Component | State it keeps | Operations | Hard behaviour |
|---|---|---|---|
| **Live game** (`game.py`, `wsr.py`, `draw.py`, `utils.play_move`) | board and move list, `status`, `result`, `saved`, `counted_as_active`, draw and takeback offers, `move_lock` | move, draw offer and answer, takeback offer and answer, abort, resign, flag claim, ceval report, more time, `save_game()` | handlers of several sockets interleave at every await; some endings take `move_lock`, some do not |
| **Stopwatch** (`clock.py`) | `secs`, `running`, `ply`, `color`, the countdown task | restart, stop, cancel, countdown; `CorrClock` for correspondence games | the task waits for the lock that the coroutine cancelling it may hold |
| **Presence** (`user.py`, `wsr.py`) | sockets per game, `abandon_game_tasks` | connect, disconnect, abandon | tasks overwritten, cancelled in the middle of a save |
| **Game cache** (`pychess_global_app_state.py`, `utils.load_game`) | `games`, `game_load_tasks`, `game_remove_tasks` | load, construct once, scheduled and immediate eviction | an instance can be evicted while a socket or a save still uses it |
| **Restart recovery** (`pychess_global_app_state.py`) | the database | restore live games before traffic, correspondence games in the background | documents read before and used after the game moved on |
| **Result side effects** (`game.py`) | `fx`, rating and count entries | final write, completion, recovery | crash between two of them |
| **Lobby** (`wsl.py`, `seek.py`, `game_api.py`, `utils.join_seek`, `utils.new_game`) | `seeks`, `invites`, seek slots | create, join, cancel, expire, invite, challenge | a seek is joined while a game id is awaited |
| **Auto pairing** (`auto_pair.py`) | `auto_pairings`, `auto_pairing_users` | enter, match, leave | one user matched twice |
| **Rematch** (`wsr.py`) | `rematch_offers`, `rematch_id` | offer, accept, reject | crossing offers |
| **Tournaments** (`tournament/`) | players, leaderboard, `ongoing_games`, `current_round`, pairing and player documents | join, withdraw, pause, clock, pair, `game_update`, finish, recovery | the clock task, organisers and ending games meet during a pairing |
| **Simuls** (`simul/`) | players, `ongoing_games`, status | join, approve, start, `game_update`, finish | games end while others are being created |
| **Fishnet** (`fishnet.py`, `ai.py`) | `fishnet_works`, `fishnet_queue`, workers | acquire, move, analysis, abort, reissue | the same work answered twice, late, or never |
| **Bughouse** (`bug/`, `client/two-board/`) | two boards, four players, a queue of move writes, pending moves in the client | move, reconnect, end | final write against queued writes, resent moves |
| **Studies** (`study/`) | chapters with revisions, rooms | tree edits, storage, analysis | stale revisions |
| Forum, blogs, inbox, teams, puzzles, users, views, rules, browser display | documents; positions | single requests | none that involves several actors |

How they interact. A browser opens a lobby socket (`wsl.py`), a seek becomes a
`Game` (`utils.join_seek`, `utils.new_game`), the players open round sockets
(`wsr.py`) which hold the `Game` instance for their lifetime. Moves go through
`utils.play_move` and `Game.play_move` under `Game.move_lock`; the stopwatch
and the abandon tasks are coroutines of their own which call
`Game.game_ended`. Every ending reaches `Game.save_game`, which writes the
document, updates ratings and counts, calls `Tournament.game_update`
or `Simul.game_update`, and schedules the instance's removal from the cache.
Tournaments and simuls create games directly from their clock tasks. Fishnet
workers and bots play through the same `play_move`.

What would make each part correct:

* a **game** is decided once, keeps its outcome, is stored as decided, is
  counted once for ratings; no move is played after the end; a flag falls only
  on the side whose time is used up; every handler returns;
* the **cache** never holds two instances of a game that can both be played,
  and releases every game nobody uses;
* a **seek** leads to at most one game and an auto-paired user to one opponent;
  a finished game has at most one rematch;
* a **tournament** scores each result once per player, pairs nobody twice in a
  round, and finishes only after its last game; so does a **simul**;
* **fishnet** work is answered, given up or dropped, and an engine's move is
  played only in the position it was computed for.

`PROJECT.json` lists under `hazards` the lines where each of these could fail.

## 2. Plan

The modules, in the order in which they were written. None composes another:
each takes what it needs of its neighbours as a coarse step, which the
neighbour has in detail.

1. `RoundGame`, with `GameRecord` as its abstract specification: the live game,
   its stopwatch, its players' presence.
2. `GameCache`: loading, sharing and evicting the instances of a game; the
   restart. A move and the end of a game are single steps here.
3. `Fishnet`: the jobs of engine workers for one game.
4. `Swiss`: a tournament from round to round, with the effects of its results
   and a process that dies. A game is started and ended, no more.
5. `Lobby`: seeks, challenges, automatic pairing, rematch. A game is made and
   ended, no more.

Each has a proof module about its safety properties (section 6). What a next
step would be: the simul (`simul.py:597` loses the race that `Swiss` describes
for a round: there the players are told of a game before the others exist),
`CorrClock`, joining and withdrawing in `Swiss`, then the bughouse server with
its queue of move writes. Bounds stay at two or three actors per kind: every
hazard listed needs at most two coroutines racing about one piece of state, and
a third one to observe it.

## 3. The modules

### RoundGame

One `Game` object of two humans on one board. A step is what one coroutine does
between two awaits; `pc[p]` names the await at which process `p` is
suspended. Processes are the round websockets (`Conns`, each with the player
who opened it), the abandon tasks (`Tasks`) and the countdown task
(`ClockTask`). A websocket handles one message at a time, so its process is
`idle` between messages, as in `websocket_utils.process_ws`.

| State | Code |
|---|---|
| `ply`, `status`, `result`, `saved`, `counted` | `board.ply`, `status`, `result`, `saved`, `counted_as_active` |
| `drawOffers`, `takebackOffer` | `draw_offers`, `takeback_offer` with its ply |
| `lock` | holder of `move_lock` |
| `running`, `clockPly`, `expired` | `Clock.running`, `Clock.ply` (its parity is `color`), `secs <= 0` |
| `timeUp` | `authoritative_clock_elapsed_ms()` has used up the stored clock |
| `restored` | the game was loaded after a restart and no move or takeback has been stored since, so that downtime counts |
| `flagPly`, `newData`, `rewind` | local variables of `countdown()`, `save_game()`, `takeback()` |
| `abandonTask` | `User.abandon_game_tasks[game.id]` of each player |
| `gcnt` | this game's share of `app_state.g_cnt[0]` |
| `doc`, `effects` | the game's document; how often ratings and counts were updated |
| `evicted` | `play_move` found a persistence conflict and dropped the instance |
| `cutSave`, `returned`, `lost` | history: a save was cancelled; tasks whose player came back; tasks whose entry another one took |

The position is the number of moves played. The kinds of game differ in what
the code allows: takebacks and more time only in casual games, first moves
timed only in tournaments, short games deleted except in tournaments. More
time is offered to players by the client in casual, human, non-tournament
games only (`client/roundCtrl.ts:384-390`); the server itself does not check,
the model assumes the client's rule.

A game starts new, or loaded at one of `LoadPlies` by a process that has just
come up (`LoadedClock`); a first move that arrives after its clock ran out in
the meantime ends it (`MoveExpired`).

`save_game()` has four steps, one for each of its waits that somebody else can
use: the countdown task is gone, the count of games is written, the document
lands (`SaveWrite`), the result has been applied (`SaveEffects`). Between the
last two the document is closed and nothing is applied yet. `Clock.cancel()`
sends the countdown task a cancellation and waits until the task has taken it
(`ClockCancelled`), at whatever await it is, the line for `move_lock`
included.

A player who comes back cancels the abandon task in his entry and awaits it
(`Connect`). While that task waits for the countdown task the cancellation is
swallowed (`clock.py:65-70` suppresses `CancelledError`), so the save goes on
and the websocket waits for its end; at a later await the save is cut off
(`cutSave`), and a write or effects on their way may still have happened. A
close of the last lobby socket starts an abandon task as well (`LobbyLeft`).

Simplifications:

* a broadcast that is followed by no further state change is folded into the
  step before it;
* the effects of a result (ratings, counts, crosstable, tournament) are several
  awaits; one step stands for them, since `Swiss` takes them apart. A
  cancellation among them has happened before them or after them;
* `ClockClaim` always separates the reading of the loser from the acquisition
  of the lock, although `asyncio.Lock` does not suspend when the lock is free;
* local variables are reset once they are dead.

### GameRecord

What a game is for the rest of the server: undecided, then decided with one
outcome (`Decide`), then stored with that outcome (`Store`) or discarded
(`Discard`), and only after the store, by a step of its own, applied to ratings
and counts, at most once (`Apply`): `game.py:1051-1053` promises this order. A
restart may come between the two. `RoundGame` instantiates it as `Record` with
a refinement mapping from status, document and effects.

### GameCache

One game id and all the `Game` objects that may be built for it. Every object
has a board, a `move_lock`, a countdown task and a `saved` flag of its own, so
what matters is how many of them are in play, and which one a websocket holds.

| State | Code |
|---|---|
| `entry`, `loading`, `armed` | `games[id]`, `game_load_tasks[id]`, `game_remove_tasks[id]` |
| `removal` | the state of each object's removal task: asleep, or inside `_evict_game_from_cache` |
| `st`, `moves`, `diverged` | each object's status, board, and whether it holds a move the document lacks |
| `doc`, `effects` | the document; how often a result was applied |
| `game`, `snap`, `got` | local variables of `round_socket_handler()`, `load_game()`, `remove_game_from_cache_now()` |
| `reborn` | history: a live object was built of a game that had ended |

The steps of `load_game()` between its awaits are actions (`Open`,
`FindServed`, `LoadFromDoc`, `Build`, `LoadReturned`), and so are those of the
end of a game (`EndGame`, `SaveSchedule`, `SaveWrite`) and of the two ways out
of the cache (`MaybeRemove` with `EvictNow`; `RemovalWakes` with
`RemovalEvicts`). A move and the decision of a game, which `RoundGame` models
in detail, are single steps here. The abandon task of an object takes the same
path as its countdown, which stands for both. Left out: pending analyses in
`game_is_held()`, the deletion of games shorter than three plies, callers with
`cache_finished=False`, bot queues and idle anonymous users.

### Fishnet

The jobs of one game of a human against the engine. The queue of the bot makes
a job of every game state (`ai.py`); a worker acquires it, answers, aborts, or
is never heard of again; `get_work()` hands a silent worker's job out again.

| State | Code |
|---|---|
| `stack`, `ended` | `board.move_stack`, `status` |
| `by` | which job each move on the board is the answer of (history) |
| `line` | `move_lock`: its holder and, in order, the coroutines that wait |
| `human` | the handler of the human's move or takeback |
| `events` | game states in the bot's queue |
| `works`, `moves`, `time` | `fishnet_works`: kind, move stack, time of each job |
| `queued` | entries of `fishnet_queue` |
| `failures` | stale, abort, engine and invalid-answer counters |
| `pc`, `job` | what each worker, or the request it has made, is doing |

`asyncio.Lock` is fair and its next holder runs before anything else happens
(`Settled`): without both, a job could be played in more positions than it can.
Left out: what a worker is capable of, its heartbeat, variants whose AI is
switched off, analyses of studies, the cache of variant payloads. A takeback of
two plies is two steps, as in the code.

### Swiss

A Swiss tournament: `clock()`, `start_next_round_now()`, `pair_fixed_round()`,
`create_games()`, `finalize()` in memory and in Mongo; the end of a game from
the final write to `_finalize_finished_game_once()`; a process that dies at any
await; `load_tournament()` with its recoveries, its rollback of an incomplete
round and its repair of points.

| State | Code |
|---|---|
| `kind`, `who`, `rnd` | each entry: a game, a bye or an absence, of whom, of which round |
| `tdoc`, `gdoc`, `pdoc`, `scored`, `away` | documents of the tournament, games, pairings, players |
| `fx`, `marks`, `counts` | the game's `fx`, the users' `tournamentGameEffectIds`, their counts |
| `round`, `next`, `pending`, `inProgress` | `current_round`, the flags of the next round, the mark of a pairing in progress |
| `games`, `points`, `free`, `paused`, `ongoing` | the players in memory |
| `gpc`, `todo` | how far the end of each game has got |
| `ppc`, `plan`, `rest`, `cur`, `made` | how far each pairing coroutine has got |
| `phase`, `rolling` | how far the start of the process has got |
| `ghost`, `torn`, `raced` | history: the disturbances of section 8 |

A result, a point, a tie-break are abstracted to the entry they are for, so
that `points[p]` being a prefix of `games[p]` says that every point stands where
the code looks for it. Who plays whom is left to the external pairing engine.
Assumed: a round's games end after the round is stored, because the players
learn of them by `publish_pairings()`; the interval between rounds is longer
than the write of `next` and than `delayed_free()`. Left out: players who join,
leave, pause or come back, forbidden and manual pairings, bans, chat,
spotlights, an abort by an administrator, round-robin and arena.

The repair of points (`Repair`) infers the missing ones as far as the pairings
tell, and makes a bye without a round of each surplus point of a bye, up to the
first that is none. The alignments before and after it (`tournaments.py:447`,
`:475`) do nothing for a player of whom a game carries a round; one with points
and no games gets from them the byes he gets from the loop.

### Lobby

How two users come to a game. All ways end in `join_seek()` and `new_game()`,
which awaits a new id (`newgame`) and then an insert (`insert`).

| State | Code |
|---|---|
| `online`, `pool`, `ready`, `playing` | lobby sockets, `auto_pairing_users`, `ready_for_auto_pairing`, `game_in_progress` |
| `kind`, `creator`, `target`, `second` | each seek; `second` is `player2`, never vacated |
| `listed`, `status`, `pending` | `app_state.seeks`, `challenge_status`, `pending` of an open seek |
| `gseek`, `over` | the seek each game was made of; the games that have ended |
| `lock`, `offers`, `rematch` | `move_lock`, `rematch_offers`, `rematch_id` of the finished game |
| `pc`, `seek`, `mate` | where each tab waits, with which seek or other user |

A tab is one coroutine that serves the messages and requests of a user, in the
lobby, in a round or on any other page. A user leaves only when none of his tabs
has a message in work, since the websocket's `finally` comes after its handler;
the request of a refusal is none of its messages.

A challenge is refused in two steps: `Decline` checks that it is active, then
the body of the request is awaited, then `Declined` writes the status, or does
nothing when the body is no form. It is accepted by its target on any page, or
by whoever is in the lobby, since `handle_accept_seek()` does not compare the
target (`wsl.py:628-654`). That handler awaits the database at line 644 only for
a user with a game in progress, whom it then refuses or, if the game turns out
to be over, serves as one without: check and seat are one step. `new_game()` may
fail once it has its id (`NewGameFails`): the seek is removed, no game is made.

 Whether two users suit each
other (rating, variant, time, blocks) is left open, so every pairing that some
preferences allow is a behaviour. Left out: bots, invitations by link,
bughouse, correspondence, anonymous users, the limit of seeks, a second lobby
socket of a user, seeks kept over a restart.

### MCRoundGame, MCGameCache, MCFishnet, MCSwiss, MCLobby

Instantiate sockets, tasks, objects, workers, players and tabs for TLC.

### The proof modules

| Module | Proves |
|---|---|
| `RoundGameProof` | types, one save, fresh offers, grace of an absent player with any number of tabs |
| `RoundGameRecordProof` | the refinement of `GameRecord`, the document, the count, flags, moves |
| `GameCacheProof` | types, shared construction, results and moves applied once |
| `FishnetProof` | types, one played move per job |
| `SwissProof` | lemmas about sequences, types, the effects of a result |
| `SwissStandingsProof`, `SwissRoundsProof` | the invariant of the standings: what it says, the entries and a restart; the steps of a round and the theorems |
| `LobbyProof` | types, one game per seek, challenges, rematches |

Each extends the module it is about; section 6 says what they show.

## 4. The runs

| Run | What it asks | Result |
|---|---|---|
| `round_ranked` | rated and tournament games, new or loaded; two sockets of White with two abandon tasks, one of Black; up to 3 plies | all ten properties hold (789 k states) |
| `round_fair` | liveness, and the offers of takebacks, in casual and tournament games with one socket per player | all four properties hold (152 k states) |
| `round_takeback_race` | "a concurrent move or game end cannot turn an earlier eligibility result into a stale takeback" (`wsr.py:1005`) | violated: draws and abandonment end the game without the lock |
| `cache` | a player, the restorer and the removal tasks; two objects; one move; persistence conflicts | all five properties hold |
| `cache_two_locks` | "a game can never acquire two independent in-process move locks" (`utils.py:198`) | violated: a finished game is evicted before its final write has landed, and the next load builds a live object |
| `fishnet` | two workers, two jobs, three plies, all four limits | all four properties hold |
| `fishnet_position` | "Allow the fishnet move only if the server-side move stack is still the one used to create the work item" (`fishnet.py:1233`) | violated: the stack is compared before the lock is awaited |
| `swiss` | three players, two rounds, one director, one crash at any await | all eight properties hold |
| `swiss_rollback` | interrupted rounds are rolled back or repaired (`docs/Swiss-RR-TODO.md:82`) | violated: the clock of a restored game goes on after its round was rolled back |
| `lobby` | three users in four tabs, two seeks, two games | all four properties hold (1.6 M states) |
| `lobby_late_decline` | "TerminalWithoutGame: canceled / declined / expired" (`docs/game-creation-flows.md:954`) | violated: a refusal is written over an acceptance that came while its request was read |
| `lobby_two_games` | "Prevent users to start new games if they have an unfinished one" (`wsl.py:818`) | violated: a user is paired twice while the first pairing awaits its id |

The properties:

* `SavedOnce`, `ClosedDocument`, `RecordSpec`: one save, one outcome, which is
  applied once and after it is stored. `ClosedDocument` and `LobbyCount` except
  a save that was cut off (section 8).
* `DurableWhenIdle`: between moves the database holds the game in play.
* `LobbyCount`: the count of games in play is right whenever nothing is in progress.
* `NeverSelfStale`: the compare-and-set of a move never fails against the
  instance's own writes.
* `MovesOnlyLive`, `FlagOnTime`: no move in a finished game, no flag on an
  outdated turn.
* `GraceRespected`: an abandon task ends the game only if its player has not been
  back since it started to wait, or if another task took its entry. With two
  tabs the second case occurs (section 8); the property says that nothing else
  lets a task escape.
* `TakebackOfferFresh`: no takeback offer outlives its position.
* `HandlersReturn`, `EventuallyClosed`, `EventuallyFlagged`: no handler waits for
  ever, though `save_game()` holds `move_lock` and awaits a task that may wait for
  it; a finished game is stored and its result applied, also if the countdown
  task ends it; a clock that stays out of time ends the game, through
  takebacks and more time too. `EventuallyClosed` leaves casual games out.
* `SharedConstruction`: until the game ends there is one object of it, however
  many requests and the restorer load it together.
* `AppliedOnce`, `MovesKept`: a result is applied once and a persisted move is
  never taken back, unless a live object was built after the end (`reborn`).
  `cache_two_locks` shows that this exception is reachable; the two properties
  say that it is the only cause.
* `Released`: a finished game that no websocket uses leaves the cache.
* `JobPlayedOnce`: however often a job is handed out and answered, one answer
  is played. `EngineMoveForItsPosition` would say more, that it is played in the
  position it was computed for, and fails.
* `JobsEnd`, `EngineTurnEnds`: a job leaves the table and the human does not
  wait for ever, though workers die and refuse.
* `PointsMatchGames`, `FinishedComplete`, `OneEntryPerRound`: each point stands
  at the game it was given for, a finished tournament is complete, no round is
  skipped or stored twice, unless the code was disturbed in one of the three
  ways that section 8 names. `StandingsMatch` is the first one without that
  exception, and fails.
* `ResultsCounted`: without exception: a result is counted once for each player
  and for both.
* `RoundsInOrder`, `NoShowStaysOut`: a round is stored only when the earlier ones
  are over; who did not show up is not paired again. This run has no exception
  to them; section 8 has one to each with more directors or crashes.
* `TournamentEnds`: liveness of a tournament with automatic rounds.
* `OneGamePerSeek`, `OneRematch`: what `new_game()` must keep while it awaits an
  id, and when it fails.
* `AcceptedHasGame`: a challenge marked as accepted has a game, and one that has a
  game is never open or cancelled again. That it may be marked as declined is
  what `TerminalWithoutGame` shows.

In a casual game the takeback race breaks several of the record properties:
`round_takeback_race` shows it, `round_fair` checks for casual games what still
holds, and the others are checked on `round_ranked`.

## 5. Bounds and fairness

`RoundGame`: `MaxPly` bounds the moves that are requested: three plies reach the
untimed first moves, the timed third one and the limit below which a game is
deleted. `MinClaimPly` and `MinCevalReportPly` are the code's thresholds scaled
down with it. Two sockets of one player and one of the other, and two tasks of
the first, are the least number for which an entry of `abandon_game_tasks` can
be overwritten and a second tab can race the first: `round_ranked` has them.
The two sockets, and the two tasks, are interchangeable (`WhiteSymmetry`); that
run checks invariants and properties of steps only, for which symmetry is sound.
`LoadPlies = {2}` loads a game at its first timed ply. Effects are counted
without a bound; the invariant bounds them.

`GameCache`: two objects are enough for every property: the first one is in
use, over or stale while the second is in play. `Games` bounds the objects that
are built: a construction task beyond them never ends, which is why these runs
do not check deadlock. `MaxMoves` bounds moves; one puts an object ahead of,
at, or behind the document. The violation run adds a spectator and drops moves.
A removal task sleeps half an hour: it does not wake while a game is being
written or a websocket is being opened; nothing else is assumed about time.

`Fishnet`: `MaxJobs` bounds the ids, `MaxPly` the plies from which the human
does not move. Two workers and two jobs let every job be held twice and one job
be made for a position that was taken back; the limits are scaled down to one
or two, so that each is passed and, for two of them, also nearly passed. The
violation needs a third job. Nothing remains to be done when the jobs are used
up, so deadlock is not checked.

`Swiss`: three players are the least for which somebody rests in every round,
so that byes, absences and no-shows occur beside a game; two rounds the least
with a next one. `MaxEntries` bounds the games, byes and absences ever made,
those of a round that is rolled back included; a coroutine that would need
another one stops. One crash may come at any await of the tournament; a second
one, which may interrupt the recovery itself, only adds the torn points of
section 8 (explored with symmetry, too large for the run). A tournament that is finished stops, and so does one in manual
mode whose director does nothing, so deadlock is not checked.

`Lobby`: `MaxSeeks` and `MaxGames` bound the seeks and games ever made (`Room`
refuses a request beyond them). Two of each let every two ways of making a game
meet; a second tab of one user lets him accept while he is being paired. The
sets of seekers, challenges, pool users, rivals and users who leave only say who
does what in an instance. The two tabs of that user are interchangeable
(`TabSymmetry`), and the run checks invariants only. Deadlock is not checked since ids run out.

Fairness (`Fairness` in `RoundGame`): the event loop resumes every coroutine
whose await has completed, broadcasts are bounded by a send timeout, database
calls return, sleeps end: weak fairness on every continuation. `asyncio.Lock`
serves its waiters in order, so a coroutine that waits for a lock that is
released again and again gets it: strong fairness on the steps that acquire it.
No fairness on what players do. `GameCache` has weak fairness on the answers of
the database, the construction task, coroutines that are ready and the removal
tasks, and none on sockets. `Fishnet` has the order of the lock in its state
and needs weak fairness on the human's handler and on what else goes on without
him: coroutines, time, and workers, one of which polls and is through with a
job some day, by an answer or by silence. `Swiss` has weak fairness on the
event loop as a whole: something that is ready runs, clocks of games run out, a
process that died is started again; a director need not do anything. `Lobby`
has none: it promises no user an opponent.

## 6. What is proved

Every theorem holds for all values of the constants that satisfy the `ASSUME`s
of the module, each of which TLC evaluates: any number of sockets, tasks,
objects, workers, jobs, players, rounds, crashes, users, tabs and seeks.

**RoundGame.**

* `TypeCorrect == Spec => []TypeOK`. `TypeOK` is not inductive: that `gcnt`
  stays in `{0, 1}` needs that it equals `counted`; that plies stay within
  bounds needs that the process which is about to push a move holds the lock
  and was let in below `MaxPly`; and that the countdown's ply is in range needs
  that the clock is never ahead of the board. `RoundGameProof` proves the
  inductive `TypeInv`, the conjunction of `TypeOK`, `LockHeld` (a process inside
  a locked section holds the lock), `CountInStep` and `PliesLeft`.
* `SaveCorrect == Spec => []SavedOnce`. The inductive `SaveInv` adds that
  nothing was applied before `saved` was set.
* `OfferStaysFresh == Spec => []TakebackOfferFresh`. A move clears the offer
  before it is pushed, a takeback before it pops, and while either holds the
  lock nobody makes one: an offer is one of the present position inside the lock
  too (`OfferInv`), which is more than the property asks for.
* `GraceKept == Spec => GraceRespected`, for any number of tabs. A task that waits
  is the one in its player's entry, and then he has not been back since, or it
  has lost that entry to another task (`EntryInv`): the close of another tab
  overwrites it, the end of any task of the player drops it. `ReturnedInv` keeps
  the two histories apart: a task in an entry has not been missed.

The rest is for games without takebacks (`"casual" \notin Kinds`): with them
these properties are false, as `round_takeback_race` shows.

* `ImplementsRecord`: `Spec` implements `GameRecord`. The inductive `RankedInv`
  states where in its save each finished game is, that nothing but that save
  can write the document of a finished game, and that from the landing of the
  write to the end of the effects the document is the outcome: so the step that
  applies the result, or the return that cuts it off, is an `Apply` or a
  stutter, and never comes before the `Store`.
* `DocumentClosed`, `IdleIsDurable`, `LobbyCounts`, `NotSelfStale`. The move
  and the end of a game are written by different coroutines. The inductive
  `StoreInv` of `RoundGameRecordProof` says whose write is missing while they
  overlap: the document of an open game is one move behind exactly while that
  move's handler has yet to write it (`StoredMoves`), the game is counted as
  soon as a move is on its way (`Counting`), and the document of a decided game
  is open only while a coroutine is inside `save_game()`, and its result is
  applied or on its way (`Closing`), unless a return has cut the save off.
* `FlagsOnTime`, `MovesLive`. The countdown task reads whose time is up before
  it waits for the lock; `Timed` says that a clock that runs and is out of time
  when the lock is had is still the clock that was read.

**GameCache.** `ConstructionShared`, `ResultAppliedOnce`, `PersistedMovesKept`,
`TypeCorrect`. `PersistedMovesKept` speaks of the number of moves in the
document; that a stored end is not taken back is not among the theorems. While no
instance is over, a live one is the cached one and
agrees with the document, and whoever holds a document or builds from one while
nothing is cached holds the current one; that, not the cache lookup, is why
construction is shared across awaits. Afterwards a result or move is in danger
only from an instance that is live, and one that is built then sets `reborn`.
The part of `TypeOK` that is no type is that a result is applied at most once
for each object: an object that is over is saved by the one coroutine that ended
it, and each application belongs to an object of its own (`OnceEach`). That the
objects are finitely many (`GamesAssumption`) is what lets them be counted.

**Fishnet.** `PlayedOnce`, `TypeCorrect`. The engine has the odd positions, so a
job made for `n` plies is played on the ply after the first odd position of at
least `n` plies or not at all (`Place`): two plies cannot both be the answer to
one job. That needs the line for the lock: whoever waits in it waits behind at
most one message of the human (`Once`, `Finds`), and a move of the human finds the
position it was sent for (`Turn`). `TypeOK` bounds numbers by what causes them,
and needs `BInv`, on top of that invariant. A failure at the limit sends its
worker to record it, so a pending job has no more failures than its limit and
the workers on the way (`Recording`); once the job is gone only those who are
playing its move can add one (`Trying`), and these are others. Entries of the
queue are paid for by failures below the limit (`Queued`). A move of the human
needs an id that is left, and the id of an answer is that of its own job
(`Asked`). The board ends by the rule of turns (`Short`), the line for the lock
because nobody stands in it twice. That the workers are finitely many is assumed
(`WorkersAssumption`).

**Swiss.** Two invariants, one on top of the other.

* `IInv` speaks of no order, and gives `ResultsCountedHolds` and `TypeCorrect`.
  It says how far each game has got: from the moment its effects are recorded
  as applied, its coroutine, its `fx` and its pairing document all come after
  the marks of both users (`Effects`); and the coroutines that pair a round keep
  out of the way: a game that is being created has no coroutine and no result
  and belongs to one of them (`Creating`), none runs before the process is up
  (`Quiet`). Crashes and every step of the recovery are among the steps.
* `Standing` adds `Disturbed \/ SInv` and gives `PointsAtTheirGames`,
  `RoundsOneByOne`, `NoShowsStayOut`, `FinishedWhole`, `OneEntryEach`. The
  sequences of games and points of a player always rise (`Sorted`): entries are
  given numbers as they are made, and a later round has later ones (`Ordered`).
  So a sequence is given by its members, and each step can be argued about sets;
  the lemmas `AscendingIs`, `AtIs`, `RisingPrefix` and those around them take
  one to the other, for sequences of any length. What the sets are depends on
  who has got how far:
  - `Book`: every entry is of a round that is stored or of the one in progress,
    the earlier rounds are settled, in a stored round each player has exactly
    one entry, and a no-show is in no later one;
  - `Docs`: a point in a player's document has a document of its game or of its
    pairing, or is about to be rolled back;
  - `Remembered`, `Pointed`, `Documented`, `Playing`: the games and points in
    memory, those in the player documents, and the games that are on, in every
    phase of the start, the rollback and the recovery, and while a game is
    between its final write and its last effect;
  - `Registers`, `Solo`, `Opening`, `Fills`, `Planned`: only one coroutine
    pairs, what it has made belongs to its round, what it has yet to make
    belongs to players who have nothing in this round.

  All five are about undisturbed behaviours. `PointsMatchGames`,
  `FinishedComplete` and `OneEntryPerRound` have the exception in their
  statement: behind a ghost or a torn rollback the points do not stand at
  their games, as `swiss_rollback` shows. `RoundsInOrder` and `NoShowStaysOut`
  are proved with it, though TLC checks them without: they are false with more
  crashes or directors than the run has (section 8).

**Lobby.** `TypeCorrect`, `OneGamePerSeekHolds`, `AcceptedHasGameHolds`,
`OneRematchHolds`. The tab that awaits an id has the second seat of its seek,
no other tab awaits one for the same seek, and no game of it exists yet
(`SeatInv`). The second seat of a seek is never vacated, so a challenge that
has a game can be answered again only by a refusal that was checked before:
everybody else looks at the status in the step that writes it. Hence
`AcceptedHasGame`, which is inductive with these, says "accepted or declined". The
tab that holds the lock of the finished game is the only one whose rematch is not noted
yet.

Only model-checked: the liveness properties `HandlersReturn`,
`EventuallyClosed`, `EventuallyFlagged`, `Released`, `JobsEnd`,
`EngineTurnEnds`, `TournamentEnds`, since their fairness and `ENABLED` are out
of the prover's reach; `RoundsInOrder` and `NoShowStaysOut` for a disturbed
tournament of one director and one crash; and the six properties that fail, whose counterexamples are
behaviours of the small instances.

## 7. Not modelled

Berserk, byoyomi periods, Janggi's set-up, manual counting, spectators and
chat do not decide games or only change how the clock is filled. A ban ends the
games of a user as abandoned (`login.py:325-343`), without the lock, as the
abandon task does; it is left out. Ratings are
floating-point. Board rules come from an engine library. Views, translations,
forums, blogs, puzzles and notifications are single requests on single
documents. Bots play through the same path as humans, from a stream of HTTP
requests instead of a websocket. Arena and round-robin tournaments share the
end of a game and the recovery with Swiss ones but pair in another way. Simuls,
the correspondence clock, bughouse and studies are separate pieces of the same
kind as those modelled; section 2 says in which order they would be added. What
each module leaves out of its own component is listed in section 3.

## 8. Observations

What the code does that no run states, met while modelling.

* *More time.* `handle_moretime()` (`wsr.py:1286`) restarts a clock that was
  never started, so that an untimed first move gets a deadline and the game is
  aborted, which `clock.py:82` wants to avoid.
* *A cut save.* A returning player cancels and awaits his abandon task
  (`wsr.py:1239`) wherever it is, also inside `save_game()`; `saved` is set, so
  nobody does the rest: the document stays open, against `game.py:806`, or is
  closed with a result that is never applied. `cutSave` marks these states; the
  properties about the document and the count except them, so none of them
  would catch the loss. A restart repairs the effects of tournament games only.
* *A second tab.* Each tab that closes starts an abandon task of its own and
  stores it under the same key (`wsr.py:342`); the one that was there can no
  longer be cancelled, and ends the game if the player happens to be away when
  it wakes up, though he has been back since (`user.py:414-424`). The end of one
  task also drops the entry of another. `GraceRespected` excepts such tasks
  (`lost`) and no others.
* *Two objects.* A websocket resolves its game (`wsr.py:168`) several awaits
  before it is counted as audience (`wsr.py:1202`). In between the game may be
  evicted; the next socket gets another object.
* *Lost jobs.* `_drop_terminal_work_failure()` and the end of an analysis delete
  a job after an await (`fishnet.py:790`); if another request has deleted it,
  `KeyError` ends the request (`pc = "error"`).
* *Adjudication elsewhere.* A job that has failed too often loses the game for
  the engine (`fishnet.py:775`) without a look at the position: its move may be
  on the board by then, or have been taken back.
* *Ghosts.* The games of a round that is rolled back were restored with their
  clocks (`swiss_rollback`); one that ends later gives points (`ghost`).
* *Torn rollbacks.* The rollback deletes pairings before it writes the players.
  If the process dies in between, the points of a bye or an absence are stored
  without a pairing (`torn`); a later restart makes byes of those of byes. The
  point also shifts the index by which the recovery looks for the result of a
  game (`tournament.py:2192`): it may find it applied, and then does not write
  that the loser did not show up, who is paired again (three crashes).
* *Two pairings.* `start_next_round_now()` takes the next round and awaits its
  pairing while the clock task still sees no game in play (`tournament.py:1368`):
  in the last round the clock finishes the tournament meanwhile, and of two
  directors the second one, after the clock has announced the round again,
  starts the round after it (`raced`), so that a round is stored before the one
  before it is over.
* *Pool.* `find_matching_seek()` (`auto_pair.py:141`) looks at neither the seats
  nor the status of a seek: a user is taken out of the pool for a seek that is
  occupied and told nothing, and a challenge that was declined or cancelled can
  still be joined. `find_matching_user_for_seek()` does not ask whether a seek
  is rated.
* *Answers to a challenge.* One that is declined or cancelled while `new_game()`
  awaits its id becomes accepted and has a game. The other way round, which
  `lobby_late_decline` shows, one that has been accepted becomes declined. One
  whose game cannot be made is gone, and nobody is told.
* *Anybody's challenge.* The lobby's accept message serves any user, also one a
  challenge is not meant for; only the list of seeks he is sent keeps him from it.
* *`game_in_progress`.* The end of a game clears it for both players, also if
  they are in another game by then (`game.py:1556`). Leaving one of two lobby
  sockets during a game marks all seeks of the user as pending (`wsl.py:223`).
