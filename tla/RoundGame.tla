----------------------------- MODULE RoundGame -----------------------------
(***************************************************************************)
(* One live one-board game of two human players (server/game.py) with      *)
(* everything that acts on it on the asyncio loop: the websocket handlers  *)
(* of server/wsr.py, the move path of server/utils.py, draw.py, the        *)
(* countdown task of clock.py and the abandon tasks of user.py.            *)
(*                                                                         *)
(* The event loop is single-threaded: what a coroutine does between two    *)
(* awaits is one step.  pc[p] names the await at which process p is        *)
(* suspended.  An await on a broadcast or on a Mongo call separates two    *)
(* steps; a Mongo write takes effect in the step that resumes its caller.  *)
(*                                                                         *)
(* The position is abstracted to the number of moves played: every writer  *)
(* of the move list holds move_lock, so inside one Game instance two       *)
(* positions of the same length are never in competition.                  *)
(***************************************************************************)
EXTENDS Integers, FiniteSets

CONSTANTS
    White, Black,       \* wplayer and bplayer
    Conns,              \* round websockets that may be open at the same time
    Tasks,              \* abandon_game tasks that may exist at the same time
    Owner,              \* the player of each websocket and of each task
    ClockTask,          \* the countdown task of the game's stopwatch
    None,               \* no process, no task, no offer
    Kinds,              \* the kinds of game considered
    LoadPlies,          \* plies a game may have when the server loads it at start
    MaxPly,             \* bound: no move is requested from this ply on
    MinClaimPly,        \* no repetition to claim before this ply
    MinCevalReportPly   \* MIN_CEVAL_REPORT_PLY

Players == {White, Black}
Procs == Conns \cup Tasks \cup {ClockTask}

ASSUME PlayersAssumption == White # Black /\ None \notin Players
ASSUME ProcsAssumption ==
    /\ Conns \cap Tasks = {}
    /\ ClockTask \notin Conns \cup Tasks
    /\ None \notin Procs
    /\ Owner \in [Conns \cup Tasks -> Players]
ASSUME KindsAssumption == Kinds \subseteq {"casual", "rated", "tournament"}
ASSUME BoundsAssumption ==
    /\ MaxPly \in Nat
    /\ LoadPlies \subseteq 0..MaxPly
    /\ MinClaimPly \in Nat
    /\ MinCevalReportPly \in Nat

Live == {"CREATED", "STARTED"}
\* MATE stands for every decisive end found on the board (MATE, VARIANTEND,
\* STALEMATE, CLAIM); DRAW for every drawn one.
Ended == {"ABORTED", "MATE", "RESIGN", "DRAW", "FLAG", "ABANDON", "CHEAT"}
Status == Live \cup Ended
Result == {"*", "1-0", "0-1", "1/2-1/2"}

\* LOSERS
LoserStatus == [abandon |-> "ABANDON", abort |-> "ABORTED",
                resign |-> "RESIGN", flag |-> "FLAG"]

VARIABLES
    \* the Game object
    kind,               \* casual or rated, or of a tournament
    ply, status, result, saved, counted, drawOffers, takebackOffer,
    lock,               \* holder of move_lock
    \* its stopwatch
    running,            \* running
    clockPly,           \* ply and, by its parity, color
    expired,            \* secs <= 0
    timeUp,             \* authoritative_clock_elapsed_ms() reached the clock
    restored,           \* downtime counts against it: restart_elapsed_ms > 0
    \* coroutines and their local variables
    pc,
    flagPly,            \* countdown(): the turn user and reason were read at
    newData,            \* save_game(): the document it is writing
    rewind,             \* takeback(): plies left, status to be written
    abandonTask,        \* user.abandon_game_tasks[game.id]
    \* application state and database
    gcnt,               \* this game's share of app_state.g_cnt[0]
    doc,                \* the game's document in Mongo
    effects,            \* times the result was applied to ratings and counts
    evicted,            \* play_move() dropped the instance as stale
    \* history
    cutSave,            \* a task was cancelled inside save_game()
    returned,           \* sleeping tasks whose player has been back meanwhile
    lost                \* tasks that another task took the player's entry from

gameVars  == <<kind, ply, status, result, saved, counted>>
offerVars == <<drawOffers, takebackOffer>>
clockVars == <<running, clockPly, expired, timeUp, restored>>
localVars == <<flagPly, newData, rewind>>
dbVars    == <<doc, effects>>
histVars  == <<cutSave, returned>>
entryVars == <<abandonTask, lost>>
vars == <<gameVars, offerVars, lock, clockVars, pc, localVars, entryVars,
          gcnt, dbVars, evicted, histVars>>

SavePcs == {"save_uncount", "save_issue", "save_write", "save_effects"}
ConnPcs == SavePcs \cup
    {"closed", "idle", "move_offers", "move_push", "move_save", "move_check",
     "takeback_pop", "takeback_count", "takeback_state",
     "abort_lock", "resign_lock", "abandon_lock", "flag_lock", "ceval_db"}
TaskPcs == SavePcs \cup {"none", "sleep"}
ClockPcs == SavePcs \cup {"tick", "grace", "clock_lock", "cancelled", "dead"}

NoTakeback == [by |-> None, ply |-> 0]
NoRewind == [left |-> 0, s |-> "CREATED"]
NoData == [delete |-> FALSE, m |-> 0, s |-> "CREATED", r |-> "*"]
NoDoc == [exists |-> FALSE, m |-> 0, s |-> "CREATED", r |-> "*"]

DataTypeOK ==
    /\ kind \in Kinds
    /\ ply \in 0..MaxPly
    /\ status \in Status
    /\ result \in Result
    /\ saved \in BOOLEAN
    /\ counted \in BOOLEAN
    /\ drawOffers \subseteq Players
    /\ takebackOffer \in [by : Players \cup {None}, ply : 0..MaxPly]
    /\ running \in BOOLEAN
    /\ clockPly \in 0..MaxPly
    /\ expired \in BOOLEAN
    /\ timeUp \in BOOLEAN
    /\ restored \in BOOLEAN
    /\ flagPly \in 0..MaxPly
    /\ newData \in [delete : BOOLEAN, m : 0..MaxPly, s : Status, r : Result]
    /\ rewind \in [left : 0..1, s : Status]
    /\ gcnt \in {0, 1}
    /\ doc \in [exists : BOOLEAN, m : 0..MaxPly, s : Status, r : Result]
    /\ effects \in Nat
    /\ evicted \in BOOLEAN
    /\ cutSave \in BOOLEAN
    /\ returned \subseteq Tasks

ControlTypeOK ==
    /\ lock \in Procs \cup {None}
    /\ abandonTask \in [Players -> Tasks \cup {None}]
    /\ lost \subseteq Tasks
    /\ pc \in [Procs -> ConnPcs \cup TaskPcs \cup ClockPcs]
    /\ \A c \in Conns : pc[c] \in ConnPcs
    /\ \A t \in Tasks : pc[t] \in TaskPcs
    /\ pc[ClockTask] \in ClockPcs

TypeOK == DataTypeOK /\ ControlTypeOK

-----------------------------------------------------------------------------
(* Helpers *)

Over == status \in Ended
Turn(n) == IF n % 2 = 0 THEN White ELSE Black
Opp(u) == IF u = White THEN Black ELSE White
Loses(u) == IF u = White THEN "0-1" ELSE "1-0"
Present(u) == \E c \in Conns : Owner[c] = u /\ pc[c] # "closed"
Saving(p) == pc[p] \in SavePcs

\* The done callback of abandon task p drops the player's entry, whichever task
\* it points to by now.
TaskDone(p) ==
    /\ abandonTask' = [abandonTask EXCEPT ![Owner[p]] = None]
    /\ lost' = (lost \cup {abandonTask[Owner[p]]}) \ {p, None}

\* The coroutine of p returns: a handler waits for its next message, a task
\* ends.  Leaving handle_*() leaves the "async with move_lock" block.
Return(p) ==
    /\ pc' = [pc EXCEPT ![p] = IF p \in Conns THEN "idle"
                               ELSE IF p \in Tasks THEN "none" ELSE "dead"]
    /\ lock' = IF lock = p THEN None ELSE lock
    /\ IF p \in Tasks THEN TaskDone(p) ELSE UNCHANGED entryVars

\* Game.update_status(status, result): a finished game keeps its outcome.
UpdateStatus(s, r) ==
    /\ status' = IF Over THEN status ELSE s
    /\ result' = IF Over THEN result ELSE r

\* Mutants of CancelClock: the task is awaited without a cancellation; it
\* cancels itself when it is the caller.
CancelClock_OnlyAwaits(p) == pc' = [pc EXCEPT ![p] = "save_uncount"]
CancelClock_CancelsSelf(p) ==
    pc' = [pc EXCEPT ![p] = "save_uncount",
                     ![ClockTask] = IF @ = "dead" THEN "dead" ELSE "cancelled"]

\* Clock.cancel() called by p: unless the countdown task is the caller or has
\* ended, it is sent a cancellation, which p then waits for.
CancelClock(p) ==
    pc' = [pc EXCEPT ![ClockTask] = IF @ = "dead" THEN "dead" ELSE "cancelled",
                     ![p] = "save_uncount"]

\* Mutant of EnterSave: the test of saved is missing.
EnterSave_Unguarded(p, l) ==
    /\ saved' = TRUE
    /\ running' = FALSE
    /\ CancelClock(p)
    /\ lock' = l
    /\ UNCHANGED entryVars

\* Entry of Game.save_game() in process p while l holds the lock: only the
\* first call goes on; it stops the clock and cancels the countdown task.
EnterSave(p, l) ==
    \/ /\ saved
       /\ Return(p)
       /\ UNCHANGED <<saved, running>>
    \/ /\ ~saved
       /\ saved' = TRUE
       /\ running' = FALSE
       /\ CancelClock(p)
       /\ lock' = l
       /\ UNCHANGED entryVars

\* Clock.restart() for the position after n plies.
\* Outside tournaments the first move of each side is not timed.
Restart(n) ==
    LET timed == n >= 2 \/ kind = "tournament"
    IN  /\ clockPly' = n
        /\ running' = timed
        /\ expired' = IF timed THEN FALSE ELSE expired

\* Game.game_ended(u, reason) called by p; l holds the lock meanwhile.
\* With insufficient material a flag is a draw.
GameEnded(p, u, reason, l) ==
    \/ /\ result = "*"
       /\ \E r \in IF reason = "abort" THEN {"*"}
                   ELSE IF reason = "flag" THEN {Loses(u), "1/2-1/2"}
                   ELSE {Loses(u)} : UpdateStatus(LoserStatus[reason], r)
       /\ EnterSave(p, l)
    \/ /\ result # "*"
       /\ Return(p)
       /\ UNCHANGED <<status, result, saved, running>>

\* first_move_timeout_reason(); games of a round-robin arrangement abort too.
TimeoutReason(n) == IF n >= 2 \/ kind = "tournament" THEN "flag" ELSE "abort"

\* The clock of a game that was loaded at ply n.  Downtime counts against a
\* timed move of a game whose clocks are stored (persist_clock_history).
LoadedClock(n) ==
    LET timed == n >= 2 \/ kind = "tournament"
    IN  /\ running = timed
        /\ restored = (kind # "casual")
        /\ IF timed /\ kind # "casual" THEN expired \in BOOLEAN /\ timeUp = expired
                                       ELSE expired = ~timed /\ timeUp = FALSE

NewClock ==
    /\ running = (kind = "tournament")
    /\ expired = (kind # "tournament")
    /\ timeUp = FALSE /\ restored = FALSE

\* A new game, or one that was in play when the server stopped and that
\* load_game() has built from its document.
Init ==
    /\ kind \in Kinds
    /\ ply \in {0} \cup LoadPlies
    /\ \/ ply = 0 /\ NewClock
       \/ ply \in LoadPlies /\ LoadedClock(ply)
    /\ clockPly = ply
    /\ status = IF ply = 0 THEN "CREATED" ELSE "STARTED"
    /\ result = "*" /\ saved = FALSE
    /\ counted = (ply > 0)
    /\ drawOffers = {} /\ takebackOffer = NoTakeback
    /\ lock = None
    /\ pc = [p \in Procs |-> IF p \in Conns THEN "closed"
                             ELSE IF p \in Tasks THEN "none" ELSE "tick"]
    /\ flagPly = 0
    /\ newData = NoData
    /\ rewind = NoRewind
    /\ abandonTask = [u \in Players |-> None]
    /\ gcnt = IF ply > 0 THEN 1 ELSE 0
    /\ doc = [exists |-> TRUE, m |-> ply, s |-> status, r |-> "*"]
    /\ effects = 0 /\ evicted = FALSE
    /\ cutSave = FALSE /\ returned = {} /\ lost = {}

-----------------------------------------------------------------------------
(* Game.save_game() after its guard *)

\* The await of the cancelled countdown task is over.
ClockGone(p) == pc[ClockTask] = "dead" \/ p = ClockTask

\* Mutants of SaveUncount: the count changes although the game was not in it;
\* the game stays in the count.
SaveUncount_Always(p) ==
    /\ pc[p] = "save_uncount"
    /\ ClockGone(p)
    /\ counted' = FALSE
    /\ gcnt' = gcnt - 1
    /\ pc' = [pc EXCEPT ![p] = "save_issue"]
    /\ UNCHANGED <<kind, ply, status, result, saved, offerVars, lock, clockVars,
                   localVars, entryVars, dbVars, evicted, histVars>>
SaveUncount_Never(p) ==
    /\ pc[p] = "save_uncount"
    /\ ClockGone(p)
    /\ pc' = [pc EXCEPT ![p] = "save_issue"]
    /\ UNCHANGED <<gameVars, gcnt, offerVars, lock, clockVars,
                   localVars, entryVars, dbVars, evicted, histVars>>

\* The countdown task is gone: the game leaves the lobby's count.
SaveUncount(p) ==
    /\ pc[p] = "save_uncount"
    /\ ClockGone(p)
    /\ counted' = FALSE
    /\ gcnt' = IF counted THEN gcnt - 1 ELSE gcnt
    /\ pc' = [pc EXCEPT ![p] = "save_issue"]
    /\ UNCHANGED <<kind, ply, status, result, saved, offerVars, lock, clockVars,
                   localVars, entryVars, dbVars, evicted, histVars>>

\* The final document is put together, or the deletion of a game of less than
\* three plies; the write is on its way.
SaveIssue(p) ==
    /\ pc[p] = "save_issue"
    /\ newData' = [delete |-> ply < 3 /\ kind # "tournament",
                   m |-> ply, s |-> status, r |-> result]
    /\ pc' = [pc EXCEPT ![p] = "save_write"]
    /\ UNCHANGED <<gameVars, offerVars, lock, clockVars, flagPly, rewind,
                   entryVars, gcnt, dbVars, evicted, histVars>>

\* The document once the write has landed.
Landed ==
    IF newData.delete THEN NoDoc
    ELSE [doc EXCEPT !.m = newData.m, !.s = newData.s, !.r = newData.r]

\* Mutant of SaveWrite: the result is applied before it is durable.
SaveWrite_AppliesFirst(p) ==
    /\ pc[p] = "save_write"
    /\ effects' = IF newData.r = "*" THEN effects ELSE effects + 1
    /\ pc' = [pc EXCEPT ![p] = "save_effects"]
    /\ UNCHANGED <<gameVars, offerVars, lock, clockVars, localVars, entryVars,
                   gcnt, doc, evicted, histVars>>

\* The write lands.  A deletion is all there is to do, and so is the write of
\* a game without a result that no tournament waits for.
SaveWrite(p) ==
    /\ pc[p] = "save_write"
    /\ doc' = Landed
    /\ \/ /\ newData.delete \/ (newData.r = "*" /\ kind # "tournament")
          /\ newData' = NoData
          /\ Return(p)
       \/ /\ ~(newData.delete \/ (newData.r = "*" /\ kind # "tournament"))
          /\ pc' = [pc EXCEPT ![p] = "save_effects"]
          /\ UNCHANGED <<newData, lock, entryVars>>
    /\ UNCHANGED <<gameVars, offerVars, clockVars, flagPly, rewind, gcnt, effects,
                   evicted, histVars>>

\* Several awaits later the result has been applied to ratings, game counts
\* and the crosstable and handed to the tournament.
SaveEffects(p) ==
    /\ pc[p] = "save_effects"
    /\ effects' = IF newData.r = "*" THEN effects ELSE effects + 1
    /\ newData' = NoData
    /\ Return(p)
    /\ UNCHANGED <<gameVars, offerVars, clockVars, flagPly, rewind, gcnt, doc,
                   evicted, histVars>>

-----------------------------------------------------------------------------
(* A move: wsr.handle_move, utils.play_move, Game.play_move *)

\* The clock of a loaded game that ran out while the server was down.
RestartExpired == restored /\ running /\ expired

\* The handler takes the lock and accepts the move of the side to move.  A
\* move that is refused (finished game, wrong ply, out of turn, illegal)
\* changes nothing.  The first move counts the game as active.
MoveStart(c) ==
    /\ pc[c] = "idle"
    /\ lock = None
    /\ ~Over
    /\ Owner[c] = Turn(ply)
    /\ ~RestartExpired
    /\ ply < MaxPly
    /\ lock' = c
    /\ running' = FALSE
    /\ \/ /\ ply = 0 /\ ~counted
          /\ status' = "STARTED" /\ counted' = TRUE /\ gcnt' = gcnt + 1
       \/ /\ ply # 0 \/ counted
          /\ UNCHANGED <<status, counted, gcnt>>
    /\ pc' = [pc EXCEPT ![c] = "move_offers"]
    /\ UNCHANGED <<kind, ply, result, saved, offerVars, clockPly, expired,
                   timeUp, restored, localVars, entryVars, dbVars, evicted,
                   histVars>>

\* A move that arrives after such a restart ends the game instead.
MoveExpired(c) ==
    /\ pc[c] = "idle"
    /\ lock = None
    /\ ~Over
    /\ Owner[c] = Turn(ply)
    /\ RestartExpired
    /\ GameEnded(c, Owner[c], TimeoutReason(ply), c)
    /\ UNCHANGED <<kind, ply, counted, offerVars, clockPly, expired, timeUp,
                   restored, localVars, gcnt, dbVars, evicted, histVars>>

\* Mutant of MoveOffers: the takeback offer survives the move.
MoveOffers_KeepsTakeback(c) ==
    /\ pc[c] = "move_offers"
    /\ drawOffers' = IF Opp(Owner[c]) \in drawOffers THEN {} ELSE drawOffers
    /\ pc' = [pc EXCEPT ![c] = "move_push"]
    /\ UNCHANGED <<takebackOffer, gameVars, lock, clockVars, localVars,
                   entryVars, gcnt, dbVars, evicted, histVars>>

\* A move rejects the opponent's draw offer and cancels a takeback offer.
MoveOffers(c) ==
    /\ pc[c] = "move_offers"
    /\ drawOffers' = IF Opp(Owner[c]) \in drawOffers THEN {} ELSE drawOffers
    /\ takebackOffer' = NoTakeback
    /\ pc' = [pc EXCEPT ![c] = "move_push"]
    /\ UNCHANGED <<gameVars, lock, clockVars, localVars, entryVars, gcnt,
                   dbVars, evicted, histVars>>

\* Mutant of MovePush: the status is not read again after the awaits.
MovePush_Unchecked(c) ==
    /\ pc[c] = "move_push"
    /\ ply' = ply + 1
    /\ timeUp' = FALSE /\ restored' = FALSE
    /\ pc' = [pc EXCEPT ![c] = "move_save"]
    /\ UNCHANGED <<kind, status, result, saved, counted, offerVars, lock,
                   running, clockPly, expired, localVars, entryVars, gcnt,
                   dbVars, evicted, histVars>>

\* The status is read again after the awaits.  The pushed move may end the
\* game on the board.
MovePush(c) ==
    /\ pc[c] = "move_push"
    /\ timeUp' = FALSE /\ restored' = FALSE
    /\ \/ /\ Over
          /\ Return(c)
          /\ UNCHANGED <<ply, status, result, saved, running>>
       \/ /\ ~Over
          /\ ply' = ply + 1
          /\ \/ /\ pc' = [pc EXCEPT ![c] = "move_save"]
                /\ UNCHANGED <<status, result, saved, running, lock,
                               entryVars>>
             \/ /\ \/ UpdateStatus("DRAW", "1/2-1/2")
                   \/ \E u \in Players : UpdateStatus("MATE", Loses(u))
                /\ EnterSave(c, lock)
    /\ UNCHANGED <<kind, counted, offerVars, clockPly, expired, localVars, gcnt,
                   dbVars, evicted, histVars>>

\* Mutants of MoveSave: the update has no filter; it leaves the status out.
MoveSave_Unfiltered(c) ==
    /\ pc[c] = "move_save"
    /\ doc' = [doc EXCEPT !.m = ply, !.s = "STARTED"]
    /\ Restart(ply)
    /\ Return(c)
    /\ UNCHANGED <<gameVars, offerVars, timeUp, restored, localVars, gcnt,
                   effects, evicted, histVars>>
MoveSave_NoStatus(c) ==
    /\ pc[c] = "move_save"
    /\ doc' = [doc EXCEPT !.m = ply]
    /\ Restart(ply)
    /\ Return(c)
    /\ UNCHANGED <<gameVars, offerVars, timeUp, restored, localVars, gcnt,
                   effects, evicted, histVars>>

\* Game.save_move(): the compare-and-set of the new move lands.
MoveSave(c) ==
    /\ pc[c] = "move_save"
    /\ \/ /\ doc.exists /\ doc.m = ply - 1 /\ doc.s \in Live
          /\ doc' = [doc EXCEPT !.m = ply, !.s = "STARTED"]
          /\ Restart(ply)
          /\ Return(c)
       \/ /\ ~(doc.exists /\ doc.m = ply - 1 /\ doc.s \in Live)
          /\ pc' = [pc EXCEPT ![c] = "move_check"]
          /\ UNCHANGED <<doc, running, clockPly, expired, lock, entryVars>>
    /\ UNCHANGED <<gameVars, offerVars, timeUp, restored, localVars, gcnt,
                   effects, evicted, histVars>>

\* Mutant of MoveCheck: the stored move list is not compared.
MoveCheck_Uncompared(c) ==
    /\ pc[c] = "move_check"
    /\ Restart(ply)
    /\ evicted' = (evicted \/ doc.exists)
    /\ Return(c)
    /\ UNCHANGED <<gameVars, offerVars, timeUp, restored, localVars, gcnt,
                   dbVars, histVars>>

\* The compare-and-set matched nothing: a missing document or one that holds
\* this very move list is fine, anything else means that another instance
\* moved and this one is dropped.
MoveCheck(c) ==
    /\ pc[c] = "move_check"
    /\ Restart(ply)
    /\ evicted' = (evicted \/ (doc.exists /\ doc.m # ply))
    /\ Return(c)
    /\ UNCHANGED <<gameVars, offerVars, timeUp, restored, localVars, gcnt,
                   dbVars, histVars>>

-----------------------------------------------------------------------------
(* Draws: wsr.handle_draw and handle_reject_draw, which take no lock *)

Draw(c) ==
    LET u == Owner[c]
        offers == IF Opp(u) \in drawOffers THEN drawOffers
                  ELSE drawOffers \cup {u}
    IN  /\ pc[c] = "idle"
        /\ drawOffers' = offers
        /\ \/ /\ Opp(u) \in offers \/ ply >= MinClaimPly
              /\ UpdateStatus("DRAW", "1/2-1/2")
              /\ EnterSave(c, lock)
           \/ /\ Opp(u) \notin offers
              /\ UNCHANGED <<status, result, saved, running, pc, lock,
                             entryVars>>
        /\ UNCHANGED <<kind, ply, counted, takebackOffer, clockPly, expired,
                       timeUp, restored, localVars, gcnt, dbVars, evicted, histVars>>

RejectDraw(c) ==
    /\ pc[c] = "idle"
    /\ Opp(Owner[c]) \in drawOffers
    /\ drawOffers' = {}
    /\ UNCHANGED <<gameVars, takebackOffer, lock, clockVars, pc, localVars,
                   entryVars, gcnt, dbVars, evicted, histVars>>

-----------------------------------------------------------------------------
(* Takebacks: wsr.handle_takeback, handle_reject_takeback, Game.takeback *)

TakebackAllowed == kind = "casual" /\ status = "STARTED" /\ ply >= 2

OfferTakeback(c) ==
    /\ pc[c] = "idle"
    /\ lock = None
    /\ TakebackAllowed
    /\ takebackOffer = NoTakeback
    /\ takebackOffer' = [by |-> Owner[c], ply |-> ply]
    /\ UNCHANGED <<gameVars, drawOffers, lock, clockVars, pc, localVars,
                   entryVars, gcnt, dbVars, evicted, histVars>>

\* The opponent accepts.  An offer made at another ply has expired.  Otherwise
\* the clock stops and the first ply is rewound before the first await: one
\* ply if the offerer has just moved, two if it is the offerer's turn.
AcceptTakeback(c) ==
    /\ pc[c] = "idle"
    /\ lock = None
    /\ TakebackAllowed
    /\ takebackOffer.by = Opp(Owner[c])
    /\ takebackOffer' = NoTakeback
    /\ IF takebackOffer.ply = ply
       THEN /\ lock' = c
            /\ running' = FALSE
            /\ ply' = ply - 1
            /\ rewind' = [rewind EXCEPT
                             !.left = IF takebackOffer.by = Turn(ply)
                                      THEN 1 ELSE 0]
            /\ pc' = [pc EXCEPT ![c] = "takeback_pop"]
       ELSE UNCHANGED <<lock, running, ply, rewind, pc>>
    /\ UNCHANGED <<kind, status, result, saved, counted, drawOffers, clockPly,
                   expired, timeUp, restored, flagPly, newData, entryVars,
                   gcnt, dbVars, evicted, histVars>>

\* The $pop of pop_move_from_db() lands; the loop goes on or ends.
TakebackPop(c) ==
    /\ pc[c] = "takeback_pop"
    /\ doc' = [doc EXCEPT !.m = IF doc.exists /\ doc.m > 0 THEN doc.m - 1
                                ELSE doc.m]
    /\ \/ /\ rewind.left = 1
          /\ ply' = ply - 1
          /\ rewind' = [rewind EXCEPT !.left = 0]
          /\ UNCHANGED <<pc, counted, gcnt>>
       \/ /\ rewind.left = 0 /\ ply = 0 /\ counted
          /\ counted' = FALSE
          /\ gcnt' = gcnt - 1
          /\ pc' = [pc EXCEPT ![c] = "takeback_count"]
          /\ UNCHANGED <<ply, rewind>>
       \/ /\ rewind.left = 0 /\ ~(ply = 0 /\ counted)
          /\ rewind' = [rewind EXCEPT !.s = status]
          /\ pc' = [pc EXCEPT ![c] = "takeback_state"]
          /\ UNCHANGED <<ply, counted, gcnt>>
    /\ UNCHANGED <<kind, status, result, saved, offerVars, lock, clockVars, flagPly,
                   newData, entryVars, effects, evicted, histVars>>

\* Back at ply 0 the game has not started: after the broadcast of the count
\* the status is reset, whatever it is by now.
TakebackCount(c) ==
    /\ pc[c] = "takeback_count"
    /\ status' = "CREATED"
    /\ rewind' = [rewind EXCEPT !.s = "CREATED"]
    /\ pc' = [pc EXCEPT ![c] = "takeback_state"]
    /\ UNCHANGED <<kind, ply, result, saved, counted, offerVars, lock, clockVars,
                   flagPly, newData, entryVars, gcnt, dbVars, evicted,
                   histVars>>

\* save_takeback_state() lands, without a filter on the stored status.
TakebackState(c) ==
    /\ pc[c] = "takeback_state"
    /\ doc' = [doc EXCEPT !.s = IF doc.exists THEN rewind.s ELSE doc.s]
    /\ timeUp' = FALSE /\ restored' = FALSE
    /\ rewind' = NoRewind
    /\ Restart(ply)
    /\ Return(c)
    /\ UNCHANGED <<gameVars, offerVars, flagPly, newData, gcnt, effects, evicted,
                   histVars>>

RejectTakeback(c) ==
    /\ pc[c] = "idle"
    /\ lock = None
    /\ takebackOffer # NoTakeback
    /\ takebackOffer' = NoTakeback
    /\ UNCHANGED <<gameVars, drawOffers, lock, clockVars, pc, localVars,
                   entryVars, gcnt, dbVars, evicted, histVars>>

-----------------------------------------------------------------------------
(* The messages abort, resign, abandon and flag:                            *)
(* handle_abort_resign_abandon_flag                                        *)

EndPc == [abort |-> "abort_lock", resign |-> "resign_lock",
          abandon |-> "abandon_lock", flag |-> "flag_lock"]

\* The ply of an abort and the status are read before the lock is awaited.
AskEnd(c, reason) ==
    /\ pc[c] = "idle"
    /\ reason = "abort" => ply <= 2
    /\ ~Over
    /\ pc' = [pc EXCEPT ![c] = EndPc[reason]]
    /\ UNCHANGED <<gameVars, offerVars, lock, clockVars, localVars,
                   entryVars, gcnt, dbVars, evicted, histVars>>

\* _flag_claim_allowed(): on the first moves the running stopwatch decides,
\* later the time spent against the clock after the player's last move.
FlagAllowed(u) == Turn(ply) = u /\ timeUp /\ (ply < 2 => running)

End(c, reason) ==
    /\ pc[c] = EndPc[reason]
    /\ lock = None
    /\ \/ /\ reason = "flag" => FlagAllowed(Owner[c])
          /\ GameEnded(c, Owner[c], reason, c)
       \/ /\ reason = "flag" /\ ~FlagAllowed(Owner[c])
          /\ Return(c)
          /\ UNCHANGED <<status, result, saved, running>>
    /\ UNCHANGED <<kind, ply, counted, offerVars, clockPly, expired, timeUp,
                   restored, localVars, gcnt, dbVars, evicted, histVars>>

-----------------------------------------------------------------------------
(* Engine use reported by a player's own client: handle_ceval_detected *)

\* The checks pass; the site setting and the report are database calls.
CevalReport(c) ==
    /\ pc[c] = "idle"
    /\ lock = None
    /\ ~Over
    /\ ply >= MinCevalReportPly
    /\ lock' = c
    /\ pc' = [pc EXCEPT ![c] = "ceval_db"]
    /\ UNCHANGED <<gameVars, offerVars, clockVars, localVars, entryVars,
                   gcnt, dbVars, evicted, histVars>>

\* The setting asks for a forfeit (cheat_by_ceval) or only for a report.
CevalForfeit(c) ==
    /\ pc[c] = "ceval_db"
    /\ \/ /\ result = "*"
          /\ UpdateStatus("CHEAT", Loses(Owner[c]))
          /\ EnterSave(c, lock)
       \/ /\ Return(c)
          /\ UNCHANGED <<status, result, saved, running>>
    /\ UNCHANGED <<kind, ply, counted, offerVars, clockPly, expired, timeUp,
                   restored, localVars, gcnt, dbVars, evicted, histVars>>

-----------------------------------------------------------------------------
(* More time for the opponent: handle_moretime, without lock or status.    *)
(* Players are shown the button only in casual games of two humans outside *)
(* tournaments and simuls (client/roundCtrl.ts); the server does not check.*)

MoreTime(c) ==
    /\ pc[c] = "idle"
    /\ kind = "casual"
    /\ Turn(clockPly) = Opp(Owner[c])
    /\ running' = TRUE
    /\ expired' = FALSE
    /\ clockPly' = ply
    /\ UNCHANGED <<gameVars, offerVars, lock, timeUp, restored, pc, localVars,
                   entryVars, gcnt, dbVars, evicted, histVars>>

-----------------------------------------------------------------------------
(* Presence: handle_game_user_connected, finally_logic, User.abandon_game *)

\* Mutant of Connect: the abandon task is not cancelled.
Connect_KeepsTask(c) ==
    /\ pc[c] = "closed"
    /\ pc' = [pc EXCEPT ![c] = "idle"]
    /\ abandonTask' = [abandonTask EXCEPT ![Owner[c]] = None]
    /\ returned' = returned \cup
          {s \in Tasks : Owner[s] = Owner[c] /\ pc[s] = "sleep"}
    /\ UNCHANGED <<gameVars, offerVars, lock, clockVars, localVars, gcnt, lost,
                   dbVars, evicted, cutSave>>

\* A round socket of u opens.  The task in u's entry is cancelled at the await
\* it is suspended at, the ones inside save_game() included; a write on its
\* way to the database may still land, and the effects may be complete.  Only
\* at its wait for the countdown task (Clock.cancel swallows the cancellation)
\* the task goes on, and this handler waits for its end.
Connect(c) ==
    LET u == Owner[c]
        t == abandonTask[u]
        cut(pcs) == t # None /\ pc[t] \in pcs
    IN  /\ pc[c] = "closed"
        /\ ~cut({"save_uncount"})
        /\ pc' = [p \in Procs |-> IF p = c THEN "idle"
                                  ELSE IF p = t THEN "none" ELSE pc[p]]
        /\ abandonTask' = [abandonTask EXCEPT ![u] = None]
        /\ doc' \in {doc} \cup (IF cut({"save_write"}) THEN {Landed} ELSE {})
        /\ effects' \in {effects} \cup
              (IF cut({"save_effects"}) /\ newData.r # "*" THEN {effects + 1}
               ELSE {})
        /\ newData' = IF cut(SavePcs) THEN NoData ELSE newData
        /\ cutSave' = (cutSave \/ cut(SavePcs))
        /\ returned' = returned \cup
              {s \in Tasks \ {t} : Owner[s] = u /\ pc[s] = "sleep"}
        /\ UNCHANGED <<gameVars, offerVars, lock, clockVars, flagPly, rewind,
                       gcnt, lost, evicted>>

\* Task t starts to wait for its player, whose entry it takes over.
StartTask(t) ==
    LET old == abandonTask[Owner[t]]
    IN  /\ pc[t] = "none"
        /\ abandonTask' = [abandonTask EXCEPT ![Owner[t]] = t]
        /\ lost' = (lost \cup {old}) \ {None}

\* A socket closes between two messages.  Every close starts a task and
\* overwrites the entry of the one before.
Disconnect(c) ==
    /\ pc[c] = "idle"
    /\ \E t \in Tasks :
          /\ Owner[t] = Owner[c]
          /\ StartTask(t)
          /\ pc' = [pc EXCEPT ![c] = "closed", ![t] = "sleep"]
    /\ UNCHANGED <<gameVars, offerVars, lock, clockVars, localVars, gcnt,
                   dbVars, evicted, histVars>>

\* The last lobby socket of a player closes who has no round socket open: wsl's
\* schedule_abandon_if_waiting_for_round_socket().
LobbyLeft(t) ==
    /\ ~Over
    /\ ~Present(Owner[t])
    /\ abandonTask[Owner[t]] = None
    /\ StartTask(t)
    /\ pc' = [pc EXCEPT ![t] = "sleep"]
    /\ UNCHANGED <<gameVars, offerVars, lock, clockVars, localVars, gcnt,
                   dbVars, evicted, histVars>>

\* The task wakes up.  It takes no lock.
AbandonGame(t) ==
    /\ pc[t] = "sleep"
    /\ \/ /\ ~Over /\ ~Present(Owner[t])
          /\ GameEnded(t, Owner[t], "abandon", lock)
       \/ /\ Over \/ Present(Owner[t])
          /\ Return(t)
          /\ UNCHANGED <<status, result, saved, running>>
    /\ returned' = returned \ {t}
    /\ UNCHANGED <<kind, ply, counted, offerVars, clockPly, expired, timeUp,
                   restored, localVars, gcnt, dbVars, evicted, cutSave>>

-----------------------------------------------------------------------------
(* Time and the countdown task: Clock.countdown *)

\* The time of the side to move is used up.
TimePasses ==
    /\ ~timeUp
    /\ timeUp' = TRUE
    /\ UNCHANGED <<gameVars, offerVars, lock, running, clockPly, expired,
                   restored, pc, localVars, entryVars, gcnt, dbVars, evicted, histVars>>

\* secs reaches 0; only the inner loop of the task counts it down.
ClockTick ==
    /\ pc[ClockTask] = "tick"
    /\ running /\ timeUp /\ ~expired
    /\ expired' = TRUE
    /\ UNCHANGED <<gameVars, offerVars, lock, running, clockPly, timeUp,
                   restored, pc, localVars, entryVars, gcnt, dbVars, evicted, histVars>>

\* Mutant of ClockGrace: off by one in the comparison of the plies.
ClockGrace_NextPly ==
    /\ pc[ClockTask] = "tick"
    /\ running /\ expired /\ ply = clockPly + 1
    /\ pc' = [pc EXCEPT ![ClockTask] = "grace"]
    /\ UNCHANGED <<gameVars, offerVars, lock, clockVars, localVars,
                   entryVars, gcnt, dbVars, evicted, histVars>>

\* From the second ply on the opponent has 20 seconds to claim the win.
ClockGrace ==
    /\ pc[ClockTask] = "tick"
    /\ running /\ expired /\ ply = clockPly
    /\ pc' = [pc EXCEPT ![ClockTask] = "grace"]
    /\ UNCHANGED <<gameVars, offerVars, lock, clockVars, localVars,
                   entryVars, gcnt, dbVars, evicted, histVars>>

\* Nobody claimed: the loser and the reason are read, then the lock is
\* awaited.
ClockClaim ==
    /\ pc[ClockTask] = "grace"
    /\ IF ~Over /\ expired /\ running
       THEN /\ flagPly' = clockPly
            /\ pc' = [pc EXCEPT ![ClockTask] = "clock_lock"]
       ELSE /\ pc' = [pc EXCEPT ![ClockTask] = "tick"]
            /\ UNCHANGED flagPly
    /\ UNCHANGED <<gameVars, offerVars, lock, clockVars, newData, rewind,
                   entryVars, gcnt, dbVars, evicted, histVars>>

\* Mutant of StillOutOfTime: the turn is not compared again.
StillOutOfTime_AnyTurn == ~Over /\ running

\* With the lock the timeout is validated again: it may belong to an outdated
\* turn.
StillOutOfTime == ~Over /\ running /\ expired /\ ply = clockPly

ClockFlag ==
    /\ pc[ClockTask] = "clock_lock"
    /\ lock = None
    /\ \/ /\ StillOutOfTime
          /\ GameEnded(ClockTask, Turn(flagPly), TimeoutReason(flagPly),
                       ClockTask)
       \/ /\ ~StillOutOfTime
          /\ pc' = [pc EXCEPT ![ClockTask] = "tick"]
          /\ UNCHANGED <<status, result, saved, running, lock, entryVars>>
    /\ flagPly' = 0
    /\ UNCHANGED <<kind, ply, counted, offerVars, clockPly, expired, timeUp,
                   restored, newData, rewind, gcnt, dbVars, evicted, histVars>>

\* The task takes its cancellation, at whatever await it is: it leaves the
\* queue of move_lock.
ClockCancelled ==
    /\ pc[ClockTask] = "cancelled"
    /\ pc' = [pc EXCEPT ![ClockTask] = "dead"]
    /\ flagPly' = 0
    /\ UNCHANGED <<gameVars, offerVars, lock, clockVars, newData, rewind,
                   entryVars, gcnt, dbVars, evicted, histVars>>

-----------------------------------------------------------------------------

\* What a player or the network does next on a websocket.
Request(c) ==
    \/ MoveStart(c) \/ MoveExpired(c) \/ Draw(c) \/ RejectDraw(c)
    \/ OfferTakeback(c) \/ AcceptTakeback(c) \/ RejectTakeback(c)
    \/ \E reason \in DOMAIN EndPc : AskEnd(c, reason)
    \/ CevalReport(c) \/ MoreTime(c) \/ Connect(c) \/ Disconnect(c)

\* How a handler that is suspended goes on.
Resume(c) ==
    \/ MoveOffers(c) \/ MovePush(c) \/ MoveSave(c) \/ MoveCheck(c)
    \/ TakebackPop(c) \/ TakebackCount(c) \/ TakebackState(c)
    \/ CevalForfeit(c)

SaveGame(p) ==
    SaveUncount(p) \/ SaveIssue(p) \/ SaveWrite(p) \/ SaveEffects(p)

EndRequest(c) == \E reason \in DOMAIN EndPc : End(c, reason)

ClockStep ==
    ClockTick \/ ClockGrace \/ ClockClaim \/ ClockFlag \/ ClockCancelled

Next ==
    \/ \E c \in Conns : Request(c) \/ Resume(c) \/ EndRequest(c)
    \/ \E p \in Procs : SaveGame(p)
    \/ \E t \in Tasks : AbandonGame(t) \/ LobbyLeft(t)
    \/ ClockStep
    \/ TimePasses

Spec == Init /\ [][Next]_vars

\* The loop runs every coroutine whose await has completed, broadcasts are
\* bounded by a send timeout and database calls return; asyncio.Lock serves
\* its waiters in order; sleeps end.  Nothing makes a player send a message.
Fairness ==
    /\ \A c \in Conns : WF_vars(Resume(c)) /\ SF_vars(EndRequest(c))
    /\ \A p \in Procs : WF_vars(SaveGame(p))
    /\ \A t \in Tasks : WF_vars(AbandonGame(t))
    /\ WF_vars(ClockTick) /\ WF_vars(ClockGrace) /\ WF_vars(ClockClaim)
    /\ SF_vars(ClockFlag) /\ WF_vars(ClockCancelled)

FairSpec == Spec /\ Fairness

-----------------------------------------------------------------------------
(* Properties *)

Settled == lock = None /\ \A p \in Procs : ~Saving(p)

\* What the database holds of a finished game: nothing if it was too short to
\* keep, otherwise exactly the game in memory, with its result applied.
Closed ==
    IF ply < 3 /\ kind # "tournament" THEN ~doc.exists
    ELSE /\ doc = [exists |-> TRUE, m |-> ply, s |-> status, r |-> result]
         /\ result # "*" => effects = 1

\* The result is applied to ratings, game counts and the crosstable at most
\* once, whichever handlers and tasks reach save_game(): one coroutine at a
\* time is inside it, and none after the result was applied.
SavedOnce ==
    /\ effects <= 1
    /\ \A p \in Procs : Saving(p) =>
          saved /\ effects = 0 /\ \A q \in Procs : Saving(q) => q = p

\* Once save_game() has run to its end, the document agrees with the finished
\* game ("the document is always consistent on close", Game.save_move) and the
\* result has been applied.
ClosedDocument == Over /\ Settled /\ ~cutSave => Closed

\* Between two moves a crash loses nothing: the document of a game in play
\* holds all its moves and its status (Game.save_move, save_takeback_state).
DurableWhenIdle ==
    lock = None /\ ~Over => doc.exists /\ doc.m = ply /\ doc.s = status

\* The lobby's number of games in play counts this game from its first move
\* to its end (Game.play_move, takeback, save_game).
LobbyCount ==
    Settled /\ ~cutSave => gcnt = IF ~Over /\ ply > 0 THEN 1 ELSE 0

\* The compare-and-set of a move never fails against the instance's own
\* writes: it is for other instances, and this one is never dropped by it.
NeverSelfStale == ~evicted

\* A takeback offer never outlives the position it was made in
\* (Game.play_move clears it, handle_takeback compares the ply).
TakebackOfferFresh ==
    lock = None /\ takebackOffer # NoTakeback => takebackOffer.ply = ply

\* No move is played and none is taken back in a finished game.
MovesOnlyLive == [][ply' # ply => ~Over]_vars

\* A takeback never rewinds a finished game ("a concurrent move or game end
\* cannot turn an earlier eligibility result into a stale takeback",
\* wsr.handle_takeback).
TakebackOnlyLive == [][ply' < ply => ~Over]_vars

\* A flag falls only when the time of the side to move is used up, and that
\* side loses (or draws against insufficient material): neither a claim nor
\* the countdown task acts on an outdated turn.
FlagOnTime ==
    [][status' = "FLAG" /\ ~Over =>
          timeUp /\ result' \in {Loses(Turn(ply)), "1/2-1/2"}]_vars

\* A game is abandoned only by a player who says so, or who has not been back
\* since the task that ends it started to wait.  Only a task that lost its
\* entry to another one escapes the player's return: the close of a second tab
\* overwrites the entry, and the end of a task drops it, whichever task it
\* points to (finally_logic, abandon_task_done, handle_game_user_connected).
GraceRespected ==
    [][status' = "ABANDON" /\ ~Over =>
          \/ \E c \in Conns :
                /\ pc[c] = "abandon_lock" /\ pc'[c] # "abandon_lock"
                /\ result' = Loses(Owner[c])
          \/ \E t \in Tasks :
                /\ pc[t] = "sleep" /\ pc'[t] # "sleep"
                /\ t \notin returned \/ t \in lost
                /\ result' = Loses(Owner[t])]_vars

\* Every handler returns to its socket: no coroutine waits for ever for
\* move_lock, which save_game() may hold while it waits for the countdown
\* task, which may itself wait for move_lock.
HandlersReturn ==
    \A c \in Conns : (pc[c] \notin {"idle", "closed"}) ~> (pc[c] = "idle")

\* A finished game is eventually closed in the database and its result
\* applied, unless a player's return cuts save_game() off in an abandon task.
\* Casual games are left out: a takeback may rewind them after their end
\* (TakebackOnlyLive).
EventuallyClosed == (Over /\ kind # "casual") ~> (Closed \/ cutSave)

\* A clock that stays out of time ends the game.
EventuallyFlagged == (StillOutOfTime /\ ~saved) ~> ~StillOutOfTime

\* What a game is to the rest of the server: see GameRecord.
NoOutcome == [s |-> "none", r |-> "*"]
Discarded == [s |-> "discarded", r |-> "*"]

Outcome == IF Over THEN [s |-> status, r |-> result] ELSE NoOutcome
Stored ==
    IF ~doc.exists THEN Discarded
    ELSE IF doc.s \in Ended THEN [s |-> doc.s, r |-> doc.r]
    ELSE NoOutcome

Record == INSTANCE GameRecord WITH
    Outcomes <- [s : Ended, r : Result],
    outcome <- Outcome,
    stored <- Stored,
    applied <- effects

\* A rated or tournament game is decided once, stored once as decided, and its
\* result is applied at most once, and never before it is stored.
RecordSpec == Record!Spec

=============================================================================
