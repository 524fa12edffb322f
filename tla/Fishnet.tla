------------------------------ MODULE Fishnet ------------------------------
(***************************************************************************)
(* The jobs that the server hands to engine workers (fishnet.py), for one  *)
(* game of a human against the engine: the human is to move on an even     *)
(* board, the engine on an odd one.  Every game state that reaches the     *)
(* queue of the bot becomes a job (ai.py).  A job is acquired, answered,   *)
(* aborted or never heard of again; it is handed out again after a timeout *)
(* and given up at a limit, which loses the game for the engine.           *)
(*                                                                         *)
(* A step is what a coroutine does between two awaits.                     *)
(***************************************************************************)
EXTENDS Naturals, Sequences, FiniteSets

CONSTANTS
    Workers,
    MaxJobs,            \* bound: jobs that are made in all
    Human,              \* the websocket of the human
    HumanMoves, EngineMoves,
    MaxPly,             \* bound: the human does not move from this ply on
    StaleLimit,         \* MOVE_STALE_REISSUE_LIMIT, and so on, scaled down
    AbortLimit, EngineLimit, InvalidLimit

ASSUME LimitsAssumption ==
    /\ StaleLimit \in Nat \ {0} /\ AbortLimit \in Nat \ {0}
    /\ EngineLimit \in Nat \ {0} /\ InvalidLimit \in Nat \ {0}
ASSUME MovesAssumption ==
    HumanMoves \cap EngineMoves = {} /\ MaxPly \in Nat /\ MaxJobs \in Nat
ASSUME HumanAssumption == Human \notin Workers
ASSUME WorkersAssumption == IsFiniteSet(Workers)

VARIABLES
    stack,              \* board.move_stack
    by,                 \* the job that each move on the board came from
    ended,              \* how the game ended
    line,               \* move_lock: its holder and the coroutines that wait
    human,              \* what the human's handler does
    events,             \* game states in the queue of the bot
    works,              \* state of each id: new, move, analysis or gone
    moves,              \* the move stack each job was made for
    time,               \* since the last assignment
    queued,             \* entries in the priority queue
    failures,           \* the four counters of each job
    pc, job             \* what each worker, or its request, is doing

gameVars == <<stack, by, ended>>
workVars == <<works, moves, time, queued, failures>>
workerVars == <<pc, job>>
vars == <<gameVars, line, human, events, workVars, workerVars>>

Jobs == 1..MaxJobs      \* work ids; an id is never used again
NoJob == 0

Stacks == UNION {[1..n -> HumanMoves \cup EngineMoves] : n \in 0..(MaxPly + 1)}
Counters == {"stale", "abort", "engine", "invalid"}
LimitOf == [stale |-> StaleLimit, abort |-> AbortLimit, engine |-> EngineLimit,
            invalid |-> InvalidLimit]

Pending(id) == works[id] \in {"move", "analysis"}
Live == ended = "no"
EngineToMove == Len(stack) % 2 = 1
Holds(p) == line # <<>> /\ Head(line) = p

\* Who gets move_lock runs at once; the holder is suspended only where it saves
\* or sends something.
Settled ==
    \/ line = <<>>
    \/ human = "rewind" /\ Holds(Human)
    \/ \E w \in Workers : pc[w] \in {"saving", "telling"} /\ Holds(w)

TypeOK ==
    /\ stack \in Stacks /\ by \in Seq(Jobs \cup {NoJob}) /\ Len(by) = Len(stack)
    /\ ended \in {"no", "resign", "other"}
    /\ line \in UNION {[1..n -> Workers \cup {Human}] : n \in 0..Cardinality(Workers) + 1}
    /\ human \in {"idle", "move", "takeback", "rewind"}
    /\ events \in 0..MaxJobs
    /\ works \in [Jobs -> {"new", "move", "analysis", "gone"}]
    /\ moves \in [Jobs -> Stacks]
    /\ time \in [Jobs -> {"none", "fresh", "old"}]
    /\ queued \in [Jobs -> 0..AbortLimit + InvalidLimit]
    /\ failures \in [Jobs -> [Counters -> Nat]]
    /\ \A id \in Jobs : \A k \in Counters :
          failures[id][k] <= LimitOf[k] + Cardinality(Workers) - 1
    /\ pc \in [Workers -> {"idle", "work", "lock", "saving", "telling",
                           "recording", "adjudicate", "deliver", "error"}]
    /\ job \in [Workers -> Jobs \cup {NoJob}]

Init ==
    /\ stack = <<>> /\ by = <<>> /\ ended = "no" /\ line = <<>>
    /\ human = "idle"
    /\ events = 0
    /\ works = [id \in Jobs |-> "new"]
    /\ moves = [id \in Jobs |-> <<>>]
    /\ time = [id \in Jobs |-> "none"]
    /\ queued = [id \in Jobs |-> 0]
    /\ failures = [id \in Jobs |-> [k \in Counters |-> 0]]
    /\ pc = [w \in Workers |-> "idle"]
    /\ job = [w \in Workers |-> NoJob]

-----------------------------------------------------------------------------
(* The table of jobs and its queue *)

\* A job that leaves the table is skipped by every later get_work(); of what is
\* kept in it only the last counter is read again.
Forget(ids) ==
    /\ works' = [id \in Jobs |-> IF id \in ids THEN "gone" ELSE works[id]]
    /\ queued' = [id \in Jobs |-> IF id \in ids THEN 0 ELSE queued[id]]
    /\ time' = [id \in Jobs |-> IF id \in ids THEN "none" ELSE time[id]]
    /\ failures' = [id \in Jobs |-> [k \in Counters |->
                        IF id \in ids /\ k # "invalid" THEN 0 ELSE failures[id][k]]]

Drop(id) == Forget({id})

Requeue(id) ==
    /\ time' = [time EXCEPT ![id] = "fresh"]
    /\ queued' = [queued EXCEPT ![id] = @ + 1]

Count(id, ks) ==
    failures' = [failures EXCEPT ![id] =
                    [k \in Counters |-> @[k] + (IF k \in ks THEN 1 ELSE 0)]]

Reached(id, k) == failures[id][k] + 1 >= LimitOf[k]

Goto(w, l) ==
    /\ pc' = [pc EXCEPT ![w] = l]
    /\ job' = [job EXCEPT ![w] = IF l \in {"idle", "error"} THEN NoJob ELSE @]

Assign(w, id, l) ==
    /\ pc' = [pc EXCEPT ![w] = l]
    /\ job' = [job EXCEPT ![w] = id]

\* A new job for the position on the board, while the jobs in stale leave.
Enqueue(kind, t, stale) ==
    \E id \in Jobs :
        /\ works[id] = "new" /\ \A other \in 1..(id - 1) : works[other] # "new"
        /\ works' = [j \in Jobs |-> IF j = id THEN kind
                                   ELSE IF j \in stale THEN "gone" ELSE works[j]]
        /\ moves' = [moves EXCEPT ![id] = stack]
        /\ time' = [j \in Jobs |-> IF j = id THEN t
                                  ELSE IF j \in stale THEN "none" ELSE time[j]]
        /\ queued' = [j \in Jobs |-> IF j = id THEN 1
                                    ELSE IF j \in stale THEN 0 ELSE queued[j]]
        /\ UNCHANGED failures

-----------------------------------------------------------------------------
(* The human and the bot task *)

\* Bound: the human moves only if there is an id for the job.
Room == Cardinality({id \in Jobs : works[id] = "new"}) > events

\* A message for move_lock.  A move names its position (positionId): it is the
\* turn of the human, who has been told.  Before ply 2 no takeback is allowed.
HumanSends ==
    /\ human = "idle" /\ Live
    /\ \/ (Len(stack) >= 2 \/ line # <<>>) /\ human' = "takeback"
       \/ /\ ~EngineToMove /\ Len(stack) < MaxPly /\ Room
          /\ \A w \in Workers : pc[w] # "saving"
          /\ human' = "move"
    /\ line' = Append(line, Human)
    /\ UNCHANGED <<gameVars, events, workVars, workerVars>>

CanMove == Live /\ ~EngineToMove

\* handle_move(): nothing happens out of turn or in a finished game.
HumanMove ==
    /\ human = "move" /\ Holds(Human)
    /\ \/ /\ CanMove
          /\ \E m \in HumanMoves : stack' = Append(stack, m)
          /\ by' = Append(by, NoJob)
          /\ events' = events + 1
       \/ ~CanMove /\ UNCHANGED <<stack, by, events>>
    /\ human' = "idle"
    /\ line' = Tail(line)
    /\ UNCHANGED <<ended, workVars, workerVars>>

PopMove ==
    /\ stack' = SubSeq(stack, 1, Len(stack) - 1)
    /\ by' = SubSeq(by, 1, Len(by) - 1)

\* handle_takeback(): the first ply is popped, and its removal from the
\* database awaited.
TakebackPop ==
    /\ human = "takeback" /\ Holds(Human)
    /\ \/ /\ Live /\ Len(stack) >= 2
          /\ PopMove
          /\ human' = IF EngineToMove THEN "idle" ELSE "rewind"
       \/ /\ ~Live \/ Len(stack) < 2
          /\ human' = "idle"
          /\ UNCHANGED <<stack, by>>
    /\ line' = IF human' = "idle" THEN Tail(line) ELSE line
    /\ UNCHANGED <<ended, events, workVars, workerVars>>

\* It was the turn of the human: a second ply goes.
TakebackRewind ==
    /\ human = "rewind"
    /\ PopMove
    /\ human' = "idle"
    /\ line' = Tail(line)
    /\ UNCHANGED <<ended, events, workVars, workerVars>>

\* The game ends in some other way.
GameEnds ==
    /\ Live
    /\ ended' = "other"
    /\ UNCHANGED <<stack, by, line, human, events, workVars, workerVars>>

\* game_task(): each game state becomes a job, whoever is to move; the game ends
\* if no worker has been heard of lately (has_available_fishnet_worker()).
BotTask ==
    /\ events > 0 /\ Live
    /\ events' = events - 1
    /\ \/ /\ Enqueue("move", "fresh", {})
          /\ UNCHANGED ended
       \/ /\ ended' = "other"
          /\ UNCHANGED workVars
    /\ UNCHANGED <<stack, by, line, human, pc, job>>

\* handle_analysis(): a job without a time; an analysis that takes too long is
\* dropped (drop_stale_analysis_work).  Bound: no second one besides.
RequestAnalysis ==
    LET stale == {id \in Jobs : works[id] = "analysis" /\ time[id] = "old"}
    IN  /\ ~Live
        /\ \A id \in Jobs : works[id] = "analysis" => id \in stale
        /\ Enqueue("analysis", "none", stale)
        /\ UNCHANGED <<gameVars, line, human, events, pc, job>>

\* drop_fishnet_work_for_game(): the game leaves the cache, which a pending
\* analysis prevents.
Evict ==
    /\ ~Live
    /\ \A id \in Jobs : works[id] # "analysis"
    /\ \E id \in Jobs : Pending(id)
    /\ Forget({id \in Jobs : Pending(id)})
    /\ UNCHANGED <<gameVars, line, human, events, moves, workerVars>>

TimePasses(id) ==
    /\ Pending(id) /\ time[id] = "fresh"
    /\ time' = [time EXCEPT ![id] = "old"]
    /\ UNCHANGED <<gameVars, line, human, events, works, moves, queued,
                   failures, workerVars>>


-----------------------------------------------------------------------------
(* Requests of a worker *)

Unqueued == \A id \in Jobs : Pending(id) => queued[id] = 0

\* get_work(), from fishnet_acquire() or at the end of another request: the
\* next entry of the queue, moves before analyses.
Fetch(w, id) ==
    /\ Pending(id) /\ queued[id] > 0
    /\ \/ works[id] = "move"
       \/ \A other \in Jobs : works[other] = "move" => queued[other] = 0
    /\ queued' = [queued EXCEPT ![id] = @ - 1]
    /\ time' = [time EXCEPT ![id] = "fresh"]
    /\ Assign(w, id, "work")
    /\ UNCHANGED <<works, failures>>

\* Mutant of Reissue: the limit is not looked at.
Reissue_Unlimited(w, id) ==
    /\ Unqueued /\ Pending(id) /\ time[id] = "old"
    /\ Count(id, {"stale"})
    /\ time' = [time EXCEPT ![id] = "fresh"]
    /\ Assign(w, id, "work")
    /\ UNCHANGED <<works, queued>>

\* Mutant of Reissue: assignments that were never answered are not counted.
Reissue_Uncounted(w, id) ==
    /\ Unqueued /\ Pending(id) /\ time[id] = "old"
    /\ time' = [time EXCEPT ![id] = "fresh"]
    /\ Assign(w, id, "work")
    /\ UNCHANGED <<failures, works, queued>>

\* get_work(): nothing is queued; a job whose worker is silent is handed out
\* again, or given up.
Reissue(w, id) ==
    /\ Unqueued /\ Pending(id) /\ time[id] = "old"
    /\ Count(id, {"stale"})
    /\ \/ /\ ~Reached(id, "stale")
          /\ time' = [time EXCEPT ![id] = "fresh"]
          /\ Assign(w, id, "work")
       \/ /\ Reached(id, "stale")
          /\ Assign(w, id, "recording")
          /\ UNCHANGED time
    /\ UNCHANGED <<works, queued>>

GetWork(w) ==
    /\ pc[w] \in {"idle", "error"}
    /\ \/ \E id \in Jobs : Fetch(w, id) \/ Reissue(w, id)
       \/ /\ Unqueued /\ \A id \in Jobs : ~(Pending(id) /\ time[id] = "old")
          /\ Goto(w, "idle")
          /\ UNCHANGED <<works, time, queued, failures>>
    /\ UNCHANGED <<gameVars, line, human, events, moves>>

\* The process dies, or its answer is lost.
Vanish(w) ==
    /\ pc[w] = "work"
    /\ Goto(w, "idle")
    /\ UNCHANGED <<gameVars, line, human, events, workVars>>

\* _handle_invalid_fishnet_move()
HandleInvalid(w, id) ==
    /\ Count(id, {"invalid"})
    /\ \/ /\ Reached(id, "invalid")
          /\ Goto(w, "recording")
          /\ UNCHANGED <<time, queued>>
       \/ /\ ~Reached(id, "invalid")
          /\ Goto(w, "idle")
          /\ IF Pending(id) THEN Requeue(id) ELSE UNCHANGED <<time, queued>>

\* fishnet_move() without a move.
AnswerNothing(w) ==
    /\ pc[w] = "work" /\ works[job[w]] = "move"
    /\ HandleInvalid(w, job[w])
    /\ UNCHANGED <<gameVars, line, human, events, works, moves>>

\* Mutant of AnswerMove: the position is not compared.
AnswerMove_Unchecked(w) ==
    LET id == job[w]
    IN  /\ pc[w] = "work" /\ moves[id] \in Seq(HumanMoves \cup EngineMoves)
        /\ \/ /\ works[id] = "gone"
              /\ Goto(w, "idle")
              /\ UNCHANGED line
           \/ /\ works[id] = "move"
              /\ line' = Append(line, w)
              /\ Goto(w, "lock")
        /\ UNCHANGED <<gameVars, human, events, workVars>>

\* fishnet_move(): the job is unknown by now, or for another position, or the
\* move waits for move_lock.
AnswerMove(w) ==
    LET id == job[w]
    IN  /\ pc[w] = "work"
        /\ \/ /\ works[id] = "gone"
              /\ Goto(w, "idle")
              /\ UNCHANGED <<line, works, time, queued, failures>>
           \/ /\ works[id] = "move" /\ moves[id] # stack
              /\ Drop(id)
              /\ Goto(w, "idle")
              /\ UNCHANGED line
           \/ /\ works[id] = "move" /\ moves[id] = stack
              /\ line' = Append(line, w)
              /\ Goto(w, "lock")
              /\ UNCHANGED <<works, time, queued, failures>>
        /\ UNCHANGED <<gameVars, human, events, moves>>

\* play_move() with the lock: out of turn or after the end it does nothing.
PlayIgnored(w) ==
    /\ pc[w] = "lock" /\ Holds(w)
    /\ ~Live \/ ~EngineToMove
    /\ line' = Tail(line)
    /\ Drop(job[w])
    /\ Goto(w, "idle")
    /\ UNCHANGED <<gameVars, human, events, moves>>

Playing(w) == pc[w] = "lock" /\ Holds(w) /\ Live /\ EngineToMove

\* The move is on the board, and is being saved.
PlayPush(w) ==
    /\ Playing(w)
    /\ \E m \in EngineMoves : stack' = Append(stack, m)
    /\ by' = Append(by, job[w])
    /\ Goto(w, "saving")
    /\ UNCHANGED <<ended, line, human, events, workVars>>

\* The engine does not know the move (SystemError).
PlayInvalid(w) ==
    /\ Playing(w)
    /\ ended' = "other"
    /\ line' = Tail(line)
    /\ Drop(job[w])
    /\ Goto(w, "idle")
    /\ UNCHANGED <<stack, by, human, events, moves>>

\* play_move() raises, before or after the move has reached the board.
PlayRaises(w) ==
    /\ Playing(w) \/ pc[w] = "saving"
    /\ line' = Tail(line)
    /\ HandleInvalid(w, job[w])
    /\ UNCHANGED <<gameVars, human, events, works, moves>>

\* The move is saved; the bot itself and the human are told.
PlaySaved(w) ==
    /\ pc[w] = "saving"
    /\ events' = IF Live THEN events + 1 ELSE events
    /\ Goto(w, "telling")
    /\ UNCHANGED <<gameVars, line, human, workVars>>

\* Everybody has been told.
PlayDone(w) ==
    /\ pc[w] = "telling"
    /\ line' = Tail(line)
    /\ Drop(job[w])
    /\ Goto(w, "idle")
    /\ UNCHANGED <<gameVars, human, events, moves>>

\* fishnet_analysis(): every row is there; the rows are sent to the user.  (A
\* partial report changes no state of the job.)
AnswerAnalysis(w) ==
    /\ pc[w] = "work" /\ works[job[w]] = "analysis"
    /\ Goto(w, "deliver")
    /\ UNCHANGED <<gameVars, line, human, events, workVars>>

\* The job is deleted; KeyError if another request has done so.
Deliver(w) ==
    /\ pc[w] = "deliver"
    /\ \/ Pending(job[w]) /\ Drop(job[w]) /\ Goto(w, "idle")
       \/ ~Pending(job[w]) /\ Goto(w, "error") /\ UNCHANGED <<works, time, queued, failures>>
    /\ UNCHANGED <<gameVars, line, human, events, moves>>

\* fishnet_abort()
Abort(w) ==
    LET id == job[w]
    IN  /\ pc[w] = "work"
        /\ \/ /\ ~Pending(id)
              /\ Goto(w, "idle")
              /\ UNCHANGED <<time, queued, failures>>
           \/ /\ Pending(id)
              /\ \E ks \in {{"abort"}, {"abort", "engine"}} :
                    /\ Count(id, ks)
                    /\ \/ /\ \E k \in ks : Reached(id, k)
                          /\ Goto(w, "recording")
                          /\ UNCHANGED <<time, queued>>
                       \/ /\ \A k \in ks : ~Reached(id, k)
                          /\ Goto(w, "idle")
                          /\ Requeue(id)
        /\ UNCHANGED <<gameVars, line, human, events, works, moves>>

\* Mutant of DropTerminal: the engine does not lose the game.
DropTerminal_Only(w) ==
    /\ pc[w] = "recording"
    /\ IF Pending(job[w]) THEN Drop(job[w]) ELSE UNCHANGED <<works, time, queued, failures>>
    /\ Goto(w, "idle")
    /\ UNCHANGED <<gameVars, line, human, events, moves>>

\* _drop_terminal_work_failure(): the failure is recorded, then the job is
\* deleted, KeyError if it is gone, and a move job costs the engine the game.
DropTerminal(w) ==
    LET id == job[w]
    IN  /\ pc[w] = "recording"
        /\ \/ /\ ~Pending(id)
              /\ Goto(w, "error")
              /\ UNCHANGED <<works, time, queued, failures, line>>
           \/ /\ Pending(id)
              /\ Drop(id)
              /\ \/ /\ works[id] = "move" /\ Live
                    /\ line' = Append(line, w)
                    /\ Goto(w, "adjudicate")
                 \/ /\ works[id] = "analysis" \/ ~Live
                    /\ Goto(w, "idle")
                    /\ UNCHANGED line
        /\ UNCHANGED <<gameVars, human, events, moves>>

\* _adjudicate_failing_move_work() with the lock: game_ended().
Adjudicate(w) ==
    /\ pc[w] = "adjudicate" /\ Holds(w)
    /\ ended' = IF Live THEN "resign" ELSE ended
    /\ line' = Tail(line)
    /\ Goto(w, "idle")
    /\ UNCHANGED <<stack, by, human, events, workVars>>

-----------------------------------------------------------------------------

\* A worker is done with a job, one way or another.
Report(w) ==
    \/ Vanish(w) \/ AnswerNothing(w) \/ AnswerMove(w) \/ AnswerAnalysis(w) \/ Abort(w)

Play(w) == PlayIgnored(w) \/ PlayPush(w) \/ PlayInvalid(w) \/ PlayRaises(w) \/ PlaySaved(w)
           \/ PlayDone(w)

Continue(w) == Play(w) \/ Deliver(w) \/ DropTerminal(w) \/ Adjudicate(w)

HumanStep == HumanMove \/ TakebackPop \/ TakebackRewind

\* What happens while nobody is about to run with the lock.
Request(w) == Settled /\ GetWork(w)
Answer(w) == Settled /\ Report(w)
Game == Settled /\ (HumanSends \/ GameEnds)
Bot == Settled /\ BotTask
Table == Settled /\ (RequestAnalysis \/ Evict)
Timeout(id) == Settled /\ TimePasses(id)

Next ==
    \/ Game \/ HumanStep \/ Bot \/ Table
    \/ \E id \in Jobs : Timeout(id)
    \/ \E w \in Workers : Request(w) \/ Answer(w) \/ Continue(w)

Spec == Init /\ [][Next]_vars

\* Coroutines that are ready run, time passes, and a worker that has a job is
\* through with it some day and polls.
Tasks ==
    \/ Bot
    \/ \E id \in Jobs : Timeout(id)
    \/ \E w \in Workers : Continue(w) \/ Request(w) \/ Answer(w)

Fairness == WF_vars(HumanStep) /\ WF_vars(Tasks)

FairSpec == Spec /\ Fairness

-----------------------------------------------------------------------------
(* Properties *)

\* A job puts one move on the board, though it may be handed out again and be
\* answered by both workers (get_work, fishnet_move).
JobPlayedOnce ==
    \A i, j \in DOMAIN by : by[i] = by[j] /\ by[i] # NoJob => i = j

\* "Allow the fishnet move only if the server-side move stack is still the one
\* used to create the work item" (fishnet_move).
EngineMoveForItsPosition ==
    [][\A m \in EngineMoves :
          stack' = Append(stack, m) =>
              \E w \in Workers : Holds(w) /\ moves[job[w]] = stack]_vars

\* "A dead worker/process cannot make the same job circulate forever"
\* (MOVE_STALE_REISSUE_LIMIT): every job leaves the table.
JobsEnd == \A id \in Jobs : Pending(id) ~> ~Pending(id)

\* The human does not wait for ever: the engine moves, loses, or the human
\* takes back.
EngineTurnEnds == []<>(~Live \/ ~EngineToMove)

=============================================================================
