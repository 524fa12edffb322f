--------------------------- MODULE RoundGameProof ---------------------------
(***************************************************************************)
(* Proofs about RoundGame for any number of websockets and abandon tasks,  *)
(* any bound on the plies and every kind of game.                          *)
(***************************************************************************)
EXTENDS RoundGame, TLAPS

USE PlayersAssumption, ProcsAssumption, KindsAssumption, BoundsAssumption
USE DEF entryVars

\* The messages that ask for the end of the game.
LEMMA EndReasons == DOMAIN EndPc = {"abort", "resign", "abandon", "flag"}
  BY DEF EndPc

\* The awaits inside "async with move_lock".
Critical == {"move_offers", "move_push", "move_save", "move_check",
             "takeback_pop", "takeback_count", "takeback_state", "ceval_db"}

\* A handler at one of them holds the lock.
LockHeld == \A c \in Conns : pc[c] \in Critical => lock = c

\* The game is in the lobby's count exactly when counted says so.
CountInStep == gcnt = IF counted THEN 1 ELSE 0

\* The handler of a move has a ply to play, that of a takeback plies to rewind.
PliesLeft ==
    \A c \in Conns :
        /\ pc[c] \in {"move_offers", "move_push"} => ply < MaxPly
        /\ pc[c] = "takeback_pop" => rewind.left <= ply

TypeInv == TypeOK /\ LockHeld /\ CountInStep /\ PliesLeft

\* The step brings no handler to an await inside the lock.
NoNewCritical == \A c \in Conns : pc'[c] \in Critical => pc'[c] = pc[c]

-----------------------------------------------------------------------------
(* What the helpers of the model keep. *)

\* A coroutine that returns keeps the control state well formed and releases
\* nobody else's lock.
LEMMA ReturnControl ==
  ASSUME ControlTypeOK, LockHeld, NEW p \in Procs, Return(p)
  PROVE  ControlTypeOK' /\ LockHeld' /\ NoNewCritical
<1>1. pc' \in [Procs -> ConnPcs \cup TaskPcs \cup ClockPcs]
  BY DEF Return, ControlTypeOK, ConnPcs, TaskPcs, ClockPcs
<1>2. /\ \A c \in Conns : pc'[c] \in ConnPcs
      /\ \A t \in Tasks : pc'[t] \in TaskPcs
      /\ pc'[ClockTask] \in ClockPcs
  BY DEF Return, ControlTypeOK, ConnPcs, TaskPcs, ClockPcs, Procs
<1>3. lock' \in Procs \cup {None}
  BY DEF Return, ControlTypeOK
<1>4. abandonTask' \in [Players -> Tasks \cup {None}] /\ lost' \subseteq Tasks
  <2>1. CASE p \in Tasks
    BY <2>1 DEF Return, TaskDone, ControlTypeOK
  <2>2. CASE p \notin Tasks
    BY <2>2 DEF Return, ControlTypeOK
  <2> QED
    BY <2>1, <2>2
<1>5. NoNewCritical /\ LockHeld'
  BY DEF Return, ControlTypeOK, LockHeld, NoNewCritical, Critical, Procs
<1> QED
  BY <1>1, <1>2, <1>3, <1>4, <1>5 DEF ControlTypeOK

\* So does save_game(), called with the lock as it is or just acquired.
LEMMA EnterSaveControl ==
  ASSUME ControlTypeOK, LockHeld, NEW p \in Procs, NEW l,
         l = lock \/ (lock = None /\ l = p), EnterSave(p, l)
  PROVE  ControlTypeOK' /\ LockHeld' /\ NoNewCritical
<1>1. CASE Return(p)
  BY <1>1, ReturnControl
<1>2. CASE /\ CancelClock(p)
           /\ lock' = l
           /\ UNCHANGED <<abandonTask, lost>>
  <2>1. pc' \in [Procs -> ConnPcs \cup TaskPcs \cup ClockPcs]
    BY <1>2 DEF CancelClock, ControlTypeOK, ConnPcs, TaskPcs, ClockPcs, SavePcs
  <2>2. /\ \A c \in Conns : pc'[c] \in ConnPcs
        /\ \A t \in Tasks : pc'[t] \in TaskPcs
        /\ pc'[ClockTask] \in ClockPcs
    BY <1>2 DEF CancelClock, ControlTypeOK, ConnPcs, TaskPcs, ClockPcs, SavePcs, Procs
  <2>3. lock' \in Procs \cup {None} /\ abandonTask' \in [Players -> Tasks \cup {None}] /\ lost' \subseteq Tasks
    BY <1>2 DEF ControlTypeOK
  <2>4. NoNewCritical /\ LockHeld'
    BY <1>2 DEF CancelClock, ControlTypeOK, LockHeld, NoNewCritical, Critical, Procs
  <2> QED
    BY <2>1, <2>2, <2>3, <2>4 DEF ControlTypeOK
<1> QED
  BY <1>1, <1>2 DEF EnterSave

\* update_status() and game_ended() yield statuses and results.
LEMMA UpdateStatusType ==
  ASSUME DataTypeOK, NEW s \in Status, NEW r \in Result, UpdateStatus(s, r)
  PROVE  status' \in Status /\ result' \in Result
  BY DEF UpdateStatus, DataTypeOK

LEMMA GameEndedControl ==
  ASSUME TypeOK, LockHeld, NEW p \in Procs, NEW u \in Players,
         NEW reason \in {"abort", "resign", "flag", "abandon"}, NEW l,
         l = lock \/ (lock = None /\ l = p), GameEnded(p, u, reason, l)
  PROVE  /\ ControlTypeOK' /\ LockHeld' /\ NoNewCritical
         /\ status' \in Status /\ result' \in Result
         /\ saved' \in BOOLEAN /\ running' \in BOOLEAN
<1>1. CASE /\ \E r \in Result : UpdateStatus(LoserStatus[reason], r)
           /\ EnterSave(p, l)
  <2>1. LoserStatus[reason] \in Status
    BY DEF LoserStatus, Status, Ended
  <2>2. status' \in Status /\ result' \in Result
    BY <1>1, <2>1, UpdateStatusType DEF TypeOK
  <2>3. saved' \in BOOLEAN /\ running' \in BOOLEAN
    BY <1>1 DEF EnterSave, TypeOK, DataTypeOK
  <2> QED
    BY <1>1, <2>2, <2>3, EnterSaveControl DEF TypeOK
<1>2. CASE Return(p) /\ UNCHANGED <<status, result, saved, running>>
  BY <1>2, ReturnControl DEF TypeOK, DataTypeOK
<1> QED
  BY <1>1, <1>2 DEF GameEnded, Loses, Result

\* What holds of the records holds of them where they stay the same.
LEMMA RecordsKept ==
  ASSUME DataTypeOK, UNCHANGED <<takebackOffer, newData, doc>>
  PROVE  /\ takebackOffer' \in [by : Players \cup {None}, ply : 0..MaxPly]
         /\ newData' \in [delete : BOOLEAN, m : 0..MaxPly, s : Status, r : Result]
         /\ doc' \in [exists : BOOLEAN, m : 0..MaxPly, s : Status, r : Result]
  BY DEF DataTypeOK

LEMMA RestartType ==
  ASSUME DataTypeOK, NEW n \in 0..MaxPly, Restart(n)
  PROVE  clockPly' \in 0..MaxPly /\ running' \in BOOLEAN /\ expired' \in BOOLEAN
<1>1. clockPly' \in 0..MaxPly /\ running' \in BOOLEAN
  BY Zenon DEF Restart
<1>2. expired' \in BOOLEAN
  BY Zenon DEF Restart, DataTypeOK
<1> QED
  BY <1>1, <1>2

-----------------------------------------------------------------------------

\* The records that stand for no document.
LEMMA EmptyRecords ==
  /\ NoData \in [delete : BOOLEAN, m : 0..MaxPly, s : Status, r : Result]
  /\ NoDoc \in [exists : BOOLEAN, m : 0..MaxPly, s : Status, r : Result]
<1>1. 0 \in 0..MaxPly /\ "CREATED" \in Status /\ "*" \in Result
  BY DEF Status, Live, Result
<1> QED
  BY <1>1 DEF NoData, NoDoc

\* The final write leaves a document behind, or none.
LEMMA LandedType ==
  ASSUME DataTypeOK
  PROVE  Landed \in [exists : BOOLEAN, m : 0..MaxPly, s : Status, r : Result]
<1>1. CASE newData.delete
  BY <1>1, EmptyRecords DEF Landed
<1>2. CASE ~newData.delete
  <2>1. newData.m \in 0..MaxPly /\ newData.s \in Status /\ newData.r \in Result
    BY DEF DataTypeOK
  <2> QED
    BY <1>2, <2>1 DEF Landed, DataTypeOK
<1> QED
  BY <1>1, <1>2

LEMMA InitType == Init => TypeInv
<1> SUFFICES ASSUME Init PROVE TypeInv
  OBVIOUS
<1>1. pc \in [Procs -> ConnPcs \cup TaskPcs \cup ClockPcs]
  BY DEF Init, Procs, ConnPcs, TaskPcs, ClockPcs
<1>2. \A c \in Conns : pc[c] = "closed"
  BY DEF Init, Procs
<1>3. \A t \in Tasks : pc[t] = "none"
  BY DEF Init, Procs
<1>4. pc[ClockTask] = "tick"
  BY DEF Init, Procs
<1>5. newData \in [delete : BOOLEAN, m : 0..MaxPly, s : Status, r : Result] /\ rewind \in [left : 0..1, s : Status] /\ doc \in [exists : BOOLEAN, m : 0..MaxPly, s : Status, r : Result]
  <2>1. status \in Status /\ ply \in 0..MaxPly
    BY DEF Init, Status, Live
  <2> QED
    BY <2>1 DEF Init, NoData, NoRewind, Status, Live, Ended, Result
<1>6. takebackOffer \in [by : Players \cup {None}, ply : 0..MaxPly]
  BY DEF Init, NoTakeback
<1>7. abandonTask \in [Players -> Tasks \cup {None}] /\ lost \subseteq Tasks
  BY DEF Init
<1>8. running \in BOOLEAN /\ expired \in BOOLEAN /\ timeUp \in BOOLEAN /\ restored \in BOOLEAN
  <2>1. CASE NewClock
    BY <2>1, Zenon DEF NewClock
  <2>2. CASE LoadedClock(ply)
    BY <2>2, Zenon DEF LoadedClock
  <2> QED
    BY <2>1, <2>2 DEF Init
<1>11. counted \in BOOLEAN /\ gcnt \in {0, 1} /\ CountInStep
  <2>1. counted = (ply > 0) /\ gcnt = IF ply > 0 THEN 1 ELSE 0
    BY DEF Init
  <2>2. gcnt \in {0, 1} /\ CountInStep
    BY <2>1 DEF CountInStep
  <2>3. (ply > 0) \in BOOLEAN
    OBVIOUS
  <2>4. counted \in BOOLEAN
    BY <2>1, <2>3, Zenon
  <2> QED
    BY <2>2, <2>4
<1>12. ply \in 0..MaxPly
  BY DEF Init
<1>13. kind \in Kinds /\ status \in Status /\ result \in Result /\ clockPly = ply
  BY DEF Init, Status, Live, Result
<1>14. saved = FALSE /\ evicted = FALSE /\ cutSave = FALSE /\ drawOffers = {} /\ returned = {}
       /\ flagPly = 0 /\ effects = 0 /\ lock = None
  BY DEF Init
<1>15. DataTypeOK
  <2>1. /\ clockPly \in 0..MaxPly /\ flagPly \in 0..MaxPly /\ effects \in Nat
        /\ drawOffers \subseteq Players /\ returned \subseteq Tasks
    BY <1>12, <1>13, <1>14
  <2>2. saved \in BOOLEAN /\ evicted \in BOOLEAN /\ cutSave \in BOOLEAN
    BY <1>14, Zenon
  <2> QED
    BY <1>5, <1>6, <1>8, <1>11, <1>12, <1>13, <2>1, <2>2, Zenon DEF DataTypeOK
<1>16. ControlTypeOK
  BY <1>1, <1>2, <1>3, <1>4, <1>7, <1>14 DEF ControlTypeOK, ConnPcs, TaskPcs, ClockPcs
<1>9. TypeOK
  BY <1>15, <1>16 DEF TypeOK
<1>10. LockHeld /\ PliesLeft
  BY <1>2 DEF LockHeld, PliesLeft, Critical
<1> QED
  BY <1>9, <1>10, <1>11 DEF TypeInv

-----------------------------------------------------------------------------
(* Every step keeps the types and the lock discipline. *)

\* A step that moves one websocket's handler from await to await.
LEMMA ConnControl ==
  ASSUME ControlTypeOK, LockHeld, NEW c \in Conns, NEW v \in ConnPcs,
         pc' = [pc EXCEPT ![c] = v], UNCHANGED <<abandonTask, lost>>,
         lock' = lock \/ (lock = None /\ lock' = c),
         v \in Critical => lock' = c
  PROVE  ControlTypeOK' /\ LockHeld'
<1>1. pc' \in [Procs -> ConnPcs \cup TaskPcs \cup ClockPcs]
  BY DEF ControlTypeOK
<1>2. /\ \A d \in Conns : pc'[d] = IF d = c THEN v ELSE pc[d]
      /\ \A t \in Tasks : pc'[t] = pc[t]
      /\ pc'[ClockTask] = pc[ClockTask]
  BY DEF ControlTypeOK, Procs
<1>3. LockHeld'
  BY <1>2 DEF LockHeld, Critical, Procs
<1> QED
  BY <1>1, <1>2, <1>3 DEF ControlTypeOK, Procs

\* A step that moves another coroutine and leaves the lock alone.
LEMMA TaskControl ==
  ASSUME ControlTypeOK, LockHeld, NEW p \in Tasks \cup {ClockTask}, NEW v,
         v \in (IF p \in Tasks THEN TaskPcs ELSE ClockPcs),
         pc' = [pc EXCEPT ![p] = v], UNCHANGED <<abandonTask, lost, lock>>
  PROVE  ControlTypeOK' /\ LockHeld' /\ NoNewCritical
<1>1. pc' \in [Procs -> ConnPcs \cup TaskPcs \cup ClockPcs]
  BY DEF ControlTypeOK
<1>2. /\ \A d \in Conns : pc'[d] = pc[d]
      /\ \A t \in Tasks : pc'[t] = IF t = p THEN v ELSE pc[t]
      /\ pc'[ClockTask] = IF p = ClockTask THEN v ELSE pc[ClockTask]
  BY DEF ControlTypeOK, Procs
<1>3. LockHeld' /\ NoNewCritical
  BY <1>2 DEF LockHeld, NoNewCritical, Critical
<1> QED
  BY <1>1, <1>2, <1>3 DEF ControlTypeOK, Procs

\* Without a new handler inside the lock and a new number of plies the plies
\* still suffice.
LEMMA PliesKept ==
  ASSUME PliesLeft, NoNewCritical, ply' = ply, rewind' = rewind
  PROVE  PliesLeft'
  BY DEF PliesLeft, NoNewCritical, Critical

\* So they do when one handler moves on and reaches neither a push nor a pop.
LEMMA PliesKeptConn ==
  ASSUME ControlTypeOK, PliesLeft, NEW c \in Conns, NEW v,
         v \notin {"move_offers", "move_push", "takeback_pop"},
         pc' = [pc EXCEPT ![c] = v], ply' = ply, rewind' = rewind
  PROVE  PliesLeft'
  BY DEF PliesLeft, ControlTypeOK, Procs

LEMMA SaveGameType ==
  ASSUME TypeInv, NEW p \in Procs, SaveGame(p)
  PROVE  TypeInv'
<1> USE DEF TypeInv, TypeOK
<1>1. CASE SaveUncount(p)
  <2>1. ControlTypeOK'
    BY <1>1 DEF SaveUncount, ControlTypeOK, ConnPcs, TaskPcs, ClockPcs, SavePcs, Procs
  <2>4. LockHeld' /\ NoNewCritical
    BY <1>1 DEF SaveUncount, ControlTypeOK, LockHeld, NoNewCritical, Critical, Procs
  <2>2. gcnt' = 0 /\ counted' = FALSE
    BY <1>1 DEF SaveUncount, CountInStep
  <2>5. CountInStep'
    BY <2>2 DEF CountInStep
  <2>3. DataTypeOK'
    <3>1. UNCHANGED <<kind, ply, status, result, saved, offerVars, clockVars,
                      localVars, dbVars, evicted, histVars>>
      BY <1>1 DEF SaveUncount
    <3> QED
      BY <2>2, <3>1, ZenonT(40) DEF DataTypeOK, offerVars, clockVars, localVars, dbVars, histVars
  <2> QED
    <3>1. PliesLeft'
      BY <1>1, <2>4, PliesKept DEF SaveUncount, localVars
    <3> QED
      BY <2>1, <2>3, <2>4, <2>5, <3>1
<1>2. CASE SaveIssue(p)
  <2>1. ControlTypeOK' /\ LockHeld' /\ NoNewCritical
    BY <1>2 DEF SaveIssue, ControlTypeOK, LockHeld, NoNewCritical, Critical, ConnPcs, TaskPcs, ClockPcs, SavePcs, Procs
  <2>2. newData' \in [delete : BOOLEAN, m : 0..MaxPly, s : Status, r : Result]
    <3> DEFINE short == ply < 3 /\ kind # "tournament"
    <3>1. short \in BOOLEAN
      OBVIOUS
    <3>2. newData' = [delete |-> short, m |-> ply, s |-> status, r |-> result]
      BY <1>2 DEF SaveIssue
    <3> HIDE DEF short
    <3> QED
      BY <3>1, <3>2 DEF DataTypeOK
  <2>3. DataTypeOK' /\ CountInStep'
    BY <1>2, <2>2 DEF SaveIssue, DataTypeOK, CountInStep, gameVars, offerVars, clockVars, dbVars, histVars
  <2> QED
    BY <1>2, <2>1, <2>3, PliesKept DEF SaveIssue, gameVars
<1>3. CASE SaveWrite(p)
  <2>1. UNCHANGED <<gameVars, offerVars, clockVars, flagPly, rewind, gcnt, effects,
                    evicted, histVars>>
    BY <1>3 DEF SaveWrite
  <2>2. Landed \in [exists : BOOLEAN, m : 0..MaxPly, s : Status, r : Result]
    BY LandedType
  <2>3. newData' \in [delete : BOOLEAN, m : 0..MaxPly, s : Status, r : Result]
    <3>1. newData' = newData \/ newData' = NoData
      BY <1>3 DEF SaveWrite
    <3> QED
      BY <3>1, EmptyRecords DEF DataTypeOK
  <2>4. DataTypeOK' /\ CountInStep'
    <3>1. doc' = Landed
      BY <1>3 DEF SaveWrite
    <3> QED
      BY <2>1, <2>2, <2>3, <3>1 DEF DataTypeOK, CountInStep, gameVars, offerVars, clockVars, histVars
  <2>5. ControlTypeOK' /\ LockHeld' /\ NoNewCritical
    <3>1. CASE Return(p)
      BY <3>1, ReturnControl
    <3>2. CASE pc' = [pc EXCEPT ![p] = "save_effects"] /\ UNCHANGED <<lock, abandonTask, lost>>
      <4>1. ControlTypeOK'
        BY <1>3, <3>2 DEF SaveWrite, ControlTypeOK, ConnPcs, TaskPcs, ClockPcs, SavePcs, Procs
      <4>2. LockHeld' /\ NoNewCritical
        BY <3>2 DEF ControlTypeOK, LockHeld, NoNewCritical, Critical, Procs
      <4> QED
        BY <4>1, <4>2
    <3> QED
      BY <1>3, <3>1, <3>2 DEF SaveWrite
  <2> QED
    BY <2>1, <2>4, <2>5, PliesKept DEF gameVars
<1>4. CASE SaveEffects(p)
  <2>1. UNCHANGED <<gameVars, offerVars, clockVars, flagPly, rewind, gcnt, doc,
                    evicted, histVars>>
    BY <1>4 DEF SaveEffects
  <2>2. newData' \in [delete : BOOLEAN, m : 0..MaxPly, s : Status, r : Result]
    BY <1>4 DEF SaveEffects, NoData, Status, Live, Result
  <2>3. effects' \in Nat
    BY <1>4 DEF SaveEffects, DataTypeOK
  <2>4. DataTypeOK' /\ CountInStep'
    BY <2>1, <2>2, <2>3 DEF DataTypeOK, CountInStep, gameVars, offerVars, clockVars, histVars
  <2>5. ControlTypeOK' /\ LockHeld' /\ NoNewCritical
    BY <1>4, ReturnControl DEF SaveEffects
  <2> QED
    BY <2>1, <2>4, <2>5, PliesKept DEF gameVars
<1> QED
  BY <1>1, <1>2, <1>3, <1>4 DEF SaveGame

LEMMA MoveType ==
  ASSUME TypeInv, NEW c \in Conns,
         \/ MoveStart(c) \/ MoveExpired(c) \/ MoveOffers(c) \/ MovePush(c)
         \/ MoveSave(c) \/ MoveCheck(c)
  PROVE  TypeInv'
<1> USE DEF TypeInv, TypeOK
<1>1. CASE MoveStart(c)
  <2>1. ControlTypeOK' /\ LockHeld'
    BY <1>1, ConnControl DEF MoveStart, ConnPcs, Procs
  <2>2. status' \in Status /\ counted' \in BOOLEAN /\ gcnt' \in {0, 1} /\ CountInStep'
    <3>1. CASE ~counted /\ status' = "STARTED" /\ counted' = TRUE /\ gcnt' = gcnt + 1
      BY <3>1 DEF DataTypeOK, CountInStep, Status, Live
    <3>2. CASE UNCHANGED <<status, counted, gcnt>>
      BY <3>2 DEF DataTypeOK, CountInStep
    <3> QED
      BY <1>1, <3>1, <3>2, Zenon DEF MoveStart
  <2>3. DataTypeOK'
    BY <1>1, <2>2 DEF MoveStart, DataTypeOK, offerVars, localVars, dbVars, histVars
  <2>4. PliesLeft'
    BY <1>1 DEF MoveStart, PliesLeft, ControlTypeOK, Procs, localVars, DataTypeOK
  <2> QED
    BY <2>1, <2>2, <2>3, <2>4
<1>2. CASE MoveOffers(c)
  <2>1. ControlTypeOK' /\ LockHeld'
    BY <1>2, ConnControl DEF MoveOffers, ConnPcs, LockHeld, Critical
  <2>2. DataTypeOK' /\ CountInStep'
    BY <1>2 DEF MoveOffers, DataTypeOK, CountInStep, NoTakeback, gameVars, clockVars, localVars, dbVars, histVars
  <2>3. PliesLeft'
    BY <1>2 DEF MoveOffers, PliesLeft, ControlTypeOK, Procs, localVars, gameVars
  <2> QED
    BY <2>1, <2>2, <2>3
<1>3. CASE MovePush(c)
  <2>1. UNCHANGED <<kind, counted, drawOffers, takebackOffer, clockPly, expired,
                    flagPly, newData, rewind, gcnt, doc, effects, evicted,
                    cutSave, returned>>
    BY <1>3 DEF MovePush, offerVars, localVars, dbVars, histVars
  <2>t. timeUp' \in BOOLEAN /\ restored' \in BOOLEAN
    BY <1>3 DEF MovePush
  <2>2. CASE Return(c) /\ UNCHANGED <<ply, status, result, saved, running>>
    <3>1. ControlTypeOK' /\ LockHeld' /\ NoNewCritical
      BY <2>2, ReturnControl DEF Procs
    <3>2. DataTypeOK' /\ CountInStep'
      BY <2>1, <2>t, <2>2 DEF DataTypeOK, CountInStep
    <3> QED
      BY <1>3, <2>2, <3>1, <3>2, PliesKept DEF MovePush, localVars
  <2>3. CASE ~Over /\ ply' = ply + 1
    <3>1. ply < MaxPly /\ ply' \in 0..MaxPly /\ lock = c
      BY <1>3, <2>3 DEF MovePush, PliesLeft, DataTypeOK, LockHeld, Critical
    <3>2. CASE /\ pc' = [pc EXCEPT ![c] = "move_save"]
               /\ UNCHANGED <<status, result, saved, running, lock, abandonTask, lost>>
      <4>1. ControlTypeOK' /\ LockHeld'
        BY <3>1, <3>2, ConnControl DEF ConnPcs
      <4>2. CountInStep'
        BY <2>1, <3>2 DEF CountInStep
      <4>d. DataTypeOK'
        <5>2. UNCHANGED <<status, result, saved, running>>
          BY <3>2
        <5>3. rewind' \in [left : 0..1, s : Status]
          BY <2>1 DEF DataTypeOK
        <5>4. status' \in Status /\ result' \in Result /\ saved' \in BOOLEAN /\ running' \in BOOLEAN
          BY <5>2 DEF DataTypeOK
        <5> QED
          BY <2>1, <2>t, <3>1, <5>3, <5>4, RecordsKept, Zenon DEF DataTypeOK
      <4>3. PliesLeft'
        BY <1>3, <3>1, <3>2 DEF MovePush, PliesLeft, ControlTypeOK, LockHeld, Critical, Procs, localVars, DataTypeOK
      <4> QED
        BY <4>1, <4>2, <4>d, <4>3
    <3>3. CASE /\ \/ UpdateStatus("DRAW", "1/2-1/2")
                  \/ \E u \in Players : UpdateStatus("MATE", Loses(u))
               /\ EnterSave(c, lock)
      <4>1. ControlTypeOK' /\ LockHeld' /\ NoNewCritical
        BY <3>3, EnterSaveControl DEF Procs
      <4>2. status' \in Status /\ result' \in Result
        BY <3>3, UpdateStatusType DEF Status, Ended, Result, Loses
      <4>3. saved' \in BOOLEAN /\ running' \in BOOLEAN
        BY <3>3 DEF EnterSave, DataTypeOK
      <4>4. DataTypeOK' /\ CountInStep'
        BY <2>t, <2>1, <3>1, <4>2, <4>3 DEF DataTypeOK, CountInStep
      <4>5. pc'[c] \notin Critical
        BY <3>3 DEF EnterSave, CancelClock, Return, ControlTypeOK, Procs, Critical
      <4>6. PliesLeft'
        BY <1>3, <3>1, <4>1, <4>5 DEF MovePush, PliesLeft, NoNewCritical, Critical, LockHeld
      <4> QED
        BY <4>1, <4>4, <4>6
    <3> QED
      BY <1>3, <2>3, <3>2, <3>3 DEF MovePush, DataTypeOK
  <2> QED
    BY <1>3, <2>2, <2>3 DEF MovePush
<1>4. CASE MoveSave(c) \/ MoveCheck(c)
  <2>1. UNCHANGED <<kind, ply, status, result, saved, counted, drawOffers,
                    takebackOffer, timeUp, restored, flagPly, newData, rewind, gcnt,
                    effects, cutSave, returned>>
    BY <1>4 DEF MoveSave, MoveCheck, gameVars, offerVars, localVars, dbVars, histVars
  <2>2. doc' \in [exists : BOOLEAN, m : 0..MaxPly, s : Status, r : Result]
    <3>1. doc' = doc \/ doc' = [doc EXCEPT !.m = ply, !.s = "STARTED"]
      BY <1>4 DEF MoveSave, MoveCheck, dbVars
    <3> QED
      BY <3>1 DEF DataTypeOK, Status, Live
  <2>3. evicted' \in BOOLEAN
    BY <1>4, Zenon DEF MoveSave, MoveCheck, DataTypeOK
  <2>4. CASE Restart(ply) /\ Return(c)
    <3>1. ControlTypeOK' /\ LockHeld' /\ NoNewCritical
      BY <2>4, ReturnControl DEF Procs
    <3>2. clockPly' \in 0..MaxPly /\ running' \in BOOLEAN /\ expired' \in BOOLEAN
      BY <2>4, RestartType DEF DataTypeOK
    <3>3. DataTypeOK' /\ CountInStep'
      BY <2>1, <2>2, <2>3, <3>2 DEF DataTypeOK, CountInStep
    <3> QED
      BY <2>1, <3>1, <3>3, PliesKept
  <2>5. CASE /\ pc[c] = "move_save" /\ pc' = [pc EXCEPT ![c] = "move_check"]
             /\ UNCHANGED <<running, clockPly, expired, lock, abandonTask, lost>>
    <3>1. ControlTypeOK' /\ LockHeld'
      BY <2>5, ConnControl DEF LockHeld, Critical, ConnPcs
    <3>2. DataTypeOK' /\ CountInStep'
      BY <2>1, <2>2, <2>3, <2>5 DEF DataTypeOK, CountInStep
    <3> QED
      BY <2>1, <2>5, <3>1, <3>2, PliesKeptConn
  <2> QED
    BY <1>4, <2>4, <2>5 DEF MoveSave, MoveCheck
<1>5. CASE MoveExpired(c)
  <2>1. UNCHANGED <<kind, ply, counted, drawOffers, takebackOffer, clockPly, expired, timeUp,
                    restored, flagPly, newData, rewind, gcnt, doc, effects, evicted,
                    cutSave, returned>>
    BY <1>5 DEF MoveExpired, offerVars, localVars, dbVars, histVars
  <2>2. /\ ControlTypeOK' /\ LockHeld' /\ NoNewCritical
        /\ status' \in Status /\ result' \in Result
        /\ saved' \in BOOLEAN /\ running' \in BOOLEAN
    <3>1. GameEnded(c, Owner[c], TimeoutReason(ply), c) /\ lock = None
      BY <1>5 DEF MoveExpired
    <3> QED
      BY <3>1, GameEndedControl DEF Procs, TimeoutReason
  <2>3. DataTypeOK' /\ CountInStep'
    BY <2>1, <2>2 DEF DataTypeOK, CountInStep
  <2> QED
    BY <2>1, <2>2, <2>3, PliesKept
<1> QED
  BY <1>1, <1>2, <1>3, <1>4, <1>5

LEMMA DrawType ==
  ASSUME TypeInv, NEW c \in Conns, Draw(c) \/ RejectDraw(c)
  PROVE  TypeInv'
<1> USE DEF TypeInv, TypeOK
<1>1. UNCHANGED <<kind, ply, counted, takebackOffer, clockPly, expired, timeUp, restored,
                  flagPly, newData, rewind, gcnt, doc, effects, evicted,
                  cutSave, returned>>
  BY DEF Draw, RejectDraw, gameVars, clockVars, localVars, dbVars, histVars
<1>2. drawOffers' \subseteq Players
  BY DEF Draw, RejectDraw, DataTypeOK, Players, Procs
<1>3. CASE UpdateStatus("DRAW", "1/2-1/2") /\ EnterSave(c, lock)
  <2>1. ControlTypeOK' /\ LockHeld' /\ NoNewCritical
    BY <1>3, EnterSaveControl DEF Procs
  <2>2. status' \in Status /\ result' \in Result
    BY <1>3, UpdateStatusType DEF Status, Ended, Result
  <2>3. saved' \in BOOLEAN /\ running' \in BOOLEAN
    BY <1>3 DEF EnterSave, DataTypeOK
  <2>4. DataTypeOK' /\ CountInStep'
    BY <1>1, <1>2, <2>2, <2>3 DEF DataTypeOK, CountInStep
  <2> QED
    BY <1>1, <2>1, <2>4, PliesKept
<1>4. CASE UNCHANGED <<status, result, saved, running, pc, lock, abandonTask, lost>>
  <2>1. DataTypeOK' /\ CountInStep'
    BY <1>1, <1>2, <1>4 DEF DataTypeOK, CountInStep
  <2>2. ControlTypeOK' /\ LockHeld' /\ PliesLeft'
    BY <1>1, <1>4 DEF ControlTypeOK, LockHeld, PliesLeft
  <2> QED
    BY <2>1, <2>2
<1> QED
  BY <1>3, <1>4 DEF Draw, RejectDraw, gameVars, clockVars

LEMMA TakebackType ==
  ASSUME TypeInv, NEW c \in Conns,
         OfferTakeback(c) \/ AcceptTakeback(c) \/ TakebackPop(c)
         \/ TakebackCount(c) \/ TakebackState(c) \/ RejectTakeback(c)
  PROVE  TypeInv'
<1> USE DEF TypeInv, TypeOK
<1>1. CASE OfferTakeback(c) \/ RejectTakeback(c)
  <2>1. takebackOffer' \in [by : Players \cup {None}, ply : 0..MaxPly]
    BY <1>1 DEF OfferTakeback, RejectTakeback, NoTakeback, DataTypeOK
  <2>2. UNCHANGED <<gameVars, drawOffers, lock, clockVars, pc, localVars,
                    abandonTask, lost, gcnt, dbVars, evicted, histVars>>
    BY <1>1 DEF OfferTakeback, RejectTakeback
  <2>3. DataTypeOK' /\ CountInStep'
    BY <2>1, <2>2 DEF DataTypeOK, CountInStep, gameVars, clockVars, localVars, dbVars, histVars
  <2>4. ControlTypeOK' /\ LockHeld' /\ PliesLeft'
    BY <2>2 DEF ControlTypeOK, LockHeld, PliesLeft, gameVars, localVars
  <2> QED
    BY <2>3, <2>4
<1>2. CASE AcceptTakeback(c)
  <2>1. UNCHANGED <<kind, status, result, saved, counted, drawOffers, clockPly,
                    expired, timeUp, restored, flagPly, newData, abandonTask, lost, gcnt, doc,
                    effects, evicted, cutSave, returned>>
    BY <1>2 DEF AcceptTakeback, dbVars, histVars
  <2>2. takebackOffer' \in [by : Players \cup {None}, ply : 0..MaxPly]
    BY <1>2 DEF AcceptTakeback, NoTakeback
  <2>3. CASE UNCHANGED <<lock, running, ply, rewind, pc>>
    <3>1. DataTypeOK' /\ CountInStep'
      BY <2>1, <2>2, <2>3 DEF DataTypeOK, CountInStep
    <3>2. ControlTypeOK' /\ LockHeld' /\ PliesLeft'
      BY <2>1, <2>3 DEF ControlTypeOK, LockHeld, PliesLeft
    <3> QED
      BY <3>1, <3>2
  <2>4. CASE /\ lock = None /\ lock' = c /\ running' = FALSE /\ ply >= 2 /\ ply' = ply - 1
             /\ rewind' \in {[rewind EXCEPT !.left = 0], [rewind EXCEPT !.left = 1]}
             /\ pc' = [pc EXCEPT ![c] = "takeback_pop"]
    <3>1. ply' \in 0..MaxPly /\ ply' >= 1
      BY <2>4 DEF DataTypeOK
    <3>2. rewind' \in [left : 0..1, s : Status]
      BY <2>4 DEF DataTypeOK
    <3>3. DataTypeOK' /\ CountInStep'
      <4>1. /\ newData' \in [delete : BOOLEAN, m : 0..MaxPly, s : Status, r : Result]
            /\ doc' \in [exists : BOOLEAN, m : 0..MaxPly, s : Status, r : Result]
        BY <2>1 DEF DataTypeOK
      <4>2. running' \in BOOLEAN
        BY <2>4
      <4>3. CountInStep'
        BY <2>1 DEF CountInStep
      <4> QED
        BY <2>1, <2>2, <3>1, <3>2, <4>1, <4>2, <4>3, Zenon DEF DataTypeOK
    <3>4. ControlTypeOK' /\ LockHeld'
      BY <2>1, <2>4, ConnControl DEF ConnPcs
    <3>5. PliesLeft'
      BY <2>4, <3>1, <3>2 DEF PliesLeft, LockHeld, Critical, ControlTypeOK, Procs
    <3> QED
      BY <3>3, <3>4, <3>5
  <2> QED
    BY <1>2, <2>3, <2>4 DEF AcceptTakeback, TakebackAllowed
<1>3. CASE TakebackPop(c)
  <2>1. UNCHANGED <<kind, status, result, saved, takebackOffer, drawOffers, lock, running, clockPly,
                    expired, timeUp, restored, flagPly, newData, abandonTask, lost,
                    effects, evicted, cutSave, returned>>
    BY <1>3 DEF TakebackPop, offerVars, clockVars, histVars
  <2>2. doc' \in [exists : BOOLEAN, m : 0..MaxPly, s : Status, r : Result]
    BY <1>3 DEF TakebackPop, DataTypeOK
  <2>3. lock = c /\ rewind.left <= ply
    BY <1>3 DEF TakebackPop, LockHeld, Critical, PliesLeft
  <2>4. CASE /\ rewind.left = 1 /\ ply' = ply - 1
             /\ rewind' = [rewind EXCEPT !.left = 0]
             /\ UNCHANGED <<pc, counted, gcnt>>
    <3>1. ply' \in 0..MaxPly /\ rewind' \in [left : 0..1, s : Status] /\ rewind'.left = 0
      BY <2>3, <2>4 DEF DataTypeOK
    <3>2. DataTypeOK' /\ CountInStep'
      BY <2>1, <2>2, <2>4, <3>1 DEF DataTypeOK, CountInStep
    <3>3. ControlTypeOK' /\ LockHeld'
      BY <2>1, <2>4 DEF ControlTypeOK, LockHeld
    <3>4. PliesLeft'
      BY <1>3, <2>3, <2>4, <3>1 DEF TakebackPop, PliesLeft, LockHeld, Critical
    <3> QED
      BY <3>2, <3>3, <3>4
  <2>5. CASE /\ UNCHANGED <<ply, rewind>> /\ counted /\ counted' = FALSE /\ gcnt' = gcnt - 1
             /\ pc' = [pc EXCEPT ![c] = "takeback_count"]
    <3>1. gcnt' = 0
      BY <2>5 DEF CountInStep
    <3>2. DataTypeOK' /\ CountInStep'
      <4>1. DataTypeOK'
        BY <2>1, <2>2, <2>5, <3>1, ZenonT(40) DEF DataTypeOK
      <4>2. CountInStep'
        BY <2>5, <3>1 DEF CountInStep
      <4> QED
        BY <4>1, <4>2
    <3>3. ControlTypeOK' /\ LockHeld'
      BY <2>1, <2>3, <2>5, ConnControl DEF ConnPcs
    <3> QED
      BY <2>5, <3>2, <3>3, PliesKeptConn
  <2>6. CASE /\ rewind' = [rewind EXCEPT !.s = status]
             /\ pc' = [pc EXCEPT ![c] = "takeback_state"]
             /\ UNCHANGED <<ply, counted, gcnt>>
    <3>1. rewind' \in [left : 0..1, s : Status]
      BY <2>6 DEF DataTypeOK
    <3>2. DataTypeOK' /\ CountInStep'
      BY <2>1, <2>2, <2>6, <3>1 DEF DataTypeOK, CountInStep
    <3>3. ControlTypeOK' /\ LockHeld'
      BY <2>1, <2>3, <2>6, ConnControl DEF ConnPcs
    <3>4. PliesLeft'
      BY <2>3, <2>6 DEF PliesLeft, LockHeld, Critical, ControlTypeOK, Procs
    <3> QED
      BY <3>2, <3>3, <3>4
  <2> QED
    BY <1>3, <2>4, <2>5, <2>6 DEF TakebackPop
<1>4. CASE TakebackCount(c)
  <2>1. UNCHANGED <<kind, ply, result, saved, counted, takebackOffer, drawOffers, lock, running, clockPly,
                    expired, timeUp, restored, flagPly, newData, abandonTask, lost, gcnt, doc,
                    effects, evicted, cutSave, returned>>
    BY <1>4 DEF TakebackCount, offerVars, clockVars, dbVars, histVars
  <2>2. status' \in Status /\ rewind' \in [left : 0..1, s : Status]
    BY <1>4 DEF TakebackCount, DataTypeOK, Status, Live
  <2>3. DataTypeOK' /\ CountInStep'
    BY <2>1, <2>2 DEF DataTypeOK, CountInStep
  <2>4. ControlTypeOK' /\ LockHeld'
    BY <1>4, <2>1, ConnControl DEF TakebackCount, ConnPcs, LockHeld, Critical
  <2>5. PliesLeft'
    BY <1>4, <2>1 DEF TakebackCount, PliesLeft, LockHeld, Critical, ControlTypeOK, Procs
  <2> QED
    BY <2>3, <2>4, <2>5
<1>5. CASE TakebackState(c)
  <2>1. UNCHANGED <<kind, ply, status, result, saved, counted, takebackOffer, drawOffers,
                    flagPly, newData, gcnt, effects, evicted, cutSave, returned>>
    BY <1>5 DEF TakebackState, gameVars, offerVars, localVars, histVars
  <2>2. doc' \in [exists : BOOLEAN, m : 0..MaxPly, s : Status, r : Result]
    BY <1>5 DEF TakebackState, DataTypeOK
  <2>3. clockPly' \in 0..MaxPly /\ running' \in BOOLEAN /\ expired' \in BOOLEAN
    BY <1>5, RestartType DEF TakebackState, DataTypeOK
  <2>4. timeUp' \in BOOLEAN /\ restored' \in BOOLEAN
    BY <1>5 DEF TakebackState
  <2>7. rewind' \in [left : 0..1, s : Status] /\ rewind'.left = 0
    BY <1>5 DEF TakebackState, NoRewind, Status, Live
  <2>5. DataTypeOK' /\ CountInStep'
    BY <2>1, <2>2, <2>3, <2>4, <2>7 DEF DataTypeOK, CountInStep
  <2>6. ControlTypeOK' /\ LockHeld' /\ NoNewCritical
    BY <1>5, ReturnControl DEF TakebackState, Procs
  <2>8. PliesLeft'
    BY <2>1, <2>6, <2>7 DEF PliesLeft, NoNewCritical, Critical, DataTypeOK
  <2> QED
    BY <2>5, <2>6, <2>8
<1> QED
  BY <1>1, <1>2, <1>3, <1>4, <1>5

LEMMA EndType ==
  ASSUME TypeInv, NEW c \in Conns, NEW reason \in DOMAIN EndPc,
         AskEnd(c, reason) \/ End(c, reason)
  PROVE  TypeInv'
<1> USE DEF TypeInv, TypeOK
<1>1. CASE AskEnd(c, reason)
  <2>1. EndPc[reason] \in {"abort_lock", "resign_lock", "abandon_lock", "flag_lock"}
    BY EndReasons DEF EndPc
  <2>2. ControlTypeOK' /\ LockHeld'
    BY <1>1, <2>1, ConnControl DEF AskEnd, ConnPcs, Critical
  <2>3. DataTypeOK' /\ CountInStep'
    BY <1>1 DEF AskEnd, DataTypeOK, CountInStep, gameVars, offerVars, clockVars, localVars, dbVars, histVars
  <2>4. PliesLeft'
    BY <1>1, <2>1, PliesKeptConn DEF AskEnd, gameVars, localVars
  <2> QED
    BY <2>2, <2>3, <2>4
<1>2. CASE End(c, reason)
  <2>1. UNCHANGED <<kind, ply, counted, drawOffers, takebackOffer, clockPly, expired, timeUp, restored,
                    flagPly, newData, rewind, gcnt, doc, effects, evicted,
                    cutSave, returned>>
    BY <1>2 DEF End, offerVars, localVars, dbVars, histVars
  <2>2. /\ ControlTypeOK' /\ LockHeld' /\ NoNewCritical
        /\ status' \in Status /\ result' \in Result
        /\ saved' \in BOOLEAN /\ running' \in BOOLEAN
    <3>1. CASE GameEnded(c, Owner[c], reason, c) /\ lock = None
      BY <3>1, GameEndedControl, EndReasons DEF Procs
    <3>2. CASE Return(c) /\ UNCHANGED <<status, result, saved, running>>
      BY <3>2, ReturnControl DEF Procs, DataTypeOK
    <3> QED
      BY <1>2, <3>1, <3>2 DEF End
  <2>3. DataTypeOK' /\ CountInStep'
    BY <2>1, <2>2 DEF DataTypeOK, CountInStep
  <2> QED
    BY <2>1, <2>2, <2>3, PliesKept
<1> QED
  BY <1>1, <1>2

LEMMA CevalType ==
  ASSUME TypeInv, NEW c \in Conns,
         CevalReport(c) \/ CevalForfeit(c) \/ MoreTime(c)
  PROVE  TypeInv'
<1> USE DEF TypeInv, TypeOK
<1>1. CASE CevalReport(c)
  <2>1. ControlTypeOK' /\ LockHeld'
    BY <1>1, ConnControl DEF CevalReport, ConnPcs
  <2>2. DataTypeOK' /\ CountInStep'
    BY <1>1 DEF CevalReport, DataTypeOK, CountInStep, gameVars, offerVars, clockVars, localVars, dbVars, histVars
  <2>3. PliesLeft'
    BY <1>1, PliesKeptConn DEF CevalReport, gameVars, localVars
  <2> QED
    BY <2>1, <2>2, <2>3
<1>2. CASE CevalForfeit(c)
  <2>1. UNCHANGED <<kind, ply, counted, drawOffers, takebackOffer, clockPly, expired, timeUp, restored,
                    flagPly, newData, rewind, gcnt, doc, effects, evicted,
                    cutSave, returned>>
    BY <1>2 DEF CevalForfeit, offerVars, localVars, dbVars, histVars
  <2>2. CASE UpdateStatus("CHEAT", Loses(Owner[c])) /\ EnterSave(c, lock)
    <3>1. ControlTypeOK' /\ LockHeld' /\ NoNewCritical
      BY <2>2, EnterSaveControl DEF Procs
    <3>2. status' \in Status /\ result' \in Result
      BY <2>2, UpdateStatusType DEF Status, Ended, Result, Loses
    <3>3. saved' \in BOOLEAN /\ running' \in BOOLEAN
      BY <2>2 DEF EnterSave, DataTypeOK
    <3>4. DataTypeOK' /\ CountInStep'
      BY <2>1, <3>2, <3>3 DEF DataTypeOK, CountInStep
    <3> QED
      BY <2>1, <3>1, <3>4, PliesKept
  <2>3. CASE Return(c) /\ UNCHANGED <<status, result, saved, running>>
    <3>1. ControlTypeOK' /\ LockHeld' /\ NoNewCritical
      BY <2>3, ReturnControl DEF Procs
    <3>2. DataTypeOK' /\ CountInStep'
      BY <2>1, <2>3 DEF DataTypeOK, CountInStep
    <3> QED
      BY <2>1, <3>1, <3>2, PliesKept
  <2> QED
    BY <1>2, <2>2, <2>3 DEF CevalForfeit
<1>3. CASE MoreTime(c)
  <2>1. DataTypeOK' /\ CountInStep'
    <3>1. clockPly' \in 0..MaxPly /\ running' \in BOOLEAN /\ expired' \in BOOLEAN
      BY <1>3 DEF MoreTime, DataTypeOK
    <3>2. UNCHANGED <<gameVars, offerVars, timeUp, restored, localVars, gcnt, dbVars, evicted, histVars>>
      BY <1>3 DEF MoreTime
    <3> QED
      BY <3>1, <3>2 DEF DataTypeOK, CountInStep, gameVars, offerVars, localVars, dbVars, histVars
  <2>2. ControlTypeOK' /\ LockHeld' /\ PliesLeft'
    BY <1>3 DEF MoreTime, ControlTypeOK, LockHeld, PliesLeft, gameVars, localVars
  <2> QED
    BY <2>1, <2>2
<1> QED
  BY <1>1, <1>2, <1>3

\* A task that starts takes over its player's entry.
LEMMA StartTaskType ==
  ASSUME ControlTypeOK, NEW t \in Tasks, StartTask(t)
  PROVE  abandonTask' \in [Players -> Tasks \cup {None}] /\ lost' \subseteq Tasks
<1>1. Owner[t] \in Players
  OBVIOUS
<1>2. abandonTask[Owner[t]] \in Tasks \cup {None}
  BY <1>1 DEF ControlTypeOK
<1> QED
  BY <1>1, <1>2 DEF StartTask, ControlTypeOK

LEMMA PresenceType ==
  ASSUME TypeInv, NEW c \in Conns, Connect(c) \/ Disconnect(c)
  PROVE  TypeInv'
<1> USE DEF TypeInv, TypeOK
<1>1. UNCHANGED <<kind, ply, status, result, saved, counted, drawOffers, takebackOffer, lock, running,
                  clockPly, expired, timeUp, restored, flagPly, rewind, gcnt, evicted>>
  BY DEF Connect, Disconnect, gameVars, offerVars, clockVars, localVars, dbVars
<1>2. CASE Connect(c)
  <2> DEFINE t == abandonTask[Owner[c]]
  <2>1. Owner[c] \in Players /\ t \in Tasks \cup {None}
    BY DEF ControlTypeOK
  <2>2. \A p \in Procs : pc'[p] = IF p = c THEN "idle" ELSE IF p = t THEN "none" ELSE pc[p]
    BY <1>2 DEF Connect
  <2>3. pc' \in [Procs -> ConnPcs \cup TaskPcs \cup ClockPcs]
    BY <1>2 DEF Connect, ControlTypeOK, ConnPcs, TaskPcs
  <2>4. /\ \A d \in Conns : pc'[d] = IF d = c THEN "idle" ELSE pc[d]
        /\ \A s \in Tasks : pc'[s] = IF s = t THEN "none" ELSE pc[s]
        /\ pc'[ClockTask] = pc[ClockTask]
    <3> HIDE DEF t
    <3> QED
      BY <2>1, <2>2 DEF Procs
  <2>5. abandonTask' \in [Players -> Tasks \cup {None}] /\ lost' \subseteq Tasks
    BY <1>2 DEF Connect, ControlTypeOK
  <2>6. ControlTypeOK' /\ LockHeld' /\ NoNewCritical
    BY <1>1, <2>3, <2>4, <2>5 DEF ControlTypeOK, LockHeld, NoNewCritical, Critical, ConnPcs, TaskPcs
  <2>7. Landed \in [exists : BOOLEAN, m : 0..MaxPly, s : Status, r : Result]
    BY LandedType
  <2>8. doc' = doc \/ doc' = Landed
    BY <1>2 DEF Connect
  <2>12. effects' \in Nat
    BY <1>2 DEF Connect, DataTypeOK
  <2>13. newData' \in [delete : BOOLEAN, m : 0..MaxPly, s : Status, r : Result]
    <3>1. newData' = newData \/ newData' = NoData
      BY <1>2 DEF Connect
    <3> QED
      BY <3>1, EmptyRecords DEF DataTypeOK
  <2>9. cutSave' \in BOOLEAN
    BY <1>2, Zenon DEF Connect
  <2>10. returned' \subseteq Tasks
    BY <1>2 DEF Connect, DataTypeOK
  <2>11. DataTypeOK' /\ CountInStep'
    BY <1>1, <2>7, <2>8, <2>9, <2>10, <2>12, <2>13 DEF DataTypeOK, CountInStep
  <2> QED
    BY <1>1, <2>6, <2>11, PliesKept
<1>3. CASE Disconnect(c)
  <2>1. PICK t \in Tasks : /\ Owner[t] = Owner[c]
                           /\ StartTask(t)
                           /\ pc' = [pc EXCEPT ![c] = "closed", ![t] = "sleep"]
    BY <1>3 DEF Disconnect
  <2>2. pc' \in [Procs -> ConnPcs \cup TaskPcs \cup ClockPcs]
    BY <2>1 DEF ControlTypeOK, ConnPcs, TaskPcs, Procs
  <2>3. /\ \A d \in Conns : pc'[d] = IF d = c THEN "closed" ELSE pc[d]
        /\ \A s \in Tasks : pc'[s] = IF s = t THEN "sleep" ELSE pc[s]
        /\ pc'[ClockTask] = pc[ClockTask]
    BY <2>1 DEF ControlTypeOK, Procs
  <2>4. LockHeld' /\ NoNewCritical
    BY <1>1, <2>3 DEF LockHeld, NoNewCritical, Critical
  <2>5. abandonTask' \in [Players -> Tasks \cup {None}] /\ lost' \subseteq Tasks
    BY <2>1, StartTaskType
  <2>6. ControlTypeOK'
    BY <1>1, <2>2, <2>3, <2>5 DEF ControlTypeOK, ConnPcs, TaskPcs
  <2>7. ControlTypeOK' /\ LockHeld' /\ NoNewCritical
    BY <2>4, <2>6
  <2>8. UNCHANGED <<newData, doc, effects, cutSave, returned>>
    BY <1>3 DEF Disconnect, localVars, dbVars, histVars
  <2>9. DataTypeOK' /\ CountInStep'
    BY <1>1, <2>8 DEF DataTypeOK, CountInStep
  <2> QED
    BY <1>1, <2>7, <2>9, PliesKept
<1> QED
  BY <1>2, <1>3

LEMMA LobbyLeftType ==
  ASSUME TypeInv, NEW t \in Tasks, LobbyLeft(t)
  PROVE  TypeInv'
<1> USE DEF TypeInv, TypeOK
<1>1. UNCHANGED <<gameVars, offerVars, lock, clockVars, localVars, gcnt,
                  dbVars, evicted, histVars>>
  BY DEF LobbyLeft
<1>2. pc' \in [Procs -> ConnPcs \cup TaskPcs \cup ClockPcs]
  BY DEF LobbyLeft, ControlTypeOK, TaskPcs, Procs
<1>3. /\ \A d \in Conns : pc'[d] = pc[d]
      /\ \A s \in Tasks : pc'[s] = IF s = t THEN "sleep" ELSE pc[s]
      /\ pc'[ClockTask] = pc[ClockTask]
  BY DEF LobbyLeft, ControlTypeOK, Procs
<1>4. abandonTask' \in [Players -> Tasks \cup {None}] /\ lost' \subseteq Tasks
  BY StartTaskType DEF LobbyLeft
<1>5. ControlTypeOK'
  BY <1>1, <1>2, <1>3, <1>4 DEF ControlTypeOK, TaskPcs
<1>6. LockHeld' /\ NoNewCritical
  BY <1>1, <1>3 DEF LockHeld, NoNewCritical, Critical
<1>7. DataTypeOK' /\ CountInStep'
  BY <1>1 DEF DataTypeOK, CountInStep, gameVars, offerVars, clockVars, localVars, dbVars, histVars
<1> QED
  BY <1>1, <1>5, <1>6, <1>7, PliesKept DEF gameVars, localVars

LEMMA AbandonType ==
  ASSUME TypeInv, NEW t \in Tasks, AbandonGame(t)
  PROVE  TypeInv'
<1> USE DEF TypeInv, TypeOK
<1>1. UNCHANGED <<kind, ply, counted, drawOffers, takebackOffer, clockPly, expired, timeUp, restored,
                  flagPly, newData, rewind, gcnt, doc, effects, evicted,
                  cutSave>>
  BY DEF AbandonGame, offerVars, localVars, dbVars
<1>r. returned' \subseteq Tasks
  BY DEF AbandonGame, DataTypeOK
<1>2. /\ ControlTypeOK' /\ LockHeld' /\ NoNewCritical
      /\ status' \in Status /\ result' \in Result
      /\ saved' \in BOOLEAN /\ running' \in BOOLEAN
  <2>1. CASE GameEnded(t, Owner[t], "abandon", lock)
    BY <2>1, GameEndedControl DEF Procs
  <2>2. CASE Return(t) /\ UNCHANGED <<status, result, saved, running>>
    BY <2>2, ReturnControl DEF Procs, DataTypeOK
  <2> QED
    BY <2>1, <2>2 DEF AbandonGame
<1>3. DataTypeOK' /\ CountInStep'
  BY <1>1, <1>r, <1>2 DEF DataTypeOK, CountInStep
<1> QED
  BY <1>1, <1>2, <1>3, PliesKept

LEMMA ClockType ==
  ASSUME TypeInv, ClockStep \/ TimePasses
  PROVE  TypeInv'
<1> USE DEF TypeInv, TypeOK
<1>1. CASE TimePasses \/ ClockTick
  <2>1. expired' \in BOOLEAN /\ timeUp' \in BOOLEAN
    BY <1>1 DEF TimePasses, ClockTick, DataTypeOK
  <2>2. DataTypeOK' /\ CountInStep'
    BY <1>1, <2>1 DEF TimePasses, ClockTick, DataTypeOK, CountInStep, gameVars, offerVars, localVars, dbVars, histVars
  <2>3. ControlTypeOK' /\ LockHeld' /\ PliesLeft'
    BY <1>1 DEF TimePasses, ClockTick, ControlTypeOK, LockHeld, PliesLeft, gameVars, localVars
  <2> QED
    BY <2>2, <2>3
<1>2. CASE ClockGrace
  <2>1. ControlTypeOK' /\ LockHeld' /\ NoNewCritical
    BY <1>2, TaskControl DEF ClockGrace, ClockPcs
  <2>2. DataTypeOK' /\ CountInStep'
    BY <1>2 DEF ClockGrace, DataTypeOK, CountInStep, gameVars, offerVars, clockVars, localVars, dbVars, histVars
  <2> QED
    BY <1>2, <2>1, <2>2, PliesKept DEF ClockGrace, gameVars, localVars
<1>3. CASE ClockClaim
  <2>1. UNCHANGED <<gameVars, offerVars, lock, clockVars, newData, rewind,
                    abandonTask, lost, gcnt, dbVars, evicted, histVars>>
    BY <1>3 DEF ClockClaim
  <2>2. \E v \in {"clock_lock", "tick"} : pc' = [pc EXCEPT ![ClockTask] = v]
    BY <1>3 DEF ClockClaim
  <2>3. flagPly' \in 0..MaxPly
    BY <1>3 DEF ClockClaim, DataTypeOK
  <2>4. ControlTypeOK' /\ LockHeld' /\ NoNewCritical
    BY <2>1, <2>2, TaskControl DEF ClockPcs
  <2>5. DataTypeOK' /\ CountInStep'
    BY <2>1, <2>3 DEF DataTypeOK, CountInStep, gameVars, offerVars, clockVars, dbVars, histVars
  <2> QED
    BY <2>1, <2>4, <2>5, PliesKept DEF gameVars
<1>4. CASE ClockFlag
  <2>1. UNCHANGED <<kind, ply, counted, drawOffers, takebackOffer, clockPly, expired, timeUp, restored,
                    newData, rewind, gcnt, doc, effects, evicted,
                    cutSave, returned>>
    BY <1>4 DEF ClockFlag, offerVars, dbVars, histVars
  <2>2. /\ ControlTypeOK' /\ LockHeld' /\ NoNewCritical
        /\ status' \in Status /\ result' \in Result
        /\ saved' \in BOOLEAN /\ running' \in BOOLEAN
    <3>1. CASE /\ lock = None
               /\ GameEnded(ClockTask, Turn(flagPly), TimeoutReason(flagPly), ClockTask)
      BY <3>1, GameEndedControl DEF Procs, Turn, Players, TimeoutReason
    <3>2. CASE /\ pc' = [pc EXCEPT ![ClockTask] = "tick"]
               /\ UNCHANGED <<status, result, saved, running, lock, abandonTask, lost>>
      BY <3>2, TaskControl DEF ClockPcs, DataTypeOK
    <3> QED
      BY <1>4, <3>1, <3>2 DEF ClockFlag
  <2>3. DataTypeOK' /\ CountInStep'
    <3>1. flagPly' \in 0..MaxPly
      BY <1>4 DEF ClockFlag
    <3> QED
      BY <2>1, <2>2, <3>1 DEF DataTypeOK, CountInStep
  <2> QED
    BY <2>1, <2>2, <2>3, PliesKept
<1>5. CASE ClockCancelled
  <2>1. ControlTypeOK' /\ LockHeld' /\ NoNewCritical
    BY <1>5, TaskControl DEF ClockCancelled, ClockPcs
  <2>2. flagPly' \in 0..MaxPly
    BY <1>5 DEF ClockCancelled
  <2>3. DataTypeOK' /\ CountInStep'
    BY <1>5, <2>2 DEF ClockCancelled, DataTypeOK, CountInStep, gameVars, offerVars, clockVars, dbVars, histVars
  <2> QED
    BY <1>5, <2>1, <2>3, PliesKept DEF ClockCancelled, gameVars
<1> QED
  BY <1>1, <1>2, <1>3, <1>4, <1>5 DEF ClockStep

LEMMA StepType == TypeInv /\ [Next]_vars => TypeInv'
<1> SUFFICES ASSUME TypeInv, [Next]_vars PROVE TypeInv'
  OBVIOUS
<1>1. ASSUME NEW c \in Conns, Request(c) \/ Resume(c) \/ EndRequest(c)
      PROVE  TypeInv'
  BY <1>1, MoveType, DrawType, TakebackType, EndType, CevalType, PresenceType
  DEF Request, Resume, EndRequest
<1>2. CASE UNCHANGED vars
  <2>1. DataTypeOK' /\ CountInStep'
    BY <1>2 DEF vars, TypeInv, TypeOK, DataTypeOK, CountInStep, gameVars, offerVars, clockVars, localVars, dbVars, histVars
  <2>2. ControlTypeOK' /\ LockHeld' /\ PliesLeft'
    BY <1>2 DEF vars, TypeInv, TypeOK, ControlTypeOK, LockHeld, PliesLeft, gameVars, localVars
  <2> QED
    BY <2>1, <2>2 DEF TypeInv, TypeOK
<1> QED
  BY <1>1, <1>2, SaveGameType, AbandonType, LobbyLeftType, ClockType DEF Next

\* Type correctness: whatever the players do and however the coroutines
\* interleave, every variable keeps its type, so that for instance the count
\* of games in play (Game.play_move, takeback, save_game) never leaves 0..1.
THEOREM TypeCorrect == Spec => []TypeOK
<1>1. TypeInv => TypeOK
  BY DEF TypeInv
<1> QED
  BY <1>1, InitType, StepType, PTL DEF Spec

-----------------------------------------------------------------------------
(* The result is applied once. *)

\* SavedOnce alone is not inductive: it does not exclude that the result was
\* applied before save_game() was entered.
SaveInv == SavedOnce /\ (~saved => effects = 0)

\* The step brings no coroutine into save_game().
NoNewSaving ==
    /\ \A p \in Procs : pc'[p] \in SavePcs => pc[p] \in SavePcs
    /\ UNCHANGED <<saved, effects>>

LEMMA NoNewSavingSafe ==
  ASSUME SaveInv, NoNewSaving
  PROVE  SaveInv'
  BY DEF SaveInv, SavedOnce, NoNewSaving, Saving

LEMMA MoveOnSafe ==
  ASSUME ControlTypeOK, NEW p \in Procs, NEW v, v \notin SavePcs,
         pc' = [pc EXCEPT ![p] = v], UNCHANGED <<saved, effects>>
  PROVE  NoNewSaving
  BY DEF NoNewSaving, ControlTypeOK

LEMMA ReturnSafe ==
  ASSUME ControlTypeOK, NEW p \in Procs, Return(p), UNCHANGED <<saved, effects>>
  PROVE  NoNewSaving
  BY DEF NoNewSaving, ControlTypeOK, Return, SavePcs

\* The test of saved at the entry of save_game() lets one coroutine in.
LEMMA EnterSaveSafe ==
  ASSUME ControlTypeOK, SaveInv, NEW p \in Procs, NEW l, EnterSave(p, l),
         effects' = effects
  PROVE  SaveInv'
<1>1. CASE saved /\ Return(p) /\ UNCHANGED <<saved, running>>
  BY <1>1, ReturnSafe, NoNewSavingSafe
<1>2. CASE /\ ~saved /\ saved' = TRUE
           /\ CancelClock(p)
  <2>1. \A q \in Procs : pc[q] \notin SavePcs
    BY <1>2 DEF SaveInv, SavedOnce, Saving
  <2>2. \A q \in Procs : pc'[q] \in SavePcs => q = p
    BY <1>2, <2>1 DEF CancelClock, ControlTypeOK, SavePcs
  <2> QED
    BY <1>2, <2>2 DEF SaveInv, SavedOnce, Saving
<1> QED
  BY <1>1, <1>2 DEF EnterSave

LEMMA GameEndedSafe ==
  ASSUME ControlTypeOK, SaveInv, NEW p \in Procs, NEW u, NEW reason, NEW l,
         GameEnded(p, u, reason, l), effects' = effects
  PROVE  SaveInv'
<1>1. CASE EnterSave(p, l)
  BY <1>1, EnterSaveSafe
<1>2. CASE Return(p) /\ UNCHANGED <<status, result, saved, running>>
  BY <1>2, ReturnSafe, NoNewSavingSafe
<1> QED
  BY <1>1, <1>2 DEF GameEnded

LEMMA SaveGameSafe ==
  ASSUME TypeOK, SaveInv, NEW p \in Procs, SaveGame(p)
  PROVE  SaveInv'
<1> USE DEF TypeOK
<1>1. CASE SaveUncount(p) \/ SaveIssue(p)
  <2>1. NoNewSaving
    BY <1>1 DEF SaveUncount, SaveIssue, NoNewSaving, ControlTypeOK, SavePcs, gameVars, dbVars
  <2> QED
    BY <2>1, NoNewSavingSafe
<1>2. CASE SaveWrite(p)
  <2>1. NoNewSaving
    <3>1. UNCHANGED <<saved, effects>> /\ pc[p] \in SavePcs
      BY <1>2 DEF SaveWrite, SavePcs, gameVars
    <3>2. CASE Return(p)
      BY <3>1, <3>2, ReturnSafe
    <3>3. CASE pc' = [pc EXCEPT ![p] = "save_effects"]
      BY <3>1, <3>3 DEF NoNewSaving, ControlTypeOK, SavePcs
    <3> QED
      BY <1>2, <3>2, <3>3 DEF SaveWrite
  <2> QED
    BY <2>1, NoNewSavingSafe
<1>3. CASE SaveEffects(p)
  <2>1. saved /\ effects = 0 /\ \A q \in Procs : pc[q] \in SavePcs => q = p
    BY <1>3 DEF SaveEffects, SaveInv, SavedOnce, Saving, SavePcs
  <2>2. \A q \in Procs : pc'[q] \notin SavePcs
    BY <1>3, <2>1 DEF SaveEffects, Return, ControlTypeOK, SavePcs
  <2>3. saved' = saved /\ effects' \in {0, 1}
    BY <1>3, <2>1 DEF SaveEffects, gameVars
  <2> QED
    BY <2>1, <2>2, <2>3 DEF SaveInv, SavedOnce, Saving
<1> QED
  BY <1>1, <1>2, <1>3 DEF SaveGame

LEMMA ConnSafe ==
  ASSUME TypeOK, SaveInv, NEW c \in Conns,
         Request(c) \/ Resume(c) \/ EndRequest(c)
  PROVE  SaveInv'
<1> USE DEF TypeOK
<1>1. c \in Procs
  BY DEF Procs
<1>2. CASE MoveStart(c) \/ MoveOffers(c)
  <2>1. NoNewSaving
    BY <1>1, <1>2, MoveOnSafe DEF MoveStart, MoveOffers, SavePcs, gameVars, dbVars
  <2> QED
    BY <2>1, NoNewSavingSafe
<1>3. CASE MovePush(c)
  <2>1. effects' = effects
    BY <1>3 DEF MovePush, dbVars
  <2>2. CASE EnterSave(c, lock)
    BY <1>1, <2>1, <2>2, EnterSaveSafe
  <2>3. CASE UNCHANGED saved /\ (Return(c) \/ pc' = [pc EXCEPT ![c] = "move_save"])
    BY <1>1, <2>1, <2>3, MoveOnSafe, ReturnSafe, NoNewSavingSafe DEF SavePcs
  <2> QED
    BY <1>3, <2>2, <2>3 DEF MovePush
<1>4. CASE MoveSave(c) \/ MoveCheck(c)
  <2>1. UNCHANGED <<saved, effects>> /\ (Return(c) \/ pc' = [pc EXCEPT ![c] = "move_check"])
    BY <1>4 DEF MoveSave, MoveCheck, gameVars, dbVars
  <2> QED
    BY <1>1, <2>1, MoveOnSafe, ReturnSafe, NoNewSavingSafe DEF SavePcs
<1>5. CASE Draw(c) \/ CevalForfeit(c)
  <2>1. effects' = effects
    BY <1>5 DEF Draw, CevalForfeit, dbVars
  <2>2. CASE EnterSave(c, lock)
    BY <1>1, <2>1, <2>2, EnterSaveSafe
  <2>3. CASE UNCHANGED saved /\ (Return(c) \/ UNCHANGED pc)
    <3>1. NoNewSaving
      BY <1>1, <2>1, <2>3, ReturnSafe DEF NoNewSaving
    <3> QED
      BY <3>1, NoNewSavingSafe
  <2> QED
    BY <1>5, <2>2, <2>3 DEF Draw, CevalForfeit
<1>6. CASE RejectDraw(c) \/ OfferTakeback(c) \/ RejectTakeback(c) \/ MoreTime(c)
  <2>1. NoNewSaving
    BY <1>6 DEF RejectDraw, OfferTakeback, RejectTakeback, MoreTime, NoNewSaving, gameVars, dbVars
  <2> QED
    BY <2>1, NoNewSavingSafe
<1>7. CASE AcceptTakeback(c) \/ TakebackPop(c) \/ TakebackCount(c) \/ TakebackState(c)
  <2>1. UNCHANGED <<saved, effects>>
    BY <1>7 DEF AcceptTakeback, TakebackPop, TakebackCount, TakebackState, gameVars, dbVars
  <2>2. CASE \E v \in {"takeback_pop", "takeback_count", "takeback_state"} : pc' = [pc EXCEPT ![c] = v]
    BY <1>1, <2>1, <2>2, MoveOnSafe, NoNewSavingSafe DEF SavePcs
  <2>3. CASE UNCHANGED pc
    BY <2>1, <2>3, NoNewSavingSafe DEF NoNewSaving
  <2>4. CASE Return(c)
    BY <1>1, <2>1, <2>4, ReturnSafe, NoNewSavingSafe
  <2> QED
    BY <1>7, <2>2, <2>3, <2>4 DEF AcceptTakeback, TakebackPop, TakebackCount, TakebackState
<1>8. CASE CevalReport(c) \/ \E reason \in DOMAIN EndPc : AskEnd(c, reason)
  <2>1. UNCHANGED <<saved, effects>>
    BY <1>8 DEF CevalReport, AskEnd, gameVars, dbVars
  <2>2. \E v \in {"ceval_db", "abort_lock", "resign_lock", "abandon_lock", "flag_lock"} : pc' = [pc EXCEPT ![c] = v]
    BY <1>8 DEF CevalReport, AskEnd, EndPc
  <2> QED
    BY <1>1, <2>1, <2>2, MoveOnSafe, NoNewSavingSafe DEF SavePcs
<1>9. CASE EndRequest(c)
  <2>1. PICK reason \in DOMAIN EndPc : End(c, reason)
    BY <1>9 DEF EndRequest
  <2>2. effects' = effects
    BY <2>1 DEF End, dbVars
  <2>3. CASE GameEnded(c, Owner[c], reason, c)
    BY <1>1, <2>2, <2>3, GameEndedSafe
  <2>4. CASE Return(c) /\ UNCHANGED <<status, result, saved, running>>
    BY <1>1, <2>2, <2>4, ReturnSafe, NoNewSavingSafe
  <2> QED
    BY <2>1, <2>3, <2>4 DEF End
<1>10. CASE Connect(c)
  <2>1. \A p \in Procs : pc'[p] \in SavePcs => pc[p] \in SavePcs /\ pc'[p] = pc[p]
    BY <1>10 DEF Connect, SavePcs
  <2>2. saved' = saved
    BY <1>10 DEF Connect, gameVars
  <2>3. CASE effects' = effects
    <3>1. NoNewSaving
      BY <2>1, <2>2, <2>3 DEF NoNewSaving
    <3> QED
      BY <3>1, NoNewSavingSafe
  <2>4. CASE effects' = effects + 1
    <3>1. PICK t \in Procs : t = abandonTask[Owner[c]] /\ pc[t] = "save_effects" /\ pc'[t] \notin SavePcs
      <4>1. abandonTask[Owner[c]] \in Tasks \cup {None}
        BY DEF ControlTypeOK
      <4>2. effects' # effects
        BY <2>4 DEF DataTypeOK
      <4>3. abandonTask[Owner[c]] # None /\ pc[abandonTask[Owner[c]]] = "save_effects"
        BY <1>10, <4>2 DEF Connect
      <4>4. abandonTask[Owner[c]] \in Procs
        BY <4>1, <4>3 DEF Procs
      <4>5. pc'[abandonTask[Owner[c]]] \notin SavePcs
        BY <1>10, <4>4 DEF Connect, SavePcs
      <4> QED
        BY <4>3, <4>4, <4>5
    <3>2. saved /\ effects = 0 /\ \A q \in Procs : pc[q] \in SavePcs => q = t
      BY <3>1 DEF SaveInv, SavedOnce, Saving, SavePcs
    <3>3. \A q \in Procs : pc'[q] \notin SavePcs
      BY <2>1, <3>1, <3>2
    <3> QED
      BY <2>2, <2>4, <3>2, <3>3 DEF SaveInv, SavedOnce, Saving
  <2> QED
    BY <1>10, <2>3, <2>4 DEF Connect
<1>11. CASE Disconnect(c)
  <2>1. NoNewSaving
    <3>1. UNCHANGED <<saved, effects>>
      BY <1>11 DEF Disconnect, gameVars, dbVars
    <3>2. PICK t \in Tasks : pc' = [pc EXCEPT ![c] = "closed", ![t] = "sleep"]
      BY <1>11 DEF Disconnect
    <3> QED
      BY <3>1, <3>2 DEF NoNewSaving, ControlTypeOK, SavePcs
  <2> QED
    BY <2>1, NoNewSavingSafe
<1>12. CASE MoveExpired(c)
  <2>1. effects' = effects /\ GameEnded(c, Owner[c], TimeoutReason(ply), c)
    BY <1>12 DEF MoveExpired, dbVars
  <2> QED
    BY <1>1, <2>1, GameEndedSafe
<1> QED
  BY <1>2, <1>3, <1>4, <1>5, <1>6, <1>7, <1>8, <1>9, <1>10, <1>11, <1>12 DEF Request, Resume

LEMMA TaskSafe ==
  ASSUME TypeOK, SaveInv,
         (\E t \in Tasks : AbandonGame(t) \/ LobbyLeft(t)) \/ ClockStep \/ TimePasses
  PROVE  SaveInv'
<1> USE DEF TypeOK
<1>1. ASSUME NEW t \in Tasks, AbandonGame(t) PROVE SaveInv'
  <2>1. effects' = effects /\ t \in Procs
    BY <1>1 DEF AbandonGame, dbVars, Procs
  <2>2. CASE GameEnded(t, Owner[t], "abandon", lock)
    BY <2>1, <2>2, GameEndedSafe
  <2>3. CASE Return(t) /\ UNCHANGED saved
    BY <2>1, <2>3, ReturnSafe, NoNewSavingSafe
  <2> QED
    BY <1>1, <2>2, <2>3 DEF AbandonGame
<1>2. CASE ClockTick \/ ClockGrace \/ ClockClaim \/ TimePasses
  <2>1. UNCHANGED <<saved, effects>>
    BY <1>2 DEF ClockTick, ClockGrace, ClockClaim, TimePasses, gameVars, dbVars
  <2>2. UNCHANGED pc \/ \E v \in {"grace", "clock_lock", "tick"} : pc' = [pc EXCEPT ![ClockTask] = v]
    BY <1>2 DEF ClockTick, ClockGrace, ClockClaim, TimePasses
  <2>3. NoNewSaving
    BY <2>1, <2>2 DEF NoNewSaving, ControlTypeOK, SavePcs
  <2> QED
    BY <2>3, NoNewSavingSafe
<1>3. CASE ClockFlag
  <2>1. effects' = effects /\ ClockTask \in Procs
    BY <1>3 DEF ClockFlag, dbVars, Procs
  <2>2. CASE GameEnded(ClockTask, Turn(flagPly), TimeoutReason(flagPly), ClockTask)
    BY <2>1, <2>2, GameEndedSafe
  <2>3. CASE pc' = [pc EXCEPT ![ClockTask] = "tick"] /\ UNCHANGED saved
    BY <2>1, <2>3, MoveOnSafe, NoNewSavingSafe DEF SavePcs
  <2> QED
    BY <1>3, <2>2, <2>3 DEF ClockFlag
<1>4. ASSUME NEW t \in Tasks, LobbyLeft(t) PROVE SaveInv'
  <2>1. UNCHANGED <<saved, effects>> /\ pc' = [pc EXCEPT ![t] = "sleep"] /\ t \in Procs
    BY <1>4 DEF LobbyLeft, gameVars, dbVars, Procs
  <2> QED
    BY <2>1, MoveOnSafe, NoNewSavingSafe DEF SavePcs
<1>5. CASE ClockCancelled
  <2>1. UNCHANGED <<saved, effects>> /\ pc' = [pc EXCEPT ![ClockTask] = "dead"] /\ ClockTask \in Procs
    BY <1>5 DEF ClockCancelled, gameVars, dbVars, Procs
  <2> QED
    BY <2>1, MoveOnSafe, NoNewSavingSafe DEF SavePcs
<1> QED
  BY <1>1, <1>2, <1>3, <1>4, <1>5 DEF ClockStep

LEMMA InitSafe == Init => SaveInv
  BY DEF Init, SaveInv, SavedOnce, Saving, SavePcs, Procs

LEMMA StepSafe == TypeInv /\ SaveInv /\ [Next]_vars => SaveInv'
<1>1. CASE UNCHANGED vars
  BY <1>1 DEF vars, SaveInv, SavedOnce, Saving, gameVars, dbVars
<1>2. TypeInv => TypeOK
  BY DEF TypeInv
<1> QED
  BY <1>1, <1>2, SaveGameSafe, ConnSafe, TaskSafe DEF Next

LEMMA Invariants == Spec => [](TypeInv /\ SaveInv)
  BY InitType, StepType, InitSafe, StepSafe, PTL DEF Spec

\* Whichever handlers, abandon tasks and countdown task reach save_game(), one
\* of them at a time is inside it and the result is applied to ratings, game
\* counts and the crosstable at most once.
THEOREM SaveCorrect == Spec => []SavedOnce
<1>1. SaveInv => SavedOnce
  BY DEF SaveInv
<1> QED
  BY <1>1, Invariants, PTL

-----------------------------------------------------------------------------
(* Takeback offers *)

\* An offer is one of the present position, inside the lock too: the handler
\* of a move and that of a takeback have cleared it before they touch the ply.
OfferInv ==
    /\ takebackOffer # NoTakeback => takebackOffer.ply = ply
    /\ \A c \in Conns : pc[c] \in {"move_push", "takeback_pop"} => takebackOffer = NoTakeback

\* Steps that leave the offer and the plies alone and start neither.
LEMMA OfferKept ==
  ASSUME OfferInv, UNCHANGED <<takebackOffer, ply>>,
         \A c \in Conns : pc'[c] \in {"move_push", "takeback_pop"} => pc'[c] = pc[c]
  PROVE  OfferInv'
  BY DEF OfferInv

LEMMA OfferKeptReturn ==
  ASSUME ControlTypeOK, OfferInv, UNCHANGED <<takebackOffer, ply>>, NEW p \in Procs,
         Return(p) \/ (\E l : EnterSave(p, l))
  PROVE  OfferInv'
<1>1. \A c \in Conns : pc'[c] \in {"move_push", "takeback_pop"} => pc'[c] = pc[c]
  BY DEF Return, EnterSave, CancelClock, ControlTypeOK, Procs
<1> QED
  BY <1>1, OfferKept

\* A move clears the offer before it is pushed.
LEMMA MoveOffer ==
  ASSUME TypeInv, OfferInv, NEW c \in Conns,
         MoveStart(c) \/ MoveOffers(c) \/ MovePush(c) \/ MoveSave(c) \/ MoveCheck(c)
  PROVE  OfferInv'
<1> USE DEF TypeInv, TypeOK
<1>1. CASE MoveStart(c)
  BY <1>1, OfferKept DEF MoveStart, ControlTypeOK, offerVars, Procs
<1>2. CASE MoveOffers(c)
  BY <1>2 DEF MoveOffers, OfferInv
<1>3. CASE MovePush(c)
  <2>1. takebackOffer = NoTakeback /\ takebackOffer' = takebackOffer
    BY <1>3 DEF MovePush, OfferInv, offerVars
  <2> QED
    BY <2>1 DEF OfferInv
<1>4. CASE MoveSave(c) \/ MoveCheck(c)
  <2>1. UNCHANGED <<takebackOffer, ply>>
    BY <1>4 DEF MoveSave, MoveCheck, gameVars, offerVars
  <2>2. Return(c) \/ pc' = [pc EXCEPT ![c] = "move_check"]
    BY <1>4 DEF MoveSave, MoveCheck
  <2> QED
    BY <2>1, <2>2, OfferKept, OfferKeptReturn DEF ControlTypeOK, Procs
<1> QED
  BY <1>1, <1>2, <1>3, <1>4

\* An offer is made, or accepted, with nobody in a move or a takeback.
LEMMA TakebackOffer ==
  ASSUME TypeInv, OfferInv, NEW c \in Conns,
         OfferTakeback(c) \/ AcceptTakeback(c) \/ TakebackPop(c)
         \/ TakebackCount(c) \/ TakebackState(c) \/ RejectTakeback(c)
  PROVE  OfferInv'
<1> USE DEF TypeInv, TypeOK
<1>1. CASE OfferTakeback(c)
  <2>1. \A d \in Conns : pc'[d] \notin {"move_push", "takeback_pop"}
    BY <1>1 DEF OfferTakeback, LockHeld, Critical, Procs
  <2>2. takebackOffer'.ply = ply'
    BY <1>1 DEF OfferTakeback, gameVars
  <2> QED
    BY <2>1, <2>2 DEF OfferInv
<1>2. CASE AcceptTakeback(c) \/ RejectTakeback(c)
  BY <1>2 DEF AcceptTakeback, RejectTakeback, OfferInv
<1>3. CASE TakebackPop(c)
  <2>1. takebackOffer = NoTakeback /\ takebackOffer' = takebackOffer
    BY <1>3 DEF TakebackPop, OfferInv, offerVars
  <2> QED
    BY <2>1 DEF OfferInv
<1>4. CASE TakebackCount(c)
  BY <1>4, OfferKept DEF TakebackCount, ControlTypeOK, offerVars, Procs
<1>5. CASE TakebackState(c)
  BY <1>5, OfferKeptReturn DEF TakebackState, gameVars, offerVars, Procs
<1> QED
  BY <1>1, <1>2, <1>3, <1>4, <1>5

LEMMA OtherOffer ==
  ASSUME TypeInv, OfferInv,
         \/ \E c \in Conns :
              \/ Draw(c) \/ RejectDraw(c) \/ CevalReport(c) \/ CevalForfeit(c)
              \/ MoreTime(c) \/ Connect(c) \/ Disconnect(c) \/ EndRequest(c)
              \/ MoveExpired(c)
              \/ \E reason \in DOMAIN EndPc : AskEnd(c, reason)
         \/ \E p \in Procs : SaveGame(p)
         \/ \E t \in Tasks : AbandonGame(t) \/ LobbyLeft(t)
         \/ ClockStep \/ TimePasses
  PROVE  OfferInv'
<1> USE DEF TypeInv, TypeOK
<1>1. UNCHANGED <<takebackOffer, ply>>
  BY DEF Draw, RejectDraw, CevalReport, CevalForfeit, MoreTime, Connect, Disconnect,
     EndRequest, End, AskEnd, SaveGame, SaveUncount, SaveIssue, SaveWrite, SaveEffects, AbandonGame,
     MoveExpired, LobbyLeft, ClockCancelled, ClockStep, ClockTick, ClockGrace, ClockClaim, ClockFlag, TimePasses, gameVars, offerVars
<1>2. CASE \E c \in Conns :
              \/ RejectDraw(c) \/ CevalReport(c) \/ MoreTime(c) \/ Disconnect(c) \/ Connect(c)
              \/ \E reason \in DOMAIN EndPc : AskEnd(c, reason)
  <2>1. \A d \in Conns : pc'[d] \in {"move_push", "takeback_pop"} => pc'[d] = pc[d]
    BY <1>2, SMTT(20) DEF RejectDraw, CevalReport, MoreTime, Disconnect, Connect, AskEnd, EndPc,
       ControlTypeOK, Procs
  <2> QED
    BY <1>1, <2>1, OfferKept
<1>3. CASE \E p \in Procs : SaveUncount(p) \/ SaveIssue(p) \/ (SaveWrite(p) /\ ~Return(p))
  <2>1. \A d \in Conns : pc'[d] \in {"move_push", "takeback_pop"} => pc'[d] = pc[d]
    BY <1>3 DEF SaveUncount, SaveIssue, SaveWrite, ControlTypeOK, Procs
  <2> QED
    BY <1>1, <2>1, OfferKept
<1>4. CASE \/ ClockTick \/ ClockGrace \/ ClockClaim \/ ClockCancelled \/ TimePasses
           \/ \E t \in Tasks : LobbyLeft(t)
  <2>1. \A d \in Conns : pc'[d] \in {"move_push", "takeback_pop"} => pc'[d] = pc[d]
    BY <1>4 DEF ClockTick, ClockGrace, ClockClaim, ClockCancelled, TimePasses, LobbyLeft,
       ControlTypeOK, Procs
  <2> QED
    BY <1>1, <2>1, OfferKept
<1>5. CASE \E p \in Procs : Return(p) \/ (\E l : EnterSave(p, l))
  BY <1>1, <1>5, OfferKeptReturn
<1>6. CASE UNCHANGED pc \/ pc' = [pc EXCEPT ![ClockTask] = "tick"]
  BY <1>1, <1>6, OfferKept DEF ControlTypeOK, Procs
<1> QED
  <2>1. ASSUME NEW c \in Conns,
               Draw(c) \/ CevalForfeit(c) \/ EndRequest(c) \/ MoveExpired(c)
        PROVE  OfferInv'
    BY <2>1, <1>5, <1>6 DEF Draw, CevalForfeit, EndRequest, End, MoveExpired, GameEnded, Procs
  <2>2. ASSUME NEW p \in Procs, SaveWrite(p) \/ SaveEffects(p) PROVE OfferInv'
    BY <2>2, <1>3, <1>5 DEF SaveEffects
  <2>3. ASSUME NEW t \in Tasks, AbandonGame(t) PROVE OfferInv'
    BY <2>3, <1>5 DEF AbandonGame, GameEnded, Procs
  <2>4. CASE ClockFlag
    BY <2>4, <1>5, <1>6 DEF ClockFlag, GameEnded, Procs
  <2> QED
    BY <1>2, <1>3, <1>4, <2>1, <2>2, <2>3, <2>4 DEF SaveGame, ClockStep

\* A takeback offer is one of the position on the board: every move clears it
\* first, and it is made only when no move and no takeback is under way
\* (Game.play_move, handle_takeback).
THEOREM OfferStaysFresh == Spec => []TakebackOfferFresh
<1>1. Init => OfferInv
  BY DEF Init, OfferInv, Procs
<1>2. TypeInv /\ OfferInv /\ [Next]_vars => OfferInv'
  <2>1. CASE UNCHANGED vars
    BY <2>1 DEF vars, OfferInv, offerVars, gameVars
  <2> QED
    BY <2>1, MoveOffer, TakebackOffer, OtherOffer DEF Next, Request, Resume
<1>3. OfferInv => TakebackOfferFresh
  BY DEF OfferInv, TakebackOfferFresh
<1> QED
  BY <1>1, <1>2, <1>3, Invariants, PTL DEF Spec

-----------------------------------------------------------------------------
(* Abandonment *)

\* A task that waits is the one in its player's entry, and the player has not
\* been back since it started, unless another task took that entry from it.
EntryInv ==
    \A t \in Tasks : pc[t] = "sleep" =>
        t \in lost \/ (abandonTask[Owner[t]] = t /\ t \notin returned)

\* Steps that start no task and leave the entries alone.
LEMMA EntryKept ==
  ASSUME EntryInv, UNCHANGED <<abandonTask, lost>>, returned' \subseteq returned,
         \A t \in Tasks : pc'[t] = "sleep" => pc[t] = "sleep"
  PROVE  EntryInv'
  BY DEF EntryInv

\* A task that ends takes the entry from whichever task is in it by then.
LEMMA EntryReturn ==
  ASSUME ControlTypeOK, EntryInv, returned' \subseteq returned, NEW p \in Procs,
         Return(p) \/ (\E l : EnterSave(p, l))
  PROVE  EntryInv'
<1>1. CASE Return(p) /\ p \notin Tasks
  BY <1>1, EntryKept DEF Return, ControlTypeOK, Procs
<1>2. CASE Return(p) /\ p \in Tasks
  <2>1. /\ abandonTask' = [abandonTask EXCEPT ![Owner[p]] = None]
        /\ lost' = (lost \cup {abandonTask[Owner[p]]}) \ {p, None}
    BY <1>2 DEF Return, TaskDone
  <2>2. \A t \in Tasks : pc'[t] = IF t = p THEN "none" ELSE pc[t]
    BY <1>2 DEF Return, ControlTypeOK, Procs
  <2>3. ASSUME NEW t \in Tasks, pc'[t] = "sleep"
        PROVE  t \in lost' \/ (abandonTask'[Owner[t]] = t /\ t \notin returned')
    <3>1. t # p /\ t # None /\ pc[t] = "sleep"
      BY <2>2, <2>3 DEF Procs
    <3>2. CASE t \in lost
      BY <2>1, <3>1, <3>2
    <3>3. CASE abandonTask[Owner[t]] = t /\ t \notin returned
      <4>1. CASE Owner[t] = Owner[p]
        BY <2>1, <3>1, <3>3, <4>1
      <4>2. CASE Owner[t] # Owner[p]
        BY <2>1, <3>3, <4>2 DEF ControlTypeOK
      <4> QED
        BY <4>1, <4>2
    <3> QED
      BY <3>1, <3>2, <3>3 DEF EntryInv
  <2> QED
    BY <2>3 DEF EntryInv
<1>3. CASE CancelClock(p) /\ UNCHANGED <<abandonTask, lost>>
  BY <1>3, EntryKept DEF CancelClock, ControlTypeOK, Procs
<1> QED
  BY <1>1, <1>2, <1>3 DEF EnterSave

\* A handler goes on, or waits for its next message.
LEMMA EntryHandler ==
  ASSUME ControlTypeOK, EntryInv, UNCHANGED <<abandonTask, lost, returned>>, NEW c \in Conns,
         UNCHANGED pc \/ (\E v \in ConnPcs : pc' = [pc EXCEPT ![c] = v])
  PROVE  EntryInv'
  BY EntryKept DEF ControlTypeOK, Procs

\* What the steps of a handler do to the tasks.
LEMMA ConnFrame ==
  ASSUME TypeInv, NEW c \in Conns,
         Request(c) \/ Resume(c) \/ EndRequest(c), ~Connect(c), ~Disconnect(c)
  PROVE  /\ UNCHANGED returned
         /\ \/ Return(c) \/ (\E l : EnterSave(c, l))
            \/ UNCHANGED <<pc, abandonTask, lost>>
            \/ UNCHANGED <<abandonTask, lost>> /\ \E v \in ConnPcs : pc' = [pc EXCEPT ![c] = v]
<1> USE DEF TypeInv, TypeOK
<1>2. UNCHANGED returned
  BY DEF Request, Resume, EndRequest, MoveStart, MoveExpired, MoveOffers, MovePush, MoveSave,
     MoveCheck, Draw, RejectDraw, OfferTakeback, AcceptTakeback, RejectTakeback, TakebackPop,
     TakebackCount, TakebackState, AskEnd, End, CevalReport, CevalForfeit, MoreTime, histVars
<1>4. \/ Return(c) \/ (\E l : EnterSave(c, l))
      \/ UNCHANGED <<pc, abandonTask, lost>>
      \/ UNCHANGED <<abandonTask, lost>> /\ \E v \in ConnPcs : pc' = [pc EXCEPT ![c] = v]
  <2> USE DEF ConnPcs
  <2>1. CASE MoveStart(c) \/ MoveOffers(c) \/ MoveSave(c) \/ MoveCheck(c) \/ AcceptTakeback(c)
             \/ TakebackCount(c) \/ TakebackState(c) \/ CevalReport(c)
    BY <2>1 DEF MoveStart, MoveOffers, MoveSave, MoveCheck, AcceptTakeback, TakebackCount,
       TakebackState, CevalReport
  <2>2. CASE MovePush(c)
    BY <2>2 DEF MovePush
  <2>3. CASE Draw(c) \/ CevalForfeit(c) \/ EndRequest(c) \/ MoveExpired(c)
    BY <2>3 DEF Draw, CevalForfeit, EndRequest, End, MoveExpired, GameEnded
  <2>4. CASE TakebackPop(c)
    BY <2>4 DEF TakebackPop
  <2>5. CASE \E reason \in DOMAIN EndPc : AskEnd(c, reason)
    <3>1. PICK reason \in DOMAIN EndPc : AskEnd(c, reason)
      BY <2>5
    <3>2. EndPc[reason] \in {"abort_lock", "resign_lock", "abandon_lock", "flag_lock"}
      BY EndReasons DEF EndPc
    <3> QED
      BY <3>1, <3>2 DEF AskEnd
  <2>6. CASE RejectDraw(c) \/ OfferTakeback(c) \/ RejectTakeback(c) \/ MoreTime(c)
    BY <2>6 DEF RejectDraw, OfferTakeback, RejectTakeback, MoreTime
  <2> QED
    BY <2>1, <2>2, <2>3, <2>4, <2>5, <2>6 DEF Request, Resume
<1> QED
  BY <1>2, <1>4

LEMMA EntryConn ==
  ASSUME TypeInv, EntryInv, NEW c \in Conns,
         Request(c) \/ Resume(c) \/ EndRequest(c), ~Connect(c), ~Disconnect(c)
  PROVE  EntryInv'
<1>1. c \in Procs /\ ControlTypeOK
  BY DEF Procs, TypeInv, TypeOK
<1> QED
  BY <1>1, ConnFrame, EntryReturn, EntryHandler

\* The player's return ends the task in the entry; those it misses had lost it.
LEMMA EntryConnect ==
  ASSUME TypeInv, EntryInv, NEW c \in Conns, Connect(c)
  PROVE  EntryInv'
<1> USE DEF TypeInv, TypeOK
<1> DEFINE t == abandonTask[Owner[c]]
<1>1. \A s \in Tasks : pc'[s] = IF s = t THEN "none" ELSE pc[s]
  BY DEF Connect, Procs
<1>2. abandonTask' = [abandonTask EXCEPT ![Owner[c]] = None] /\ lost' = lost
  BY DEF Connect
<1>3. \A s \in Tasks : s \in returned' => s \in returned \/ Owner[s] = Owner[c]
  BY DEF Connect
<1>4. ASSUME NEW s \in Tasks, pc'[s] = "sleep", s \notin lost
      PROVE  abandonTask'[Owner[s]] = s /\ s \notin returned'
  <2>1. pc[s] = "sleep" /\ s # t
    BY <1>1, <1>4
  <2>2. abandonTask[Owner[s]] = s /\ s \notin returned
    BY <1>4, <2>1 DEF EntryInv
  <2>3. Owner[s] # Owner[c]
    BY <2>1, <2>2
  <2>4. abandonTask'[Owner[s]] = s
    BY <1>2, <2>2, <2>3 DEF ControlTypeOK
  <2> QED
    BY <1>3, <2>2, <2>3, <2>4
<1> QED
  BY <1>2, <1>4 DEF EntryInv

\* A task that starts takes the entry from the one before.
LEMMA EntryStart ==
  ASSUME TypeInv, EntryInv, NEW t \in Tasks, StartTask(t), returned' = returned,
         t \notin returned,
         \A s \in Tasks : pc'[s] = IF s = t THEN "sleep" ELSE pc[s]
  PROVE  EntryInv'
<1> USE DEF TypeInv, TypeOK
<1>1. /\ abandonTask' = [abandonTask EXCEPT ![Owner[t]] = t]
      /\ lost' = (lost \cup {abandonTask[Owner[t]]}) \ {None}
  BY DEF StartTask
<1>2. ASSUME NEW s \in Tasks, pc'[s] = "sleep"
      PROVE  s \in lost' \/ (abandonTask'[Owner[s]] = s /\ s \notin returned')
  <2>1. CASE s = t
    BY <1>1, <2>1 DEF ControlTypeOK
  <2>2. CASE s # t
    <3>1. pc[s] = "sleep" /\ s # None
      BY <1>2, <2>2 DEF Procs
    <3>2. CASE s \in lost
      BY <1>1, <3>1, <3>2
    <3>3. CASE abandonTask[Owner[s]] = s /\ s \notin returned
      <4>1. CASE Owner[s] = Owner[t]
        BY <1>1, <3>1, <3>3, <4>1
      <4>2. CASE Owner[s] # Owner[t]
        BY <1>1, <3>3, <4>2 DEF ControlTypeOK
      <4> QED
        BY <4>1, <4>2
    <3> QED
      BY <3>1, <3>2, <3>3 DEF EntryInv
  <2> QED
    BY <2>1, <2>2
<1> QED
  BY <1>2 DEF EntryInv

\* Only tasks that wait are known as missed, and none of them is in an entry.
ReturnedInv ==
    /\ \A t \in returned : pc[t] = "sleep"
    /\ \A u \in Players : abandonTask[u] # None =>
          Owner[abandonTask[u]] = u /\ abandonTask[u] \notin returned

\* What the steps of save_game(), of the tasks and of time do to the tasks.
LEMMA OtherFrame ==
  ASSUME TypeInv, ReturnedInv,
         (\E p \in Procs : SaveGame(p)) \/ (\E t \in Tasks : AbandonGame(t))
         \/ ClockStep \/ TimePasses
  PROVE  \E p \in Procs :
           /\ returned' \subseteq returned /\ p \notin returned'
           /\ \/ Return(p) \/ (\E l : EnterSave(p, l))
              \/ UNCHANGED <<pc, abandonTask, lost>>
              \/ /\ UNCHANGED <<abandonTask, lost>>
                 /\ \E v : v # "sleep" /\ pc' = [pc EXCEPT ![p] = v]
<1> USE DEF TypeInv, TypeOK
<1> ClockTask \in Procs /\ Tasks \subseteq Procs /\ ClockTask \notin Tasks /\ returned \subseteq Tasks
  BY DEF Procs, DataTypeOK
<1>1. returned' \subseteq returned
  BY DEF SaveGame, SaveUncount, SaveIssue, SaveWrite, SaveEffects, AbandonGame, ClockStep,
     ClockTick, ClockGrace, ClockClaim, ClockFlag, ClockCancelled, TimePasses, histVars
<1>2. ASSUME NEW p \in Procs, SaveGame(p)
      PROVE  /\ p \notin returned'
             /\ \/ Return(p)
                \/ /\ UNCHANGED <<abandonTask, lost>>
                   /\ \E v : v # "sleep" /\ pc' = [pc EXCEPT ![p] = v]
  <2>1. p \notin returned'
    BY <1>1, <1>2 DEF ReturnedInv, SaveGame, SaveUncount, SaveIssue, SaveWrite, SaveEffects
  <2> QED
    BY <1>2, <2>1 DEF SaveGame, SaveUncount, SaveIssue, SaveWrite, SaveEffects
<1>3. ASSUME NEW t \in Tasks, AbandonGame(t)
      PROVE  t \notin returned' /\ (Return(t) \/ (\E l : EnterSave(t, l)))
  BY <1>3 DEF AbandonGame, GameEnded
<1>4. CASE ClockStep \/ TimePasses
  <2>1. ClockTask \notin returned'
    BY <1>1
  <2>2. \/ Return(ClockTask) \/ (\E l : EnterSave(ClockTask, l))
        \/ UNCHANGED <<pc, abandonTask, lost>>
        \/ /\ UNCHANGED <<abandonTask, lost>>
           /\ \E v : v # "sleep" /\ pc' = [pc EXCEPT ![ClockTask] = v]
    BY <1>4 DEF ClockStep, ClockTick, ClockGrace, ClockClaim, ClockFlag, ClockCancelled,
       TimePasses, GameEnded
  <2> QED
    BY <1>1, <2>1, <2>2
<1> QED
  BY <1>1, <1>2, <1>3, <1>4

LEMMA EntryOther ==
  ASSUME TypeInv, EntryInv, ReturnedInv,
         (\E p \in Procs : SaveGame(p)) \/ (\E t \in Tasks : AbandonGame(t))
         \/ ClockStep \/ TimePasses
  PROVE  EntryInv'
<1>1. PICK p \in Procs :
           /\ returned' \subseteq returned /\ p \notin returned'
           /\ \/ Return(p) \/ (\E l : EnterSave(p, l))
              \/ UNCHANGED <<pc, abandonTask, lost>>
              \/ /\ UNCHANGED <<abandonTask, lost>>
                 /\ \E v : v # "sleep" /\ pc' = [pc EXCEPT ![p] = v]
  BY OtherFrame
<1>2. ControlTypeOK
  BY DEF TypeInv, TypeOK
<1>3. CASE Return(p) \/ (\E l : EnterSave(p, l))
  BY <1>1, <1>2, <1>3, EntryReturn
<1>4. CASE /\ UNCHANGED <<abandonTask, lost>>
           /\ (UNCHANGED pc \/ \E v : v # "sleep" /\ pc' = [pc EXCEPT ![p] = v])
  BY <1>1, <1>2, <1>4, EntryKept DEF ControlTypeOK, Procs
<1> QED
  BY <1>1, <1>3, <1>4

\* Steps that let no task wait, of a process that is not a missed task.
LEMMA ReturnedStep ==
  ASSUME TypeInv, ReturnedInv, NEW p \in Procs, p \notin returned',
         returned' \subseteq returned,
         \/ Return(p) \/ (\E l : EnterSave(p, l))
         \/ UNCHANGED <<pc, abandonTask, lost>>
         \/ UNCHANGED <<abandonTask, lost>> /\ \E v : pc' = [pc EXCEPT ![p] = v]
  PROVE  ReturnedInv'
<1> USE DEF TypeInv, TypeOK
<1> returned \subseteq Tasks /\ ClockTask \notin Tasks /\ Tasks \subseteq Procs
  BY DEF DataTypeOK, Procs
<1>1. \A t \in returned' : pc'[t] = pc[t]
  BY DEF Return, EnterSave, CancelClock, ControlTypeOK
<1>2. \A u \in Players : abandonTask'[u] = abandonTask[u] \/ abandonTask'[u] = None
  <2>1. CASE UNCHANGED abandonTask
    BY <2>1
  <2>2. CASE TaskDone(p)
    BY <2>2 DEF TaskDone, ControlTypeOK
  <2> QED
    BY <2>1, <2>2 DEF Return, EnterSave
<1> QED
  BY <1>1, <1>2 DEF ReturnedInv

\* The player's return: the tasks it misses are not in the entry.
LEMMA ReturnedConnect ==
  ASSUME TypeInv, ReturnedInv, NEW c \in Conns, Connect(c)
  PROVE  ReturnedInv'
<1> USE DEF TypeInv, TypeOK
<1> returned \subseteq Tasks /\ Tasks \subseteq Procs /\ c \notin Tasks
  BY DEF DataTypeOK, Procs
<1>1. PICK t : t = abandonTask[Owner[c]]
  OBVIOUS
<1>2. t \notin returned
  BY <1>1 DEF ReturnedInv, DataTypeOK, Procs
<1>3. \A s \in Tasks : pc'[s] = IF s = t THEN "none" ELSE pc[s]
  BY <1>1 DEF Connect
<1>4. returned' = returned \cup {s \in Tasks \ {t} : Owner[s] = Owner[c] /\ pc[s] = "sleep"}
  BY <1>1 DEF Connect
<1>5. abandonTask' = [abandonTask EXCEPT ![Owner[c]] = None]
  BY DEF Connect
<1>6. \A s \in returned' : pc'[s] = "sleep"
  BY <1>2, <1>3, <1>4 DEF ReturnedInv
<1>7. ASSUME NEW u \in Players, abandonTask'[u] # None
      PROVE  Owner[abandonTask'[u]] = u /\ abandonTask'[u] \notin returned'
  <2>1. u # Owner[c] /\ abandonTask'[u] = abandonTask[u]
    BY <1>5, <1>7 DEF ControlTypeOK
  <2>2. Owner[abandonTask[u]] = u /\ abandonTask[u] \notin returned
    BY <1>7, <2>1 DEF ReturnedInv
  <2> QED
    BY <1>4, <2>1, <2>2
<1> QED
  BY <1>6, <1>7 DEF ReturnedInv

\* A task that starts is not one that was missed.
LEMMA ReturnedStart ==
  ASSUME TypeInv, ReturnedInv, NEW t \in Tasks, StartTask(t), returned' = returned,
         \A s \in Tasks : pc'[s] = IF s = t THEN "sleep" ELSE pc[s]
  PROVE  ReturnedInv' /\ t \notin returned
<1> USE DEF TypeInv, TypeOK
<1> returned \subseteq Tasks
  BY DEF DataTypeOK
<1>1. pc[t] = "none" /\ abandonTask' = [abandonTask EXCEPT ![Owner[t]] = t]
  BY DEF StartTask
<1>2. t \notin returned
  BY <1>1 DEF ReturnedInv
<1>3. \A s \in returned' : pc'[s] = "sleep"
  BY <1>2 DEF ReturnedInv
<1>4. ASSUME NEW u \in Players, abandonTask'[u] # None
      PROVE  Owner[abandonTask'[u]] = u /\ abandonTask'[u] \notin returned'
  <2>1. CASE u = Owner[t]
    BY <1>1, <1>2, <2>1 DEF ControlTypeOK
  <2>2. CASE u # Owner[t]
    <3>1. abandonTask'[u] = abandonTask[u]
      BY <1>1, <2>2 DEF ControlTypeOK
    <3> QED
      BY <1>4, <3>1 DEF ReturnedInv
  <2> QED
    BY <2>1, <2>2
<1> QED
  BY <1>2, <1>3, <1>4 DEF ReturnedInv

\* The entries through every step.
LEMMA EntryStep == TypeInv /\ EntryInv /\ ReturnedInv /\ [Next]_vars => EntryInv' /\ ReturnedInv'
<1> SUFFICES ASSUME TypeInv, EntryInv, ReturnedInv, [Next]_vars PROVE EntryInv' /\ ReturnedInv'
  OBVIOUS
<1>1. ASSUME NEW c \in Conns, Connect(c) PROVE EntryInv' /\ ReturnedInv'
  BY <1>1, EntryConnect, ReturnedConnect
<1>2. ASSUME NEW t \in Tasks, StartTask(t), UNCHANGED returned,
             \A s \in Tasks : pc'[s] = IF s = t THEN "sleep" ELSE pc[s]
      PROVE  EntryInv' /\ ReturnedInv'
  BY <1>2, EntryStart, ReturnedStart
<1>3. ASSUME NEW c \in Conns, Disconnect(c) PROVE EntryInv' /\ ReturnedInv'
  <2>1. PICK t \in Tasks : StartTask(t) /\ pc' = [pc EXCEPT ![c] = "closed", ![t] = "sleep"]
    BY <1>3 DEF Disconnect
  <2>2. \A s \in Tasks : pc'[s] = IF s = t THEN "sleep" ELSE pc[s]
    BY <2>1 DEF TypeInv, TypeOK, ControlTypeOK, Procs
  <2>3. UNCHANGED returned
    BY <1>3 DEF Disconnect, histVars
  <2> QED
    BY <1>2, <2>1, <2>2, <2>3
<1>4. ASSUME NEW t \in Tasks, LobbyLeft(t) PROVE EntryInv' /\ ReturnedInv'
  <2>1. StartTask(t) /\ pc' = [pc EXCEPT ![t] = "sleep"] /\ UNCHANGED returned
    BY <1>4 DEF LobbyLeft, histVars
  <2>2. \A s \in Tasks : pc'[s] = IF s = t THEN "sleep" ELSE pc[s]
    BY <2>1 DEF TypeInv, TypeOK, ControlTypeOK, Procs
  <2> QED
    BY <1>2, <2>1, <2>2
<1>5. ASSUME NEW c \in Conns, Request(c) \/ Resume(c) \/ EndRequest(c),
             ~Connect(c), ~Disconnect(c)
      PROVE  EntryInv' /\ ReturnedInv'
  <2>1. c \in Procs /\ c \notin returned
    BY DEF Procs, TypeInv, TypeOK, DataTypeOK
  <2>2. EntryInv'
    BY <1>5, EntryConn
  <2> QED
    BY <1>5, <2>1, <2>2, ConnFrame, ReturnedStep
<1>6. ASSUME (\E p \in Procs : SaveGame(p)) \/ (\E t \in Tasks : AbandonGame(t))
             \/ ClockStep \/ TimePasses
      PROVE  EntryInv' /\ ReturnedInv'
  BY <1>6, EntryOther, OtherFrame, ReturnedStep
<1>7. CASE UNCHANGED vars
  BY <1>7 DEF vars, histVars, EntryInv, ReturnedInv
<1> QED
  BY <1>1, <1>3, <1>4, <1>5, <1>6, <1>7 DEF Next

LEMMA EntryInvariant == Spec => [](TypeInv /\ EntryInv /\ ReturnedInv)
<1>1. Init => EntryInv /\ ReturnedInv
  BY DEF Init, EntryInv, ReturnedInv, Procs
<1> QED
  BY <1>1, EntryStep, InitType, StepType, PTL DEF Spec

\* A game in play becomes an abandoned one by a task or by the player's word.
LEMMA AbandonedBy ==
  ASSUME TypeInv, [Next]_vars, status' = "ABANDON", ~Over
  PROVE  \/ \E c \in Conns : /\ pc[c] = "abandon_lock" /\ pc'[c] # "abandon_lock"
                             /\ result' = Loses(Owner[c])
         \/ \E t \in Tasks : /\ pc[t] = "sleep" /\ pc'[t] # "sleep"
                             /\ result' = Loses(Owner[t])
<1> USE DEF TypeInv, TypeOK
<1>1. status # "ABANDON"
  BY DEF Over, Ended
<1>2. ASSUME NEW c \in Conns, Request(c) \/ Resume(c), ~(\E reason \in DOMAIN EndPc : AskEnd(c, reason))
      PROVE FALSE
  <2>1. CASE MovePush(c) \/ Draw(c) \/ CevalForfeit(c)
    BY <1>1, <2>1 DEF MovePush, Draw, CevalForfeit, UpdateStatus
  <2>2. CASE MoveExpired(c)
    BY <1>1, <2>2 DEF MoveExpired, GameEnded, UpdateStatus, LoserStatus, TimeoutReason
  <2>3. CASE MoveStart(c) \/ TakebackCount(c)
    BY <1>1, <2>3 DEF MoveStart, TakebackCount
  <2>4. CASE UNCHANGED status
    BY <1>1, <2>4
  <2> QED
    BY <1>2, <2>1, <2>2, <2>3, <2>4 DEF Request, Resume, MoveOffers, MoveSave, MoveCheck,
       RejectDraw, OfferTakeback, AcceptTakeback, RejectTakeback, CevalReport,
       MoreTime, Connect, Disconnect, TakebackPop, TakebackState, gameVars
<1>3. ASSUME \/ \E p \in Procs : SaveGame(p)
             \/ \E c \in Conns : \E reason \in DOMAIN EndPc : AskEnd(c, reason)
             \/ \E t \in Tasks : LobbyLeft(t)
             \/ TimePasses \/ UNCHANGED vars
      PROVE  FALSE
  BY <1>1, <1>3 DEF SaveGame, SaveUncount, SaveIssue, SaveWrite, SaveEffects, AskEnd, LobbyLeft,
     TimePasses, vars, gameVars
<1>4. ASSUME ClockStep PROVE FALSE
  BY <1>1, <1>4 DEF ClockStep, ClockTick, ClockGrace, ClockClaim, ClockFlag, ClockCancelled,
     GameEnded, UpdateStatus, LoserStatus, TimeoutReason, gameVars
<1>5. ASSUME NEW t \in Tasks, AbandonGame(t)
      PROVE  pc[t] = "sleep" /\ pc'[t] # "sleep" /\ result' = Loses(Owner[t])
  <2>1. GameEnded(t, Owner[t], "abandon", lock) /\ pc[t] = "sleep"
    BY <1>1, <1>5 DEF AbandonGame
  <2>2. result' = Loses(Owner[t]) /\ EnterSave(t, lock)
    BY <1>1, <2>1 DEF GameEnded, UpdateStatus
  <2>3. pc'[t] # "sleep"
    BY <2>2 DEF EnterSave, CancelClock, Return, ControlTypeOK, Procs
  <2> QED
    BY <2>1, <2>2, <2>3
<1>6. ASSUME NEW c \in Conns, EndRequest(c)
      PROVE  /\ pc[c] = "abandon_lock" /\ pc'[c] # "abandon_lock"
             /\ result' = Loses(Owner[c])
  <2>1. PICK reason \in {"abort", "resign", "abandon", "flag"} : End(c, reason)
    BY <1>6, EndReasons DEF EndRequest
  <2>2. GameEnded(c, Owner[c], reason, c) /\ pc[c] = EndPc[reason]
    BY <1>1, <2>1 DEF End
  <2>3. reason = "abandon"
    BY <1>1, <2>1, <2>2 DEF GameEnded, UpdateStatus, LoserStatus
  <2>4. result' = Loses(Owner[c]) /\ EnterSave(c, c)
    BY <1>1, <2>2, <2>3 DEF GameEnded, UpdateStatus
  <2>5. pc'[c] # "abandon_lock"
    BY <2>4 DEF EnterSave, CancelClock, Return, ControlTypeOK, Procs
  <2> QED
    BY <2>2, <2>3, <2>4, <2>5 DEF EndPc
<1> QED
  BY <1>2, <1>3, <1>4, <1>5, <1>6 DEF Next, Request

\* However many tabs the players have: a game is abandoned only by the player's
\* word, or by a task whose player has not been back since it started to wait,
\* unless that task lost its entry to another one (User.abandon_game,
\* finally_logic, handle_game_user_connected).
THEOREM GraceKept == Spec => GraceRespected
<1>1. ASSUME TypeInv, EntryInv, [Next]_vars, status' = "ABANDON", ~Over
      PROVE  \/ \E c \in Conns :
                   /\ pc[c] = "abandon_lock" /\ pc'[c] # "abandon_lock"
                   /\ result' = Loses(Owner[c])
             \/ \E t \in Tasks :
                   /\ pc[t] = "sleep" /\ pc'[t] # "sleep"
                   /\ t \notin returned \/ t \in lost
                   /\ result' = Loses(Owner[t])
  BY <1>1, AbandonedBy DEF EntryInv
<1>2. TypeInv /\ EntryInv /\ ReturnedInv /\ [Next]_vars =>
        [status' = "ABANDON" /\ ~Over =>
             \/ \E c \in Conns :
                   /\ pc[c] = "abandon_lock" /\ pc'[c] # "abandon_lock"
                   /\ result' = Loses(Owner[c])
             \/ \E t \in Tasks :
                   /\ pc[t] = "sleep" /\ pc'[t] # "sleep"
                   /\ t \notin returned \/ t \in lost
                   /\ result' = Loses(Owner[t])]_vars
  BY <1>1
<1> QED
  BY <1>2, EntryInvariant, PTL DEF Spec, GraceRespected

=============================================================================
