------------------------ MODULE RoundGameRecordProof ------------------------
(***************************************************************************)
(* Games without takebacks (every kind but casual), for any number of      *)
(* websockets and abandon tasks and any bounds: they implement GameRecord, *)
(* what the database and the lobby know of them is right, and a flag falls *)
(* only on a player whose time is up.                                      *)
(***************************************************************************)
EXTENDS RoundGameProof

USE ProcsAssumption
USE DEF entryVars

-----------------------------------------------------------------------------
(* The record of a game *)

TakebackPcs == {"takeback_pop", "takeback_count", "takeback_state"}

\* The document is there and not closed.
Open == doc.exists /\ doc.s \notin Ended

\* The inductive invariant.  Without takebacks saved and the status change
\* together, the outcome stays what save_game() read when it made its
\* document, and nothing else closes the document.  Once that document has
\* landed, it is the outcome, whose effects may be pending.
RankedInv ==
    /\ kind # "casual"
    /\ \A c \in Conns : pc[c] \notin TakebackPcs
    /\ saved <=> Over
    /\ \A p \in Procs :
          pc[p] \in {"save_write", "save_effects"} =>
             newData.s = status /\ newData.r = result
    /\ \A p \in Procs :
          Saving(p) => IF pc[p] = "save_effects" THEN Stored = Outcome ELSE Open
    /\ ~Over => Open

RecordStep == [Record!Next]_(Record!recordVars)

\* No coroutine comes to another await of save_game() or of a takeback.
QuietPc ==
    \A p \in Procs : pc'[p] \in SavePcs \cup TakebackPcs => pc'[p] = pc[p]

\* The outcome, the document as far as it matters and save_game() rest.
Quiet ==
    /\ QuietPc
    /\ UNCHANGED <<kind, saved, result, newData, effects>>
    /\ Over' <=> Over
    /\ Over => status' = status
    /\ Open => Open'
    /\ Stored' = Stored

LEMMA QuietStep ==
  ASSUME SaveInv, RankedInv, Quiet
  PROVE  RankedInv' /\ RecordStep
<1>1. RecordStep
  <2>1. Outcome' = Outcome
    BY DEF Quiet, Outcome
  <2> QED
    BY <2>1 DEF RecordStep, Record!recordVars, Quiet
<1>2. \A p \in Procs : Saving(p)' => Saving(p) /\ Over
  BY DEF Quiet, QuietPc, Saving, SaveInv, SavedOnce, RankedInv
<1>3. \A c \in Conns : pc'[c] \notin TakebackPcs
  BY DEF Quiet, QuietPc, RankedInv, Procs
<1>4. \A p \in Procs : pc'[p] \in {"save_write", "save_effects"} =>
         newData'.s = status' /\ newData'.r = result'
  BY <1>2 DEF Quiet, QuietPc, Saving, SavePcs, RankedInv
<1>6. Outcome' = Outcome
  BY DEF Quiet, Outcome
<1>5. ASSUME NEW p \in Procs, Saving(p)'
      PROVE  IF pc'[p] = "save_effects" THEN Stored' = Outcome' ELSE Open'
  <2>1. Saving(p) /\ pc'[p] = pc[p]
    BY <1>2, <1>5 DEF Quiet, QuietPc, Saving
  <2>2. IF pc[p] = "save_effects" THEN Stored = Outcome ELSE Open
    BY <2>1 DEF RankedInv
  <2> QED
    BY <1>6, <2>1, <2>2 DEF Quiet
<1>7. ~Over' => Open'
  BY DEF Quiet, RankedInv
<1>8. kind' # "casual" /\ (saved' <=> Over')
  BY DEF Quiet, RankedInv
<1> QED
  BY <1>1, <1>3, <1>4, <1>5, <1>7, <1>8 DEF RankedInv

LEMMA MoveOnQuiet ==
  ASSUME ControlTypeOK, NEW p \in Procs, NEW v, v \notin SavePcs \cup TakebackPcs,
         pc' = [pc EXCEPT ![p] = v]
  PROVE  QuietPc
  BY DEF QuietPc, ControlTypeOK

LEMMA ReturnQuiet ==
  ASSUME ControlTypeOK, NEW p \in Procs, Return(p)
  PROVE  QuietPc
  BY DEF QuietPc, ControlTypeOK, Return, SavePcs, TakebackPcs

\* Steps that leave the outcome and the database alone.
LEMMA RestQuiet ==
  ASSUME QuietPc, UNCHANGED <<kind, saved, status, result, newData, effects, doc>>
  PROVE  Quiet
  BY DEF Quiet, Over, Open, Stored

\* An outcome that reaches update_status() and save_game() is decided, or
\* comes too late.
LEMMA DecideStep ==
  ASSUME TypeOK, SaveInv, RankedInv, NEW p \in Procs, NEW l,
         NEW s \in Ended, NEW r \in Result, UpdateStatus(s, r), EnterSave(p, l),
         UNCHANGED <<kind, newData, effects, doc>>
  PROVE  RankedInv' /\ RecordStep
<1>1. CASE saved /\ Return(p) /\ UNCHANGED <<saved, running>>
  <2>1. UNCHANGED <<status, result>>
    BY <1>1 DEF UpdateStatus, RankedInv
  <2>2. Quiet
    BY <1>1, <2>1, ReturnQuiet, RestQuiet DEF TypeOK
  <2> QED
    BY <2>2, QuietStep
<1>2. CASE ~saved /\ saved' = TRUE /\ CancelClock(p)
  <2>1. ~Over /\ Open /\ status' = s /\ result' = r
    BY <1>2 DEF RankedInv, UpdateStatus
  <2>2. Over'
    BY <2>1 DEF Over
  <2>8. \A q \in Procs : pc'[q] = pc[q] \/ pc'[q] \in {"dead", "cancelled", "save_uncount"}
    BY <1>2 DEF CancelClock, TypeOK, ControlTypeOK, Procs
  <2>9. \A q \in Procs : pc[q] \notin SavePcs
    BY <1>2 DEF SaveInv, SavedOnce, Saving
  <2>3. /\ \A q \in Procs : pc'[q] \notin {"save_write", "save_effects"}
        /\ \A c \in Conns : pc'[c] \notin TakebackPcs
    BY <2>8, <2>9 DEF SavePcs, RankedInv, TakebackPcs, Procs
  <2>4. Open' /\ Stored' = Stored /\ Stored = NoOutcome
    BY <2>1 DEF Open, Stored
  <2>5. RankedInv'
    BY <1>2, <2>2, <2>3, <2>4 DEF RankedInv, Procs
  <2>6. Outcome = NoOutcome /\ Outcome' \in [s : Ended, r : Result]
    BY <2>1, <2>2 DEF Outcome
  <2>7. Record!Decide
    BY <2>4, <2>6 DEF Record!Decide
  <2> QED
    BY <2>5, <2>7 DEF RecordStep, Record!Next
<1> QED
  BY <1>1, <1>2 DEF EnterSave

LEMMA GameEndedStep ==
  ASSUME TypeOK, SaveInv, RankedInv, NEW p \in Procs, NEW u \in Players, NEW l,
         NEW reason \in {"abort", "resign", "flag", "abandon"},
         GameEnded(p, u, reason, l), UNCHANGED <<kind, newData, effects, doc>>
  PROVE  RankedInv' /\ RecordStep
<1>1. CASE /\ \E r \in Result : UpdateStatus(LoserStatus[reason], r)
           /\ EnterSave(p, l)
  <2>1. LoserStatus[reason] \in Ended
    BY DEF LoserStatus, Ended
  <2> QED
    BY <1>1, <2>1, DecideStep
<1>2. CASE Return(p) /\ UNCHANGED <<status, result, saved, running>>
  <2>1. Quiet
    BY <1>2, ReturnQuiet, RestQuiet DEF TypeOK
  <2> QED
    BY <2>1, QuietStep
<1> QED
  BY <1>1, <1>2 DEF GameEnded, Loses, Result

\* The document of save_game() is the outcome, or its deletion.
LEMMA LandedStored ==
  ASSUME TypeOK, SaveInv, RankedInv, NEW p \in Procs, pc[p] = "save_write",
         doc' = Landed, UNCHANGED <<status, result>>
  PROVE  /\ Over /\ Outcome' = Outcome /\ Outcome # NoOutcome
         /\ Stored = NoOutcome
         /\ Stored' = IF newData.delete THEN Discarded ELSE Outcome
<1>0. Saving(p)
  BY DEF Saving, SavePcs
<1>1. Over /\ Open /\ newData.s = status /\ newData.r = result
  BY <1>0 DEF SaveInv, SavedOnce, RankedInv
<1>2. Outcome' = Outcome /\ Outcome # NoOutcome
  BY <1>1 DEF Outcome, Over, NoOutcome, Ended
<1>3. Stored = NoOutcome
  BY <1>1 DEF Stored, Open
<1>4. CASE newData.delete
  <2>1. ~doc'.exists
    BY <1>4 DEF Landed, NoDoc
  <2> QED
    BY <1>1, <1>2, <1>3, <1>4, <2>1 DEF Stored
<1>5. CASE ~newData.delete
  <2>1. doc'.exists /\ doc'.s = status /\ doc'.r = result
    BY <1>1, <1>5 DEF Landed, TypeOK, DataTypeOK, Open
  <2> QED
    BY <1>1, <1>2, <1>3, <1>5, <2>1 DEF Stored, Outcome, Over
<1> QED
  BY <1>4, <1>5

LEMMA SaveGameStep ==
  ASSUME TypeOK, SaveInv, RankedInv, NEW p \in Procs, SaveGame(p)
  PROVE  RankedInv' /\ RecordStep
<1> USE DEF TypeOK
<1>0. Saving(p) /\ saved /\ Over /\ effects = 0 /\ \A q \in Procs : Saving(q) => q = p
  BY DEF SaveGame, SaveUncount, SaveIssue, SaveWrite, SaveEffects, SaveInv, SavedOnce,
     Saving, SavePcs, RankedInv
<1>1. CASE SaveUncount(p) \/ SaveIssue(p)
  <2>1. UNCHANGED <<kind, saved, status, result, doc, effects>>
    BY <1>1 DEF SaveUncount, SaveIssue, gameVars, dbVars
  <2>2. RecordStep
    BY <2>1 DEF RecordStep, Record!recordVars, Outcome, Stored, Over
  <2>4. /\ \A q \in Procs : q # p => pc'[q] = pc[q]
        /\ pc'[p] \in {"save_issue", "save_write"}
    BY <1>1 DEF SaveUncount, SaveIssue, ControlTypeOK
  <2>5. pc'[p] = "save_write" => newData'.s = status' /\ newData'.r = result'
    BY <1>1, <2>1, <2>4 DEF SaveUncount, SaveIssue, ControlTypeOK
  <2>6. /\ \A c \in Conns : pc'[c] \notin TakebackPcs
        /\ \A q \in Procs : pc'[q] \in {"save_write", "save_effects"} =>
              newData'.s = status' /\ newData'.r = result'
    BY <1>0, <2>4, <2>5 DEF RankedInv, TakebackPcs, Procs, Saving, SavePcs
  <2>8. Open
    BY <1>0, <1>1 DEF RankedInv, SaveUncount, SaveIssue
  <2>7. Open' /\ Over'
    BY <1>0, <2>1, <2>8 DEF Open, Over
  <2>9. \A q \in Procs : pc'[q] # "save_effects"
    BY <1>0, <2>4 DEF Saving, SavePcs
  <2> QED
    BY <1>0, <2>1, <2>2, <2>6, <2>7, <2>9 DEF RankedInv
<1>2. CASE SaveWrite(p)
  <2>1. /\ UNCHANGED <<kind, ply, status, result, saved, effects>>
        /\ doc' = Landed /\ pc[p] = "save_write"
    BY <1>2 DEF SaveWrite, gameVars
  <2>2. /\ Over /\ Outcome' = Outcome /\ Outcome # NoOutcome
        /\ Stored = NoOutcome
        /\ Stored' = IF newData.delete THEN Discarded ELSE Outcome
    BY <2>1, LandedStored
  <2>4. Record!Store \/ Record!Discard
    BY <2>1, <2>2 DEF Record!Store, Record!Discard
  <2>3. \/ Return(p)
        \/ pc' = [pc EXCEPT ![p] = "save_effects"] /\ ~newData.delete /\ newData' = newData
    BY <1>2 DEF SaveWrite
  <2>5. \A q \in Procs : q # p => pc'[q] = pc[q] /\ pc'[q] \notin SavePcs
    BY <1>0, <2>3 DEF Saving, Return, ControlTypeOK
  <2>9. \/ pc'[p] \notin SavePcs \cup TakebackPcs
        \/ pc'[p] = "save_effects" /\ ~newData.delete /\ newData' = newData
    BY <2>3 DEF Return, ControlTypeOK, SavePcs, TakebackPcs
  <2>6. \A c \in Conns : pc'[c] \notin TakebackPcs
    BY <2>5, <2>9 DEF RankedInv, TakebackPcs, Procs
  <2>7. Over' /\ saved'
    BY <1>0, <2>1 DEF Over
  <2>10. newData.s = status /\ newData.r = result
    BY <2>1 DEF RankedInv
  <2>11. \A q \in Procs : pc'[q] \in {"save_write", "save_effects"} =>
            newData'.s = status' /\ newData'.r = result'
    BY <2>1, <2>5, <2>9, <2>10 DEF SavePcs
  <2>12. \A q \in Procs : Saving(q)' => pc'[q] = "save_effects" /\ Stored' = Outcome'
    BY <2>2, <2>5, <2>9 DEF Saving
  <2>8. RankedInv'
    BY <2>1, <2>6, <2>7, <2>11, <2>12 DEF RankedInv
  <2> QED
    BY <2>4, <2>8 DEF RecordStep, Record!Next
<1>3. CASE SaveEffects(p)
  <2>1. /\ UNCHANGED <<kind, status, result, saved, doc>>
        /\ pc[p] = "save_effects" /\ Return(p) /\ effects' \in {effects, effects + 1}
    BY <1>3 DEF SaveEffects, gameVars
  <2>2. Outcome' = Outcome /\ Stored' = Stored /\ Over'
    BY <1>0, <2>1 DEF Outcome, Stored, Over
  <2>3. Stored = Outcome /\ Outcome \notin {NoOutcome, Discarded}
    BY <1>0, <2>1 DEF RankedInv, Outcome, Over, NoOutcome, Discarded, Ended
  <2>4. RecordStep
    BY <1>0, <2>1, <2>2, <2>3
    DEF RecordStep, Record!Next, Record!Apply, Record!recordVars
  <2>5. \A q \in Procs : pc'[q] \notin SavePcs
    BY <1>0, <2>1 DEF Saving, Return, ControlTypeOK, SavePcs
  <2>6. \A c \in Conns : pc'[c] \notin TakebackPcs
    BY <2>1 DEF Return, ControlTypeOK, RankedInv, TakebackPcs, Procs
  <2>7. RankedInv'
    BY <1>0, <2>1, <2>2, <2>5, <2>6 DEF RankedInv, Saving, SavePcs
  <2> QED
    BY <2>4, <2>7
<1> QED
  BY <1>1, <1>2, <1>3 DEF SaveGame

\* A player who comes back may cut save_game() in two: the document is what it
\* was, or the outcome; the effects are pending, or complete.
LEMMA ConnectStep ==
  ASSUME TypeOK, SaveInv, RankedInv, NEW c \in Conns, Connect(c)
  PROVE  RankedInv' /\ RecordStep
<1> USE DEF TypeOK
<1>0. PICK t : t = abandonTask[Owner[c]]
  OBVIOUS
<1>1. UNCHANGED <<kind, ply, status, result, saved>> /\ pc[c] = "closed"
  BY DEF Connect, gameVars
<1>2. \A p \in Procs : pc'[p] = IF p = c THEN "idle" ELSE IF p = t THEN "none" ELSE pc[p]
  BY <1>0 DEF Connect
<1>3. QuietPc
  BY <1>2 DEF QuietPc, SavePcs, TakebackPcs
<1>4. CASE t = None \/ pc[t] \notin SavePcs
  <2>1. UNCHANGED <<newData, effects, doc>>
    BY <1>0, <1>4 DEF Connect, SavePcs
  <2> QED
    BY <1>1, <1>3, <2>1, RestQuiet, QuietStep
<1>5. CASE t # None /\ pc[t] \in SavePcs
  <2>1. t \in Procs /\ t # c
    BY <1>0, <1>1, <1>5 DEF ControlTypeOK, Procs, SavePcs
  <2>2. saved /\ Over /\ effects = 0 /\ \A q \in Procs : Saving(q) => q = t
    BY <1>5, <2>1 DEF SaveInv, SavedOnce, Saving, RankedInv
  <2>3. \A q \in Procs : pc'[q] \notin SavePcs
    BY <1>2, <2>2 DEF Saving, SavePcs
  <2>4. Over' /\ saved' /\ Outcome' = Outcome
    BY <1>1, <2>2 DEF Over, Outcome
  <2>5. \A d \in Conns : pc'[d] \notin TakebackPcs
    BY <1>3 DEF QuietPc, RankedInv, Procs
  <2>6. RankedInv'
    BY <1>1, <2>3, <2>4, <2>5 DEF RankedInv, Saving, SavePcs
  <2>7. CASE pc[t] = "save_write" /\ doc' = Landed
    <3>1. effects' = effects
      BY <1>0, <2>7 DEF Connect
    <3>2. /\ Outcome # NoOutcome /\ Stored = NoOutcome
          /\ Stored' = IF newData.delete THEN Discarded ELSE Outcome
      BY <1>1, <2>1, <2>7, LandedStored
    <3>3. Record!Store \/ Record!Discard
      BY <2>4, <3>1, <3>2 DEF Record!Store, Record!Discard
    <3> QED
      BY <2>6, <3>3 DEF RecordStep, Record!Next
  <2>8. CASE doc' = doc
    <3>1. Stored' = Stored
      BY <2>8 DEF Stored
    <3>2. effects' = effects \/ (pc[t] = "save_effects" /\ effects' = effects + 1)
      BY <1>0 DEF Connect
    <3>3. CASE effects' = effects
      BY <2>4, <2>6, <3>1, <3>3 DEF RecordStep, Record!recordVars
    <3>4. CASE pc[t] = "save_effects" /\ effects' = effects + 1
      <4>1. Stored = Outcome
        BY <2>1, <3>4 DEF RankedInv, Saving, SavePcs
      <4>2. Outcome \notin {NoOutcome, Discarded}
        BY <2>2 DEF Outcome, Over, NoOutcome, Discarded, Ended
      <4>3. Record!Apply
        BY <2>2, <2>4, <3>1, <3>4, <4>1, <4>2 DEF Record!Apply
      <4> QED
        BY <2>6, <4>3 DEF RecordStep, Record!Next
    <3> QED
      BY <3>2, <3>3, <3>4
  <2>9. doc' = doc \/ (pc[t] = "save_write" /\ doc' = Landed)
    BY <1>0, <1>5 DEF Connect
  <2> QED
    BY <2>7, <2>8, <2>9
<1> QED
  BY <1>4, <1>5

LEMMA ConnStep ==
  ASSUME TypeOK, SaveInv, RankedInv, NEW c \in Conns,
         Request(c) \/ Resume(c) \/ EndRequest(c)
  PROVE  RankedInv' /\ RecordStep
<1> USE DEF TypeOK
<1>1. c \in Procs /\ Owner[c] \in Players
  BY DEF Procs
<1>2. CASE MoveStart(c)
  <2>1. UNCHANGED <<kind, saved, result, newData, effects, doc>>
    BY <1>2 DEF MoveStart, localVars, dbVars
  <2>2. ~Over /\ ~Over'
    BY <1>2 DEF MoveStart, Over, Ended
  <2>3. QuietPc
    BY <1>1, <1>2, MoveOnQuiet DEF MoveStart, SavePcs, TakebackPcs
  <2>4. Quiet
    BY <2>1, <2>2, <2>3 DEF Quiet, Open, Stored
  <2> QED
    BY <2>4, QuietStep
<1>3. CASE MoveOffers(c)
  <2>1. UNCHANGED <<kind, saved, status, result, newData, effects, doc>>
    BY <1>3 DEF MoveOffers, gameVars, localVars, dbVars
  <2>2. QuietPc
    BY <1>1, <1>3, MoveOnQuiet DEF MoveOffers, SavePcs, TakebackPcs
  <2> QED
    BY <2>1, <2>2, RestQuiet, QuietStep
<1>4. CASE MovePush(c)
  <2>1. UNCHANGED <<kind, newData, effects, doc>>
    BY <1>4 DEF MovePush, localVars, dbVars
  <2>2. CASE /\ EnterSave(c, lock)
             /\ \E s \in Ended, r \in Result : UpdateStatus(s, r)
    BY <1>1, <2>1, <2>2, DecideStep
  <2>3. CASE /\ UNCHANGED <<status, result, saved>>
             /\ Return(c) \/ pc' = [pc EXCEPT ![c] = "move_save"]
    <3>1. QuietPc
      BY <1>1, <2>3, ReturnQuiet, MoveOnQuiet DEF SavePcs, TakebackPcs
    <3> QED
      BY <2>1, <2>3, <3>1, RestQuiet, QuietStep
  <2>4. /\ "DRAW" \in Ended /\ "MATE" \in Ended /\ "1/2-1/2" \in Result
        /\ \A u \in Players : Loses(u) \in Result
    BY DEF Ended, Result, Loses
  <2> QED
    BY <1>4, <2>2, <2>3, <2>4 DEF MovePush
<1>5. CASE MoveSave(c) \/ MoveCheck(c)
  <2>1. UNCHANGED <<kind, saved, status, result, newData, effects>>
    BY <1>5 DEF MoveSave, MoveCheck, gameVars, localVars, dbVars
  <2>2. QuietPc
    BY <1>1, <1>5, MoveOnQuiet, ReturnQuiet DEF MoveSave, MoveCheck, SavePcs, TakebackPcs
  <2>3. doc' = doc \/ (doc.exists /\ doc.s \in Live /\ doc'.exists /\ doc'.s = "STARTED")
    BY <1>5 DEF MoveSave, MoveCheck, dbVars, DataTypeOK
  <2>4. (Open => Open') /\ Stored' = Stored
    BY <2>3 DEF Open, Stored, Live, Ended
  <2>5. Quiet
    BY <2>1, <2>2, <2>4 DEF Quiet, Over
  <2> QED
    BY <2>5, QuietStep
<1>6. CASE Draw(c)
  <2>1. UNCHANGED <<kind, newData, effects, doc>>
    BY <1>6 DEF Draw, localVars, dbVars
  <2>2. CASE UpdateStatus("DRAW", "1/2-1/2") /\ EnterSave(c, lock)
    BY <1>1, <2>1, <2>2, DecideStep DEF Ended, Result
  <2>3. CASE UNCHANGED <<status, result, saved, pc>>
    <3>1. QuietPc
      BY <2>3 DEF QuietPc
    <3> QED
      BY <2>1, <2>3, <3>1, RestQuiet, QuietStep
  <2> QED
    BY <1>6, <2>2, <2>3 DEF Draw
<1>7. CASE CevalForfeit(c)
  <2>1. UNCHANGED <<kind, newData, effects, doc>>
    BY <1>7 DEF CevalForfeit, localVars, dbVars
  <2>2. CASE UpdateStatus("CHEAT", Loses(Owner[c])) /\ EnterSave(c, lock)
    BY <1>1, <2>1, <2>2, DecideStep DEF Ended, Result, Loses
  <2>3. CASE UNCHANGED <<status, result, saved>> /\ Return(c)
    BY <1>1, <2>1, <2>3, ReturnQuiet, RestQuiet, QuietStep
  <2> QED
    BY <1>7, <2>2, <2>3 DEF CevalForfeit
<1>8. CASE RejectDraw(c) \/ RejectTakeback(c)
  <2>1. UNCHANGED <<kind, saved, status, result, newData, effects, doc, pc>>
    BY <1>8 DEF RejectDraw, RejectTakeback, gameVars, localVars, dbVars
  <2>2. QuietPc
    BY <2>1 DEF QuietPc
  <2> QED
    BY <2>1, <2>2, RestQuiet, QuietStep
<1>9. ~(OfferTakeback(c) \/ AcceptTakeback(c) \/ MoreTime(c))
  BY DEF OfferTakeback, AcceptTakeback, MoreTime, TakebackAllowed, RankedInv
<1>10. ~(TakebackPop(c) \/ TakebackCount(c) \/ TakebackState(c))
  BY DEF TakebackPop, TakebackCount, TakebackState, TakebackPcs, RankedInv
<1>11. CASE CevalReport(c) \/ \E reason \in DOMAIN EndPc : AskEnd(c, reason)
  <2>1. UNCHANGED <<kind, saved, status, result, newData, effects, doc>>
    BY <1>11 DEF CevalReport, AskEnd, gameVars, localVars, dbVars
  <2>2. \E v \in {"ceval_db", "abort_lock", "resign_lock", "abandon_lock", "flag_lock"} :
           pc' = [pc EXCEPT ![c] = v]
    BY <1>11, EndReasons DEF CevalReport, AskEnd, EndPc
  <2>3. QuietPc
    BY <1>1, <2>2, MoveOnQuiet DEF SavePcs, TakebackPcs
  <2> QED
    BY <2>1, <2>3, RestQuiet, QuietStep
<1>12. CASE EndRequest(c)
  <2>1. PICK reason \in {"abort", "resign", "abandon", "flag"} : End(c, reason)
    BY <1>12, EndReasons DEF EndRequest
  <2>2. UNCHANGED <<kind, newData, effects, doc>>
    BY <2>1 DEF End, localVars, dbVars
  <2>3. CASE GameEnded(c, Owner[c], reason, c)
    BY <1>1, <2>2, <2>3, GameEndedStep
  <2>4. CASE Return(c) /\ UNCHANGED <<status, result, saved, running>>
    BY <1>1, <2>2, <2>4, ReturnQuiet, RestQuiet, QuietStep
  <2> QED
    BY <2>1, <2>3, <2>4 DEF End
<1>13. CASE Disconnect(c)
  <2>1. UNCHANGED <<kind, saved, status, result, newData, effects, doc>>
    BY <1>13 DEF Disconnect, gameVars, localVars, dbVars
  <2>2. QuietPc
    BY <1>13 DEF Disconnect, QuietPc, ControlTypeOK, SavePcs, TakebackPcs
  <2> QED
    BY <2>1, <2>2, RestQuiet, QuietStep
<1>14. CASE MoveExpired(c)
  <2>1. UNCHANGED <<kind, newData, effects, doc>>
    BY <1>14 DEF MoveExpired, localVars, dbVars
  <2>2. GameEnded(c, Owner[c], TimeoutReason(ply), c) /\ TimeoutReason(ply) \in {"abort", "flag"}
    BY <1>14 DEF MoveExpired, TimeoutReason
  <2> QED
    BY <1>1, <2>1, <2>2, GameEndedStep
<1> QED
  BY <1>2, <1>3, <1>4, <1>5, <1>6, <1>7, <1>8, <1>9, <1>10, <1>11, <1>12, <1>13, <1>14, ConnectStep
  DEF Request, Resume

LEMMA TaskStep ==
  ASSUME TypeOK, SaveInv, RankedInv,
         (\E t \in Tasks : AbandonGame(t) \/ LobbyLeft(t)) \/ ClockStep \/ TimePasses
  PROVE  RankedInv' /\ RecordStep
<1> USE DEF TypeOK
<1>1. ASSUME NEW t \in Tasks, AbandonGame(t) PROVE RankedInv' /\ RecordStep
  <2>1. /\ UNCHANGED <<kind, newData, effects, doc>>
        /\ t \in Procs /\ Owner[t] \in Players
    BY <1>1 DEF AbandonGame, localVars, dbVars, Procs
  <2>2. CASE GameEnded(t, Owner[t], "abandon", lock)
    BY <2>1, <2>2, GameEndedStep
  <2>3. CASE Return(t) /\ UNCHANGED <<status, result, saved, running>>
    BY <2>1, <2>3, ReturnQuiet, RestQuiet, QuietStep
  <2> QED
    BY <1>1, <2>2, <2>3 DEF AbandonGame
<1>2. CASE ClockTick \/ ClockGrace \/ ClockClaim \/ ClockCancelled \/ TimePasses
  <2>1. UNCHANGED <<kind, saved, status, result, newData, effects, doc>>
    BY <1>2 DEF ClockTick, ClockGrace, ClockClaim, ClockCancelled, TimePasses, gameVars,
       localVars, dbVars
  <2>2. \/ UNCHANGED pc
        \/ \E v \in {"grace", "clock_lock", "tick", "dead"} : pc' = [pc EXCEPT ![ClockTask] = v]
    BY <1>2 DEF ClockTick, ClockGrace, ClockClaim, ClockCancelled, TimePasses
  <2>3. QuietPc
    BY <2>2 DEF QuietPc, ControlTypeOK, SavePcs, TakebackPcs
  <2> QED
    BY <2>1, <2>3, RestQuiet, QuietStep
<1>3. CASE ClockFlag
  <2>1. UNCHANGED <<kind, newData, effects, doc>> /\ ClockTask \in Procs
    BY <1>3 DEF ClockFlag, localVars, dbVars, Procs
  <2>2. CASE GameEnded(ClockTask, Turn(flagPly), TimeoutReason(flagPly), ClockTask)
    <3>1. Turn(flagPly) \in Players /\ TimeoutReason(flagPly) \in {"abort", "flag"}
      BY DEF Turn, Players, TimeoutReason
    <3> QED
      BY <2>1, <2>2, <3>1, GameEndedStep
  <2>3. CASE /\ pc' = [pc EXCEPT ![ClockTask] = "tick"]
             /\ UNCHANGED <<status, result, saved>>
    <3>1. QuietPc
      BY <2>1, <2>3, MoveOnQuiet DEF SavePcs, TakebackPcs
    <3> QED
      BY <2>1, <2>3, <3>1, RestQuiet, QuietStep
  <2> QED
    BY <1>3, <2>2, <2>3 DEF ClockFlag
<1>4. ASSUME NEW t \in Tasks, LobbyLeft(t) PROVE RankedInv' /\ RecordStep
  <2>1. UNCHANGED <<kind, saved, status, result, newData, effects, doc>>
    BY <1>4 DEF LobbyLeft, gameVars, localVars, dbVars
  <2>2. QuietPc
    BY <1>4 DEF LobbyLeft, QuietPc, ControlTypeOK, SavePcs, TakebackPcs
  <2> QED
    BY <2>1, <2>2, RestQuiet, QuietStep
<1> QED
  BY <1>1, <1>2, <1>3, <1>4 DEF ClockStep

LEMMA InitRanked == ASSUME "casual" \notin Kinds, Init PROVE RankedInv /\ Record!Init
<1>1. \A p \in Procs : pc[p] \in {"closed", "none", "tick"}
  BY DEF Init
<1>2. status \in Live /\ doc.s = status /\ doc.exists /\ effects = 0 /\ ~saved /\ kind # "casual"
  BY DEF Init, Live
<1>3. ~Over /\ Open /\ Outcome = NoOutcome /\ Stored = NoOutcome
  BY <1>2 DEF Over, Open, Outcome, Stored, Live, Ended
<1>4. /\ \A p \in Procs : pc[p] \notin SavePcs
      /\ \A c \in Conns : pc[c] \notin TakebackPcs
  BY <1>1 DEF SavePcs, TakebackPcs, Procs
<1> QED
  BY <1>2, <1>3, <1>4 DEF RankedInv, Record!Init, Saving, SavePcs

LEMMA StepRanked ==
  TypeInv /\ SaveInv /\ RankedInv /\ [Next]_vars => RankedInv' /\ RecordStep
<1> SUFFICES ASSUME TypeInv, SaveInv, RankedInv, [Next]_vars
             PROVE  RankedInv' /\ RecordStep
  OBVIOUS
<1>1. CASE UNCHANGED vars
  <2>1. QuietPc
    BY <1>1 DEF vars, QuietPc
  <2>2. UNCHANGED <<kind, saved, status, result, newData, effects, doc>>
    BY <1>1 DEF vars, gameVars, localVars, dbVars
  <2> QED
    BY <2>1, <2>2, RestQuiet, QuietStep
<1>2. TypeOK
  BY DEF TypeInv
<1> QED
  BY <1>1, <1>2, SaveGameStep, ConnStep, TaskStep DEF Next

LEMMA RankedInvariant ==
  ASSUME "casual" \notin Kinds
  PROVE  Spec => [](TypeInv /\ SaveInv /\ RankedInv)
<1>1. Init => RankedInv
  BY InitRanked
<1> QED
  BY <1>1, StepRanked, Invariants, PTL DEF Spec

\* A game without takebacks is, to the rest of the server, a GameRecord: its
\* outcome is decided once, whichever of the concurrent handlers and tasks is
\* first; save_game() stores that outcome or deletes the game once; and the
\* result is applied at most once, and not before the outcome is durable ("the
\* authoritative final game state" comes first, Game.save_game).
THEOREM ImplementsRecord ==
  ASSUME "casual" \notin Kinds
  PROVE  Spec => RecordSpec
<1>1. Init => Record!Init
  BY InitRanked
<1> QED
  BY <1>1, StepRanked, RankedInvariant, PTL DEF Spec, RecordSpec, Record!Spec, RecordStep

-----------------------------------------------------------------------------
(***************************************************************************)
(* What the database and the lobby know.                                   *)
(*                                                                         *)
(* A move and the end of the game are written by different coroutines.     *)
(* The invariant says whose write is missing while they overlap: the       *)
(* document of an open game is one move behind exactly while the handler   *)
(* of that move has yet to write it, and that of a decided game is open    *)
(* only while one coroutine is inside save_game().                         *)
(***************************************************************************)

Moving == \E c \in Conns : pc[c] \in {"move_offers", "move_push"}
Storing == \E c \in Conns : pc[c] = "move_save"

StoredMoves ==
    /\ Open /\ Storing => doc.m = ply - 1
    /\ ~Over /\ ~Storing => doc.m = ply
    /\ ~Over /\ ~Moving /\ ~Storing => doc.s = status
    /\ \A c \in Conns : pc[c] = "move_save" => ply > 0
    /\ \A c \in Conns : pc[c] = "move_check" => Over /\ ~Open
    /\ ~evicted

Counting ==
    /\ ~Over => (counted <=> ply > 0 \/ Moving)
    /\ ~Over => (counted <=> status = "STARTED")
    /\ Over /\ counted /\ ~cutSave => \E p \in Procs : pc[p] = "save_uncount"

\* The document of a finished game is what is kept of it.
Written ==
    IF ply < 3 /\ kind # "tournament" THEN ~doc.exists
    ELSE doc = [exists |-> TRUE, m |-> ply, s |-> status, r |-> result]

\* A coroutine has yet to apply the result of the stored game.
Applying == \E p \in Procs : pc[p] = "save_effects"

Closing ==
    /\ Over /\ ~Open => Written
    /\ Over /\ Open /\ ~cutSave => \E p \in Procs : Saving(p)
    /\ Over /\ ~Open /\ doc.exists /\ result # "*" /\ ~cutSave => effects = 1 \/ Applying
    /\ \A p \in Procs : pc[p] = "save_write" =>
          newData.delete = (ply < 3 /\ kind # "tournament") /\ newData.m = ply

StoreInv == StoredMoves /\ Counting /\ Closing

\* What the steps of this module start from.
Known == TypeInv /\ SaveInv /\ RankedInv /\ StoreInv

-----------------------------------------------------------------------------
(* Steps that do not touch the game *)

MovePcs == {"move_offers", "move_push", "move_save", "move_check"}

\* No coroutine enters or leaves a move or save_game().
StillPc ==
    \A p \in Procs : pc[p] \in MovePcs \cup SavePcs \/ pc'[p] \in MovePcs \cup SavePcs
                        => pc'[p] = pc[p]

Still ==
    /\ StillPc
    /\ UNCHANGED <<kind, ply, status, result, counted, newData, doc, effects, evicted, cutSave>>

LEMMA KeepStill == ASSUME StoreInv, Still PROVE StoreInv'
<1>1. /\ Moving' <=> Moving
      /\ Storing' <=> Storing
      /\ \A c \in Conns : pc'[c] \in MovePcs => pc'[c] = pc[c]
  BY DEF Still, StillPc, Moving, Storing, MovePcs, Procs
<1>2. \A p \in Procs : Saving(p)' <=> Saving(p)
  BY DEF Still, StillPc, Saving
<1>3. \A p \in Procs : pc'[p] \in SavePcs \/ pc[p] \in SavePcs => pc'[p] = pc[p]
  BY DEF Still, StillPc
<1>4. (Over' <=> Over) /\ (Open' <=> Open) /\ (Written' <=> Written)
  BY DEF Still, Over, Open, Written
<1>8. Applying' <=> Applying
  BY <1>3 DEF Applying, SavePcs
<1>5. StoredMoves'
  BY <1>1, <1>4 DEF StoreInv, StoredMoves, Still, MovePcs
<1>6. Counting'
  BY <1>1, <1>3, <1>4 DEF StoreInv, Counting, Still, SavePcs
<1>7. Closing'
  BY <1>2, <1>3, <1>4, <1>8 DEF StoreInv, Closing, Still, SavePcs
<1> QED
  BY <1>5, <1>6, <1>7 DEF StoreInv

\* A coroutine that is outside goes on outside.
LEMMA GoesOn ==
  ASSUME ControlTypeOK, NEW p \in Procs, pc[p] \notin MovePcs \cup SavePcs,
         NEW v, v \notin MovePcs \cup SavePcs,
         pc' = [pc EXCEPT ![p] = v]
  PROVE  StillPc
  BY DEF StillPc, ControlTypeOK

LEMMA Returns ==
  ASSUME ControlTypeOK, NEW p \in Procs, pc[p] \notin MovePcs \cup SavePcs, Return(p)
  PROVE  StillPc
  BY DEF StillPc, ControlTypeOK, Return, MovePcs, SavePcs

-----------------------------------------------------------------------------
(* The end of the game *)

\* A decision that is the first: the game goes into save_game() with the move
\* that decided it, if any, or with a move that is still to be written.
LEMMA FirstDecision ==
  ASSUME Known, NEW p \in Procs, ~saved, status' \in Ended,
         pc[p] \notin SavePcs \cup {"move_save", "move_check"},
         CancelClock(p),
         ply' = ply \/ ~Storing,
         UNCHANGED <<kind, newData, doc, evicted>>
  PROVE  StoreInv'
<1> USE DEF Known
<1>1. ~Over /\ Open /\ \A q \in Procs : ~Saving(q)
  BY DEF RankedInv, SaveInv, SavedOnce
<1>2. Over' /\ Open'
  BY <1>1 DEF Over, Open
<1>3. /\ pc'[p] = "save_uncount"
      /\ \A q \in Procs \ {p} : pc'[q] = pc[q] \/ pc'[q] \in {"dead", "cancelled"}
  BY DEF CancelClock, TypeInv, TypeOK, ControlTypeOK, Procs
<1>5. /\ Storing' => Storing
      /\ \A c \in Conns : pc'[c] # "move_check"
      /\ \A c \in Conns : pc'[c] = "move_save" => pc[c] = "move_save"
  <2>1. \A c \in Conns : c \in Procs /\ pc[c] # "move_check"
    BY <1>1 DEF StoreInv, StoredMoves, Procs
  <2>2. \A c \in Conns : pc'[c] \in {"move_save", "move_check"} => pc'[c] = pc[c]
    BY <1>3, <2>1
  <2> QED
    BY <2>1, <2>2 DEF Storing
<1>6. StoredMoves'
  BY <1>1, <1>2, <1>5 DEF StoreInv, StoredMoves, Storing
<1>7. Saving(p)' /\ pc'[p] = "save_uncount"
  BY <1>3 DEF Saving, SavePcs
<1>8. \A q \in Procs : pc'[q] # "save_write"
  <2>1. \A q \in Procs : pc[q] # "save_write"
    BY <1>1 DEF Saving, SavePcs
  <2> QED
    BY <1>3, <2>1
<1>9. Counting' /\ Closing'
  BY <1>2, <1>7, <1>8 DEF Counting, Closing
<1> QED
  BY <1>6, <1>9 DEF StoreInv

\* A decision by a coroutine that is outside a move.
LEMMA Decision ==
  ASSUME Known, NEW p \in Procs, pc[p] \notin MovePcs \cup SavePcs,
         NEW s \in Ended, NEW r, NEW l, UpdateStatus(s, r), EnterSave(p, l),
         UNCHANGED <<kind, ply, counted, newData, doc, effects, evicted, cutSave>>
  PROVE  StoreInv'
<1> USE DEF Known
<1>1. CASE saved /\ Return(p)
  <2>1. UNCHANGED <<status, result>>
    BY <1>1 DEF UpdateStatus, RankedInv
  <2>2. Still
    BY <1>1, <2>1, Returns DEF Still, TypeInv, TypeOK
  <2> QED
    BY <2>2, KeepStill
<1>2. CASE ~saved /\ CancelClock(p)
  <2>1. status' = s
    BY <1>2 DEF UpdateStatus, RankedInv
  <2> QED
    BY <1>2, <2>1, FirstDecision DEF MovePcs
<1> QED
  BY <1>1, <1>2 DEF EnterSave

LEMMA StoreGameEnded ==
  ASSUME Known, NEW p \in Procs, pc[p] \notin MovePcs \cup SavePcs,
         NEW u, NEW reason \in {"abort", "resign", "flag", "abandon"}, NEW l,
         GameEnded(p, u, reason, l),
         UNCHANGED <<kind, ply, counted, newData, doc, effects, evicted, cutSave>>
  PROVE  StoreInv'
<1>1. LoserStatus[reason] \in Ended
  BY DEF LoserStatus, Ended
<1>2. CASE \E r : UpdateStatus(LoserStatus[reason], r) /\ EnterSave(p, l)
  BY <1>1, <1>2, Decision
<1>3. CASE Return(p) /\ UNCHANGED <<status, result>>
  <2>1. Still
    BY <1>3, Returns DEF Still, Known, TypeInv, TypeOK
  <2> QED
    BY <2>1, KeepStill DEF Known
<1> QED
  BY <1>2, <1>3 DEF GameEnded

\* save_game() writes what the game is.
LEMMA LandedCloses ==
  ASSUME Known, NEW p \in Procs, pc[p] = "save_write", doc' = Landed,
         UNCHANGED <<kind, ply, status, result>>
  PROVE  Over' /\ ~Open' /\ Written'
<1> USE DEF Known
<1>0. Saving(p)
  BY DEF Saving, SavePcs
<1>1. Over /\ Open
  BY <1>0 DEF RankedInv, SaveInv, SavedOnce
<1>2. /\ newData.delete = (ply < 3 /\ kind # "tournament") /\ newData.m = ply
      /\ newData.s = status /\ newData.r = result
  BY DEF RankedInv, StoreInv, Closing
<1>3. doc \in [exists : BOOLEAN, m : 0..MaxPly, s : Status, r : Result]
  BY DEF TypeInv, TypeOK, DataTypeOK
<1>4. CASE newData.delete
  <2>1. ~doc'.exists
    BY <1>3, <1>4 DEF Landed, NoDoc
  <2> QED
    BY <1>1, <1>2, <1>4, <2>1 DEF Over, Open, Written
<1>5. CASE ~newData.delete
  <2>1. doc' = [exists |-> TRUE, m |-> ply, s |-> status, r |-> result]
    BY <1>1, <1>2, <1>3, <1>5 DEF Landed, Open
  <2>2. /\ ~(ply' < 3 /\ kind' # "tournament")
        /\ doc' = [exists |-> TRUE, m |-> ply', s |-> status', r |-> result']
    BY <1>2, <1>5, <2>1
  <2>3. Over' /\ doc'.s \in Ended
    BY <1>1, <2>1 DEF Over
  <2> QED
    BY <2>2, <2>3 DEF Open, Written
<1> QED
  BY <1>4, <1>5

LEMMA StoreSaveGame == ASSUME Known, NEW p \in Procs, SaveGame(p) PROVE StoreInv'
<1> USE DEF Known
<1>1. Saving(p) /\ Over /\ effects = 0 /\ \A q \in Procs : Saving(q) => q = p
  BY DEF SaveGame, SaveUncount, SaveIssue, SaveWrite, SaveEffects, Saving, SavePcs, SaveInv,
     SavedOnce, RankedInv
<1>2. UNCHANGED <<kind, ply, status, result, evicted, cutSave>> /\ Over'
  BY <1>1 DEF SaveGame, SaveUncount, SaveIssue, SaveWrite, SaveEffects, gameVars, histVars, Over
<1>3. \A q \in Procs : q # p => pc'[q] = pc[q]
  BY DEF SaveGame, SaveUncount, SaveIssue, SaveWrite, SaveEffects, Return, TypeInv, TypeOK, ControlTypeOK
<1>4. pc'[p] \in {"save_issue", "save_write", "save_effects", "idle", "none", "dead"}
  BY DEF SaveGame, SaveUncount, SaveIssue, SaveWrite, SaveEffects, Return, TypeInv, TypeOK, ControlTypeOK
<1>5. /\ Storing' <=> Storing
      /\ \A c \in Conns : pc'[c] \in {"move_save", "move_check"} => pc[c] = pc'[c]
  BY <1>1, <1>3, <1>4 DEF Storing, Saving, SavePcs, Procs
<1>6. CASE SaveUncount(p) \/ SaveIssue(p)
  <2>0. Open
    BY <1>1, <1>6 DEF RankedInv, SaveUncount, SaveIssue
  <2>1. Open' /\ UNCHANGED doc
    BY <2>0, <1>6 DEF SaveUncount, SaveIssue, dbVars, Open
  <2>2. StoredMoves'
    BY <1>1, <1>2, <1>5, <2>0, <2>1 DEF StoreInv, StoredMoves
  <2>3. Saving(p)'
    BY <1>6 DEF SaveUncount, SaveIssue, Saving, SavePcs, TypeInv, TypeOK, ControlTypeOK
  <2>4. Counting'
    <3>1. CASE SaveUncount(p)
      BY <1>2, <3>1 DEF SaveUncount, Counting
    <3>2. CASE SaveIssue(p)
      <4>1. \A q \in Procs : pc[q] # "save_uncount"
        BY <1>1, <3>2 DEF SaveIssue, Saving, SavePcs
      <4>2. ~counted \/ cutSave
        BY <1>1, <4>1 DEF StoreInv, Counting
      <4> QED
        BY <1>2, <3>2, <4>2 DEF SaveIssue, gameVars, Counting
    <3> QED
      BY <1>6, <3>1, <3>2
  <2>5. \A q \in Procs : pc'[q] = "save_write" => q = p /\ SaveIssue(p)
    <3>1. \A q \in Procs : q # p => pc'[q] # "save_write"
      BY <1>1, <1>3 DEF Saving, SavePcs
    <3>2. SaveUncount(p) => pc'[p] # "save_write"
      BY DEF SaveUncount, TypeInv, TypeOK, ControlTypeOK
    <3> QED
      BY <1>6, <3>1, <3>2
  <2>6. SaveIssue(p) => newData'.delete = (ply < 3 /\ kind # "tournament") /\ newData'.m = ply
    BY DEF SaveIssue
  <2>7. Closing'
    BY <1>2, <2>1, <2>3, <2>5, <2>6 DEF Closing
  <2> QED
    BY <2>2, <2>4, <2>7 DEF StoreInv
<1>7. CASE SaveWrite(p)
  <2>0. pc[p] = "save_write" /\ UNCHANGED <<effects, counted>>
    BY <1>7 DEF SaveWrite, gameVars
  <2>1. ~Open' /\ Written'
    BY <1>2, <1>7, LandedCloses DEF SaveWrite
  <2>2. StoredMoves'
    BY <1>1, <1>2, <1>5, <2>1 DEF StoreInv, StoredMoves
  <2>3. \A q \in Procs : pc'[q] \notin {"save_write", "save_uncount"}
    <3>1. pc'[p] \notin {"save_write", "save_uncount"}
      BY <1>7 DEF SaveWrite, Return, TypeInv, TypeOK, ControlTypeOK
    <3> QED
      BY <1>1, <1>3, <3>1 DEF Saving, SavePcs
  <2>4. ~counted \/ cutSave
    BY <1>1, <2>0 DEF StoreInv, Counting, Saving, SavePcs
  <2>5. Counting'
    BY <1>2, <2>0, <2>4 DEF Counting
  <2>6. doc'.exists /\ result # "*" => Applying'
    <3> SUFFICES ASSUME doc'.exists, result # "*" PROVE Applying'
      OBVIOUS
    <3>1. newData.r = result
      BY <2>0 DEF RankedInv
    <3>2. ~newData.delete
      BY <1>7 DEF SaveWrite, Landed, NoDoc
    <3>3. pc' = [pc EXCEPT ![p] = "save_effects"]
      BY <1>7, <3>1, <3>2 DEF SaveWrite
    <3>4. pc'[p] = "save_effects"
      BY <3>3 DEF TypeInv, TypeOK, ControlTypeOK
    <3> QED
      BY <3>4 DEF Applying
  <2>7. Closing'
    BY <1>2, <2>1, <2>3, <2>6 DEF Closing
  <2> QED
    BY <2>2, <2>5, <2>7 DEF StoreInv
<1>8. CASE SaveEffects(p)
  <2>0. pc[p] = "save_effects" /\ UNCHANGED <<doc, counted>>
    BY <1>8 DEF SaveEffects, gameVars
  <2>1. newData.r = result /\ Stored = Outcome
    BY <1>1, <2>0 DEF RankedInv
  <2>2. ~Open
    BY <1>1, <2>1 DEF Open, Stored, Outcome, Over, NoOutcome, Ended
  <2>3. ~Open' /\ Written /\ Written'
    BY <1>1, <1>2, <2>0, <2>2 DEF StoreInv, Closing, Open, Written
  <2>4. StoredMoves'
    BY <1>1, <1>2, <1>5, <2>2, <2>3 DEF StoreInv, StoredMoves
  <2>5. ~counted \/ cutSave
    BY <1>1, <2>0 DEF StoreInv, Counting, Saving, SavePcs
  <2>6. Counting'
    BY <1>2, <2>0, <2>5 DEF Counting
  <2>7. \A q \in Procs : pc'[q] # "save_write"
    <3>1. pc'[p] # "save_write"
      BY <1>8 DEF SaveEffects, Return, TypeInv, TypeOK, ControlTypeOK
    <3> QED
      BY <1>1, <1>3, <3>1 DEF Saving, SavePcs
  <2>8. result # "*" => effects' = 1
    BY <1>1, <1>8, <2>1 DEF SaveEffects
  <2>9. Closing'
    BY <1>2, <2>3, <2>7, <2>8 DEF Closing
  <2> QED
    BY <2>4, <2>6, <2>9 DEF StoreInv
<1> QED
  BY <1>6, <1>7, <1>8 DEF SaveGame

-----------------------------------------------------------------------------
(* A move *)

\* One handler goes on, and neither comes from save_game() nor goes there.
Alone(c) ==
    /\ pc[c] \notin SavePcs /\ pc'[c] \notin SavePcs
    /\ \A q \in Procs \ {c} : pc'[q] = pc[q]

LEMMA AloneGoes ==
  ASSUME ControlTypeOK, NEW c \in Conns, NEW v, v \notin SavePcs,
         pc[c] \notin SavePcs, pc' = [pc EXCEPT ![c] = v]
  PROVE  Alone(c) /\ pc'[c] = v
  BY DEF Alone, ControlTypeOK, Procs

LEMMA AloneReturns ==
  ASSUME ControlTypeOK, NEW c \in Conns, pc[c] \notin SavePcs, Return(c)
  PROVE  Alone(c) /\ pc'[c] = "idle"
  BY DEF Alone, ControlTypeOK, Procs, Return, SavePcs

\* The coroutines inside save_game() do not notice.
LEMMA AloneSaves ==
  ASSUME NEW c \in Conns, Alone(c)
  PROVE  /\ \A q \in Procs : Saving(q)' <=> Saving(q)
         /\ \A q \in Procs : pc'[q] \in SavePcs \/ pc[q] \in SavePcs => pc'[q] = pc[q]
         /\ Applying' <=> Applying
  BY DEF Alone, Saving, Applying, SavePcs

\* move_lock lets one move in at a time.
LEMMA OneMove ==
  ASSUME TypeInv
  PROVE  /\ \A c, d \in Conns : pc[c] \in MovePcs /\ pc[d] \in MovePcs => c = d
         /\ lock = None => \A c \in Conns : pc[c] \notin MovePcs
  BY DEF TypeInv, LockHeld, Critical, MovePcs, Procs

\* After the decision only the documents can change, and they do not here.
LEMMA KeepOver ==
  ASSUME Known, NEW c \in Conns, Alone(c), Over, pc'[c] \notin {"move_save", "move_check"},
         UNCHANGED <<kind, ply, status, result, counted, newData, doc, effects, evicted, cutSave>>
  PROVE  StoreInv'
<1> USE DEF Known
<1>1. Over' /\ (Open' <=> Open) /\ (Written' <=> Written)
  BY DEF Over, Open, Written
<1>2. \A d \in Conns : pc'[d] \in {"move_save", "move_check"} => pc'[d] = pc[d]
  BY DEF Alone, Procs
<1>3. Storing' => Storing
  BY <1>2 DEF Storing
<1>4. StoredMoves'
  BY <1>1, <1>2, <1>3 DEF StoreInv, StoredMoves
<1>5. Counting'
  BY <1>1, AloneSaves DEF StoreInv, Counting, SavePcs
<1>6. Closing'
  BY <1>1, AloneSaves DEF StoreInv, Closing, SavePcs
<1> QED
  BY <1>4, <1>5, <1>6 DEF StoreInv

\* Before it nobody is inside save_game(), and the document is open.
LEMMA Undecided ==
  ASSUME Known, ~Over
  PROVE  /\ Open /\ ~saved
         /\ \A q \in Procs : pc[q] \notin SavePcs
         /\ \A c \in Conns : pc[c] # "move_check"
  BY DEF Known, RankedInv, SaveInv, SavedOnce, Saving, StoreInv, StoredMoves

LEMMA StoreMoveStart == ASSUME Known, NEW c \in Conns, MoveStart(c) PROVE StoreInv'
<1> USE DEF Known
<1>1. ~Over /\ lock = None /\ pc[c] = "idle"
  BY DEF MoveStart
<1>2. Open /\ ~Moving /\ ~Storing /\ \A d \in Conns : pc[d] \notin MovePcs
  BY <1>1, OneMove, Undecided DEF Moving, Storing, MovePcs
<1>3. UNCHANGED <<kind, ply, newData, doc, effects, evicted, cutSave>>
  BY DEF MoveStart, localVars, dbVars, histVars
<1>4. counted' = TRUE /\ status' = "STARTED" /\ ~Over'
  BY <1>1, <1>2 DEF MoveStart, StoreInv, Counting, Over, Ended, TypeInv, TypeOK, DataTypeOK
<1>5. Alone(c) /\ pc'[c] = "move_offers"
  BY <1>1, AloneGoes DEF MoveStart, SavePcs, TypeInv, TypeOK
<1>6. Moving' /\ ~Storing' /\ Open' /\ \A d \in Conns : pc'[d] \notin {"move_save", "move_check"}
  BY <1>2, <1>3, <1>5 DEF Alone, Moving, Storing, MovePcs, Open, Procs
<1>7. StoredMoves' /\ Counting'
  BY <1>1, <1>2, <1>3, <1>4, <1>6 DEF StoreInv, StoredMoves, Counting
<1>8. \A q \in Procs : pc'[q] \notin SavePcs
  BY <1>1, <1>5, Undecided DEF Alone
<1>9. Closing'
  BY <1>4, <1>8 DEF Closing, SavePcs
<1> QED
  BY <1>7, <1>9 DEF StoreInv

LEMMA StoreMoveOffers == ASSUME Known, NEW c \in Conns, MoveOffers(c) PROVE StoreInv'
<1> USE DEF Known
<1>1. UNCHANGED <<kind, ply, status, result, counted, newData, doc, effects, evicted, cutSave>>
  BY DEF MoveOffers, gameVars, localVars, dbVars, histVars
<1>2. Alone(c) /\ pc'[c] = "move_push" /\ pc[c] = "move_offers"
  BY AloneGoes DEF MoveOffers, SavePcs, TypeInv, TypeOK
<1>3. CASE Over
  BY <1>1, <1>2, <1>3, KeepOver
<1>4. CASE ~Over
  <2>1. Moving /\ Moving' /\ (Storing' <=> Storing)
    BY <1>2 DEF Alone, Moving, Storing, Procs
  <2>2. ~Over' /\ (Open' <=> Open)
    BY <1>1, <1>4 DEF Over, Open
  <2>3. \A d \in Conns : pc'[d] \in {"move_save", "move_check"} => pc'[d] = pc[d]
    BY <1>2 DEF Alone, Procs
  <2>4. StoredMoves' /\ Counting'
    BY <1>1, <1>4, <2>1, <2>2, <2>3, Undecided DEF StoreInv, StoredMoves, Counting
  <2>5. \A q \in Procs : pc'[q] \notin SavePcs
    BY <1>2, <1>4, Undecided DEF Alone
  <2>6. Closing'
    BY <2>2, <2>5 DEF Closing, SavePcs
  <2> QED
    BY <2>4, <2>6 DEF StoreInv
<1> QED
  BY <1>3, <1>4

LEMMA StoreMovePush == ASSUME Known, NEW c \in Conns, MovePush(c) PROVE StoreInv'
<1> USE DEF Known
<1>1. UNCHANGED <<kind, counted, newData, doc, effects, evicted, cutSave>> /\ pc[c] = "move_push"
  BY DEF MovePush, localVars, dbVars, histVars
<1>2. ~Storing /\ Moving /\ \A d \in Conns \ {c} : pc[d] \notin MovePcs
  BY <1>1, OneMove DEF Storing, Moving, MovePcs
<1>3. CASE Over /\ Return(c) /\ UNCHANGED <<ply, status, result>>
  <2>1. Alone(c) /\ pc'[c] = "idle"
    BY <1>1, <1>3, AloneReturns DEF SavePcs, TypeInv, TypeOK
  <2> QED
    BY <1>1, <1>3, <2>1, KeepOver
<1>4. CASE /\ ~Over /\ ply' = ply + 1 /\ pc' = [pc EXCEPT ![c] = "move_save"]
           /\ UNCHANGED <<status, result>>
  <2>1. Alone(c) /\ pc'[c] = "move_save"
    BY <1>1, <1>4, AloneGoes DEF SavePcs, TypeInv, TypeOK
  <2>2. Open /\ Open' /\ ~Over' /\ Storing'
    BY <1>1, <1>4, <2>1, Undecided DEF Open, Over, Storing
  <2>3. doc.m = ply /\ counted /\ status = "STARTED" /\ ply \in Nat
    BY <1>2, <1>4 DEF StoreInv, StoredMoves, Counting, TypeInv, TypeOK, DataTypeOK
  <2>4. ply' > 0 /\ doc'.m = ply' - 1
    BY <1>1, <1>4, <2>3
  <2>5. \A d \in Conns : pc'[d] # "move_check"
    BY <1>2, <2>1 DEF Alone, MovePcs, Procs
  <2>6. StoredMoves' /\ Counting'
    BY <1>1, <1>4, <2>2, <2>3, <2>4, <2>5 DEF StoreInv, StoredMoves, Counting
  <2>7. \A q \in Procs : pc'[q] \notin SavePcs
    BY <1>4, <2>1, Undecided DEF Alone
  <2>8. Closing'
    BY <2>2, <2>7 DEF Closing, SavePcs
  <2> QED
    BY <2>6, <2>8 DEF StoreInv
<1>5. CASE /\ ~Over /\ EnterSave(c, lock)
           /\ \E s \in Ended, r \in Result : UpdateStatus(s, r)
  <2>1. status' \in Ended /\ ~saved /\ c \in Procs
    BY <1>5, Undecided DEF UpdateStatus, Procs
  <2>2. CancelClock(c)
    BY <1>5, <2>1 DEF EnterSave
  <2> QED
    BY <1>1, <1>2, <2>1, <2>2, FirstDecision DEF SavePcs
<1>6. /\ "DRAW" \in Ended /\ "MATE" \in Ended /\ "1/2-1/2" \in Result
      /\ \A u \in Players : Loses(u) \in Result
  BY DEF Ended, Result, Loses
<1> QED
  BY <1>3, <1>4, <1>5, <1>6 DEF MovePush

\* The compare-and-set fails only if the game is closed by now.
LEMMA StoreMoveSave == ASSUME Known, NEW c \in Conns, MoveSave(c) PROVE StoreInv'
<1> USE DEF Known
<1>1. /\ UNCHANGED <<kind, ply, status, result, counted, newData, effects, evicted, cutSave>>
      /\ pc[c] = "move_save"
  BY DEF MoveSave, gameVars, localVars, histVars
<1>2. Storing /\ ~Moving /\ \A d \in Conns \ {c} : pc[d] \notin MovePcs
  BY <1>1, OneMove DEF Storing, Moving, MovePcs
<1>3. /\ doc \in [exists : BOOLEAN, m : 0..MaxPly, s : Status, r : Result]
      /\ ply \in Nat
  BY DEF TypeInv, TypeOK, DataTypeOK
<1>4. (doc.exists /\ doc.m = ply - 1 /\ doc.s \in Live) <=> Open
  <2>1. doc.s \in Live <=> doc.s \notin Ended
    BY <1>3 DEF Status, Live, Ended
  <2>2. Open => doc.m = ply - 1
    BY <1>2 DEF StoreInv, StoredMoves
  <2> QED
    BY <2>1, <2>2 DEF Open
<1>5. CASE Open /\ Return(c) /\ doc' = [doc EXCEPT !.m = ply, !.s = "STARTED"]
  <2>1. Alone(c) /\ pc'[c] = "idle"
    BY <1>1, <1>5, AloneReturns DEF SavePcs, TypeInv, TypeOK
  <2>2. Open' /\ doc'.m = ply /\ doc'.s = "STARTED" /\ (Over' <=> Over)
    BY <1>1, <1>3, <1>5 DEF Open, Over, Ended
  <2>3. /\ ~Storing' /\ ~Moving'
        /\ \A d \in Conns : pc'[d] \notin {"move_save", "move_check"}
    BY <1>2, <2>1 DEF Alone, Storing, Moving, MovePcs, Procs
  <2>4. ~Over => status = "STARTED" /\ counted /\ ply > 0
    BY <1>1, <1>2 DEF StoreInv, Counting, StoredMoves
  <2>5. StoredMoves'
    BY <1>1, <2>2, <2>3, <2>4 DEF StoreInv, StoredMoves
  <2>6. Counting'
    BY <1>1, <2>1, <2>2, <2>4, AloneSaves DEF StoreInv, Counting, SavePcs
  <2>7. Closing'
    BY <1>1, <1>5, <2>1, <2>2, AloneSaves DEF StoreInv, Closing, SavePcs
  <2> QED
    BY <2>5, <2>6, <2>7 DEF StoreInv
<1>6. CASE ~Open /\ pc' = [pc EXCEPT ![c] = "move_check"] /\ UNCHANGED doc
  <2>1. Over
    BY <1>6, Undecided
  <2>2. Alone(c) /\ pc'[c] = "move_check"
    BY <1>1, <1>6, AloneGoes DEF SavePcs, TypeInv, TypeOK
  <2>3. Over' /\ ~Open' /\ (Written' <=> Written)
    BY <1>1, <1>6, <2>1 DEF Over, Open, Written
  <2>4. \A d \in Conns : pc'[d] # "move_save"
    BY <1>2, <2>2 DEF Alone, MovePcs, Procs
  <2>5. StoredMoves'
    BY <1>1, <2>3, <2>4 DEF StoreInv, StoredMoves
  <2>6. Counting'
    BY <1>1, <2>1, <2>2, <2>3, AloneSaves DEF StoreInv, Counting, SavePcs
  <2>7. Closing'
    BY <1>1, <1>6, <2>1, <2>2, <2>3, AloneSaves DEF StoreInv, Closing, SavePcs
  <2> QED
    BY <2>5, <2>6, <2>7 DEF StoreInv
<1> QED
  BY <1>4, <1>5, <1>6 DEF MoveSave

LEMMA StoreMoveCheck == ASSUME Known, NEW c \in Conns, MoveCheck(c) PROVE StoreInv'
<1> USE DEF Known
<1>1. UNCHANGED <<kind, ply, status, result, counted, newData, doc, effects, cutSave>> /\ pc[c] = "move_check"
  BY DEF MoveCheck, gameVars, localVars, dbVars, histVars
<1>2. Over /\ ~Open /\ Written
  BY <1>1 DEF StoreInv, StoredMoves, Closing
<1>3. doc.exists => doc.m = ply
  BY <1>2 DEF Written
<1>4. UNCHANGED evicted
  BY <1>3 DEF MoveCheck, TypeInv, TypeOK, DataTypeOK
<1>5. Alone(c) /\ pc'[c] = "idle"
  BY <1>1, AloneReturns DEF MoveCheck, SavePcs, TypeInv, TypeOK
<1> QED
  BY <1>1, <1>2, <1>4, <1>5, KeepOver

-----------------------------------------------------------------------------
(* Everything else a player or a task does *)

\* A player who comes back may cut save_game() in two.
LEMMA StoreConnect == ASSUME Known, NEW c \in Conns, Connect(c) PROVE StoreInv'
<1> USE DEF Known
<1>0. PICK t : t = abandonTask[Owner[c]]
  OBVIOUS
<1>1. /\ UNCHANGED <<kind, ply, status, result, counted, evicted>>
      /\ pc[c] = "closed"
  BY DEF Connect, gameVars
<1>2. \A p \in Procs : pc'[p] = IF p = c THEN "idle" ELSE IF p = t THEN "none" ELSE pc[p]
  BY <1>0 DEF Connect
<1>3. t # None => t \in Tasks /\ t \in Procs
  BY <1>0 DEF TypeInv, TypeOK, ControlTypeOK, Procs
<1>4. CASE t = None \/ pc[t] \notin SavePcs
  <2>1. UNCHANGED <<doc, newData, effects>>
    BY <1>0, <1>4 DEF Connect, SavePcs
  <2>4. cutSave' = cutSave
    BY <1>0, <1>4 DEF Connect, TypeInv, TypeOK, DataTypeOK
  <2>2. t # None => pc[t] \notin MovePcs
    BY <1>3 DEF TypeInv, TypeOK, ControlTypeOK, TaskPcs, SavePcs, MovePcs
  <2>3. StillPc
    <3>1. \A p \in Procs : pc'[p] # pc[p] =>
             pc[p] \notin MovePcs \cup SavePcs /\ pc'[p] \notin MovePcs \cup SavePcs
      BY <1>1, <1>2, <1>4, <2>2 DEF MovePcs, SavePcs, Procs
    <3> QED
      BY <3>1 DEF StillPc
  <2> QED
    BY <1>1, <2>1, <2>3, <2>4, KeepStill DEF Still
<1>5. CASE t # None /\ pc[t] \in SavePcs
  <2>1. Over /\ \A q \in Procs : pc[q] \in SavePcs => q = t
    BY <1>3, <1>5 DEF RankedInv, SaveInv, SavedOnce, Saving
  <2>2. cutSave' = TRUE /\ (doc' = doc \/ (pc[t] = "save_write" /\ doc' = Landed))
    BY <1>0, <1>5 DEF Connect
  <2>3. \A q \in Procs : pc'[q] \notin SavePcs
    BY <1>2, <2>1 DEF SavePcs
  <2>4. \A d \in Conns : pc'[d] \in {"move_save", "move_check"} => pc'[d] = pc[d]
    BY <1>2 DEF Procs
  <2>5. Storing' => Storing
    BY <2>4 DEF Storing
  <2>6. Over'
    BY <1>1, <2>1 DEF Over
  <2>7. CASE doc' = doc
    <3>1. (Open' <=> Open) /\ (Written' <=> Written)
      BY <1>1, <2>7 DEF Open, Written
    <3>3. StoredMoves'
      BY <1>1, <2>4, <2>5, <2>6, <2>7, <3>1, <2>1 DEF StoreInv, StoredMoves
    <3>4. Counting' /\ Closing'
      BY <2>1, <2>2, <2>3, <2>6, <3>1 DEF StoreInv, Counting, Closing, SavePcs
    <3> QED
      BY <3>3, <3>4 DEF StoreInv
  <2>8. CASE pc[t] = "save_write" /\ doc' = Landed
    <3>1. ~Open' /\ Written'
      BY <1>1, <1>3, <1>5, <2>8, LandedCloses
    <3>2. StoredMoves'
      BY <1>1, <2>4, <2>6, <3>1 DEF StoreInv, StoredMoves
    <3>3. Counting' /\ Closing'
      BY <2>2, <2>3, <2>6, <3>1 DEF Counting, Closing, SavePcs
    <3> QED
      BY <3>2, <3>3 DEF StoreInv
  <2> QED
    BY <2>2, <2>7, <2>8
<1> QED
  BY <1>4, <1>5

LEMMA StoreConn ==
  ASSUME Known, NEW c \in Conns, Request(c) \/ Resume(c) \/ EndRequest(c)
  PROVE  StoreInv'
<1> USE DEF Known
<1>1. c \in Procs /\ Owner[c] \in Players
  BY DEF Procs
<1>2. CASE MoveStart(c) \/ MoveOffers(c) \/ MovePush(c) \/ MoveSave(c) \/ MoveCheck(c) \/ Connect(c)
  BY <1>2, StoreMoveStart, StoreMoveOffers, StoreMovePush, StoreMoveSave, StoreMoveCheck, StoreConnect
<1>3. CASE Draw(c)
  <2>1. /\ UNCHANGED <<kind, ply, counted, newData, doc, effects, evicted, cutSave>>
        /\ pc[c] \notin MovePcs \cup SavePcs
    BY <1>3 DEF Draw, localVars, dbVars, histVars, MovePcs, SavePcs
  <2>2. CASE UpdateStatus("DRAW", "1/2-1/2") /\ EnterSave(c, lock)
    BY <1>1, <2>1, <2>2, Decision DEF Ended
  <2>3. CASE UNCHANGED <<status, result, pc>>
    BY <2>1, <2>3, KeepStill DEF Still, StillPc
  <2> QED
    BY <1>3, <2>2, <2>3 DEF Draw
<1>4. CASE CevalForfeit(c)
  <2>1. /\ UNCHANGED <<kind, ply, counted, newData, doc, effects, evicted, cutSave>>
        /\ pc[c] \notin MovePcs \cup SavePcs
    BY <1>4 DEF CevalForfeit, localVars, dbVars, histVars, MovePcs, SavePcs
  <2>2. CASE UpdateStatus("CHEAT", Loses(Owner[c])) /\ EnterSave(c, lock)
    BY <1>1, <2>1, <2>2, Decision DEF Ended
  <2>3. CASE UNCHANGED <<status, result>> /\ Return(c)
    BY <1>1, <2>1, <2>3, Returns, KeepStill DEF Still, TypeInv, TypeOK
  <2> QED
    BY <1>4, <2>2, <2>3 DEF CevalForfeit
<1>5. CASE RejectDraw(c) \/ RejectTakeback(c)
  BY <1>5, KeepStill DEF RejectDraw, RejectTakeback, gameVars, localVars, dbVars, histVars, Still, StillPc
<1>6. ~(OfferTakeback(c) \/ AcceptTakeback(c) \/ MoreTime(c))
  BY DEF OfferTakeback, AcceptTakeback, MoreTime, TakebackAllowed, RankedInv
<1>7. ~(TakebackPop(c) \/ TakebackCount(c) \/ TakebackState(c))
  BY DEF TakebackPop, TakebackCount, TakebackState, TakebackPcs, RankedInv
<1>8. CASE CevalReport(c) \/ \E reason \in DOMAIN EndPc : AskEnd(c, reason)
  <2>1. UNCHANGED <<kind, ply, status, result, counted, newData, doc, effects, evicted, cutSave>>
    BY <1>8 DEF CevalReport, AskEnd, gameVars, localVars, dbVars, histVars
  <2>2. \E v \in {"ceval_db", "abort_lock", "resign_lock", "abandon_lock", "flag_lock"} :
           pc' = [pc EXCEPT ![c] = v]
    BY <1>8, EndReasons DEF CevalReport, AskEnd, EndPc
  <2>3. pc[c] \notin MovePcs \cup SavePcs
    BY <1>8 DEF CevalReport, AskEnd, MovePcs, SavePcs
  <2>4. StillPc
    BY <1>1, <2>2, <2>3, GoesOn DEF MovePcs, SavePcs, TypeInv, TypeOK
  <2> QED
    BY <2>1, <2>4, KeepStill DEF Still
<1>9. CASE EndRequest(c)
  <2>1. PICK reason \in {"abort", "resign", "abandon", "flag"} : End(c, reason)
    BY <1>9, EndReasons DEF EndRequest
  <2>2. /\ UNCHANGED <<kind, ply, counted, newData, doc, effects, evicted, cutSave>>
        /\ pc[c] \notin MovePcs \cup SavePcs
    BY <2>1 DEF End, EndPc, localVars, dbVars, histVars, MovePcs, SavePcs
  <2>3. CASE GameEnded(c, Owner[c], reason, c)
    BY <1>1, <2>2, <2>3, StoreGameEnded
  <2>4. CASE Return(c) /\ UNCHANGED <<status, result, saved, running>>
    BY <1>1, <2>2, <2>4, Returns, KeepStill DEF Still, TypeInv, TypeOK
  <2> QED
    BY <2>1, <2>3, <2>4 DEF End
<1>10. CASE Disconnect(c)
  <2>1. StillPc
    BY <1>10 DEF Disconnect, StartTask, StillPc, TypeInv, TypeOK, ControlTypeOK, MovePcs, SavePcs
  <2> QED
    BY <1>10, <2>1, KeepStill DEF Disconnect, Still, gameVars, localVars, dbVars, histVars
<1>11. CASE MoveExpired(c)
  <2>1. /\ UNCHANGED <<kind, ply, counted, newData, doc, effects, evicted, cutSave>>
        /\ pc[c] \notin MovePcs \cup SavePcs
    BY <1>11 DEF MoveExpired, localVars, dbVars, histVars, MovePcs, SavePcs
  <2>2. GameEnded(c, Owner[c], TimeoutReason(ply), c) /\ TimeoutReason(ply) \in {"abort", "flag"}
    BY <1>11 DEF MoveExpired, TimeoutReason
  <2> QED
    BY <1>1, <2>1, <2>2, StoreGameEnded
<1> QED
  BY <1>2, <1>3, <1>4, <1>5, <1>6, <1>7, <1>8, <1>9, <1>10, <1>11 DEF Request, Resume

LEMMA StoreTask ==
  ASSUME Known, (\E t \in Tasks : AbandonGame(t) \/ LobbyLeft(t)) \/ ClockStep \/ TimePasses
  PROVE  StoreInv'
<1> USE DEF Known
<1>1. ASSUME NEW t \in Tasks, AbandonGame(t) PROVE StoreInv'
  <2>1. /\ UNCHANGED <<kind, ply, counted, newData, doc, effects, evicted, cutSave>>
        /\ pc[t] \notin MovePcs \cup SavePcs /\ t \in Procs
    BY <1>1 DEF AbandonGame, localVars, dbVars, histVars, MovePcs, SavePcs, Procs
  <2>2. CASE GameEnded(t, Owner[t], "abandon", lock)
    BY <2>1, <2>2, StoreGameEnded
  <2>3. CASE Return(t) /\ UNCHANGED <<status, result, saved, running>>
    BY <2>1, <2>3, Returns, KeepStill DEF Still, TypeInv, TypeOK
  <2> QED
    BY <1>1, <2>2, <2>3 DEF AbandonGame
<1>2. CASE ClockTick \/ ClockGrace \/ ClockClaim \/ ClockCancelled \/ TimePasses
  <2>1. UNCHANGED <<kind, ply, status, result, counted, newData, doc, effects, evicted, cutSave>>
    BY <1>2 DEF ClockTick, ClockGrace, ClockClaim, ClockCancelled, TimePasses, gameVars,
       localVars, dbVars, histVars
  <2>2. \/ UNCHANGED pc
        \/ /\ pc[ClockTask] \notin MovePcs \cup SavePcs
           /\ \E v \in {"grace", "clock_lock", "tick", "dead"} : pc' = [pc EXCEPT ![ClockTask] = v]
    BY <1>2 DEF ClockTick, ClockGrace, ClockClaim, ClockCancelled, TimePasses, MovePcs, SavePcs
  <2>3. StillPc
    BY <2>2 DEF StillPc, TypeInv, TypeOK, ControlTypeOK, MovePcs, SavePcs
  <2> QED
    BY <2>1, <2>3, KeepStill DEF Still
<1>3. CASE ClockFlag
  <2>1. /\ UNCHANGED <<kind, ply, counted, newData, doc, effects, evicted, cutSave>>
        /\ pc[ClockTask] \notin MovePcs \cup SavePcs /\ ClockTask \in Procs
    BY <1>3 DEF ClockFlag, localVars, dbVars, histVars, MovePcs, SavePcs, Procs
  <2>2. CASE GameEnded(ClockTask, Turn(flagPly), TimeoutReason(flagPly), ClockTask)
    <3>1. TimeoutReason(flagPly) \in {"abort", "flag"}
      BY DEF TimeoutReason
    <3> QED
      BY <2>1, <2>2, <3>1, StoreGameEnded
  <2>3. CASE /\ pc' = [pc EXCEPT ![ClockTask] = "tick"]
             /\ UNCHANGED <<status, result>>
    <3>1. StillPc
      BY <2>1, <2>3, GoesOn DEF MovePcs, SavePcs, TypeInv, TypeOK
    <3> QED
      BY <2>1, <2>3, <3>1, KeepStill DEF Still
  <2> QED
    BY <1>3, <2>2, <2>3 DEF ClockFlag
<1>4. ASSUME NEW t \in Tasks, LobbyLeft(t) PROVE StoreInv'
  <2>1. StillPc
    BY <1>4 DEF LobbyLeft, StartTask, StillPc, TypeInv, TypeOK, ControlTypeOK, MovePcs, SavePcs
  <2> QED
    BY <1>4, <2>1, KeepStill DEF LobbyLeft, Still, gameVars, localVars, dbVars, histVars
<1> QED
  BY <1>1, <1>2, <1>3, <1>4 DEF ClockStep

LEMMA InitStore == Init => StoreInv
<1> SUFFICES ASSUME Init PROVE StoreInv
  OBVIOUS
<1>1. ~Over /\ Open /\ \A p \in Procs : pc[p] \in {"closed", "none", "tick"}
  BY DEF Init, Over, Open, Ended
<1>2. /\ ~Moving /\ ~Storing
      /\ \A p \in Procs : pc[p] \notin {"move_save", "move_check", "save_write"}
  BY <1>1 DEF Moving, Storing, Procs
<1>3. doc.m = ply /\ doc.s = status /\ ~evicted
  BY DEF Init
<1>6. (counted <=> ply > 0) /\ (ply > 0 <=> status = "STARTED")
  <2>1. counted = (ply > 0) /\ status = IF ply = 0 THEN "CREATED" ELSE "STARTED"
    BY DEF Init
  <2>2. counted <=> ply > 0
    BY <2>1, Zenon
  <2>3. ply \in Nat
    BY InitType DEF TypeInv, TypeOK, DataTypeOK
  <2> QED
    BY <2>1, <2>2, <2>3
<1>4. StoredMoves
  BY <1>1, <1>2, <1>3 DEF StoredMoves, Procs
<1>5. Counting /\ Closing
  BY <1>1, <1>2, <1>6 DEF Counting, Closing
<1> QED
  BY <1>4, <1>5 DEF StoreInv

LEMMA StepStore == Known /\ [Next]_vars => StoreInv'
<1> SUFFICES ASSUME Known, [Next]_vars PROVE StoreInv'
  OBVIOUS
<1>1. CASE UNCHANGED vars
  BY <1>1, KeepStill DEF Known, Still, StillPc, vars, gameVars, localVars, dbVars, histVars
<1> QED
  BY <1>1, StoreSaveGame, StoreConn, StoreTask DEF Next

LEMMA StoreInvariant == ASSUME "casual" \notin Kinds PROVE Spec => []Known
<1>1. TypeInv /\ SaveInv /\ RankedInv /\ StoreInv <=> Known
  BY DEF Known
<1> QED
  BY <1>1, RankedInvariant, InitStore, StepStore, PTL DEF Spec

\* Outside a move and save_game().
LEMMA SettledStays == ASSUME TypeInv, lock = None PROVE ~Moving /\ ~Storing
  BY OneMove DEF Moving, Storing, MovePcs

\* Once save_game() has run to its end the document agrees with the finished
\* game, though the last move and the end of the game are written by two
\* coroutines, unless an abandon task was cancelled inside save_game().
THEOREM DocumentClosed == ASSUME "casual" \notin Kinds PROVE Spec => []ClosedDocument
<1>1. Known => ClosedDocument
  <2> SUFFICES ASSUME Known, Over, Settled, ~cutSave PROVE Closed
    BY DEF ClosedDocument
  <2>1. ~Open /\ ~Applying /\ Written
    BY DEF Known, StoreInv, Closing, Settled, Applying, Saving, SavePcs
  <2>2. doc.exists /\ result # "*" => effects = 1
    BY <2>1 DEF Known, StoreInv, Closing
  <2> QED
    BY <2>1, <2>2 DEF Closed, Written
<1> QED
  BY <1>1, StoreInvariant, PTL

\* While nobody holds move_lock a crash loses nothing of a game in play
\* (Game.save_move).
THEOREM IdleIsDurable == ASSUME "casual" \notin Kinds PROVE Spec => []DurableWhenIdle
<1>1. Known => DurableWhenIdle
  BY SettledStays, Undecided DEF Known, StoreInv, StoredMoves, DurableWhenIdle, Open
<1> QED
  BY <1>1, StoreInvariant, PTL

\* The lobby counts a game from its first move to its end (Game.play_move,
\* save_game), unless an abandon task was cancelled inside save_game().
THEOREM LobbyCounts == ASSUME "casual" \notin Kinds PROVE Spec => []LobbyCount
<1>1. Known => LobbyCount
  <2> SUFFICES ASSUME Known, Settled, ~cutSave
               PROVE  gcnt = IF ~Over /\ ply > 0 THEN 1 ELSE 0
    BY DEF LobbyCount
  <2>1. ~Moving /\ \A p \in Procs : pc[p] # "save_uncount"
    BY SettledStays DEF Known, Settled, Saving, SavePcs
  <2>2. counted <=> ~Over /\ ply > 0
    BY <2>1 DEF Known, StoreInv, Counting
  <2> QED
    BY <2>2 DEF Known, TypeInv, CountInStep
<1> QED
  BY <1>1, StoreInvariant, PTL

\* The compare-and-set of a move never fails against what this instance wrote
\* itself (Game.save_move): the instance is never dropped by it.
THEOREM NotSelfStale == ASSUME "casual" \notin Kinds PROVE Spec => []NeverSelfStale
<1>1. Known => NeverSelfStale
  BY DEF Known, StoreInv, StoredMoves, NeverSelfStale
<1> QED
  BY <1>1, StoreInvariant, PTL

-----------------------------------------------------------------------------
(***************************************************************************)
(* When a flag falls, and when a move is played.                           *)
(*                                                                         *)
(* The countdown task reads whose time is up before it waits for           *)
(* move_lock, and validates the timeout again with the lock.  The second   *)
(* test is enough because the clock is started anew with the next move: a  *)
(* clock that runs and is out of time is the clock that was read.  A clock *)
(* that ran out while the server was down is still that of the side to     *)
(* move.                                                                   *)
(***************************************************************************)

Timed ==
    /\ clockPly <= ply
    /\ running /\ expired /\ clockPly = ply /\ ~saved => timeUp
    /\ restored => clockPly = ply
    /\ pc[ClockTask] = "clock_lock" /\ running /\ expired => flagPly = clockPly

\* What the theorems say of one step.
FallsOnTime ==
    status' = "FLAG" /\ ~Over =>
        timeUp /\ result' \in {Loses(Turn(ply)), "1/2-1/2"}
PlyOnlyLive == ply' # ply => ~Over

StepOK == Timed' /\ FallsOnTime /\ PlyOnlyLive

-----------------------------------------------------------------------------
(* Steps that leave the clock to itself *)

ClockPc == pc'[ClockTask] = "clock_lock" => pc[ClockTask] = "clock_lock"

\* At most the clock stops and a move is played, which gives the next player
\* time.
ClockRests ==
    /\ UNCHANGED <<clockPly, expired, flagPly>>
    /\ running' => running
    /\ \/ ply' = ply /\ timeUp' = timeUp /\ (restored' => restored)
       \/ ply' = ply /\ saved /\ ~restored'
       \/ ply' = ply + 1 /\ ~Over /\ ~restored'
    /\ saved => saved'
    /\ ClockPc

LEMMA KeepRests ==
  ASSUME TypeInv, Timed, ClockRests
  PROVE  Timed' /\ PlyOnlyLive
<1>1. ply \in Nat /\ clockPly \in Nat /\ clockPly <= ply
  BY DEF TypeInv, TypeOK, DataTypeOK, Timed
<1>2. CASE ply' = ply /\ timeUp' = timeUp /\ (restored' => restored)
  BY <1>2 DEF ClockRests, ClockPc, Timed, PlyOnlyLive
<1>4. CASE ply' = ply /\ saved /\ ~restored'
  BY <1>4 DEF ClockRests, ClockPc, Timed, PlyOnlyLive
<1>3. CASE ply' = ply + 1 /\ ~Over /\ ~restored'
  <2>1. clockPly' <= ply' /\ clockPly' # ply'
    BY <1>1, <1>3 DEF ClockRests
  <2> QED
    BY <1>3, <2>1 DEF ClockRests, ClockPc, Timed, PlyOnlyLive
<1> QED
  BY <1>2, <1>3, <1>4 DEF ClockRests

\* The pc of the countdown task.
LEMMA ConnPc ==
  ASSUME ControlTypeOK, NEW p \in Conns \cup Tasks, NEW v, pc' = [pc EXCEPT ![p] = v]
  PROVE  ClockPc
  BY DEF ClockPc, ControlTypeOK, Procs

LEMMA ReturnPc ==
  ASSUME ControlTypeOK, NEW p \in Procs, Return(p)
  PROVE  ClockPc
  BY DEF ClockPc, Return, ControlTypeOK, Procs

LEMMA EnterSavePc ==
  ASSUME ControlTypeOK, NEW p \in Procs, NEW l, EnterSave(p, l)
  PROVE  ClockPc /\ (running' => running) /\ (saved => saved')
<1>1. CASE Return(p) /\ UNCHANGED <<saved, running>>
  BY <1>1, ReturnPc
<1>2. CASE running' = FALSE /\ saved' = TRUE /\ CancelClock(p)
  BY <1>2 DEF ClockPc, CancelClock, ControlTypeOK, Procs
<1> QED
  BY <1>1, <1>2 DEF EnterSave

\* Who ends the game, and how.
LEMMA NoFlag ==
  ASSUME NEW s, s # "FLAG", NEW r, UpdateStatus(s, r)
  PROVE  FallsOnTime
  BY DEF UpdateStatus, FallsOnTime, Over

LEMMA EndRests ==
  ASSUME ControlTypeOK, NEW p \in Procs, NEW u, NEW reason, NEW l, GameEnded(p, u, reason, l)
  PROVE  ClockPc /\ (running' => running) /\ (saved => saved')
  BY EnterSavePc, ReturnPc DEF GameEnded

LEMMA EndOnTime ==
  ASSUME NEW p, NEW u, NEW l,
         NEW reason \in {"abort", "resign", "flag", "abandon"}, GameEnded(p, u, reason, l),
         reason = "flag" => timeUp /\ u = Turn(ply)
  PROVE  FallsOnTime
<1>1. CASE reason = "flag"
  <2>1. CASE UNCHANGED <<status, result>>
    BY <2>1 DEF FallsOnTime, Over, Ended
  <2>2. CASE \E r \in {Loses(u), "1/2-1/2"} : UpdateStatus(LoserStatus[reason], r)
    BY <1>1, <2>2 DEF UpdateStatus, FallsOnTime
  <2> QED
    BY <1>1, <2>1, <2>2 DEF GameEnded
<1>2. CASE reason # "flag"
  <2>1. LoserStatus[reason] # "FLAG"
    BY <1>2 DEF LoserStatus
  <2>2. CASE UNCHANGED <<status, result>>
    BY <2>2 DEF FallsOnTime, Over, Ended
  <2>3. CASE \E r : UpdateStatus(LoserStatus[reason], r)
    BY <2>1, <2>3, NoFlag
  <2> QED
    BY <2>2, <2>3 DEF GameEnded
<1> QED
  BY <1>1, <1>2

LEMMA SameStatus == ASSUME UNCHANGED status PROVE FallsOnTime
  BY DEF FallsOnTime, Over, Ended

-----------------------------------------------------------------------------
(* The actions *)

LEMMA ClockSaveGame ==
  ASSUME TypeInv, Timed, NEW p \in Procs, SaveGame(p)
  PROVE  StepOK
<1>1. UNCHANGED <<clockPly, expired, flagPly, running, ply, timeUp, restored, saved, status>>
  BY DEF SaveGame, SaveUncount, SaveIssue, SaveWrite, SaveEffects, gameVars, clockVars, localVars
<1>2. ClockPc
  <2>1. CASE \E v \in {"save_issue", "save_write", "save_effects"} : pc' = [pc EXCEPT ![p] = v]
    BY <2>1 DEF ClockPc, TypeInv, TypeOK, ControlTypeOK, Procs
  <2>2. CASE Return(p)
    BY <2>2, ReturnPc DEF TypeInv, TypeOK
  <2> QED
    BY <2>1, <2>2 DEF SaveGame, SaveUncount, SaveIssue, SaveWrite, SaveEffects
<1> QED
  BY <1>1, <1>2, KeepRests, SameStatus DEF ClockRests, StepOK

\* The clock starts for the next player, who has time.
LEMMA ClockRestarts ==
  ASSUME TypeInv, Timed, NEW c \in Conns, MoveSave(c) \/ MoveCheck(c)
  PROVE  StepOK
<1>1. UNCHANGED <<flagPly, ply, timeUp, restored, saved, status>>
  BY DEF MoveSave, MoveCheck, gameVars, localVars
<1>2. ply \in Nat
  BY DEF TypeInv, TypeOK, DataTypeOK
<1>3. CASE Restart(ply)
  <2>1. clockPly' = ply /\ ~(running' /\ expired')
    BY <1>3, Zenon DEF Restart
  <2> QED
    BY <1>1, <1>2, <2>1, SameStatus DEF Timed, StepOK, PlyOnlyLive
<1>4. CASE UNCHANGED <<running, clockPly, expired>> /\ pc' = [pc EXCEPT ![c] = "move_check"]
  <2>1. ClockPc
    BY <1>4, ConnPc DEF TypeInv, TypeOK
  <2> QED
    BY <1>1, <1>4, <2>1, KeepRests, SameStatus DEF ClockRests, StepOK
<1> QED
  BY <1>3, <1>4 DEF MoveSave, MoveCheck

LEMMA ClockConn ==
  ASSUME TypeInv, RankedInv, Timed, NEW c \in Conns,
         Request(c) \/ Resume(c) \/ EndRequest(c)
  PROVE  StepOK
<1> USE DEF TypeInv, TypeOK
<1>1. c \in Procs /\ c \in Conns \cup Tasks
  BY DEF Procs
<1>2. CASE MoveStart(c)
  <2>1. /\ UNCHANGED <<clockPly, expired, flagPly, ply, timeUp, restored, saved>>
        /\ running' = FALSE /\ status' # "FLAG"
    BY <1>2 DEF MoveStart, localVars, Over, Ended
  <2>2. ClockPc
    BY <1>1, <1>2, ConnPc DEF MoveStart
  <2> QED
    BY <2>1, <2>2, KeepRests DEF ClockRests, StepOK, FallsOnTime
<1>3. CASE MoveOffers(c) \/ CevalReport(c) \/ \E reason \in DOMAIN EndPc : AskEnd(c, reason)
  <2>1. UNCHANGED <<clockPly, expired, flagPly, running, ply, timeUp, restored, saved, status>>
    BY <1>3 DEF MoveOffers, CevalReport, AskEnd, gameVars, clockVars, localVars
  <2>2. \E v : pc' = [pc EXCEPT ![c] = v]
    BY <1>3 DEF MoveOffers, CevalReport, AskEnd
  <2>3. ClockPc
    BY <1>1, <2>2, ConnPc
  <2> QED
    BY <2>1, <2>3, KeepRests, SameStatus DEF ClockRests, StepOK
<1>4. CASE MovePush(c)
  <2>1. UNCHANGED <<clockPly, expired, flagPly>>
    BY <1>4 DEF MovePush, localVars
  <2>5. restored' = FALSE
    BY <1>4 DEF MovePush
  <2>6. Over => saved
    BY DEF RankedInv
  <2>2. CASE Over /\ Return(c) /\ UNCHANGED <<ply, status, saved, running>>
    BY <1>1, <2>1, <2>2, <2>5, <2>6, ReturnPc, KeepRests, SameStatus DEF ClockRests, StepOK
  <2>3. CASE /\ ~Over /\ ply' = ply + 1 /\ pc' = [pc EXCEPT ![c] = "move_save"]
             /\ UNCHANGED <<status, saved, running>>
    <3>1. ClockPc
      BY <1>1, <2>3, ConnPc
    <3> QED
      BY <2>1, <2>3, <2>5, <3>1, KeepRests, SameStatus DEF ClockRests, StepOK
  <2>4. CASE /\ ~Over /\ ply' = ply + 1 /\ EnterSave(c, lock)
             /\ \E s \in {"DRAW", "MATE"} : \E r : UpdateStatus(s, r)
    <3>1. FallsOnTime
      BY <2>4, NoFlag
    <3> QED
      BY <1>1, <2>1, <2>4, <2>5, <3>1, EnterSavePc, KeepRests DEF ClockRests, StepOK
  <2> QED
    BY <1>4, <2>2, <2>3, <2>4 DEF MovePush
<1>5. CASE Draw(c) \/ CevalForfeit(c)
  <2>1. UNCHANGED <<clockPly, expired, flagPly, ply, timeUp, restored>>
    BY <1>5 DEF Draw, CevalForfeit, localVars
  <2>2. CASE EnterSave(c, lock) /\ \E s \in {"DRAW", "CHEAT"} : \E r : UpdateStatus(s, r)
    <3>1. FallsOnTime
      BY <2>2, NoFlag
    <3> QED
      BY <1>1, <2>1, <2>2, <3>1, EnterSavePc, KeepRests DEF ClockRests, StepOK
  <2>3. CASE UNCHANGED <<status, saved, running>> /\ (Return(c) \/ UNCHANGED pc)
    <3>1. ClockPc
      BY <1>1, <2>3, ReturnPc DEF ClockPc
    <3> QED
      BY <2>1, <2>3, <3>1, KeepRests, SameStatus DEF ClockRests, StepOK
  <2> QED
    BY <1>5, <2>2, <2>3 DEF Draw, CevalForfeit
<1>6. CASE RejectDraw(c) \/ RejectTakeback(c)
  <2>1. UNCHANGED <<clockPly, expired, flagPly, running, ply, timeUp, restored, saved, status, pc>>
    BY <1>6 DEF RejectDraw, RejectTakeback, gameVars, clockVars, localVars
  <2> QED
    BY <2>1, KeepRests, SameStatus DEF ClockRests, ClockPc, StepOK
<1>7. ~(OfferTakeback(c) \/ AcceptTakeback(c) \/ MoreTime(c))
  BY DEF OfferTakeback, AcceptTakeback, MoreTime, TakebackAllowed, RankedInv
<1>8. ~(TakebackPop(c) \/ TakebackCount(c) \/ TakebackState(c))
  BY DEF TakebackPop, TakebackCount, TakebackState, TakebackPcs, RankedInv
<1>9. CASE EndRequest(c)
  <2>1. PICK reason \in {"abort", "resign", "abandon", "flag"} : End(c, reason)
    BY <1>9, EndReasons DEF EndRequest
  <2>2. UNCHANGED <<clockPly, expired, flagPly, ply, timeUp, restored>>
    BY <2>1 DEF End, localVars
  <2>3. CASE GameEnded(c, Owner[c], reason, c) /\ (reason = "flag" => FlagAllowed(Owner[c]))
    <3>1. FallsOnTime
      BY <2>3, EndOnTime DEF FlagAllowed
    <3>2. ClockPc /\ (running' => running) /\ (saved => saved')
      BY <1>1, <2>3, EndRests
    <3> QED
      BY <2>2, <3>1, <3>2, KeepRests DEF ClockRests, StepOK
  <2>4. CASE Return(c) /\ UNCHANGED <<status, result, saved, running>>
    BY <1>1, <2>2, <2>4, ReturnPc, KeepRests, SameStatus DEF ClockRests, StepOK
  <2> QED
    BY <2>1, <2>3, <2>4 DEF End
<1>11. CASE MoveExpired(c)
  <2>1. UNCHANGED <<clockPly, expired, flagPly, ply, timeUp, restored>>
    BY <1>11 DEF MoveExpired, localVars
  <2>2. /\ GameEnded(c, Owner[c], TimeoutReason(ply), c) /\ Owner[c] = Turn(ply)
        /\ TimeoutReason(ply) \in {"abort", "flag"}
    BY <1>11 DEF MoveExpired, TimeoutReason
  <2>3. timeUp
    BY <1>11 DEF MoveExpired, RestartExpired, Timed, RankedInv
  <2>4. FallsOnTime
    BY <2>2, <2>3, EndOnTime
  <2>5. ClockPc /\ (running' => running) /\ (saved => saved')
    BY <1>1, <2>2, EndRests
  <2> QED
    BY <2>1, <2>4, <2>5, KeepRests DEF ClockRests, StepOK
<1>10. CASE Connect(c) \/ Disconnect(c)
  <2>1. UNCHANGED <<clockPly, expired, flagPly, running, ply, timeUp, restored, saved, status>>
    BY <1>10 DEF Connect, Disconnect, gameVars, clockVars, localVars
  <2>2. ClockPc
    BY <1>10 DEF ClockPc, Connect, Disconnect, ControlTypeOK, Procs, TaskPcs
  <2> QED
    BY <2>1, <2>2, KeepRests, SameStatus DEF ClockRests, StepOK
<1> QED
  BY <1>2, <1>3, <1>4, <1>5, <1>6, <1>7, <1>8, <1>9, <1>10, <1>11, ClockRestarts DEF Request, Resume

LEMMA ClockTasks ==
  ASSUME TypeInv, RankedInv, Timed,
         (\E t \in Tasks : AbandonGame(t) \/ LobbyLeft(t)) \/ ClockStep \/ TimePasses
  PROVE  StepOK
<1> USE DEF TypeInv, TypeOK
<1>1. ASSUME NEW t \in Tasks, AbandonGame(t) PROVE StepOK
  <2>1. UNCHANGED <<clockPly, expired, flagPly, ply, timeUp, restored>> /\ t \in Procs
    BY <1>1 DEF AbandonGame, localVars, Procs
  <2>2. CASE GameEnded(t, Owner[t], "abandon", lock)
    BY <2>1, <2>2, EndOnTime, EndRests, KeepRests DEF ClockRests, StepOK
  <2>3. CASE Return(t) /\ UNCHANGED <<status, result, saved, running>>
    BY <2>1, <2>3, ReturnPc, KeepRests, SameStatus DEF ClockRests, StepOK
  <2> QED
    BY <1>1, <2>2, <2>3 DEF AbandonGame
<1>2. CASE TimePasses
  <2>1. UNCHANGED <<clockPly, expired, flagPly, running, ply, restored, saved, status, pc>> /\ timeUp'
    BY <1>2 DEF TimePasses, gameVars, localVars
  <2> QED
    BY <2>1, SameStatus DEF Timed, StepOK, PlyOnlyLive
<1>3. CASE ClockTick
  <2>1. /\ UNCHANGED <<clockPly, flagPly, running, ply, restored, saved, status, timeUp, pc>>
        /\ timeUp /\ pc[ClockTask] = "tick"
    BY <1>3 DEF ClockTick, gameVars, localVars
  <2> QED
    BY <2>1, SameStatus DEF Timed, StepOK, PlyOnlyLive
<1>4. CASE ClockGrace
  <2>1. UNCHANGED <<clockPly, expired, flagPly, running, ply, timeUp, restored, saved, status>>
    BY <1>4 DEF ClockGrace, gameVars, clockVars, localVars
  <2>2. ClockPc
    BY <1>4 DEF ClockGrace, ClockPc, ControlTypeOK, Procs
  <2> QED
    BY <2>1, <2>2, KeepRests, SameStatus DEF ClockRests, StepOK
<1>5. CASE ClockClaim
  <2>1. UNCHANGED <<clockPly, expired, running, ply, timeUp, restored, saved, status>>
    BY <1>5 DEF ClockClaim, gameVars, clockVars
  <2>2. pc'[ClockTask] = "clock_lock" => flagPly' = clockPly
    BY <1>5 DEF ClockClaim, ControlTypeOK, Procs
  <2> QED
    BY <2>1, <2>2, SameStatus DEF Timed, StepOK, PlyOnlyLive
<1>6. CASE ClockFlag
  <2>1. /\ UNCHANGED <<clockPly, expired, ply, timeUp, restored>>
        /\ pc[ClockTask] = "clock_lock" /\ ClockTask \in Procs
    BY <1>6 DEF ClockFlag, localVars, Procs
  <2>4. pc'[ClockTask] # "clock_lock"
    BY <1>6 DEF ClockFlag, GameEnded, EnterSave, CancelClock, Return, ControlTypeOK, Procs
  <2>2. CASE /\ StillOutOfTime
             /\ GameEnded(ClockTask, Turn(flagPly), TimeoutReason(flagPly), ClockTask)
    <3>1. timeUp /\ flagPly = ply
      BY <2>1, <2>2 DEF StillOutOfTime, Timed, RankedInv
    <3>2. TimeoutReason(flagPly) \in {"flag", "abort"}
      BY DEF TimeoutReason
    <3>3. FallsOnTime
      BY <2>2, <3>1, <3>2, EndOnTime
    <3>4. ClockPc /\ (running' => running) /\ (saved => saved')
      BY <2>1, <2>2, EndRests
    <3> QED
      BY <2>1, <2>4, <3>3, <3>4 DEF Timed, StepOK, PlyOnlyLive
  <2>3. CASE /\ pc' = [pc EXCEPT ![ClockTask] = "tick"]
             /\ UNCHANGED <<status, saved, running>>
    BY <2>1, <2>3, <2>4, SameStatus DEF Timed, StepOK, PlyOnlyLive
  <2> QED
    BY <1>6, <2>2, <2>3 DEF ClockFlag
<1>7. CASE ClockCancelled
  <2>1. UNCHANGED <<clockPly, expired, running, ply, timeUp, restored, saved, status>>
    BY <1>7 DEF ClockCancelled, gameVars, clockVars
  <2>2. pc'[ClockTask] # "clock_lock"
    BY <1>7 DEF ClockCancelled, ControlTypeOK, Procs
  <2> QED
    BY <2>1, <2>2, SameStatus DEF Timed, StepOK, PlyOnlyLive
<1>8. ASSUME NEW t \in Tasks, LobbyLeft(t) PROVE StepOK
  <2>1. UNCHANGED <<clockPly, expired, flagPly, running, ply, timeUp, restored, saved, status>>
    BY <1>8 DEF LobbyLeft, gameVars, clockVars, localVars
  <2>2. ClockPc
    BY <1>8, ConnPc DEF LobbyLeft
  <2> QED
    BY <2>1, <2>2, KeepRests, SameStatus DEF ClockRests, StepOK
<1> QED
  BY <1>1, <1>2, <1>3, <1>4, <1>5, <1>6, <1>7, <1>8 DEF ClockStep

LEMMA InitTimed == ASSUME "casual" \notin Kinds PROVE Init => Timed
<1> SUFFICES ASSUME Init PROVE Timed
  OBVIOUS
<1>1. clockPly = ply /\ ply \in Nat /\ pc[ClockTask] = "tick" /\ kind # "casual"
  BY InitType DEF Init, TypeInv, TypeOK, DataTypeOK, Procs
<1>2. CASE NewClock
  <2>1. ~(running /\ expired) /\ ~restored
    BY <1>2, Zenon DEF NewClock
  <2> QED
    BY <1>1, <2>1 DEF Timed
<1>3. CASE LoadedClock(ply)
  <2>1. running /\ expired => timeUp
    BY <1>1, <1>3, Zenon DEF LoadedClock
  <2> QED
    BY <1>1, <2>1 DEF Timed
<1> QED
  BY <1>2, <1>3 DEF Init

LEMMA StepTimed == TypeInv /\ RankedInv /\ Timed /\ [Next]_vars => StepOK
<1> SUFFICES ASSUME TypeInv, RankedInv, Timed, [Next]_vars PROVE StepOK
  OBVIOUS
<1>1. CASE UNCHANGED vars
  <2>1. UNCHANGED <<clockPly, expired, flagPly, running, ply, timeUp, restored, saved, status, pc>>
    BY <1>1 DEF vars, gameVars, clockVars, localVars
  <2> QED
    BY <2>1, KeepRests, SameStatus DEF ClockRests, ClockPc, StepOK
<1> QED
  BY <1>1, ClockSaveGame, ClockConn, ClockTasks DEF Next

LEMMA TimedInvariant ==
  ASSUME "casual" \notin Kinds
  PROVE  Spec => [](TypeInv /\ RankedInv /\ Timed)
<1>1. StepOK => Timed'
  BY DEF StepOK
<1> QED
  BY <1>1, RankedInvariant, InitTimed, StepTimed, PTL DEF Spec

\* A flag falls only on the player to move and only when his time is used up,
\* whether the opponent claims it or the countdown task wakes up behind a move
\* (_flag_claim_allowed(), Clock.countdown).
THEOREM FlagsOnTime == ASSUME "casual" \notin Kinds PROVE Spec => FlagOnTime
<1>1. TypeInv /\ RankedInv /\ Timed /\ [Next]_vars =>
         [status' = "FLAG" /\ ~Over =>
             timeUp /\ result' \in {Loses(Turn(ply)), "1/2-1/2"}]_vars
  BY StepTimed DEF StepOK, FallsOnTime
<1> QED
  BY <1>1, TimedInvariant, PTL DEF Spec, FlagOnTime

\* No move is played in a finished game: play_move() reads the status again
\* after its awaits.
THEOREM MovesLive == ASSUME "casual" \notin Kinds PROVE Spec => MovesOnlyLive
<1>1. TypeInv /\ RankedInv /\ Timed /\ [Next]_vars => [ply' # ply => ~Over]_vars
  BY StepTimed DEF StepOK, PlyOnlyLive
<1> QED
  BY <1>1, TimedInvariant, PTL DEF Spec, MovesOnlyLive

=============================================================================
