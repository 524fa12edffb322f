----------------------------- MODULE LobbyProof -----------------------------
(***************************************************************************)
(* What Lobby promises for any number of users, tabs, seeks and games: one *)
(* game per seek, an accepted challenge with a game, a challenge with a    *)
(* game that is never open again, and one rematch.                         *)
(*                                                                         *)
(* The three properties are not inductive.  What makes them so is where    *)
(* new_game() may be: the tab that waits for an id has the second seat of  *)
(* its seek, no other tab waits for the same seek, and no game of it       *)
(* exists yet.  A seek whose second seat is free has neither.              *)
(***************************************************************************)
EXTENDS Lobby, FiniteSetTheorems, TLAPS

\* A seek that is not made has no second player; two users of the pool differ.
Unmade == \A s \in Seeks : kind[s] = "none" => second[s] = None

Mated == \A t \in Tabs : pc[t] = "autoseek" => mate[t] \in Users /\ mate[t] # Owner[t]

TypeInv == TypeOK /\ Unmade /\ Mated

\* Where new_game() may be.
Seated ==
    \A t \in Tabs : pc[t] \in {"newgame", "insert"} =>
        seek[t] \in Seeks /\ second[seek[t]] # None

OneSeat ==
    \A t, u \in Tabs :
        pc[t] = "newgame" /\ pc[u] = "newgame" /\ seek[t] = seek[u] => t = u

NotYet == \A t \in Tabs, g \in Games : pc[t] = "newgame" => gseek[g] # seek[t]

Played == \A g \in Games : gseek[g] # None => second[gseek[g]] # None

SeatInv == Seated /\ OneSeat /\ NotYet /\ Played

-----------------------------------------------------------------------------
(* Types *)

LEMMA TypeInit == ASSUME Init PROVE TypeInv
BY LobbyAssumption DEF Init, TypeInv, TypeOK, Unmade, Mated, Active, Answered

LEMMA TypeCreateSeek ==
    ASSUME TypeInv, NEW t \in Tabs, NEW v \in Users \cup {None}, CreateSeek(t, v)
    PROVE  TypeInv'
BY LobbyAssumption DEF TypeInv, TypeOK, Unmade, Mated, Active, Answered, CreateSeek, Goto,
   userVars, gameVars, rematchVars

LEMMA TypeListSeek ==
    ASSUME TypeInv, NEW t \in Tabs, ListSeek(t)
    PROVE  TypeInv'
BY LobbyAssumption DEF TypeInv, TypeOK, Unmade, Mated, Active, Answered, ListSeek, Goto,
   Fresh, Made, StandAside, LeavePool, Sit, gameVars, rematchVars

LEMMA TypeAccept ==
    ASSUME TypeInv, NEW t \in Tabs, NEW s \in Seeks, Accept(t, s)
    PROVE  TypeInv'
<1>1. /\ Owner[t] \in Users /\ Owner[t] # creator[s] /\ Sit(t, Owner[t], s)
      /\ UNCHANGED <<userVars, kind, creator, target, listed, status, pending, gameVars,
                     rematchVars>>
    BY LobbyAssumption DEF Accept, Takes
<1>2. kind[s] # "none"
    BY DEF Accept
<1> QED
    BY <1>1, <1>2 DEF TypeInv, TypeOK, Unmade, Mated, Goto, Sit, userVars, gameVars, rematchVars

LEMMA TypeNewGame ==
    ASSUME TypeInv, NEW t \in Tabs, NewGame(t), seek[t] \in Seeks
    PROVE  TypeInv'
BY LobbyAssumption DEF TypeInv, TypeOK, Unmade, Mated, Active, Answered, NewGame, Goto,
   Unlist, rematchVars

LEMMA TypeNewGameFails ==
    ASSUME TypeInv, NEW t \in Tabs, NewGameFails(t)
    PROVE  TypeInv'
BY LobbyAssumption DEF TypeInv, TypeOK, Unmade, Mated, Active, Answered, NewGameFails, Goto,
   Unlist, userVars, gameVars

LEMMA TypeDecline ==
    ASSUME TypeInv, NEW t \in Tabs, NEW s \in Seeks, Decline(t, s)
    PROVE  TypeInv'
BY LobbyAssumption DEF TypeInv, TypeOK, Unmade, Mated, Decline, Goto, userVars, seekVars,
   gameVars, rematchVars

LEMMA TypeDeclined ==
    ASSUME TypeInv, NEW t \in Tabs, Declined(t)
    PROVE  TypeInv'
BY LobbyAssumption DEF TypeInv, TypeOK, Unmade, Mated, Active, Answered, Declined, Goto,
   userVars, gameVars, rematchVars

LEMMA TypeStarted ==
    ASSUME TypeInv, NEW t \in Tabs, Started(t)
    PROVE  TypeInv'
BY LobbyAssumption DEF TypeInv, TypeOK, Unmade, Mated, Active, Answered, Started, Goto,
   userVars, seekVars, gameVars

LEMMA TypeAutoPair ==
    ASSUME TypeInv, NEW t \in Tabs, AutoPair(t)
    PROVE  TypeInv'
BY LobbyAssumption DEF TypeInv, TypeOK, Unmade, Mated, Active, Answered, AutoPair, Goto,
   PairWithUser, PairWithSeek, Wait, Takes, Sit, StandAside, gameVars, rematchVars

LEMMA TypeAutoSeek ==
    ASSUME TypeInv, NEW t \in Tabs, AutoSeek(t)
    PROVE  TypeInv'
<1>1. Owner[t] \in Users /\ mate[t] \in Users /\ mate[t] # Owner[t]
    BY LobbyAssumption DEF TypeInv, Mated, AutoSeek
<1>2. PICK s \in Seeks : Fresh(s) /\ Made(s, "auto", mate[t], None) /\ Sit(t, Owner[t], s)
    BY DEF AutoSeek
<1>3. Unmade' /\ Mated'
    BY <1>1, <1>2, LobbyAssumption DEF TypeInv, TypeOK, Unmade, Mated, Fresh, Made, Sit, Goto
<1>4. /\ second' \in [Seeks -> Users \cup {None}]
      /\ \A r \in Seeks : second'[r] # None => second'[r] # creator'[r]
    BY <1>1, <1>2, LobbyAssumption DEF TypeInv, TypeOK, Made, Sit
<1>5. /\ kind' \in [Seeks -> {"none", "open", "challenge", "auto", "rematch"}]
      /\ creator' \in [Seeks -> Users \cup {None}]
      /\ target' \in [Seeks -> Users \cup {None}]
      /\ seek' \in [Tabs -> Seeks \cup {None}]
      /\ mate' \in [Tabs -> Users \cup {None}]
      /\ pc' \in [Tabs -> {"idle", "newseek", "autoseek", "rematchseek",
                          "newgame", "insert", "decline"}]
    BY <1>1, <1>2 DEF TypeInv, TypeOK, Made, Sit, Goto
<1>6. pool' \subseteq Users /\ ready' \subseteq Users
    BY DEF TypeInv, TypeOK, AutoSeek, LeavePool
<1> QED
    BY <1>3, <1>4, <1>5, <1>6 DEF TypeInv, TypeOK, AutoSeek, gameVars, rematchVars

LEMMA TypeRematch ==
    ASSUME TypeInv, NEW t \in Tabs, Rematch(t) \/ RematchSeek(t)
    PROVE  TypeInv'
<1>1. CASE Rematch(t)
    BY <1>1, LobbyAssumption DEF TypeInv, TypeOK, Unmade, Mated, Active, Answered, Rematch,
       Goto, userVars, seekVars, gameVars
<1>2. CASE RematchSeek(t)
    <2>1. PICK s \in Seeks, p \in Rivals \ {Owner[t]} :
            Fresh(s) /\ Made(s, "rematch", Owner[t], None) /\ listed' = listed \cup {s} /\ Sit(t, p, s)
        BY <1>2 DEF RematchSeek
    <2>2. UNCHANGED <<userVars, status, pending, gameVars, rematchVars>>
        BY <1>2 DEF RematchSeek
    <2>3. Owner[t] \in Users /\ p \in Users
        BY LobbyAssumption
    <2>4. Unmade' /\ Mated'
        BY <2>1, <2>2, <2>3, LobbyAssumption
           DEF TypeInv, TypeOK, Unmade, Mated, Goto, Fresh, Made, Sit, userVars, gameVars, rematchVars
    <2>5. TypeOK'
        BY <2>1, <2>2, <2>3
           DEF TypeInv, TypeOK, Active, Answered, Goto, Made, Sit, userVars, gameVars, rematchVars
    <2> QED
        BY <2>4, <2>5 DEF TypeInv
<1> QED
    BY <1>1, <1>2

\* The actions that no tab takes: withdrawals, absences, timers, ends of games.
Else ==
    \/ \E s \in Seeks : Withdraw(s)
    \/ \E u \in Users : \/ CancelAutoPairing(u) \/ Leave(u) \/ Return(u)
                        \/ PendingTimeout(u) \/ MarkOffline(u)
    \/ \E g \in Games : EndGame(g)

LEMMA ElseUnchanged ==
    ASSUME Else
    PROVE  UNCHANGED <<kind, creator, target, second, gseek, rematchVars, tabVars>>
BY DEF Else, Withdraw, CancelAutoPairing, Leave, Return, PendingTimeout, MarkOffline,
   EndGame, Delete, Cancel, Expire, seekVars, gameVars, rematchVars, tabVars, userVars

LEMMA TypeElse ==
    ASSUME TypeInv, Else
    PROVE  TypeInv'
<1>1. Unmade' /\ Mated'
    BY ElseUnchanged DEF TypeInv, Unmade, Mated, tabVars
<1>2. online' \subseteq Users /\ pool' \subseteq Users /\ ready' \subseteq Users
    BY DEF TypeInv, TypeOK, Else, Withdraw, CancelAutoPairing, Leave, Return,
       PendingTimeout, MarkOffline, EndGame, LeavePool, userVars
<1>3. listed' \subseteq Seeks /\ pending' \subseteq Seeks
    BY DEF TypeInv, TypeOK, Else, Withdraw, CancelAutoPairing, Leave, Return,
       PendingTimeout, MarkOffline, EndGame, Delete, Cancel, Expire, Unlist, Own, seekVars
<1>4. status' \in [Seeks -> Active \cup Answered \cup {"none"}]
    <2>1. ASSUME NEW s \in Seeks, Withdraw(s)
          PROVE  status' \in [Seeks -> Active \cup Answered \cup {"none"}]
        BY <2>1 DEF TypeInv, TypeOK, Withdraw, Delete, Cancel, Expire, Answered
    <2>2. ASSUME NEW u \in Users, Return(u)
          PROVE  status' \in [Seeks -> Active \cup Answered \cup {"none"}]
        BY <2>2 DEF TypeInv, TypeOK, Return, Active
    <2>3. ASSUME NEW u \in Users, MarkOffline(u)
          PROVE  status' \in [Seeks -> Active \cup Answered \cup {"none"}]
        BY <2>3 DEF TypeInv, TypeOK, MarkOffline, Active
    <2>4. ASSUME UNCHANGED status
          PROVE  status' \in [Seeks -> Active \cup Answered \cup {"none"}]
        BY <2>4 DEF TypeInv, TypeOK
    <2> QED
        BY <2>1, <2>2, <2>3, <2>4 DEF Else, CancelAutoPairing, Leave, PendingTimeout,
           EndGame, seekVars
<1>5. over' \subseteq Games /\ playing' \in [Users -> Games \cup {None}]
    <2>1. ASSUME NEW g \in Games, EndGame(g)
          PROVE  over' \subseteq Games /\ playing' \in [Users -> Games \cup {None}]
        BY <2>1 DEF TypeInv, TypeOK, EndGame
    <2>2. (\E g \in Games : EndGame(g)) \/ UNCHANGED <<over, playing>>
        BY DEF Else, Withdraw, CancelAutoPairing, Leave, Return, PendingTimeout,
           MarkOffline, userVars, gameVars
    <2> QED
        BY <2>1, <2>2 DEF TypeInv, TypeOK
<1> QED
    BY <1>1, <1>2, <1>3, <1>4, <1>5, ElseUnchanged
       DEF TypeInv, TypeOK, rematchVars, tabVars

-----------------------------------------------------------------------------
(* Where new_game() may be *)

LEMMA SeatInit == ASSUME Init PROVE SeatInv
BY DEF Init, SeatInv, Seated, OneSeat, NotYet, Played

\* A seat is taken only while it is free: no tab waits with the seek, and it
\* has no game.
LEMMA SeatTaken ==
    ASSUME TypeInv, SeatInv, NEW t \in Tabs, NEW u \in Users, NEW s \in Seeks,
           Sit(t, u, s), second[s] = None, UNCHANGED gseek
    PROVE  SeatInv'
<1> USE DEF Sit, Goto, TypeInv, TypeOK
<1>1. Seated'
    BY LobbyAssumption DEF SeatInv, Seated
<1>2. OneSeat'
    BY DEF SeatInv, Seated, OneSeat
<1>3. NotYet'
    BY LobbyAssumption DEF SeatInv, NotYet, Played
<1>4. Played'
    BY LobbyAssumption DEF SeatInv, Played
<1> QED
    BY <1>1, <1>2, <1>3, <1>4 DEF SeatInv

\* A step that takes no seat and does not go on with a new game.
LEMMA SeatsKept ==
    ASSUME TypeInv, SeatInv, UNCHANGED <<second, gseek>>,
           \A t \in Tabs : pc'[t] \in {"newgame", "insert"} =>
                             pc'[t] = pc[t] /\ seek'[t] = seek[t]
    PROVE  SeatInv'
BY DEF SeatInv, Seated, OneSeat, NotYet, Played

LEMMA SeatNewGame ==
    ASSUME TypeInv, SeatInv, NEW t \in Tabs, NewGame(t)
    PROVE  SeatInv'
<1> USE DEF NewGame, Goto, TypeInv, TypeOK
<1>1. Seated'
    BY DEF SeatInv, Seated
<1>2. OneSeat'
    BY DEF SeatInv, OneSeat
<1>3. NotYet'
    BY DEF SeatInv, OneSeat, NotYet
<1>4. Played'
    BY DEF SeatInv, Seated, Played
<1> QED
    BY <1>1, <1>2, <1>3, <1>4 DEF SeatInv

LEMMA SeatStarted ==
    ASSUME TypeInv, SeatInv, NEW t \in Tabs, Started(t)
    PROVE  SeatInv'
BY DEF Started, Goto, TypeInv, TypeOK, SeatInv, Seated, OneSeat, NotYet, Played, seekVars,
   gameVars

LEMMA SeatTab ==
    ASSUME TypeInv, SeatInv, NEW t \in Tabs, TabStep(t)
    PROVE  SeatInv'
<1>1. ASSUME NEW v \in Users \cup {None}, CreateSeek(t, v) PROVE SeatInv'
    BY <1>1, SeatsKept DEF CreateSeek, Goto, TypeInv, TypeOK, gameVars
<1>2. CASE ListSeek(t)
    <2>1. PICK s \in Seeks :
            /\ Fresh(s)
            /\ StandAside(t) \/ \E p \in Users : Sit(t, p, s)
        BY <1>2 DEF ListSeek, TypeInv, TypeOK
    <2>2. second[s] = None /\ UNCHANGED gseek
        BY <1>2, <2>1 DEF ListSeek, Fresh, TypeInv, Unmade, gameVars
    <2>3. CASE StandAside(t)
        BY <2>2, <2>3, SeatsKept DEF StandAside, Goto, TypeInv, TypeOK
    <2> QED
        BY <2>1, <2>2, <2>3, SeatTaken
<1>3. ASSUME NEW s \in Seeks, Accept(t, s) PROVE SeatInv'
    BY <1>3, SeatTaken, LobbyAssumption DEF Accept, Takes, gameVars
<1>4. CASE AutoPair(t)
    <2>1. UNCHANGED gseek /\ Owner[t] \in Users
        BY <1>4, LobbyAssumption DEF AutoPair, gameVars
    <2>2. CASE StandAside(t)
        BY <2>1, <2>2, SeatsKept DEF StandAside, Goto, TypeInv, TypeOK
    <2>3. ASSUME NEW s \in Seeks, Sit(t, Owner[t], s), Takes(Owner[t], s)
          PROVE  SeatInv'
        BY <2>1, <2>3, SeatTaken DEF Takes
    <2>4. CASE PairWithUser(t, Owner[t])
        BY <2>1, <2>4, SeatsKept DEF PairWithUser, Goto, TypeInv, TypeOK
    <2> QED
        BY <1>4, <2>2, <2>3, <2>4 DEF AutoPair, PairWithSeek, Wait, TypeInv, TypeOK
<1>5. CASE AutoSeek(t)
    BY <1>5, SeatTaken, LobbyAssumption DEF AutoSeek, Fresh, TypeInv, Unmade, gameVars
<1>6. CASE Rematch(t)
    BY <1>6, SeatsKept DEF Rematch, Goto, TypeInv, TypeOK, seekVars, gameVars
<1>7. CASE RematchSeek(t)
    BY <1>7, SeatTaken, LobbyAssumption DEF RematchSeek, Fresh, TypeInv, Unmade, gameVars
<1>8. ASSUME NEW s \in Seeks, Decline(t, s) PROVE SeatInv'
    BY <1>8, SeatsKept DEF Decline, Goto, TypeInv, TypeOK, seekVars, gameVars
<1>9. CASE Declined(t)
    BY <1>9, SeatsKept DEF Declined, Goto, TypeInv, TypeOK, gameVars
<1>10. CASE NewGameFails(t)
    BY <1>10, SeatsKept DEF NewGameFails, Goto, TypeInv, TypeOK, gameVars
<1> QED
    BY <1>1, <1>2, <1>3, <1>4, <1>5, <1>6, <1>7, <1>8, <1>9, <1>10, SeatNewGame, SeatStarted
       DEF TabStep

-----------------------------------------------------------------------------
(* The status of a challenge *)

\* AcceptedHasGame for one seek.
StatusOf(s) ==
    kind[s] = "challenge" =>
        /\ status[s] = "accepted" => \E g \in Games : gseek[g] = s
        /\ (\E g \in Games : gseek[g] = s) => status[s] \in {"accepted", "declined"}

LEMMA AcceptedIsStatusOf == AcceptedHasGame <=> \A s \in Seeks : StatusOf(s)
BY DEF AcceptedHasGame, StatusOf

\* What any step but NewGame may do to the status of a seek that is there already:
\* only Declined changes one that is accepted or declined.
KeepsStatus(s) ==
    \/ status'[s] = status[s]
    \/ status[s] \notin {"accepted", "declined"} /\ status'[s] # "accepted"
    \/ status'[s] = "declined"

LEMMA StatusKept ==
    ASSUME TypeInv, NEW s \in Seeks, StatusOf(s), UNCHANGED <<kind, gseek>>, KeepsStatus(s)
    PROVE  StatusOf(s)'
BY DEF StatusOf, KeepsStatus

\* A seek that is made now has no game.
LEMMA StatusMade ==
    ASSUME TypeInv, SeatInv, AcceptedHasGame, NEW r \in Seeks, Fresh(r),
           UNCHANGED gseek, kind' = [kind EXCEPT ![r] = kind'[r]],
           kind'[r] = "challenge" => status'[r] # "accepted",
           \A s \in Seeks \ {r} : status'[s] = status[s]
    PROVE  AcceptedHasGame'
<1>1. second[r] = None /\ \A g \in Games : gseek[g] # r
    BY LobbyAssumption DEF TypeInv, Unmade, SeatInv, Played, Fresh
<1> QED
    BY <1>1 DEF AcceptedHasGame, TypeInv, TypeOK

LEMMA StatusesKept ==
    ASSUME TypeInv, AcceptedHasGame, UNCHANGED <<kind, gseek>>, \A s \in Seeks : KeepsStatus(s)
    PROVE  AcceptedHasGame'
BY AcceptedIsStatusOf, StatusKept DEF AcceptedHasGame, StatusOf

LEMMA StatusTab ==
    ASSUME TypeInv, SeatInv, AcceptedHasGame, NEW t \in Tabs, TabStep(t)
    PROVE  AcceptedHasGame'
<1>1. ASSUME NEW v \in Users \cup {None}, CreateSeek(t, v) PROVE AcceptedHasGame'
    <2>1. UNCHANGED <<kind, gseek>>
        BY <1>1 DEF CreateSeek, gameVars
    <2>2. \A s \in Seeks : KeepsStatus(s)
        <3>1. \/ UNCHANGED status
              \/ \E s \in listed : /\ status[s] \in Active
                                   /\ status' = [status EXCEPT ![s] = "canceled"]
            BY <1>1 DEF CreateSeek, Own
        <3>2. CASE UNCHANGED status
            BY <3>2 DEF KeepsStatus
        <3>3. ASSUME NEW s \in listed, status[s] \in Active,
                     status' = [status EXCEPT ![s] = "canceled"]
              PROVE  \A r \in Seeks : KeepsStatus(r)
            BY <3>3 DEF TypeInv, TypeOK, Active, KeepsStatus
        <3> QED
            BY <3>1, <3>2, <3>3
    <2> QED
        BY <2>1, <2>2, StatusesKept
<1>2. CASE ListSeek(t)
    <2>1. PICK s \in Seeks :
            /\ Fresh(s)
            /\ Made(s, IF mate[t] = None THEN "open" ELSE "challenge", Owner[t], mate[t])
            /\ status' = [status EXCEPT ![s] = IF mate[t] = None THEN "none" ELSE "created"]
        BY <1>2 DEF ListSeek
    <2> QED
        BY <1>2, <2>1, StatusMade DEF ListSeek, Made, TypeInv, TypeOK, gameVars
<1>3. ASSUME NEW s \in Seeks, Accept(t, s) PROVE AcceptedHasGame'
    BY <1>3 DEF Accept, AcceptedHasGame, gameVars
<1>4. CASE NewGame(t)
    <2>1. PICK g \in Games : gseek[g] = None /\ gseek' = [gseek EXCEPT ![g] = seek[t]]
        BY <1>4 DEF NewGame
    <2>2. seek[t] \in Seeks
        BY <1>4 DEF NewGame, SeatInv, Seated
    <2>3. gseek'[g] = seek[t] /\ \A h \in Games \ {g} : gseek'[h] = gseek[h]
        BY <2>1 DEF TypeInv, TypeOK
    <2>4. /\ kind[seek[t]] = "challenge" => status'[seek[t]] = "accepted"
          /\ \A s \in Seeks \ {seek[t]} : status'[s] = status[s]
        BY <1>4, <2>2 DEF NewGame, TypeInv, TypeOK
    <2> QED
        BY <1>4, <2>1, <2>2, <2>3, <2>4, LobbyAssumption DEF AcceptedHasGame, NewGame
<1>5. CASE Started(t)
    BY <1>5 DEF Started, AcceptedHasGame, seekVars, gameVars
<1>6. CASE AutoPair(t)
    BY <1>6 DEF AutoPair, AcceptedHasGame, gameVars
<1>7. CASE AutoSeek(t)
    <2>1. PICK s \in Seeks : Fresh(s) /\ Made(s, "auto", mate[t], None)
        BY <1>7 DEF AutoSeek
    <2> QED
        BY <1>7, <2>1, StatusMade DEF AutoSeek, Made, TypeInv, TypeOK, gameVars
<1>8. CASE Rematch(t)
    BY <1>8 DEF Rematch, AcceptedHasGame, seekVars, gameVars
<1>9. CASE RematchSeek(t)
    <2>1. PICK s \in Seeks : Fresh(s) /\ Made(s, "rematch", Owner[t], None)
        BY <1>9 DEF RematchSeek
    <2> QED
        BY <1>9, <2>1, StatusMade DEF RematchSeek, Made, TypeInv, TypeOK, gameVars
<1>10. ASSUME NEW s \in Seeks, Decline(t, s) PROVE AcceptedHasGame'
    BY <1>10 DEF Decline, AcceptedHasGame, seekVars, gameVars
<1>11. CASE Declined(t)
    <2>1. UNCHANGED <<kind, gseek>>
        BY <1>11 DEF Declined, gameVars
    <2>2. \A s \in Seeks : KeepsStatus(s)
        BY <1>11 DEF Declined, KeepsStatus, TypeInv, TypeOK
    <2> QED
        BY <2>1, <2>2, StatusesKept
<1>12. CASE NewGameFails(t)
    BY <1>12 DEF NewGameFails, AcceptedHasGame, gameVars
<1> QED
    BY <1>1, <1>2, <1>3, <1>4, <1>5, <1>6, <1>7, <1>8, <1>9, <1>10, <1>11, <1>12 DEF TabStep

LEMMA StatusElse ==
    ASSUME TypeInv, AcceptedHasGame, Else
    PROVE  AcceptedHasGame'
<1>1. UNCHANGED <<kind, gseek>>
    BY ElseUnchanged
<1>2. ASSUME NEW s \in Seeks PROVE KeepsStatus(s)
    <2>1. ASSUME NEW r \in Seeks, Withdraw(r) PROVE KeepsStatus(s)
        BY <2>1 DEF TypeInv, TypeOK, Withdraw, Delete, Cancel, Expire, Active, KeepsStatus
    <2>2. ASSUME NEW u \in Users, Return(u) PROVE KeepsStatus(s)
        BY <2>2 DEF TypeInv, TypeOK, Return, KeepsStatus
    <2>3. ASSUME NEW u \in Users, MarkOffline(u) PROVE KeepsStatus(s)
        BY <2>3 DEF TypeInv, TypeOK, MarkOffline, WentOffline, KeepsStatus
    <2> QED
        BY <2>1, <2>2, <2>3 DEF Else, CancelAutoPairing, Leave, PendingTimeout, EndGame,
           seekVars, KeepsStatus
<1> QED
    BY <1>1, <1>2, StatusesKept

-----------------------------------------------------------------------------
(* The rematch *)

RematchGame(g) == gseek[g] # None /\ kind[gseek[g]] = "rematch"

\* Until it is noted, the rematch is in the hands of the tab with the lock.
Asked == \A t \in Tabs : pc[t] = "rematchseek" => lock = t

Held ==
    \A t \in Tabs :
        pc[t] \in {"newgame", "insert"} /\ kind[seek[t]] = "rematch" => lock = t

Unnoted == lock # None => rematch = None

Noted ==
    \A g \in Games : RematchGame(g) =>
        rematch # None \/ (lock # None /\ pc[lock] = "insert")

SoleRematch == \A g, h \in Games : RematchGame(g) /\ RematchGame(h) => g = h

RematchInv == Asked /\ Held /\ Unnoted /\ Noted /\ SoleRematch

IInv == TypeInv /\ SeatInv /\ AcceptedHasGame /\ RematchInv

LEMMA RematchInit == ASSUME Init PROVE RematchInv
BY DEF Init, RematchInv, Asked, Held, Unnoted, Noted, SoleRematch, RematchGame

\* Steps that make no seek, no game and leave the rematch alone.
LEMMA RematchKept ==
    ASSUME TypeInv, RematchInv, UNCHANGED <<kind, gseek, rematchVars>>,
           \A t \in Tabs : /\ pc'[t] = "rematchseek" => pc[t] = "rematchseek"
                           /\ pc'[t] \in {"newgame", "insert"} =>
                                 \/ pc[t] = pc'[t] /\ seek'[t] = seek[t]
                                 \/ kind[seek'[t]] # "rematch"
                           /\ pc[t] = "insert" => pc'[t] = "insert"
    PROVE  RematchInv'
<1>1. \A g \in Games : RematchGame(g)' <=> RematchGame(g)
    BY DEF RematchGame
<1>2. Noted'
    BY <1>1 DEF TypeInv, TypeOK, RematchInv, Noted, rematchVars
<1>3. Asked' /\ Held'
    BY DEF RematchInv, Asked, Held, rematchVars
<1>4. Unnoted' /\ SoleRematch'
    BY <1>1 DEF RematchInv, Unnoted, SoleRematch, rematchVars
<1> QED
    BY <1>2, <1>3, <1>4 DEF RematchInv

\* Seat s is taken by the step that makes s.
LEMMA RematchMade ==
    ASSUME TypeInv, SeatInv, RematchInv, NEW t \in Tabs, NEW s \in Seeks, Fresh(s),
           UNCHANGED <<gseek, rematchVars>>, kind' = [kind EXCEPT ![s] = kind'[s]],
           pc[t] # "insert", kind'[s] = "rematch" => lock = t,
           \/ pc' = [pc EXCEPT ![t] = "idle"] /\ UNCHANGED seek
           \/ pc' = [pc EXCEPT ![t] = "newgame"] /\ seek' = [seek EXCEPT ![t] = s]
    PROVE  RematchInv'
<1> USE DEF TypeInv, TypeOK
<1>1. second[s] = None /\ kind[s] = "none"
    BY DEF Unmade, Fresh
<1>2. \A g \in Games : gseek[g] # s
    BY <1>1, LobbyAssumption DEF SeatInv, Played
<1>3. \A u \in Tabs : pc[u] \in {"newgame", "insert"} => seek[u] # s
    BY <1>1 DEF SeatInv, Seated
<1>4. \A g \in Games : RematchGame(g)' <=> RematchGame(g)
    BY <1>2 DEF RematchGame
<1>5. Asked'
    BY DEF RematchInv, Asked, rematchVars
<1>6. Held'
    BY <1>3 DEF RematchInv, Held, rematchVars, SeatInv, Seated
<1>7. Noted' /\ SoleRematch' /\ Unnoted'
    BY <1>4 DEF RematchInv, Noted, SoleRematch, Unnoted, rematchVars
<1> QED
    BY <1>5, <1>6, <1>7 DEF RematchInv

LEMMA RematchNewGame ==
    ASSUME TypeInv, SeatInv, RematchInv, NEW t \in Tabs, NewGame(t)
    PROVE  RematchInv'
<1> USE DEF TypeInv, TypeOK
<1>1. PICK g \in Games : gseek[g] = None /\ gseek' = [gseek EXCEPT ![g] = seek[t]]
    BY DEF NewGame
<1>2. /\ seek[t] \in Seeks /\ pc[t] = "newgame" /\ pc' = [pc EXCEPT ![t] = "insert"]
      /\ UNCHANGED <<kind, seek, lock, rematch>>
    BY DEF NewGame, SeatInv, Seated, Goto, rematchVars
<1>3. Asked' /\ Held' /\ Unnoted'
    BY <1>2 DEF RematchInv, Asked, Held, Unnoted
<1>4. \A h \in Games \ {g} : RematchGame(h)' <=> RematchGame(h)
    BY <1>1, <1>2 DEF RematchGame
<1>5. CASE kind[seek[t]] # "rematch"
    <2>1. ~RematchGame(g)'
        BY <1>1, <1>2, <1>5 DEF RematchGame
    <2> QED
        BY <1>2, <1>3, <1>4, <2>1 DEF RematchInv, Noted, SoleRematch
<1>6. CASE kind[seek[t]] = "rematch"
    <2>1. lock = t /\ t # None
        BY <1>2, <1>6, LobbyAssumption DEF RematchInv, Held
    <2>2. \A h \in Games : ~RematchGame(h)
        BY <1>2, <2>1 DEF RematchInv, Unnoted, Noted
    <2> QED
        BY <1>2, <1>3, <1>4, <2>1, <2>2 DEF RematchInv, Noted, SoleRematch
<1> QED
    BY <1>5, <1>6

LEMMA RematchStarted ==
    ASSUME TypeInv, RematchInv, NEW t \in Tabs, Started(t)
    PROVE  RematchInv'
<1> USE DEF TypeInv, TypeOK
<1>1. /\ pc[t] = "insert" /\ pc' = [pc EXCEPT ![t] = "idle"]
      /\ \A u \in Tabs \ {t} : pc'[u] = pc[u] /\ seek'[u] = seek[u]
      /\ UNCHANGED <<kind, gseek>>
    BY DEF Started, Goto, seekVars, gameVars
<1>2. CASE lock = t
    <2>1. lock' = None /\ rematch' # None
        BY <1>2, LobbyAssumption DEF Started
    <2> QED
        BY <1>1, <1>2, <2>1, LobbyAssumption
           DEF RematchInv, Asked, Held, Unnoted, Noted, SoleRematch, RematchGame
<1>3. CASE lock # t
    <2>1. UNCHANGED <<lock, rematch>>
        BY <1>3 DEF Started
    <2> QED
        BY <1>1, <1>3, <2>1
           DEF RematchInv, Asked, Held, Unnoted, Noted, SoleRematch, RematchGame
<1> QED
    BY <1>2, <1>3

\* The failure of the rematch releases the lock, and no rematch is there yet.
LEMMA RematchFails ==
    ASSUME TypeInv, RematchInv, NEW t \in Tabs, NewGameFails(t)
    PROVE  RematchInv'
<1> USE DEF TypeInv, TypeOK
<1>1. /\ pc[t] = "newgame" /\ pc' = [pc EXCEPT ![t] = "idle"]
      /\ \A u \in Tabs \ {t} : pc'[u] = pc[u] /\ seek'[u] = seek[u]
      /\ UNCHANGED <<kind, gseek, rematch>>
    BY DEF NewGameFails, Goto, gameVars
<1>2. lock' = IF lock = t THEN None ELSE lock
    BY DEF NewGameFails
<1> QED
    BY <1>1, <1>2, LobbyAssumption
       DEF RematchInv, Asked, Held, Unnoted, Noted, SoleRematch, RematchGame

LEMMA RematchTab ==
    ASSUME TypeInv, SeatInv, RematchInv, NEW t \in Tabs, TabStep(t)
    PROVE  RematchInv'
<1> USE DEF TypeInv, TypeOK, Goto
<1>1. ASSUME NEW v \in Users \cup {None}, CreateSeek(t, v) PROVE RematchInv'
    BY <1>1, RematchKept DEF CreateSeek, gameVars
<1>2. CASE ListSeek(t)
    <2>1. PICK s \in Seeks :
            /\ Fresh(s)
            /\ kind' = [kind EXCEPT ![s] = IF mate[t] = None THEN "open" ELSE "challenge"]
            /\ \/ pc' = [pc EXCEPT ![t] = "idle"] /\ UNCHANGED seek
               \/ pc' = [pc EXCEPT ![t] = "newgame"] /\ seek' = [seek EXCEPT ![t] = s]
        BY <1>2 DEF ListSeek, Made, StandAside, Sit
    <2>2. pc[t] # "insert" /\ UNCHANGED <<gseek, rematchVars>>
        BY <1>2 DEF ListSeek, gameVars
    <2>3. kind' = [kind EXCEPT ![s] = kind'[s]] /\ kind'[s] # "rematch"
        BY <2>1
    <2> QED
        BY <2>1, <2>2, <2>3, RematchMade
<1>3. ASSUME NEW s \in Seeks, Accept(t, s) PROVE RematchInv'
    <2>1. /\ Sit(t, Owner[t], s) /\ kind[s] # "rematch" /\ pc[t] = "idle"
          /\ UNCHANGED <<kind, gseek, rematchVars>>
        BY <1>3 DEF Accept, gameVars
    <2> QED
        BY <2>1, RematchKept DEF Sit
<1>4. CASE AutoPair(t)
    BY <1>4, RematchKept DEF AutoPair, PairWithUser, PairWithSeek, Wait, Sit, StandAside,
       gameVars
<1>5. CASE AutoSeek(t)
    <2>1. PICK s \in Seeks : Fresh(s) /\ Made(s, "auto", mate[t], None) /\ Sit(t, Owner[t], s)
        BY <1>5 DEF AutoSeek
    <2> QED
        BY <1>5, <2>1, RematchMade DEF AutoSeek, Made, Sit, gameVars
<1>6. CASE Rematch(t)
    <2>1. lock = None /\ rematch = None /\ UNCHANGED <<kind, gseek, seek, rematch>>
        BY <1>6 DEF Rematch, LockFree, seekVars, gameVars
    <2>2. \/ lock' = t /\ pc' = [pc EXCEPT ![t] = "rematchseek"]
          \/ UNCHANGED <<lock, pc>>
        BY <1>6 DEF Rematch
    <2>3. \A u \in Tabs : u # None
        BY LobbyAssumption
    <2> QED
        BY <1>6, <2>1, <2>2, <2>3
           DEF RematchInv, Asked, Held, Unnoted, Noted, SoleRematch, RematchGame
<1>7. CASE RematchSeek(t)
    <2>1. PICK s \in Seeks, p \in Rivals :
            Fresh(s) /\ Made(s, "rematch", Owner[t], None) /\ Sit(t, p, s)
        BY <1>7 DEF RematchSeek
    <2>2. lock = t
        BY <1>7 DEF RematchSeek, RematchInv, Asked
    <2> QED
        BY <1>7, <2>1, <2>2, RematchMade DEF RematchSeek, Made, Sit, gameVars
<1>8. ASSUME NEW s \in Seeks, Decline(t, s) PROVE RematchInv'
    BY <1>8, RematchKept DEF Decline, seekVars, gameVars
<1>9. CASE Declined(t)
    BY <1>9, RematchKept DEF Declined, gameVars
<1> QED
    BY <1>1, <1>2, <1>3, <1>4, <1>5, <1>6, <1>7, <1>8, <1>9, RematchNewGame, RematchFails,
       RematchStarted DEF TabStep

LEMMA RematchElse ==
    ASSUME TypeInv, RematchInv, Else
    PROVE  RematchInv'
BY ElseUnchanged, RematchKept DEF tabVars

-----------------------------------------------------------------------------
(* The theorems *)

LEMMA NextIsTabOrElse == ASSUME Next PROVE (\E t \in Tabs : TabStep(t)) \/ Else
BY DEF Next, Else

LEMMA TypeTab ==
    ASSUME TypeInv, SeatInv, NEW t \in Tabs, TabStep(t)
    PROVE  TypeInv'
<1>1. CASE NewGame(t)
    BY <1>1, TypeNewGame DEF NewGame, SeatInv, Seated
<1> QED
    BY <1>1, TypeCreateSeek, TypeListSeek, TypeAccept, TypeDecline, TypeDeclined,
       TypeNewGameFails, TypeStarted, TypeAutoPair, TypeAutoSeek, TypeRematch DEF TabStep

LEMMA SeatElse ==
    ASSUME TypeInv, SeatInv, Else
    PROVE  SeatInv'
BY ElseUnchanged, SeatsKept DEF tabVars

\* Every reachable state satisfies the inductive invariant.
THEOREM Invariant == Spec => []IInv
<1>1. ASSUME Init PROVE IInv
    <2>1. AcceptedHasGame
        BY <1>1 DEF Init, AcceptedHasGame
    <2> QED
        BY <1>1, <2>1, TypeInit, SeatInit, RematchInit DEF IInv
<1>2. ASSUME IInv, Next PROVE IInv'
    <2>1. ASSUME NEW t \in Tabs, TabStep(t) PROVE IInv'
        BY <1>2, <2>1, TypeTab, SeatTab, StatusTab, RematchTab DEF IInv
    <2>2. CASE Else
        BY <1>2, <2>2, TypeElse, SeatElse, StatusElse, RematchElse DEF IInv
    <2> QED
        BY <1>2, <2>1, <2>2, NextIsTabOrElse
<1>3. ASSUME IInv, UNCHANGED vars PROVE IInv'
    BY <1>3 DEF IInv, TypeInv, TypeOK, Unmade, Mated, SeatInv, Seated, OneSeat, NotYet,
       Played, AcceptedHasGame, RematchInv, Asked, Held, Unnoted, Noted, SoleRematch,
       RematchGame, vars, userVars, seekVars, gameVars, rematchVars, tabVars
<1> QED
    BY <1>1, <1>2, <1>3, PTL DEF Spec

\* The lobby is well-typed; in particular nobody sits on both sides of a seek
\* (join_seek: seek_yourself).
THEOREM TypeCorrect == Spec => []TypeOK
<1>1. IInv => TypeOK
    BY DEF IInv, TypeInv
<1> QED
    BY <1>1, Invariant, PTL

\* One game at most is made of a seek, however its acceptance, automatic
\* pairing and withdrawal overlap (join_seek, new_game).
THEOREM OneGamePerSeekHolds == Spec => []OneGamePerSeek
<1>1. ASSUME Init PROVE OneGamePerSeek
    BY <1>1 DEF Init, OneGamePerSeek
<1>2. ASSUME IInv, OneGamePerSeek, [Next]_vars PROVE OneGamePerSeek'
    <2>1. ASSUME NEW t \in Tabs, NewGame(t) PROVE OneGamePerSeek'
        <3>1. \A g \in Games : gseek[g] # seek[t]
            BY <1>2, <2>1 DEF IInv, SeatInv, NotYet, NewGame
        <3> QED
            BY <1>2, <2>1, <3>1 DEF OneGamePerSeek, NewGame, IInv, TypeInv, TypeOK
    <2>2. ASSUME NEW t \in Tabs, TabStep(t), ~NewGame(t) PROVE UNCHANGED gseek
        BY <2>2 DEF TabStep, CreateSeek, ListSeek, Accept, Decline, Declined, NewGameFails,
           Started, AutoPair, AutoSeek, Rematch, RematchSeek, gameVars
    <2>3. CASE UNCHANGED gseek
        BY <1>2, <2>3 DEF OneGamePerSeek
    <2> QED
        BY <1>2, <2>1, <2>2, <2>3, NextIsTabOrElse, ElseUnchanged DEF vars, gameVars
<1> QED
    BY <1>1, <1>2, Invariant, PTL DEF Spec

\* A challenge that is marked as accepted has a game, and one that has a game is
\* never open or cancelled again: no timer, return or cancellation of its creator
\* overwrites the status (set_challenge_status).
THEOREM AcceptedHasGameHolds == Spec => []AcceptedHasGame
<1>1. IInv => AcceptedHasGame
    BY DEF IInv
<1> QED
    BY <1>1, Invariant, PTL

\* A game has one rematch at most, whatever the two players ask for meanwhile
\* (handle_rematch).
THEOREM OneRematchHolds == Spec => []OneRematch
<1>1. ASSUME IInv PROVE OneRematch
    <2> DEFINE rematches == {g \in Games : gseek[g] # None /\ kind[gseek[g]] = "rematch"}
    <2>1. \A g, h \in rematches : g = h
        BY <1>1 DEF IInv, RematchInv, SoleRematch, RematchGame
    <2>2. CASE rematches = {}
        BY <2>2, FS_EmptySet DEF OneRematch
    <2>3. CASE rematches # {}
        <3>1. PICK g : rematches = {g}
            BY <2>1, <2>3
        <3>2. Cardinality({g}) = 1
            BY FS_Singleton
        <3> QED
            BY <3>1, <3>2 DEF OneRematch
    <2> QED
        BY <2>2, <2>3
<1> QED
    BY <1>1, Invariant, PTL

=============================================================================
