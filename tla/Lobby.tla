------------------------------- MODULE Lobby -------------------------------
(***************************************************************************)
(* How two users come to a game: open seeks and direct challenges, the     *)
(* pool of automatic pairing, and the rematch of a finished game.  All of  *)
(* them end in join_seek() and new_game().                                 *)
(*                                                                         *)
(* A step is what a handler does up to the next await of the database;     *)
(* broadcasts are part of the step.  Whether two users suit each other     *)
(* (ratings, variants, time controls, blocks) and whether a game can be    *)
(* made of their seek is left open.  Left out: bots, invitations by link,  *)
(* bughouse, correspondence, anonymous users, the limit of seeks, a second *)
(* lobby websocket of a user, a restart.                                   *)
(***************************************************************************)
EXTENDS Naturals, FiniteSets

CONSTANTS
    Users,
    Tabs,               \* the coroutines of the users, in the lobby or a round
    Owner,              \* whose tab it is
    Seekers, Pairers,   \* who makes open seeks, who uses the pool
    Challenges,         \* who challenges whom
    Leavers,            \* who leaves the lobby, and returns
    Rivals,             \* the two players of the finished game
    None,
    MaxSeeks, MaxGames  \* bounds: seeks and games that are ever made

Seeks == 1..MaxSeeks
Games == 1..MaxGames

ASSUME LobbyAssumption ==
    /\ MaxSeeks \in Nat /\ MaxGames \in Nat
    /\ Owner \in [Tabs -> Users]
    /\ Seekers \subseteq Users
    /\ Challenges \subseteq {pair \in Users \X Users : pair[1] # pair[2]}
    /\ Pairers \subseteq Users /\ Leavers \subseteq Users /\ Rivals \subseteq Users
    /\ None \notin Users \cup Tabs \cup Seeks \cup Games

VARIABLES
    online,             \* users with a lobby websocket
    pool, ready,        \* auto_pairing_users, and ready_for_auto_pairing
    playing,            \* game_in_progress of each user
    kind, creator, target, second,  \* of each seek; second is player2
    listed,             \* app_state.seeks
    status,             \* of a direct challenge
    pending,            \* open seeks of users who left the lobby
    gseek, over,        \* the seek each game was made of; games that ended
    lock, offers, rematch,          \* of the finished game; lock is move_lock
    pc, seek, mate      \* where a tab waits, with which seek or other user

userVars == <<online, pool, ready, playing>>
seekVars == <<kind, creator, target, second, listed, status, pending>>
gameVars == <<gseek, over>>
rematchVars == <<lock, offers, rematch>>
tabVars == <<pc, seek, mate>>
vars == <<userVars, seekVars, gameVars, rematchVars, tabVars>>

Active == {"created", "offline"}
Answered == {"canceled", "declined", "accepted"}

TypeOK ==
    /\ online \subseteq Users /\ pool \subseteq Users /\ ready \subseteq Users
    /\ playing \in [Users -> Games \cup {None}]
    /\ kind \in [Seeks -> {"none", "open", "challenge", "auto", "rematch"}]
    /\ creator \in [Seeks -> Users \cup {None}]
    /\ target \in [Seeks -> Users \cup {None}]
    /\ second \in [Seeks -> Users \cup {None}]
    /\ \A s \in Seeks : second[s] # None => second[s] # creator[s]
    /\ listed \subseteq Seeks /\ pending \subseteq Seeks
    /\ status \in [Seeks -> Active \cup Answered \cup {"none"}]
    /\ gseek \in [Games -> Seeks \cup {None}] /\ over \subseteq Games
    /\ lock \in Tabs \cup {None} /\ offers \subseteq Rivals
    /\ rematch \in Games \cup {None}
    /\ pc \in [Tabs -> {"idle", "newseek", "autoseek", "rematchseek",
                        "newgame", "insert", "decline"}]
    /\ seek \in [Tabs -> Seeks \cup {None}] /\ mate \in [Tabs -> Users \cup {None}]

Init ==
    /\ online = Users /\ pool = {} /\ ready = Users
    /\ playing = [u \in Users |-> None]
    /\ kind = [s \in Seeks |-> "none"]
    /\ creator = [s \in Seeks |-> None] /\ target = [s \in Seeks |-> None]
    /\ second = [s \in Seeks |-> None]
    /\ listed = {} /\ status = [s \in Seeks |-> "none"] /\ pending = {}
    /\ gseek = [g \in Games |-> None] /\ over = {}
    /\ lock = None /\ offers = {} /\ rematch = None
    /\ pc = [t \in Tabs |-> "idle"] /\ seek = [t \in Tabs |-> None]
    /\ mate = [t \in Tabs |-> None]

-----------------------------------------------------------------------------
(* Helpers *)

Goto(t, p) == pc' = [pc EXCEPT ![t] = p]

\* s is the next seek that is made.
Fresh(s) == kind[s] = "none" /\ \A other \in Seeks : other < s => kind[other] # "none"

\* The bound: there is room for a seek that is asked for now.
Room ==
    Cardinality({s \in Seeks : kind[s] # "none"})
        + Cardinality({t \in Tabs : pc[t] \in {"newseek", "autoseek", "rematchseek"}})
    < MaxSeeks

Made(s, k, u, v) ==
    /\ kind' = [kind EXCEPT ![s] = k]
    /\ creator' = [creator EXCEPT ![s] = u]
    /\ target' = [target EXCEPT ![s] = v]

Unlist(s) == listed' = listed \ {s} /\ pending' = pending \ {s}

Own(u, k) == {s \in listed : creator[s] = u /\ kind[s] = k}

Takes_Self(u, s) == second[s] = None

Takes_Occupied(u, s) == u # creator[s]

\* join_seek(): the second seat is free, and u is not the creator.
Takes(u, s) == u # creator[s] /\ second[s] = None

\* The seat is taken, and new_game() asks the database for an id.
Sit(t, u, s) ==
    /\ second' = [second EXCEPT ![s] = u]
    /\ seek' = [seek EXCEPT ![t] = s]
    /\ mate' = [mate EXCEPT ![t] = None]
    /\ Goto(t, "newgame")

\* seek_yourself or seek_occupied.
StandAside(t) ==
    /\ Goto(t, "idle")
    /\ mate' = [mate EXCEPT ![t] = None]
    /\ UNCHANGED <<second, seek>>

\* remove_from_auto_pairings()
LeavePool(us) == pool' = pool \ us /\ ready' = ready \ us

-----------------------------------------------------------------------------
(* The lobby *)

\* create_seek(): an active challenge to the same user is replaced.
CreateSeek(t, v) ==
    LET u == Owner[t]
        duplicates == {s \in Own(u, "challenge") : target[s] = v /\ status[s] \in Active}
    IN
    /\ pc[t] = "idle" /\ u \in online /\ playing[u] = None /\ Room
    /\ IF v = None THEN u \in Seekers ELSE <<u, v>> \in Challenges
    /\ IF duplicates = {} THEN UNCHANGED status
       ELSE \E s \in duplicates :
              /\ \A other \in duplicates : s <= other
              /\ status' = [status EXCEPT ![s] = "canceled"]
    /\ Goto(t, "newseek")
    /\ mate' = [mate EXCEPT ![t] = v]
    /\ UNCHANGED <<userVars, kind, creator, target, second, listed, pending, gameVars,
                   rematchVars, seek>>

\* The seek is listed, and may suit one who waits in the pool.
ListSeek(t) ==
    /\ pc[t] = "newseek"
    /\ \E s \in Seeks :
        LET u == Owner[t]
            v == mate[t]
            suited == IF u \in online
                      THEN {p \in (pool \cap ready) \ {u} : v \in {None, p}} ELSE {}
        IN
        /\ Fresh(s)
        /\ Made(s, IF v = None THEN "open" ELSE "challenge", u, v)
        /\ listed' = listed \cup {s}
        /\ status' = [status EXCEPT ![s] = IF v = None THEN "none" ELSE "created"]
        /\ \/ StandAside(t) /\ UNCHANGED <<pool, ready>>
           \/ \E p \in suited : LeavePool({u, p}) /\ Sit(t, p, s)
    /\ UNCHANGED <<online, playing, pending, gameVars, rematchVars>>

\* challenge_seek_accept() serves the target, on any page.  handle_accept_seek()
\* serves whoever has no game, a challenge to another user included: it asks the
\* database for a game in progress only when there is one.
Accept(t, s) ==
    /\ pc[t] = "idle" /\ s \in listed
    /\ kind[s] = "open" \/ (kind[s] = "challenge" /\ status[s] \in Active)
    /\ target[s] = Owner[t] \/ (Owner[t] \in online /\ playing[Owner[t]] = None)
    /\ Takes(Owner[t], s)
    /\ Sit(t, Owner[t], s)
    /\ UNCHANGED <<userVars, kind, creator, target, listed, status, pending, gameVars,
                   rematchVars>>

\* new_game() goes on: no await until the game is inserted.
NewGame(t) ==
    LET s == seek[t] IN
    /\ pc[t] = "newgame"
    /\ \E g \in Games :
        /\ gseek[g] = None /\ \A other \in Games : other < g => gseek[other] # None
        /\ gseek' = [gseek EXCEPT ![g] = s]
        /\ playing' = [u \in Users |-> IF u \in {creator[s], second[s]} THEN g
                                       ELSE playing[u]]
    /\ IF kind[s] = "challenge"
       THEN status' = [status EXCEPT ![s] = "accepted"] /\ UNCHANGED <<listed, pending>>
       ELSE Unlist(s) /\ UNCHANGED status
    /\ Goto(t, "insert")
    /\ UNCHANGED <<online, pool, ready, kind, creator, target, second, over, rematchVars,
                   seek, mate>>

\* No game can be made of the seek: it is gone, its second seat stays taken, and
\* no rematch is noted.  A FEN that is refused before the id was asked for is
\* refused here.
NewGameFails(t) ==
    /\ pc[t] = "newgame"
    /\ Unlist(seek[t])
    /\ lock' = IF lock = t THEN None ELSE lock
    /\ Goto(t, "idle")
    /\ seek' = [seek EXCEPT ![t] = None]
    /\ UNCHANGED <<userVars, kind, creator, target, second, status, gameVars, offers,
                   rematch, mate>>

\* The game is in the database; the players are told.  handle_rematch() notes
\* the game and releases the lock.
Started(t) ==
    /\ pc[t] = "insert"
    /\ Goto(t, "idle")
    /\ seek' = [seek EXCEPT ![t] = None]
    /\ IF lock = t
       THEN lock' = None /\ \E g \in Games : gseek[g] = seek[t] /\ rematch' = g
       ELSE UNCHANGED <<lock, rematch>>
    /\ UNCHANGED <<userVars, seekVars, gameVars, offers, mate>>

\* challenge_seek_decline(): the target may decline, but the reason is in a body
\* that is still to be read ...
Decline(t, s) ==
    /\ pc[t] = "idle" /\ s \in listed
    /\ kind[s] = "challenge" /\ target[s] = Owner[t] /\ status[s] \in Active
    /\ Goto(t, "decline")
    /\ seek' = [seek EXCEPT ![t] = s]
    /\ UNCHANGED <<userVars, seekVars, gameVars, rematchVars, mate>>

\* ... and when it is read, or turns out to be no form, nothing is looked at again.
Declined(t) ==
    /\ pc[t] = "decline"
    /\ \/ status' = [status EXCEPT ![seek[t]] = "declined"]
       \/ UNCHANGED status
    /\ Goto(t, "idle")
    /\ seek' = [seek EXCEPT ![t] = None]
    /\ UNCHANGED <<userVars, kind, creator, target, second, listed, pending, gameVars,
                   rematchVars, mate>>

\* handle_delete_seek(), challenge_seek_cancel()
Delete(s) == kind[s] = "open" /\ s \in listed /\ Unlist(s) /\ UNCHANGED status

Cancel(s) ==
    /\ kind[s] = "challenge" /\ s \in listed /\ status[s] \in Active
    /\ status' = [status EXCEPT ![s] = "canceled"]
    /\ UNCHANGED <<listed, pending>>

\* A challenge that has expired, or was answered and is dismissed.
Expire(s) == kind[s] = "challenge" /\ s \in listed /\ Unlist(s) /\ UNCHANGED status

Withdraw(s) ==
    /\ Delete(s) \/ Cancel(s) \/ Expire(s)
    /\ UNCHANGED <<userVars, kind, creator, target, second, gameVars, rematchVars, tabVars>>

-----------------------------------------------------------------------------
(* Automatic pairing *)

\* Two users of the pool: their seek needs an id.
PairWithUser(t, u) ==
    /\ Room
    /\ pool' = pool \cup {u} /\ ready' = ready \cup {u}
    /\ \E p \in (pool \cap ready) \ {u} : mate' = [mate EXCEPT ![t] = p]
    /\ Goto(t, "autoseek")
    /\ UNCHANGED <<second, seek>>

\* find_matching_seek() looks at neither the seats nor the status of a seek.
PairWithSeek(t, u) ==
    \E s \in listed :
        /\ kind[s] \in {"open", "challenge"} /\ creator[s] # u /\ target[s] \in {None, u}
        /\ IF creator[s] \in online
           THEN /\ pool' = pool \ {u, creator[s]} /\ ready' = ready \ {u, creator[s]}
                /\ IF Takes(u, s) THEN Sit(t, u, s) ELSE StandAside(t)
           ELSE /\ pool' = pool \cup {u} /\ ready' = ready \cup {u}
                /\ StandAside(t)

Wait(t, u) ==
    /\ pool' = pool \cup {u} /\ ready' = ready \cup {u}
    /\ StandAside(t)

\* handle_create_auto_pairing(); while it is on, the page offers only to cancel it.
AutoPair(t) ==
    LET u == Owner[t] IN
    /\ pc[t] = "idle" /\ u \in (Pairers \cap online) \ pool /\ playing[u] = None
    /\ PairWithUser(t, u) \/ PairWithSeek(t, u) \/ Wait(t, u)
    /\ UNCHANGED <<online, playing, kind, creator, target, listed, status, pending,
                   gameVars, rematchVars>>

\* auto_pair() has the id: only now do the two leave the pool.
AutoSeek(t) ==
    /\ pc[t] = "autoseek"
    /\ LeavePool({Owner[t], mate[t]})
    /\ \E s \in Seeks :
        /\ Fresh(s)
        /\ Made(s, "auto", mate[t], None)
        /\ Sit(t, Owner[t], s)
    /\ UNCHANGED <<online, playing, listed, status, pending, gameVars, rematchVars>>

CancelAutoPairing(u) ==
    /\ u \in pool
    /\ LeavePool({u})
    /\ UNCHANGED <<online, playing, seekVars, gameVars, rematchVars, tabVars>>

-----------------------------------------------------------------------------
(* Coming and going *)

\* finally_logic() of the lobby websocket, which has no message in work.
Leave(u) ==
    /\ u \in online \cap Leavers
    /\ \A t \in Tabs : Owner[t] = u => pc[t] \in {"idle", "decline"}
    /\ online' = online \ {u} /\ ready' = ready \ {u}
    /\ pending' = pending \cup Own(u, "open")
    /\ UNCHANGED <<pool, playing, kind, creator, target, second, listed, status, gameVars,
                   rematchVars, tabVars>>

\* send_lobby_user_connected()
Return(u) ==
    /\ u \notin online
    /\ online' = online \cup {u} /\ ready' = ready \cup {u}
    /\ pending' = pending \ Own(u, "open")
    /\ status' = [s \in Seeks |-> IF s \in Own(u, "challenge") /\ status[s] = "offline"
                                  THEN "created" ELSE status[s]]
    /\ UNCHANGED <<pool, playing, kind, creator, target, second, listed, gameVars,
                   rematchVars, tabVars>>

\* delete_pending_seek() and delete_pending_auto_pairing() have slept.
PendingTimeout(u) ==
    /\ \/ /\ \E s \in pending : creator[s] = u /\ Unlist(s)
          /\ UNCHANGED pool
       \/ /\ u \in pool \ ready
          /\ pool' = pool \ {u}
          /\ UNCHANGED <<listed, pending>>
    /\ UNCHANGED <<online, ready, playing, kind, creator, target, second, status,
                   gameVars, rematchVars, tabVars>>

WentOffline_Any(s) == status[s] # "offline"

WentOffline(s) == status[s] = "created"

\* mark_offline() of schedule_direct_challenge_offline()
MarkOffline(u) ==
    LET own == {s \in Own(u, "challenge") : WentOffline(s)} IN
    /\ u \notin online /\ own # {}
    /\ status' = [s \in Seeks |-> IF s \in own THEN "offline" ELSE status[s]]
    /\ UNCHANGED <<userVars, kind, creator, target, second, listed, pending, gameVars,
                   rematchVars, tabVars>>

\* The end of a game frees both players, whatever they have started meanwhile.
EndGame(g) ==
    /\ gseek[g] # None /\ g \notin over
    /\ over' = over \cup {g}
    /\ playing' = [u \in Users |-> IF u \in {creator[gseek[g]], second[gseek[g]]}
                                   THEN None ELSE playing[u]]
    /\ UNCHANGED <<online, pool, ready, seekVars, gseek, rematchVars, tabVars>>

-----------------------------------------------------------------------------
(* The rematch: handle_rematch() *)

LockFree_Always == TRUE

LockFree == lock = None

\* An offer, or the answer to the offer of the opponent.
Rematch(t) ==
    LET u == Owner[t] IN
    /\ pc[t] = "idle" /\ u \in Rivals
    /\ LockFree /\ rematch = None
    /\ IF offers \ {u} # {}
       THEN /\ Room
            /\ lock' = t
            /\ Goto(t, "rematchseek")
            /\ UNCHANGED offers
       ELSE /\ offers' = offers \cup {u}
            /\ UNCHANGED <<lock, pc>>
    /\ UNCHANGED <<userVars, seekVars, gameVars, rematch, seek, mate>>

RematchSeek(t) ==
    /\ pc[t] = "rematchseek"
    /\ \E s \in Seeks, p \in Rivals \ {Owner[t]} :
        /\ Fresh(s)
        /\ Made(s, "rematch", Owner[t], None)
        /\ listed' = listed \cup {s}
        /\ Sit(t, p, s)
    /\ UNCHANGED <<userVars, status, pending, gameVars, rematchVars>>

-----------------------------------------------------------------------------

TabStep(t) ==
    \/ \E v \in Users \cup {None} : CreateSeek(t, v)
    \/ ListSeek(t) \/ \E s \in Seeks : Accept(t, s) \/ Decline(t, s)
    \/ Declined(t) \/ NewGame(t) \/ NewGameFails(t) \/ Started(t)
    \/ AutoPair(t) \/ AutoSeek(t)
    \/ Rematch(t) \/ RematchSeek(t)

Next ==
    \/ \E t \in Tabs : TabStep(t)
    \/ \E s \in Seeks : Withdraw(s)
    \/ \E u \in Users : CancelAutoPairing(u) \/ Leave(u) \/ Return(u)
                        \/ PendingTimeout(u) \/ MarkOffline(u)
    \/ \E g \in Games : EndGame(g)

Spec == Init /\ [][Next]_vars

-----------------------------------------------------------------------------
(* Properties *)

\* However accepting, automatic pairing and withdrawal of a seek overlap while
\* new_game() waits for an id, one game at most is made of it.
OneGamePerSeek ==
    \A g, h \in Games : gseek[g] # None /\ gseek[g] = gseek[h] => g = h

\* A challenge that is marked as accepted has a game; and of a challenge that has
\* one, no absence, return or cancellation of its creator makes an open or a
\* cancelled one again: its target alone can still overwrite the mark.
AcceptedHasGame ==
    \A s \in Seeks : kind[s] = "challenge" =>
        /\ status[s] = "accepted" => \E g \in Games : gseek[g] = s
        /\ (\E g \in Games : gseek[g] = s) => status[s] \in {"accepted", "declined"}

\* "WaitingForOpponent --> TerminalWithoutGame: canceled / declined / expired"
TerminalWithoutGame ==
    \A s \in Seeks : status[s] \in {"canceled", "declined"} =>
        \A g \in Games : gseek[g] # s

\* A finished game has one rematch at most, also if both players ask at a time.
OneRematch ==
    Cardinality({g \in Games : gseek[g] # None /\ kind[gseek[g]] = "rematch"}) <= 1

\* "Prevent users to start new games if they have an unfinished one"
OneGameAtATime ==
    \A u \in Users :
        Cardinality({g \in Games \ over : gseek[g] # None
                        /\ u \in {creator[gseek[g]], second[gseek[g]]}}) <= 1

=============================================================================
