--------------------------- MODULE GameCacheProof ---------------------------
(***************************************************************************)
(* What GameCache promises for any number of sockets and instances: until  *)
(* the game ends there is one instance of it, its result is applied once   *)
(* and its moves are kept, unless an instance is built late.               *)
(*                                                                         *)
(* The inductive invariant says why loading is shared: until an instance   *)
(* is over, a live one is the cached one and agrees with the document, and *)
(* whoever still holds a document or builds from one, while nothing is     *)
(* cached, holds the current one.                                          *)
(***************************************************************************)
EXTENDS GameCache, FiniteSetTheorems, TLAPS

AllPcs == SocketPcs \cup {"none", "run", "done"}

Typed ==
    /\ st \in [Games -> {"none", "live", "over"}]
    /\ moves \in [Games -> 0..MaxMoves]
    /\ diverged \in [Games -> BOOLEAN]
    /\ entry \in Games \cup {None}
    /\ loading \in Docs \cup {None}
    /\ removal \in [Games -> {"none", "sleep", "evict"}]
    /\ armed \in Games \cup {None}
    /\ doc \in Docs
    /\ effects \in Nat
    /\ pc \in [Procs -> AllPcs]
    /\ game \in [Sockets -> Games \cup {None}]
    /\ snap \in [Loaders -> Docs \cup {None}]
    /\ got \in [Procs -> Games \cup {None}]
    /\ reborn \in BOOLEAN

\* What a coroutine has in hand where it waits.
InHand ==
    /\ \A p \in Loaders : pc[p] = "found" => snap[p] \in Docs
    /\ \A p \in Loaders : pc[p] = "built" => got[p] \in Games /\ st[got[p]] # "none"
    /\ \A c \in Sockets : pc[c] \in EndPcs \cup {"opened", "joined"} => game[c] \in Games
    /\ \A p \in Games : pc[p] \notin LoadPcs
    /\ pc[Restorer] \notin EndPcs \cup {"joined", "opened", "run"}

TypeInv == Typed /\ InHand

LEMMA Apart ==
    /\ None \notin Procs /\ None \notin Games /\ None \notin Sockets /\ None \notin Loaders
    /\ \A c \in Sockets : c \notin Games /\ c # Restorer /\ c \in Loaders /\ c \in Procs
    /\ Restorer \in Loaders /\ Restorer \in Procs /\ Restorer \notin Games
    /\ \A g \in Games : g \in Procs /\ g \notin Loaders
    /\ \A p \in Loaders : p \in Procs /\ (p \in Sockets \/ p = Restorer)
BY NamesAssumption DEF Procs, Loaders

-----------------------------------------------------------------------------
(* Types *)

LEMMA TypeInit == ASSUME Init PROVE TypeInv
<1>1. /\ entry \in Games \cup {None} /\ st \in [Games -> {"none", "live", "over"}]
      /\ doc \in Docs
    BY MaxMovesAssumption DEF Init, Docs
<1>2. moves \in [Games -> 0..MaxMoves]
    BY MaxMovesAssumption DEF Init
<1>3. pc \in [Procs -> {"away", "run", "none", "done"}]
    BY DEF Init
<1>4. /\ \A c \in Sockets : pc[c] = "away"
      /\ pc[Restorer] \in {"away", "done"} /\ \A g \in Games : pc[g] \in {"run", "none"}
    BY Apart DEF Init
<1>5. Typed
    BY <1>1, <1>2, <1>3 DEF Init, Typed, AllPcs, SocketPcs
<1>6. InHand
    BY <1>3, <1>4, Apart DEF InHand, LoadPcs, EndPcs
<1> QED
    BY <1>5, <1>6 DEF TypeInv

LEMMA TypeReturns ==
    ASSUME TypeInv, NEW p \in Loaders, NEW g \in Games, NEW e \in Games \cup {None},
           pc[p] \in LoadPcs \cup {"away"}, st[g] # "none", LoadGameReturns(p, g, e),
           UNCHANGED <<st, moves, diverged, loading, doc, effects, reborn>>,
           removal' \in [Games -> {"none", "sleep", "evict"}], armed' \in Games \cup {None},
           \/ UNCHANGED snap
           \/ snap' = [snap EXCEPT ![p] = None],
           \/ UNCHANGED got
           \/ got' = [got EXCEPT ![p] = None]
    PROVE  TypeInv'
<1> USE Apart DEF LoadGameReturns, TypeInv
<1>1. Typed'
    BY DEF Typed, AllPcs, SocketPcs, LoadPcs, EndPcs
<1>2. InHand'
    BY DEF Typed, InHand, LoadPcs, EndPcs
<1> QED
    BY <1>1, <1>2

LEMMA TypeOpen ==
    ASSUME TypeInv, NEW c \in Sockets, Open(c), entry # None => st[entry] # "none"
    PROVE  TypeInv'
<1>1. CASE entry # None
    <2>1. entry \in Games
        BY <1>1 DEF TypeInv, Typed
    <2> QED
        BY <1>1, <2>1, Apart, TypeReturns
           DEF Open, TypeInv, Typed, instVars, dbVars
<1>2. CASE entry = None
    BY <1>2, Apart DEF Open, TypeInv, Typed, InHand, AllPcs, SocketPcs, LoadPcs, EndPcs, instVars, dbVars
<1> QED
    BY <1>1, <1>2

LEMMA TypeRead ==
    ASSUME TypeInv, RestoreRead \/ (\E c \in Sockets : FindServed(c))
    PROVE  TypeInv'
BY Apart DEF RestoreRead, FindServed, TypeInv, Typed, InHand, AllPcs, SocketPcs, LoadPcs,
   EndPcs, instVars, cacheVars, dbVars

LEMMA TypeLoadFromDoc ==
    ASSUME TypeInv, NEW p \in Loaders, LoadFromDoc(p), entry # None => st[entry] # "none"
    PROVE  TypeInv'
<1>1. CASE entry # None
    <2>1. entry \in Games
        BY <1>1 DEF TypeInv, Typed
    <2> QED
        BY <1>1, <2>1, Apart, TypeReturns
           DEF LoadFromDoc, TypeInv, Typed, instVars, dbVars, LoadPcs
<1>2. CASE entry = None
    BY <1>2, Apart DEF LoadFromDoc, TypeInv, Typed, InHand, AllPcs, SocketPcs, LoadPcs,
       EndPcs, instVars, dbVars
<1> QED
    BY <1>1, <1>2

LEMMA TypeBuild ==
    ASSUME TypeInv, Build
    PROVE  TypeInv'
<1>1. loading \in Docs /\ loading.s \in {"live", "over"} /\ loading.m \in 0..MaxMoves
    BY DEF TypeInv, Typed, Build, Docs
<1>2. PICK g \in Games :
        /\ st[g] = "none"
        /\ st' = [st EXCEPT ![g] = loading.s]
        /\ moves' = [moves EXCEPT ![g] = loading.m]
        /\ entry' = IF loading.s = "live" THEN g ELSE entry
        /\ pc' = [p \in Procs |-> IF p = g THEN "run"
                                  ELSE IF pc[p] = "shield" THEN "built" ELSE pc[p]]
        /\ got' = [p \in Procs |-> IF pc[p] = "shield" THEN g ELSE got[p]]
    BY DEF Build
<1>3. Typed'
    BY <1>1, <1>2 DEF Build, TypeInv, Typed, dbVars, AllPcs, SocketPcs, LoadPcs
<1>4. InHand'
    BY <1>1, <1>2, Apart DEF Build, TypeInv, Typed, InHand, LoadPcs, EndPcs
<1> QED
    BY <1>3, <1>4 DEF TypeInv

LEMMA ScheduleTyped ==
    ASSUME Typed, NEW g \in Games, Schedule(g)
    PROVE  removal' \in [Games -> {"none", "sleep", "evict"}] /\ armed' \in Games \cup {None}
BY DEF Typed, Schedule

LEMMA TypeLoadReturned ==
    ASSUME TypeInv, NEW p \in Loaders, LoadReturned(p), entry # None => st[entry] # "none"
    PROVE  TypeInv'
<1>1. got[p] \in Games /\ st[got[p]] # "none" /\ pc[p] = "built"
    BY DEF LoadReturned, TypeInv, InHand
<1>2. CASE LoadGameReturns(p, got[p], got[p]) /\ Schedule(got[p])
    BY <1>1, <1>2, ScheduleTyped, TypeReturns
       DEF LoadReturned, TypeInv, instVars, dbVars, LoadPcs
<1>3. CASE entry # None /\ LoadGameReturns(p, entry, entry) /\ UNCHANGED <<removal, armed>>
    BY <1>1, <1>3, TypeReturns DEF LoadReturned, TypeInv, Typed, instVars, dbVars, LoadPcs
<1>4. CASE LoadGameReturns(p, got[p], entry) /\ UNCHANGED <<removal, armed>>
    BY <1>1, <1>4, TypeReturns DEF LoadReturned, TypeInv, Typed, instVars, dbVars, LoadPcs
<1> QED
    BY <1>2, <1>3, <1>4 DEF LoadReturned

LEMMA TypeSocket ==
    ASSUME TypeInv, NEW c \in Sockets, Join(c) \/ GiveUp(c) \/ Leave(c)
    PROVE  TypeInv'
BY Apart DEF Join, GiveUp, Leave, TypeInv, Typed, InHand, AllPcs, SocketPcs, LoadPcs,
   EndPcs, instVars, cacheVars, dbVars, localVars

LEMMA TypeMove ==
    ASSUME TypeInv, NEW c \in Sockets, Move(c)
    PROVE  TypeInv'
<1>1. game[c] \in Games /\ moves[game[c]] \in 0..MaxMoves /\ moves[game[c]] + 1 \in 0..MaxMoves
    BY MaxMovesAssumption DEF Move, Playing, TypeInv, Typed, InHand
<1>2. doc' \in Docs
    BY <1>1 DEF Move, TypeInv, Typed, Docs
<1> QED
    BY <1>1, <1>2 DEF Move, TypeInv, Typed, InHand, cacheVars, localVars

LEMMA TypeStaleMove ==
    ASSUME TypeInv, NEW c \in Sockets, StaleMove(c)
    PROVE  TypeInv'
<1>1. /\ game[c] \in Games /\ moves[game[c]] \in 0..MaxMoves
      /\ moves[game[c]] + 1 \in 0..MaxMoves
    BY MaxMovesAssumption DEF StaleMove, Playing, TypeInv, Typed, InHand
<1>2. Typed'
    BY <1>1, Apart DEF StaleMove, StopCountdown, TypeInv, Typed, AllPcs, SocketPcs, LoadPcs,
       dbVars, localVars
<1>3. InHand'
    BY <1>1, Apart DEF StaleMove, StopCountdown, TypeInv, Typed, InHand, LoadPcs, EndPcs,
       localVars
<1> QED
    BY <1>2, <1>3 DEF TypeInv

LEMMA TypeEndGame ==
    ASSUME TypeInv, NEW p \in Sockets \cup Games, EndGame(p)
    PROVE  TypeInv'
<1>1. InstOf(p) \in Games
    BY Apart DEF EndGame, InstOf, Playing, TypeInv, Typed, InHand
<1>2. Typed'
    BY <1>1, Apart DEF EndGame, StopCountdown, TypeInv, Typed, AllPcs, SocketPcs, EndPcs,
       cacheVars, dbVars, localVars
<1>3. InHand'
    BY <1>1, Apart DEF EndGame, StopCountdown, Playing, TypeInv, Typed, InHand, LoadPcs,
       EndPcs, localVars
<1> QED
    BY <1>2, <1>3 DEF TypeInv

LEMMA InstIsGame ==
    ASSUME TypeInv, NEW p \in Sockets \cup Games, pc[p] \in EndPcs
    PROVE  InstOf(p) \in Games
BY DEF InstOf, TypeInv, InHand

LEMMA TypeSave ==
    ASSUME TypeInv, NEW p \in Sockets \cup Games, SaveSchedule(p) \/ SaveWrite(p)
    PROVE  TypeInv'
<1>1. InstOf(p) \in Games /\ moves[InstOf(p)] \in 0..MaxMoves /\ p \in Procs
    BY InstIsGame, Apart DEF SaveSchedule, SaveWrite, EndPcs, TypeInv, Typed
<1>2. CASE SaveSchedule(p)
    BY <1>1, <1>2, ScheduleTyped, Apart DEF SaveSchedule, TypeInv, Typed, InHand, AllPcs,
       SocketPcs, EndPcs, LoadPcs, instVars, dbVars, localVars
<1>3. CASE SaveWrite(p)
    BY <1>1, <1>3, Apart DEF SaveWrite, TypeInv, Typed, InHand, AllPcs, SocketPcs, EndPcs,
       LoadPcs, Docs, instVars, cacheVars, localVars
<1> QED
    BY <1>2, <1>3

LEMMA TypeMaybeRemove ==
    ASSUME TypeInv, NEW p \in Sockets \cup Games, MaybeRemove(p)
    PROVE  TypeInv'
<1>1. Typed'
    BY Apart DEF MaybeRemove, Gone, Forget, TypeInv, Typed, AllPcs, SocketPcs, EndPcs,
       instVars, dbVars
<1>2. InHand'
    BY Apart DEF MaybeRemove, Gone, Forget, TypeInv, Typed, InHand, LoadPcs, EndPcs, instVars
<1> QED
    BY <1>1, <1>2 DEF TypeInv

LEMMA TypeEvict ==
    ASSUME TypeInv, (\E p \in Sockets \cup Games : EvictNow(p)) \/ (\E g \in Games : RemovalWakes(g) \/ RemovalEvicts(g))
    PROVE  TypeInv'
<1>1. ASSUME NEW p \in Sockets \cup Games, EvictNow(p) PROVE TypeInv'
    <2>1. InstOf(p) \in Games
        BY <1>1, InstIsGame DEF EvictNow, EndPcs
    <2>2. Typed'
        BY <1>1, <2>1, Apart DEF EvictNow, Gone, Forget, StopCountdown, TypeInv, Typed, AllPcs,
           SocketPcs, EndPcs, instVars, dbVars
    <2>3. InHand'
        BY <1>1, <2>1, Apart DEF EvictNow, Gone, Forget, StopCountdown, TypeInv, Typed, InHand,
           LoadPcs, EndPcs, instVars
    <2> QED
        BY <2>2, <2>3 DEF TypeInv
<1>2. ASSUME NEW g \in Games, RemovalWakes(g) PROVE TypeInv'
    BY <1>2, Apart DEF RemovalWakes, TypeInv, Typed, InHand, instVars, dbVars, localVars
<1>3. ASSUME NEW g \in Games, RemovalEvicts(g) PROVE TypeInv'
    BY <1>3, Apart DEF RemovalEvicts, StopCountdown, TypeInv, Typed, InHand, AllPcs, LoadPcs,
       EndPcs, instVars, dbVars, localVars
<1> QED
    BY <1>1, <1>2, <1>3

-----------------------------------------------------------------------------
(* One instance *)

NoneOver == \A g \in Games : st[g] # "over"

Saving(p) == pc[p] \in {"save_schedule", "save_write"}

\* Nothing is saved, removed or evicted before an instance is over.
EndInv ==
    /\ \A p \in Sockets \cup Games : Saving(p) => st[InstOf(p)] = "over"
    /\ \A p \in Sockets \cup Games : pc[p] = "evict" => ~NoneOver
    /\ \A g \in Games : removal[g] # "none" => ~NoneOver
    /\ effects # 0 => ~NoneOver

\* Until then a live instance is the cached one and agrees with the document.
LiveIsCached ==
    \A g \in Games : st[g] = "live" =>
        entry = g /\ ~diverged[g] /\ doc = [s |-> "live", m |-> moves[g]]

\* While nothing is cached, whoever has a document has the current one.
Current ==
    entry = None => /\ loading # None => loading = doc
                    /\ \A p \in Loaders : snap[p] # None => snap[p] = doc

Single ==
    NoneOver => /\ LiveIsCached
                /\ entry # None => st[entry] = "live"
                /\ Current
                /\ loading # None => entry = None

\* An instance that is not built has no moves of its own, and is not cached.
Unbuilt ==
    /\ \A g \in Games : st[g] = "none" => ~diverged[g]
    /\ entry # None => st[entry] # "none"

CacheInv == TypeInv /\ EndInv /\ Single /\ Unbuilt

LEMMA CacheInit == ASSUME Init PROVE CacheInv
<1>1. TypeInv
    BY TypeInit
<1>2. EndInv
    BY Apart DEF Init, EndInv, Saving
<1>3. Single /\ Unbuilt
    BY DEF Init, Single, LiveIsCached, Current, Unbuilt
<1> QED
    BY <1>1, <1>2, <1>3 DEF CacheInv

\* A step that touches neither the instances nor what is being saved or removed.
LEMMA EndKept ==
    ASSUME TypeInv, EndInv, UNCHANGED <<st, effects>>,
           \A g \in Games : removal'[g] # "none" => removal[g] # "none" \/ ~NoneOver,
           \A p \in Sockets \cup Games :
                /\ pc'[p] \in {"save_schedule", "save_write"} =>
                        Saving(p) /\ InstOf(p)' = InstOf(p)
                /\ pc'[p] = "evict" => pc[p] = "evict" \/ ~NoneOver
    PROVE  EndInv'
BY DEF TypeInv, Typed, EndInv, Saving, NoneOver

\* load_game() returns the cached instance, or one that nobody replaces.
LEMMA CacheReturns ==
    ASSUME CacheInv, TypeInv', NEW p \in Loaders, NEW g \in Games, NEW e \in Games \cup {None},
           pc[p] \in LoadPcs \cup {"away"}, LoadGameReturns(p, g, e),
           UNCHANGED <<instVars, loading, dbVars>>,
           \A h \in Games : removal'[h] # "none" => removal[h] # "none" \/ ~NoneOver,
           st[g] # "none", NoneOver => g = entry,
           e = None \/ st[e] # "none", NoneOver => e = entry,
           snap' = snap \/ snap' = [snap EXCEPT ![p] = None]
    PROVE  CacheInv'
<1> USE Apart DEF CacheInv, TypeInv, Typed
<1>1. EndInv'
    <2>1. \A q \in Sockets \cup Games :
            /\ pc'[q] \in {"save_schedule", "save_write"} =>
                    Saving(q) /\ InstOf(q)' = InstOf(q)
            /\ pc'[q] = "evict" => pc[q] = "evict"
        BY DEF LoadGameReturns, Saving, InstOf
    <2> QED
        BY <2>1, EndKept DEF instVars, dbVars
<1>2. Single'
    BY DEF Single, NoneOver, LiveIsCached, Current, LoadGameReturns, instVars, dbVars
<1>3. Unbuilt'
    BY DEF Unbuilt, LoadGameReturns, instVars
<1> QED
    BY <1>1, <1>2, <1>3

LEMMA CacheOpen ==
    ASSUME CacheInv, NEW c \in Sockets, Open(c)
    PROVE  CacheInv'
<1>1. TypeInv'
    BY TypeOpen DEF CacheInv, Unbuilt
<1>2. CASE entry # None
    <2>1. entry \in Games /\ st[entry] # "none"
        BY <1>2 DEF CacheInv, TypeInv, Typed, Unbuilt
    <2> QED
        BY <1>1, <1>2, <2>1, CacheReturns, Apart DEF Open
<1>3. CASE entry = None
    <2>1. EndInv'
        BY <1>3, EndKept, Apart
           DEF Open, CacheInv, TypeInv, Typed, Saving, InstOf, instVars, dbVars
    <2>2. Single' /\ Unbuilt'
        BY <1>3 DEF Open, CacheInv, Single, NoneOver, LiveIsCached, Current, Unbuilt, instVars, dbVars
    <2> QED
        BY <1>1, <2>1, <2>2 DEF CacheInv
<1> QED
    BY <1>2, <1>3

LEMMA CacheRead ==
    ASSUME CacheInv, RestoreRead \/ (\E c \in Sockets : FindServed(c))
    PROVE  CacheInv'
<1> USE Apart DEF RestoreRead, FindServed, CacheInv, TypeInv, Typed, instVars, cacheVars, dbVars
<1>1. TypeInv'
    BY TypeRead
<1>2. EndInv'
    BY EndKept DEF Saving, InstOf
<1>3. Single' /\ Unbuilt'
    BY DEF Single, NoneOver, LiveIsCached, Current, Unbuilt
<1> QED
    BY <1>1, <1>2, <1>3

LEMMA CacheLoadFromDoc ==
    ASSUME CacheInv, NEW p \in Loaders, LoadFromDoc(p)
    PROVE  CacheInv'
<1>1. TypeInv'
    BY TypeLoadFromDoc DEF CacheInv, Unbuilt
<1>2. CASE entry # None
    <2>1. entry \in Games /\ st[entry] # "none"
        BY <1>2 DEF CacheInv, TypeInv, Typed, Unbuilt
    <2> QED
        BY <1>1, <1>2, <2>1, CacheReturns, Apart DEF LoadFromDoc, LoadPcs
<1>3. CASE entry = None
    <2>1. EndInv'
        BY <1>3, EndKept, Apart
           DEF LoadFromDoc, CacheInv, TypeInv, Typed, Saving, InstOf, instVars, dbVars
    <2>2. Unbuilt'
        BY <1>3 DEF LoadFromDoc, CacheInv, Unbuilt, instVars
    <2>3. snap[p] \in Docs /\ snap[p] # None
        BY DocsAssumption, Apart DEF LoadFromDoc, CacheInv, TypeInv, InHand
    <2>4. Single'
        BY <1>3, <2>3 DEF LoadFromDoc, CacheInv, TypeInv, Typed, Single, NoneOver,
           LiveIsCached, Current, instVars, dbVars
    <2> QED
        BY <1>1, <2>1, <2>2, <2>4 DEF CacheInv
<1> QED
    BY <1>2, <1>3

\* Only a construction that nobody else has done is done.
LEMMA CacheBuild ==
    ASSUME CacheInv, Build
    PROVE  CacheInv'
<1>1. TypeInv'
    BY TypeBuild DEF CacheInv
<1>2. loading \in Docs /\ loading # None /\ loading.s \in {"live", "over"}
    BY DEF CacheInv, TypeInv, Typed, Build, Docs
<1>3. PICK g \in Games :
        /\ st[g] = "none"
        /\ st' = [st EXCEPT ![g] = loading.s]
        /\ moves' = [moves EXCEPT ![g] = loading.m]
        /\ entry' = IF loading.s = "live" THEN g ELSE entry
        /\ pc' = [p \in Procs |-> IF p = g THEN "run"
                                  ELSE IF pc[p] = "shield" THEN "built" ELSE pc[p]]
    BY DEF Build
<1>4. UNCHANGED <<diverged, removal, doc, effects, game, snap>> /\ loading' = None
    BY DEF Build, dbVars
<1>5. \A h \in Games : st'[h] = IF h = g THEN loading.s ELSE st[h]
    BY <1>3 DEF CacheInv, TypeInv, Typed
<1>6. ~NoneOver => ~NoneOver'
    BY <1>3, <1>5 DEF NoneOver
<1>7. EndInv'
    <2>1. \A p \in Sockets \cup Games : pc'[p] \in EndPcs => pc[p] = pc'[p] /\ InstOf(p)' = InstOf(p)
        BY <1>3, <1>4, Apart DEF InstOf, EndPcs
    <2>2. \A h \in Games : st[h] = "over" => st'[h] = "over"
        BY <1>3, <1>5
    <2>3. \A p \in Sockets \cup Games : Saving(p)' => st'[InstOf(p)'] = "over"
        BY <2>1, <2>2, InstIsGame DEF CacheInv, EndInv, Saving, EndPcs
    <2> QED
        BY <1>4, <1>6, <2>1, <2>3 DEF CacheInv, EndInv, EndPcs
<1>8. Unbuilt'
    BY <1>2, <1>3, <1>4, <1>5 DEF CacheInv, TypeInv, Typed, Unbuilt
<1>9. Single'
    <2>1. CASE loading.s = "over"
        BY <1>3, <1>5, <2>1 DEF Single, NoneOver
    <2>2. ASSUME NoneOver', loading.s = "live" PROVE Single'
        <3>1. NoneOver /\ entry = None /\ loading = doc
            BY <1>2, <1>6, <2>2 DEF CacheInv, Single, Current
        <3>2. \A h \in Games : st[h] # "live"
            BY <3>1, Apart DEF CacheInv, Single, LiveIsCached
        <3>3. doc = [s |-> "live", m |-> loading.m]
            BY <1>2, <2>2, <3>1 DEF Docs
        <3>4. entry' = g /\ moves'[g] = loading.m /\ ~diverged[g] /\ doc' = doc
            BY <1>3, <1>4, <2>2 DEF CacheInv, TypeInv, Typed, Unbuilt
        <3> QED
            BY <1>4, <1>5, <2>2, <3>2, <3>3, <3>4, Apart DEF Single, LiveIsCached, Current
    <2> QED
        BY <1>2, <2>1, <2>2 DEF Single
<1> QED
    BY <1>1, <1>7, <1>8, <1>9 DEF CacheInv

LEMMA CacheLoadReturned ==
    ASSUME CacheInv, NEW p \in Loaders, LoadReturned(p)
    PROVE  CacheInv'
<1>1. TypeInv'
    BY TypeLoadReturned DEF CacheInv, Unbuilt
<1>2. /\ got[p] \in Games /\ st[got[p]] # "none" /\ pc[p] \in LoadPcs
      /\ UNCHANGED <<instVars, loading, dbVars, snap>>
      /\ entry \in Games \cup {None} /\ (entry = None \/ st[entry] # "none")
    BY DEF LoadReturned, LoadPcs, CacheInv, TypeInv, Typed, InHand, Unbuilt
<1>3. CASE st[got[p]] = "over" /\ entry = None
    <2>1. LoadGameReturns(p, got[p], got[p]) /\ ~NoneOver
        BY <1>2, <1>3 DEF LoadReturned, NoneOver
    <2> QED
        BY <1>1, <1>2, <2>1, CacheReturns
<1>4. CASE st[got[p]] = "over" /\ entry # None
    <2>1. LoadGameReturns(p, entry, entry) /\ UNCHANGED <<removal, armed>>
        BY <1>4 DEF LoadReturned
    <2> QED
        BY <1>1, <1>2, <1>4, <2>1, CacheReturns
<1>5. CASE st[got[p]] = "live"
    <2>1. LoadGameReturns(p, got[p], entry) /\ UNCHANGED <<removal, armed>>
        BY <1>5 DEF LoadReturned
    <2>2. NoneOver => got[p] = entry
        BY <1>2, <1>5 DEF CacheInv, Single, LiveIsCached
    <2> QED
        BY <1>1, <1>2, <2>1, <2>2, CacheReturns
<1> QED
    BY <1>3, <1>4, <1>5 DEF LoadReturned

LEMMA CacheSocket ==
    ASSUME CacheInv, NEW c \in Sockets, Join(c) \/ GiveUp(c) \/ Leave(c)
    PROVE  CacheInv'
<1> USE Apart DEF Join, GiveUp, Leave, instVars, cacheVars, dbVars, localVars
<1>1. TypeInv'
    BY TypeSocket DEF CacheInv
<1>2. EndInv'
    BY EndKept DEF CacheInv, TypeInv, Typed, Saving, InstOf
<1>3. Single' /\ Unbuilt'
    BY DEF CacheInv, Single, NoneOver, LiveIsCached, Current, Unbuilt
<1> QED
    BY <1>1, <1>2, <1>3 DEF CacheInv

\* Until the game is over, a move is one of the cached instance.
LEMMA CacheMove ==
    ASSUME CacheInv, NEW c \in Sockets, Move(c)
    PROVE  CacheInv'
<1>1. TypeInv'
    BY TypeMove DEF CacheInv
<1>2. game[c] \in Games /\ st[game[c]] = "live" /\ moves[game[c]] \in Nat
    BY DEF Move, Playing, CacheInv, TypeInv, Typed, InHand
<1>3. EndInv'
    BY EndKept, Apart DEF Move, CacheInv, Saving, InstOf, cacheVars, localVars
<1>4. Unbuilt'
    BY <1>2 DEF Move, CacheInv, Unbuilt, cacheVars
<1>5. Single'
    <2> SUFFICES ASSUME NoneOver
                 PROVE  Single'
        BY DEF Single, NoneOver, Move
    <2>1. entry = game[c] /\ doc = [s |-> "live", m |-> moves[game[c]]] /\ loading = None
        BY <1>2, Apart DEF CacheInv, Single, LiveIsCached
    <2>2. \A h \in Games : st[h] = "live" => h = game[c]
        BY <2>1 DEF CacheInv, Single, LiveIsCached
    <2>3. doc' = [s |-> "live", m |-> moves[game[c]] + 1]
        BY <1>2, <2>1 DEF Move
    <2>4. moves'[game[c]] = moves[game[c]] + 1
        BY <1>2 DEF Move, CacheInv, TypeInv, Typed
    <2> QED
        BY <1>2, <2>1, <2>2, <2>3, <2>4, Apart
           DEF Move, CacheInv, Single, LiveIsCached, Current, cacheVars
<1> QED
    BY <1>1, <1>3, <1>4, <1>5 DEF CacheInv

\* Before the end of the game no move is stale.
LEMMA CacheStaleMove ==
    ASSUME CacheInv, NEW c \in Sockets, StaleMove(c)
    PROVE  CacheInv'
<1>1. TypeInv'
    BY TypeStaleMove DEF CacheInv
<1>2. game[c] \in Games /\ st[game[c]] = "live"
    BY DEF StaleMove, Playing, CacheInv, TypeInv, Typed, InHand
<1>3. EndInv'
    <2>1. \A q \in Sockets \cup Games :
            /\ pc'[q] \in {"save_schedule", "save_write"} =>
                    Saving(q) /\ InstOf(q)' = InstOf(q)
            /\ pc'[q] = "evict" => pc[q] = "evict"
        BY Apart DEF StaleMove, StopCountdown, Saving, InstOf, CacheInv, TypeInv, Typed, localVars
    <2> QED
        BY <2>1, EndKept DEF StaleMove, CacheInv, dbVars
<1>4. Unbuilt'
    BY <1>2 DEF StaleMove, CacheInv, TypeInv, Typed, Unbuilt
<1>5. Single'
    <2>1. ~NoneOver
        BY <1>2 DEF StaleMove, CacheInv, Single, LiveIsCached
    <2> QED
        BY <2>1 DEF StaleMove, Single, NoneOver
<1> QED
    BY <1>1, <1>3, <1>4, <1>5 DEF CacheInv

LEMMA CacheEndGame ==
    ASSUME CacheInv, NEW p \in Sockets \cup Games, EndGame(p)
    PROVE  CacheInv'
<1>1. TypeInv'
    BY TypeEndGame DEF CacheInv
<1>2. InstOf(p) \in Games /\ st'[InstOf(p)] = "over" /\ UNCHANGED game
    BY Apart DEF EndGame, InstOf, Playing, CacheInv, TypeInv, Typed, InHand, localVars
<1>3. ~NoneOver'
    BY <1>2 DEF NoneOver
<1>4. \A g \in Games : st[g] = "over" => st'[g] = "over"
    BY DEF EndGame, CacheInv, TypeInv, Typed
<1>5. \A q \in Sockets \cup Games : Saving(q)' => q = p \/ Saving(q)
    BY Apart DEF EndGame, StopCountdown, Saving, CacheInv, TypeInv, Typed
<1>6. EndInv'
    <2>1. \A q \in Sockets \cup Games : Saving(q)' => st'[InstOf(q)'] = "over"
        BY <1>2, <1>4, <1>5, InstIsGame
           DEF CacheInv, EndInv, InstOf, Saving, EndPcs
    <2> QED
        BY <1>3, <2>1 DEF EndInv
<1>7. Unbuilt' /\ Single'
    BY <1>2, <1>3 DEF EndGame, CacheInv, TypeInv, Typed, Unbuilt, Single, cacheVars
<1> QED
    BY <1>1, <1>6, <1>7 DEF CacheInv

\* Everything that ends or evicts comes after an instance is over.
LEMMA CacheFinish ==
    ASSUME CacheInv, TypeInv', UNCHANGED instVars, ~NoneOver,
           entry' \in {entry, None},
           \A q \in Sockets \cup Games :
                Saving(q)' => Saving(q) /\ InstOf(q)' = InstOf(q)
    PROVE  CacheInv'
<1>1. ~NoneOver'
    BY DEF NoneOver, instVars
<1>2. EndInv' /\ Single' /\ Unbuilt'
    BY <1>1 DEF CacheInv, EndInv, Single, Unbuilt, instVars
<1> QED
    BY <1>2 DEF CacheInv

LEMMA CacheSave ==
    ASSUME CacheInv, NEW p \in Sockets \cup Games, SaveSchedule(p) \/ SaveWrite(p)
    PROVE  CacheInv'
<1>1. TypeInv'
    BY TypeSave DEF CacheInv
<1>2. ~NoneOver
    BY InstIsGame DEF SaveSchedule, SaveWrite, CacheInv, EndInv, Saving, NoneOver, EndPcs
<1>3. \A q \in Sockets \cup Games : Saving(q)' => Saving(q) /\ InstOf(q)' = InstOf(q)
    BY Apart DEF SaveSchedule, SaveWrite, Saving, InstOf, CacheInv, TypeInv, Typed, localVars
<1>4. UNCHANGED instVars /\ entry' = entry
    BY DEF SaveSchedule, SaveWrite, cacheVars
<1> QED
    BY <1>1, <1>2, <1>3, <1>4, CacheFinish

LEMMA CacheMaybeRemove ==
    ASSUME CacheInv, NEW p \in Sockets \cup Games, MaybeRemove(p)
    PROVE  CacheInv'
<1>1. TypeInv'
    BY TypeMaybeRemove DEF CacheInv
<1>2. UNCHANGED <<instVars, entry, loading, armed, dbVars, snap, reborn>>
    BY DEF MaybeRemove
<1>3. CASE st[InstOf(p)] = "over"
    <2>1. ~NoneOver
        BY <1>3, InstIsGame DEF MaybeRemove, CacheInv, NoneOver, EndPcs
    <2>2. \A q \in Sockets \cup Games : Saving(q)' => Saving(q) /\ InstOf(q)' = InstOf(q)
        BY Apart DEF MaybeRemove, Gone, Forget, Saving, InstOf, CacheInv, TypeInv, Typed
    <2> QED
        BY <1>1, <1>2, <2>1, <2>2, CacheFinish
<1>4. CASE st[InstOf(p)] # "over"
    <2>1. pc' = Gone(p) /\ game' = Forget(p) /\ UNCHANGED <<got, removal>>
        BY <1>4 DEF MaybeRemove
    <2>2. \A q \in Sockets \cup Games :
            /\ pc'[q] \in {"save_schedule", "save_write"} =>
                    Saving(q) /\ InstOf(q)' = InstOf(q)
            /\ pc'[q] = "evict" => pc[q] = "evict"
        BY <2>1, Apart DEF MaybeRemove, Gone, Forget, Saving, InstOf, CacheInv, TypeInv, Typed
    <2>3. EndInv'
        BY <1>2, <2>1, <2>2, EndKept DEF CacheInv, instVars, dbVars
    <2>4. Single' /\ Unbuilt'
        BY <1>2 DEF CacheInv, Single, NoneOver, LiveIsCached, Current, Unbuilt, instVars, dbVars
    <2> QED
        BY <1>1, <2>3, <2>4 DEF CacheInv
<1> QED
    BY <1>3, <1>4

LEMMA CacheEvict ==
    ASSUME CacheInv,
           \/ \E p \in Sockets \cup Games : EvictNow(p)
           \/ \E g \in Games : RemovalWakes(g) \/ RemovalEvicts(g)
    PROVE  CacheInv'
<1>1. TypeInv'
    BY TypeEvict DEF CacheInv
<1>2. ~NoneOver
    BY DEF EvictNow, RemovalWakes, RemovalEvicts, CacheInv, EndInv
<1>3. UNCHANGED instVars /\ entry' \in {entry, None}
    BY DEF EvictNow, RemovalWakes, RemovalEvicts
<1>4. \A q \in Sockets \cup Games : Saving(q)' => Saving(q) /\ InstOf(q)' = InstOf(q)
    <2>1. ASSUME NEW p \in Sockets \cup Games, EvictNow(p), NEW q \in Sockets \cup Games
          PROVE  Saving(q)' => Saving(q) /\ InstOf(q)' = InstOf(q)
        BY <2>1, Apart DEF EvictNow, Gone, Forget, StopCountdown, Saving, InstOf, CacheInv,
           TypeInv, Typed
    <2>2. ASSUME NEW g \in Games, RemovalWakes(g) \/ RemovalEvicts(g),
                 NEW q \in Sockets \cup Games
          PROVE  Saving(q)' => Saving(q) /\ InstOf(q)' = InstOf(q)
        BY <2>2, Apart DEF RemovalWakes, RemovalEvicts, StopCountdown, Saving, InstOf,
           CacheInv, TypeInv, Typed, localVars
    <2> QED
        BY <2>1, <2>2
<1> QED
    BY <1>1, <1>2, <1>3, <1>4, CacheFinish

LEMMA CacheNext == ASSUME CacheInv, Next PROVE CacheInv'
BY CacheOpen, CacheRead, CacheLoadFromDoc, CacheBuild, CacheLoadReturned, CacheSocket,
   CacheMove, CacheStaleMove, CacheEndGame, CacheSave, CacheMaybeRemove, CacheEvict
   DEF Next, Use, Load, Finish

LEMMA CacheStutter == ASSUME CacheInv, UNCHANGED vars PROVE CacheInv'
<1> USE DEF CacheInv, vars
<1>1. TypeInv'
    BY DEF TypeInv, Typed, InHand
<1>2. EndInv'
    BY DEF EndInv, Saving, InstOf, NoneOver
<1>3. Single' /\ Unbuilt'
    BY DEF Single, NoneOver, LiveIsCached, Current, Unbuilt
<1> QED
    BY <1>1, <1>2, <1>3

LEMMA CacheInvariant == Spec => []CacheInv
BY CacheInit, CacheNext, CacheStutter, PTL DEF Spec

\* At most one member: a cardinality of at most one.
LEMMA AtMostOne ==
    ASSUME NEW S, \A x, y \in S : x = y
    PROVE  Cardinality(S) <= 1
<1>1. CASE S = {}
    BY <1>1, FS_EmptySet
<1>2. CASE S # {}
    <2>1. PICK x : S = {x}
        BY <1>2
    <2>2. Cardinality({x}) = 1
        BY FS_Singleton
    <2> QED
        BY <2>1, <2>2
<1> QED
    BY <1>1, <1>2

\* Until the game ends there is one instance of it, however many requests and
\* the restorer load it at the same time (load_game_from_doc).
THEOREM ConstructionShared == Spec => []SharedConstruction
<1>1. ASSUME CacheInv PROVE SharedConstruction
    <2>1. NoneOver => \A g, h \in LiveGames : g = h
        BY <1>1 DEF CacheInv, Single, LiveIsCached, LiveGames
    <2> QED
        BY <2>1, AtMostOne DEF SharedConstruction, NoneOver
<1> QED
    BY <1>1, CacheInvariant, PTL

-----------------------------------------------------------------------------
(* One result *)

\* Unless an instance was built late, only one was ever live, and it is saved
\* once, with the moves that the document has.
OnceInv ==
    ~reborn =>
        /\ (\E g \in Games : st[g] = "live") => NoneOver
        /\ \A p, q \in Sockets \cup Games : Saving(p) /\ Saving(q) => p = q
        /\ \A p \in Sockets \cup Games :
                Saving(p) => effects = 0 /\ doc.m = moves[InstOf(p)]
        /\ effects <= 1

LEMMA OnceInit == ASSUME Init PROVE OnceInv
BY Apart DEF Init, OnceInv, NoneOver, Saving

\* Steps that save nothing and leave the instances alone.
LEMMA OnceKept ==
    ASSUME OnceInv, UNCHANGED <<st, moves, doc, effects, reborn>>,
           \A q \in Sockets \cup Games :
                Saving(q)' => Saving(q) /\ InstOf(q)' = InstOf(q)
    PROVE  OnceInv'
BY DEF OnceInv, NoneOver

LEMMA SavingKept ==
    ASSUME TypeInv, NEW q \in Sockets \cup Games, Saving(q)',
           \/ \E c \in Sockets : Open(c) \/ FindServed(c) \/ Join(c) \/ GiveUp(c) \/ Leave(c)
           \/ \E p \in Loaders : LoadFromDoc(p) \/ LoadReturned(p)
           \/ RestoreRead
           \/ \E p \in Sockets \cup Games : MaybeRemove(p) \/ EvictNow(p)
           \/ \E g \in Games : RemovalWakes(g) \/ RemovalEvicts(g)
    PROVE  Saving(q) /\ InstOf(q)' = InstOf(q)
<1> USE Apart DEF TypeInv, Typed, Saving, InstOf
<1>1. ASSUME NEW c \in Sockets, Open(c) \/ FindServed(c) \/ Join(c) \/ GiveUp(c) \/ Leave(c)
      PROVE  Saving(q) /\ InstOf(q)' = InstOf(q)
    BY <1>1 DEF Open, FindServed, Join, GiveUp, Leave, LoadGameReturns, localVars
<1>2. ASSUME NEW p \in Loaders, LoadFromDoc(p) \/ LoadReturned(p)
      PROVE  Saving(q) /\ InstOf(q)' = InstOf(q)
    BY <1>2 DEF LoadFromDoc, LoadReturned, LoadGameReturns
<1>3. CASE RestoreRead
    BY <1>3 DEF RestoreRead
<1>4. ASSUME NEW p \in Sockets \cup Games, MaybeRemove(p)
      PROVE  Saving(q) /\ InstOf(q)' = InstOf(q)
    BY <1>4 DEF MaybeRemove, Gone, Forget
<1>5. ASSUME NEW p \in Sockets \cup Games, EvictNow(p)
      PROVE  Saving(q) /\ InstOf(q)' = InstOf(q)
    BY <1>5 DEF EvictNow, Gone, Forget, StopCountdown
<1>6. ASSUME NEW g \in Games, RemovalWakes(g) \/ RemovalEvicts(g)
      PROVE  Saving(q) /\ InstOf(q)' = InstOf(q)
    BY <1>6 DEF RemovalWakes, RemovalEvicts, StopCountdown, localVars
<1> QED
    BY <1>1, <1>2, <1>3, <1>4, <1>5, <1>6

LEMMA OnceBuild ==
    ASSUME CacheInv, OnceInv, Build
    PROVE  OnceInv'
<1> SUFFICES ASSUME ~reborn' PROVE OnceInv'
    BY DEF OnceInv
<1>1. PICK g \in Games :
        /\ st[g] = "none"
        /\ st' = [st EXCEPT ![g] = loading.s]
        /\ moves' = [moves EXCEPT ![g] = loading.m]
        /\ pc' = [p \in Procs |-> IF p = g THEN "run"
                                  ELSE IF pc[p] = "shield" THEN "built" ELSE pc[p]]
    BY DEF Build
<1>2. /\ loading # None /\ ~reborn /\ loading.s \in {"live", "over"}
      /\ loading.s = "live" => NoneOver
      /\ UNCHANGED <<doc, effects, game>>
    BY DEF Build, NoneOver, dbVars, CacheInv, TypeInv, Typed, Docs
<1>3. \A p \in Sockets \cup Games : Saving(p)' => Saving(p) /\ InstOf(p)' = InstOf(p)
    BY <1>1, <1>2, Apart DEF Saving, InstOf
<1>4. \A h \in Games : st'[h] = IF h = g THEN loading.s ELSE st[h]
    BY <1>1 DEF CacheInv, TypeInv, Typed
<1>5. \A p \in Sockets \cup Games : Saving(p) => moves'[InstOf(p)] = moves[InstOf(p)]
    <2>1. \A p \in Sockets \cup Games : Saving(p) => InstOf(p) \in Games /\ InstOf(p) # g
        BY <1>1, InstIsGame DEF CacheInv, EndInv, Saving, EndPcs
    <2> QED
        BY <1>1, <2>1 DEF CacheInv, TypeInv, Typed
<1>6. ASSUME NEW h \in Games, st'[h] = "live" PROVE NoneOver'
    <2>1. CASE loading.s = "live"
        BY <1>2, <1>4, <2>1 DEF NoneOver
    <2>2. CASE loading.s = "over"
        <3>1. st[h] = "live"
            BY <1>4, <1>6, <2>2
        <3>2. NoneOver
            BY <1>2, <3>1 DEF OnceInv
        <3> QED
            BY <1>2, <3>1, <3>2, Apart DEF CacheInv, Single, LiveIsCached
    <2> QED
        BY <1>2, <2>1, <2>2
<1> QED
    BY <1>2, <1>3, <1>5, <1>6 DEF OnceInv

\* The one live instance ends: nothing was saved before.
LEMMA OnceEndGame ==
    ASSUME CacheInv, OnceInv, NEW p \in Sockets \cup Games, EndGame(p)
    PROVE  OnceInv'
<1> SUFFICES ASSUME ~reborn PROVE OnceInv'
    BY DEF OnceInv, EndGame
<1>1. InstOf(p) \in Games /\ st[InstOf(p)] = "live" /\ UNCHANGED <<moves, doc, effects, game, reborn>>
    BY Apart DEF EndGame, InstOf, Playing, CacheInv, TypeInv, Typed, InHand, localVars, dbVars
<1>2. NoneOver /\ doc = [s |-> "live", m |-> moves[InstOf(p)]] /\ effects = 0
    BY <1>1 DEF OnceInv, CacheInv, Single, LiveIsCached, EndInv
<1>3. \A q \in Sockets \cup Games : ~Saving(q)
    BY <1>2, InstIsGame DEF CacheInv, EndInv, NoneOver, Saving, EndPcs
<1>4. \A q \in Sockets \cup Games : Saving(q)' => q = p
    BY <1>3, Apart DEF EndGame, StopCountdown, Saving, CacheInv, TypeInv, Typed
<1>5. \A h \in Games : st'[h] # "live"
    BY <1>1, <1>2 DEF EndGame, CacheInv, TypeInv, Typed, Single, LiveIsCached
<1>6. doc'.m = moves'[InstOf(p)'] /\ effects' = 0
    BY <1>1, <1>2 DEF InstOf
<1> QED
    BY <1>4, <1>5, <1>6 DEF OnceInv

\* A move is one of the live instance: nothing is being saved.
LEMMA OnceMove ==
    ASSUME CacheInv, OnceInv, NEW c \in Sockets, Move(c) \/ StaleMove(c)
    PROVE  OnceInv'
<1> SUFFICES ASSUME ~reborn PROVE OnceInv'
    BY DEF OnceInv, Move, StaleMove
<1>1. game[c] \in Games /\ st[game[c]] = "live" /\ UNCHANGED <<st, effects, game, reborn>>
    BY DEF Move, StaleMove, Playing, CacheInv, TypeInv, Typed, InHand, dbVars, localVars
<1>2. NoneOver
    BY <1>1 DEF OnceInv
<1>3. \A q \in Sockets \cup Games : ~Saving(q)
    BY <1>2, InstIsGame DEF CacheInv, EndInv, NoneOver, Saving, EndPcs
<1>4. \A q \in Sockets \cup Games : ~Saving(q)'
    BY <1>3, Apart DEF Move, StaleMove, StopCountdown, Saving, CacheInv, TypeInv, Typed
<1> QED
    BY <1>1, <1>2, <1>4 DEF OnceInv, NoneOver

LEMMA OnceSave ==
    ASSUME CacheInv, OnceInv, NEW p \in Sockets \cup Games, SaveSchedule(p) \/ SaveWrite(p)
    PROVE  OnceInv'
<1>1. p \in Procs /\ Saving(p) /\ UNCHANGED <<st, moves, game, reborn>>
    BY Apart DEF SaveSchedule, SaveWrite, Saving, instVars, localVars
<1>2. \A q \in Sockets \cup Games : InstOf(q)' = InstOf(q) /\ (Saving(q)' => Saving(q))
    BY <1>1, Apart DEF SaveSchedule, SaveWrite, Saving, InstOf, CacheInv, TypeInv, Typed
<1>3. CASE SaveSchedule(p)
    BY <1>1, <1>2, <1>3, OnceKept DEF SaveSchedule, dbVars
<1>4. CASE SaveWrite(p)
    <2>1. ~Saving(p)'
        BY <1>1, <1>4 DEF SaveWrite, Saving, CacheInv, TypeInv, Typed
    <2> QED
        BY <1>1, <1>2, <1>4, <2>1 DEF SaveWrite, OnceInv, NoneOver
<1> QED
    BY <1>3, <1>4

LEMMA OnceNext == ASSUME CacheInv, OnceInv, Next PROVE OnceInv'
<1>1. CASE \/ \E c \in Sockets : Open(c) \/ FindServed(c) \/ Join(c) \/ GiveUp(c) \/ Leave(c)
           \/ \E p \in Loaders : LoadFromDoc(p) \/ LoadReturned(p)
           \/ RestoreRead
           \/ \E p \in Sockets \cup Games : MaybeRemove(p) \/ EvictNow(p)
           \/ \E g \in Games : RemovalWakes(g) \/ RemovalEvicts(g)
    <2>1. \A q \in Sockets \cup Games :
            Saving(q)' => Saving(q) /\ InstOf(q)' = InstOf(q)
        BY <1>1, SavingKept DEF CacheInv
    <2>2. UNCHANGED <<st, moves, doc, effects, reborn>>
        BY <1>1 DEF Open, FindServed, Join, GiveUp, Leave, LoadFromDoc, LoadReturned,
           RestoreRead, MaybeRemove, EvictNow, RemovalWakes, RemovalEvicts, instVars, dbVars
    <2> QED
        BY <2>1, <2>2, OnceKept
<1> QED
    BY <1>1, OnceBuild, OnceEndGame, OnceMove, OnceSave DEF Next, Use, Load, Finish

LEMMA OnceInvariant == Spec => [](CacheInv /\ OnceInv)
<1>1. ASSUME OnceInv, UNCHANGED vars PROVE OnceInv'
    BY <1>1 DEF OnceInv, vars, NoneOver, Saving, InstOf
<1> QED
    BY <1>1, CacheInit, CacheNext, CacheStutter, OnceInit, OnceNext, PTL DEF Spec

\* The result of a game is applied to ratings and counts once (save_game),
\* unless an instance is built from a document that was read before the end.
THEOREM ResultAppliedOnce == Spec => []AppliedOnce
<1>1. OnceInv => AppliedOnce
    BY DEF OnceInv, AppliedOnce
<1> QED
    BY <1>1, OnceInvariant, PTL

\* The final write of save_game() has no filter, and yet takes no move back that
\* is in the document, unless an instance is built late.
THEOREM PersistedMovesKept == Spec => MovesKept
<1>1. ASSUME CacheInv, OnceInv, [Next]_vars, doc' # doc PROVE doc'.m >= doc.m \/ reborn
    <2>1. (\E c \in Sockets : Move(c)) \/ (\E p \in Sockets \cup Games : SaveWrite(p))
        BY <1>1 DEF Next, Use, Load, Finish, Open, FindServed, Join, GiveUp, Leave, StaleMove,
           EndGame, SaveSchedule, LoadFromDoc, LoadReturned, RestoreRead, Build, MaybeRemove,
           EvictNow, RemovalWakes, RemovalEvicts, dbVars, vars
    <2>2. ASSUME NEW c \in Sockets, Move(c) PROVE doc'.m >= doc.m
        <3>1. moves[game[c]] \in Nat /\ doc' = [doc EXCEPT !.m = moves[game[c]] + 1]
            BY <1>1, <2>2 DEF Move, Playing, CacheInv, TypeInv, Typed, InHand
        <3>2. doc = [s |-> "live", m |-> moves[game[c]]]
            BY <1>1, <2>2 DEF Move
        <3> QED
            BY <3>1, <3>2
    <2>3. ASSUME NEW p \in Sockets \cup Games, SaveWrite(p), ~reborn PROVE doc'.m >= doc.m
        <3>1. Saving(p) /\ doc'.m = moves[InstOf(p)] /\ moves[InstOf(p)] \in Nat
            BY <1>1, <2>3, InstIsGame
               DEF SaveWrite, Saving, EndPcs, CacheInv, TypeInv, Typed
        <3> QED
            BY <1>1, <2>3, <3>1 DEF OnceInv
    <2> QED
        BY <2>1, <2>2, <2>3
<1>2. ASSUME CacheInv, doc' = doc PROVE doc'.m >= doc.m
    BY <1>2 DEF CacheInv, TypeInv, Typed, Docs
<1>3. ASSUME CacheInv, OnceInv, [Next]_vars PROVE [doc'.m >= doc.m \/ reborn]_vars
    BY <1>1, <1>2, <1>3
<1> QED
    BY <1>3, OnceInvariant, PTL DEF Spec, MovesKept

-----------------------------------------------------------------------------
(* Types, to the bound *)

\* Where each kind of process can be.
KindInv ==
    /\ \A c \in Sockets : pc[c] \in SocketPcs
    /\ \A g \in Games : pc[g] \in EndPcs \cup {"none", "run", "done"}
    /\ pc[Restorer] \in LoadPcs \cup {"away", "done"}

LEMMA KindReturns ==
    ASSUME TypeInv, KindInv, NEW p \in Loaders, NEW g, NEW e, LoadGameReturns(p, g, e)
    PROVE  KindInv'
BY Apart DEF LoadGameReturns, KindInv, TypeInv, Typed, SocketPcs, LoadPcs, EndPcs

LEMMA KindLoad ==
    ASSUME TypeInv, KindInv,
           \/ \E c \in Sockets : Open(c) \/ FindServed(c)
           \/ \E p \in Loaders : Load(p)
           \/ RestoreRead
           \/ Build
    PROVE  KindInv'
<1>1. ASSUME NEW c \in Sockets, Open(c) PROVE KindInv'
    <2>1. CASE LoadGameReturns(c, entry, entry)
        BY <2>1, KindReturns, Apart
    <2>2. CASE pc' = [pc EXCEPT ![c] = "find"]
        BY <2>2, Apart DEF KindInv, TypeInv, Typed, SocketPcs, LoadPcs, EndPcs
    <2> QED
        BY <1>1, <2>1, <2>2 DEF Open
<1>2. ASSUME NEW p \in Loaders, LoadFromDoc(p) PROVE KindInv'
    <2>1. CASE LoadGameReturns(p, entry, entry)
        BY <2>1, KindReturns
    <2>2. CASE pc' = [pc EXCEPT ![p] = "shield"]
        BY <2>2, Apart DEF KindInv, TypeInv, Typed, SocketPcs, LoadPcs, EndPcs
    <2> QED
        BY <1>2, <2>1, <2>2 DEF LoadFromDoc
<1>3. ASSUME NEW p \in Loaders, LoadReturned(p) PROVE KindInv'
    BY <1>3, KindReturns DEF LoadReturned
<1>4. CASE RestoreRead \/ (\E c \in Sockets : FindServed(c))
    BY <1>4, Apart DEF RestoreRead, FindServed, KindInv, TypeInv, Typed, SocketPcs, LoadPcs,
       EndPcs
<1>5. CASE Build
    BY <1>5, Apart DEF Build, KindInv, TypeInv, Typed, SocketPcs, LoadPcs, EndPcs
<1> QED
    BY <1>1, <1>2, <1>3, <1>4, <1>5 DEF Load

LEMMA KindUse ==
    ASSUME TypeInv, KindInv,
           \/ \E c \in Sockets : Join(c) \/ GiveUp(c) \/ Move(c) \/ StaleMove(c) \/ Leave(c)
           \/ \E p \in Sockets \cup Games : EndGame(p) \/ Finish(p)
           \/ \E g \in Games : RemovalWakes(g) \/ RemovalEvicts(g)
    PROVE  KindInv'
<1> USE Apart DEF KindInv, TypeInv, Typed, SocketPcs, LoadPcs, EndPcs
<1>1. ASSUME NEW c \in Sockets, Join(c) \/ GiveUp(c) \/ Move(c) \/ Leave(c) PROVE KindInv'
    BY <1>1 DEF Join, GiveUp, Move, Leave
<1>2. ASSUME NEW c \in Sockets, StaleMove(c) PROVE KindInv'
    <2>1. game[c] \in Games /\ pc[c] = "joined"
        BY <1>2 DEF StaleMove, Playing, InHand
    <2> QED
        BY <1>2, <2>1 DEF StaleMove, StopCountdown
<1>3. ASSUME NEW p \in Sockets \cup Games, EndGame(p) PROVE KindInv'
    <2>1. InstOf(p) \in Games
        BY <1>3 DEF EndGame, InstOf, Playing, InHand
    <2> QED
        BY <1>3, <2>1 DEF EndGame, StopCountdown
<1>4. ASSUME NEW p \in Sockets \cup Games, SaveSchedule(p) \/ SaveWrite(p) \/ MaybeRemove(p)
      PROVE  KindInv'
    BY <1>4 DEF SaveSchedule, SaveWrite, MaybeRemove, Gone
<1>5. ASSUME NEW p \in Sockets \cup Games, EvictNow(p) PROVE KindInv'
    <2>1. InstOf(p) \in Games
        BY <1>5, InstIsGame DEF EvictNow
    <2> QED
        BY <1>5, <2>1 DEF EvictNow, Gone, StopCountdown
<1>6. ASSUME NEW g \in Games, RemovalWakes(g) \/ RemovalEvicts(g) PROVE KindInv'
    BY <1>6 DEF RemovalWakes, RemovalEvicts, StopCountdown
<1> QED
    BY <1>1, <1>2, <1>3, <1>4, <1>5, <1>6 DEF Finish

LEMMA KindInvariant == Spec => [](CacheInv /\ KindInv)
<1>1. Init => KindInv
    BY Apart DEF Init, KindInv, SocketPcs, LoadPcs, EndPcs
<1>2. CacheInv /\ KindInv /\ [Next]_vars => KindInv'
    <2>1. CacheInv /\ KindInv /\ Next => KindInv'
        BY KindLoad, KindUse DEF CacheInv, Next, Use
    <2>2. KindInv /\ UNCHANGED vars => KindInv'
        BY DEF KindInv, vars
    <2> QED
        BY <2>1, <2>2
<1> QED
    BY <1>1, <1>2, CacheInvariant, PTL DEF Spec

\* The instances whose result has been applied: each is over, and none of them
\* is being saved (again).
AppliedBy(F) ==
    /\ effects = Cardinality(F)
    /\ \A g \in F : st[g] = "over"
    /\ \A p \in Sockets \cup Games : Saving(p) => InstOf(p) \notin F

\* An instance is saved by whoever ended it, and only once.
OnceEach ==
    /\ \A p, q \in Sockets \cup Games :
          Saving(p) /\ Saving(q) /\ InstOf(p) = InstOf(q) => p = q
    /\ \E F \in SUBSET Games : AppliedBy(F)

LEMMA OnceEachInit == ASSUME Init PROVE OnceEach
<1>1. \A p \in Sockets \cup Games : ~Saving(p)
    BY Apart DEF Init, Saving
<1>2. AppliedBy({})
    BY <1>1, FS_EmptySet DEF Init, AppliedBy
<1> QED
    BY <1>1, <1>2 DEF OnceEach

\* Steps that end no game and apply no result.
LEMMA OnceEachKept ==
    ASSUME OnceEach, UNCHANGED effects,
           \A g \in Games : st[g] = "over" => st'[g] = "over",
           \A q \in Sockets \cup Games : Saving(q)' => Saving(q) /\ InstOf(q)' = InstOf(q)
    PROVE  OnceEach'
<1>1. PICK F \in SUBSET Games : AppliedBy(F)
    BY DEF OnceEach
<1>2. AppliedBy(F)'
    BY <1>1 DEF AppliedBy
<1> QED
    BY <1>2 DEF OnceEach

LEMMA OnceEachEndGame ==
    ASSUME CacheInv, OnceEach, NEW p \in Sockets \cup Games, EndGame(p)
    PROVE  OnceEach'
<1>1. /\ InstOf(p) \in Games /\ st[InstOf(p)] = "live" /\ p \in Procs
      /\ UNCHANGED <<effects, game>>
    BY Apart DEF EndGame, InstOf, Playing, CacheInv, TypeInv, Typed, InHand, localVars, dbVars
<1>2. \A q \in Sockets \cup Games :
        Saving(q)' => (q = p \/ Saving(q)) /\ InstOf(q)' = InstOf(q)
    BY <1>1, Apart DEF EndGame, StopCountdown, Saving, InstOf, CacheInv, TypeInv, Typed
<1>3. \A q \in Sockets \cup Games : Saving(q) => InstOf(q) # InstOf(p)
    BY <1>1 DEF CacheInv, EndInv
<1>4. PICK F \in SUBSET Games : AppliedBy(F)
    BY DEF OnceEach
<1>5. AppliedBy(F)'
    <2>1. InstOf(p) \notin F /\ \A g \in F : st'[g] = "over"
        BY <1>1, <1>4 DEF AppliedBy, EndGame, CacheInv, TypeInv, Typed
    <2> QED
        BY <1>1, <1>2, <1>4, <2>1 DEF AppliedBy
<1> QED
    BY <1>2, <1>3, <1>5 DEF OnceEach

LEMMA OnceEachSaveWrite ==
    ASSUME CacheInv, OnceEach, NEW p \in Sockets \cup Games, SaveWrite(p)
    PROVE  OnceEach'
<1>1. p \in Procs /\ Saving(p) /\ InstOf(p) \in Games /\ UNCHANGED <<st, game>>
    BY Apart, InstIsGame DEF SaveWrite, Saving, EndPcs, instVars, localVars, CacheInv
<1>2. \A q \in Sockets \cup Games :
        /\ InstOf(q)' = InstOf(q)
        /\ Saving(q)' => Saving(q) /\ q # p
    BY <1>1, Apart DEF SaveWrite, Saving, InstOf, CacheInv, TypeInv, Typed
<1>3. PICK F \in SUBSET Games : AppliedBy(F)
    BY DEF OnceEach
<1>4. IsFiniteSet(F) /\ InstOf(p) \notin F
    BY <1>1, <1>3, GamesAssumption, FS_Subset DEF AppliedBy
<1>5. effects' = Cardinality(F \cup {InstOf(p)})
    BY <1>3, <1>4, FS_AddElement DEF AppliedBy, SaveWrite
<1>6. AppliedBy(F \cup {InstOf(p)})'
    <2>1. \A g \in F \cup {InstOf(p)} : st'[g] = "over"
        BY <1>1, <1>3 DEF AppliedBy, CacheInv, EndInv
    <2>2. \A q \in Sockets \cup Games : Saving(q)' => InstOf(q)' \notin F \cup {InstOf(p)}
        BY <1>1, <1>2, <1>3 DEF AppliedBy, OnceEach
    <2> QED
        BY <1>2, <1>5, <2>1, <2>2 DEF AppliedBy
<1>7. F \cup {InstOf(p)} \in SUBSET Games
    BY <1>1
<1> QED
    BY <1>2, <1>6, <1>7 DEF OnceEach

LEMMA OnceEachNext == ASSUME CacheInv, OnceEach, Next PROVE OnceEach'
<1>1. CASE \/ \E c \in Sockets : Open(c) \/ FindServed(c) \/ Join(c) \/ GiveUp(c) \/ Leave(c)
           \/ \E p \in Loaders : LoadFromDoc(p) \/ LoadReturned(p)
           \/ RestoreRead
           \/ \E p \in Sockets \cup Games : MaybeRemove(p) \/ EvictNow(p)
           \/ \E g \in Games : RemovalWakes(g) \/ RemovalEvicts(g)
    <2>1. UNCHANGED <<st, effects>>
        BY <1>1 DEF Open, FindServed, Join, GiveUp, Leave, LoadFromDoc, LoadReturned,
           RestoreRead, MaybeRemove, EvictNow, RemovalWakes, RemovalEvicts, instVars, dbVars
    <2> QED
        BY <1>1, <2>1, SavingKept, OnceEachKept DEF CacheInv
<1>2. CASE Build
    <2>1. \A g \in Games : st[g] = "over" => st'[g] = "over"
        BY <1>2 DEF Build, CacheInv, TypeInv, Typed
    <2>2. \A q \in Sockets \cup Games : Saving(q)' => Saving(q) /\ InstOf(q)' = InstOf(q)
        BY <1>2, Apart DEF Build, Saving, InstOf, CacheInv, TypeInv, Typed
    <2> QED
        BY <1>2, <2>1, <2>2, OnceEachKept DEF Build, dbVars
<1>3. CASE \E c \in Sockets : Move(c) \/ StaleMove(c)
    <2>1. \A q \in Sockets \cup Games : Saving(q)' => Saving(q) /\ InstOf(q)' = InstOf(q)
        BY <1>3, Apart DEF Move, StaleMove, StopCountdown, Saving, InstOf, localVars, CacheInv,
           TypeInv, Typed
    <2> QED
        BY <1>3, <2>1, OnceEachKept DEF Move, StaleMove, dbVars
<1>4. CASE \E p \in Sockets \cup Games : SaveSchedule(p)
    <2>1. \A q \in Sockets \cup Games : Saving(q)' => Saving(q) /\ InstOf(q)' = InstOf(q)
        BY <1>4, Apart DEF SaveSchedule, Saving, InstOf, localVars, CacheInv, TypeInv, Typed
    <2> QED
        BY <1>4, <2>1, OnceEachKept DEF SaveSchedule, dbVars, instVars
<1> QED
    BY <1>1, <1>2, <1>3, <1>4, OnceEachEndGame, OnceEachSaveWrite DEF Next, Use, Load, Finish

LEMMA OnceEachInvariant == Spec => [](CacheInv /\ KindInv /\ OnceEach)
<1>1. ASSUME OnceEach, UNCHANGED vars PROVE OnceEach'
    BY <1>1 DEF OnceEach, AppliedBy, vars, Saving, InstOf
<1> QED
    BY <1>1, OnceEachInit, OnceEachNext, KindInvariant, PTL DEF Spec

\* Every variable keeps its type, and the result of a game is applied at most
\* once for each instance that is ever built, even when instances are built
\* late: an instance is ended by one coroutine, which saves it once (save_game).
THEOREM TypeCorrect == Spec => []TypeOK
<1>1. ASSUME CacheInv, KindInv, OnceEach PROVE TypeOK
    <2>1. PICK F \in SUBSET Games : effects = Cardinality(F)
        BY <1>1 DEF OnceEach, AppliedBy
    <2>2. effects \in 0..Cardinality(Games)
        BY <2>1, GamesAssumption, FS_Subset, FS_CardinalityType
    <2> QED
        BY <1>1, <2>2 DEF TypeOK, CacheInv, TypeInv, Typed, KindInv
<1> QED
    BY <1>1, OnceEachInvariant, PTL

=============================================================================
