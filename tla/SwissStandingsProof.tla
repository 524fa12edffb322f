------------------------ MODULE SwissStandingsProof -------------------------
(***************************************************************************)
(* What the players of a Swiss tournament, its games, its pairings and the *)
(* tournament itself have in memory and in their documents agree, wherever *)
(* the process dies: the invariant, and that the end of a game and the     *)
(* start of the process keep it.                                           *)
(*                                                                         *)
(* Each result is written four times (the game, the points in memory, the  *)
(* document of each player, the pairing), and a round is committed between *)
(* two marks.  The invariant says, for each place a coroutine or the start *)
(* of the process can be at, which of the writes are there: the games of a *)
(* player are his entries that have a pairing or are in hand, a point      *)
(* exists in his document only after the result does, and whatever is not  *)
(* settled belongs to the latest round.  From that the index at which a    *)
(* result is found again is that of its game.                              *)
(*                                                                         *)
(* The proofs are for what happens undisturbed: see Disturbed in Swiss.    *)
(***************************************************************************)
EXTENDS SwissProof

GameSet(p) == ToSet(games[p])
PointSet(p) == ToSet(points[p])
ScoredSet(p) == ToSet(scored[p])

\* From the answer of the engine until the round is stored.
Filling == {"bye", "byedoc", "create", "add", "absent", "absentdoc"}

\* An entry that a document or a pairing coroutine knows; one whose result every
\* document has; one that only the coroutine and the players have.
Present(e) == gdoc[e] # "none" \/ pdoc[e] # "none" \/ \E pr \in Pairers : cur[pr] = e
Settled(e) == pdoc[e] = "over" /\ \A p \in who[e] : e \in ScoredSet(p)
InHand(e) ==
    \E pr \in Pairers :
        \/ e \in made[pr]
        \/ cur[pr] = e /\ ppc[pr] \in {"bye", "byedoc", "absent", "absentdoc"}

Kinds ==
    \A e \in Entries :
        /\ gdoc[e] # "none" \/ gpc[e] # "none" => kind[e] = "game"
        /\ kind[e] = "game" => who[e] # {}
        /\ kind[e] \in {"U", "Z"} => \E p \in Players : who[e] = {p}
        /\ noshow[e] \in who[e] \cup {None}
        /\ kind[e] # "game" => noshow[e] = None

Sorted == \A p \in Players : Rising(games[p]) /\ Rising(points[p]) /\ Rising(scored[p])

\* Every entry there is belongs to a round that is stored, or to the one in progress,
\* before which everything is settled.
InRounds ==
    /\ \A e \in Entries : Present(e) => rnd[e] # 0
    /\ tdoc.status = "started" =>
        /\ tdoc.inProgress \in {0, tdoc.cr + 1}
        /\ \A e \in Entries : kind[e] # "none" => rnd[e] <= tdoc.cr + 1
        /\ \A e \in Entries : Present(e) => rnd[e] \in 1..tdoc.cr \/ rnd[e] = tdoc.inProgress
        /\ tdoc.inProgress # 0 =>
             \A e \in Entries : Present(e) /\ rnd[e] <= tdoc.cr => Settled(e)

\* A player has one entry in each stored round, and never two in a round.
Full == \A p \in Players, r \in 1..tdoc.cr :
            \E e \in Entries : p \in who[e] /\ rnd[e] = r /\ pdoc[e] # "none"
Unique == \A e, f \in Entries :
    Present(e) /\ Present(f) /\ rnd[e] = rnd[f] /\ e # f => who[e] \cap who[f] = {}

\* An entry is settled, and older, before one of a later round is made.
Ordered == \A e, f \in Entries :
    Present(e) /\ kind[f] # "none" /\ rnd[e] < rnd[f] =>
        Settled(e) /\ e < f /\ (kind[f] = "game" => noshow[e] \notin who[f])

Book == InRounds /\ Full /\ Unique /\ Ordered

Docs ==
    /\ \A e \in Entries : pdoc[e] = "over" => gdoc[e] # "live"
    /\ \A p \in Players : \A e \in ScoredSet(p) :
        /\ p \in who[e] /\ gdoc[e] # "live"
        /\ \/ pdoc[e] = "over" \/ gdoc[e] = "over"
           \/ phase \in {"tournament", "players"} /\ p \in rolling /\ pdoc[e] = "none"
        /\ noshow[e] = p => p \in away
    /\ \A e \in Entries : pdoc[e] = "live" /\ gdoc[e] = "none" =>
        phase \in {"users", "scores", "round", "pairings"} /\ rnd[e] = tdoc.inProgress

\* What the games of a player are, by how far the start of the process has got.
Remembered ==
    /\ phase = "users" => /\ \A e \in Entries : gpc[e] = "none"
                          /\ \A p \in Players : games[p] = <<>> /\ points[p] = <<>>
    /\ phase \in {"scores", "round"} =>
        \A p \in Players :
            GameSet(p) = {e \in Entries : p \in who[e] /\ (gdoc[e] # "none" \/ pdoc[e] = "over")}
    /\ phase = "pairings" =>
        \A p \in Players :
            /\ GameSet(p) \subseteq {e \in Entries : p \in who[e] /\ pdoc[e] # "none"}
            /\ {e \in Entries : p \in who[e] /\ pdoc[e] # "none" /\ rnd[e] # inProgress}
                    \subseteq GameSet(p)
    /\ phase \in {"tournament", "players", "repair", "up"} =>
        \A p \in Players :
            GameSet(p) = {e \in Entries : p \in who[e] /\ (pdoc[e] # "none" \/ InHand(e))}

\* What a point of a player is for, in memory and in his document.
Pointed ==
    /\ phase # "users" =>
        \A p \in Players :
            /\ PointSet(p) \subseteq GameSet(p)
            /\ \A e \in PointSet(p) : gdoc[e] # "live" /\ (noshow[e] = p => p \in paused)
            /\ \A e \in ScoredSet(p) :
                \/ e \in PointSet(p)
                \/ phase \in {"tournament", "players"} /\ p \in rolling /\ pdoc[e] = "none"
    /\ phase \in {"scores", "round", "pairings", "repair"} => scored = points
    /\ phase \in {"tournament", "players"} => \A p \in Players \ rolling : scored[p] = points[p]
    /\ phase \in {"round", "pairings", "tournament", "players", "repair"} =>
        \A e \in Entries : pdoc[e] = "over" /\ kind[e] = "game" => \A p \in who[e] : e \in PointSet(p)

\* Which entries have a pairing document, and which of those are in play.
Documented ==
    /\ phase # "users" => \A e \in Entries : pdoc[e] = "live" /\ gdoc[e] # "none" => e \in ongoing
    /\ phase \notin {"users", "up"} => \A e \in Entries : gdoc[e] # "none" => pdoc[e] # "none"
    /\ phase = "up" =>
        \A e \in Entries :
            /\ gdoc[e] # "none" =>
                \/ pdoc[e] # "none"
                \/ \E pr \in Pairers : e \in made[pr] \/ (cur[pr] = e /\ ppc[pr] = "add")
            /\ pdoc[e] = "over" =>
                Settled(e) \/ \E pr \in Pairers : cur[pr] = e /\ ppc[pr] \in {"byedoc", "absentdoc"}

Playing ==
    \A e \in Entries :
        /\ e \in ongoing => kind[e] = "game" /\ (pdoc[e] = "live" \/ \E pr \in Pairers : e \in made[pr])
        /\ gpc[e] \notin {"none", "done", "play"} => e \in ongoing /\ gdoc[e] = "over"
        /\ e \in ongoing /\ gdoc[e] = "over" => gpc[e] \notin {"none", "done", "play"}
        /\ gpc[e] = "play" => e \in rolled \/ (e \in ongoing /\ gdoc[e] = "live")
        /\ gpc[e] \in {"players", "pairing"} =>
            /\ phase = "up"
            /\ \A p \in who[e] : /\ e \in PointSet(p)
                                 /\ gpc[e] = "pairing" \/ p \notin todo[e] => e \in ScoredSet(p)

Registers ==
    /\ phase # "up" => status = "started" /\ tdoc.status = "started"
    /\ status = "started" => tdoc.status = "started"
    /\ phase \in {"scores", "round", "pairings"} => round = tdoc.cr /\ inProgress = tdoc.inProgress
    /\ phase = "pairings" => inProgress # 0 /\ \A e \in Entries : rnd[e] = inProgress => gdoc[e] = "none"
    /\ phase = "tournament" => /\ inProgress = tdoc.inProgress /\ inProgress # 0
                               /\ round = inProgress - 1
                               /\ \A e \in Entries : Present(e) => rnd[e] <= tdoc.cr
    /\ phase \in {"players", "repair"} => round = tdoc.cr /\ inProgress = 0 /\ tdoc.inProgress = 0
    /\ phase = "up" /\ status = "started" /\ (\A pr \in Pairers : ~Pairing(pr)) =>
            round = tdoc.cr /\ inProgress = 0 /\ tdoc.inProgress = 0
    /\ status = "finished" => ongoing = {} /\ \A pr \in Pairers : ppc[pr] \in {"idle", "save"}
    /\ phase \notin {"tournament", "players"} => rolling = {}

Solo == \A pr, other \in Pairers : Pairing(pr) /\ Pairing(other) => pr = other

\* A pairing coroutine before it has the pairings, and at the end.
Opening ==
    \A pr \in Pairers :
        /\ ppc[pr] \notin Filling => made[pr] = {} /\ cur[pr] = None
        /\ Pairing(pr) => ongoing = made[pr]
        /\ ppc[pr] = "save" => status = "finished" /\ round <= tdoc.cr
        /\ ppc[pr] \in {"mark", "unmark", "chat"} \cup Filling =>
            /\ round = tdoc.cr + 1 /\ status = "started"
            /\ \A e \in Entries : Present(e) /\ rnd[e] <= tdoc.cr => Settled(e)
        /\ ppc[pr] = "mark" => inProgress = round /\ tdoc.inProgress = 0 /\ rest[pr] \cap paused = {}
        /\ ppc[pr] = "unmark" => inProgress = 0 /\ tdoc.inProgress = round
        /\ ppc[pr] = "chat" => inProgress = 0 /\ tdoc.inProgress = 0
        /\ ppc[pr] \in {"mark", "unmark", "chat"} => \A e \in Entries : Present(e) => rnd[e] <= tdoc.cr

\* The same, while it makes the entries of the round.
Fills ==
    \A pr \in Pairers : ppc[pr] \in Filling =>
        /\ inProgress = round /\ tdoc.inProgress = round
        /\ cur[pr] # None =>
            /\ rnd[cur[pr]] = round
            /\ ppc[pr] # "add" => \A p \in who[cur[pr]] : cur[pr] \in PointSet(p)
        /\ ppc[pr] = "add" => /\ cur[pr] # None /\ gdoc[cur[pr]] = "live"
                              /\ pdoc[cur[pr]] = "none" /\ cur[pr] \notin made[pr]
        /\ \A e \in made[pr] : rnd[e] = round /\ gdoc[e] = "live"
        /\ ppc[pr] \in {"bye", "byedoc"} => cur[pr] # None /\ who[cur[pr]] = rest[pr]
        /\ ppc[pr] \in {"byedoc", "absentdoc"} => cur[pr] # None /\ pdoc[cur[pr]] = "over"
        /\ ppc[pr] \in {"create", "add", "absent", "absentdoc"} =>
            \A p \in rest[pr] : \E e \in Entries : p \in who[e] /\ rnd[e] = round /\ pdoc[e] = "over"
        /\ ppc[pr] \in {"absent", "absentdoc"} => plan[pr] = {} /\ \A e \in made[pr] : pdoc[e] = "live"

\* The games it has yet to make.
Planned ==
    \A pr \in Pairers : ppc[pr] \in Filling =>
        /\ \A a, b \in plan[pr] : a = b \/ a \cap b = {}
        /\ \A a \in plan[pr] : /\ a # {} /\ a \cap paused = {}
                               /\ \A e \in Entries : Present(e) /\ rnd[e] = round => a \cap who[e] = {}

SInv == /\ Kinds /\ Sorted /\ Book /\ Docs
        /\ Remembered /\ Pointed /\ Documented /\ Playing
        /\ Registers /\ Solo /\ Opening /\ Fills /\ Planned

State == IInv /\ OnlyPlayers /\ TypeInv /\ SInv

-----------------------------------------------------------------------------

\* The types the later proofs need: of the entries, of what the process has in memory,
\* of the pairing coroutines and of the tournament.
LEMMA Types ==
    ASSUME IInv, OnlyPlayers, TypeInv
    PROVE  /\ kind \in [Entries -> {"none", "game", "U", "Z"}]
           /\ who \in [Entries -> SUBSET Players] /\ rnd \in [Entries -> 0..Rounds]
           /\ gdoc \in [Entries -> {"none", "live", "over"}]
           /\ pdoc \in [Entries -> {"none", "live", "over"}]
           /\ noshow \in [Entries -> Players \cup {None}]
           /\ gpc \in [Entries -> {"none", "play", "users", "fx", "update",
                                   "players", "pairing", "done"}]
           /\ todo \in [Entries -> SUBSET Players]
BY Zenon DEF IInv, Typed, OnlyPlayers, TypeInv, Scalars, Sets

LEMMA MemoryTypes ==
    ASSUME IInv, OnlyPlayers, TypeInv
    PROVE  /\ scored \in [Players -> Seq(Entries)]
           /\ games \in [Players -> Seq(Entries)] /\ points \in [Players -> Seq(Entries)]
           /\ ongoing \subseteq Entries /\ rolled \subseteq Entries
           /\ away \subseteq Players /\ paused \subseteq Players /\ rolling \subseteq Players
           /\ free \subseteq Players
BY Zenon DEF IInv, Typed, OnlyPlayers, TypeInv, Scalars, Sets, Sequenced

LEMMA PairerTypes ==
    ASSUME IInv, OnlyPlayers, TypeInv
    PROVE  /\ ppc \in [Pairers -> {"idle", "mark", "unmark", "bye", "byedoc", "create", "add",
                                   "absent", "absentdoc", "chat", "save"}]
           /\ cur \in [Pairers -> Entries \cup {None}]
           /\ made \in [Pairers -> SUBSET Entries]
           /\ rest \in [Pairers -> SUBSET Players]
           /\ plan \in [Pairers -> SUBSET SUBSET Players]
BY Zenon DEF IInv, Typed, OnlyPlayers

LEMMA RegisterTypes ==
    ASSUME IInv, OnlyPlayers, TypeInv
    PROVE  /\ tdoc \in Documents
           /\ phase \in {"users", "scores", "round", "pairings", "tournament",
                         "players", "repair", "up"}
           /\ status \in {"started", "finished"} /\ round \in 0..Rounds /\ inProgress \in 0..Rounds
           /\ Rounds \in Nat
           /\ ghost \in BOOLEAN /\ torn \in BOOLEAN /\ raced \in BOOLEAN
BY SwissAssumption, Zenon DEF TypeInv, Scalars

LEMMA Members ==
    ASSUME TypeInv, NEW p \in Players
    PROVE  GameSet(p) \subseteq Entries /\ PointSet(p) \subseteq Entries /\ ScoredSet(p) \subseteq Entries
<1>1. games[p] \in Seq(Entries) /\ points[p] \in Seq(Entries) /\ scored[p] \in Seq(Entries)
    BY DEF TypeInv, Sequenced
<1> QED
    BY <1>1 DEF GameSet, PointSet, ScoredSet, ToSet

\* While the process starts nothing is being paired.
LEMMA NoPairing ==
    ASSUME State, phase # "up", NEW pr \in Pairers
    PROVE  ppc[pr] = "idle" /\ made[pr] = {} /\ cur[pr] = None /\ ~Pairing(pr)
BY DEF State, SInv, IInv, PairInv, Quiet, Opening, Filling, Pairing

\* Nothing is in the hands of a coroutine that is not filling a round.
LEMMA HandsEmpty ==
    ASSUME State, NEW e \in Entries, InHand(e)
    PROVE  phase = "up" /\ \E pr \in Pairers : /\ ppc[pr] \in Filling
                                               /\ e \in made[pr] \/ cur[pr] = e
<1>1. PICK pr \in Pairers : \/ e \in made[pr]
                            \/ cur[pr] = e /\ ppc[pr] \in {"bye", "byedoc", "absent", "absentdoc"}
    BY DEF InHand
<1>2. ppc[pr] \in Filling
    BY <1>1 DEF Filling, State, SInv, Opening
<1>3. phase = "up"
    BY <1>1, <1>2, NoPairing DEF Filling
<1> QED
    BY <1>1, <1>2, <1>3

\* An entry of a player is known to some document or to the coroutine.
LEMMA GamesPresent ==
    ASSUME State, NEW p \in Players, NEW e \in GameSet(p)
    PROVE  e \in Entries /\ p \in who[e] /\ Present(e)
<1>1. e \in Entries
    BY Members DEF State
<1>2. phase # "users"
    BY DEF State, SInv, Remembered, GameSet, ToSet
<1>3. CASE phase \in {"scores", "round", "pairings"}
    BY <1>1, <1>3 DEF State, SInv, Remembered, Present
<1>4. CASE phase \in {"tournament", "players", "repair", "up"}
    <2>1. p \in who[e] /\ (pdoc[e] # "none" \/ InHand(e))
        BY <1>1, <1>4 DEF State, SInv, Remembered
    <2>2. CASE InHand(e)
        <3>1. PICK pr \in Pairers : ppc[pr] \in Filling /\ (e \in made[pr] \/ cur[pr] = e)
            BY <1>1, <2>2, HandsEmpty
        <3> QED
            BY <1>1, <2>1, <3>1 DEF State, SInv, Fills, Present
    <2> QED
        BY <1>1, <2>1, <2>2 DEF Present
<1> QED
    BY <1>1, <1>2, <1>3, <1>4, RegisterTypes DEF State

\* What a document or a coroutine knows has been made.
LEMMA PresentMade ==
    ASSUME State, NEW e \in Entries, Present(e)
    PROVE  kind[e] # "none"
<1>1. CASE gdoc[e] # "none" \/ pdoc[e] # "none"
    BY <1>1 DEF State, IInv, Unmade
<1>2. ASSUME NEW pr \in Pairers, cur[pr] = e PROVE kind[e] # "none"
    <2>1. e # None
        BY SwissAssumption
    <2>2. CASE ppc[pr] = "add"
        BY <1>2, <2>1, <2>2 DEF State, SInv, Fills, Filling, Kinds
    <2> QED
        BY <1>2, <2>1, <2>2 DEF State, IInv, PairInv, Resting
<1> QED
    BY <1>1, <1>2 DEF Present

\* What is not settled is the latest entry of its players.
LEMMA Latest ==
    ASSUME State, NEW e \in Entries, NEW f \in Entries, NEW p,
           Present(e), ~Settled(e), Present(f), p \in who[e], p \in who[f]
    PROVE  f = e \/ (f < e /\ rnd[f] < rnd[e])
<1>1. rnd[e] \in Nat /\ rnd[f] \in Nat
    BY Types, RegisterTypes DEF State
<1>2. ~(rnd[e] < rnd[f])
    BY PresentMade DEF State, SInv, Book, Ordered
<1>3. rnd[e] = rnd[f] => e = f
    BY DEF State, SInv, Book, Unique
<1>4. rnd[f] < rnd[e] => f < e
    BY PresentMade DEF State, SInv, Book, Ordered
<1> QED
    BY <1>1, <1>2, <1>3, <1>4

\* An entry without a point is not settled, so the others of its player are older.
LEMMA Behind ==
    ASSUME State, NEW p \in Players, NEW e \in GameSet(p) \ PointSet(p), NEW f \in GameSet(p)
    PROVE  ~Settled(e) /\ (f = e \/ f < e)
<1>1. e \in Entries /\ p \in who[e] /\ Present(e) /\ f \in Entries /\ p \in who[f] /\ Present(f)
    BY GamesPresent
<1>2. phase # "users"
    BY DEF State, SInv, Remembered, GameSet, ToSet
<1>3. ~Settled(e)
    BY <1>1, <1>2 DEF State, SInv, Pointed, Settled
<1> QED
    BY <1>1, <1>3, Latest

\* A player's points are those of his first games.
LEMMA Match ==
    ASSUME State, NEW p \in Players
    PROVE  /\ Len(points[p]) \in Nat /\ Len(games[p]) \in Nat
           /\ points[p] \in Seq(Nat) /\ games[p] \in Seq(Nat)
           /\ Len(points[p]) <= Len(games[p])
           /\ \A i \in 1..Len(points[p]) : points[p][i] = games[p][i]
<1>1. games[p] \in Seq(Nat) /\ points[p] \in Seq(Nat)
    <2>1. games[p] \in Seq(Entries) /\ points[p] \in Seq(Entries)
        BY MemoryTypes DEF State
    <2> QED
        BY <2>1, EntriesNat, SeqMonotonic
<1>2. CASE phase = "users"
    BY <1>1, <1>2 DEF State, SInv, Remembered
<1>3. CASE phase # "users"
    <2>1. PointSet(p) \subseteq GameSet(p)
        BY <1>3 DEF State, SInv, Pointed
    <2>2. ASSUME NEW x \in ToSet(games[p]) \ ToSet(points[p]), NEW y \in ToSet(points[p])
          PROVE  y < x
        BY <2>1, <2>2, Behind DEF GameSet, PointSet
    <2>3. Rising(points[p]) /\ Rising(games[p])
        BY DEF State, SInv, Sorted
    <2>4. ToSet(points[p]) \subseteq ToSet(games[p])
        BY <2>1 DEF GameSet, PointSet
    <2>5. /\ Len(points[p]) <= Len(games[p])
          /\ \A i \in 1..Len(points[p]) : points[p][i] = games[p][i]
        BY <1>1, <2>2, <2>3, <2>4, RisingPrefix
    <2> QED
        BY <1>1, <2>5
<1> QED
    BY <1>2, <1>3

LEMMA MatchAll == State => StandingsMatch
<1> SUFFICES ASSUME State, NEW p \in Players PROVE IsPrefix(points[p], games[p])
    BY DEF StandingsMatch
<1> QED
    BY Match DEF IsPrefix

\* The code's test on the index is one on the entry.
LEMMA AppliedIs ==
    ASSUME State, NEW e \in Entries, NEW p \in Players
    PROVE  Applied(e, p) <=> e \in PointSet(p)
<1>1. /\ DOMAIN games[p] = 1..Len(games[p]) /\ DOMAIN points[p] = 1..Len(points[p])
      /\ Len(points[p]) \in Nat /\ Len(games[p]) \in Nat /\ Len(points[p]) <= Len(games[p])
      /\ \A i \in 1..Len(points[p]) : points[p][i] = games[p][i]
    BY Match
<1>2. e \in PointSet(p) <=> \E i \in 1..Len(points[p]) : points[p][i] = e
    BY <1>1 DEF PointSet, ToSet
<1>3. Applied(e, p) <=> \E i \in 1..Len(games[p]) : games[p][i] = e /\ i <= Len(points[p])
    BY <1>1 DEF Applied
<1> QED
    BY <1>1, <1>2, <1>3

-----------------------------------------------------------------------------
(* What a step leaves alone *)

\* The round of the tournament, as it is stored.
SameRound == /\ tdoc'.status = tdoc.status /\ tdoc'.cr = tdoc.cr
             /\ tdoc'.inProgress = tdoc.inProgress

\* Nothing about the rounds is lost when entries go and get settled.
LEMMA BookKeeps ==
    ASSUME State, SameRound, UNCHANGED <<kind, who, rnd, noshow>>,
           \A e \in Entries : /\ Present(e)' => Present(e)
                              /\ Present(e)' /\ Settled(e) => Settled(e)'
                              /\ pdoc[e] # "none" => pdoc'[e] # "none"
    PROVE  Book'
<1> USE DEF State, SInv, Book
<1>1. InRounds'
    BY DEF InRounds, SameRound
<1>2. Full'
    BY DEF Full, SameRound
<1>3. Unique'
    BY DEF Unique
<1>4. Ordered'
    BY DEF Ordered
<1> QED
    BY <1>1, <1>2, <1>3, <1>4

\* Without a pairing coroutine nothing is asked of one.
LEMMA NobodyPairs ==
    ASSUME \A pr \in Pairers : ppc'[pr] = "idle" /\ made'[pr] = {} /\ cur'[pr] = None
    PROVE  /\ Solo' /\ Opening' /\ Fills' /\ Planned'
           /\ \A e \in Entries : ~InHand(e)'
<1>1. \A e \in Entries : e # None
    BY SwissAssumption
<1>2. Solo'
    BY DEF Solo, Pairing
<1>3. Opening'
    BY DEF Opening, Pairing, Filling
<1>4. Fills' /\ Planned'
    BY DEF Fills, Planned, Filling
<1> QED
    BY <1>1, <1>2, <1>3, <1>4 DEF InHand

\* The standings and the documents, the round, and who is pairing.
SameStandings ==
    UNCHANGED <<kind, who, rnd, noshow, gdoc, pdoc, scored, away, games, points, paused,
                ongoing, rolling, rolled>>
SamePairing == UNCHANGED <<ppc, plan, rest, cur, made>>
SamePhase == UNCHANGED <<phase, status, round, inProgress>> /\ SameRound

\* What an entry is known by, and what settles it, when a step leaves them alone.
LEMMA PresentKeeps ==
    ASSUME UNCHANGED <<gdoc, pdoc, cur>>
    PROVE  \A e \in Entries : Present(e)' <=> Present(e)
BY DEF Present

LEMMA SettledKeeps ==
    ASSUME UNCHANGED <<pdoc, who, scored>>
    PROVE  \A e \in Entries : Settled(e)' <=> Settled(e)
BY DEF Settled, ScoredSet

LEMMA InHandKeeps ==
    ASSUME SamePairing
    PROVE  \A e \in Entries : InHand(e)' <=> InHand(e)
BY DEF InHand, SamePairing

\* A coroutine of a game that has its result goes on.
LEMMA KeepQuiet ==
    ASSUME State, SameStandings, SamePairing, SamePhase,
           \A e \in Entries :
               \/ gpc'[e] = gpc[e] /\ todo'[e] = todo[e]
               \/ gpc[e] \notin {"none", "play", "done"} /\ gpc'[e] \in {"users", "fx", "update"}
               \/ ongoing = {} /\ gpc[e] # "none" /\ gpc'[e] = "done"
    PROVE  SInv'
<1> USE DEF State, SInv
<1>1. /\ \A e \in Entries : /\ Present(e)' <=> Present(e)
                            /\ Settled(e)' <=> Settled(e)
                            /\ InHand(e)' <=> InHand(e)
      /\ \A p \in Players : /\ GameSet(p)' = GameSet(p) /\ PointSet(p)' = PointSet(p)
                            /\ ScoredSet(p)' = ScoredSet(p)
    BY PresentKeeps, SettledKeeps, InHandKeeps
       DEF SameStandings, SamePairing, GameSet, PointSet, ScoredSet
<1>2. Kinds'
    BY DEF Kinds, SameStandings
<1>3. Sorted'
    BY DEF Sorted, SameStandings
<1>4. Book'
    BY <1>1, BookKeeps DEF SameStandings, SamePhase
<1>5. Docs'
    BY <1>1 DEF Docs, SameStandings, SamePhase, SameRound
<1>6. Remembered'
    BY <1>1 DEF Remembered, SameStandings, SamePhase
<1>7. Pointed'
    <2>1. UNCHANGED <<kind, who, noshow, gdoc, pdoc, scored, points, paused, rolling, phase>>
        BY DEF SameStandings, SamePhase
    <2>2. \A e \in Entries : \A p \in who[e] : PointSet(p)' = PointSet(p)
        BY <1>1, Types
    <2> QED
        BY <1>1, <2>1, <2>2, Zenon DEF Pointed
<1>8. Documented'
    BY <1>1 DEF Documented, SameStandings, SamePairing, SamePhase
<1>9. Playing'
    <2> SUFFICES ASSUME NEW e \in Entries
                 PROVE  /\ e \in ongoing => kind[e] = "game" /\
                               (pdoc[e] = "live" \/ \E pr \in Pairers : e \in made[pr])
                        /\ gpc'[e] \notin {"none", "done", "play"} => e \in ongoing /\ gdoc[e] = "over"
                        /\ e \in ongoing /\ gdoc[e] = "over" => gpc'[e] \notin {"none", "done", "play"}
                        /\ gpc'[e] = "play" => e \in rolled \/ (e \in ongoing /\ gdoc[e] = "live")
                        /\ gpc'[e] \in {"players", "pairing"} =>
                            /\ phase = "up"
                            /\ \A p \in who[e] : /\ e \in PointSet(p)
                                                 /\ gpc'[e] = "pairing" \/ p \notin todo'[e] =>
                                                        e \in ScoredSet(p)
        <3>1. UNCHANGED <<kind, who, gdoc, pdoc, ongoing, rolled, phase, made>>
            BY DEF SameStandings, SamePairing, SamePhase
        <3>2. \A e \in Entries : \A p \in who[e] : PointSet(p)' = PointSet(p) /\ ScoredSet(p)' = ScoredSet(p)
            BY <1>1, Types
        <3> QED
            BY <3>1, <3>2 DEF Playing
    <2>1. CASE gpc'[e] = gpc[e] /\ todo'[e] = todo[e]
        BY <2>1 DEF Playing
    <2>2. CASE gpc[e] \notin {"none", "play", "done"} /\ gpc'[e] \in {"users", "fx", "update"}
        BY <2>2 DEF Playing
    <2>3. CASE ongoing = {} /\ gpc'[e] = "done"
        BY <2>3
    <2> QED
        BY <2>1, <2>2, <2>3
<1>10. Registers'
    BY <1>1 DEF Registers, SameStandings, SamePairing, SamePhase, SameRound, Pairing
<1>11. Solo' /\ Opening'
    BY <1>1 DEF Solo, Opening, SameStandings, SamePairing, SamePhase, SameRound, Pairing
<1>12. Fills' /\ Planned'
    <2>1. UNCHANGED <<who, rnd, gdoc, pdoc, paused, ppc, plan, rest, cur, made, round, inProgress>>
        BY DEF SameStandings, SamePairing, SamePhase
    <2>2. Fills'
        <3> SUFFICES ASSUME NEW pr \in Pairers, ppc[pr] \in Filling, cur[pr] # None, ppc[pr] # "add",
                            NEW p \in who[cur[pr]]
                     PROVE  cur[pr] \in PointSet(p)'
            BY <2>1 DEF Fills, SamePhase, SameRound
        <3>1. p \in Players /\ cur[pr] \in PointSet(p)
            BY Types, PairerTypes DEF Fills
        <3> QED
            BY <1>1, <3>1
    <2>3. Planned'
        BY <1>1, <2>1 DEF Planned
    <2> QED
        BY <2>2, <2>3
<1> QED
    BY <1>2, <1>3, <1>4, <1>5, <1>6, <1>7, <1>8, <1>9, <1>10, <1>11, <1>12

-----------------------------------------------------------------------------
(* The end of a game *)

\* A game whose end is being handled is of a round that is stored.
LEMMA NotPairing ==
    ASSUME State, NEW e \in Entries, e \in ongoing, gpc[e] # "none"
    PROVE  /\ \A pr \in Pairers : ppc[pr] = "idle" /\ made[pr] = {} /\ cur[pr] = None
           /\ \A f \in Entries : ~InHand(f)
<1>1. ASSUME NEW pr \in Pairers PROVE ~Pairing(pr)
    <2>1. Pairing(pr) => e \in made[pr]
        BY DEF State, SInv, Opening
    <2>2. e \in made[pr] => gpc[e] = "none"
        BY DEF State, IInv, PairInv, Creating, Held
    <2> QED
        BY <2>1, <2>2
<1>2. \A pr \in Pairers : ppc[pr] = "idle" /\ made[pr] = {} /\ cur[pr] = None
    BY <1>1 DEF Pairing, State, SInv, Opening, Filling
<1>3. \A f \in Entries : f # None
    BY SwissAssumption
<1> QED
    BY <1>2, <1>3 DEF InHand

\* The result of a game is stored (save_game).
LEMMA EndGameKeeps ==
    ASSUME State, NEW e \in Entries, EndGame(e), ~Disturbed' PROVE SInv'
<1> USE DEF State, SInv
<1>1. /\ UNCHANGED <<kind, who, rnd, pdoc, scored, away, games, points, paused, ongoing,
                     rolling, rolled, tdoc>>
      /\ SamePairing /\ SamePhase
    BY DEF EndGame, untouchedByGames, entryVars, playerVars, playerDocs, roundVars, pairProcs,
           SamePairing, SamePhase, SameRound
<1>2. gpc[e] = "play" /\ gdoc[e] = "live" /\ e \in ongoing /\ kind[e] = "game"
    BY DEF EndGame, Disturbed, Playing
<1>3. /\ gdoc' = [gdoc EXCEPT ![e] = "over"] /\ gpc' = [gpc EXCEPT ![e] = "users"]
      /\ \E loser \in who[e] \cup {None} : noshow' = [noshow EXCEPT ![e] = loser]
    BY <1>2 DEF EndGame
<1>4. /\ gdoc'[e] = "over" /\ gpc'[e] = "users" /\ noshow'[e] \in who[e] \cup {None}
      /\ \A f \in Entries \ {e} : gdoc'[f] = gdoc[f] /\ gpc'[f] = gpc[f] /\ noshow'[f] = noshow[f]
      /\ \A f \in Entries \ {e} : todo'[f] = todo[f]
    BY <1>3, Types DEF EndGame
<1>5. /\ \A f \in Entries : /\ Present(f)' <=> Present(f)
                            /\ Settled(f)' <=> Settled(f)
                            /\ InHand(f)' <=> InHand(f)
      /\ \A p \in Players : /\ GameSet(p)' = GameSet(p) /\ PointSet(p)' = PointSet(p)
                            /\ ScoredSet(p)' = ScoredSet(p)
    <2>1. \A f \in Entries : Present(f)' <=> Present(f)
        BY <1>1, <1>2, <1>4 DEF Present, SamePairing
    <2> QED
        BY <1>1, <2>1, SettledKeeps, InHandKeeps DEF GameSet, PointSet, ScoredSet
<1>6. ~Settled(e) /\ pdoc[e] # "over" /\ \A p \in Players : e \notin PointSet(p) /\ e \notin ScoredSet(p)
    <2>1. phase # "users"
        BY <1>2 DEF Remembered
    <2> QED
        BY <1>2, <2>1 DEF Docs, Pointed, Settled
<1>7. /\ \A pr \in Pairers : ppc[pr] = "idle" /\ made[pr] = {} /\ cur[pr] = None
    BY <1>2, NotPairing
<1>8. Kinds'
    BY <1>1, <1>2, <1>4 DEF Kinds
<1>9. Sorted'
    BY <1>1 DEF Sorted
<1>10. Book'
    <2>1. InRounds' /\ Full' /\ Unique'
        BY <1>1, <1>5 DEF Book, InRounds, Full, Unique
    <2>2. Ordered'
        BY <1>1, <1>4, <1>5, <1>6 DEF Book, Ordered
    <2> QED
        BY <2>1, <2>2 DEF Book
<1>11. Docs'
    BY <1>1, <1>2, <1>4, <1>5, <1>6, Members DEF Docs, SamePhase
<1>12. Remembered'
    BY <1>1, <1>2, <1>4, <1>5 DEF Remembered, SamePhase
<1>13. Pointed'
    <2>1. UNCHANGED phase
        BY <1>1 DEF SamePhase
    <2>2. ASSUME phase # "users", NEW p \in Players
          PROVE  /\ PointSet(p)' \subseteq GameSet(p)'
                 /\ \A f \in PointSet(p)' : gdoc'[f] # "live" /\ (noshow'[f] = p => p \in paused')
                 /\ \A f \in ScoredSet(p)' :
                     \/ f \in PointSet(p)'
                     \/ phase' \in {"tournament", "players"} /\ p \in rolling' /\ pdoc'[f] = "none"
        BY <1>1, <1>4, <1>5, <1>6, <2>1, <2>2, Members DEF Pointed
    <2>3. \A f \in Entries : \A p \in who[f] : PointSet(p)' = PointSet(p)
        BY <1>5, Types
    <2> QED
        BY <1>1, <2>1, <2>2, <2>3, Zenon DEF Pointed
<1>14. Documented'
    BY <1>1, <1>2, <1>4, <1>5 DEF Documented, SamePhase, SamePairing
<1>15. Playing'
    <2> SUFFICES ASSUME NEW f \in Entries
                 PROVE  /\ f \in ongoing => kind[f] = "game" /\
                               (pdoc[f] = "live" \/ \E pr \in Pairers : f \in made[pr])
                        /\ gpc'[f] \notin {"none", "done", "play"} => f \in ongoing /\ gdoc'[f] = "over"
                        /\ f \in ongoing /\ gdoc'[f] = "over" => gpc'[f] \notin {"none", "done", "play"}
                        /\ gpc'[f] = "play" => f \in rolled \/ (f \in ongoing /\ gdoc'[f] = "live")
                        /\ gpc'[f] \in {"players", "pairing"} =>
                            /\ phase = "up"
                            /\ \A p \in who[f] : /\ f \in PointSet(p)
                                                 /\ gpc'[f] = "pairing" \/ p \notin todo'[f] =>
                                                        f \in ScoredSet(p)
        <3>1. UNCHANGED <<kind, who, pdoc, ongoing, rolled, phase, made>>
            BY <1>1 DEF SamePairing, SamePhase
        <3>2. \A f \in Entries : \A p \in who[f] : PointSet(p)' = PointSet(p) /\ ScoredSet(p)' = ScoredSet(p)
            BY <1>5, Types
        <3> QED
            BY <3>1, <3>2 DEF Playing
    <2>1. CASE f = e
        BY <1>2, <1>4, <2>1 DEF Playing
    <2>2. CASE f # e
        BY <1>4, <2>2 DEF Playing
    <2> QED
        BY <2>1, <2>2
<1>16. Registers'
    BY <1>1, <1>2, <1>4, <1>5 DEF Registers, SamePairing, SamePhase, SameRound, Pairing
<1>17. Solo' /\ Opening' /\ Fills' /\ Planned'
    BY <1>1, <1>7, NobodyPairs DEF SamePairing
<1> QED
    BY <1>8, <1>9, <1>10, <1>11, <1>12, <1>13, <1>14, <1>15, <1>16, <1>17

\* The latest entry goes to the end.
LEMMA AppendIs ==
    ASSUME NEW s \in Seq(Entries), Rising(s), NEW e \in Entries, \A x \in ToSet(s) : x < e
    PROVE  Rising(Append(s, e)) /\ ToSet(Append(s, e)) = ToSet(s) \cup {e}
<1>1. s \in Seq(Nat) /\ e \in Nat
    BY EntriesNat, SeqMonotonic
<1> QED
    BY <1>1, RisingAppend

\* Its points are given in memory, and one who did not show up is paused.
LEMMA GameUpdateKeeps ==
    ASSUME State, NEW e \in Entries, GameUpdate(e), status # "finished" PROVE SInv'
<1> USE DEF State, SInv
<1> DEFINE touched == {p \in who[e] : ~Applied(e, p)}
<1>1. /\ UNCHANGED <<kind, who, rnd, gdoc, noshow, pdoc, scored, away, games, ongoing,
                     rolling, rolled, tdoc>>
      /\ SamePairing /\ SamePhase
    BY DEF GameUpdate, entryVars, gameDocs, playerDocs, roundVars, pairProcs, history,
           SamePairing, SamePhase, SameRound
<1>2. /\ gpc[e] = "update" /\ phase = "up" /\ e \in ongoing /\ gdoc[e] = "over"
    BY DEF GameUpdate, Playing
<1>3. /\ points' = Added(points, touched, e)
      /\ paused' = paused \cup ({noshow[e]} \ {None})
      /\ gpc' = [gpc EXCEPT ![e] = "players"] /\ todo' = [todo EXCEPT ![e] = who[e]]
    BY DEF GameUpdate, ApplyResult
<1>4. /\ gpc'[e] = "players" /\ todo'[e] = who[e]
      /\ \A f \in Entries \ {e} : gpc'[f] = gpc[f] /\ todo'[f] = todo[f]
    BY <1>3, Types
<1>5. /\ \A pr \in Pairers : ppc[pr] = "idle" /\ made[pr] = {} /\ cur[pr] = None
      /\ \A f \in Entries : ~InHand(f)
    BY <1>2, NotPairing
<1>6. \A p \in who[e] : p \in Players /\ e \in GameSet(p)
    BY <1>2, <1>5, Types DEF Playing, Remembered
<1>7. \A p \in Players : p \in touched <=> p \in who[e] /\ e \notin PointSet(p)
    BY AppliedIs
<1>8. ASSUME NEW p \in Players
      PROVE  /\ Rising(points'[p])
             /\ PointSet(p)' = IF p \in who[e] THEN PointSet(p) \cup {e} ELSE PointSet(p)
    <2>1. p \in touched => \A x \in ToSet(points[p]) : x < e
        <3>1. PointSet(p) \subseteq GameSet(p)
            BY <1>2 DEF Pointed
        <3> HIDE DEF touched
        <3> QED
            BY <1>6, <1>7, <3>1, Behind DEF PointSet
    <2>2. Rising(points[p])
        BY DEF Sorted
    <2> HIDE DEF touched
    <2>3. points \in [Players -> Seq(Entries)]
        BY MemoryTypes
    <2>4. /\ Rising(points'[p])
          /\ PointSet(p)' = IF p \in touched THEN PointSet(p) \cup {e} ELSE PointSet(p)
        <3>1. points[p] \in Seq(Entries)
            BY <2>3
        <3>2. points'[p] = IF p \in touched THEN Append(points[p], e) ELSE points[p]
            BY <1>3 DEF Added
        <3>3. CASE p \in touched
            <4>1. Rising(Append(points[p], e)) /\ ToSet(Append(points[p], e)) = ToSet(points[p]) \cup {e}
                BY <2>1, <2>2, <3>1, <3>3, AppendIs
            <4> QED
                BY <3>2, <3>3, <4>1 DEF PointSet
        <3> QED
            BY <2>2, <3>2, <3>3 DEF PointSet
    <2> QED
        BY <1>7, <2>4
<1> HIDE DEF touched
<1>9. /\ \A f \in Entries : /\ Present(f)' <=> Present(f)
                            /\ Settled(f)' <=> Settled(f)
                            /\ InHand(f)' <=> InHand(f)
      /\ \A p \in Players : GameSet(p)' = GameSet(p) /\ ScoredSet(p)' = ScoredSet(p)
      /\ \A p \in Players : PointSet(p) \subseteq PointSet(p)'
    BY <1>1, <1>8, PresentKeeps, SettledKeeps, InHandKeeps DEF GameSet, ScoredSet, SamePairing
<1>10. Kinds'
    BY <1>1, <1>2, <1>4 DEF Kinds
<1>11. Sorted'
    BY <1>1, <1>8 DEF Sorted
<1>12. Book'
    BY <1>1, <1>9, BookKeeps DEF SamePhase
<1>13. Docs'
    BY <1>1, <1>9 DEF Docs, SamePhase
<1>14. Remembered'
    BY <1>1, <1>2, <1>9 DEF Remembered, SamePhase
<1>15. Pointed'
    <2>1. phase' = "up"
        BY <1>1, <1>2 DEF SamePhase
    <2>2. ASSUME NEW p \in Players
          PROVE  /\ PointSet(p)' \subseteq GameSet(p)'
                 /\ \A f \in PointSet(p)' : gdoc'[f] # "live" /\ (noshow'[f] = p => p \in paused')
                 /\ \A f \in ScoredSet(p)' : f \in PointSet(p)'
        <3>1. p # None
            BY SwissAssumption
        <3>2. \A f \in PointSet(p)' : f \in PointSet(p) \/ (f = e /\ p \in who[e])
            BY <1>8
        <3> QED
            BY <1>1, <1>2, <1>3, <1>6, <1>9, <3>1, <3>2 DEF Pointed
    <2> QED
        BY <2>1, <2>2 DEF Pointed
<1>16. Documented'
    BY <1>1, <1>9 DEF Documented, SamePhase, SamePairing
<1>17. Playing'
    <2> SUFFICES ASSUME NEW f \in Entries
                 PROVE  /\ f \in ongoing => kind[f] = "game" /\
                               (pdoc[f] = "live" \/ \E pr \in Pairers : f \in made[pr])
                        /\ gpc'[f] \notin {"none", "done", "play"} => f \in ongoing /\ gdoc[f] = "over"
                        /\ f \in ongoing /\ gdoc[f] = "over" => gpc'[f] \notin {"none", "done", "play"}
                        /\ gpc'[f] = "play" => f \in rolled \/ (f \in ongoing /\ gdoc[f] = "live")
                        /\ gpc'[f] \in {"players", "pairing"} =>
                            /\ phase = "up"
                            /\ \A p \in who[f] : /\ f \in PointSet(p)'
                                                 /\ gpc'[f] = "pairing" \/ p \notin todo'[f] =>
                                                        f \in ScoredSet(p)
        <3>1. UNCHANGED <<kind, who, gdoc, pdoc, ongoing, rolled, phase, made>>
            BY <1>1 DEF SamePairing, SamePhase
        <3>2. \A f \in Entries : \A p \in who[f] : ScoredSet(p)' = ScoredSet(p)
            BY <1>9, Types
        <3> QED
            BY <3>1, <3>2 DEF Playing
    <2>1. CASE f = e
        BY <1>2, <1>4, <1>6, <1>8, <2>1 DEF Playing
    <2>2. CASE f # e
        <3>1. \A p \in who[f] : PointSet(p) \subseteq PointSet(p)'
            BY <1>9, Types
        <3> QED
            BY <1>4, <2>2, <3>1 DEF Playing
    <2> QED
        BY <2>1, <2>2
<1>18. Registers'
    BY <1>1, <1>9 DEF Registers, SamePairing, SamePhase, SameRound, Pairing
<1>19. Solo' /\ Opening' /\ Fills' /\ Planned'
    BY <1>1, <1>5, NobodyPairs DEF SamePairing
<1> QED
    BY <1>10, <1>11, <1>12, <1>13, <1>14, <1>15, <1>16, <1>17, <1>18, <1>19

\* What a player has a point for in memory has a result in some document, unless it
\* is a bye or an absence of the round that is being paired.
LEMMA PointsStored ==
    ASSUME State, phase \in {"tournament", "players", "repair", "up"},
           NEW p \in Players, NEW e \in PointSet(p)
    PROVE  /\ e \in Entries /\ e \in GameSet(p) /\ p \in who[e] /\ gdoc[e] # "live"
           /\ noshow[e] = p => p \in paused
           /\ ~InHand(e) \/ pdoc[e] # "none" => pdoc[e] = "over" \/ gdoc[e] = "over"
<1> USE DEF State, SInv
<1>1. e \in GameSet(p) /\ gdoc[e] # "live" /\ (noshow[e] = p => p \in paused)
    BY DEF Pointed
<1>2. e \in Entries /\ p \in who[e]
    BY <1>1, GamesPresent
<1>3. ~InHand(e) \/ pdoc[e] # "none" => pdoc[e] # "none"
    BY <1>1, <1>2 DEF Remembered
<1>4. pdoc[e] = "live" => gdoc[e] # "none"
    BY <1>2 DEF Docs
<1> QED
    BY <1>1, <1>2, <1>3, <1>4, Types

\* A player document that is written has the points the player has.
LEMMA SavedIs ==
    ASSUME State, NEW p \in Players, scored' = [scored EXCEPT ![p] = points[p]]
    PROVE  /\ ScoredSet(p)' = PointSet(p) /\ Rising(scored'[p])
           /\ \A q \in Players \ {p} : ScoredSet(q)' = ScoredSet(q) /\ scored'[q] = scored[q]
<1>1. scored \in [Players -> Seq(Entries)]
    BY MemoryTypes DEF State
<1>2. scored'[p] = points[p] /\ \A q \in Players \ {p} : scored'[q] = scored[q]
    BY <1>1
<1>3. Rising(points[p])
    BY DEF State, SInv, Sorted
<1> QED
    BY <1>2, <1>3 DEF ScoredSet, PointSet

\* They are written to the document of one player.
LEMMA UpdatePlayerKeeps ==
    ASSUME State, NEW e \in Entries, UpdatePlayer(e) PROVE SInv'
<1> USE DEF State, SInv
<1>1. /\ UNCHANGED <<kind, who, rnd, gdoc, noshow, pdoc, games, points, paused, ongoing,
                     rolling, rolled, tdoc>>
      /\ SamePairing /\ SamePhase
    BY DEF UpdatePlayer, untouchedByGames, entryVars, playerVars, gameDocs, roundVars, pairProcs,
           SamePairing, SamePhase, SameRound
<1>2. gpc[e] = "players" /\ phase = "up" /\ e \in ongoing /\ gdoc[e] = "over"
    BY DEF UpdatePlayer, Playing
<1>3. PICK p \in todo[e] :
        /\ SavePlayer(p)
        /\ todo' = [todo EXCEPT ![e] = @ \ {p}]
        /\ gpc' = IF todo[e] = {p} THEN [gpc EXCEPT ![e] = "pairing"] ELSE gpc
    BY DEF UpdatePlayer
<1>4. p \in Players
    BY <1>3, Types
<1>5. /\ todo'[e] = todo[e] \ {p}
      /\ gpc'[e] = IF todo[e] = {p} THEN "pairing" ELSE "players"
      /\ \A f \in Entries \ {e} : gpc'[f] = gpc[f] /\ todo'[f] = todo[f]
    BY <1>2, <1>3, Types
<1>6. /\ \A pr \in Pairers : ppc[pr] = "idle" /\ made[pr] = {} /\ cur[pr] = None
      /\ \A f \in Entries : ~InHand(f)
    BY <1>2, NotPairing
<1>7. /\ ScoredSet(p)' = PointSet(p) /\ Rising(scored'[p])
      /\ \A q \in Players \ {p} : ScoredSet(q)' = ScoredSet(q) /\ scored'[q] = scored[q]
    BY <1>3, <1>4, SavedIs DEF SavePlayer
<1>8. \A q \in Players : ScoredSet(q) \subseteq PointSet(q) /\ ScoredSet(q) \subseteq ScoredSet(q)'
    BY <1>2, <1>4, <1>7 DEF Pointed
<1>9. /\ \A f \in Entries : /\ Present(f)' <=> Present(f)
                            /\ Settled(f) => Settled(f)'
                            /\ InHand(f)' <=> InHand(f)
      /\ \A q \in Players : GameSet(q)' = GameSet(q) /\ PointSet(q)' = PointSet(q)
    <2>1. \A f \in Entries : Settled(f) => Settled(f)'
        BY <1>1, <1>8, Types DEF Settled
    <2> QED
        BY <1>1, <2>1, PresentKeeps, InHandKeeps DEF GameSet, PointSet, SamePairing
<1>10. Kinds'
    BY <1>1, <1>2, <1>5 DEF Kinds
<1>11. Sorted'
    BY <1>1, <1>4, <1>7 DEF Sorted
<1>12. Book'
    BY <1>1, <1>9, BookKeeps DEF SamePhase
<1>13. Docs'
    <2>1. ASSUME NEW q \in Players, NEW x \in ScoredSet(q)'
          PROVE  /\ q \in who[x] /\ gdoc[x] # "live"
                 /\ pdoc[x] = "over" \/ gdoc[x] = "over"
                 /\ noshow[x] = q => q \in away'
        <3>1. CASE q = p
            <4>1. x \in PointSet(p)
                BY <1>7, <2>1, <3>1
            <4>2. /\ x \in Entries /\ p \in who[x] /\ gdoc[x] # "live"
                  /\ noshow[x] = p => p \in paused
                  /\ pdoc[x] = "over" \/ gdoc[x] = "over"
                BY <1>2, <1>4, <1>6, <4>1, PointsStored
            <4>3. p \in paused => p \in away'
                BY <1>3 DEF SavePlayer
            <4> QED
                BY <3>1, <4>2, <4>3
        <3>2. CASE q # p
            <4>1. q \in away => q \in away'
                BY <1>3, <3>2 DEF SavePlayer
            <4> QED
                BY <1>2, <1>7, <2>1, <3>2, <4>1 DEF Docs
        <3> QED
            BY <3>1, <3>2
    <2> QED
        BY <1>1, <1>2, <2>1 DEF Docs, SamePhase
<1>14. Remembered'
    BY <1>1, <1>2, <1>9 DEF Remembered, SamePhase
<1>15. Pointed'
    <2>1. \A q \in Players : ScoredSet(q)' \subseteq PointSet(q)'
        BY <1>4, <1>7, <1>8, <1>9
    <2> QED
        BY <1>1, <1>2, <1>9, <2>1 DEF Pointed, SamePhase
<1>16. Documented'
    BY <1>1, <1>9 DEF Documented, SamePhase, SamePairing
<1>17. Playing'
    <2> SUFFICES ASSUME NEW f \in Entries
                 PROVE  /\ f \in ongoing => kind[f] = "game" /\
                               (pdoc[f] = "live" \/ \E pr \in Pairers : f \in made[pr])
                        /\ gpc'[f] \notin {"none", "done", "play"} => f \in ongoing /\ gdoc[f] = "over"
                        /\ f \in ongoing /\ gdoc[f] = "over" => gpc'[f] \notin {"none", "done", "play"}
                        /\ gpc'[f] = "play" => f \in rolled \/ (f \in ongoing /\ gdoc[f] = "live")
                        /\ gpc'[f] \in {"players", "pairing"} =>
                            /\ phase = "up"
                            /\ \A q \in who[f] : /\ f \in PointSet(q)
                                                 /\ gpc'[f] = "pairing" \/ q \notin todo'[f] =>
                                                        f \in ScoredSet(q)'
        <3>1. UNCHANGED <<kind, who, gdoc, pdoc, ongoing, rolled, phase, made>>
            BY <1>1 DEF SamePairing, SamePhase
        <3>2. \A f \in Entries : \A q \in who[f] : PointSet(q)' = PointSet(q)
            BY <1>9, Types
        <3> QED
            BY <3>1, <3>2 DEF Playing
    <2>1. CASE f = e
        <3>1. \A q \in who[e] : e \in PointSet(q) /\ (q \notin todo[e] => e \in ScoredSet(q))
            BY <1>2 DEF Playing
        <3>2. \A q \in who[e] : q = p \/ q \notin todo[e] => e \in ScoredSet(q)'
            BY <1>4, <1>7, <1>8, <3>1, Types
        <3> QED
            BY <1>2, <1>5, <2>1, <3>1, <3>2 DEF Playing
    <2>2. CASE f # e
        <3>1. \A q \in who[f] : ScoredSet(q) \subseteq ScoredSet(q)'
            BY <1>8, Types
        <3> QED
            BY <1>5, <2>2, <3>1 DEF Playing
    <2> QED
        BY <2>1, <2>2
<1>18. Registers'
    BY <1>1, <1>9 DEF Registers, SamePairing, SamePhase, SameRound, Pairing
<1>19. Solo' /\ Opening' /\ Fills' /\ Planned'
    BY <1>1, <1>6, NobodyPairs DEF SamePairing
<1> QED
    BY <1>10, <1>11, <1>12, <1>13, <1>14, <1>15, <1>16, <1>17, <1>18, <1>19

\* And to that of the pairing: the game is over for the tournament.
LEMMA UpdatePairingKeeps ==
    ASSUME State, NEW e \in Entries, UpdatePairing(e) PROVE SInv'
<1> USE DEF State, SInv
<1>1. gpc[e] = "pairing" /\ phase = "up" /\ e \in ongoing /\ gdoc[e] = "over"
    BY DEF UpdatePairing, Playing
<1>2. /\ UNCHANGED <<kind, who, rnd, gdoc, noshow, scored, away, games, points, paused,
                     rolling, rolled>>
      /\ SamePairing /\ SamePhase
    <2>1. tdoc' = tdoc \/ tdoc' = [tdoc EXCEPT !.next = @ \/ mode = "auto"]
        BY DEF UpdatePairing
    <2>2. SameRound
        BY <2>1, RegisterTypes DEF SameRound, Documents
    <2> QED
        BY <2>2 DEF UpdatePairing, entryVars, gameDocs, playerDocs, roundVars, pairProcs, history,
                    SamePairing, SamePhase
<1>3. ongoing' = ongoing \ {e}
    BY <1>1 DEF UpdatePairing
<1>4. /\ gpc'[e] = "done" /\ pdoc'[e] = "over"
      /\ \A f \in Entries \ {e} : gpc'[f] = gpc[f] /\ pdoc'[f] = pdoc[f] /\ todo'[f] = todo[f]
    BY Types DEF UpdatePairing, StorePairing
<1>5. /\ \A pr \in Pairers : ppc[pr] = "idle" /\ made[pr] = {} /\ cur[pr] = None
      /\ \A f \in Entries : ~InHand(f)
    BY <1>1, NotPairing
<1>6. pdoc[e] = "live" /\ kind[e] = "game"
    BY <1>1, <1>5 DEF Playing
<1>7. /\ \A f \in Entries : /\ Present(f)' <=> Present(f)
                            /\ Settled(f) => Settled(f)'
                            /\ InHand(f)' <=> InHand(f)
      /\ Settled(e)'
      /\ \A q \in Players : /\ GameSet(q)' = GameSet(q) /\ PointSet(q)' = PointSet(q)
                            /\ ScoredSet(q)' = ScoredSet(q)
    <2>1. \A q \in Players : ScoredSet(q)' = ScoredSet(q)
        BY <1>2 DEF ScoredSet
    <2>2. \A f \in Entries : Settled(f) => Settled(f)'
        BY <1>2, <1>4, <2>1, Types DEF Settled
    <2>3. \A q \in who[e] : e \in ScoredSet(q)
        BY <1>1 DEF Playing
    <2>4. Settled(e)'
        BY <1>2, <1>4, <2>1, <2>3, Types DEF Settled
    <2>5. \A f \in Entries : Present(f)' <=> Present(f)
        BY <1>1, <1>2, <1>4, <1>6 DEF Present, SamePairing
    <2> QED
        BY <1>2, <2>1, <2>2, <2>4, <2>5, InHandKeeps DEF GameSet, PointSet
<1>8. Kinds'
    BY <1>2, <1>4, <1>6 DEF Kinds
<1>9. Sorted'
    BY <1>2 DEF Sorted
<1>10. Book'
    BY <1>2, <1>4, <1>6, <1>7, BookKeeps DEF SamePhase
<1>11. Docs'
    <2>1. \A q \in Players : \A x \in ScoredSet(q) : x \in Entries
        BY Members
    <2> QED
        BY <1>1, <1>2, <1>4, <1>7, <2>1 DEF Docs, SamePhase, SameRound
<1>12. Remembered'
    BY <1>1, <1>2, <1>4, <1>6, <1>7 DEF Remembered, SamePhase
<1>13. Pointed'
    BY <1>1, <1>2, <1>7 DEF Pointed, SamePhase
<1>14. Documented'
    BY <1>1, <1>2, <1>3, <1>4, <1>7 DEF Documented, SamePhase, SamePairing
<1>15. Playing'
    <2> SUFFICES ASSUME NEW f \in Entries
                 PROVE  /\ f \in ongoing' => kind[f] = "game" /\
                               (pdoc'[f] = "live" \/ \E pr \in Pairers : f \in made[pr])
                        /\ gpc'[f] \notin {"none", "done", "play"} => f \in ongoing' /\ gdoc[f] = "over"
                        /\ f \in ongoing' /\ gdoc[f] = "over" => gpc'[f] \notin {"none", "done", "play"}
                        /\ gpc'[f] = "play" => f \in rolled \/ (f \in ongoing' /\ gdoc[f] = "live")
                        /\ gpc'[f] \in {"players", "pairing"} =>
                            /\ phase = "up"
                            /\ \A q \in who[f] : /\ f \in PointSet(q)
                                                 /\ gpc'[f] = "pairing" \/ q \notin todo'[f] =>
                                                        f \in ScoredSet(q)
        <3>1. UNCHANGED <<kind, who, gdoc, rolled, phase, made>>
            BY <1>2 DEF SamePairing, SamePhase
        <3>2. \A f \in Entries : \A q \in who[f] : PointSet(q)' = PointSet(q) /\ ScoredSet(q)' = ScoredSet(q)
            BY <1>7, Types
        <3> QED
            BY <3>1, <3>2 DEF Playing
    <2>1. CASE f = e
        BY <1>3, <1>4, <2>1
    <2>2. CASE f # e
        BY <1>3, <1>4, <2>2 DEF Playing
    <2> QED
        BY <2>1, <2>2
<1>16. Registers'
    BY <1>1, <1>2, <1>3, <1>7 DEF Registers, SamePairing, SamePhase, SameRound, Pairing
<1>17. Solo' /\ Opening' /\ Fills' /\ Planned'
    BY <1>2, <1>5, NobodyPairs DEF SamePairing
<1> QED
    BY <1>8, <1>9, <1>10, <1>11, <1>12, <1>13, <1>14, <1>15, <1>16, <1>17

-----------------------------------------------------------------------------
(* The process dies and starts again *)

\* What is in memory is lost.
LEMMA CrashKeeps ==
    ASSUME State, Crash, ~Disturbed' PROVE SInv'
<1> USE DEF State, SInv
<1>1. /\ UNCHANGED <<kind, who, rnd, gdoc, noshow, pdoc, scored, away, rolled, tdoc>>
      /\ phase' = "users" /\ status' = "started" /\ tdoc.status = "started"
      /\ ongoing' = {} /\ rolling' = {}
      /\ \A p \in Players : games'[p] = <<>> /\ points'[p] = <<>>
      /\ \A e \in Entries : gpc'[e] = "none"
    BY DEF Crash, entryVars, gameDocs, playerDocs
<1>2. \A pr \in Pairers : ppc'[pr] = "idle" /\ made'[pr] = {} /\ cur'[pr] = None
    BY DEF Crash
<1>3. \A p \in Players : \A e \in ScoredSet(p) : pdoc[e] # "none"
    BY DEF Crash, Disturbed, ScoredSet
<1>4. /\ \A e \in Entries : /\ Present(e)' => Present(e)
                            /\ Settled(e)' <=> Settled(e)
      /\ \A p \in Players : ScoredSet(p)' = ScoredSet(p)
    <2>1. \A e \in Entries : e # None
        BY SwissAssumption
    <2>2. \A e \in Entries : Present(e)' => Present(e)
        BY <1>1, <1>2, <2>1 DEF Present
    <2> QED
        BY <1>1, <2>2, SettledKeeps DEF ScoredSet
<1>5. Kinds'
    BY <1>1 DEF Kinds
<1>6. Sorted'
    BY <1>1 DEF Sorted, Rising
<1>7. Book'
    BY <1>1, <1>4, BookKeeps DEF SameRound
<1>8. Docs'
    BY <1>1, <1>3, <1>4 DEF Docs
<1>9. Remembered' /\ Pointed' /\ Documented'
    BY <1>1 DEF Remembered, Pointed, Documented
<1>10. Playing'
    BY <1>1 DEF Playing
<1>11. Registers'
    BY <1>1 DEF Registers
<1>12. Solo' /\ Opening' /\ Fills' /\ Planned'
    BY <1>2, NobodyPairs
<1> QED
    BY <1>5, <1>6, <1>7, <1>8, <1>9, <1>10, <1>11, <1>12

\* A step of the start leaves the pairing coroutines alone, of which there are none.
LEMMA StartKeeps ==
    ASSUME State, StartStep
    PROVE  /\ phase # "up" /\ UNCHANGED <<kind, who, noshow, status, todo>> /\ SamePairing
           /\ \A pr \in Pairers : /\ ppc[pr] = "idle" /\ made[pr] = {} /\ cur[pr] = None
                                  /\ ppc'[pr] = "idle" /\ made'[pr] = {} /\ cur'[pr] = None
           /\ \A e \in Entries : /\ ~InHand(e) /\ ~InHand(e)'
                                 /\ Present(e) <=> gdoc[e] # "none" \/ pdoc[e] # "none"
                                 /\ Present(e)' <=> gdoc'[e] # "none" \/ pdoc'[e] # "none"
           /\ Solo' /\ Opening' /\ Fills' /\ Planned'
<1> USE DEF State, SInv
<1>1. /\ phase # "up" /\ UNCHANGED <<kind, who, noshow, status, todo, ppc, plan, rest, cur, made>>
    BY DEF StartStep, Load, RecoverScore, ScoresRecovered, KeepRound, RollbackGames,
           RollbackPairings, RollbackRound, RollbackPlayer, Repair, untouchedByStart, pairProcs
<1>2. \A pr \in Pairers : ppc[pr] = "idle" /\ made[pr] = {} /\ cur[pr] = None
    BY <1>1, NoPairing
<1>3. \A e \in Entries : e # None
    BY SwissAssumption
<1>4. \A e \in Entries : ~InHand(e) /\ ~InHand(e)'
    BY <1>1, <1>2, <1>3 DEF InHand
<1>5. \A e \in Entries : /\ Present(e) <=> gdoc[e] # "none" \/ pdoc[e] # "none"
                         /\ Present(e)' <=> gdoc'[e] # "none" \/ pdoc'[e] # "none"
    BY <1>1, <1>2, <1>3 DEF Present
<1>6. \A pr \in Pairers : ppc'[pr] = "idle" /\ made'[pr] = {} /\ cur'[pr] = None
    BY <1>1, <1>2
<1> QED
    BY <1>1, <1>2, <1>4, <1>5, <1>6, NobodyPairs DEF SamePairing

\* load_tournament(): the players and their games are read.
LEMMA LoadKeeps ==
    ASSUME State, Load PROVE SInv'
<1> USE DEF State, SInv
<1> DEFINE live == {e \in Entries : gdoc[e] = "live"}
           over == {e \in Entries : gdoc[e] = "over" \/ (gdoc[e] = "none" /\ pdoc[e] = "over")}
           of(p) == {e \in live \cup over : p \in who[e]}
<1>1. /\ phase = "users" /\ phase' = "scores" /\ round' = tdoc.cr /\ inProgress' = tdoc.inProgress
      /\ UNCHANGED <<kind, who, rnd, gdoc, noshow, scored, away, rolling, rolled, tdoc, status>>
      /\ points' = scored /\ paused' = away
    BY DEF Load, untouchedByStart, playerDocs
<1>2. /\ \A e \in Entries : pdoc'[e] = IF gdoc[e] # "none" THEN gdoc[e] ELSE pdoc[e]
      /\ ongoing' = live
      /\ \A e \in Entries : gpc'[e] = IF e \in live THEN "play" ELSE "none"
      /\ \A p \in Players : games'[p] = ByDate(of(p))
    <2> DEFINE repaired == [e \in Entries |-> IF gdoc[e] # "none" THEN gdoc[e] ELSE pdoc[e]]
               alive == {e \in Entries : repaired[e] = "live" /\ gdoc[e] = "live"}
               ended == {e \in Entries : repaired[e] = "over"}
    <2>1. alive = live /\ ended = over
        OBVIOUS
    <2>2. /\ pdoc' = repaired /\ ongoing' = alive
          /\ gpc' = [e \in Entries |-> IF e \in alive THEN "play" ELSE "none"]
          /\ games' = [p \in Players |-> ByDate({e \in alive \cup ended : p \in who[e]})]
        BY DEF Load, GamesResume
    <2> QED
        BY <2>1, <2>2
<1>3. ASSUME NEW p \in Players
      PROVE  Rising(games'[p]) /\ GameSet(p)' = of(p)
    <2>1. of(p) \in SUBSET (1..MaxEntries) /\ MaxEntries \in Nat
        BY EntriesNat
    <2> HIDE DEF of
    <2>2. Rising(Ascending(of(p))) /\ ToSet(Ascending(of(p))) = of(p)
        BY <2>1, AscendingIs
    <2> QED
        BY <1>2, <2>2 DEF ByDate, GameSet
<1>4. StartStep
    BY DEF StartStep
<1>5. /\ \A e \in Entries : ~InHand(e)'
      /\ \A e \in Entries : Present(e)' <=> gdoc'[e] # "none" \/ pdoc'[e] # "none"
      /\ \A e \in Entries : Present(e) <=> gdoc[e] # "none" \/ pdoc[e] # "none"
      /\ Solo' /\ Opening' /\ Fills' /\ Planned'
    BY <1>4, StartKeeps
<1>6. \A p \in Players : ScoredSet(p)' = ScoredSet(p) /\ PointSet(p)' = ScoredSet(p)
    BY <1>1 DEF ScoredSet, PointSet
<1>7. \A e \in Entries : pdoc[e] = "over" => pdoc'[e] = "over"
    BY <1>2, Types DEF Docs
<1>8. \A e \in Entries : Settled(e) => Settled(e)'
    BY <1>1, <1>6, <1>7, Types DEF Settled
<1>9. Kinds'
    BY <1>1, <1>2 DEF Kinds
<1>10. Sorted'
    BY <1>1, <1>3 DEF Sorted
<1>11. Book'
    <2>1. \A e \in Entries : /\ Present(e)' => Present(e)
                             /\ pdoc[e] # "none" => pdoc'[e] # "none"
        BY <1>1, <1>2, <1>5
    <2> QED
        BY <1>1, <1>8, <2>1, BookKeeps DEF SameRound
<1>12. Docs'
    <2>1. \A e \in Entries : pdoc'[e] = "over" => gdoc[e] # "live"
        BY <1>2
    <2>2. ASSUME NEW p \in Players, NEW e \in ScoredSet(p)
          PROVE  p \in who[e] /\ gdoc[e] # "live" /\ (pdoc'[e] = "over" \/ gdoc[e] = "over")
                 /\ (noshow[e] = p => p \in away)
        BY <1>1, <1>7, Members DEF Docs
    <2>3. \A e \in Entries : pdoc'[e] = "live" /\ gdoc[e] = "none" => rnd[e] = tdoc.inProgress
        BY <1>2 DEF Docs
    <2> QED
        BY <1>1, <1>6, <2>1, <2>2, <2>3 DEF Docs
<1>13. Remembered'
    <2>1. \A p \in Players :
            of(p) = {e \in Entries : p \in who[e] /\ (gdoc[e] # "none" \/ pdoc'[e] = "over")}
        BY <1>2, Types
    <2> HIDE DEF of
    <2> QED
        BY <1>1, <1>3, <2>1 DEF Remembered
<1>14. Pointed'
    <2>1. ASSUME NEW p \in Players, NEW e \in ScoredSet(p)
          PROVE  e \in of(p) /\ gdoc[e] # "live" /\ (noshow[e] = p => p \in away)
        <3>1. /\ e \in Entries /\ p \in who[e] /\ gdoc[e] # "live"
              /\ pdoc[e] = "over" \/ gdoc[e] = "over"
              /\ noshow[e] = p => p \in away
            BY <1>1, Members DEF Docs
        <3> QED
            BY <3>1, Types
    <2> HIDE DEF of
    <2> QED
        BY <1>1, <1>3, <1>6, <2>1 DEF Pointed
<1>15. Documented'
    BY <1>1, <1>2, Types DEF Documented
<1>16. Playing'
    BY <1>1, <1>2 DEF Playing, Kinds
<1>17. Registers'
    BY <1>1 DEF Registers
<1> QED
    BY <1>5, <1>9, <1>10, <1>11, <1>12, <1>13, <1>14, <1>15, <1>16, <1>17

\* A game that ended without its points is given them.
LEMMA RecoverScoreKeeps ==
    ASSUME State, RecoverScore PROVE SInv'
<1> USE DEF State, SInv
<1>1. /\ phase = "scores"
      /\ UNCHANGED <<kind, who, rnd, gdoc, noshow, pdoc, games, ongoing, rolling, rolled, tdoc,
                     phase, status, round, inProgress, gpc, todo>>
    BY DEF RecoverScore, untouchedByStart
<1>2. PICK e \in Unscored, p \in Players :
        /\ p \in who[e] /\ ~Applied(e, p)
        /\ points' = Added(points, {p}, e)
        /\ paused' = paused \cup ({noshow[e]} \ {None})
        /\ scored' = [scored EXCEPT ![p] = Append(points[p], e)]
        /\ away' = IF p \in paused \cup {noshow[e]} THEN away \cup {p} ELSE away \ {p}
    BY DEF RecoverScore
<1>3. e \in Entries /\ kind[e] = "game" /\ pdoc[e] = "over" /\ gdoc[e] # "live"
    BY <1>2 DEF Unscored, Docs
<1>4. e \in GameSet(p) /\ e \notin PointSet(p) /\ scored = points
    BY <1>1, <1>2, <1>3, AppliedIs DEF Remembered, Pointed
<1>5. /\ scored' = points'
      /\ points'[p] = Append(points[p], e)
      /\ \A q \in Players \ {p} : points'[q] = points[q]
    <2>1. scored \in [Players -> Seq(Entries)] /\ points \in [Players -> Seq(Entries)]
        BY MemoryTypes
    <2>2. points' = [q \in Players |-> IF q = p THEN Append(points[q], e) ELSE points[q]]
        BY <1>2 DEF Added
    <2> QED
        BY <1>2, <1>4, <2>1, <2>2
<1>6. /\ Rising(points'[p])
      /\ PointSet(p)' = PointSet(p) \cup {e}
      /\ \A q \in Players \ {p} : PointSet(q)' = PointSet(q)
      /\ \A q \in Players : ScoredSet(q)' = PointSet(q)' /\ ScoredSet(q) = PointSet(q)
                            /\ GameSet(q)' = GameSet(q)
    <2>1. points[p] \in Seq(Entries) /\ Rising(points[p])
        BY MemoryTypes DEF Sorted
    <2>2. \A x \in ToSet(points[p]) : x < e
        <3>1. PointSet(p) \subseteq GameSet(p)
            BY <1>1 DEF Pointed
        <3> QED
            BY <1>4, <3>1, Behind DEF PointSet
    <2>3. Rising(Append(points[p], e)) /\ ToSet(Append(points[p], e)) = ToSet(points[p]) \cup {e}
        BY <1>3, <2>1, <2>2, AppendIs
    <2> QED
        BY <1>1, <1>4, <1>5, <2>3 DEF PointSet, ScoredSet, GameSet
<1>7. StartStep
    BY DEF StartStep
<1>8. /\ \A x \in Entries : ~InHand(x)' /\ (Present(x)' <=> Present(x))
      /\ Solo' /\ Opening' /\ Fills' /\ Planned'
    BY <1>1, <1>7, StartKeeps
<1>9. \A x \in Entries : Settled(x) => Settled(x)'
    BY <1>1, <1>6, Types DEF Settled
<1>10. Kinds'
    BY <1>1 DEF Kinds
<1>11. Sorted'
    BY <1>1, <1>5, <1>6 DEF Sorted
<1>12. Book'
    BY <1>1, <1>8, <1>9, BookKeeps DEF SameRound
<1>13. Docs'
    <2>1. ASSUME NEW q \in Players, NEW x \in ScoredSet(q)'
          PROVE  /\ q \in who[x] /\ gdoc[x] # "live"
                 /\ pdoc[x] = "over" \/ gdoc[x] = "over"
                 /\ noshow[x] = q => q \in away'
        <3>1. CASE q = p /\ x = e
            BY <1>2, <1>3, <3>1
        <3>2. CASE q = p /\ x # e
            <4>1. x \in PointSet(p) /\ x \in ScoredSet(p)
                BY <1>6, <2>1, <3>2
            <4>2. noshow[x] = p => p \in paused
                BY <1>1, <4>1 DEF Pointed
            <4> QED
                BY <1>1, <1>2, <3>2, <4>1, <4>2 DEF Docs
        <3>3. CASE q # p
            <4>1. x \in ScoredSet(q)
                BY <1>6, <2>1, <3>3
            <4> QED
                BY <1>1, <1>2, <3>3, <4>1 DEF Docs
        <3> QED
            BY <3>1, <3>2, <3>3
    <2> QED
        BY <1>1, <2>1 DEF Docs
<1>14. Remembered'
    BY <1>1, <1>6 DEF Remembered
<1>15. Pointed'
    <2>1. ASSUME NEW q \in Players
          PROVE  /\ PointSet(q)' \subseteq GameSet(q)
                 /\ \A x \in PointSet(q)' : gdoc[x] # "live" /\ (noshow[x] = q => q \in paused')
        <3>1. q # None
            BY SwissAssumption
        <3>2. /\ PointSet(q) \subseteq GameSet(q)
              /\ \A x \in PointSet(q) : gdoc[x] # "live" /\ (noshow[x] = q => q \in paused)
            BY <1>1 DEF Pointed
        <3>3. \A x \in PointSet(q)' : x \in PointSet(q) \/ (x = e /\ q = p)
            BY <1>6
        <3> QED
            BY <1>2, <1>3, <1>4, <3>1, <3>2, <3>3
    <2> QED
        BY <1>1, <1>5, <1>6, <2>1 DEF Pointed
<1>16. Documented'
    BY <1>1 DEF Documented
<1>17. Playing'
    BY <1>1, <1>8, StartKeeps, <1>7 DEF Playing, SamePairing
<1>18. Registers'
    BY <1>1 DEF Registers
<1> QED
    BY <1>8, <1>10, <1>11, <1>12, <1>13, <1>14, <1>15, <1>16, <1>17, <1>18

\* All of them have been.
LEMMA ScoresRecoveredKeeps ==
    ASSUME State, ScoresRecovered PROVE SInv'
<1> USE DEF State, SInv
<1>1. /\ phase = "scores" /\ phase' = "round" /\ Unscored = {}
      /\ UNCHANGED <<kind, who, rnd, gdoc, noshow, pdoc, scored, away, games, points, paused,
                     ongoing, rolling, rolled, tdoc, status, round, inProgress, gpc, todo>>
    BY DEF ScoresRecovered, untouchedByStart, playerDocs, playerVars
<1>2. StartStep
    BY DEF StartStep
<1>3. /\ \A x \in Entries : ~InHand(x)' /\ (Present(x)' <=> Present(x))
      /\ \A x \in Entries : Settled(x)' <=> Settled(x)
      /\ Solo' /\ Opening' /\ Fills' /\ Planned'
    BY <1>1, <1>2, StartKeeps, SettledKeeps
<1>4. \A q \in Players : /\ GameSet(q)' = GameSet(q) /\ PointSet(q)' = PointSet(q)
                         /\ ScoredSet(q)' = ScoredSet(q)
    BY <1>1 DEF GameSet, PointSet, ScoredSet
<1>5. Kinds' /\ Sorted'
    BY <1>1 DEF Kinds, Sorted
<1>6. Book'
    BY <1>1, <1>3, BookKeeps DEF SameRound
<1>7. Docs'
    BY <1>1, <1>4 DEF Docs
<1>8. Remembered'
    BY <1>1, <1>4 DEF Remembered
<1>9. Pointed'
    <2>1. ASSUME NEW e \in Entries, pdoc[e] = "over", kind[e] = "game", NEW p \in who[e]
          PROVE  e \in PointSet(p)
        <3>1. p \in Players /\ e \in GameSet(p)
            BY <1>1, <2>1, Types DEF Remembered
        <3>2. Applied(e, p)
            BY <1>1, <2>1, <3>1 DEF Unscored, GameSet
        <3> QED
            BY <3>1, <3>2, AppliedIs
    <2>2. \A e \in Entries : \A p \in who[e] : PointSet(p)' = PointSet(p)
        BY <1>4, Types
    <2>3. scored = points
        BY <1>1 DEF Pointed
    <2> QED
        BY <1>1, <1>4, <2>1, <2>2, <2>3 DEF Pointed
<1>10. Documented'
    BY <1>1 DEF Documented
<1>11. Playing'
    BY <1>1, <1>2, StartKeeps DEF Playing, SamePairing
<1>12. Registers'
    BY <1>1 DEF Registers
<1> QED
    BY <1>3, <1>5, <1>6, <1>7, <1>8, <1>9, <1>10, <1>11, <1>12

\* In a round that is complete no pairing is without its game.
LEMMA RoundWhole ==
    ASSUME State, phase = "round", inProgress = 0 \/ Complete(inProgress), NEW e \in Entries
    PROVE  ~(pdoc[e] = "live" /\ gdoc[e] = "none")
<1> USE DEF State, SInv
<1> SUFFICES ASSUME pdoc[e] = "live", gdoc[e] = "none" PROVE FALSE
    OBVIOUS
<1>1. Present(e) /\ kind[e] # "none"
    BY PresentMade DEF Present
<1>2. rnd[e] = tdoc.inProgress /\ rnd[e] # 0 /\ inProgress = tdoc.inProgress
    BY <1>1 DEF Docs, Book, InRounds, Registers
<1>3. PICK p \in Players : p \in who[e]
    BY <1>1, Types DEF Kinds
<1>4. PICK i \in DOMAIN games[p] : rnd[games[p][i]] = inProgress
    BY <1>2 DEF Complete
<1>5. games[p][i] \in GameSet(p)
    BY DEF GameSet, ToSet
<1>6. PICK f \in Entries : f \in GameSet(p) /\ rnd[f] = inProgress /\ p \in who[f] /\ Present(f)
    BY <1>4, <1>5, GamesPresent
<1>7. e \notin GameSet(p)
    BY DEF Remembered
<1>8. e # f /\ rnd[e] = rnd[f]
    BY <1>2, <1>6, <1>7
<1> QED
    BY <1>1, <1>3, <1>6, <1>8 DEF Book, Unique

\* A round that was in progress and is complete is kept.
LEMMA KeepRoundKeeps ==
    ASSUME State, KeepRound PROVE SInv'
<1> USE DEF State, SInv
<1>1. /\ phase = "round" /\ phase' = "repair" /\ (inProgress = 0 \/ Complete(inProgress))
      /\ UNCHANGED <<kind, who, rnd, gdoc, noshow, pdoc, scored, away, games, points, paused,
                     ongoing, rolling, rolled, status, gpc, todo>>
    BY DEF KeepRound, untouchedByStart, playerDocs, playerVars
<1>2. StartStep
    BY DEF StartStep
<1>3. /\ \A x \in Entries : ~InHand(x)' /\ (Present(x)' <=> Present(x))
      /\ \A x \in Entries : Settled(x)' <=> Settled(x)
      /\ Solo' /\ Opening' /\ Fills' /\ Planned'
    BY <1>1, <1>2, StartKeeps, SettledKeeps
<1>4. \A q \in Players : /\ GameSet(q)' = GameSet(q) /\ PointSet(q)' = PointSet(q)
                         /\ ScoredSet(q)' = ScoredSet(q)
    BY <1>1 DEF GameSet, PointSet, ScoredSet
<1>5. round = tdoc.cr /\ inProgress = tdoc.inProgress /\ tdoc.status = "started"
      /\ tdoc.inProgress \in {0, tdoc.cr + 1} /\ tdoc.cr \in Nat /\ inProgress \in Nat
    BY <1>1, RegisterTypes DEF Registers, Book, InRounds, Documents
<1>6. \/ /\ inProgress = 0 /\ UNCHANGED <<tdoc, round, inProgress>>
      \/ /\ inProgress # 0 /\ inProgress = tdoc.cr + 1
         /\ round' = tdoc.cr + 1 /\ inProgress' = 0
         /\ tdoc'.cr = tdoc.cr + 1 /\ tdoc'.inProgress = 0 /\ tdoc'.status = tdoc.status
    <2>1. CASE inProgress = 0
        BY <1>1, <2>1 DEF KeepRound
    <2>2. CASE inProgress # 0
        <3>1. inProgress = tdoc.cr + 1
            BY <1>5, <2>2
        <3>2. /\ round' = IF round < inProgress THEN inProgress ELSE round
              /\ inProgress' = IF inProgress = round' THEN 0 ELSE inProgress
              /\ tdoc' = [tdoc EXCEPT !.cr = round', !.next = FALSE,
                                      !.inProgress = IF inProgress = round' THEN 0 ELSE @]
            BY <2>2 DEF KeepRound
        <3>3. round' = inProgress /\ inProgress' = 0
            BY <1>5, <3>1, <3>2
        <3> QED
            BY <2>2, <3>1, <3>2, <3>3, RegisterTypes DEF Documents
    <2> QED
        BY <2>1, <2>2
<1>7. \A e \in Entries : ~(pdoc[e] = "live" /\ gdoc[e] = "none")
    BY <1>1, RoundWhole
<1>8. Kinds' /\ Sorted'
    BY <1>1 DEF Kinds, Sorted
<1>9. Book'
    <2>1. CASE inProgress = 0
        BY <1>1, <1>3, <1>6, <2>1, BookKeeps DEF SameRound
    <2>2. CASE inProgress # 0
        <3>1. /\ tdoc'.cr = tdoc.cr + 1 /\ tdoc'.inProgress = 0 /\ inProgress = tdoc.cr + 1
              /\ rnd \in [Entries -> Nat]
            BY <1>6, <2>2, Types, RegisterTypes
        <3>2. InRounds'
            BY <1>1, <1>3, <1>5, <3>1 DEF Book, InRounds
        <3>3. Full'
            <4> SUFFICES ASSUME NEW p \in Players, NEW r \in 1..tdoc.cr + 1
                         PROVE  \E e \in Entries : p \in who[e] /\ rnd[e] = r /\ pdoc[e] # "none"
                BY <1>1, <3>1 DEF Full
            <4>1. CASE r \in 1..tdoc.cr
                BY <4>1 DEF Book, Full
            <4>2. CASE r = inProgress
                <5>1. PICK i \in DOMAIN games[p] : rnd[games[p][i]] = inProgress
                    BY <1>1, <2>2 DEF Complete
                <5>2. games[p][i] \in GameSet(p)
                    BY DEF GameSet, ToSet
                <5>3. PICK f \in Entries : f \in GameSet(p) /\ rnd[f] = inProgress /\ p \in who[f]
                    BY <5>1, <5>2, GamesPresent
                <5>4. pdoc[f] # "none"
                    BY <1>1, <5>3 DEF Remembered, Documented
                <5> QED
                    BY <4>2, <5>3, <5>4
            <4> QED
                BY <1>5, <3>1, <4>1, <4>2
        <3>4. Unique' /\ Ordered'
            BY <1>1, <1>3 DEF Book, Unique, Ordered
        <3> QED
            BY <3>2, <3>3, <3>4 DEF Book
    <2> QED
        BY <2>1, <2>2
<1>10. Docs'
    BY <1>1, <1>4, <1>7 DEF Docs
<1>11. Remembered'
    <2>1. ASSUME NEW p \in Players
          PROVE  GameSet(p) = {e \in Entries : p \in who[e] /\ pdoc[e] # "none"}
        <3>1. \A e \in Entries : gdoc[e] # "none" \/ pdoc[e] = "over" <=> pdoc[e] # "none"
            BY <1>1, <1>7, Types DEF Documented
        <3> QED
            BY <1>1, <3>1 DEF Remembered
    <2> QED
        BY <1>1, <1>3, <1>4, <2>1 DEF Remembered
<1>12. Pointed'
    <2>1. scored = points
        BY <1>1 DEF Pointed
    <2>2. \A e \in Entries : \A p \in who[e] : PointSet(p)' = PointSet(p)
        BY <1>4, Types
    <2> QED
        BY <1>1, <1>4, <2>1, <2>2 DEF Pointed
<1>13. Documented'
    BY <1>1 DEF Documented
<1>14. Playing'
    BY <1>1, <1>2, StartKeeps DEF Playing, SamePairing
<1>15. Registers'
    BY <1>1, <1>5, <1>6 DEF Registers
<1> QED
    BY <1>3, <1>8, <1>9, <1>10, <1>11, <1>12, <1>13, <1>14, <1>15

\* One that is not loses its games,
LEMMA RollbackGamesKeeps ==
    ASSUME State, RollbackGames, ~Disturbed' PROVE SInv'
<1> USE DEF State, SInv
<1>1. /\ phase = "round" /\ phase' = "pairings" /\ inProgress # 0
      /\ UNCHANGED <<kind, who, rnd, noshow, pdoc, scored, away, games, points, paused,
                     ongoing, rolling, status, gpc, todo, tdoc, round, inProgress>>
    BY DEF RollbackGames, untouchedByStart, playerDocs, playerVars
<1>2. PICK gone :
        /\ \/ gone = {e \in OfRound(inProgress) : kind[e] = "game"}
           \/ /\ {e \in OfRound(inProgress) : kind[e] = "game"} = {}
              /\ gone = {e \in Entries : gdoc[e] = "live"}
        /\ gdoc' = [e \in Entries |-> IF e \in gone THEN "none" ELSE gdoc[e]]
        /\ rolled' = rolled \cup gone
        /\ ghost' = (ghost \/ \E e \in gone : gpc[e] \notin {"none", "play"})
    <2> DEFINE paired == {e \in OfRound(inProgress) : kind[e] = "game"}
               all == IF paired # {} THEN paired ELSE {e \in Entries : gdoc[e] = "live"}
    <2>1. /\ gdoc' = [e \in Entries |-> IF e \in all THEN "none" ELSE gdoc[e]]
          /\ rolled' = rolled \cup all
          /\ ghost' = (ghost \/ \E e \in all : gpc[e] \notin {"none", "play"})
        BY DEF RollbackGames
    <2>2. \/ all = paired
          \/ paired = {} /\ all = {e \in Entries : gdoc[e] = "live"}
        OBVIOUS
    <2> HIDE DEF all
    <2> QED
        BY <2>1, <2>2
<1>3. \A e \in gone : gpc[e] \in {"none", "play"}
    BY <1>2 DEF Disturbed
<1>4. /\ \A e \in gone \cap Entries : gdoc'[e] = "none"
      /\ \A e \in Entries \ gone : gdoc'[e] = gdoc[e]
    BY <1>2
<1>5. StartStep
    BY DEF StartStep
<1>6. /\ \A e \in Entries : ~InHand(e)' /\ (Present(e)' => Present(e))
      /\ \A e \in Entries : gdoc[e] # "none" => Present(e)
      /\ \A e \in Entries : Settled(e)' <=> Settled(e)
      /\ Solo' /\ Opening' /\ Fills' /\ Planned'
    <2>1. \A e \in Entries : gdoc'[e] # "none" => gdoc[e] # "none"
        BY <1>4
    <2> QED
        BY <1>1, <1>5, <2>1, StartKeeps, SettledKeeps
<1>7. \A q \in Players : /\ GameSet(q)' = GameSet(q) /\ PointSet(q)' = PointSet(q)
                         /\ ScoredSet(q)' = ScoredSet(q)
    BY <1>1 DEF GameSet, PointSet, ScoredSet
<1>8. inProgress = tdoc.inProgress /\ tdoc.status = "started"
    BY <1>1 DEF Registers
\* Only games of the round in progress are removed, and all of them.
<1>9. \A e \in gone : e \in Entries /\ rnd[e] = inProgress
    <2> SUFFICES ASSUME NEW e \in Entries, gdoc[e] = "live" PROVE rnd[e] = inProgress
        BY <1>2 DEF OfRound
    <2>1. Present(e)
        BY <1>6
    <2>2. ~Settled(e)
        BY DEF Settled, Docs
    <2> QED
        BY <1>1, <1>8, <2>1, <2>2 DEF Book, InRounds
<1>10. \A e \in Entries : gdoc[e] # "none" /\ rnd[e] = inProgress => e \in gone
    <2> SUFFICES ASSUME NEW e \in Entries, gdoc[e] # "none", rnd[e] = inProgress
                 PROVE  e \in {f \in OfRound(inProgress) : kind[f] = "game"}
        BY <1>2
    <2> QED
        BY <1>1 DEF Kinds, Documented, OfRound
<1>11. Kinds'
    BY <1>1, <1>4 DEF Kinds
<1>12. Sorted'
    BY <1>1 DEF Sorted
<1>13. Book'
    BY <1>1, <1>6, BookKeeps DEF SameRound
<1>14. Docs'
    <2>1. \A e \in Entries : gdoc[e] # "live" => gdoc'[e] # "live"
        BY <1>4
    <2>2. ASSUME NEW q \in Players, NEW e \in ScoredSet(q)
          PROVE  pdoc[e] = "over" \/ gdoc'[e] = "over"
        <3>1. /\ e \in Entries /\ gdoc[e] # "live"
              /\ pdoc[e] = "over" \/ gdoc[e] = "over"
            BY <1>1, Members DEF Docs
        <3>2. CASE e \in gone /\ pdoc[e] # "over"
            <4>1. gdoc[e] = "over" /\ pdoc[e] = "live"
                BY <1>1, <3>1, <3>2, Types DEF Documented
            <4>2. e \in ongoing
                BY <1>1, <3>1, <4>1 DEF Documented
            <4> QED
                BY <1>3, <3>1, <3>2, <4>1, <4>2 DEF Playing
        <3> QED
            BY <1>4, <3>1, <3>2
    <2>3. \A e \in Entries : pdoc[e] = "live" /\ gdoc'[e] = "none" => rnd[e] = inProgress
        BY <1>4, <1>8, <1>9 DEF Docs
    <2>4. \A q \in Players : \A e \in ScoredSet(q) : e \in Entries
        BY Members
    <2> QED
        BY <1>1, <1>7, <1>8, <2>1, <2>2, <2>3, <2>4 DEF Docs
<1>15. Remembered'
    <2>1. ASSUME NEW p \in Players
          PROVE  /\ GameSet(p) \subseteq {e \in Entries : p \in who[e] /\ pdoc[e] # "none"}
                 /\ {e \in Entries : p \in who[e] /\ pdoc[e] # "none" /\ rnd[e] # inProgress}
                        \subseteq GameSet(p)
        <3>1. \A e \in Entries : gdoc[e] # "none" \/ pdoc[e] = "over" => pdoc[e] # "none"
            BY <1>1 DEF Documented
        <3>2. \A e \in Entries : pdoc[e] # "none" /\ rnd[e] # inProgress =>
                                     gdoc[e] # "none" \/ pdoc[e] = "over"
            BY <1>8, Types DEF Docs
        <3> QED
            BY <1>1, <3>1, <3>2 DEF Remembered
    <2> QED
        BY <1>1, <1>7, <2>1 DEF Remembered
<1>16. Pointed'
    <2>1. scored = points
        BY <1>1 DEF Pointed
    <2>2. \A e \in Entries : \A p \in who[e] : PointSet(p)' = PointSet(p)
        BY <1>7, Types
    <2>3. \A p \in Players : \A e \in PointSet(p) : gdoc'[e] # "live"
        BY <1>1, <1>4, Members DEF Pointed
    <2> QED
        BY <1>1, <1>7, <2>1, <2>2, <2>3 DEF Pointed
<1>17. Documented'
    BY <1>1, <1>4 DEF Documented
<1>18. Playing'
    <2>1. \A e \in Entries : /\ gdoc'[e] # "none" => gdoc'[e] = gdoc[e]
                             /\ gdoc'[e] = gdoc[e] \/ (e \in gone /\ gdoc'[e] = "none")
        BY <1>4
    <2> QED
        BY <1>1, <1>2, <1>3, <1>5, <2>1, StartKeeps DEF Playing, SamePairing
<1>19. Registers'
    <2>1. \A e \in Entries : rnd[e] = inProgress => gdoc'[e] = "none"
        BY <1>4, <1>10
    <2> QED
        BY <1>1, <2>1 DEF Registers
<1> QED
    BY <1>6, <1>11, <1>12, <1>13, <1>14, <1>15, <1>16, <1>17, <1>18, <1>19

\* then its pairings, and its entries and points in memory,
LEMMA RollbackPairingsKeeps ==
    ASSUME State, RollbackPairings PROVE SInv'
<1> USE DEF State, SInv
<1> DEFINE kept(p) == {i \in DOMAIN games[p] : rnd[games[p][i]] # inProgress}
           changed == {p \in Players : kept(p) # DOMAIN games[p]}
<1>1. /\ phase = "pairings" /\ phase' = "tournament" /\ round' = inProgress - 1
      /\ UNCHANGED <<kind, who, gdoc, noshow, scored, away, paused, status, gpc, todo, tdoc,
                     inProgress, rolled>>
      /\ ongoing' = {e \in ongoing : rnd[e] # inProgress}
    BY DEF RollbackPairings, untouchedByStart, playerDocs
<1>2. /\ pdoc' = [e \in Entries |-> IF rnd[e] = inProgress THEN "none" ELSE pdoc[e]]
      /\ rnd' = [e \in Entries |->
                    IF rnd[e] = inProgress /\ kind[e] # "game" THEN 0 ELSE rnd[e]]
      /\ games' = [p \in Players |-> At(games[p], kept(p))]
      /\ points' = [p \in Players |-> IF p \in changed
                                      THEN At(points[p], kept(p) \cap DOMAIN points[p])
                                      ELSE points[p]]
      /\ rolling' = changed
    BY DEF RollbackPairings
<1>3. /\ inProgress # 0 /\ inProgress = tdoc.inProgress /\ inProgress = tdoc.cr + 1
      /\ tdoc.cr \in Nat /\ inProgress \in Nat /\ tdoc.status = "started" /\ scored = points
      /\ \A e \in Entries : rnd[e] \in Nat /\ (rnd[e] = inProgress => gdoc[e] = "none")
    BY <1>1, Types, RegisterTypes DEF Registers, Book, InRounds, Documents, Pointed
<1>4. /\ \A e \in Entries : pdoc'[e] = IF rnd[e] = inProgress THEN "none" ELSE pdoc[e]
      /\ \A e \in Entries : rnd'[e] = rnd[e] \/ (rnd[e] = inProgress /\ rnd'[e] = 0)
    BY <1>2
<1>5. ASSUME NEW p \in Players
      PROVE  /\ Rising(games'[p]) /\ Rising(points'[p])
             /\ GameSet(p)' = {e \in GameSet(p) : rnd[e] # inProgress}
             /\ PointSet(p)' = {e \in PointSet(p) : rnd[e] # inProgress}
             /\ p \notin changed => points'[p] = points[p]
             /\ \A e \in PointSet(p) : rnd[e] = inProgress => p \in changed
    <2>1. /\ games[p] \in Seq(Nat) /\ points[p] \in Seq(Nat)
          /\ Rising(games[p]) /\ Rising(points[p])
          /\ DOMAIN games[p] = 1..Len(games[p]) /\ DOMAIN points[p] = 1..Len(points[p])
          /\ DOMAIN points[p] \subseteq DOMAIN games[p]
          /\ \A i \in DOMAIN points[p] : points[p][i] = games[p][i]
        <3>1. /\ games[p] \in Seq(Nat) /\ points[p] \in Seq(Nat)
              /\ Len(points[p]) \in Nat /\ Len(games[p]) \in Nat /\ Len(points[p]) <= Len(games[p])
              /\ \A i \in 1..Len(points[p]) : points[p][i] = games[p][i]
            BY Match
        <3>2. DOMAIN games[p] = 1..Len(games[p]) /\ DOMAIN points[p] = 1..Len(points[p])
            BY <3>1
        <3> QED
            BY <3>1, <3>2 DEF Sorted
    <2>2. /\ kept(p) \in SUBSET DOMAIN games[p]
          /\ kept(p) \cap DOMAIN points[p] \in SUBSET DOMAIN points[p]
        BY <2>1
    <2>3. /\ Rising(At(games[p], kept(p)))
          /\ ToSet(At(games[p], kept(p))) = {games[p][i] : i \in kept(p)}
        <3> HIDE DEF kept
        <3> QED
            BY <2>1, <2>2, AtIs
    <2>4. /\ Rising(At(points[p], kept(p) \cap DOMAIN points[p]))
          /\ ToSet(At(points[p], kept(p) \cap DOMAIN points[p])) =
                {points[p][i] : i \in kept(p) \cap DOMAIN points[p]}
        <3> HIDE DEF kept
        <3> QED
            BY <2>1, <2>2, AtIs
    <2>5. {games[p][i] : i \in kept(p)} = {e \in GameSet(p) : rnd[e] # inProgress}
        BY DEF GameSet, ToSet
    <2>6. {points[p][i] : i \in kept(p) \cap DOMAIN points[p]} =
            {e \in PointSet(p) : rnd[e] # inProgress}
        BY <2>1 DEF PointSet, ToSet
    <2>7. \A e \in PointSet(p) : rnd[e] = inProgress => p \in changed
        <3> SUFFICES ASSUME NEW i \in DOMAIN points[p], rnd[points[p][i]] = inProgress
                     PROVE  p \in changed
            BY DEF PointSet, ToSet
        <3>1. i \in DOMAIN games[p] /\ i \notin kept(p)
            BY <2>1
        <3> QED
            BY <3>1
    <2>8. CASE p \in changed
        <3> HIDE DEF kept, changed
        <3> QED
            BY <1>2, <2>3, <2>4, <2>5, <2>6, <2>7, <2>8 DEF GameSet, PointSet
    <2>9. CASE p \notin changed
        <3>1. PointSet(p) = {e \in PointSet(p) : rnd[e] # inProgress}
            BY <2>7, <2>9
        <3>2. points'[p] = points[p] /\ games'[p] = At(games[p], kept(p))
            BY <1>2, <2>9
        <3> HIDE DEF kept, changed
        <3> QED
            BY <2>1, <2>3, <2>5, <2>7, <2>9, <3>1, <3>2 DEF GameSet, PointSet
    <2> QED
        BY <2>8, <2>9
<1> HIDE DEF kept, changed
<1>6. StartStep
    BY DEF StartStep
<1>7. /\ \A e \in Entries : Present(e)' <=> Present(e) /\ rnd[e] # inProgress
      /\ \A e \in Entries : ~InHand(e) /\ ~InHand(e)'
      /\ \A e \in Entries : pdoc[e] # "none" => Present(e)
      /\ Solo' /\ Opening' /\ Fills' /\ Planned'
    BY <1>1, <1>3, <1>4, <1>6, StartKeeps
<1>8. \A q \in Players : ScoredSet(q)' = ScoredSet(q) /\ ScoredSet(q) = PointSet(q)
    BY <1>1, <1>3 DEF ScoredSet, PointSet
<1>9. \A e \in Entries : Settled(e) /\ rnd[e] # inProgress => Settled(e)'
    BY <1>1, <1>4, <1>8, Types DEF Settled
<1>10. Kinds'
    BY <1>1 DEF Kinds
<1>11. Sorted'
    BY <1>1, <1>5 DEF Sorted
<1>12. Book'
    <2>1. InRounds'
        BY <1>1, <1>3, <1>4, <1>7, <1>9 DEF Book, InRounds
    <2>2. Full'
        <3> SUFFICES ASSUME NEW p \in Players, NEW r \in 1..tdoc.cr
                     PROVE  \E e \in Entries : p \in who[e] /\ rnd'[e] = r /\ pdoc'[e] # "none"
            BY <1>1 DEF Full
        <3>1. PICK e \in Entries : p \in who[e] /\ rnd[e] = r /\ pdoc[e] # "none"
            BY DEF Book, Full
        <3> QED
            BY <1>3, <1>4, <3>1
    <2>3. Unique'
        BY <1>1, <1>4, <1>7 DEF Book, Unique
    <2>4. Ordered'
        BY <1>1, <1>3, <1>4, <1>7, <1>9 DEF Book, Ordered
    <2> QED
        BY <2>1, <2>2, <2>3, <2>4 DEF Book
<1>13. Docs'
    <2>1. ASSUME NEW q \in Players, NEW e \in ScoredSet(q)
          PROVE  /\ q \in who[e] /\ gdoc[e] # "live" /\ (noshow[e] = q => q \in away)
                 /\ \/ pdoc'[e] = "over" \/ gdoc[e] = "over"
                    \/ q \in rolling' /\ pdoc'[e] = "none"
        <3>1. /\ e \in Entries /\ q \in who[e] /\ gdoc[e] # "live" /\ (noshow[e] = q => q \in away)
              /\ pdoc[e] = "over" \/ gdoc[e] = "over"
            BY <1>1, Members DEF Docs
        <3>2. rnd[e] = inProgress => q \in rolling'
            BY <1>2, <1>5, <1>8
        <3> QED
            BY <1>4, <3>1, <3>2
    <2>2. \A e \in Entries : /\ pdoc'[e] = "over" => gdoc[e] # "live"
                             /\ ~(pdoc'[e] = "live" /\ gdoc[e] = "none")
        BY <1>3, <1>4 DEF Docs
    <2> QED
        BY <1>1, <1>8, <2>1, <2>2 DEF Docs
<1>14. Remembered'
    <2>1. ASSUME NEW p \in Players
          PROVE  GameSet(p)' = {e \in Entries : p \in who[e] /\ pdoc'[e] # "none"}
        BY <1>1, <1>4, <1>5 DEF Remembered
    <2> QED
        BY <1>1, <1>7, <2>1 DEF Remembered
<1>15. Pointed'
    <2>1. ASSUME NEW p \in Players
          PROVE  /\ PointSet(p)' \subseteq GameSet(p)'
                 /\ \A e \in PointSet(p)' : gdoc[e] # "live" /\ (noshow[e] = p => p \in paused)
                 /\ \A e \in ScoredSet(p) : e \in PointSet(p)' \/ (p \in rolling' /\ pdoc'[e] = "none")
                 /\ p \notin rolling' => scored[p] = points'[p]
        <3>1. PointSet(p) \subseteq GameSet(p)
            BY <1>1 DEF Pointed
        <3>2. \A e \in PointSet(p) : gdoc[e] # "live" /\ (noshow[e] = p => p \in paused)
            BY <1>1 DEF Pointed
        <3>3. \A e \in PointSet(p) : e \in Entries
            BY Members
        <3>4. /\ GameSet(p)' = {e \in GameSet(p) : rnd[e] # inProgress}
              /\ PointSet(p)' = {e \in PointSet(p) : rnd[e] # inProgress}
              /\ ScoredSet(p) = PointSet(p)
            BY <1>5, <1>8
        <3>5. \A e \in PointSet(p) : rnd[e] = inProgress => p \in rolling' /\ pdoc'[e] = "none"
            BY <1>2, <1>4, <1>5, <3>3
        <3>6. p \notin rolling' => scored[p] = points'[p]
            BY <1>2, <1>3, <1>5
        <3> QED
            BY <3>1, <3>2, <3>4, <3>5, <3>6
    <2>2. ASSUME NEW e \in Entries, pdoc'[e] = "over", kind[e] = "game", NEW p \in who[e]
          PROVE  e \in PointSet(p)'
        <3>1. rnd[e] # inProgress /\ pdoc[e] = "over" /\ p \in Players
            BY <1>4, <2>2, Types
        <3>2. e \in PointSet(p)
            BY <1>1, <2>2, <3>1 DEF Pointed
        <3> QED
            BY <1>5, <3>1, <3>2
    <2>3. \A p \in Players : ScoredSet(p)' = ScoredSet(p)
        BY <1>8
    <2> QED
        BY <1>1, <2>1, <2>2, <2>3 DEF Pointed
<1>16. Documented'
    BY <1>1, <1>3, <1>4 DEF Documented
<1>17. Playing'
    <2>1. UNCHANGED made
        BY <1>6, StartKeeps DEF SamePairing
    <2> QED
        BY <1>1, <1>3, <1>4, <2>1 DEF Playing
<1>18. Registers'
    <2>1. \A e \in Entries : Present(e)' => rnd'[e] <= tdoc.cr
        <3>1. \A e \in Entries : Present(e) /\ rnd[e] # inProgress => rnd[e] <= tdoc.cr
            BY <1>3 DEF Book, InRounds
        <3> QED
            BY <1>4, <1>7, <3>1
    <2> QED
        BY <1>1, <1>3, <2>1 DEF Registers
<1> QED
    BY <1>7, <1>10, <1>11, <1>12, <1>13, <1>14, <1>15, <1>16, <1>17, <1>18

\* then its number,
LEMMA RollbackRoundKeeps ==
    ASSUME State, RollbackRound PROVE SInv'
<1> USE DEF State, SInv
<1>1. /\ phase = "tournament" /\ phase' = "players" /\ inProgress' = 0
      /\ UNCHANGED <<kind, who, rnd, gdoc, noshow, pdoc, scored, away, games, points, paused,
                     ongoing, rolling, rolled, status, round, gpc, todo>>
      /\ tdoc' = [tdoc EXCEPT !.cr = round, !.inProgress = 0]
    BY DEF RollbackRound, untouchedByStart, playerDocs, playerVars
<1>2. /\ round = tdoc.cr /\ tdoc'.cr = tdoc.cr /\ tdoc'.inProgress = 0
      /\ tdoc'.status = tdoc.status /\ tdoc.status = "started"
    <2>1. /\ inProgress = tdoc.inProgress /\ inProgress # 0 /\ round = inProgress - 1
          /\ tdoc.status = "started"
        BY <1>1 DEF Registers
    <2>2. round = tdoc.cr
        BY <2>1, RegisterTypes DEF Book, InRounds, Documents
    <2> QED
        BY <1>1, <2>1, <2>2, RegisterTypes DEF Documents
<1>3. StartStep
    BY DEF StartStep
<1>4. /\ \A e \in Entries : ~InHand(e) /\ ~InHand(e)' /\ (Present(e)' <=> Present(e))
      /\ \A e \in Entries : Settled(e)' <=> Settled(e)
      /\ Solo' /\ Opening' /\ Fills' /\ Planned'
    BY <1>1, <1>3, StartKeeps, SettledKeeps
<1>5. \A q \in Players : /\ GameSet(q)' = GameSet(q) /\ PointSet(q)' = PointSet(q)
                         /\ ScoredSet(q)' = ScoredSet(q)
    BY <1>1 DEF GameSet, PointSet, ScoredSet
<1>6. Kinds' /\ Sorted'
    BY <1>1 DEF Kinds, Sorted
<1>7. Book'
    <2>1. \A e \in Entries : Present(e) => rnd[e] \in 1..tdoc.cr
        <3>1. \A e \in Entries : Present(e) => rnd[e] # 0 /\ rnd[e] <= tdoc.cr
            BY <1>1 DEF Registers, Book, InRounds
        <3> QED
            BY <3>1, Types, RegisterTypes DEF Documents
    <2>2. InRounds'
        BY <1>1, <1>2, <1>4, <2>1 DEF Book, InRounds
    <2>3. Full' /\ Unique' /\ Ordered'
        BY <1>1, <1>2, <1>4 DEF Book, Full, Unique, Ordered
    <2> QED
        BY <2>2, <2>3 DEF Book
<1>8. Docs'
    BY <1>1, <1>5 DEF Docs
<1>9. Remembered'
    BY <1>1, <1>4, <1>5 DEF Remembered
<1>10. Pointed'
    <2>1. \A e \in Entries : \A p \in who[e] : PointSet(p)' = PointSet(p)
        BY <1>5, Types
    <2> QED
        BY <1>1, <1>5, <2>1 DEF Pointed
<1>11. Documented'
    BY <1>1 DEF Documented
<1>12. Playing'
    BY <1>1, <1>3, StartKeeps DEF Playing, SamePairing
<1>13. Registers'
    BY <1>1, <1>2 DEF Registers
<1> QED
    BY <1>4, <1>6, <1>7, <1>8, <1>9, <1>10, <1>11, <1>12, <1>13

\* then its points in the documents of the players.
LEMMA RollbackPlayerKeeps ==
    ASSUME State, RollbackPlayer PROVE SInv'
<1> USE DEF State, SInv
<1>1. /\ phase = "players"
      /\ UNCHANGED <<kind, who, rnd, gdoc, noshow, pdoc, games, points, paused,
                     ongoing, rolled, status, round, inProgress, tdoc, gpc, todo>>
    BY DEF RollbackPlayer, untouchedByStart, playerVars
<1>2. StartStep
    BY DEF StartStep
<1>3. /\ \A e \in Entries : ~InHand(e) /\ ~InHand(e)' /\ (Present(e)' <=> Present(e))
      /\ Solo' /\ Opening' /\ Fills' /\ Planned' /\ UNCHANGED made
    BY <1>1, <1>2, StartKeeps DEF SamePairing
<1>4. \A q \in Players : GameSet(q)' = GameSet(q) /\ PointSet(q)' = PointSet(q)
    BY <1>1 DEF GameSet, PointSet
<1>5. \A e \in Entries : \A p \in who[e] : PointSet(p)' = PointSet(p)
    BY <1>4, Types
<1>6. Kinds'
    BY <1>1 DEF Kinds
<1>7. Playing'
    BY <1>1, <1>3 DEF Playing
<1>8. CASE rolling = {}
    <2>1. phase' = "repair" /\ UNCHANGED <<scored, away, rolling>>
        BY <1>8 DEF RollbackPlayer, playerDocs
    <2>2. scored = points
        <3>1. \A p \in Players : scored[p] = points[p]
            BY <1>1, <1>8 DEF Pointed
        <3> QED
            BY <3>1, MemoryTypes
    <2>3. /\ \A q \in Players : ScoredSet(q)' = ScoredSet(q)
          /\ \A e \in Entries : Settled(e)' <=> Settled(e)
        BY <1>1, <2>1, SettledKeeps DEF ScoredSet
    <2>4. Sorted' /\ Book'
        BY <1>1, <1>3, <2>1, <2>3, BookKeeps DEF Sorted, SameRound
    <2>5. Docs'
        BY <1>1, <1>8, <2>1, <2>3 DEF Docs
    <2>6. Remembered'
        BY <1>1, <1>3, <1>4, <2>1 DEF Remembered
    <2>7. Pointed'
        BY <1>1, <1>4, <1>5, <1>8, <2>1, <2>2, <2>3 DEF Pointed
    <2>8. Documented' /\ Registers'
        BY <1>1, <1>8, <2>1 DEF Documented, Registers
    <2> QED
        BY <1>3, <1>6, <1>7, <2>4, <2>5, <2>6, <2>7, <2>8
<1>9. CASE rolling # {}
    <2>1. PICK p \in rolling : /\ SavePlayer(p)
                               /\ rolling' = rolling \ {p}
                               /\ UNCHANGED phase
        BY <1>9 DEF RollbackPlayer
    <2>2. p \in Players
        BY <2>1, MemoryTypes
    <2>3. /\ ScoredSet(p)' = PointSet(p) /\ Rising(scored'[p]) /\ scored'[p] = points[p]
          /\ \A q \in Players \ {p} : ScoredSet(q)' = ScoredSet(q) /\ scored'[q] = scored[q]
        BY <2>1, <2>2, SavedIs, MemoryTypes DEF SavePlayer
    <2>4. \A q \in Players : \A e \in ScoredSet(q) : pdoc[e] # "none" => e \in ScoredSet(q)'
        BY <1>1, <2>2, <2>3 DEF Pointed
    <2>5. \A e \in Entries : Settled(e) => Settled(e)'
        BY <1>1, <2>4, Types DEF Settled
    <2>6. Sorted' /\ Book'
        BY <1>1, <1>3, <2>2, <2>3, <2>5, BookKeeps DEF Sorted, SameRound
    <2>7. Docs'
        <3>1. ASSUME NEW q \in Players, NEW x \in ScoredSet(q)'
              PROVE  /\ q \in who[x] /\ gdoc[x] # "live"
                     /\ \/ pdoc[x] = "over" \/ gdoc[x] = "over"
                        \/ q \in rolling' /\ pdoc[x] = "none"
                     /\ noshow[x] = q => q \in away'
            <4>1. CASE q = p
                <5>1. x \in PointSet(p)
                    BY <2>3, <3>1, <4>1
                <5>2. /\ x \in Entries /\ p \in who[x] /\ gdoc[x] # "live"
                      /\ noshow[x] = p => p \in paused
                      /\ pdoc[x] = "over" \/ gdoc[x] = "over"
                    BY <1>1, <1>3, <2>2, <5>1, PointsStored
                <5> QED
                    BY <2>1, <4>1, <5>2 DEF SavePlayer
            <4>2. CASE q # p
                <5>1. x \in ScoredSet(q)
                    BY <2>3, <3>1, <4>2
                <5> QED
                    BY <1>1, <2>1, <4>2, <5>1 DEF Docs, SavePlayer
            <4> QED
                BY <4>1, <4>2
        <3> QED
            BY <1>1, <2>1, <3>1 DEF Docs
    <2>8. Remembered'
        BY <1>1, <1>3, <1>4, <2>1 DEF Remembered
    <2>9. Pointed'
        <3>1. ASSUME NEW q \in Players
              PROVE  /\ \A e \in ScoredSet(q)' :
                            e \in PointSet(q) \/ (q \in rolling' /\ pdoc[e] = "none")
                     /\ q \notin rolling' => scored'[q] = points[q]
            BY <1>1, <2>1, <2>3 DEF Pointed
        <3> QED
            BY <1>1, <1>4, <1>5, <2>1, <3>1 DEF Pointed
    <2>10. Documented' /\ Registers'
        BY <1>1, <1>3, <2>1 DEF Documented, Registers
    <2> QED
        BY <1>3, <1>6, <1>7, <2>6, <2>7, <2>8, <2>9, <2>10
<1> QED
    BY <1>8, <1>9

\* What the repair adds to the points of a player: his last entry, if it is over.
LEMMA RepairIs ==
    ASSUME State, Repair, NEW p \in Players
    PROVE  /\ Rising(points'[p]) /\ games'[p] = games[p] /\ scored'[p] = points'[p]
           /\ PointSet(p)' = PointSet(p) \cup {e \in GameSet(p) : pdoc[e] = "over"}
           /\ p \in away' <=> \/ p \in away /\ points'[p] = points[p]
                              \/ p \in paused /\ points'[p] # points[p]
<1> USE DEF State, SInv
<1> DEFINE missing(q) == DOMAIN games[q] \ DOMAIN points[q]
           places(q) == {i \in missing(q) : \A j \in missing(q) : j <= i => Known(games[q][j])}
           known(q) == At(games[q], places(q))
           extra(q) == SubSeq(points[q], Len(games[q]) + 1, Len(points[q]))
           run(q) == {i \in DOMAIN extra(q) : \A j \in 1..i : kind[extra(q)[j]] = "U"}
           byes(q) == At(extra(q), run(q))
           repaired == {q \in Players : known(q) # <<>> \/ byes(q) # <<>>}
<1>1. /\ points'[p] = points[p] \o known(p) /\ games'[p] = games[p] \o byes(p)
      /\ scored' = [q \in Players |-> IF q \in repaired THEN points'[q] ELSE scored[q]]
      /\ away' = (away \ repaired) \cup (paused \cap repaired)
      /\ phase = "repair"
    BY DEF Repair
<1>2. /\ games[p] \in Seq(Nat) /\ points[p] \in Seq(Nat) /\ Rising(games[p]) /\ Rising(points[p])
      /\ Len(points[p]) \in Nat /\ Len(games[p]) \in Nat /\ Len(points[p]) <= Len(games[p])
      /\ DOMAIN games[p] = 1..Len(games[p]) /\ DOMAIN points[p] = 1..Len(points[p])
      /\ \A i \in 1..Len(points[p]) : points[p][i] = games[p][i]
    <2>1. /\ games[p] \in Seq(Nat) /\ points[p] \in Seq(Nat)
          /\ Len(points[p]) \in Nat /\ Len(games[p]) \in Nat /\ Len(points[p]) <= Len(games[p])
          /\ \A i \in 1..Len(points[p]) : points[p][i] = games[p][i]
        BY Match
    <2>2. DOMAIN games[p] = 1..Len(games[p]) /\ DOMAIN points[p] = 1..Len(points[p])
        BY <2>1
    <2> QED
        BY <2>1, <2>2 DEF Sorted
<1>10. \A i \in DOMAIN games[p] : games[p][i] \in Nat
    <2>1. games[p] \in Seq(Nat)
        BY <1>2
    <2> QED
        BY <2>1
<1>3. byes(p) = <<>> /\ games'[p] = games[p]
    <2>1. extra(p) = <<>>
        <3>1. /\ Len(games[p]) + 1 \in Int /\ Len(points[p]) \in Int
              /\ Len(points[p]) < Len(games[p]) + 1
            BY <1>2
        <3> QED
            BY <3>1, SubSeqEmpty
    <2>2. byes(p) = <<>>
        <3>1. run(p) = {} /\ <<>> \in Seq(Nat)
            <4>1. \A i : i \notin DOMAIN <<>>
                OBVIOUS
            <4>2. \A i : i \notin run(p)
                <5> HIDE DEF extra
                <5> QED
                    BY <2>1, <4>1
            <4> HIDE DEF extra, run
            <4> QED
                BY <4>2
        <3>2. /\ At(<<>>, {}) \in Seq(Nat)
              /\ ToSet(At(<<>>, {})) = {<<>>[i] : i \in {}}
            BY <3>1, AtIs, ZenonT(40)
        <3>3. At(<<>>, {}) = <<>>
            <4>1. DOMAIN At(<<>>, {}) = {}
                BY <3>2 DEF ToSet
            <4> QED
                BY <3>2, <4>1
        <3> HIDE DEF extra, run
        <3> QED
            BY <2>1, <3>1, <3>3
    <2>3. games[p] \o <<>> = games[p]
        BY <1>2, ConcatEmptySeq
    <2> HIDE DEF byes
    <2> QED
        BY <1>1, <2>2, <2>3
<1>4. /\ known(p) \in Seq(Nat) /\ Rising(known(p))
      /\ ToSet(known(p)) = {games[p][i] : i \in places(p)}
    <2>1. places(p) \in SUBSET DOMAIN games[p]
        OBVIOUS
    <2> HIDE DEF places
    <2> QED
        BY <1>2, <2>1, AtIs
<1>5. \A x \in ToSet(points[p]), y \in ToSet(known(p)) : x < y
    <2> SUFFICES ASSUME NEW x \in ToSet(points[p]), NEW i \in places(p) PROVE x < games[p][i]
        BY <1>4
    <2>1. PICK j \in DOMAIN points[p] : x = points[p][j]
        BY DEF ToSet
    <2>2. j \in 1..Len(points[p]) /\ i \in DOMAIN games[p] /\ i \notin DOMAIN points[p]
        BY <1>2, <2>1
    <2>3. j \in Nat /\ i \in Nat /\ j \in DOMAIN games[p] /\ ~(i <= Len(points[p]))
        BY <1>2, <2>2
    <2>5. j < i
        BY <1>2, <2>2, <2>3
    <2>4. x = games[p][j]
        BY <1>2, <2>1, <2>2
    <2> QED
        BY <1>2, <2>2, <2>3, <2>5, <2>4 DEF Rising
<1>6. /\ Rising(points'[p])
      /\ ToSet(points'[p]) = ToSet(points[p]) \cup {games[p][i] : i \in places(p)}
    <2> HIDE DEF known, places
    <2> QED
        BY <1>1, <1>2, <1>4, <1>5, RisingConcat
<1>7. ToSet(points[p]) \cup {games[p][i] : i \in places(p)} =
        PointSet(p) \cup {e \in GameSet(p) : pdoc[e] = "over"}
    <2>1. ASSUME NEW e \in GameSet(p), pdoc[e] = "over", e \notin PointSet(p)
          PROVE  \E i \in places(p) : e = games[p][i]
        <3>1. PICK i \in DOMAIN games[p] : e = games[p][i]
            BY DEF GameSet, ToSet
        <3>2. i \in missing(p)
            BY <1>2, <2>1, <3>1 DEF PointSet, ToSet
        <3>3. ASSUME NEW j \in missing(p) PROVE games[p][j] = e
            <4> DEFINE f == games[p][j]
            <4>5. j \in Nat /\ j \in DOMAIN games[p] /\ ~(j <= Len(points[p]))
                BY <1>2
            <4>1. f \in GameSet(p) /\ j \in DOMAIN games[p] /\ ~(j <= Len(points[p]))
                BY <4>5 DEF GameSet, ToSet
            <4> HIDE DEF missing
            <4>2. ASSUME f \in PointSet(p) PROVE FALSE
                <5>1. PICK k \in DOMAIN points[p] : points[p][k] = f
                    BY <4>2 DEF PointSet, ToSet
                <5>2. k \in 1..Len(points[p])
                    BY <1>2, <5>1
                <5>5. k \in DOMAIN games[p] /\ games[p][k] = f
                    <6>1. points[p][k] = games[p][k]
                        BY <1>2, <5>2
                    <6>2. k \in 1..Len(games[p])
                        BY <1>2, <5>2
                    <6> HIDE DEF f
                    <6> QED
                        BY <1>2, <5>1, <6>1, <6>2
                <5>3. k < j /\ f \in Nat
                    <6>1. PICK n \in Nat : n = Len(points[p])
                        BY <1>2
                    <6>4. k \in 1..n /\ ~(j <= n)
                        BY <4>1, <5>2, <6>1
                    <6>2. k < j
                        BY <4>5, <6>4
                    <6>3. games[p][j] \in Nat
                        BY <1>10, <4>1
                    <6> QED
                        BY <6>2, <6>3
                <5>4. games[p][k] < games[p][j]
                    BY <1>2, <4>1, <5>3, <5>5 DEF Rising
                <5> QED
                    BY <5>3, <5>4, <5>5
            <4>3. (e = f \/ e < f) /\ (f = e \/ f < e)
                BY <2>1, <4>1, <4>2, Behind
            <4>4. e \in Nat /\ f \in Nat
                BY <1>10, <3>1, <4>1
            <4> QED
                BY <4>3, <4>4
        <3> QED
            BY <2>1, <3>1, <3>2, <3>3 DEF Known
    <2>2. ASSUME NEW i \in places(p)
          PROVE  games[p][i] \in GameSet(p) /\ pdoc[games[p][i]] = "over"
        <3>1. i \in missing(p) /\ i \in Nat
            BY <1>2
        <3>2. Known(games[p][i])
            BY <3>1
        <3> QED
            BY <3>1, <3>2 DEF GameSet, ToSet, Known
    <2> HIDE DEF places
    <2> QED
        BY <2>1, <2>2 DEF PointSet
<1>8. p \in repaired <=> points'[p] # points[p]
    <2>1. p \in repaired <=> known(p) # <<>>
        BY <1>3
    <2>2. points[p] \o known(p) = points[p] <=> known(p) = <<>>
        <3> HIDE DEF known
        <3> QED
            BY <1>2, <1>4, ConcatEqualIffEmpty
    <2> HIDE DEF known
    <2> QED
        BY <1>1, <2>1, <2>2
<1>9. scored'[p] = points'[p]
    <2>1. scored = points
        BY <1>1 DEF Pointed
    <2> HIDE DEF repaired
    <2> QED
        BY <1>1, <1>8, <2>1
<1> HIDE DEF repaired, places
<1> QED
    BY <1>1, <1>3, <1>6, <1>7, <1>8, <1>9 DEF PointSet

\* Points that are missing are read from the pairings, and the tournament is up.
LEMMA RepairKeeps ==
    ASSUME State, Repair PROVE SInv'
<1> USE DEF State, SInv
<1>1. /\ phase = "repair" /\ phase' = "up"
      /\ UNCHANGED <<kind, who, rnd, gdoc, noshow, pdoc, paused, ongoing, rolling, rolled,
                     status, round, inProgress, tdoc, gpc, todo>>
    BY DEF Repair, untouchedByStart
<1>2. StartStep
    BY DEF StartStep
<1>3. /\ \A e \in Entries : ~InHand(e) /\ ~InHand(e)' /\ (Present(e)' <=> Present(e))
      /\ Solo' /\ Opening' /\ Fills' /\ Planned' /\ UNCHANGED <<made, ppc>>
    BY <1>1, <1>2, StartKeeps DEF SamePairing
<1>4. ASSUME NEW p \in Players
      PROVE  /\ Rising(points'[p]) /\ Rising(games'[p]) /\ Rising(scored'[p])
             /\ GameSet(p)' = GameSet(p) /\ ScoredSet(p)' = PointSet(p)'
             /\ PointSet(p)' = PointSet(p) \cup {e \in GameSet(p) : pdoc[e] = "over"}
             /\ ScoredSet(p) = PointSet(p) /\ PointSet(p) \subseteq GameSet(p)
    <2>1. /\ Rising(points'[p]) /\ games'[p] = games[p] /\ scored'[p] = points'[p]
          /\ PointSet(p)' = PointSet(p) \cup {e \in GameSet(p) : pdoc[e] = "over"}
        BY RepairIs
    <2>2. scored = points /\ PointSet(p) \subseteq GameSet(p)
        BY <1>1 DEF Pointed
    <2> QED
        BY <2>1, <2>2 DEF GameSet, PointSet, ScoredSet, Sorted
<1>5. \A e \in Entries : Settled(e) => Settled(e)'
    BY <1>1, <1>4, Types DEF Settled
<1>6. ASSUME NEW p \in Players, NEW e \in PointSet(p)'
      PROVE  /\ e \in Entries /\ p \in who[e] /\ gdoc[e] # "live"
             /\ pdoc[e] = "over" \/ gdoc[e] = "over"
             /\ noshow[e] = p => p \in paused /\ p \in away'
    <2>1. CASE e \in PointSet(p)
        <3>1. /\ e \in Entries /\ p \in who[e] /\ gdoc[e] # "live"
              /\ noshow[e] = p => p \in paused
              /\ pdoc[e] = "over" \/ gdoc[e] = "over"
            BY <1>1, <1>3, <2>1, PointsStored
        <3>2. noshow[e] = p => p \in away
            BY <1>4, <2>1 DEF Docs
        <3> QED
            BY <3>1, <3>2, RepairIs
    <2>2. CASE e \notin PointSet(p)
        <3>1. e \in GameSet(p) /\ pdoc[e] = "over"
            BY <1>4, <1>6, <2>2
        <3>2. e \in Entries /\ p \in who[e] /\ gdoc[e] # "live"
            BY <3>1, GamesPresent DEF Docs
        <3>3. kind[e] # "game"
            BY <1>1, <2>2, <3>1, <3>2 DEF Pointed
        <3>4. p # None
            BY SwissAssumption
        <3> QED
            BY <3>1, <3>2, <3>3, <3>4 DEF Kinds
    <2> QED
        BY <2>1, <2>2
<1>7. Kinds'
    BY <1>1 DEF Kinds
<1>8. Sorted'
    BY <1>4 DEF Sorted
<1>9. Book'
    BY <1>1, <1>3, <1>5, BookKeeps DEF SameRound
<1>10. Docs'
    BY <1>1, <1>4, <1>6 DEF Docs
<1>11. Remembered'
    BY <1>1, <1>3, <1>4 DEF Remembered
<1>12. Pointed'
    BY <1>1, <1>4, <1>6 DEF Pointed
<1>13. Documented'
    <2>1. ASSUME NEW e \in Entries, pdoc[e] = "over" PROVE Settled(e)'
        <3>1. \A p \in who[e] : p \in Players /\ e \in GameSet(p)
            BY <1>1, <2>1, Types DEF Remembered
        <3> QED
            BY <1>1, <1>4, <2>1, <3>1 DEF Settled
    <2> QED
        BY <1>1, <2>1 DEF Documented
<1>14. Playing'
    BY <1>1, <1>3 DEF Playing
<1>15. Registers'
    BY <1>1, <1>3 DEF Registers
<1> QED
    BY <1>3, <1>7, <1>8, <1>9, <1>10, <1>11, <1>12, <1>13, <1>14, <1>15

=============================================================================
