---------------------------- MODULE FishnetProof ----------------------------
(***************************************************************************)
(* A job puts one move on the board and every variable keeps its type, for *)
(* any number of workers, jobs and moves and any limits.                   *)
(*                                                                         *)
(* The engine has the odd positions.  A job that was made for a position   *)
(* of n plies is played on the ply after the first odd position of at      *)
(* least n plies, or not at all, which leaves it one place on the board.   *)
(* That holds because move_lock is fair: whoever waits for it waits behind *)
(* at most one message of the human, and a human that is to move finds the *)
(* same position when the lock is his.                                     *)
(*                                                                         *)
(* The types hold numbers that are not bounded by what counts them: the    *)
(* failures of a job by its limit and the workers that may still report    *)
(* one, its entries in the queue by its failures, the game states that     *)
(* wait to be jobs by the ids that are left.                               *)
(***************************************************************************)
EXTENDS Fishnet, SequenceTheorems, FiniteSetTheorems, TLAPS

Procs == Workers \cup {Human}
Moves == HumanMoves \cup EngineMoves

\* Types, without the bounds of TypeOK, which no property here needs.
Typed ==
    /\ stack \in Seq(Moves)
    /\ by \in Seq(Jobs \cup {NoJob}) /\ Len(by) = Len(stack)
    /\ line \in Seq(Procs)
    /\ works \in [Jobs -> {"new", "move", "analysis", "gone"}]
    /\ moves \in [Jobs -> Seq(Moves)]
    /\ pc \in [Workers -> {"idle", "work", "lock", "saving", "telling",
                           "recording", "adjudicate", "deliver", "error"}]
    /\ job \in [Workers -> Jobs \cup {NoJob}]

\* Who has a job has one that was made.
Assigned ==
    \A w \in Workers : pc[w] \notin {"idle", "error"} =>
        job[w] \in Jobs /\ works[job[w]] # "new"

\* Who stands in the line, and where.
Once == \A i, k \in 1..Len(line) : line[i] = line[k] => i = k
HumanWaits == \A i \in 1..Len(line) : line[i] = Human => human # "idle"
WorkerWaits ==
    \A i \in 1..Len(line), w \in Workers :
        line[i] = w => pc[w] \in {"lock", "saving", "telling", "adjudicate"}
Holder ==
    /\ \A w \in Workers : pc[w] \in {"saving", "telling"} => Holds(w)
    /\ human = "rewind" => Holds(Human)

LineInv == Once /\ HumanWaits /\ WorkerWaits /\ Holder

\* The position that a waiting worker will find.
Turn ==
    /\ human = "move" => ~EngineToMove
    /\ human = "rewind" => EngineToMove
Behind(i) == \E k \in 1..(i - 1) : line[k] = Human
Waiting(i, w) == line[i] = w /\ pc[w] = "lock"
Found(i, w) ==
    /\ ~Behind(i) /\ EngineToMove /\ Live =>
          Len(stack) = Len(moves[job[w]]) \/ Len(stack) = Len(moves[job[w]]) + 1
    /\ Behind(i) /\ human = "move" => Len(stack) = Len(moves[job[w]])
    /\ Behind(i) /\ human = "takeback" => Len(moves[job[w]]) <= Len(stack)
Finds ==
    \A i \in 1..Len(line), w \in Workers : Waiting(i, w) => Found(i, w)

\* The place of a job on the board.
Place ==
    \A i \in 1..Len(by) : by[i] # NoJob =>
        /\ works[by[i]] # "new"
        /\ i % 2 = 0
        /\ i = Len(moves[by[i]]) + 1 \/ i = Len(moves[by[i]]) + 2

IInv == Typed /\ Assigned /\ LineInv /\ Turn /\ Finds /\ Place

-----------------------------------------------------------------------------
(* Sequences *)

LEMMA AppendFacts ==
    ASSUME NEW S, NEW s \in Seq(S), NEW x \in S
    PROVE  /\ Append(s, x) \in Seq(S)
           /\ Len(Append(s, x)) = Len(s) + 1
           /\ \A i \in 1..Len(s) : Append(s, x)[i] = s[i]
           /\ Append(s, x)[Len(s) + 1] = x
           /\ s # <<>> => Append(s, x) # <<>> /\ Head(Append(s, x)) = Head(s)
OBVIOUS

LEMMA TailFacts ==
    ASSUME NEW S, NEW s \in Seq(S), s # <<>>
    PROVE  /\ Tail(s) \in Seq(S)
           /\ Len(s) \in Nat \ {0} /\ Len(Tail(s)) = Len(s) - 1
           /\ \A i \in 1..(Len(s) - 1) : Tail(s)[i] = s[i + 1]
           /\ Head(s) = s[1]
OBVIOUS

LEMMA NextEven == \A k \in Nat : k % 2 = 1 => (k + 1) % 2 = 0
OBVIOUS

LEMMA BeforeOdd ==
    ASSUME NEW k \in Nat, k % 2 = 1
    PROVE  k >= 1 /\ (k - 1) % 2 # 1
OBVIOUS

LEMMA BeforeEven ==
    ASSUME NEW k \in Nat, k % 2 # 1, k >= 2
    PROVE  (k - 1) % 2 = 1
OBVIOUS

LEMMA PopFacts ==
    ASSUME NEW S, NEW s \in Seq(S), Len(s) >= 1
    PROVE  /\ SubSeq(s, 1, Len(s) - 1) \in Seq(S)
           /\ Len(SubSeq(s, 1, Len(s) - 1)) = Len(s) - 1
           /\ \A i \in 1..(Len(s) - 1) : SubSeq(s, 1, Len(s) - 1)[i] = s[i]
<1> DEFINE t == SubSeq(s, 1, Len(s) - 1)
<1>1. Len(s) \in Nat /\ \A i \in 1..(Len(s) - 1) : s[i] \in S
    OBVIOUS
<1>2. \A i \in 1..((Len(s) - 1) - 1 + 1) : t[i] = s[1 + i - 1]
    BY <1>1, SubSeqProperties
<1>3. /\ t \in Seq(S)
      /\ Len(t) =
            IF 1 <= Len(s) - 1 THEN (Len(s) - 1) - 1 + 1 ELSE 0
    BY <1>1, SubSeqProperties
<1>4. Len(t) = Len(s) - 1
    <2> HIDE DEF t
    <2>1. CASE Len(s) = 1
        BY <1>3, <2>1
    <2>2. CASE Len(s) # 1
        <3> DEFINE n == Len(s)
        <3>0. n \in Nat /\ n >= 1 /\ n # 1
            BY <2>2
        <3>1. 1 <= Len(s) - 1
            <4> HIDE DEF n
            <4>1. 1 <= n - 1
                BY <3>0
            <4> QED
                BY <4>1 DEF n
        <3>2. Len(t) = (Len(s) - 1) - 1 + 1
            BY <1>3, <3>1
        <3> QED
            BY <1>1, <3>2
    <2> QED
        BY <2>1, <2>2
<1>5. \A i \in 1..(Len(s) - 1) : t[i] = s[i]
    <2> HIDE DEF t
    <2> QED BY <1>1, <1>2
<1> QED
    BY <1>3, <1>4, <1>5

-----------------------------------------------------------------------------
(* What a step may do to the line: the relations that every action falls     *)
(* into, and what they keep.                                                 *)

LockPcs == {"lock", "saving", "telling", "adjudicate"}

\* The game does not go on after its end, no job becomes new again, and none is
\* for another position than before.
JobsKept ==
    /\ Live' => Live
    /\ \A id \in Jobs : works[id] # "new" =>
          works'[id] # "new" /\ moves'[id] = moves[id]

OthersKept(w) ==
    \A v \in Workers \ {w} : pc'[v] = pc[v] /\ job'[v] = job[v]

\* A worker that is not in the line does something else.
Elsewhere(w) ==
    /\ UNCHANGED <<stack, by, line, human>>
    /\ OthersKept(w)
    /\ \/ pc'[w] = pc[w] /\ job'[w] = job[w]
       \/ pc[w] \notin LockPcs /\ pc'[w] \notin LockPcs

NoWorker == UNCHANGED <<stack, by, line, human, pc, job>>

WorkerEnters(w) ==
    /\ UNCHANGED <<stack, by, human>>
    /\ OthersKept(w)
    /\ pc[w] \in {"work", "recording"} /\ job'[w] = job[w]
    /\ pc'[w] = "adjudicate" \/ (pc'[w] = "lock" /\ moves[job'[w]] = stack)
    /\ line' = Append(line, w)

WorkerLeaves(w) ==
    /\ UNCHANGED <<stack, by, human>>
    /\ OthersKept(w)
    /\ Holds(w) /\ pc'[w] \notin LockPcs
    /\ line' = Tail(line)

Tells(w) ==
    /\ UNCHANGED <<stack, by, line, human>>
    /\ OthersKept(w)
    /\ pc[w] = "saving" /\ pc'[w] = "telling"

Pushes(w, m) ==
    /\ UNCHANGED <<line, human>>
    /\ OthersKept(w)
    /\ Holds(w) /\ EngineToMove
    /\ pc[w] = "lock" /\ pc'[w] = "saving"
    /\ stack' = Append(stack, m) /\ by' = Append(by, job[w])

HumanEnters ==
    /\ UNCHANGED <<stack, by, pc, job>>
    /\ human = "idle" /\ human' \in {"move", "takeback"}
    /\ human' = "move" => ~EngineToMove
    /\ line' = Append(line, Human)

\* The human is through: the engine is to move only after a move of his.
HumanLeaves ==
    /\ UNCHANGED <<pc, job>>
    /\ Holds(Human) /\ human' = "idle"
    /\ line' = Tail(line)
    /\ \/ ~EngineToMove /\ UNCHANGED <<stack, by>>
       \/ ~Live /\ UNCHANGED <<stack, by>>
       \/ Len(stack) < 2 /\ human = "takeback" /\ UNCHANGED <<stack, by>>
       \/ EngineToMove /\ PopMove
       \/ \E m \in HumanMoves : /\ human = "move"
                                /\ stack' = Append(stack, m)
                                /\ by' = Append(by, NoJob)

HumanRewinds ==
    /\ UNCHANGED <<line, pc, job>>
    /\ Holds(Human) /\ human = "takeback" /\ human' = "rewind"
    /\ ~EngineToMove /\ Len(stack) >= 2
    /\ PopMove

-----------------------------------------------------------------------------
(* The relations keep the invariant                                          *)

Good == Assigned /\ LineInv /\ Turn /\ Finds /\ Place

LEMMA KeepNoWorker ==
    ASSUME IInv, JobsKept, NoWorker PROVE Good'
<1> USE DEF IInv, Typed, JobsKept, NoWorker
<1>1. Assigned'
    BY DEF Assigned
<1>2. LineInv' /\ Turn'
    BY DEF LineInv, Once, HumanWaits, WorkerWaits, Holder, Holds, Turn, EngineToMove
<1>3. Finds'
    <2> SUFFICES ASSUME NEW i \in 1..Len(line'), NEW w \in Workers, Waiting(i, w)'
                 PROVE  Found(i, w)'
        BY DEF Finds
    <2>1. Waiting(i, w) /\ moves'[job'[w]] = moves[job[w]]
        BY DEF Assigned, Waiting
    <2> QED
        BY <2>1 DEF Finds, Found, Behind, EngineToMove, Live
<1>4. Place'
    BY DEF Place
<1> QED
    BY <1>1, <1>2, <1>3, <1>4 DEF Good

LEMMA KeepElsewhere ==
    ASSUME IInv, JobsKept, NEW w \in Workers, Elsewhere(w)
    PROVE  LineInv' /\ Turn' /\ Finds' /\ Place'
<1>0. \A v \in Workers : \/ pc'[v] = pc[v] /\ job'[v] = job[v]
                         \/ pc[v] \notin LockPcs /\ pc'[v] \notin LockPcs
    BY DEF Elsewhere, OthersKept
<1>1. UNCHANGED <<stack, by, line, human>>
    BY DEF Elsewhere
<1> USE DEF IInv, Typed, JobsKept
<1>2. LineInv' /\ Turn'
    <2>1. Once' /\ HumanWaits' /\ Turn'
        BY <1>1 DEF LineInv, Once, HumanWaits, Turn, EngineToMove
    <2>2. WorkerWaits'
        <3> SUFFICES ASSUME NEW i \in 1..Len(line), NEW v \in Workers, line[i] = v
                     PROVE  pc'[v] \in LockPcs
            BY <1>1 DEF WorkerWaits, LockPcs
        <3>1. pc[v] \in LockPcs
            BY DEF LineInv, WorkerWaits, LockPcs
        <3> QED
            BY <1>0, <3>1
    <2>3. Holder'
        BY <1>0, <1>1 DEF LineInv, Holder, Holds, LockPcs
    <2> QED
        BY <2>1, <2>2, <2>3 DEF LineInv
<1>3. Finds'
    <2> SUFFICES ASSUME NEW i \in 1..Len(line'), NEW v \in Workers, Waiting(i, v)'
                 PROVE  Found(i, v)'
        BY DEF Finds
    <2>1. Waiting(i, v) /\ moves'[job'[v]] = moves[job[v]]
        BY <1>0, <1>1 DEF Assigned, Waiting, LockPcs
    <2> QED
        BY <1>1, <2>1 DEF Finds, Found, Behind, EngineToMove, Live
<1>4. Place'
    BY <1>1 DEF Place
<1> QED
    BY <1>2, <1>3, <1>4

LEMMA KeepTells ==
    ASSUME IInv, JobsKept, NEW w \in Workers, Tells(w) PROVE LineInv' /\ Turn' /\ Finds' /\ Place'
<1> USE DEF IInv, Typed, JobsKept, Tells, OthersKept
<1>1. LineInv' /\ Turn'
    BY DEF LineInv, Once, HumanWaits, WorkerWaits, Holder, Holds, Turn, EngineToMove
<1>3. Finds'
    <2> SUFFICES ASSUME NEW i \in 1..Len(line'), NEW v \in Workers, Waiting(i, v)'
                 PROVE  Found(i, v)'
        BY DEF Finds
    <2>1. Waiting(i, v) /\ moves'[job'[v]] = moves[job[v]]
        BY DEF Assigned, Waiting
    <2> QED
        BY <2>1 DEF Finds, Found, Behind, EngineToMove, Live
<1>4. Place'
    BY DEF Place
<1> QED
    BY <1>1, <1>3, <1>4

LEMMA KeepWorkerEnters ==
    ASSUME IInv, JobsKept, NEW w \in Workers, WorkerEnters(w), Assigned'
    PROVE  LineInv' /\ Turn' /\ Finds' /\ Place'
<1> DEFINE n == Len(line)
<1>0. w \in Procs /\ n \in Nat /\ line \in Seq(Procs) /\ line' = Append(line, w)
    BY DEF Procs, IInv, Typed, WorkerEnters
<1>1. /\ Len(line') = n + 1 /\ line'[n + 1] = w
      /\ \A i \in 1..n : line'[i] = line[i]
      /\ line # <<>> => line' # <<>> /\ Head(line') = Head(line)
    BY <1>0, AppendFacts
<1> USE DEF IInv, Typed, JobsKept, WorkerEnters, OthersKept
<1>2. \A i \in 1..n : line[i] # w
    BY DEF LineInv, WorkerWaits, LockPcs
<1> HIDE DEF n
<1>3. Once'
    BY <1>0, <1>1, <1>2 DEF LineInv, Once, n
<1>4. HumanWaits' /\ WorkerWaits'
    BY <1>0, <1>1, <1>2, HumanAssumption DEF LineInv, HumanWaits, WorkerWaits, n
<1>5. Holder' /\ Turn'
    BY <1>1 DEF LineInv, Holder, Holds, Turn, EngineToMove, LockPcs
<1>6. Finds'
    <2> SUFFICES ASSUME NEW i \in 1..Len(line'), NEW v \in Workers, Waiting(i, v)'
                 PROVE  Found(i, v)'
        BY DEF Finds
    <2>0. i \in 1..(n + 1)
        BY <1>1
    <2>1. CASE i = n + 1
        <3>1. v = w
            BY <1>1, <2>1 DEF Waiting
        <3>2. moves[job'[w]] = stack
            BY <3>1 DEF Waiting
        <3>3. moves'[job'[w]] = moves[job'[w]]
            BY DEF Assigned
        <3> QED
            BY <3>1, <3>2, <3>3 DEF Found, EngineToMove
    <2>2. CASE i \in 1..n
        <3>0. v # w /\ Waiting(i, v)
            BY <1>1, <1>2, <2>2 DEF Waiting
        <3>1. moves'[job'[v]] = moves[job[v]]
            BY <3>0 DEF Assigned, Waiting
        <3>2. Behind(i)' <=> Behind(i)
            BY <1>0, <1>1, <2>2 DEF Behind
        <3> QED
            BY <2>2, <3>0, <3>1, <3>2 DEF Finds, Found, EngineToMove, Live, n
    <2> QED
        BY <1>0, <2>0, <2>1, <2>2
<1>7. Place'
    BY DEF Place
<1> QED
    BY <1>3, <1>4, <1>5, <1>6, <1>7 DEF LineInv

LEMMA KeepHumanEnters ==
    ASSUME IInv, JobsKept, HumanEnters PROVE LineInv' /\ Turn' /\ Finds' /\ Place'
<1> DEFINE n == Len(line)
<1>0. Human \in Procs /\ n \in Nat /\ line \in Seq(Procs) /\ line' = Append(line, Human)
    BY DEF Procs, IInv, Typed, HumanEnters
<1>1. /\ Len(line') = n + 1 /\ line'[n + 1] = Human
      /\ \A i \in 1..n : line'[i] = line[i]
      /\ line # <<>> => line' # <<>> /\ Head(line') = Head(line)
    BY <1>0, AppendFacts
<1> USE DEF IInv, Typed, JobsKept, HumanEnters
<1>2. \A i \in 1..n : line[i] # Human
    BY DEF LineInv, HumanWaits
<1> HIDE DEF n
<1>3. Once'
    BY <1>0, <1>1, <1>2 DEF LineInv, Once, n
<1>4. HumanWaits' /\ WorkerWaits'
    BY <1>0, <1>1, <1>2, HumanAssumption DEF LineInv, HumanWaits, WorkerWaits, n
<1>5. Holder' /\ Turn'
    BY <1>1 DEF LineInv, Holder, Holds, Turn, EngineToMove
<1>6. Finds'
    <2> SUFFICES ASSUME NEW i \in 1..Len(line'), NEW v \in Workers, Waiting(i, v)'
                 PROVE  Found(i, v)'
        BY DEF Finds
    <2>1. i \in 1..n
        BY <1>0, <1>1, HumanAssumption DEF Waiting
    <2>2. Waiting(i, v) /\ ~Behind(i)
        BY <1>0, <1>1, <1>2, <2>1 DEF Waiting, Behind
    <2>3. moves'[job'[v]] = moves[job[v]]
        BY <2>2 DEF Assigned, Waiting
    <2>4. ~Behind(i)'
        BY <1>0, <1>1, <1>2, <2>1 DEF Behind
    <2> QED
        BY <2>1, <2>2, <2>3, <2>4 DEF Finds, Found, EngineToMove, Live, n
<1>7. Place'
    BY DEF Place
<1> QED
    BY <1>3, <1>4, <1>5, <1>6, <1>7 DEF LineInv

LEMMA KeepWorkerLeaves ==
    ASSUME IInv, JobsKept, NEW w \in Workers, WorkerLeaves(w)
    PROVE  LineInv' /\ Turn' /\ Finds' /\ Place'
<1> DEFINE n == Len(line)
<1>0. line \in Seq(Procs) /\ line # <<>> /\ line' = Tail(line) /\ Head(line) = w
    BY DEF IInv, Typed, WorkerLeaves, Holds
<1>1. /\ n \in Nat \ {0} /\ Len(line') = n - 1
      /\ \A i \in 1..(n - 1) : line'[i] = line[i + 1]
      /\ line[1] = w
    BY <1>0, TailFacts
<1> USE DEF IInv, Typed, JobsKept, WorkerLeaves, OthersKept
<1> HIDE DEF n
<1>2. \A i \in 2..n : line[i] # w
    BY <1>1 DEF LineInv, Once, n
<1>3. Once'
    <2> SUFFICES ASSUME NEW i \in 1..(n - 1), NEW k \in 1..(n - 1), line'[i] = line'[k]
                 PROVE  i = k
        BY <1>1 DEF Once
    <2>1. i + 1 \in 1..n /\ k + 1 \in 1..n /\ line[i + 1] = line[k + 1]
        BY <1>1
    <2>2. i + 1 = k + 1
        BY <2>1 DEF LineInv, Once, n
    <2> QED
        BY <1>1, <2>2
<1>4. HumanWaits'
    BY <1>1 DEF LineInv, HumanWaits, n
<1>5. WorkerWaits'
    <2> SUFFICES ASSUME NEW i \in 1..(n - 1), NEW v \in Workers, line'[i] = v
                 PROVE  pc'[v] \in {"lock", "saving", "telling", "adjudicate"}
        BY <1>1 DEF WorkerWaits
    <2>1. i + 1 \in 2..n /\ line[i + 1] = v
        BY <1>1
    <2>2. v # w /\ pc[v] \in {"lock", "saving", "telling", "adjudicate"}
        BY <1>1, <1>2, <2>1 DEF LineInv, WorkerWaits, n
    <2> QED
        BY <2>2
<1>6. Holder' /\ Turn'
    BY HumanAssumption DEF LineInv, Holder, Holds, Turn, EngineToMove, LockPcs
<1>7. Finds'
    <2> SUFFICES ASSUME NEW i \in 1..Len(line'), NEW v \in Workers, Waiting(i, v)'
                 PROVE  Found(i, v)'
        BY DEF Finds
    <2>1. i \in 1..(n - 1) /\ i + 1 \in 1..n
        BY <1>1
    <2>2. v # w /\ Waiting(i + 1, v)
        BY <1>1, <2>1 DEF Waiting, LockPcs
    <2>3. moves'[job'[v]] = moves[job[v]]
        BY <2>2 DEF Assigned, Waiting
    <2>4. Behind(i)' <=> Behind(i + 1)
        <3>1. ASSUME NEW k \in 1..(i - 1), line'[k] = Human
              PROVE  k + 1 \in 1..(i + 1 - 1) /\ line[k + 1] = Human
            BY <1>1, <2>1, <3>1
        <3>2. ASSUME NEW k \in 1..(i + 1 - 1), line[k] = Human
              PROVE  k - 1 \in 1..(i - 1) /\ line'[k - 1] = Human
            BY <1>1, <2>1, <3>2, HumanAssumption
        <3>3. ASSUME Behind(i)' PROVE Behind(i + 1)
            <4>1. PICK k \in 1..(i - 1) : line'[k] = Human
                BY <3>3 DEF Behind
            <4>2. k + 1 \in 1..(i + 1 - 1) /\ line[k + 1] = Human
                BY <3>1, <4>1
            <4> QED
                BY <4>2 DEF Behind
        <3>4. ASSUME Behind(i + 1) PROVE Behind(i)'
            <4>1. PICK k \in 1..(i + 1 - 1) : line[k] = Human
                BY <3>4 DEF Behind
            <4>2. k - 1 \in 1..(i - 1) /\ line'[k - 1] = Human
                BY <3>2, <4>1
            <4> QED
                BY <4>2 DEF Behind
        <3> QED
            BY <3>3, <3>4
    <2> QED
        BY <2>1, <2>2, <2>3, <2>4 DEF Finds, Found, EngineToMove, Live, n
<1>8. Place'
    BY DEF Place
<1> QED
    BY <1>3, <1>4, <1>5, <1>6, <1>7, <1>8 DEF LineInv

LEMMA KeepPushes ==
    ASSUME IInv, JobsKept, NEW w \in Workers, NEW m \in EngineMoves, Pushes(w, m), Live
    PROVE  LineInv' /\ Turn' /\ Finds' /\ Place'
<1> DEFINE n == Len(stack)
<1>0. /\ n \in Nat /\ Len(stack') = n + 1 /\ Len(by) = n /\ Len(by') = n + 1
      /\ \A i \in 1..n : by'[i] = by[i]
      /\ by'[n + 1] = job[w]
    <2>1. m \in Moves /\ stack \in Seq(Moves) /\ stack' = Append(stack, m)
        BY DEF Moves, IInv, Typed, Pushes
    <2>2. /\ by \in Seq(Jobs \cup {NoJob}) /\ by' = Append(by, job[w])
          /\ job[w] \in Jobs \cup {NoJob} /\ Len(by) = Len(stack)
        BY DEF IInv, Typed, Pushes
    <2> QED
        BY <2>1, <2>2, AppendFacts
<1> USE DEF IInv, Typed, JobsKept, Pushes, OthersKept
<1> HIDE DEF n
<1>1. n % 2 = 1 /\ (n + 1) % 2 = 0
    BY <1>0, NextEven DEF EngineToMove, n
<1>2. LineInv'
    <2>1. Once' /\ HumanWaits'
        BY DEF LineInv, Once, HumanWaits
    <2>2. WorkerWaits'
        BY DEF LineInv, WorkerWaits
    <2>3. Holder'
        BY DEF LineInv, Holder, Holds
    <2> QED
        BY <2>1, <2>2, <2>3 DEF LineInv
<1>3. Turn'
    BY <1>0, <1>1, HumanAssumption DEF Turn, EngineToMove, LineInv, Holder, Holds
<1>4. 1 \in 1..Len(line) /\ Waiting(1, w) /\ ~Behind(1)
    BY DEF Holds, Waiting, Behind
<1>5. n = Len(moves[job[w]]) \/ n = Len(moves[job[w]]) + 1
    BY <1>4 DEF Finds, Found, n
<1>6. Finds'
    <2> SUFFICES ASSUME NEW i \in 1..Len(line'), NEW v \in Workers, Waiting(i, v)'
                 PROVE  Found(i, v)'
        BY DEF Finds
    <2>1. v # w /\ Waiting(i, v) /\ Found(i, v)
        BY DEF Waiting, Finds
    <2>2. moves'[job'[v]] = moves[job[v]] /\ job[v] \in Jobs
        BY <2>1 DEF Assigned, Waiting
    <2>3. Len(moves[job[v]]) \in Nat
        BY <2>2
    <2>4. Behind(i)' <=> Behind(i)
        BY DEF Behind
    <2>5. human' = human /\ human # "move" /\ ~EngineToMove'
        BY <1>0, <1>1 DEF Turn, EngineToMove
    <2> QED
        BY <1>0, <2>1, <2>2, <2>3, <2>4, <2>5 DEF Found, n
<1>7. Place'
    <2>0. works[job[w]] # "new" /\ job[w] \in Jobs
        BY DEF Assigned
    <2>1. works[job[w]] # "new" /\ job[w] \in Jobs /\ Len(moves[job[w]]) \in Nat
        BY <2>0
    <2>2. ASSUME NEW i \in 1..n, by[i] # NoJob, by[i] \in Jobs
          PROVE  /\ works'[by[i]] # "new"
                 /\ i % 2 = 0
                 /\ i = Len(moves'[by[i]]) + 1 \/ i = Len(moves'[by[i]]) + 2
        BY <1>0, <2>2 DEF Place
    <2>3. \A i \in 1..n : by[i] \in Jobs \cup {NoJob}
        BY <1>0
    <2>4. /\ works'[job[w]] # "new"
          /\ (n + 1) % 2 = 0
          /\ n + 1 = Len(moves'[job[w]]) + 1 \/ n + 1 = Len(moves'[job[w]]) + 2
        BY <1>0, <1>1, <1>5, <2>1
    <2> QED
        BY <1>0, <2>2, <2>3, <2>4 DEF Place
<1> QED
    BY <1>2, <1>3, <1>6, <1>7

LEMMA PlaceKept ==
    ASSUME IInv, JobsKept
    PROVE  \A i \in 1..Len(by) : by[i] # NoJob =>
               /\ works'[by[i]] # "new"
               /\ i % 2 = 0
               /\ i = Len(moves'[by[i]]) + 1 \/ i = Len(moves'[by[i]]) + 2
<1>1. \A i \in 1..Len(by) : by[i] # NoJob => by[i] \in Jobs
    BY DEF IInv, Typed
<1> QED
    BY <1>1 DEF IInv, Place, JobsKept

LEMMA KeepHumanRewinds ==
    ASSUME IInv, JobsKept, HumanRewinds PROVE LineInv' /\ Turn' /\ Finds' /\ Place'
<1> USE DEF IInv, Typed, JobsKept, HumanRewinds
<1>0. Len(stack') = Len(stack) - 1
    BY PopFacts DEF PopMove
<1>1. LineInv' /\ Turn'
    BY <1>0, BeforeEven DEF LineInv, Once, HumanWaits, WorkerWaits, Holder, Holds, Turn,
       EngineToMove
<1>2. Finds'
    <2> SUFFICES ASSUME NEW i \in 1..Len(line'), NEW v \in Workers, Waiting(i, v)'
                 PROVE  Found(i, v)'
        BY DEF Finds
    <2>1. line[1] = Human /\ i # 1
        BY HumanAssumption DEF Holds, Waiting
    <2>2. Behind(i)'
        BY <2>1 DEF Behind
    <2> QED
        BY <2>2 DEF Found
<1>3. Place'
    <2>1. Len(by) >= 1 /\ by \in Seq(Jobs \cup {NoJob})
        OBVIOUS
    <2>2. /\ Len(by') = Len(by) - 1
          /\ \A i \in 1..(Len(by) - 1) : by'[i] = by[i]
        BY <2>1, PopFacts DEF PopMove
    <2>3. ASSUME NEW i \in 1..(Len(by) - 1), by[i] # NoJob
          PROVE  /\ works'[by[i]] # "new"
                 /\ i % 2 = 0
                 /\ i = Len(moves'[by[i]]) + 1 \/ i = Len(moves'[by[i]]) + 2
        <3>1. i \in 1..Len(by)
            BY <2>1
        <3> QED
            BY <2>3, <3>1, PlaceKept, Zenon
    <2> QED
        BY <2>1, <2>2, <2>3 DEF Place
<1> QED
    BY <1>1, <1>2, <1>3

\* What the board is once the human is through.
LEMMA BoardAfter ==
    ASSUME IInv, HumanLeaves
    PROVE  /\ Place' \/ ~JobsKept
           /\ Len(stack) \in Nat
           /\ \/ ~EngineToMove'
              \/ stack' = stack /\ ~Live
              \/ stack' = stack /\ human = "takeback" /\ Len(stack) = 1
              \/ Len(stack') = Len(stack) + 1 /\ human = "move"
<1> USE DEF IInv, Typed
<1>0. Len(stack) \in Nat /\ Len(by) = Len(stack) /\ by \in Seq(Jobs \cup {NoJob})
    OBVIOUS
<1>1. CASE UNCHANGED <<stack, by>>
    <2>1. Place' \/ ~JobsKept
        BY <1>1, PlaceKept DEF Place
    <2>2. Len(stack) < 2 /\ EngineToMove => Len(stack) = 1
        BY <1>0 DEF EngineToMove
    <2>3. \/ ~EngineToMove \/ ~Live
          \/ Len(stack) < 2 /\ human = "takeback"
          \/ stack' # stack
        <3>1. ASSUME EngineToMove, PopMove PROVE stack' # stack
            BY <1>0, <3>1, PopFacts, BeforeOdd DEF PopMove, EngineToMove
        <3>2. ASSUME NEW m \in HumanMoves, stack' = Append(stack, m) PROVE stack' # stack
            <4>1. m \in Moves
                BY DEF Moves
            <4> QED
                BY <1>0, <3>2, <4>1, AppendFacts
        <3> QED
            BY <3>1, <3>2 DEF HumanLeaves
    <2> QED
        BY <1>0, <1>1, <2>1, <2>2, <2>3 DEF EngineToMove
<1>2. CASE EngineToMove /\ PopMove
    <2>0. Len(stack) >= 1
        BY <1>0, <1>2, BeforeOdd DEF EngineToMove
    <2>1. /\ Len(by') = Len(by) - 1
          /\ \A i \in 1..(Len(by) - 1) : by'[i] = by[i]
        BY <1>0, <1>2, <2>0, PopFacts DEF PopMove
    <2>2. Len(stack') = Len(stack) - 1
        BY <1>2, <2>0, PopFacts DEF PopMove
    <2>3. ~EngineToMove'
        BY <1>0, <1>2, <2>2, BeforeOdd DEF EngineToMove
    <2>4. ASSUME JobsKept, NEW i \in 1..(Len(by) - 1), by[i] # NoJob
          PROVE  /\ works'[by[i]] # "new"
                 /\ i % 2 = 0
                 /\ i = Len(moves'[by[i]]) + 1 \/ i = Len(moves'[by[i]]) + 2
        <3>1. i \in 1..Len(by)
            BY <1>0, <2>0
        <3> QED
            BY <2>4, <3>1, PlaceKept, Zenon
    <2> QED
        BY <1>0, <2>1, <2>3, <2>4 DEF Place
<1>3. CASE \E m \in HumanMoves : /\ human = "move"
                                 /\ stack' = Append(stack, m)
                                 /\ by' = Append(by, NoJob)
    <2>0. PICK m \in HumanMoves : /\ human = "move"
                                  /\ stack' = Append(stack, m)
                                  /\ by' = Append(by, NoJob)
        BY <1>3
    <2>1. m \in Moves /\ NoJob \in Jobs \cup {NoJob}
        BY DEF Moves
    <2>2. /\ Len(by') = Len(by) + 1 /\ by'[Len(by) + 1] = NoJob
          /\ \A i \in 1..Len(by) : by'[i] = by[i]
        BY <1>0, <2>0, <2>1, AppendFacts
    <2>3. Len(stack') = Len(stack) + 1
        BY <2>0, <2>1, AppendFacts
    <2>4. ASSUME JobsKept, NEW i \in 1..Len(by), by[i] # NoJob
          PROVE  /\ works'[by[i]] # "new"
                 /\ i % 2 = 0
                 /\ i = Len(moves'[by[i]]) + 1 \/ i = Len(moves'[by[i]]) + 2
        BY <1>0, <2>4, PlaceKept
    <2>5. JobsKept => Place'
        BY <1>0, <2>2, <2>4 DEF Place
    <2> QED
        BY <1>0, <2>0, <2>3, <2>5
<1> QED
    BY <1>1, <1>2, <1>3 DEF HumanLeaves

LEMMA KeepHumanLeaves ==
    ASSUME IInv, JobsKept, HumanLeaves PROVE LineInv' /\ Turn' /\ Finds' /\ Place'
<1> DEFINE n == Len(line)
<1>0. line \in Seq(Procs) /\ line # <<>> /\ line' = Tail(line) /\ Head(line) = Human
    BY DEF IInv, Typed, HumanLeaves, Holds
<1>1. /\ n \in Nat \ {0} /\ Len(line') = n - 1
      /\ \A i \in 1..(n - 1) : line'[i] = line[i + 1]
      /\ line[1] = Human
    BY <1>0, TailFacts
<1>b. pc' = pc /\ job' = job /\ human' = "idle"
    BY DEF HumanLeaves
<1> USE DEF IInv, JobsKept
<1> HIDE DEF n
<1>2. \A i \in 2..n : line[i] # Human
    BY <1>1 DEF LineInv, Once, n
<1>3. Once'
    <2> SUFFICES ASSUME NEW i \in 1..(n - 1), NEW k \in 1..(n - 1), line'[i] = line'[k]
                 PROVE  i = k
        BY <1>1 DEF Once
    <2>1. i + 1 \in 1..n /\ k + 1 \in 1..n /\ line[i + 1] = line[k + 1]
        BY <1>1
    <2>2. i + 1 = k + 1
        BY <2>1 DEF LineInv, Once, n
    <2> QED
        BY <1>1, <2>2
<1>4. HumanWaits'
    <2>1. \A i \in 1..(n - 1) : i + 1 \in 2..n /\ line'[i] # Human
        BY <1>1, <1>2
    <2> QED
        BY <1>1, <2>1 DEF HumanWaits
<1>5. WorkerWaits'
    <2> SUFFICES ASSUME NEW i \in 1..(n - 1), NEW v \in Workers, line'[i] = v
                 PROVE  pc[v] \in {"lock", "saving", "telling", "adjudicate"}
        BY <1>1, <1>b DEF WorkerWaits
    <2>1. i + 1 \in 1..n /\ line[i + 1] = v
        BY <1>1
    <2> QED
        BY <2>1 DEF LineInv, WorkerWaits, n
<1>6. Holder' /\ Turn'
    BY <1>0, <1>b, HumanAssumption DEF LineInv, Holder, Holds, Turn
<1>7. Finds'
    <2> SUFFICES ASSUME NEW i \in 1..Len(line'), NEW v \in Workers, Waiting(i, v)'
                 PROVE  Found(i, v)'
        BY DEF Finds
    <2>1. i \in 1..(n - 1) /\ i + 1 \in 1..n /\ 1 \in 1..(i + 1 - 1)
        BY <1>1
    <2>2. Waiting(i + 1, v) /\ Behind(i + 1)
        BY <1>1, <1>b, <2>1 DEF Waiting, Behind
    <2>3. job[v] \in Jobs /\ moves'[job'[v]] = moves[job[v]]
        BY <1>b, <2>2 DEF Assigned, Waiting
    <2>4. Len(moves[job[v]]) \in Nat
        BY <2>3 DEF Typed
    <2>5. Found(i + 1, v)
        BY <2>1, <2>2 DEF Finds, n
    <2>6. human = "move" => Len(moves[job[v]]) = Len(stack)
        BY <2>2, <2>5 DEF Found
    <2>7. human = "takeback" => Len(moves[job[v]]) <= Len(stack)
        BY <2>2, <2>5 DEF Found
    <2>8. EngineToMove' /\ Live' => \/ Len(stack') = Len(moves[job[v]])
                                    \/ Len(stack') = Len(moves[job[v]]) + 1
        <3>1. \/ ~EngineToMove'
              \/ stack' = stack /\ ~Live
              \/ stack' = stack /\ human = "takeback" /\ Len(stack) = 1
              \/ Len(stack') = Len(stack) + 1 /\ human = "move"
            BY BoardAfter
        <3>2. CASE stack' = stack /\ human = "takeback" /\ Len(stack) = 1
            <4> DEFINE k == Len(moves[job[v]])
            <4>1. Len(stack') = 1 /\ k <= 1 /\ k \in Nat
                BY <2>4, <2>7, <3>2
            <4> HIDE DEF k
            <4>2. Len(stack') = k \/ Len(stack') = k + 1
                BY <4>1
            <4> QED
                BY <4>2 DEF k
        <3> QED
            BY <2>6, <3>1, <3>2
    <2> QED
        BY <1>b, <2>3, <2>8 DEF Found
<1>8. Place'
    BY BoardAfter
<1> QED
    BY <1>3, <1>4, <1>5, <1>6, <1>7, <1>8 DEF LineInv

-----------------------------------------------------------------------------
(* Every action falls into one of the relations                              *)

Sound == Typed' /\ Assigned' /\ JobsKept

LEMMA StepEnqueue ==
    ASSUME IInv, UNCHANGED <<stack, by, line, pc, job>>, Live' => Live,
           NEW k \in {"move", "analysis"}, NEW t, NEW stale, Enqueue(k, t, stale)
    PROVE  Sound
<1>1. PICK id \in Jobs :
        /\ works[id] = "new"
        /\ works' = [j \in Jobs |-> IF j = id THEN k
                                   ELSE IF j \in stale THEN "gone" ELSE works[j]]
        /\ moves' = [moves EXCEPT ![id] = stack]
    BY DEF Enqueue
<1>2. Typed'
    BY <1>1 DEF IInv, Typed
<1>3. JobsKept
    BY <1>1 DEF IInv, Typed, JobsKept
<1>4. Assigned'
    BY <1>3 DEF IInv, Typed, Assigned, JobsKept
<1> QED
    BY <1>2, <1>3, <1>4 DEF Sound

\* The table of jobs without a new one.
LEMMA StepJobs ==
    ASSUME IInv, UNCHANGED <<stack, by, moves>>, line' \in Seq(Procs), Live' => Live,
           works' = works \/ \E ids \in SUBSET Jobs : Forget(ids),
           NEW w \in Workers, OthersKept(w),
           pc' \in [Workers -> {"idle", "work", "lock", "saving", "telling",
                               "recording", "adjudicate", "deliver", "error"}],
           job' \in [Workers -> Jobs \cup {NoJob}],
           \/ pc'[w] \in {"idle", "error"}
           \/ pc[w] \notin {"idle", "error"} /\ job'[w] = job[w]
           \/ job'[w] \in Jobs /\ works[job'[w]] # "new"
    PROVE  Sound
<1>1. /\ works' \in [Jobs -> {"new", "move", "analysis", "gone"}]
      /\ \A id \in Jobs : works[id] # "new" => works'[id] # "new"
    BY DEF IInv, Typed, Forget
<1>2. Typed' /\ JobsKept
    BY <1>1 DEF IInv, Typed, JobsKept
<1>3. Assigned'
    BY <1>1 DEF IInv, Assigned, OthersKept
<1> QED
    BY <1>2, <1>3 DEF Sound

LEMMA StepTable ==
    ASSUME IInv, BotTask \/ RequestAnalysis \/ Evict \/ GameEnds \/ \E id \in Jobs : TimePasses(id)
    PROVE  Sound /\ NoWorker
<1>1. CASE BotTask
    <2>1. CASE Enqueue("move", "fresh", {})
        BY <1>1, <2>1, StepEnqueue DEF BotTask, NoWorker, Live
    <2>2. CASE UNCHANGED workVars
        BY <1>1, <2>2 DEF BotTask, NoWorker, Live, workVars, Sound, IInv, Typed, Assigned,
           JobsKept
    <2> QED
        BY <1>1, <2>1, <2>2 DEF BotTask
<1>2. CASE RequestAnalysis
    BY <1>2, StepEnqueue DEF RequestAnalysis, NoWorker, Live, gameVars
<1>3. CASE Evict
    <2>1. /\ works' \in [Jobs -> {"new", "move", "analysis", "gone"}]
          /\ \A id \in Jobs : works[id] # "new" => works'[id] # "new"
        BY <1>3 DEF Evict, Forget, IInv, Typed
    <2> QED
        BY <1>3, <2>1 DEF Evict, NoWorker, Live, gameVars, workerVars, Sound, IInv, Typed,
           Assigned, JobsKept
<1>4. CASE GameEnds
    BY <1>4 DEF GameEnds, NoWorker, Live, workVars, workerVars, Sound, IInv, Typed, Assigned,
       JobsKept
<1>5. CASE \E id \in Jobs : TimePasses(id)
    BY <1>5 DEF TimePasses, NoWorker, Live, gameVars, workerVars, Sound, IInv, Typed, Assigned,
       JobsKept
<1> QED
    BY <1>1, <1>2, <1>3, <1>4, <1>5

LEMMA StepHumanSends ==
    ASSUME IInv, HumanSends
    PROVE  Sound /\ HumanEnters
<1>1. Typed'
    BY DEF HumanSends, gameVars, workVars, workerVars, IInv, Typed, Procs
<1> QED
    BY <1>1 DEF HumanSends, HumanEnters, gameVars, workVars, workerVars, Sound, IInv, Assigned,
       JobsKept, Live

LEMMA StepHuman ==
    ASSUME IInv, HumanStep
    PROVE  Sound /\ (HumanLeaves \/ HumanRewinds)
<1> USE DEF IInv, Typed
<1>0. line # <<>> /\ Tail(line) \in Seq(Procs)
    BY TailFacts DEF HumanStep, HumanMove, TakebackPop, TakebackRewind, Holds, LineInv, Holder
<1>1. UNCHANGED <<ended, works, moves, pc, job>>
    BY DEF HumanStep, HumanMove, TakebackPop, TakebackRewind, workVars, workerVars
<1>2. Assigned' /\ JobsKept
    BY <1>1 DEF Assigned, JobsKept, Live
<1>3. line' \in Seq(Procs)
    BY <1>0 DEF HumanStep, HumanMove, TakebackPop, TakebackRewind
<1>4. CASE HumanMove
    <2>1. CASE ~CanMove /\ UNCHANGED <<stack, by>>
        BY <1>1, <1>2, <1>3, <1>4, <2>1 DEF HumanMove, HumanLeaves, CanMove, Turn, Sound
    <2>2. ASSUME NEW m \in HumanMoves, stack' = Append(stack, m), by' = Append(by, NoJob)
          PROVE  stack' \in Seq(Moves) /\ by' \in Seq(Jobs \cup {NoJob}) /\ Len(by') = Len(stack')
        <3>1. m \in Moves /\ NoJob \in Jobs \cup {NoJob}
            BY DEF Moves
        <3> QED
            BY <2>2, <3>1, AppendFacts
    <2> QED
        BY <1>1, <1>2, <1>3, <1>4, <2>1, <2>2 DEF HumanMove, HumanLeaves, CanMove, Sound
<1>5. ASSUME PopMove, Len(stack) >= 1
      PROVE  stack' \in Seq(Moves) /\ by' \in Seq(Jobs \cup {NoJob}) /\ Len(by') = Len(stack')
    BY <1>5, PopFacts DEF PopMove
<1>6. CASE TakebackPop
    <2>1. CASE Live /\ Len(stack) >= 2 /\ PopMove
        <3>1. stack' \in Seq(Moves) /\ by' \in Seq(Jobs \cup {NoJob}) /\ Len(by') = Len(stack')
            BY <1>5, <2>1
        <3> QED
            BY <1>1, <1>2, <1>3, <1>6, <2>1, <3>1 DEF TakebackPop, HumanLeaves, HumanRewinds, Sound
    <2>2. CASE ~Live \/ Len(stack) < 2
        BY <1>1, <1>2, <1>3, <1>6, <2>2 DEF TakebackPop, HumanLeaves, Sound
    <2> QED
        BY <1>6, <2>1, <2>2 DEF TakebackPop
<1>7. CASE TakebackRewind
    <2>1. EngineToMove /\ Len(stack) >= 1 /\ PopMove /\ Holds(Human)
        BY <1>7, BeforeOdd DEF TakebackRewind, Turn, EngineToMove, LineInv, Holder
    <2>2. stack' \in Seq(Moves) /\ by' \in Seq(Jobs \cup {NoJob}) /\ Len(by') = Len(stack')
        BY <1>5, <2>1
    <2> QED
        BY <1>1, <1>2, <1>3, <1>7, <2>1, <2>2 DEF TakebackRewind, HumanLeaves, Sound
<1> QED
    BY <1>4, <1>6, <1>7 DEF HumanStep

Labels == {"idle", "work", "lock", "saving", "telling", "recording", "adjudicate",
           "deliver", "error"}

LEMMA GotoFacts ==
    ASSUME IInv, NEW w \in Workers, NEW l \in Labels, Goto(w, l)
    PROVE  /\ pc' \in [Workers -> Labels] /\ job' \in [Workers -> Jobs \cup {NoJob}]
           /\ pc'[w] = l /\ OthersKept(w)
           /\ l \notin {"idle", "error"} => job'[w] = job[w]
BY DEF IInv, Typed, Goto, OthersKept, Labels

LEMMA AssignFacts ==
    ASSUME IInv, NEW w \in Workers, NEW id \in Jobs, NEW l \in Labels, Assign(w, id, l)
    PROVE  /\ pc' \in [Workers -> Labels] /\ job' \in [Workers -> Jobs \cup {NoJob}]
           /\ pc'[w] = l /\ job'[w] = id /\ OthersKept(w)
BY DEF IInv, Typed, Assign, OthersKept, Labels

\* A worker goes somewhere else with its job, or without one.
LEMMA StepGoto ==
    ASSUME IInv, UNCHANGED <<stack, by, moves>>, line' \in Seq(Procs), Live' => Live,
           works' = works \/ \E ids \in SUBSET Jobs : Forget(ids),
           NEW w \in Workers, NEW l \in Labels, Goto(w, l),
           l \in {"idle", "error"} \/ pc[w] \notin {"idle", "error"}
    PROVE  Sound
BY GotoFacts, StepJobs DEF Labels

LEMMA StepAssign ==
    ASSUME IInv, UNCHANGED <<stack, by, line, moves, works>>, Live' => Live,
           NEW w \in Workers, NEW id \in Jobs, Pending(id),
           NEW l \in Labels, Assign(w, id, l)
    PROVE  Sound
<1>1. line' \in Seq(Procs) /\ works[id] # "new"
    BY DEF IInv, Typed, Pending
<1> QED
    BY <1>1, AssignFacts, StepJobs DEF Labels

WorkerStep(w) ==
    \/ Elsewhere(w) \/ WorkerEnters(w) \/ WorkerLeaves(w) \/ Tells(w)
    \/ Live /\ \E m \in EngineMoves : Pushes(w, m)

LEMMA StepGetWork ==
    ASSUME IInv, NEW w \in Workers, GetWork(w)
    PROVE  Sound /\ WorkerStep(w)
<1>1. UNCHANGED <<stack, by, ended, line, human, moves>> /\ pc[w] \in {"idle", "error"}
      /\ UNCHANGED works /\ Live' = Live
    BY DEF GetWork, gameVars, Fetch, Reissue, Live
<1>2. ASSUME NEW id \in Jobs, Fetch(w, id) \/ Reissue(w, id)
      PROVE  Sound /\ WorkerStep(w)
    <2>1. Pending(id) /\ (Assign(w, id, "work") \/ Assign(w, id, "recording"))
        BY <1>2 DEF Fetch, Reissue
    <2>2. PICK l \in {"work", "recording"} : Assign(w, id, l)
        BY <2>1
    <2>3. l \in Labels
        BY DEF Labels
    <2> QED
        BY <1>1, <2>1, <2>2, <2>3, StepAssign, AssignFacts DEF WorkerStep, Elsewhere, LockPcs
<1>3. ASSUME Goto(w, "idle") PROVE Sound /\ WorkerStep(w)
    <2>1. "idle" \in Labels /\ line' \in Seq(Procs)
        BY <1>1 DEF Labels, IInv, Typed
    <2> QED
        BY <1>1, <1>3, <2>1, StepGoto, GotoFacts DEF WorkerStep, Elsewhere, LockPcs
<1> QED
    BY <1>2, <1>3 DEF GetWork

\* A request that never takes the lock.
LEMMA StepElsewhere ==
    ASSUME IInv, UNCHANGED <<stack, by, ended, line, human, moves>>,
           works' = works \/ \E ids \in SUBSET Jobs : Forget(ids),
           NEW w \in Workers, pc[w] \in {"work", "deliver", "recording"},
           NEW l \in {"idle", "error", "recording", "deliver"}, Goto(w, l)
    PROVE  Sound /\ WorkerStep(w)
<1>1. l \in Labels /\ l \notin LockPcs /\ line' \in Seq(Procs) /\ Live' = Live
    BY DEF Labels, LockPcs, IInv, Typed, Live
<1>2. Sound
    BY <1>1, StepGoto
<1> QED
    BY <1>1, <1>2, GotoFacts DEF WorkerStep, Elsewhere, LockPcs

LEMMA StepReport ==
    ASSUME IInv, NEW w \in Workers, Vanish(w) \/ AnswerNothing(w) \/ AnswerAnalysis(w) \/ Abort(w)
    PROVE  Sound /\ WorkerStep(w)
<1>1. /\ UNCHANGED <<stack, by, ended, line, human, moves, works>> /\ pc[w] = "work"
      /\ \E l \in {"idle", "recording", "deliver"} : Goto(w, l)
    BY DEF Vanish, AnswerNothing, AnswerAnalysis, Abort, HandleInvalid, gameVars, workVars
<1> QED
    BY <1>1, StepElsewhere

LEMMA StepDeliver ==
    ASSUME IInv, NEW w \in Workers, Deliver(w)
    PROVE  Sound /\ WorkerStep(w)
<1>1. {job[w]} \in SUBSET Jobs
    BY DEF Deliver, IInv, Assigned
<1>2. /\ UNCHANGED <<stack, by, ended, line, human, moves>> /\ pc[w] = "deliver"
      /\ works' = works \/ Forget({job[w]})
      /\ Goto(w, "idle") \/ Goto(w, "error")
    BY DEF Deliver, Drop, gameVars
<1> QED
    BY <1>1, <1>2, StepElsewhere

\* The worker joins the line.
LEMMA StepEnters ==
    ASSUME IInv, UNCHANGED <<stack, by, ended, human, moves>>,
           works' = works \/ \E ids \in SUBSET Jobs : Forget(ids),
           NEW w \in Workers, pc[w] \in {"work", "recording"}, line' = Append(line, w),
           Goto(w, "adjudicate") \/ (Goto(w, "lock") /\ moves[job[w]] = stack)
    PROVE  Sound /\ WorkerStep(w)
<1>0. PICK l \in {"lock", "adjudicate"} : Goto(w, l) /\ (l = "lock" => moves[job[w]] = stack)
    OBVIOUS
<1>1. l \in Labels /\ w \in Procs /\ line \in Seq(Procs) /\ Live' = Live
    BY DEF Labels, Procs, IInv, Typed, Live
<1>2. line' \in Seq(Procs)
    BY <1>1, AppendFacts
<1>3. Sound
    BY <1>0, <1>1, <1>2, StepGoto
<1> QED
    BY <1>0, <1>1, <1>3, GotoFacts DEF WorkerStep, WorkerEnters, LockPcs

\* The worker lets the lock go.
LEMMA StepLeaves ==
    ASSUME IInv, UNCHANGED <<stack, by, human, moves>>, Live' => Live,
           works' = works \/ \E ids \in SUBSET Jobs : Forget(ids),
           NEW w \in Workers, pc[w] \in LockPcs, Holds(w), line' = Tail(line),
           NEW l \in {"idle", "recording"}, Goto(w, l)
    PROVE  Sound /\ WorkerStep(w)
<1>1. l \in Labels /\ line \in Seq(Procs) /\ line # <<>> /\ pc[w] \notin {"idle", "error"}
    BY DEF Labels, IInv, Typed, Holds, LockPcs
<1>2. line' \in Seq(Procs)
    BY <1>1, TailFacts
<1>3. Sound
    BY <1>1, <1>2, StepGoto
<1> QED
    BY <1>1, <1>3, GotoFacts DEF WorkerStep, WorkerLeaves, LockPcs

LEMMA StepAnswerMove ==
    ASSUME IInv, NEW w \in Workers, AnswerMove(w)
    PROVE  Sound /\ WorkerStep(w)
<1>1. {job[w]} \in SUBSET Jobs /\ pc[w] = "work"
    BY DEF AnswerMove, IInv, Assigned
<1>2. UNCHANGED <<stack, by, ended, human, moves>>
    BY DEF AnswerMove, gameVars
<1>3. CASE UNCHANGED line /\ Goto(w, "idle") /\ (works' = works \/ Forget({job[w]}))
    BY <1>1, <1>2, <1>3, StepElsewhere
<1>4. CASE /\ line' = Append(line, w) /\ Goto(w, "lock")
           /\ moves[job[w]] = stack /\ works' = works
    BY <1>1, <1>2, <1>4, StepEnters
<1> QED
    BY <1>3, <1>4 DEF AnswerMove, Drop

LEMMA StepDropTerminal ==
    ASSUME IInv, NEW w \in Workers, DropTerminal(w)
    PROVE  Sound /\ WorkerStep(w)
<1>1. {job[w]} \in SUBSET Jobs /\ pc[w] = "recording"
    BY DEF DropTerminal, IInv, Assigned
<1>2. UNCHANGED <<stack, by, ended, human, moves>>
      /\ (works' = works \/ Forget({job[w]}))
    BY DEF DropTerminal, gameVars, Drop
<1>3. CASE UNCHANGED line /\ (Goto(w, "idle") \/ Goto(w, "error"))
    BY <1>1, <1>2, <1>3, StepElsewhere
<1>4. CASE line' = Append(line, w) /\ Goto(w, "adjudicate")
    <2>1. works' = works \/ \E ids \in SUBSET Jobs : Forget(ids)
        BY <1>1, <1>2
    <2>2. /\ pc[w] \in {"work", "recording"} /\ line' = Append(line, w)
          /\ Goto(w, "adjudicate") \/ (Goto(w, "lock") /\ moves[job[w]] = stack)
          /\ UNCHANGED <<stack, by, ended, human, moves>>
        BY <1>1, <1>2, <1>4
    <2> QED
        BY <2>1, <2>2, StepEnters
<1> QED
    BY <1>3, <1>4 DEF DropTerminal

LEMMA StepAdjudicate ==
    ASSUME IInv, NEW w \in Workers, Adjudicate(w)
    PROVE  Sound /\ WorkerStep(w)
<1>1. /\ UNCHANGED <<stack, by, human, moves>> /\ (Live' => Live) /\ works' = works
      /\ pc[w] \in LockPcs /\ Holds(w) /\ line' = Tail(line) /\ Goto(w, "idle")
    BY DEF Adjudicate, Live, workVars, LockPcs
<1> QED
    BY <1>1, StepLeaves

LEMMA StepPlay ==
    ASSUME IInv, NEW w \in Workers, Play(w)
    PROVE  Sound /\ WorkerStep(w)
<1>1. CASE PlayIgnored(w) \/ PlayInvalid(w) \/ PlayRaises(w) \/ PlayDone(w)
    <2>1. {job[w]} \in SUBSET Jobs /\ pc[w] \in LockPcs /\ Holds(w)
        BY <1>1 DEF PlayIgnored, PlayInvalid, PlayRaises, PlayDone, Playing, IInv, Assigned,
           LineInv, Holder, LockPcs
    <2>2. UNCHANGED <<stack, by, human, moves>> /\ (Live' => Live) /\ line' = Tail(line)
        BY <1>1 DEF PlayIgnored, PlayInvalid, PlayRaises, PlayDone, Live, gameVars
    <2>3. works' = works \/ Forget({job[w]})
        BY <1>1 DEF PlayIgnored, PlayInvalid, PlayRaises, PlayDone, Drop
    <2>4. Goto(w, "idle") \/ Goto(w, "recording")
        BY <1>1 DEF PlayIgnored, PlayInvalid, PlayRaises, PlayDone, HandleInvalid
    <2> QED
        BY <2>1, <2>2, <2>3, <2>4, StepLeaves
<1>2. CASE PlayPush(w)
    <2>0. "saving" \in Labels
        BY DEF Labels
    <2>1. /\ Goto(w, "saving") /\ UNCHANGED <<line, human, ended, works, moves>>
          /\ pc[w] = "lock" /\ Holds(w) /\ Live /\ EngineToMove
        BY <1>2 DEF PlayPush, Playing, workVars
    <2>2. PICK m \in EngineMoves : stack' = Append(stack, m) /\ by' = Append(by, job[w])
        BY <1>2 DEF PlayPush
    <2>3. /\ pc' \in [Workers -> Labels] /\ job' \in [Workers -> Jobs \cup {NoJob}]
          /\ pc'[w] = "saving" /\ job'[w] = job[w] /\ OthersKept(w)
        BY <2>0, <2>1, GotoFacts
    <2>4. stack' \in Seq(Moves) /\ Len(stack') = Len(stack) + 1
        <3>1. m \in Moves /\ stack \in Seq(Moves)
            BY DEF Moves, IInv, Typed
        <3> QED
            BY <2>2, <3>1, AppendFacts
    <2>5. by' \in Seq(Jobs \cup {NoJob}) /\ Len(by') = Len(by) + 1
        <3>1. job[w] \in Jobs \cup {NoJob} /\ by \in Seq(Jobs \cup {NoJob})
            BY DEF IInv, Typed
        <3> QED
            BY <2>2, <3>1, AppendFacts
    <2>6. Typed'
        BY <2>1, <2>3, <2>4, <2>5 DEF IInv, Typed, Labels
    <2>7. Assigned' /\ JobsKept
        BY <2>1, <2>3 DEF IInv, Assigned, JobsKept, OthersKept, Live
    <2>8. Pushes(w, m)
        BY <2>1, <2>2, <2>3 DEF Pushes
    <2> QED
        BY <2>1, <2>6, <2>7, <2>8 DEF Sound, WorkerStep
<1>3. CASE PlaySaved(w)
    <2>1. /\ UNCHANGED <<stack, by, line, human, works, moves>> /\ Live' = Live
          /\ pc[w] = "saving" /\ Goto(w, "telling") /\ "telling" \in Labels
          /\ line' \in Seq(Procs)
        BY <1>3 DEF PlaySaved, gameVars, workVars, Live, Labels, IInv, Typed
    <2>2. Sound
        BY <2>1, StepGoto
    <2> QED
        BY <2>1, <2>2, GotoFacts DEF WorkerStep, Tells
<1> QED
    BY <1>1, <1>2, <1>3 DEF Play

-----------------------------------------------------------------------------

LEMMA IInvInit == Init => IInv
<1> SUFFICES ASSUME Init PROVE IInv
    OBVIOUS
<1>1. Typed
    BY DEF Init, Typed
<1>2. Assigned /\ LineInv /\ Turn /\ Finds /\ Place
    BY DEF Init, Assigned, LineInv, Once, HumanWaits, WorkerWaits, Holder, Turn, Finds, Place
<1> QED
    BY <1>1, <1>2 DEF IInv

LEMMA IInvNext == IInv /\ [Next]_vars => IInv'
<1> SUFFICES ASSUME IInv, [Next]_vars PROVE IInv'
    OBVIOUS
<1>1. ASSUME NEW w \in Workers, Sound, WorkerStep(w) PROVE IInv'
    <2>1. CASE Live /\ \E m \in EngineMoves : Pushes(w, m)
        BY <1>1, <2>1, KeepPushes DEF Sound, IInv
    <2> QED
        BY <1>1, <2>1, KeepElsewhere, KeepWorkerEnters, KeepWorkerLeaves, KeepTells
        DEF WorkerStep, Sound, IInv
<1>2. CASE Sound /\ NoWorker
    BY <1>2, KeepNoWorker DEF Sound, Good, IInv
<1>3. CASE Sound /\ HumanEnters
    BY <1>3, KeepHumanEnters DEF Sound, IInv
<1>4. CASE Sound /\ (HumanLeaves \/ HumanRewinds)
    BY <1>4, KeepHumanLeaves, KeepHumanRewinds DEF Sound, IInv
<1>5. ASSUME NEW w \in Workers, Request(w) \/ Answer(w) \/ Continue(w)
      PROVE  IInv'
    BY <1>1, <1>5, StepGetWork, StepReport, StepDeliver, StepAnswerMove, StepDropTerminal,
       StepAdjudicate, StepPlay
    DEF Request, Answer, Continue, Report
<1>6. CASE Bot \/ Table \/ \E id \in Jobs : Timeout(id)
    BY <1>2, <1>6, StepTable DEF Bot, Table, Timeout
<1>7. CASE Game
    BY <1>2, <1>3, <1>7, StepTable, StepHumanSends DEF Game
<1>8. CASE HumanStep
    BY <1>4, <1>8, StepHuman
<1>9. CASE UNCHANGED vars
    <2>1. Sound /\ NoWorker
        BY <1>9 DEF vars, gameVars, workVars, workerVars, Sound, NoWorker, IInv, Typed,
           Assigned, JobsKept, Live
    <2> QED
        BY <1>2, <2>1
<1> QED
    BY <1>5, <1>6, <1>7, <1>8, <1>9 DEF Next

LEMMA OnePlace == IInv => JobPlayedOnce
<1> SUFFICES ASSUME IInv, NEW i \in DOMAIN by, NEW k \in DOMAIN by,
                    by[i] = by[k], by[i] # NoJob
             PROVE  i = k
    BY DEF JobPlayedOnce
<1>1. i \in 1..Len(by) /\ k \in 1..Len(by) /\ by[i] \in Jobs
    BY DEF IInv, Typed
<1>2. Len(moves[by[i]]) \in Nat
    BY <1>1 DEF IInv, Typed
<1> DEFINE n == Len(moves[by[i]])
<1>3. /\ i % 2 = 0 /\ (i = n + 1 \/ i = n + 2)
      /\ k % 2 = 0 /\ (k = n + 1 \/ k = n + 2)
    BY <1>1 DEF IInv, Place
<1> QED
    <2> HIDE DEF n
    <2>1. n \in Nat
        BY <1>2 DEF n
    <2> QED
        BY <1>3, <2>1

\* The waiting workers are always where the line of move_lock puts them (play_move
\* under game.move_lock), whatever is reissued, answered twice or taken back.
THEOREM Invariant == Spec => []IInv
BY IInvInit, IInvNext, PTL DEF Spec

\* A job puts one move on the board, though it may be handed out again and be
\* answered by both workers, for any numbers of workers and jobs and any limits
\* (get_work, fishnet_move).
THEOREM PlayedOnce == Spec => []JobPlayedOnce
BY Invariant, OnePlace, PTL

-----------------------------------------------------------------------------
(* The bounds of the types: how many failures, entries, jobs and moves there *)
(* can be.                                                                   *)

\* The numbers behind the types.
Records ==
    /\ ended \in {"no", "resign", "other"}
    /\ human \in {"idle", "move", "takeback", "rewind"}
    /\ events \in Nat
    /\ time \in [Jobs -> {"none", "fresh", "old"}]
    /\ queued \in [Jobs -> Nat]
    /\ failures \in [Jobs -> [Counters -> Nat]]

\* The board, which grows on the turn of the human only if there is room for his
\* move and for the answer.
Short ==
    /\ Len(stack) <= MaxPly + 1
    /\ EngineToMove => Len(stack) <= MaxPly
    /\ human = "move" => Len(stack) < MaxPly
    /\ \A id \in Jobs : Len(moves[id]) <= MaxPly + 1

\* The game states that are not jobs yet: each has an id left to it, but for the
\* one that follows a move of the engine, whose job has one.
Unused == {id \in Jobs : works[id] = "new"}
Left == Cardinality(Unused)
Asked ==
    /\ events <= MaxJobs
    /\ Live =>
        /\ human = "move" => events < Left /\ \A w \in Workers : pc[w] # "saving"
        /\ EngineToMove /\ human # "rewind" => events <= Left
        /\ \A w \in Workers : pc[w] = "saving" => ~EngineToMove /\ events <= Left

\* A job is queued when it is made, and again after each failure below the limit.
Spent(id, k) == IF failures[id][k] < LimitOf[k] THEN failures[id][k] ELSE LimitOf[k] - 1
Queued == \A id \in Jobs : queued[id] <= 1 + Spent(id, "abort") + Spent(id, "invalid")

\* Who reaches a limit goes on to record it, and once the job is gone only those
\* who are playing its move can still count a failure.
Recording(id) == {w \in Workers : pc[w] = "recording" /\ job[w] = id}
Trying(id) == {w \in Workers : pc[w] \in {"lock", "saving"} /\ job[w] = id}
Given(id) ==
    /\ works[id] = "new" => \A k \in Counters : failures[id][k] = 0
    /\ Pending(id) => \A k \in Counters :
          failures[id][k] <= LimitOf[k] - 1 + Cardinality(Recording(id))
    /\ works[id] = "gone" =>
          /\ \A k \in Counters : failures[id][k] <= LimitOf[k] - 1 + Cardinality(Workers)
          /\ failures[id]["invalid"] + Cardinality(Trying(id))
                 <= InvalidLimit - 1 + Cardinality(Workers)

BInv == Records /\ Short /\ Asked /\ Queued /\ \A id \in Jobs : Given(id)

LEMMA Limits ==
    /\ \A k \in Counters : LimitOf[k] \in Nat \ {0}
    /\ LimitOf["abort"] = AbortLimit /\ LimitOf["invalid"] = InvalidLimit
    /\ AbortLimit \in Nat \ {0} /\ InvalidLimit \in Nat \ {0}
    /\ "abort" \in Counters /\ "invalid" \in Counters
BY LimitsAssumption DEF Counters, LimitOf

-----------------------------------------------------------------------------
(* What the changes of the table do to it *)

LEMMA ForgetRecords ==
    ASSUME Records, NEW ids \in SUBSET Jobs, Forget(ids)
    PROVE  /\ time' \in [Jobs -> {"none", "fresh", "old"}]
           /\ queued' \in [Jobs -> Nat] /\ failures' \in [Jobs -> [Counters -> Nat]]
BY DEF Records, Forget

LEMMA CountRecords ==
    ASSUME Records, NEW id \in Jobs, NEW ks, Count(id, ks)
    PROVE  /\ failures' \in [Jobs -> [Counters -> Nat]]
           /\ \A j \in Jobs, k \in Counters :
                failures'[j][k] = IF j = id /\ k \in ks THEN failures[j][k] + 1 ELSE failures[j][k]
BY DEF Records, Count

LEMMA RequeueRecords ==
    ASSUME Records, NEW id \in Jobs, Requeue(id)
    PROVE  /\ time' \in [Jobs -> {"none", "fresh", "old"}] /\ queued' \in [Jobs -> Nat]
           /\ \A j \in Jobs : queued'[j] = IF j = id THEN queued[j] + 1 ELSE queued[j]
BY DEF Records, Requeue

LEMMA EnqueueRecords ==
    ASSUME Records, NEW k, NEW t \in {"none", "fresh"}, NEW stale, Enqueue(k, t, stale)
    PROVE  /\ time' \in [Jobs -> {"none", "fresh", "old"}]
           /\ queued' \in [Jobs -> Nat] /\ failures' = failures
BY DEF Records, Enqueue

-----------------------------------------------------------------------------
(* What a worker's step does to the table: the relations that all of them    *)
(* fall into.                                                                *)

Playable == {"lock", "saving"}

\* It goes on without a failure; an entry of the queue may be taken.
Passes(w) ==
    /\ UNCHANGED <<works, failures>>
    /\ \/ UNCHANGED <<time, queued>>
       \/ \E id \in Jobs : /\ queued[id] > 0
                           /\ queued' = [queued EXCEPT ![id] = @ - 1]
                           /\ time' = [time EXCEPT ![id] = "fresh"]
    /\ OthersKept(w)
    /\ pc[w] = "recording" => works[job[w]] = "gone"
    /\ pc'[w] \in Playable =>
          job'[w] = job[w] /\ (pc[w] \in Playable \/ works[job[w]] = "move")

\* It drops its job.
Drops(w) ==
    /\ pc[w] \notin {"idle", "error"} /\ Drop(job[w])
    /\ OthersKept(w)
    /\ job'[w] \in {job[w], NoJob} /\ pc'[w] \notin Playable

\* A failure of a job is counted: at the limit the worker goes on to record it,
\* below the job may be queued again.  Only who plays its move fails a job that
\* is gone.
Counts(w, id, ks) ==
    /\ Count(id, ks) /\ UNCHANGED works
    /\ works[id] # "new"
    /\ works[id] = "gone" => ks = {"invalid"} /\ pc[w] \in Playable /\ job[w] = id
    /\ time' = time \/ time' = [time EXCEPT ![id] = "fresh"]
    /\ OthersKept(w)
    /\ pc[w] # "recording" /\ pc'[w] \notin Playable
    /\ \/ pc'[w] = "recording" /\ job'[w] = id /\ UNCHANGED queued
       \/ /\ \A k \in ks : ~Reached(id, k)
          /\ \/ UNCHANGED queued
             \/ {"abort", "invalid"} \cap ks # {} /\ queued' = [queued EXCEPT ![id] = @ + 1]

InTable(w) ==
    Passes(w) \/ Drops(w) \/ \E id \in Jobs, ks \in SUBSET Counters : Counts(w, id, ks)

LEMMA HasJob ==
    ASSUME IInv, NEW w \in Workers, pc[w] \notin {"idle", "error"}
    PROVE  job[w] \in Jobs /\ works[job[w]] \in {"move", "analysis", "gone"}
BY DEF IInv, Assigned, Typed

\* No failure, and no playing unless the job is one of a move.
LEMMA PassesGoto ==
    ASSUME IInv, NEW w \in Workers, NEW l \in Labels, Goto(w, l),
           UNCHANGED <<works, time, queued, failures>>,
           pc[w] = "recording" => works[job[w]] = "gone",
           l \in Playable => pc[w] \in Playable \/ works[job[w]] = "move"
    PROVE  Passes(w)
BY GotoFacts DEF Passes, Playable

LEMMA DropsGoto ==
    ASSUME IInv, NEW w \in Workers, NEW l \in Labels \ Playable, Goto(w, l),
           Drop(job[w]), pc[w] \notin {"idle", "error"}
    PROVE  Drops(w)
<1>1. l \in Labels /\ job'[w] \in {job[w], NoJob}
    BY DEF Goto, IInv, Typed
<1> QED
    BY <1>1, GotoFacts DEF Drops

LEMMA CountsInvalid ==
    ASSUME IInv, NEW w \in Workers, pc[w] \notin {"idle", "error", "recording"},
           HandleInvalid(w, job[w]), UNCHANGED works,
           pc[w] \in Playable \/ works[job[w]] = "move"
    PROVE  InTable(w)
<1> DEFINE id == job[w]
           ks == {"invalid"}
<1>1. id \in Jobs /\ works[id] # "new" /\ ks \in SUBSET Counters
      /\ (works[id] = "gone" => pc[w] \in Playable)
    BY HasJob DEF Counters
<1>2. "idle" \in Labels /\ "recording" \in Labels
    BY DEF Labels
<1>3. CASE Reached(id, "invalid") /\ Goto(w, "recording") /\ UNCHANGED <<time, queued>>
    <2>1. pc'[w] = "recording" /\ job'[w] = id /\ OthersKept(w)
        BY <1>2, <1>3, GotoFacts
    <2>2. Counts(w, id, ks)
        BY <1>1, <1>3, <2>1 DEF Counts, HandleInvalid, Playable
    <2> QED
        BY <1>1, <2>2 DEF InTable
<1>4. CASE /\ ~Reached(id, "invalid") /\ Goto(w, "idle")
           /\ IF Pending(id) THEN Requeue(id) ELSE UNCHANGED <<time, queued>>
    <2>1. pc'[w] = "idle" /\ OthersKept(w)
        BY <1>2, <1>4, GotoFacts
    <2>2. Counts(w, id, ks)
        BY <1>1, <1>4, <2>1 DEF Counts, HandleInvalid, Requeue, Playable
    <2> QED
        BY <1>1, <2>2 DEF InTable
<1> QED
    BY <1>3, <1>4 DEF HandleInvalid

LEMMA CountsAbort ==
    ASSUME IInv, NEW w \in Workers, Abort(w)
    PROVE  InTable(w)
<1> DEFINE id == job[w]
<1>1. pc[w] = "work" /\ id \in Jobs /\ works[id] # "new"
    BY HasJob DEF Abort
<1>2. "idle" \in Labels /\ "recording" \in Labels /\ "idle" \notin Playable
    BY DEF Labels, Playable
<1>3. CASE ~Pending(id)
    <2>1. Goto(w, "idle") /\ UNCHANGED <<works, time, queued, failures>>
        BY <1>3 DEF Abort
    <2> QED
        BY <1>1, <1>2, <2>1, PassesGoto DEF InTable
<1>4. CASE Pending(id)
    <2>1. PICK ks \in {{"abort"}, {"abort", "engine"}} :
              /\ Count(id, ks)
              /\ \/ /\ \E k \in ks : Reached(id, k)
                    /\ Goto(w, "recording")
                    /\ UNCHANGED <<time, queued>>
                 \/ /\ \A k \in ks : ~Reached(id, k)
                    /\ Goto(w, "idle")
                    /\ Requeue(id)
        BY <1>4 DEF Abort
    <2>2. ks \in SUBSET Counters /\ "abort" \in ks /\ works' = works /\ works[id] # "gone"
        BY <1>4 DEF Counters, Abort, Pending
    <2>3. CASE Goto(w, "recording") /\ UNCHANGED <<time, queued>>
        <3>1. pc'[w] = "recording" /\ job'[w] = id /\ OthersKept(w)
            BY <1>2, <2>3, GotoFacts
        <3>2. Counts(w, id, ks)
            BY <1>1, <2>1, <2>2, <2>3, <3>1 DEF Counts, Playable
        <3> QED
            BY <1>1, <2>2, <3>2 DEF InTable
    <2>4. CASE (\A k \in ks : ~Reached(id, k)) /\ Goto(w, "idle") /\ Requeue(id)
        <3>1. pc'[w] = "idle" /\ OthersKept(w)
            BY <1>2, <2>4, GotoFacts
        <3>2. Counts(w, id, ks)
            BY <1>1, <2>1, <2>2, <2>4, <3>1 DEF Counts, Requeue, Playable
        <3> QED
            BY <1>1, <2>2, <3>2 DEF InTable
    <2> QED
        BY <2>1, <2>3, <2>4
<1> QED
    BY <1>3, <1>4

LEMMA TableGetWork ==
    ASSUME IInv, NEW w \in Workers, GetWork(w)
    PROVE  InTable(w)
<1>1. "idle" \in Labels /\ "work" \in Labels /\ "recording" \in Labels
      /\ pc[w] \in {"idle", "error"}
    BY DEF Labels, GetWork
<1>2. ASSUME NEW id \in Jobs, Fetch(w, id) PROVE InTable(w)
    <2>1. pc'[w] = "work" /\ OthersKept(w)
        BY <1>1, <1>2, AssignFacts DEF Fetch
    <2> QED
        BY <1>1, <1>2, <2>1 DEF Fetch, InTable, Passes, Playable
<1>3. ASSUME NEW id \in Jobs, Reissue(w, id) PROVE InTable(w)
    <2> DEFINE ks == {"stale"}
    <2>1. /\ Count(id, ks) /\ ks \in SUBSET Counters /\ UNCHANGED <<works, queued>>
          /\ works[id] # "new" /\ works[id] # "gone"
        BY <1>3 DEF Reissue, Counters, Pending
    <2>2. CASE ~Reached(id, "stale") /\ time' = [time EXCEPT ![id] = "fresh"] /\ Assign(w, id, "work")
        <3>1. pc'[w] = "work" /\ OthersKept(w)
            BY <1>1, <2>2, AssignFacts
        <3>2. Counts(w, id, ks)
            BY <1>1, <2>1, <2>2, <3>1 DEF Counts, Playable
        <3> QED
            BY <2>1, <3>2 DEF InTable
    <2>3. CASE Assign(w, id, "recording") /\ UNCHANGED time
        <3>1. pc'[w] = "recording" /\ job'[w] = id /\ OthersKept(w)
            BY <1>1, <2>3, AssignFacts
        <3>2. Counts(w, id, ks)
            BY <1>1, <2>1, <2>3, <3>1 DEF Counts, Playable
        <3> QED
            BY <2>1, <3>2 DEF InTable
    <2> QED
        BY <1>3, <2>2, <2>3 DEF Reissue
<1>4. CASE Goto(w, "idle") /\ UNCHANGED <<works, time, queued, failures>>
    BY <1>1, <1>4, PassesGoto DEF InTable, Playable
<1> QED
    BY <1>2, <1>3, <1>4 DEF GetWork

LEMMA TableReport ==
    ASSUME IInv, NEW w \in Workers, Report(w)
    PROVE  InTable(w)
<1>1. "idle" \in Labels \ Playable /\ "lock" \in Labels /\ "deliver" \in Labels \ Playable
    BY DEF Labels, Playable
<1>2. CASE Vanish(w) \/ AnswerAnalysis(w)
    BY <1>1, <1>2, PassesGoto DEF Vanish, AnswerAnalysis, InTable, workVars
<1>3. CASE AnswerNothing(w)
    BY <1>3, CountsInvalid DEF AnswerNothing
<1>4. CASE Abort(w)
    BY <1>4, CountsAbort
<1>5. CASE AnswerMove(w)
    <2>1. CASE Goto(w, "idle") /\ UNCHANGED <<works, time, queued, failures>>
        BY <1>1, <1>5, <2>1, PassesGoto DEF AnswerMove, InTable
    <2>2. CASE Drop(job[w]) /\ Goto(w, "idle")
        BY <1>1, <1>5, <2>2, DropsGoto DEF AnswerMove, InTable
    <2>3. CASE Goto(w, "lock") /\ works[job[w]] = "move" /\ UNCHANGED <<works, time, queued, failures>>
        BY <1>1, <1>5, <2>3, PassesGoto DEF AnswerMove, InTable
    <2> QED
        BY <1>5, <2>1, <2>2, <2>3 DEF AnswerMove
<1> QED
    BY <1>2, <1>3, <1>4, <1>5 DEF Report

LEMMA TableContinue ==
    ASSUME IInv, NEW w \in Workers, Continue(w)
    PROVE  InTable(w)
<1>1. /\ "idle" \in Labels \ Playable /\ "error" \in Labels \ Playable
      /\ "adjudicate" \in Labels \ Playable /\ "telling" \in Labels \ Playable
      /\ "saving" \in Labels
    BY DEF Labels, Playable
<1>2. CASE PlayIgnored(w) \/ PlayInvalid(w) \/ PlayDone(w)
    BY <1>1, <1>2, DropsGoto DEF PlayIgnored, PlayInvalid, PlayDone, Playing, InTable
<1>3. CASE PlayRaises(w)
    BY <1>3, CountsInvalid DEF PlayRaises, Playing, Playable
<1>4. CASE PlayPush(w)
    <2>1. Goto(w, "saving") /\ pc[w] = "lock" /\ UNCHANGED <<works, time, queued, failures>>
        BY <1>4 DEF PlayPush, Playing, workVars
    <2> QED
        BY <1>1, <2>1, PassesGoto DEF InTable, Playable
<1>5. CASE PlaySaved(w) \/ Adjudicate(w)
    <2>1. /\ Goto(w, "telling") \/ Goto(w, "idle")
          /\ pc[w] # "recording" /\ UNCHANGED <<works, time, queued, failures>>
        BY <1>5 DEF PlaySaved, Adjudicate, workVars
    <2> QED
        BY <1>1, <2>1, PassesGoto DEF InTable
<1>6. CASE Deliver(w)
    <2>1. CASE Drop(job[w]) /\ Goto(w, "idle")
        BY <1>1, <1>6, <2>1, DropsGoto DEF Deliver, InTable
    <2>2. CASE Goto(w, "error") /\ UNCHANGED <<works, time, queued, failures>>
        BY <1>1, <1>6, <2>2, PassesGoto DEF Deliver, InTable
    <2> QED
        BY <1>6, <2>1, <2>2 DEF Deliver
<1>7. CASE DropTerminal(w)
    <2>1. CASE ~Pending(job[w])
        <3>1. Goto(w, "error") /\ UNCHANGED <<works, time, queued, failures>> /\ pc[w] = "recording"
            BY <1>7, <2>1 DEF DropTerminal
        <3>2. works[job[w]] = "gone"
            BY <2>1, <3>1, HasJob DEF Pending
        <3> QED
            BY <1>1, <3>1, <3>2, PassesGoto DEF InTable
    <2>2. CASE Pending(job[w])
        <3>1. Drop(job[w]) /\ pc[w] = "recording" /\ (Goto(w, "adjudicate") \/ Goto(w, "idle"))
            BY <1>7, <2>2 DEF DropTerminal
        <3> QED
            BY <1>1, <3>1, DropsGoto DEF InTable
    <2> QED
        BY <2>1, <2>2
<1> QED
    BY <1>2, <1>3, <1>4, <1>5, <1>6, <1>7 DEF Continue, Play

-----------------------------------------------------------------------------
(* The same for the other steps                                              *)

\* The table is left alone, but for the time.
Rests == UNCHANGED <<works, queued, failures>>

Enqueues == \E k \in {"move", "analysis"}, t \in {"none", "fresh"}, stale \in SUBSET Jobs :
    Enqueue(k, t, stale) /\ \A id \in stale : Pending(id)

Clears == \E ids \in SUBSET Jobs : Forget(ids) /\ \A id \in ids : Pending(id)

LEMMA TableOthers ==
    ASSUME IInv, Game \/ HumanStep \/ Bot \/ Table \/ \E id \in Jobs : Timeout(id)
    PROVE  UNCHANGED <<pc, job>> /\ (Rests \/ Enqueues \/ Clears)
<1>1. CASE Game \/ HumanStep
    BY <1>1 DEF Game, HumanSends, GameEnds, HumanStep, HumanMove, TakebackPop, TakebackRewind,
       Rests, workVars, workerVars
<1>2. CASE Bot
    <2>1. CASE Enqueue("move", "fresh", {})
        BY <1>2, <2>1 DEF Bot, BotTask, Enqueues
    <2> QED
        BY <1>2, <2>1 DEF Bot, BotTask, Rests, workVars
<1>3. CASE Settled /\ RequestAnalysis
    <2> DEFINE stale == {id \in Jobs : works[id] = "analysis" /\ time[id] = "old"}
    <2>1. Enqueue("analysis", "none", stale) /\ stale \in SUBSET Jobs /\ UNCHANGED <<pc, job>>
        BY <1>3 DEF RequestAnalysis
    <2>2. \A id \in stale : Pending(id)
        BY DEF Pending
    <2> QED
        BY <2>1, <2>2 DEF Enqueues
<1>4. CASE Settled /\ Evict
    <2> DEFINE ids == {id \in Jobs : Pending(id)}
    <2>1. Forget(ids) /\ ids \in SUBSET Jobs /\ UNCHANGED <<pc, job>> /\ \A id \in ids : Pending(id)
        BY <1>4 DEF Evict, workerVars
    <2> QED
        BY <2>1 DEF Clears
<1>5. CASE \E id \in Jobs : Timeout(id)
    BY <1>5 DEF Timeout, TimePasses, Rests, workerVars
<1> QED
    BY <1>1, <1>2, <1>3, <1>4, <1>5 DEF Table

-----------------------------------------------------------------------------
(* Every step keeps the kinds of what it changes                             *)

LEMMA RecordsWorker ==
    ASSUME Records, IInv, NEW w \in Workers, InTable(w)
    PROVE  /\ time' \in [Jobs -> {"none", "fresh", "old"}]
           /\ queued' \in [Jobs -> Nat] /\ failures' \in [Jobs -> [Counters -> Nat]]
<1>1. CASE Passes(w)
    BY <1>1 DEF Passes, Records
<1>2. CASE Drops(w)
    <2>1. {job[w]} \in SUBSET Jobs
        BY <1>2, HasJob DEF Drops
    <2> QED
        BY <1>2, <2>1, ForgetRecords DEF Drops, Drop
<1>3. ASSUME NEW id \in Jobs, NEW ks \in SUBSET Counters, Counts(w, id, ks)
      PROVE  /\ time' \in [Jobs -> {"none", "fresh", "old"}]
             /\ queued' \in [Jobs -> Nat] /\ failures' \in [Jobs -> [Counters -> Nat]]
    BY <1>3, CountRecords DEF Counts, Records
<1> QED
    BY <1>1, <1>2, <1>3 DEF InTable

LEMMA RecordsOthers ==
    ASSUME Records, Rests \/ Enqueues \/ Clears
    PROVE  queued' \in [Jobs -> Nat] /\ failures' \in [Jobs -> [Counters -> Nat]]
<1>1. CASE Rests
    BY <1>1 DEF Rests, Records
<1>2. CASE Enqueues
    BY <1>2, EnqueueRecords DEF Enqueues, Records
<1>3. CASE Clears
    BY <1>3, ForgetRecords DEF Clears
<1> QED
    BY <1>1, <1>2, <1>3

\* The time of the jobs, and what the game and the human are doing.
LEMMA RecordsTime ==
    ASSUME Records, Game \/ HumanStep \/ Bot \/ Table \/ \E id \in Jobs : Timeout(id)
    PROVE  time' \in [Jobs -> {"none", "fresh", "old"}]
<1>1. CASE Game \/ HumanStep
    BY <1>1 DEF Game, HumanSends, GameEnds, HumanStep, HumanMove, TakebackPop, TakebackRewind,
       Records, workVars
<1>2. CASE Bot
    BY <1>2, EnqueueRecords DEF Bot, BotTask, Records, workVars
<1>3. CASE Table
    BY <1>3, EnqueueRecords, ForgetRecords DEF Table, RequestAnalysis, Evict
<1>4. CASE \E id \in Jobs : Timeout(id)
    BY <1>4 DEF Timeout, TimePasses, Records
<1> QED
    BY <1>1, <1>2, <1>3, <1>4

LEMMA RecordsGame ==
    ASSUME Records, Next
    PROVE  /\ ended' \in {"no", "resign", "other"}
           /\ human' \in {"idle", "move", "takeback", "rewind"} /\ events' \in Nat
<1>1. ASSUME NEW w \in Workers, Request(w) \/ Answer(w) \/ Continue(w)
      PROVE  ended' \in {"no", "resign", "other"} /\ human' = human /\ events' \in Nat
    BY <1>1 DEF Records, Request, GetWork, Answer, Report, Vanish, AnswerNothing, AnswerMove,
       AnswerAnalysis, Abort, Continue, Play, PlayIgnored, PlayPush, PlayInvalid, PlayRaises,
       PlaySaved, PlayDone, Deliver, DropTerminal, Adjudicate, gameVars
<1>2. CASE Game \/ HumanStep \/ Bot \/ Table \/ \E id \in Jobs : Timeout(id)
    BY <1>2 DEF Records, Game, HumanSends, GameEnds, HumanStep, HumanMove, TakebackPop,
       TakebackRewind, Bot, BotTask, Table, RequestAnalysis, Evict, Timeout, TimePasses, gameVars
<1> QED
    BY <1>1, <1>2 DEF Next, Records

-----------------------------------------------------------------------------
(* How often a job is in the queue                                           *)

\* An entry more for each failure below the limit.
LEMMA QueuedCounts ==
    ASSUME Records, Queued, NEW w \in Workers, NEW id \in Jobs, NEW ks \in SUBSET Counters,
           Counts(w, id, ks)
    PROVE  Queued'
<1>1. /\ \A j \in Jobs, k \in Counters : failures[j][k] \in Nat
      /\ \A j \in Jobs : queued[j] \in Nat
      /\ \A j \in Jobs, k \in Counters :
            failures'[j][k] = IF j = id /\ k \in ks THEN failures[j][k] + 1 ELSE failures[j][k]
    BY CountRecords DEF Counts, Records
<1>2. \A k \in Counters : LimitOf[k] \in Nat \ {0}
    BY Limits
<1>3. "abort" \in Counters /\ "invalid" \in Counters
    BY Limits
<1>4. \A j \in Jobs, k \in Counters : Spent(j, k) \in Nat /\ Spent(j, k)' \in Nat /\ Spent(j, k) <= Spent(j, k)'
    BY <1>1, <1>2 DEF Spent
<1>5. \A k \in ks : ~Reached(id, k) => Spent(id, k)' = Spent(id, k) + 1
    BY <1>1, <1>2 DEF Spent, Reached
<1> SUFFICES ASSUME NEW j \in Jobs
             PROVE  queued'[j] <= 1 + Spent(j, "abort")' + Spent(j, "invalid")'
    BY DEF Queued
<1> DEFINE a == Spent(j, "abort")
           b == Spent(j, "invalid")
<1>6. queued[j] <= 1 + a + b /\ queued[j] \in Nat
    BY <1>1 DEF Queued
<1>7. CASE queued'[j] = queued[j]
    BY <1>3, <1>4, <1>6, <1>7
<1>8. CASE /\ j = id /\ queued'[j] = queued[j] + 1 /\ {"abort", "invalid"} \cap ks # {}
           /\ \A k \in ks : ~Reached(id, k)
    <2>1. Spent(j, "abort")' = a + 1 \/ Spent(j, "invalid")' = b + 1
        BY <1>5, <1>8
    <2> QED
        BY <1>3, <1>4, <1>6, <1>8, <2>1
<1> QED
    BY <1>7, <1>8 DEF Counts, Records

LEMMA SpentNat ==
    ASSUME Records, NEW j \in Jobs
    PROVE  Spent(j, "abort") \in Nat /\ Spent(j, "invalid") \in Nat
BY Limits DEF Records, Spent

LEMMA QueuedForget ==
    ASSUME Records, Records', Queued, NEW ids \in SUBSET Jobs, Forget(ids)
    PROVE  Queued'
<1> SUFFICES ASSUME NEW j \in Jobs
             PROVE  queued'[j] <= 1 + Spent(j, "abort")' + Spent(j, "invalid")'
    BY DEF Queued
<1>1. CASE j \in ids
    <2>1. queued'[j] = 0
        BY <1>1 DEF Forget
    <2>2. Spent(j, "abort")' \in Nat /\ Spent(j, "invalid")' \in Nat
        BY SpentNat, Limits DEF Records, Spent
    <2> QED
        BY <2>1, <2>2
<1>2. CASE j \notin ids
    <2>1. queued'[j] = queued[j] /\ \A k \in Counters : failures'[j][k] = failures[j][k]
        BY <1>2 DEF Forget, Records
    <2> QED
        BY <2>1, Limits DEF Queued, Spent
<1> QED
    BY <1>1, <1>2

LEMMA QueuedNext ==
    ASSUME IInv, Records, Records', Queued, Next
    PROVE  Queued'
<1>1. ASSUME UNCHANGED failures, \A j \in Jobs : queued'[j] <= queued[j]
      PROVE  Queued'
    BY <1>1, SpentNat DEF Queued, Spent, Records
<1>2. ASSUME NEW w \in Workers, InTable(w) PROVE Queued'
    <2>1. CASE Passes(w)
        <3>1. \A j \in Jobs : queued'[j] <= queued[j]
            BY <2>1 DEF Passes, Records
        <3> QED
            BY <1>1, <2>1, <3>1 DEF Passes
    <2>2. CASE Drops(w)
        <3>1. {job[w]} \in SUBSET Jobs
            BY <2>2, HasJob DEF Drops
        <3> QED
            BY <2>2, <3>1, QueuedForget DEF Drops, Drop
    <2> QED
        BY <1>2, <2>1, <2>2, QueuedCounts DEF InTable
<1>3. CASE Rests \/ Enqueues \/ Clears
    <2>1. CASE Rests
        BY <1>1, <2>1 DEF Rests, Records
    <2>2. CASE Enqueues
        <3>1. UNCHANGED failures /\ \A j \in Jobs : queued'[j] = 1 \/ queued'[j] <= queued[j]
            BY <2>2 DEF Enqueues, Enqueue, Records
        <3>2. \A j \in Jobs : queued'[j] <= 1 + Spent(j, "abort") + Spent(j, "invalid")
            BY <3>1, SpentNat DEF Queued, Records
        <3> QED
            BY <3>1, <3>2 DEF Queued, Spent
    <2>3. CASE Clears
        BY <2>3, QueuedForget DEF Clears
    <2> QED
        BY <1>3, <2>1, <2>2, <2>3
<1>4. CASE Game \/ HumanStep \/ Bot \/ Table \/ \E id \in Jobs : Timeout(id)
    BY <1>3, <1>4, TableOthers
<1>5. ASSUME NEW w \in Workers, Request(w) \/ Answer(w) \/ Continue(w) PROVE Queued'
    BY <1>2, <1>5, TableGetWork, TableReport, TableContinue DEF Request, Answer
<1> QED
    BY <1>4, <1>5 DEF Next

-----------------------------------------------------------------------------
(* The length of the board                                                   *)

LEMMA ShortKept ==
    ASSUME Short, UNCHANGED <<stack, moves>>, human' = "move" => human = "move"
    PROVE  Short'
BY DEF Short, EngineToMove

LEMMA ShortEnqueue ==
    ASSUME IInv, Short, UNCHANGED <<stack, human>>, NEW k, NEW t, NEW stale, Enqueue(k, t, stale)
    PROVE  Short'
BY DEF Short, EngineToMove, Enqueue, IInv, Typed

LEMMA ShortPop ==
    ASSUME IInv, Short, PopMove, Len(stack) >= 1, UNCHANGED moves, human' # "move"
    PROVE  Short'
<1>1. stack' = SubSeq(stack, 1, Len(stack) - 1) /\ stack \in Seq(Moves)
    BY DEF PopMove, IInv, Typed
<1>2. Len(stack') = Len(stack) - 1 /\ Len(stack) \in Nat
    BY <1>1, PopFacts
<1> QED
    BY <1>2, MovesAssumption DEF Short, EngineToMove

LEMMA Parity == \A k \in Nat : k % 2 = 1 => (k + 1) % 2 # 1
OBVIOUS

LEMMA ShortPush ==
    ASSUME IInv, Short, NEW w \in Workers, PlayPush(w)
    PROVE  Short'
<1>1. UNCHANGED <<moves, human>> /\ EngineToMove
    BY DEF PlayPush, workVars, Playing
<1>2. PICK m \in EngineMoves : stack' = Append(stack, m)
    BY DEF PlayPush
<1>3. m \in Moves /\ stack \in Seq(Moves)
    BY DEF Moves, IInv, Typed
<1>4. Len(stack') = Len(stack) + 1 /\ Len(stack) \in Nat
    BY <1>2, <1>3, AppendFacts
<1>5. human # "move"
    BY <1>1 DEF IInv, Turn
<1>6. ~EngineToMove'
    BY <1>1, <1>4, Parity DEF EngineToMove
<1>7. Len(stack') <= MaxPly + 1
    BY <1>1, <1>4, MovesAssumption DEF Short
<1> QED
    BY <1>1, <1>5, <1>6, <1>7 DEF Short

LEMMA ShortMove ==
    ASSUME IInv, Short, HumanMove
    PROVE  Short'
<1>1. human = "move" /\ human' = "idle" /\ UNCHANGED moves
    BY DEF HumanMove, workVars
<1>2. ASSUME NEW m \in HumanMoves, stack' = Append(stack, m) PROVE Short'
    <2>1. m \in Moves /\ stack \in Seq(Moves)
        BY DEF Moves, IInv, Typed
    <2>2. Len(stack') = Len(stack) + 1 /\ Len(stack) \in Nat
        BY <1>2, <2>1, AppendFacts
    <2>3. Len(stack) < MaxPly
        BY <1>1 DEF Short
    <2> QED
        BY <1>1, <2>2, <2>3, MovesAssumption DEF Short
<1>3. CASE UNCHANGED stack
    BY <1>1, <1>3, ShortKept
<1> QED
    BY <1>2, <1>3 DEF HumanMove

LEMMA ShortNext ==
    ASSUME IInv, Short, Next
    PROVE  Short'
<1>1. CASE HumanStep
    <2>1. CASE TakebackPop
        <3>1. CASE Len(stack) >= 2 /\ PopMove
            <4>1. UNCHANGED moves /\ human' # "move" /\ Len(stack) >= 1
                BY <2>1, <3>1 DEF TakebackPop, workVars, IInv, Typed
            <4> QED
                BY <3>1, <4>1, ShortPop
        <3>2. CASE UNCHANGED stack /\ human' = "idle"
            BY <2>1, <3>2, ShortKept DEF TakebackPop, workVars
        <3> QED
            BY <2>1, <3>1, <3>2 DEF TakebackPop
    <2>2. CASE TakebackRewind
        <3>1. UNCHANGED moves /\ human' # "move" /\ PopMove /\ EngineToMove
            BY <2>2 DEF TakebackRewind, workVars, IInv, Turn
        <3>2. Len(stack) >= 1
            BY <3>1, BeforeOdd DEF EngineToMove, IInv, Typed
        <3> QED
            BY <3>1, <3>2, ShortPop
    <2> QED
        BY <1>1, <2>1, <2>2, ShortMove DEF HumanStep
<1>2. CASE Game
    <2>1. CASE HumanSends
        BY <2>1 DEF HumanSends, gameVars, workVars, Short, EngineToMove
    <2>2. CASE GameEnds
        BY <2>2, ShortKept DEF GameEnds, workVars
    <2> QED
        BY <1>2, <2>1, <2>2 DEF Game
<1>3. CASE Bot \/ Table \/ \E id \in Jobs : Timeout(id)
    <2>1. UNCHANGED <<stack, human>>
        BY <1>3 DEF Bot, BotTask, Table, RequestAnalysis, Evict, Timeout, TimePasses, gameVars
    <2>2. UNCHANGED moves \/ \E k, t, stale : Enqueue(k, t, stale)
        BY <1>3 DEF Bot, BotTask, Table, RequestAnalysis, Evict, Timeout, TimePasses, workVars
    <2> QED
        BY <2>1, <2>2, ShortEnqueue, ShortKept
<1>4. ASSUME NEW w \in Workers, Request(w) \/ Answer(w) \/ Continue(w)
      PROVE  Short'
    <2>1. CASE PlayPush(w)
        BY <2>1, ShortPush
    <2>2. CASE ~PlayPush(w)
        <3>1. UNCHANGED <<stack, human, moves>>
            BY <1>4, <2>2 DEF Request, GetWork, Answer, Report, Vanish, AnswerNothing, AnswerMove,
               AnswerAnalysis, Abort, Continue, Play, PlayIgnored, PlayInvalid, PlayRaises,
               PlaySaved, PlayDone, Deliver, DropTerminal, Adjudicate, gameVars, workVars
        <3> QED
            BY <3>1, ShortKept
    <2> QED
        BY <2>1, <2>2
<1> QED
    BY <1>1, <1>2, <1>3, <1>4 DEF Next

-----------------------------------------------------------------------------
(* How many jobs are asked for                                               *)

LEMMA LeftNat == Left \in Nat /\ Left <= MaxJobs /\ IsFiniteSet(Unused)
<1>1. IsFiniteSet(Jobs) /\ Cardinality(Jobs) = MaxJobs
    BY FS_Interval, MovesAssumption DEF Jobs
<1>2. Unused \in SUBSET Jobs
    BY DEF Unused
<1> QED
    BY <1>1, <1>2, FS_Subset, FS_CardinalityType DEF Left

\* One that is made already is not left.
LEMMA LeftLess ==
    ASSUME NEW id \in Jobs, works[id] # "new"
    PROVE  Left + 1 <= MaxJobs
<1>1. IsFiniteSet(Jobs) /\ Cardinality(Jobs) = MaxJobs
    BY FS_Interval, MovesAssumption DEF Jobs
<1>2. IsFiniteSet(Jobs \ {id}) /\ Cardinality(Jobs \ {id}) = MaxJobs - 1
    BY <1>1, FS_RemoveElement
<1>3. Unused \in SUBSET (Jobs \ {id})
    BY DEF Unused
<1>4. Left <= MaxJobs - 1
    BY <1>2, <1>3, FS_Subset DEF Left
<1> QED
    BY <1>4, LeftNat, MovesAssumption

LEMMA LeftEnqueue ==
    ASSUME IInv, NEW k \in {"move", "analysis"}, NEW t, NEW stale \in SUBSET Jobs,
           Enqueue(k, t, stale), \A id \in stale : Pending(id)
    PROVE  Left' = Left - 1
<1>1. PICK id \in Jobs :
          /\ works[id] = "new"
          /\ works' = [j \in Jobs |-> IF j = id THEN k
                                     ELSE IF j \in stale THEN "gone" ELSE works[j]]
    BY DEF Enqueue
<1>2. Unused' = Unused \ {id} /\ id \in Unused
    BY <1>1 DEF Unused, Pending
<1> QED
    BY <1>2, LeftNat, FS_RemoveElement DEF Left

LEMMA LeftForget ==
    ASSUME IInv, NEW ids \in SUBSET Jobs, Forget(ids), \A id \in ids : works[id] # "new"
    PROVE  Left' = Left
<1>1. Unused' = Unused
    BY DEF Forget, Unused
<1> QED
    BY <1>1 DEF Left

LEMMA LeftSame == UNCHANGED works => Left' = Left
<1> SUFFICES ASSUME UNCHANGED works PROVE Left' = Left
    OBVIOUS
<1>1. Unused' = Unused
    BY DEF Unused
<1> QED
    BY <1>1 DEF Left

LEMMA LeftWorker ==
    ASSUME IInv, NEW w \in Workers, InTable(w)
    PROVE  Left' = Left
<1>1. CASE UNCHANGED works
    BY <1>1, LeftSame
<1>2. CASE Drops(w)
    <2>1. job[w] \in Jobs /\ works[job[w]] # "new"
        BY <1>2, HasJob DEF Drops
    <2> QED
        BY <1>2, <2>1, LeftForget DEF Drops, Drop
<1> QED
    BY <1>1, <1>2 DEF InTable, Passes, Counts

\* There is one holder of the lock.
LEMMA OneHolder ==
    ASSUME IInv, NEW w \in Workers, pc[w] = "saving"
    PROVE  /\ ~Holds(Human) /\ human # "rewind"
           /\ \A v \in Workers : Holds(v) => v = w
           /\ \A v \in Workers : pc[v] = "saving" => v = w
<1>1. Holds(w) /\ w # Human
    BY HumanAssumption DEF IInv, LineInv, Holder
<1> QED
    BY <1>1 DEF IInv, LineInv, Holder, Holds

\* Nothing is added to what is asked for.
LEMMA AskedKept ==
    ASSUME Records, Asked, UNCHANGED <<stack, human, events>>, Live' => Live, Left' = Left,
           \A v \in Workers : pc'[v] = "saving" => pc[v] = "saving"
    PROVE  Asked'
<1>1. EngineToMove' = EngineToMove
    BY DEF EngineToMove
<1> QED
    BY <1>1 DEF Asked

LEMMA AskedPush ==
    ASSUME IInv, Records, Asked, NEW w \in Workers, PlayPush(w)
    PROVE  Asked'
<1>1. /\ EngineToMove /\ Live /\ Live' /\ Holds(w) /\ UNCHANGED <<human, events, works>>
    BY DEF PlayPush, workVars, Playing, Live
<1>2. human # "move" /\ human # "rewind"
    BY <1>1, HumanAssumption DEF IInv, Turn, LineInv, Holder, Holds
<1>3. PICK m \in EngineMoves : stack' = Append(stack, m)
    BY DEF PlayPush
<1>4. m \in Moves /\ stack \in Seq(Moves)
    BY DEF Moves, IInv, Typed
<1>5. Len(stack') = Len(stack) + 1 /\ Len(stack) \in Nat
    BY <1>3, <1>4, AppendFacts
<1>6. ~EngineToMove'
    BY <1>1, <1>5, Parity DEF EngineToMove
<1>7. Left' = Left
    BY <1>1, LeftSame
<1> QED
    BY <1>1, <1>2, <1>6, <1>7 DEF Asked

LEMMA AskedSaved ==
    ASSUME IInv, Records, Asked, NEW w \in Workers, PlaySaved(w)
    PROVE  Asked'
<1>1. /\ UNCHANGED <<stack, ended, human, works>> /\ pc[w] = "saving" /\ "telling" \in Labels
      /\ events' = (IF Live THEN events + 1 ELSE events) /\ Goto(w, "telling")
    BY DEF PlaySaved, gameVars, workVars, Labels
<1>2. pc'[w] = "telling" /\ OthersKept(w)
    BY <1>1, GotoFacts
<1>3. \A v \in Workers : pc'[v] # "saving"
    BY <1>1, <1>2, OneHolder DEF OthersKept
<1>4. Left' = Left /\ Left \in Nat /\ Left + 1 <= MaxJobs
    BY <1>1, LeftSame, LeftNat, LeftLess, HasJob
<1>5. EngineToMove' = EngineToMove /\ Live' = Live
    BY <1>1 DEF EngineToMove, Live
<1>6. CASE Live
    <2>1. ~EngineToMove /\ events <= Left /\ human # "move" /\ events \in Nat
        BY <1>1, <1>6 DEF Asked, Records
    <2> QED
        BY <1>1, <1>3, <1>4, <1>5, <1>6, <2>1, MovesAssumption DEF Asked
<1>7. CASE ~Live
    BY <1>1, <1>5, <1>7 DEF Asked
<1> QED
    BY <1>6, <1>7

LEMMA AskedHuman ==
    ASSUME IInv, Records, Asked, HumanStep
    PROVE  Asked'
<1>1. /\ Holds(Human) /\ UNCHANGED <<ended, works, pc>> /\ Live' = Live
    BY DEF HumanStep, HumanMove, TakebackPop, TakebackRewind, workVars, workerVars, IInv, LineInv,
       Holder, Live
<1>2. \A v \in Workers : pc'[v] # "saving"
    BY <1>1, OneHolder
<1>3. Left' = Left /\ Left \in Nat /\ Left <= MaxJobs
    BY <1>1, LeftSame, LeftNat
<1>4. stack \in Seq(Moves) /\ Len(stack) \in Nat /\ events \in Nat
    BY DEF IInv, Typed, Records
<1>5. CASE ~Live
    <2>1. events' = events
        BY <1>5 DEF HumanStep, HumanMove, CanMove, TakebackPop, TakebackRewind
    <2> QED
        BY <1>1, <1>5, <2>1 DEF Asked
<1>6. CASE Live /\ HumanMove
    <2>1. human' = "idle" /\ human = "move" /\ events < Left
        BY <1>6 DEF HumanMove, Asked
    <2>2. events' = events + 1 \/ events' = events
        BY <1>6 DEF HumanMove
    <2>3. events' <= Left
        BY <1>3, <1>4, <2>1, <2>2
    <2> QED
        BY <1>2, <1>3, <1>4, <2>1, <2>2, <2>3, MovesAssumption DEF Asked
<1>7. CASE Live /\ (TakebackPop \/ TakebackRewind)
    <2>1. events' = events /\ human' # "move" /\ human # "move"
        BY <1>7 DEF TakebackPop, TakebackRewind
    <2>2. CASE UNCHANGED stack /\ human # "rewind"
        <3>1. EngineToMove' = EngineToMove
            BY <2>2 DEF EngineToMove
        <3> QED
            BY <1>1, <1>2, <1>3, <2>1, <2>2, <3>1 DEF Asked
    <2>3. CASE ~EngineToMove' \/ human' = "rewind"
        BY <1>2, <1>3, <2>1, <2>3 DEF Asked
    <2>4. CASE EngineToMove /\ PopMove
        <3>1. Len(stack) >= 1 /\ (Len(stack) - 1) % 2 # 1
            BY <1>4, <2>4, BeforeOdd DEF EngineToMove
        <3>2. Len(stack') = Len(stack) - 1
            BY <1>4, <2>4, <3>1, PopFacts DEF PopMove
        <3> QED
            BY <2>3, <3>1, <3>2 DEF EngineToMove
    <2>5. CASE TakebackRewind
        BY <2>4, <2>5 DEF TakebackRewind, IInv, Turn
    <2>6. CASE TakebackPop
        BY <1>7, <2>2, <2>3, <2>4, <2>6 DEF TakebackPop
    <2> QED
        BY <1>7, <2>5, <2>6
<1> QED
    BY <1>5, <1>6, <1>7 DEF HumanStep

LEMMA AskedBot ==
    ASSUME IInv, Records, Asked, BotTask
    PROVE  Asked'
<1>1. /\ UNCHANGED <<stack, human, pc>> /\ events' = events - 1 /\ events > 0 /\ events \in Nat
      /\ EngineToMove' = EngineToMove
    BY DEF BotTask, Records, EngineToMove
<1>2. events' \in Nat /\ events' + 1 = events /\ events' <= MaxJobs
    BY <1>1, MovesAssumption DEF Asked
<1>3. CASE Enqueue("move", "fresh", {}) /\ UNCHANGED ended
    <2>1. Left' = Left - 1 /\ Left \in Nat
        BY <1>3, LeftEnqueue, LeftNat
    <2>2. Live' = Live
        BY <1>3 DEF Live
    <2>3. /\ events < Left => events' < Left'
          /\ events <= Left => events' <= Left'
        BY <1>1, <1>2, <2>1
    <2> QED
        BY <1>1, <1>2, <2>2, <2>3 DEF Asked
<1>4. CASE ended' = "other"
    BY <1>2, <1>4 DEF Asked, Live
<1> QED
    BY <1>3, <1>4 DEF BotTask

LEMMA AskedNext ==
    ASSUME IInv, Records, Asked, Next
    PROVE  Asked'
<1>1. CASE HumanSends
    <2>1. /\ UNCHANGED <<stack, ended, events, works, pc>> /\ human = "idle"
          /\ Left' = Left /\ EngineToMove' = EngineToMove /\ Live' = Live
        BY <1>1, LeftSame DEF HumanSends, gameVars, workVars, workerVars, EngineToMove, Live
    <2>2. Room => Left > events
        BY DEF Room, Left, Unused
    <2>3. Left \in Nat /\ events \in Nat
        BY LeftNat DEF Records
    <2>4. CASE human' = "takeback"
        BY <2>1, <2>4 DEF Asked
    <2>5. CASE Room /\ (\A w \in Workers : pc[w] # "saving") /\ human' = "move" /\ ~EngineToMove
        BY <2>1, <2>2, <2>3, <2>5 DEF Asked
    <2> QED
        BY <1>1, <2>4, <2>5 DEF HumanSends
<1>2. CASE GameEnds
    BY <1>2 DEF GameEnds, Asked, Live
<1>3. CASE Table
    <2>1. UNCHANGED <<ended, events>> /\ ~Live
        BY <1>3 DEF Table, RequestAnalysis, Evict, gameVars
    <2> QED
        BY <2>1 DEF Asked, Live
<1>4. CASE \E id \in Jobs : Timeout(id)
    <2>1. UNCHANGED <<stack, human, events, ended, works, pc>>
        BY <1>4 DEF Timeout, TimePasses, gameVars, workerVars
    <2> QED
        BY <2>1, LeftSame, AskedKept DEF Live
<1>5. ASSUME NEW w \in Workers, Request(w) \/ Answer(w) \/ Continue(w)
      PROVE  Asked'
    <2>1. CASE PlayPush(w) \/ PlaySaved(w)
        BY <2>1, AskedPush, AskedSaved
    <2>2. CASE ~PlayPush(w) /\ ~PlaySaved(w)
        <3>1. UNCHANGED <<stack, human, events>> /\ (Live' => Live)
            BY <1>5, <2>2 DEF Request, GetWork, Answer, Report, Vanish, AnswerNothing, AnswerMove,
               AnswerAnalysis, Abort, Continue, Play, PlayIgnored, PlayInvalid, PlayRaises,
               PlayDone, Deliver, DropTerminal, Adjudicate, gameVars, Live
        <3>2. Left' = Left
            BY <1>5, LeftWorker, TableGetWork, TableReport, TableContinue DEF Request, Answer
        <3>3. \A v \in Workers : pc'[v] = "saving" => pc[v] = "saving"
            BY <1>5, <2>2 DEF IInv, Typed, Goto, Assign, Request, GetWork, Fetch, Reissue, Answer,
               Report, Vanish, AnswerNothing, AnswerMove, HandleInvalid,
               AnswerAnalysis, Abort, Continue, Play, PlayIgnored, PlayInvalid, PlayRaises,
               PlayDone, Deliver, DropTerminal, Adjudicate
        <3> QED
            BY <3>1, <3>2, <3>3, AskedKept
    <2> QED
        BY <2>1, <2>2
<1> QED
    BY <1>1, <1>2, <1>3, <1>4, <1>5, AskedHuman, AskedBot DEF Next, Game, Bot

-----------------------------------------------------------------------------
(* How many failures a job has                                               *)

LEMMA Sizes ==
    ASSUME NEW S \in SUBSET Workers
    PROVE  IsFiniteSet(S) /\ Cardinality(S) \in Nat /\ Cardinality(S) <= Cardinality(Workers)
           /\ Cardinality(Workers) \in Nat
BY WorkersAssumption, FS_Subset, FS_CardinalityType

LEMMA Sooner ==
    ASSUME NEW S \in SUBSET Workers, NEW T \in SUBSET S
    PROVE  Cardinality(T) <= Cardinality(S) /\ Cardinality(T) \in Nat /\ Cardinality(S) \in Nat
<1>1. IsFiniteSet(S) /\ Cardinality(S) \in Nat
    BY Sizes
<1>2. T \in SUBSET Workers
    OBVIOUS
<1> QED
    BY <1>1, <1>2, Sizes, FS_Subset

LEMMA Apart ==
    ASSUME NEW S \in SUBSET Workers, NEW T \in SUBSET Workers, S \cap T = {}
    PROVE  Cardinality(S) + Cardinality(T) <= Cardinality(Workers)
<1>1. IsFiniteSet(S) /\ IsFiniteSet(Workers \ S) /\ T \in SUBSET (Workers \ S)
    BY Sizes
<1>2. Cardinality(T) <= Cardinality(Workers \ S)
    BY <1>1, FS_Subset
<1>3. Workers \cap S = S
    OBVIOUS
<1>4. Cardinality(Workers \ S) = Cardinality(Workers) - Cardinality(S)
    <2>1. Cardinality(Workers \ S) = Cardinality(Workers) - Cardinality(Workers \cap S)
        BY WorkersAssumption, FS_Difference
    <2> QED
        BY <1>3, <2>1, Zenon
<1>5. /\ Cardinality(S) \in Nat /\ Cardinality(T) \in Nat /\ Cardinality(Workers) \in Nat
      /\ Cardinality(Workers \ S) \in Nat
    BY <1>1, Sizes
<1> QED
    BY <1>2, <1>4, <1>5

LEMMA Numbers ==
    ASSUME Records, NEW j \in Jobs
    PROVE  /\ \A k \in Counters : failures[j][k] \in Nat /\ LimitOf[k] \in Nat \ {0}
           /\ "invalid" \in Counters /\ LimitOf["invalid"] = InvalidLimit
           /\ Recording(j) \in SUBSET Workers /\ Trying(j) \in SUBSET Workers
           /\ Recording(j)' \in SUBSET Workers /\ Trying(j)' \in SUBSET Workers
           /\ Recording(j) \cap Trying(j) = {}
           /\ Cardinality(Recording(j)) \in Nat /\ Cardinality(Trying(j)) \in Nat
           /\ Cardinality(Recording(j)') \in Nat /\ Cardinality(Trying(j)') \in Nat
           /\ Cardinality(Recording(j)) <= Cardinality(Workers)
           /\ Cardinality(Workers) \in Nat
<1>1. /\ Recording(j) \in SUBSET Workers /\ Trying(j) \in SUBSET Workers
      /\ Recording(j)' \in SUBSET Workers /\ Trying(j)' \in SUBSET Workers
      /\ Recording(j) \cap Trying(j) = {}
    BY DEF Recording, Trying
<1>2. \A k \in Counters : failures[j][k] \in Nat
    BY DEF Records
<1> QED
    BY <1>1, <1>2, Sizes, Limits

\* Nothing is counted, and nobody but who plays a move that is pending comes to
\* play it.
LEMMA GivenKept ==
    ASSUME IInv, Records, NEW j \in Jobs, Given(j),
           works'[j] = works[j], failures'[j] = failures[j],
           Pending(j) => Recording(j) \subseteq Recording(j)',
           works[j] = "gone" => Trying(j)' \subseteq Trying(j)
    PROVE  Given(j)'
<1>1. CASE works[j] = "new"
    BY <1>1 DEF Given, Pending
<1>2. CASE Pending(j)
    <2>1. Cardinality(Recording(j)) <= Cardinality(Recording(j)')
        BY <1>2, Numbers, Sooner
    <2>2. \A k \in Counters : failures[j][k] <= LimitOf[k] - 1 + Cardinality(Recording(j)')
        BY <1>2, <2>1, Numbers DEF Given
    <2> QED
        BY <1>2, <2>2 DEF Given, Pending
<1>3. CASE works[j] = "gone"
    <2>1. Cardinality(Trying(j)') <= Cardinality(Trying(j))
        BY <1>3, Numbers, Sooner
    <2>2. failures[j]["invalid"] + Cardinality(Trying(j)') <= InvalidLimit - 1 + Cardinality(Workers)
        BY <1>3, <2>1, Numbers DEF Given
    <2> QED
        BY <1>3, <2>2 DEF Given, Pending
<1> QED
    BY <1>1, <1>2, <1>3 DEF IInv, Typed, Pending

\* The job goes: its failures are forgotten or have been counted.
LEMMA GivenGone ==
    ASSUME IInv, Records, Records', NEW j \in Jobs, Given(j),
           works[j] # "new", works'[j] = "gone",
           \A k \in Counters : failures'[j][k] <= failures[j][k],
           Trying(j)' \subseteq Trying(j)
    PROVE  Given(j)'
<1>0. \A k \in Counters : failures'[j][k] \in Nat
    BY DEF Records
<1>1. Cardinality(Trying(j)') <= Cardinality(Trying(j))
    BY Numbers, Sooner
<1>2. CASE Pending(j)
    <2>1. Cardinality(Recording(j)) + Cardinality(Trying(j)') <= Cardinality(Workers)
        <3>1. Recording(j) \cap Trying(j)' = {}
            BY Numbers
        <3> QED
            BY <3>1, Numbers, Apart
    <2>2. \A k \in Counters : failures[j][k] <= LimitOf[k] - 1 + Cardinality(Recording(j))
        BY <1>2 DEF Given
    <2>3. \A k \in Counters : failures'[j][k] <= LimitOf[k] - 1 + Cardinality(Workers)
        BY <1>0, <2>2, Numbers
    <2>4. failures'[j]["invalid"] <= InvalidLimit - 1 + Cardinality(Recording(j))
        BY <1>0, <2>2, Numbers
    <2>5. failures'[j]["invalid"] + Cardinality(Trying(j)') <= InvalidLimit - 1 + Cardinality(Workers)
        BY <1>0, <2>1, <2>4, Numbers
    <2> QED
        BY <2>3, <2>5 DEF Given, Pending
<1>3. CASE works[j] = "gone"
    <2>1. \A k \in Counters : failures'[j][k] <= LimitOf[k] - 1 + Cardinality(Workers)
        BY <1>0, <1>3, Numbers DEF Given
    <2>2. failures'[j]["invalid"] + Cardinality(Trying(j)') <= InvalidLimit - 1 + Cardinality(Workers)
        BY <1>0, <1>1, <1>3, Numbers DEF Given
    <2> QED
        BY <2>1, <2>2 DEF Given, Pending
<1> QED
    BY <1>2, <1>3 DEF IInv, Typed, Pending

LEMMA GivenCounts ==
    ASSUME IInv, Records, Records', NEW j \in Jobs, Given(j),
           NEW w \in Workers, NEW ks \in SUBSET Counters, Counts(w, j, ks)
    PROVE  Given(j)'
<1>1. \A k \in Counters : failures'[j][k] = IF k \in ks THEN failures[j][k] + 1 ELSE failures[j][k]
    BY CountRecords DEF Counts
<1>2. works'[j] = works[j] /\ works[j] # "new"
    BY DEF Counts
<1>3. \A v \in Workers : v # w => pc'[v] = pc[v] /\ job'[v] = job[v]
    BY DEF Counts, OthersKept
<1>4. CASE Pending(j)
    <2>1. Recording(j) \subseteq Recording(j)' /\ w \notin Recording(j)
        BY <1>3 DEF Counts, Recording
    <2>2. Cardinality(Recording(j)) <= Cardinality(Recording(j)')
        BY <2>1, Numbers, Sooner
    <2>3. \A k \in Counters : failures[j][k] <= LimitOf[k] - 1 + Cardinality(Recording(j))
        BY <1>4 DEF Given
    <2>4. \A k \in Counters : failures'[j][k] <= LimitOf[k] - 1 + Cardinality(Recording(j)')
        <3>1. CASE pc'[w] = "recording" /\ job'[w] = j
            <4>1. Recording(j) \cup {w} \subseteq Recording(j)'
                BY <2>1, <3>1 DEF Recording
            <4>2. Cardinality(Recording(j) \cup {w}) <= Cardinality(Recording(j)')
                BY <4>1, Numbers, Sooner
            <4>3. IsFiniteSet(Recording(j))
                BY Numbers, Sizes
            <4>4. Cardinality(Recording(j) \cup {w}) = Cardinality(Recording(j)) + 1
                BY <2>1, <4>3, FS_AddElement
            <4>5. Cardinality(Recording(j)) + 1 <= Cardinality(Recording(j)')
                BY <4>2, <4>4
            <4> QED
                BY <1>1, <2>3, <4>5, Numbers
        <3>2. CASE \A k \in ks : ~Reached(j, k)
            <4>1. \A k \in ks : failures'[j][k] <= LimitOf[k] - 1
                BY <1>1, <3>2, Numbers DEF Reached
            <4>2. \A k \in Counters \ ks : failures'[j][k] <= LimitOf[k] - 1 + Cardinality(Recording(j))
                BY <1>1, <2>3
            <4>3. \A k \in Counters : failures'[j][k] \in Nat
                BY DEF Records
            <4> QED
                BY <2>2, <4>1, <4>2, <4>3, Numbers
        <3> QED
            BY <3>1, <3>2 DEF Counts
    <2>5. works'[j] # "new" /\ works'[j] # "gone"
        BY <1>2, <1>4 DEF Pending
    <2> QED
        BY <2>4, <2>5 DEF Given
<1>5. CASE works[j] = "gone"
    <2>1. ks = {"invalid"} /\ w \in Trying(j)
        BY <1>5 DEF Counts, Trying, Playable
    <2>2. Trying(j)' \subseteq Trying(j) \ {w}
        BY <1>3 DEF Counts, Trying, Playable
    <2>3. IsFiniteSet(Trying(j)) /\ Trying(j) \ {w} \in SUBSET Workers
        BY Numbers, Sizes
    <2>4. Cardinality(Trying(j) \ {w}) = Cardinality(Trying(j)) - 1
        BY <2>1, <2>3, FS_RemoveElement
    <2>5. Cardinality(Trying(j)') <= Cardinality(Trying(j)) - 1
        BY <2>2, <2>3, <2>4, Sooner
    <2>6. failures[j]["invalid"] + Cardinality(Trying(j)) <= InvalidLimit - 1 + Cardinality(Workers)
        BY <1>5 DEF Given
    <2>7. failures'[j]["invalid"] = failures[j]["invalid"] + 1
        BY <1>1, <2>1, Numbers
    <2>8. failures'[j]["invalid"] + Cardinality(Trying(j)') <= InvalidLimit - 1 + Cardinality(Workers)
        BY <2>5, <2>6, <2>7, Numbers, LimitsAssumption
    <2>9. failures'[j]["invalid"] <= LimitOf["invalid"] - 1 + Cardinality(Workers)
        BY <2>7, <2>8, Numbers
    <2>10. \A k \in Counters \ {"invalid"} : failures'[j][k] <= LimitOf[k] - 1 + Cardinality(Workers)
        BY <1>1, <1>5, <2>1 DEF Given
    <2>11. \A k \in Counters : failures'[j][k] <= LimitOf[k] - 1 + Cardinality(Workers)
        BY <2>9, <2>10
    <2> QED
        BY <1>2, <1>5, <2>8, <2>11 DEF Given, Pending
<1> QED
    BY <1>2, <1>4, <1>5 DEF IInv, Typed, Pending

LEMMA GivenWorker ==
    ASSUME IInv, Records, Records', NEW j \in Jobs, Given(j), NEW w \in Workers, InTable(w)
    PROVE  Given(j)'
<1>0. ASSUME OthersKept(w)
      PROVE  /\ pc[w] # "recording" \/ job[w] # j => Recording(j) \subseteq Recording(j)'
             /\ pc'[w] \notin Playable \/ job'[w] # j \/ w \in Trying(j) => Trying(j)' \subseteq Trying(j)
    BY <1>0 DEF OthersKept, Recording, Trying, Playable
<1>1. CASE Passes(w)
    <2>1. works'[j] = works[j] /\ failures'[j] = failures[j] /\ OthersKept(w)
        BY <1>1 DEF Passes
    <2>2. ASSUME Pending(j) PROVE Recording(j) \subseteq Recording(j)'
        <3>1. pc[w] # "recording" \/ job[w] # j
            BY <1>1, <2>2 DEF Passes, Pending
        <3> QED
            BY <1>0, <2>1, <3>1
    <2>3. ASSUME works[j] = "gone" PROVE Trying(j)' \subseteq Trying(j)
        <3>1. pc'[w] \notin Playable \/ job'[w] # j \/ w \in Trying(j)
            BY <1>1, <2>3 DEF Passes, Trying, Playable
        <3> QED
            BY <1>0, <2>1, <3>1
    <2> QED
        BY <2>1, <2>2, <2>3, GivenKept
<1>2. CASE Drops(w)
    <2>1. OthersKept(w) /\ pc'[w] \notin Playable /\ job[w] \in Jobs /\ works[job[w]] # "new"
        BY <1>2, HasJob DEF Drops
    <2>2. Trying(j)' \subseteq Trying(j)
        BY <1>0, <2>1
    <2>3. Forget({job[w]})
        BY <1>2 DEF Drops, Drop
    <2>4. CASE job[w] = j
        <3>1. works'[j] = "gone" /\ \A k \in Counters : failures'[j][k] = 0 \/ failures'[j][k] = failures[j][k]
            BY <2>3, <2>4 DEF Forget
        <3>2. \A k \in Counters : failures'[j][k] <= failures[j][k]
            BY <3>1, Numbers
        <3> QED
            BY <2>1, <2>2, <2>4, <3>1, <3>2, GivenGone
    <2>5. CASE job[w] # j
        <3>1. works'[j] = works[j] /\ failures'[j] = failures[j]
            BY <2>3, <2>5 DEF Forget, Records
        <3>2. Recording(j) \subseteq Recording(j)'
            BY <1>0, <2>1, <2>5
        <3> QED
            BY <2>2, <3>1, <3>2, GivenKept
    <2> QED
        BY <2>4, <2>5
<1>3. ASSUME NEW id \in Jobs, NEW ks \in SUBSET Counters, Counts(w, id, ks)
      PROVE  Given(j)'
    <2>1. CASE id = j
        BY <1>3, <2>1, GivenCounts
    <2>2. CASE id # j
        <3>1. works'[j] = works[j] /\ OthersKept(w) /\ pc[w] # "recording" /\ pc'[w] \notin Playable
            BY <1>3 DEF Counts
        <3>2. failures'[j] = failures[j]
            BY <1>3, <2>2 DEF Counts, Count, Records
        <3> QED
            BY <1>0, <3>1, <3>2, GivenKept
    <2> QED
        BY <2>1, <2>2
<1> QED
    BY <1>1, <1>2, <1>3 DEF InTable

LEMMA GivenOthers ==
    ASSUME IInv, Records, Records', NEW j \in Jobs, Given(j), UNCHANGED <<pc, job>>,
           Rests \/ Enqueues \/ Clears
    PROVE  Given(j)'
<1>1. Recording(j)' = Recording(j) /\ Trying(j)' = Trying(j)
    BY DEF Recording, Trying
<1>2. CASE Rests
    BY <1>1, <1>2, GivenKept DEF Rests
<1>3. CASE Enqueues
    <2>1. PICK k \in {"move", "analysis"}, t \in {"none", "fresh"}, stale \in SUBSET Jobs :
              Enqueue(k, t, stale) /\ \A id \in stale : Pending(id)
        BY <1>3 DEF Enqueues
    <2>2. PICK id \in Jobs :
              /\ works[id] = "new"
              /\ works' = [i \in Jobs |-> IF i = id THEN k
                                         ELSE IF i \in stale THEN "gone" ELSE works[i]]
        BY <2>1 DEF Enqueue
    <2>3. failures' = failures /\ \A c \in Counters : failures'[j][c] = failures[j][c]
        BY <2>1 DEF Enqueue
    <2>4. CASE j = id
        <3>1. Pending(j)' /\ works'[j] # "new" /\ works'[j] # "gone"
            BY <2>2, <2>4 DEF Pending
        <3>2. \A c \in Counters : failures'[j][c] = 0
            BY <2>2, <2>3, <2>4 DEF Given
        <3>3. \A c \in Counters : failures'[j][c] <= LimitOf[c] - 1 + Cardinality(Recording(j)')
            BY <3>2, Numbers
        <3> QED
            BY <3>1, <3>3 DEF Given
    <2>5. CASE j # id /\ j \in stale
        <3>1. works[j] # "new" /\ works'[j] = "gone"
            BY <2>1, <2>2, <2>5 DEF Pending
        <3>2. \A c \in Counters : failures'[j][c] <= failures[j][c]
            BY <2>3, Numbers
        <3> QED
            BY <1>1, <3>1, <3>2, GivenGone
    <2>6. CASE j # id /\ j \notin stale
        BY <1>1, <2>2, <2>3, <2>6, GivenKept
    <2> QED
        BY <2>4, <2>5, <2>6
<1>4. CASE Clears
    <2>1. PICK ids \in SUBSET Jobs : Forget(ids) /\ \A id \in ids : Pending(id)
        BY <1>4 DEF Clears
    <2>2. CASE j \in ids
        <3>1. works[j] # "new" /\ works'[j] = "gone"
            BY <2>1, <2>2 DEF Pending, Forget
        <3>2. \A k \in Counters : failures'[j][k] = 0 \/ failures'[j][k] = failures[j][k]
            BY <2>1, <2>2 DEF Forget
        <3>3. \A k \in Counters : failures'[j][k] <= failures[j][k]
            BY <3>2, Numbers
        <3> QED
            BY <1>1, <3>1, <3>3, GivenGone
    <2>3. CASE j \notin ids
        <3>1. works'[j] = works[j] /\ failures'[j] = failures[j]
            BY <2>1, <2>3 DEF Forget, Records
        <3> QED
            BY <1>1, <3>1, GivenKept
    <2> QED
        BY <2>2, <2>3
<1> QED
    BY <1>2, <1>3, <1>4

-----------------------------------------------------------------------------
(* The types                                                                 *)

LEMMA BInvInit == Init => BInv
<1> SUFFICES ASSUME Init PROVE BInv
    OBVIOUS
<1>1. Records
    BY DEF Init, Records
<1>2. Short
    BY MovesAssumption DEF Init, Short, EngineToMove
<1>3. Asked
    BY LeftNat, MovesAssumption DEF Init, Asked, EngineToMove
<1>4. ASSUME NEW id \in Jobs PROVE queued[id] = 0 /\ works[id] = "new" /\ \A k \in Counters : failures[id][k] = 0
    BY DEF Init
<1>5. Queued
    BY <1>1, <1>4, SpentNat DEF Queued
<1>6. \A id \in Jobs : Given(id)
    BY <1>4 DEF Given, Pending
<1> QED
    BY <1>1, <1>2, <1>3, <1>5, <1>6 DEF BInv

LEMMA BInvNext == IInv /\ BInv /\ [Next]_vars => BInv'
<1> SUFFICES ASSUME IInv, BInv, [Next]_vars PROVE BInv'
    OBVIOUS
<1>1. Records /\ Short /\ Asked /\ Queued /\ \A id \in Jobs : Given(id)
    BY DEF BInv
<1>2. CASE Next
    <2>1. ASSUME NEW w \in Workers, Request(w) \/ Answer(w) \/ Continue(w) PROVE InTable(w)
        BY <2>1, TableGetWork, TableReport, TableContinue DEF Request, Answer
    <2>2. ASSUME Game \/ HumanStep \/ Bot \/ Table \/ \E id \in Jobs : Timeout(id)
          PROVE  UNCHANGED <<pc, job>> /\ (Rests \/ Enqueues \/ Clears)
        BY <2>2, TableOthers
    <2>3. (\E w \in Workers : Request(w) \/ Answer(w) \/ Continue(w))
          \/ Game \/ HumanStep \/ Bot \/ Table \/ \E id \in Jobs : Timeout(id)
        BY <1>2 DEF Next
    <2>4. /\ time' \in [Jobs -> {"none", "fresh", "old"}]
          /\ queued' \in [Jobs -> Nat] /\ failures' \in [Jobs -> [Counters -> Nat]]
        BY <1>1, <2>1, <2>2, <2>3, RecordsWorker, RecordsOthers, RecordsTime
    <2>5. Records'
        BY <1>1, <1>2, <2>4, RecordsGame DEF Records
    <2>6. Short' /\ Asked' /\ Queued'
        BY <1>1, <1>2, <2>5, ShortNext, AskedNext, QueuedNext
    <2>7. \A id \in Jobs : Given(id)'
        BY <1>1, <2>1, <2>2, <2>3, <2>5, GivenWorker, GivenOthers
    <2> QED
        BY <2>5, <2>6, <2>7 DEF BInv
<1>3. CASE UNCHANGED vars
    <2>1. /\ UNCHANGED <<stack, ended, human, events, works, moves, time, queued, failures, pc, job>>
        BY <1>3 DEF vars, gameVars, workVars, workerVars
    <2>2. Records'
        BY <1>1, <2>1 DEF Records
    <2>3. Short'
        BY <1>1, <2>1, ShortKept
    <2>4. Asked'
        BY <1>1, <2>1, LeftSame, AskedKept DEF Live
    <2>5. Queued'
        BY <1>1, <2>1 DEF Queued, Spent
    <2>6. \A id \in Jobs : Given(id)'
        BY <1>1, <2>1, <2>2, GivenOthers DEF Rests
    <2> QED
        BY <2>2, <2>3, <2>4, <2>5, <2>6 DEF BInv
<1> QED
    BY <1>2, <1>3

LEMMA Stacked ==
    ASSUME NEW s \in Seq(Moves), Len(s) <= MaxPly + 1
    PROVE  s \in Stacks
<1>1. Len(s) \in 0..(MaxPly + 1) /\ s \in [1..Len(s) -> HumanMoves \cup EngineMoves]
    BY MovesAssumption DEF Moves
<1> QED
    BY <1>1 DEF Stacks

LEMMA CountTo == \A n \in Nat : Cardinality(1..n) = n
<1> SUFFICES ASSUME NEW n \in Nat PROVE Cardinality(1..n) = n
    OBVIOUS
<1>1. 1 \in Int /\ n \in Int
    OBVIOUS
<1>2. Cardinality(1..n) = IF 1 > n THEN 0 ELSE n - 1 + 1
    BY <1>1, FS_Interval
<1> QED
    BY <1>2

\* Nobody stands in the line twice.
LEMMA LineShort ==
    ASSUME IInv
    PROVE  line \in UNION {[1..n -> Workers \cup {Human}] : n \in 0..Cardinality(Workers) + 1}
<1>1. line \in [1..Len(line) -> Procs] /\ Len(line) \in Nat
    BY DEF IInv, Typed
<1>2. line \in Injection(1..Len(line), Procs)
    BY <1>1 DEF IInv, LineInv, Once, Injection, IsInjective
<1>3. IsFiniteSet(Procs) /\ Cardinality(Procs) = Cardinality(Workers) + 1
    BY WorkersAssumption, HumanAssumption, FS_AddElement DEF Procs
<1>4. Cardinality(1..Len(line)) <= Cardinality(Procs)
    BY <1>2, <1>3, FS_Injection
<1>5. Cardinality(1..Len(line)) = Len(line)
    BY <1>1, CountTo
<1>6. Len(line) \in 0..Cardinality(Workers) + 1
    BY <1>1, <1>3, <1>4, <1>5, WorkersAssumption, FS_CardinalityType
<1> QED
    BY <1>1, <1>6 DEF Procs

LEMMA FailuresBelow ==
    ASSUME IInv, BInv, NEW id \in Jobs, NEW k \in Counters
    PROVE  failures[id][k] <= LimitOf[k] + Cardinality(Workers) - 1
<1>1. Records /\ Given(id)
    BY DEF BInv
<1>2. CASE works[id] = "new"
    BY <1>1, <1>2, Numbers DEF Given
<1>3. CASE Pending(id)
    <2>1. failures[id][k] <= LimitOf[k] - 1 + Cardinality(Recording(id))
        BY <1>1, <1>3 DEF Given
    <2> QED
        BY <1>1, <2>1, Numbers
<1>4. CASE works[id] = "gone"
    <2>1. failures[id][k] <= LimitOf[k] - 1 + Cardinality(Workers)
        BY <1>1, <1>4 DEF Given
    <2> QED
        BY <1>1, <2>1, Numbers
<1> QED
    BY <1>2, <1>3, <1>4 DEF IInv, Typed, Pending

LEMMA QueuedBelow ==
    ASSUME BInv, NEW id \in Jobs
    PROVE  queued[id] \in 0..AbortLimit + InvalidLimit
<1>1. Records /\ queued[id] <= 1 + Spent(id, "abort") + Spent(id, "invalid") /\ queued[id] \in Nat
    BY DEF BInv, Queued, Records
<1>2. Spent(id, "abort") < AbortLimit /\ Spent(id, "invalid") < InvalidLimit
    BY <1>1, Limits DEF Spent, Records
<1>3. Spent(id, "abort") \in Nat /\ Spent(id, "invalid") \in Nat
    BY <1>1, SpentNat
<1> QED
    BY <1>1, <1>2, <1>3, LimitsAssumption

LEMMA TypesHold == IInv /\ BInv => TypeOK
<1> SUFFICES ASSUME IInv, BInv PROVE TypeOK
    OBVIOUS
<1>1. Records /\ Short /\ Asked
    BY DEF BInv
<1>2. stack \in Stacks /\ moves \in [Jobs -> Stacks]
    <2>1. stack \in Seq(Moves) /\ moves \in [Jobs -> Seq(Moves)]
        BY DEF IInv, Typed
    <2>2. \A id \in Jobs : moves[id] \in Stacks
        BY <1>1, <2>1, Stacked DEF Short
    <2> QED
        BY <1>1, <2>1, <2>2, Stacked DEF Short
<1>3. by \in Seq(Jobs \cup {NoJob}) /\ Len(by) = Len(stack)
    BY DEF IInv, Typed
<1>4. /\ works \in [Jobs -> {"new", "move", "analysis", "gone"}]
      /\ pc \in [Workers -> {"idle", "work", "lock", "saving", "telling",
                             "recording", "adjudicate", "deliver", "error"}]
      /\ job \in [Workers -> Jobs \cup {NoJob}]
    BY DEF IInv, Typed
<1>5. events \in 0..MaxJobs
    BY <1>1, MovesAssumption DEF Records, Asked
<1>6. queued \in [Jobs -> 0..AbortLimit + InvalidLimit]
    BY <1>1, QueuedBelow DEF Records
<1>7. \A id \in Jobs : \A k \in Counters : failures[id][k] <= LimitOf[k] + Cardinality(Workers) - 1
    BY FailuresBelow
<1> QED
    BY <1>1, <1>2, <1>3, <1>4, <1>5, <1>6, <1>7, LineShort DEF TypeOK, Records

\* Every variable of the jobs keeps its type: no more game states wait than there are
\* jobs left for them, nobody stands in the line for the lock twice, and however many
\* workers answer a job late, its counters pass their limits by less than their number
\* (get_work, _handle_invalid_fishnet_move, _drop_terminal_work_failure).
THEOREM TypeCorrect == Spec => []TypeOK
BY IInvInit, IInvNext, BInvInit, BInvNext, TypesHold, PTL DEF Spec

=============================================================================
