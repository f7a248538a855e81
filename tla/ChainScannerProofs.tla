------------------------- MODULE ChainScannerProofs -------------------------
(***************************************************************************)
(* Theorems about the scanner when one process runs the command, for every *)
(* block tree, number of workers, retries, faults and crashes: it          *)
(* implements ChainIndex, its window of futures follows the heights, it    *)
(* stops at the height it set out for, and it discards only stale blocks.  *)
(***************************************************************************)
EXTENDS ChainScanner, ChainLedgerLemmas

-----------------------------------------------------------------------------
(* The chain from the start height to a block. *)

\* The recursive definition of ActiveChain has a solution, so it is one.
LEMMA ActiveChainStep ==
    /\ ActiveChain[None] = {}
    /\ \A b \in Block : ActiveChain[b] = {b} \cup ActiveChain[Parent[b]]
<1> DEFINE D == Block \cup {None}
           Step1(f) == [b \in D |-> IF b = None THEN {} ELSE {b} \cup f[Parent[b]]]
           line == [b \in D |-> IF b = None THEN {} ELSE Line(b)]
<1>1. line = Step1(line)
  <2>1. \A b \in Block : b # None /\ Parent[b] \in D
    BY HeightAssumption, ParentAssumption
  <2>2. \A b \in Block : Line(b) = {b} \cup line[Parent[b]]
    BY <2>1, LineStep
  <2> HIDE DEF line
  <2>3. \A b \in D : line[b] = IF b = None THEN {} ELSE {b} \cup line[Parent[b]]
    BY <2>1, <2>2 DEF line
  <2>4. line = [b \in D |-> line[b]]
    BY DEF line
  <2> QED
    BY <2>3, <2>4
<1>2. ActiveChain = CHOOSE f : f = Step1(f)
  BY DEF ActiveChain
<1> HIDE DEF line, Step1
<1>3. ActiveChain = Step1(ActiveChain)
  BY <1>1, <1>2
<1> QED
  BY <1>3, HeightAssumption DEF Step1

\* One block at each height up to that of b, none above.
IsChain(C, n) ==
    /\ C \subseteq Block
    /\ \A c \in C : Height[c] <= n
    /\ \A h \in StartHeight .. n : \E c \in C : Height[c] = h
    /\ \A c, d \in C : Height[c] = Height[d] => c = d

LEMMA ChainOfBlock == \A b \in Block : IsChain(ActiveChain[b], Height[b])
<1> DEFINE Bad == {b \in Block : ~IsChain(ActiveChain[b], Height[b])}
           T == {Height[b] : b \in Bad}
<1>1. SUFFICES ASSUME Bad # {} PROVE FALSE
  OBVIOUS
<1>2. T \subseteq Nat /\ T # {}
  BY <1>1, HeightAssumption
<1>3. PICK b \in Bad : \A c \in Bad : Height[b] <= Height[c]
  <2>1. PICK n \in T : \A k \in T : n <= k
    BY <1>2, LeastNatural
  <2> QED
    BY <2>1
<1>4. ActiveChain[b] = {b} \cup ActiveChain[Parent[b]]
  BY ActiveChainStep
<1>5. Height[b] \in Nat /\ StartHeight \in Nat /\ Height[b] >= StartHeight
  BY HeightAssumption
<1>6. CASE Parent[b] = None
  <2>1. ActiveChain[b] = {b} /\ Height[b] = StartHeight
    BY <1>4, <1>6, ActiveChainStep, ParentAssumption
  <2> QED
    BY <1>5, <2>1 DEF IsChain
<1>7. CASE Parent[b] # None
  <2> DEFINE q == Parent[b]
             C == ActiveChain[q]
             n == Height[q]
  <2>1. q \in Block /\ Height[b] = n + 1 /\ n \in Nat
    BY <1>7, ParentAssumption, HeightAssumption
  <2>2. IsChain(C, n)
    BY <1>3, <1>5, <2>1
  <2> HIDE DEF C, n, q
  <2>3. \A c \in C : Height[c] \in Nat /\ Height[c] <= n
    BY <2>2, HeightAssumption DEF IsChain
  <2>4. IsChain({b} \cup C, n + 1)
    <3>1. \A h \in StartHeight .. n + 1 : h = n + 1 \/ h \in StartHeight .. n
      BY <1>5, <2>1
    <3>2. {b} \cup C \subseteq Block /\ \A c \in {b} \cup C : Height[c] <= n + 1
      BY <2>1, <2>2, <2>3 DEF IsChain
    <3>3. \A h \in StartHeight .. n + 1 : \E c \in {b} \cup C : Height[c] = h
      BY <2>1, <2>2, <3>1 DEF IsChain
    <3>4. \A c, d \in {b} \cup C : Height[c] = Height[d] => c = d
      BY <2>1, <2>2, <2>3 DEF IsChain
    <3> QED
      BY <3>2, <3>3, <3>4 DEF IsChain
  <2> QED
    BY <1>4, <2>1, <2>4 DEF C, q
<1> QED
  BY <1>6, <1>7

LEMMA NodeChain ==
    ASSUME tip \in Block \cup {None}
    PROVE  /\ IsChain(ActiveChain[tip], NodeHeight)
           /\ NodeHeight \in Int /\ NodeHeight >= StartHeight - 1
<1>1. CASE tip = None
  <2>1. ActiveChain[tip] = {} /\ NodeHeight = StartHeight - 1 /\ StartHeight \in Nat
    BY <1>1, ActiveChainStep, HeightAssumption DEF NodeHeight
  <2> QED
    BY <2>1 DEF IsChain
<1>2. CASE tip # None
  <2>1. NodeHeight = Height[tip] /\ tip \in Block
    BY <1>2 DEF NodeHeight
  <2> QED
    BY <2>1, ChainOfBlock, HeightAssumption
<1> QED
  BY <1>1, <1>2

LEMMA HashAtIs ==
    ASSUME tip \in Block \cup {None}
    PROVE  /\ \A h : HashAt(h) # None =>
                   HashAt(h) \in ActiveChain[tip] /\ Height[HashAt(h)] = h
           /\ \A c \in ActiveChain[tip] : HashAt(Height[c]) = c
<1>1. IsChain(ActiveChain[tip], NodeHeight)
  BY NodeChain
<1>2. ASSUME NEW h, HashAt(h) # None
      PROVE  HashAt(h) \in ActiveChain[tip] /\ Height[HashAt(h)] = h
  BY <1>1, <1>2 DEF HashAt, IsChain
<1>3. ASSUME NEW c \in ActiveChain[tip] PROVE HashAt(Height[c]) = c
  <2>1. Height[c] \in StartHeight .. NodeHeight
    BY <1>1, HeightAssumption, NodeChain DEF IsChain
  <2> QED
    BY <1>1, <2>1 DEF HashAt, IsChain
<1> QED
  BY <1>2, <1>3

-----------------------------------------------------------------------------
(* The inductive invariant. *)

Points == {"down", "ask", "reconcile", "rollback", "plan", "scan", "write", "done"}

Types ==
    /\ tip \in Block \cup {None} /\ moves \in Nat
    /\ pc \in [Procs -> Points]
    /\ goal \in [Procs -> Int] /\ at \in [Procs -> Int] /\ asked \in [Procs -> Int]
    /\ mem = [p \in Procs |-> mem[p]] /\ taken = [p \in Procs |-> taken[p]]
    /\ pending = [p \in Procs |-> pending[p]]

Disk == db \in recoverable /\ \A d \in recoverable : Sound(d) /\ Linked(d)

\* A running command holds what a restart would load; no other process writes.
Memory == \A p \in Procs : mem[p] = IF pc[p] = "down" THEN None ELSE Reload(db)

\* While the node has not moved since it was asked, no common block is above
\* the candidate.
Walk(p) ==
    /\ at[p] <= LastHeight(db) /\ at[p] <= goal[p]
    /\ asked[p] = moves =>
          \A b \in db.blocks \cap ActiveChain[tip] : Height[b] <= at[p]

\* What the command knows at each point of its run.
Place ==
    \A p \in Procs :
        /\ asked[p] <= moves
        /\ pc[p] \in {"reconcile", "rollback"} => Walk(p)
        /\ pc[p] = "rollback" => at[p] \in Heights
        /\ pc[p] = "plan" => LastHeight(db) <= goal[p]
        /\ pc[p] \in {"scan", "write"} => at[p] = LastHeight(db) + 1 /\ at[p] <= goal[p]
        /\ pc[p] = "write" => /\ taken[p] \in Block
                              /\ Connects(db, taken[p])
                              /\ Staged(mem[p], taken[p]).ok
                              /\ Reconciles(mem[p], Staged(mem[p], taken[p]))
        /\ pc[p] = "done" => LastHeight(db) = goal[p]

Future == [tries : Int, got : Block \cup {None}]

Futures ==
    /\ WindowFollows
    /\ \A p \in Procs : \A h \in DOMAIN pending[p] : pending[p][h] \in Future

Inv == Types /\ Disk /\ Memory /\ Place /\ Futures

-----------------------------------------------------------------------------
(* The stored hash the reconciliation compares. *)

LEMMA StoredHashIs ==
    ASSUME NEW h, Sound(db), Linked(db)
    PROVE  /\ StoredHash(h) # None =>
                 StoredHash(h) \in db.blocks /\ Height[StoredHash(h)] = h
           /\ \A b \in db.blocks : Height[b] = h => StoredHash(h) = b
BY DEF StoredHash, BlockAt, Linked

-----------------------------------------------------------------------------
(* The invariant is inductive: a step of the command at a time.             *)

LEMMA InvInit == ASSUME NEW P, Procs = {P}, Init PROVE Inv
<1>1. Types
  BY HeightAssumption DEF Init, Types, Points
<1>2. Disk
  BY SoundEmpty, LinkedEmpty DEF Init, Disk
<1>3. Memory /\ Place
  BY DEF Init, Memory, Place
<1>4. Futures
  BY DEF Init, Futures, WindowFollows, NoFutures
<1> QED
  BY <1>1, <1>2, <1>3, <1>4 DEF Inv

\* No command is running after the step.
LEMMA DownInv ==
    ASSUME NEW P, Procs = {P}, Disk', tip' \in Block \cup {None}, moves' \in Nat,
           mem' = [p \in Procs |-> None], pc' = [p \in Procs |-> "down"],
           pending' = [p \in Procs |-> NoFutures], taken' = [p \in Procs |-> None],
           goal' = [p \in Procs |-> 0], at' = [p \in Procs |-> 0],
           asked' = [p \in Procs |-> 0]
    PROVE  Inv'
<1>1. Types'
  BY DEF Types, Points
<1>2. Memory' /\ Place'
  BY DEF Memory, Place
<1>3. Futures'
  BY DEF Futures, WindowFollows, NoFutures
<1> QED
  BY <1>1, <1>2, <1>3 DEF Inv

LEMMA VanishIs ==
    ASSUME NEW P, Procs = {P}, Types, Vanish(P)
    PROVE  /\ mem' = [p \in Procs |-> None] /\ pc' = [p \in Procs |-> "down"]
           /\ pending' = [p \in Procs |-> NoFutures]
           /\ taken' = [p \in Procs |-> None]
           /\ goal' = [p \in Procs |-> 0] /\ at' = [p \in Procs |-> 0]
           /\ asked' = [p \in Procs |-> 0]
BY DEF Types, Vanish

LEMMA LeaveInv ==
    ASSUME NEW P, Procs = {P}, Inv, Leave(P), UNCHANGED node
    PROVE  Inv'
<1>1. recoverable' = {db} /\ db' = db
  BY DEF Leave
<1>2. Disk'
  BY <1>1 DEF Inv, Disk
<1>3. tip' \in Block \cup {None} /\ moves' \in Nat
  BY DEF Inv, Types, node
<1> QED
  BY <1>2, <1>3, VanishIs, DownInv DEF Leave, Inv

LEMMA StartInv == ASSUME NEW P, Procs = {P}, Inv, Start(P) PROVE Inv'
<1>1. /\ UNCHANGED <<tip, moves, db, recoverable, goal, at, asked, pending, taken>>
      /\ mem' = [p \in Procs |-> Reload(db)] /\ pc' = [p \in Procs |-> "ask"]
      /\ pc[P] = "down"
  BY DEF Start, Inv, Types, node, disk, plan
<1>2. Types'
  BY <1>1 DEF Inv, Types, Points
<1>3. Disk' /\ Memory' /\ Place'
  BY <1>1 DEF Inv, Disk, Memory, Place
<1>4. Futures'
  BY <1>1 DEF Inv, Futures, WindowFollows
<1> QED
  BY <1>2, <1>3, <1>4 DEF Inv

LEMMA AskInv == ASSUME NEW P, Procs = {P}, Inv, AskHeight(P) PROVE Inv'
<1>1. /\ UNCHANGED <<tip, moves, db, recoverable, mem, pending, taken>>
      /\ goal' = [p \in Procs |-> NodeHeight] /\ at' = [p \in Procs |-> Candidate]
      /\ asked' = [p \in Procs |-> moves] /\ pc[P] = "ask"
      /\ pc' = [p \in Procs |-> IF db.blocks = {} THEN "plan" ELSE "reconcile"]
  BY DEF AskHeight, Inv, Types, node, disk
<1>2. /\ NodeHeight \in Int /\ LastHeight(db) \in Int
      /\ IsChain(ActiveChain[tip], NodeHeight) /\ NodeHeight >= StartHeight - 1
      /\ \A c \in db.blocks : c \in Block /\ Height[c] \in Int /\ Height[c] <= LastHeight(db)
      /\ StartHeight \in Int
  BY NodeChain, LastHeightType, HeightAssumption DEF Inv, Types, Disk, Sound
<1>3. Candidate \in Int /\ Candidate <= LastHeight(db) /\ Candidate <= NodeHeight
      /\ \A b \in db.blocks \cap ActiveChain[tip] : Height[b] <= Candidate
  BY <1>2 DEF Candidate, Least, IsChain
<1>4. db.blocks = {} => LastHeight(db) = StartHeight - 1
  BY DEF Inv, Disk, Sound, IsLast
<1>5. Types'
  BY <1>1, <1>2, <1>3 DEF Inv, Types, Points
<1>6. Disk' /\ Memory'
  BY <1>1 DEF Inv, Disk, Memory
<1>7. Place'
  <2>1. pc'[P] \in {"plan", "reconcile"} /\ (pc'[P] = "plan" => db.blocks = {})
        /\ goal'[P] = NodeHeight /\ at'[P] = Candidate /\ asked'[P] = moves
    BY <1>1
  <2>2. pc'[P] = "reconcile" => Walk(P)'
    BY <1>1, <1>3, <2>1 DEF Walk
  <2>3. pc'[P] = "plan" => LastHeight(db) <= goal'[P]
    BY <1>2, <1>4, <2>1
  <2>4. asked'[P] <= moves'
    BY <1>1, <2>1 DEF Inv, Types
  <2> QED
    BY <1>1, <2>1, <2>2, <2>3, <2>4 DEF Place
<1>8. Futures'
  BY <1>1 DEF Inv, Futures, WindowFollows
<1> QED
  BY <1>5, <1>6, <1>7, <1>8 DEF Inv

LEMMA CompareInv == ASSUME NEW P, Procs = {P}, Inv, Compare(P) PROVE Inv'
<1>1. /\ UNCHANGED <<tip, moves, db, recoverable, mem, goal, asked, pending, taken>>
      /\ pc[P] = "reconcile" /\ at[P] >= StartHeight /\ HashAt(at[P]) # None
  BY DEF Compare, node, disk
<1>2. at[P] \in Int /\ LastHeight(db) \in Int /\ goal[P] \in Int /\ Walk(P)
      /\ asked[P] <= moves /\ Sound(db) /\ Linked(db) /\ db.blocks \subseteq Block
  BY <1>1, LastHeightType DEF Inv, Types, Disk, Place, Sound
<1>3. Disk'
  BY <1>1 DEF Inv, Disk
<1>4. CASE StoredHash(at[P]) = HashAt(at[P])
  <2>1. pc' = [p \in Procs |-> "rollback"] /\ at' = at
    BY <1>4 DEF Compare, Inv, Types
  <2>2. at[P] \in Heights
    BY <1>1, <1>2, <1>4, StoredHashIs DEF Heights
  <2>3. Types' /\ Memory'
    BY <1>1, <2>1 DEF Inv, Types, Memory, Points
  <2>4. Walk(P)'
    BY <1>1, <1>2, <2>1 DEF Walk
  <2>5. Place'
    BY <1>1, <1>2, <2>1, <2>2, <2>4 DEF Place
  <2>6. Futures'
    BY <1>1, <2>1 DEF Inv, Futures, WindowFollows
  <2> QED
    BY <1>3, <2>3, <2>5, <2>6 DEF Inv
<1>5. CASE StoredHash(at[P]) # HashAt(at[P])
  <2>1. at' = [p \in Procs |-> at[P] - 1] /\ pc' = pc
    BY <1>5 DEF Compare, Inv, Types
  <2>2. Types' /\ Memory'
    BY <1>1, <1>2, <2>1 DEF Inv, Types, Memory
  <2>3. \A b \in db.blocks \cap ActiveChain[tip] : Height[b] # at[P]
    <3>1. tip \in Block \cup {None}
      BY DEF Inv, Types
    <3> QED
      BY <1>2, <1>5, <3>1, HashAtIs, StoredHashIs
  <2>4. \A b \in db.blocks : Height[b] \in Int
    BY <1>2, HeightAssumption
  <2>5. Walk(P)'
    BY <1>1, <1>2, <2>1, <2>3, <2>4 DEF Walk
  <2>6. Place'
    BY <1>1, <1>2, <2>1, <2>5 DEF Place
  <2>7. Futures'
    BY <1>1, <2>1 DEF Inv, Futures, WindowFollows
  <2> QED
    BY <1>3, <2>2, <2>6, <2>7 DEF Inv
<1> QED
  BY <1>4, <1>5

LEMMA RollBackInv == ASSUME NEW P, Procs = {P}, Inv, RollBack(P) PROVE Inv'
<1>1. /\ UNCHANGED <<tip, moves, goal, at, asked, pending, taken>>
      /\ pc[P] = "rollback" /\ pc' = [p \in Procs |-> "plan"]
  BY DEF RollBack, node, plan, Inv, Types
<1>2. at[P] \in Int /\ LastHeight(db) \in Int /\ goal[P] \in Int /\ Walk(P)
      /\ at[P] \in Heights /\ Sound(db) /\ Linked(db) /\ asked[P] <= moves
  BY <1>1, LastHeightType DEF Inv, Types, Disk, Place
<1>3. at[P] >= StartHeight /\ StartHeight \in Int
  BY <1>2, HeightAssumption DEF Heights
<1>4. Types' /\ Disk' /\ Memory' /\ LastHeight(db') = at[P]
  <2>1. CASE \E b \in db.blocks : Height[b] > at[P]
    <3>1. /\ db' = Rollback(db, at[P]) /\ recoverable' = recoverable \cup {db'}
          /\ mem' = [p \in Procs |-> Reload(db')]
      BY <2>1 DEF RollBack, Commit, Inv, Types
    <3>2. at[P] \in (StartHeight - 1) .. LastHeight(db)
      BY <1>2, <1>3 DEF Walk
    <3>3. Sound(db') /\ LastHeight(db') = at[P] /\ Linked(db')
      BY <1>2, <3>1, <3>2, SoundRollback, LinkedRollback
    <3>4. Disk' /\ Memory'
      BY <1>1, <3>1, <3>3 DEF Inv, Disk, Memory
    <3> QED
      BY <1>1, <3>1, <3>3, <3>4 DEF Inv, Types, Points
  <2>2. CASE ~ \E b \in db.blocks : Height[b] > at[P]
    <3>1. UNCHANGED <<db, recoverable, mem>>
      BY <2>2 DEF RollBack, disk
    <3>2. LastHeight(db) <= at[P]
      BY <1>2, <1>3, <2>2 DEF Sound, IsLast
    <3>3. LastHeight(db') = at[P]
      BY <1>2, <3>1, <3>2 DEF Walk
    <3> QED
      BY <1>1, <3>1, <3>3 DEF Inv, Types, Points, Disk, Memory
  <2> QED
    BY <2>1, <2>2
<1>5. Place'
  BY <1>1, <1>2, <1>4 DEF Place, Walk
<1>6. Futures'
  BY <1>1 DEF Inv, Futures, WindowFollows
<1> QED
  BY <1>4, <1>5, <1>6 DEF Inv

LEMMA PlanInv == ASSUME NEW P, Procs = {P}, Inv, Plan(P) PROVE Inv'
<1> DEFINE next  == LastHeight(db) + 1
           final == Least(goal[P], next + MaxBlocks - 1)
<1>1. /\ UNCHANGED <<tip, moves, db, recoverable, mem, asked, taken>>
      /\ pc[P] = "plan"
  BY DEF Plan, node, disk
<1>2. /\ next \in Int /\ LastHeight(db) \in Int /\ goal[P] \in Int /\ LastHeight(db) <= goal[P]
      /\ asked[P] <= moves
  BY <1>1, LastHeightType DEF Inv, Types, Disk, Place
<1>3. Disk'
  BY <1>1 DEF Inv, Disk
<1>4. CASE goal[P] < next
  <2>1. pc' = [p \in Procs |-> "done"] /\ UNCHANGED <<goal, at, pending>>
    BY <1>4 DEF Plan, Inv, Types
  <2>2. Types' /\ Memory'
    BY <1>1, <2>1 DEF Inv, Types, Points, Memory
  <2>3. LastHeight(db) = goal[P]
    BY <1>2, <1>4
  <2>4. Place' /\ Futures'
    BY <1>1, <1>2, <2>1, <2>3 DEF Inv, Place, Futures, WindowFollows
  <2> QED
    BY <1>3, <2>2, <2>4 DEF Inv
<1>5. CASE ~ (goal[P] < next)
  <2> DEFINE window == next .. Least(next + Workers - 1, final)
  <2>1. /\ pc' = [p \in Procs |-> "scan"] /\ goal' = [p \in Procs |-> final]
        /\ at' = [p \in Procs |-> next]
        /\ pending' = [p \in Procs |-> [h \in window |-> Submitted]]
    BY <1>5 DEF Plan, Inv, Types
  <2>2. final \in Int /\ next <= final
    BY <1>2, <1>5, ScannerAssumption DEF Least
  <2>3. at'[P] = next /\ goal'[P] = final /\ pc'[P] = "scan"
        /\ pending'[P] = [h \in window |-> Submitted]
    BY <2>1
  <2> HIDE DEF next, final, window
  <2>4. Types' /\ Memory'
    BY <1>1, <1>2, <2>1, <2>2 DEF Inv, Types, Points, Memory
  <2>5. Place'
    BY <1>1, <1>2, <2>2, <2>3 DEF Place, next
  <2>6. Futures'
    <3>1. DOMAIN pending'[P] = window /\ \A h \in window : pending'[P][h] \in Future
      BY <2>3 DEF Submitted, Future
    <3>2. window = next .. Least(next + Workers - 1, final)
      BY DEF window
    <3> QED
      BY <2>3, <3>1, <3>2 DEF Futures, WindowFollows
  <2> QED
    BY <1>3, <2>4, <2>5, <2>6 DEF Inv
<1> QED
  BY <1>4, <1>5

\* A worker changes one future and nothing a command decides by.
LEMMA WorkerInv ==
    ASSUME NEW P, Procs = {P}, Inv, NEW h \in DOMAIN pending[P], NEW f \in Future,
           pending' = [pending EXCEPT ![P] = [pending[P] EXCEPT ![h] = f]],
           UNCHANGED <<tip, moves, db, recoverable, mem, pc, goal, at, asked, taken>>
    PROVE  Inv'
<1>1. Types' /\ Disk' /\ Memory'
  BY DEF Inv, Types, Disk, Memory
<1>2. Place'
  BY DEF Inv, Place, Walk
<1>3. pending'[P] = [pending[P] EXCEPT ![h] = f]
  BY DEF Inv, Types
<1>4. DOMAIN pending'[P] = DOMAIN pending[P]
      /\ \A i \in DOMAIN pending[P] : pending'[P][i] \in Future
  BY <1>3 DEF Inv, Futures
<1>5. Futures'
  BY <1>4 DEF Inv, Futures, WindowFollows
<1> QED
  BY <1>1, <1>2, <1>5 DEF Inv

LEMMA FetchInv ==
    ASSUME NEW P, Procs = {P}, Inv, NEW h, Fetch(P, h)
    PROVE  Inv'
<1> DEFINE f == [pending[P][h] EXCEPT !.got = HashAt(h)]
<1>1. h \in DOMAIN pending[P] /\ pending[P][h] \in Future
  BY DEF Fetch, Inv, Futures
<1>2. HashAt(h) \in Block
  BY HashAtIs, NodeChain DEF Fetch, Inv, Types, IsChain
<1>3. f \in Future
  BY <1>1, <1>2 DEF Future
<1>4. pending' = [pending EXCEPT ![P] = [pending[P] EXCEPT ![h] = f]]
  BY DEF Fetch
<1>5. UNCHANGED <<tip, moves, db, recoverable, mem, pc, goal, at, asked, taken>>
  BY DEF Fetch, node, disk, plan
<1> HIDE DEF f
<1> QED
  BY <1>1, <1>3, <1>4, <1>5, WorkerInv

LEMMA FetchFailsInv ==
    ASSUME NEW P, Procs = {P}, Inv, NEW h, FetchFails(P, h)
    PROVE  Inv'
<1>1. h \in DOMAIN pending[P] /\ pending[P][h] \in Future
  BY DEF FetchFails, Inv, Futures
<1>2. \E n \in Int : pending' = [pending EXCEPT ![P] = [pending[P] EXCEPT ![h] =
                                  [pending[P][h] EXCEPT !.tries = n]]]
  <2>1. pending[P][h].tries + 1 \in Int /\ Attempts \in Int
    BY <1>1, ScannerAssumption DEF Future
  <2> QED
    BY <2>1 DEF FetchFails
<1>3. PICK n \in Int : pending' = [pending EXCEPT ![P] = [pending[P] EXCEPT ![h] =
                                  [pending[P][h] EXCEPT !.tries = n]]]
  BY <1>2
<1> DEFINE f == [pending[P][h] EXCEPT !.tries = n]
<1>4. f \in Future
  BY <1>1, <1>3 DEF Future
<1>5. UNCHANGED <<tip, moves, db, recoverable, mem, pc, goal, at, asked, taken>>
  BY DEF FetchFails, node, disk, plan
<1>6. pending' = [pending EXCEPT ![P] = [pending[P] EXCEPT ![h] = f]]
  BY <1>3
<1> HIDE DEF f
<1> QED
  BY <1>1, <1>4, <1>5, <1>6, WorkerInv

LEMMA CallFailsInv == ASSUME NEW P, Procs = {P}, Inv, CallFails(P) PROVE Inv'
<1>1. CASE LastAttempt(P)
  BY <1>1, LeaveInv DEF CallFails
<1>2. CASE ~LastAttempt(P)
  <2>1. UNCHANGED <<tip, moves, db, recoverable, mem, pc, goal, at, asked, pending, taken>>
    BY <1>2 DEF CallFails, node, disk, plan
  <2>2. Types' /\ Disk' /\ Memory'
    BY <2>1 DEF Inv, Types, Disk, Memory
  <2>3. Place' /\ Futures'
    BY <2>1 DEF Inv, Place, Walk, Futures, WindowFollows
  <2> QED
    BY <2>2, <2>3 DEF Inv
<1> QED
  BY <1>1, <1>2

LEMMA TakeInv == ASSUME NEW P, Procs = {P}, Inv, Take(P) PROVE Inv'
<1> DEFINE b  == pending[P][at[P]].got
           st == Staged(mem[P], b)
           f  == [h \in DOMAIN pending[P] \ {at[P]} |-> pending[P][h]]
<1>1. pc[P] = "scan" /\ b # None /\ UNCHANGED node
  BY DEF Take
<1>2. CASE Connects(db, b) /\ st.ok /\ Reconciles(mem[P], st)
  <2>1. /\ taken' = [p \in Procs |-> b] /\ pc' = [p \in Procs |-> "write"]
        /\ pending' = [p \in Procs |-> f]
        /\ UNCHANGED <<tip, moves, db, recoverable, mem, goal, at, asked>>
    BY <1>2 DEF Take, Inv, Types, node, disk, plan
  <2>2. at[P] = LastHeight(db) + 1 /\ at[P] <= goal[P] /\ asked[P] <= moves
        /\ at[P] \in Int /\ goal[P] \in Int
    BY <1>1 DEF Inv, Types, Place
  <2>3. DOMAIN pending[P] = at[P] .. Least(at[P] + Workers - 1, goal[P])
    BY <1>1 DEF Inv, Futures, WindowFollows
  <2>4. at[P] \in DOMAIN pending[P]
    BY <2>2, <2>3, ScannerAssumption DEF Least
  <2>5. b \in Block
    BY <1>1, <2>4 DEF Inv, Futures, Future
  <2>6. Types' /\ Disk' /\ Memory'
    BY <1>1, <2>1 DEF Inv, Types, Points, Disk, Memory
  <2>7. pc'[P] = "write" /\ taken'[P] = b /\ pending'[P] = f
    BY <2>1
  <2> HIDE DEF b, st
  <2>8. Place'
    BY <1>2, <2>1, <2>2, <2>5, <2>7 DEF Place, st
  <2>9. Futures'
    <3>1. DOMAIN pending'[P] = at[P] + 1 .. Least(at[P] + Workers - 1, goal[P])
      BY <2>2, <2>3, <2>7, ScannerAssumption DEF Least
    <3>2. \A h \in DOMAIN pending'[P] : pending'[P][h] \in Future
      BY <2>7 DEF Inv, Futures
    <3> QED
      BY <2>1, <2>7, <3>1, <3>2 DEF Futures, WindowFollows
  <2> QED
    BY <2>6, <2>8, <2>9 DEF Inv
<1>3. CASE ~ (Connects(db, b) /\ st.ok /\ Reconciles(mem[P], st))
  <2>1. Leave(P)
    BY <1>3 DEF Take
  <2> QED
    BY <1>1, <2>1, LeaveInv
<1> QED
  BY <1>2, <1>3

\* The window moves on by one height, or shrinks at the end of the run.
LEMMA RefillIs ==
    ASSUME NEW P, Futures, at[P] \in Int, goal[P] \in Int, at[P] <= goal[P],
           P \in Procs, pc[P] = "write"
    PROVE  /\ DOMAIN Refill(P) = at[P] + 1 .. Least(at[P] + Workers, goal[P])
           /\ \A h \in DOMAIN Refill(P) : Refill(P)[h] \in Future
<1> DEFINE w == at[P] + Workers
<1>1. DOMAIN pending[P] = at[P] + 1 .. Least(w - 1, goal[P])
      /\ \A h \in DOMAIN pending[P] : pending[P][h] \in Future
  <2>1. DOMAIN pending[P] = at[P] + 1 .. Least(at[P] + Workers - 1, goal[P])
    BY DEF Futures, WindowFollows
  <2>2. w - 1 = at[P] + Workers - 1
    BY ScannerAssumption
  <2> QED
    BY <2>1, <2>2 DEF Futures
<1>2. Submitted \in Future
  BY DEF Submitted, Future
<1>3. w \in Int /\ w >= at[P] + 1
  BY ScannerAssumption
<1>4. CASE w <= goal[P]
  <2>1. Refill(P) = [h \in DOMAIN pending[P] \cup {w} |->
                       IF h = w THEN Submitted ELSE pending[P][h]]
    BY <1>4 DEF Refill
  <2>2. DOMAIN pending[P] \cup {w} = at[P] + 1 .. w
    BY <1>1, <1>3, <1>4 DEF Least
  <2> HIDE DEF w
  <2>3. Least(w, goal[P]) = w
    BY <1>4 DEF Least
  <2> QED
    BY <1>1, <1>2, <2>1, <2>2, <2>3 DEF w
<1>5. CASE ~ (w <= goal[P])
  <2>1. Refill(P) = pending[P]
    BY <1>5 DEF Refill
  <2>2. Least(w, goal[P]) = goal[P] /\ Least(w - 1, goal[P]) = goal[P]
    BY <1>3, <1>5 DEF Least
  <2> QED
    BY <1>1, <2>1, <2>2
<1> QED
  BY <1>4, <1>5

LEMMA WriteInv == ASSUME NEW P, Procs = {P}, Inv, Write(P) PROVE Inv'
<1> DEFINE b == taken[P]
           h == at[P]
<1>1. /\ pc[P] = "write" /\ KeysFree(db, b, Staged(mem[P], b))
      /\ db' = Indexed(db, mem[P], b) /\ recoverable' = recoverable \cup {db'}
      /\ mem' = [p \in Procs |-> Absorbed(mem[P], b)]
      /\ taken' = [p \in Procs |-> None]
      /\ pending' = [p \in Procs |-> Refill(P)]
      /\ at' = [p \in Procs |-> h + 1]
      /\ pc' = [p \in Procs |-> IF h = goal[P] THEN "done" ELSE "scan"]
      /\ UNCHANGED <<tip, moves, goal, asked>>
  BY DEF Write, Commit, node, Inv, Types
<1>2. /\ b \in Block /\ Connects(db, b) /\ Staged(mem[P], b).ok
      /\ Reconciles(mem[P], Staged(mem[P], b))
      /\ h = LastHeight(db) + 1 /\ h <= goal[P] /\ asked[P] <= moves
  BY <1>1 DEF Inv, Place
<1>3. h \in Int /\ goal[P] \in Int /\ mem[P] = Reload(db) /\ Sound(db) /\ Linked(db)
  BY <1>1 DEF Inv, Types, Memory, Disk
<1>4. Sound(db') /\ LastHeight(db') = h /\ Linked(db')
  <2>1. Sound(db') /\ LastHeight(db') = Height[b] /\ Linked(db')
    BY <1>1, <1>2, <1>3, IndexedSound, LinkedIndexed
  <2> QED
    BY <1>2, <2>1 DEF Connects
<1>5. Absorbed(mem[P], b) = Reload(db')
  <2>1. Accepts(db, mem[P], b)
    BY <1>1, <1>2 DEF Accepts
  <2> QED
    BY <1>1, <1>2, <1>3, <2>1, AbsorbedIsReload
<1> HIDE DEF b, h
<1>6. Types' /\ Disk' /\ Memory'
  <2>1. Types'
    BY <1>1, <1>3 DEF Inv, Types, Points
  <2>2. Disk'
    BY <1>1, <1>4 DEF Inv, Disk
  <2>3. Memory'
    BY <1>1, <1>5 DEF Memory
  <2> QED
    BY <2>1, <2>2, <2>3
<1>7. /\ pc'[P] \in {"done", "scan"} /\ (pc'[P] = "done" <=> h = goal[P])
      /\ at'[P] = h + 1 /\ pending'[P] = Refill(P)
  BY <1>1
<1>8. Place'
  BY <1>1, <1>2, <1>3, <1>4, <1>7 DEF Place
<1>9. Futures'
  <2>1. /\ DOMAIN Refill(P) = h + 1 .. Least(h + Workers, goal[P])
        /\ \A i \in DOMAIN Refill(P) : Refill(P)[i] \in Future
    BY <1>1, <1>2, <1>3, RefillIs DEF Inv, h
  <2>2. h + 1 + Workers - 1 = h + Workers
    BY <1>3, ScannerAssumption
  <2>3. h = goal[P] => DOMAIN Refill(P) = {}
    BY <1>3, <2>1, ScannerAssumption DEF Least
  <2> QED
    BY <1>1, <1>7, <2>1, <2>2, <2>3 DEF Futures, WindowFollows
<1> QED
  BY <1>6, <1>8, <1>9 DEF Inv

LEMMA NodeMovesInv == ASSUME NEW P, Procs = {P}, Inv, NodeMoves PROVE Inv'
<1>1. /\ tip' \in Block \cup {None} /\ moves' = moves + 1
      /\ UNCHANGED <<db, recoverable, mem, pc, goal, at, asked, pending, taken>>
  BY DEF NodeMoves, disk, plan, Inv, Types
<1>2. Types' /\ Disk' /\ Memory'
  BY <1>1 DEF Inv, Types, Disk, Memory
<1>3. asked[P] < moves' /\ asked[P] \in Int /\ moves' \in Int
  BY <1>1 DEF Inv, Types, Place
<1>4. Place'
  BY <1>1, <1>3 DEF Inv, Place, Walk
<1>5. Futures'
  BY <1>1 DEF Inv, Futures, WindowFollows
<1> QED
  BY <1>2, <1>4, <1>5 DEF Inv

LEMMA CrashInv == ASSUME NEW P, Procs = {P}, Inv, Crash(P) PROVE Inv'
<1>1. Disk' /\ tip' \in Block \cup {None} /\ moves' \in Nat
  BY DEF Crash, disk, node, Inv, Types, Disk
<1> QED
  BY <1>1, VanishIs, DownInv DEF Crash, Inv

LEMMA PowerLossInv == ASSUME NEW P, Procs = {P}, Inv, PowerLoss PROVE Inv'
<1>1. Disk' /\ tip' \in Block \cup {None} /\ moves' \in Nat
  BY DEF PowerLoss, node, Inv, Types, Disk
<1> QED
  BY <1>1, DownInv DEF PowerLoss

LEMMA InvStep == ASSUME NEW P, Procs = {P}, Inv, [Next]_vars PROVE Inv'
<1>1. ASSUME Step(P) PROVE Inv'
  <2>1. CASE Crossed(P) \/ TakeFails(P) \/ WriteFails(P) \/ Finish(P)
    BY <2>1, LeaveInv DEF Crossed, TakeFails, WriteFails, Finish
  <2> QED
    BY <1>1, <2>1, StartInv, AskInv, CompareInv, RollBackInv, PlanInv, TakeInv,
       WriteInv, CallFailsInv DEF Step
<1>2. ASSUME Worker(P) PROVE Inv'
  BY <1>2, FetchInv, FetchFailsInv DEF Worker
<1>3. CASE UNCHANGED vars
  <2>1. Types' /\ Disk' /\ Memory'
    BY <1>3 DEF vars, Inv, Types, Disk, Memory
  <2>2. Place' /\ Futures'
    BY <1>3 DEF vars, Inv, Place, Walk, Futures, WindowFollows
  <2> QED
    BY <2>1, <2>2 DEF Inv
<1> QED
  BY <1>1, <1>2, <1>3, CrashInv, NodeMovesInv, PowerLossInv DEF Next

LEMMA InvHolds == ASSUME NEW P, Procs = {P} PROVE Spec => []Inv
BY InvInit, InvStep, PTL DEF Spec

-----------------------------------------------------------------------------
(* What the invariant gives. *)

(* The futures a command holds are exactly those of the next heights of its *)
(* run, whatever the workers, the retries, the faults and the crashes do    *)
(* (_scan_heights).                                                         *)
THEOREM WindowAlwaysFollows ==
    ASSUME NEW P, Procs = {P} PROVE Spec => []WindowFollows
<1>1. Inv => WindowFollows
  BY DEF Inv, Futures
<1> QED
  BY <1>1, InvHolds, PTL

(* A run that ends normally has brought the index to the height it set out  *)
(* for, on a chain of blocks each of which is the parent of the next, from  *)
(* whatever chain the index and the node were on (scan).                    *)
THEOREM RunsEndAtTarget ==
    ASSUME NEW P, Procs = {P} PROVE Spec => []DoneAtTarget
<1>1. Inv => DoneAtTarget
  BY DEF Inv, Place, Disk, Linked, DoneAtTarget
<1> QED
  BY <1>1, InvHolds, PTL

LEMMA DiscardsStale ==
    ASSUME NEW P, Procs = {P}, Inv, RollBack(P), asked[P] = moves
    PROVE  (db.blocks \ db'.blocks) \cap ActiveChain[tip] = {}
<1>1. Walk(P) /\ at[P] \in Int /\ \A b \in db.blocks : Height[b] \in Int
  BY HeightAssumption DEF RollBack, Inv, Types, Place, Disk, Sound
<1>2. \A b \in db.blocks : b \in db'.blocks \/ Height[b] > at[P]
  BY <1>1 DEF RollBack, Commit, Rollback, disk
<1> QED
  BY <1>1, <1>2 DEF Walk

(* As long as the node stands still, no rollback discards a block of the    *)
(* node's active chain: the walk down stops at the highest common block     *)
(* (_reconcile_reorg).                                                      *)
THEOREM OnlyStaleBlocksGo ==
    ASSUME NEW P, Procs = {P} PROVE Spec => OnlyStaleDiscarded
<1>1. Inv /\ [Next]_vars =>
        [\A p \in Procs : RollBack(p) /\ asked[p] = moves =>
            (db.blocks \ db'.blocks) \cap ActiveChain[tip] = {}]_vars
  BY DiscardsStale
<1> QED
  BY <1>1, InvHolds, PTL DEF Spec, OnlyStaleDiscarded

-----------------------------------------------------------------------------
(* Refinement. *)

\* The ledger ChainIndex is built on is the scanner's own.
LEMMA SameLedger ==
    /\ Index!EmptyDb = EmptyDb /\ Index!Heights = Heights
    /\ \A d : Index!Reload(d) = Reload(d)
    /\ \A d, b : Index!Connects(d, b) = Connects(d, b)
    /\ \A d, h : Index!Rollback(d, h) = Rollback(d, h)
<1>1. Index!EmptyDb = EmptyDb /\ Index!Heights = Heights
  BY DEF Index!EmptyDb, EmptyDb, Index!Heights, Heights
<1>2. \A d : Index!Reload(d) = Reload(d)
  BY DEF Index!Reload, Reload, Index!LivePool, LivePool, Index!Unspent, Unspent,
         Index!Holding, Holding, Index!Cardinality, Cardinality
<1>3. \A d, b : Index!Connects(d, b) = Connects(d, b)
  BY DEF Index!Connects, Connects, Index!LastHeight, LastHeight, Index!IsLast, IsLast,
         Index!Heights, Heights
<1>4. \A d, h : Index!Rollback(d, h) = Rollback(d, h)
  BY DEF Index!Rollback, Rollback, Index!Kept, Kept, Index!UpTo, UpTo
<1> QED
  BY <1>1, <1>2, <1>3, <1>4

LEMMA SameStaging == \A m, b : Index!Staged(m, b) = Staged(m, b)
BY DEF Index!Staged, Staged, Index!Blank, Blank, Index!StageTx, StageTx,
       Index!Tracked, Tracked, Index!Holder, Holder, Index!NewPool, NewPool,
       Index!IsLiquidityRollover, IsLiquidityRollover,
       Index!TrackedFees, TrackedFees, Index!CoordinatorFee, CoordinatorFee,
       Index!WithRole, WithRole, Index!When, When, Index!SumValue, SumValue,
       Index!Staging, Staging, Index!MapThenFoldSet, MapThenFoldSet,
       Index!MapThenSumSet, MapThenSumSet, Index!Max, Max,
       Index!Cardinality, Cardinality

LEMMA SameWriting ==
    /\ \A m, st : Index!Snapshot(m, st) = Snapshot(m, st)
    /\ \A m, st : Index!Reconciles(m, st) = Reconciles(m, st)
    /\ \A d, b, st : Index!KeysFree(d, b, st) = KeysFree(d, b, st)
    /\ \A d, b, st, snap : Index!WriteBlock(d, b, st, snap) = WriteBlock(d, b, st, snap)
    /\ \A m, st, snap : Index!Absorb(m, st, snap) = Absorb(m, st, snap)
<1>1. \A m, st : Index!Snapshot(m, st) = Snapshot(m, st)
  BY DEF Index!Snapshot, Snapshot, Index!Gone, Gone, Index!Came, Came,
         Index!NewPool, NewPool, Index!Cardinality, Cardinality
<1>2. \A m, st : Index!Reconciles(m, st) = Reconciles(m, st)
  BY <1>1 DEF Index!Reconciles, Reconciles
<1>3. \A d, b, st : Index!KeysFree(d, b, st) = KeysFree(d, b, st)
  BY DEF Index!KeysFree, KeysFree
<1>4. \A d, b, st, snap : Index!WriteBlock(d, b, st, snap) = WriteBlock(d, b, st, snap)
  BY DEF Index!WriteBlock, WriteBlock, Index!Written, Written, Index!MarkSpent, MarkSpent,
         Index!SpentAt, SpentAt, Index!Logged, Logged
<1>5. \A m, st, snap : Index!Absorb(m, st, snap) = Absorb(m, st, snap)
  BY DEF Index!Absorb, Absorb, Index!NewPool, NewPool
<1> QED
  BY <1>1, <1>2, <1>3, <1>4, <1>5

LEMMA SameSteps ==
    /\ \A d, m, b : Index!Accepts(d, m, b) = Accepts(d, m, b)
    /\ \A d, m, b : Index!Indexed(d, m, b) = Indexed(d, m, b)
    /\ \A m, b : Index!Absorbed(m, b) = Absorbed(m, b)
BY SameStaging, SameWriting DEF Index!Accepts, Accepts, Index!Indexed, Indexed,
   Index!Absorbed, Absorbed

\* A step of the command leaves the index alone or is one of its operations.
IndexStep ==
    \/ Index!Open
    \/ \E b \in Block : Index!ApplyBlock(b)
    \/ \E h \in Heights : Index!RollbackAfter(h)
    \/ Index!Close \/ Index!Crash \/ Index!PowerLoss
    \/ UNCHANGED Index!vars

LEMMA MappedMemory ==
    ASSUME NEW P, Procs = {P}
    PROVE  (CHOOSE p \in Procs : TRUE) = P
OBVIOUS

LEMMA RunningMemory ==
    ASSUME NEW P, Procs = {P}, Inv, pc[P] # "down"
    PROVE  mem[P] = Reload(db) /\ mem[P] # None
<1>1. mem[P] = Reload(db)
  BY DEF Inv, Memory
<1> QED
  BY <1>1, ReloadType, NoneAssumption DEF Inv, Disk

LEMMA LeaveIsClose ==
    ASSUME NEW P, Procs = {P}, Inv, pc[P] # "down", Leave(P)
    PROVE  Index!Close
<1>1. mem[P] # None
  BY RunningMemory
<1>2. mem'[P] = None /\ recoverable' = {db} /\ db' = db
  BY VanishIs DEF Leave, Inv
<1> QED
  BY <1>1, <1>2, MappedMemory DEF Index!Close

LEMMA WriteIsApply ==
    ASSUME NEW P, Procs = {P}, Inv, Write(P)
    PROVE  \E b \in Block : Index!ApplyBlock(b)
<1> DEFINE b == taken[P]
<1>1. b \in Block /\ Connects(db, b) /\ Accepts(db, mem[P], b)
  BY DEF Write, Inv, Place, Accepts
<1>2. /\ mem[P] # None
      /\ db' = Indexed(db, mem[P], b)
      /\ recoverable' = recoverable \cup {Indexed(db, mem[P], b)}
      /\ mem'[P] = Absorbed(mem[P], b)
  BY RunningMemory DEF Write, Commit, Inv, Types
<1> HIDE DEF b
<1>3. Index!ApplyBlock(b)
  BY <1>1, <1>2, MappedMemory, SameLedger, SameSteps DEF Index!ApplyBlock, Index!Commit
<1> QED
  BY <1>1, <1>3

LEMMA RollBackRefines ==
    ASSUME NEW P, Procs = {P}, Inv, RollBack(P)
    PROVE  (\E h \in Heights : Index!RollbackAfter(h)) \/ UNCHANGED Index!vars
<1> DEFINE h == at[P]
<1>1. h \in Heights /\ h >= StartHeight - 1
  BY HeightAssumption DEF RollBack, Inv, Place, Heights
<1>2. CASE \E b \in db.blocks : Height[b] > h
  <2>1. /\ mem[P] # None
        /\ db' = Rollback(db, h)
        /\ recoverable' = recoverable \cup {Rollback(db, h)}
        /\ mem'[P] = Reload(Rollback(db, h))
    BY <1>2, RunningMemory DEF RollBack, Commit, Inv, Types
  <2> HIDE DEF h
  <2>2. Index!RollbackAfter(h)
    BY <1>1, <1>2, <2>1, MappedMemory, SameLedger
       DEF Index!RollbackAfter, Index!Commit
  <2> QED
    BY <1>1, <2>2
<1>3. CASE ~ \E b \in db.blocks : Height[b] > h
  BY <1>3 DEF RollBack, disk, Index!vars
<1> QED
  BY <1>2, <1>3

LEMMA StepRefines ==
    ASSUME NEW P, Procs = {P}, Inv, [Next]_vars
    PROVE  IndexStep
<1>1. ASSUME Start(P) PROVE Index!Open
  <2>1. mem[P] = None /\ mem'[P] = Reload(db) /\ UNCHANGED <<db, recoverable>>
    BY <1>1 DEF Start, disk, Inv, Types, Memory
  <2> QED
    BY <2>1, MappedMemory, SameLedger DEF Index!Open
<1>2. ASSUME Crossed(P) \/ TakeFails(P) \/ WriteFails(P) \/ Finish(P) PROVE Index!Close
  BY <1>2, LeaveIsClose DEF Crossed, TakeFails, WriteFails, Finish
<1>3. ASSUME AskHeight(P) \/ Compare(P) \/ Plan(P) \/ Worker(P)
      PROVE  UNCHANGED Index!vars
  BY <1>3 DEF AskHeight, Compare, Plan, Worker, Fetch, FetchFails, disk, Index!vars
<1>4. ASSUME CallFails(P) PROVE Index!Close \/ UNCHANGED Index!vars
  <2>1. pc[P] # "down"
    BY <1>4 DEF CallFails
  <2> QED
    BY <1>4, <2>1, LeaveIsClose DEF CallFails, disk, Index!vars
<1>5. ASSUME Take(P) PROVE Index!Close \/ UNCHANGED Index!vars
  <2>1. pc[P] # "down"
    BY <1>5 DEF Take
  <2>2. Leave(P) \/ UNCHANGED <<disk, mem>>
    BY <1>5 DEF Take
  <2> QED
    BY <2>1, <2>2, LeaveIsClose DEF disk, Index!vars
<1>6. ASSUME Crash(P) PROVE Index!Crash
  <2>1. pc[P] # "down" /\ UNCHANGED <<db, recoverable>> /\ mem'[P] = None
    BY <1>6, VanishIs DEF Crash, disk, Inv
  <2> QED
    BY <2>1, RunningMemory, MappedMemory DEF Index!Crash
<1>7. ASSUME PowerLoss PROVE Index!PowerLoss
  BY <1>7, MappedMemory DEF PowerLoss, Index!PowerLoss
<1>8. ASSUME NodeMoves \/ UNCHANGED vars PROVE UNCHANGED Index!vars
  BY <1>8 DEF NodeMoves, vars, disk, Index!vars
<1>9. ASSUME Step(P) PROVE IndexStep
  BY <1>9, <1>1, <1>2, <1>3, <1>4, <1>5, WriteIsApply, RollBackRefines
     DEF Step, IndexStep
<1> QED
  BY <1>3, <1>6, <1>7, <1>8, <1>9 DEF Next, IndexStep

(* With one process, the command implements ChainIndex: every step of it,   *)
(* on the node, on a future, a failed call, a crash, a restart, applies one *)
(* connected block, rolls back to one height, opens, closes, crashes, or    *)
(* leaves the index alone.  So what is proved of the index holds of the     *)
(* database this command writes.                                            *)
THEOREM ScannerImplementsIndex ==
    ASSUME NEW P, Procs = {P} PROVE Spec => ImplementsChainIndex
<1>1. Init => Index!Init
  BY MappedMemory, SameLedger DEF Init, Index!Init
<1>2. Inv /\ [Next]_vars => [Index!Next]_(Index!vars)
  <2>1. Inv /\ [Next]_vars => IndexStep
    BY StepRefines
  <2>2. IndexStep => [Index!Next]_(Index!vars)
    BY SameLedger DEF IndexStep, Index!Next
  <2> QED
    BY <2>1, <2>2
<1> QED
  BY <1>1, <1>2, InvHolds, PTL DEF Spec, ImplementsChainIndex, Index!Spec
=============================================================================
