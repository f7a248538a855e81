---------------------------- MODULE ChainScanner ----------------------------
(***************************************************************************)
(* The chain-index command: each run opens the index, asks the node for    *)
(* its height, walks down to the last block both agree on, rolls back to   *)
(* it, and applies blocks that worker threads prefetch.  The node's active *)
(* chain moves under it, calls fail and are retried, processes die, power  *)
(* is lost, and the service manager starts the command again.              *)
(***************************************************************************)
EXTENDS ChainLedger

CONSTANTS
    Procs,          \* processes running the command on the one database
    Workers,        \* prefetch_workers
    Attempts,       \* retry_attempts
    MaxBlocks,      \* max_blocks (--max-blocks)
    MaxMoves,       \* bound: changes of the node's active chain
    MaxFaults,      \* bound: failed calls and busy databases
    MaxCrashes      \* bound: dead processes and losses of power

ASSUME ScannerAssumption ==
    /\ Workers \in Nat \ {0} /\ Attempts \in Nat \ {0} /\ MaxBlocks \in Nat \ {0}
    /\ MaxMoves \in Nat /\ MaxFaults \in Nat /\ MaxCrashes \in Nat

VARIABLES
    tip,            \* the node's best block, None while it is below StartHeight
    db,             \* the committed database
    recoverable,    \* committed databases a loss of power may return to
    mem,            \* mem[p]: the open index's active state, or None
    pc,             \* pc[p]: where the run is
    goal,           \* goal[p]: effective_stop, the height the node reported
    at,             \* at[p]: the candidate of the reconciliation, then the
                    \* height the scan applies next
    pending,        \* pending[p][h]: the future of the block of height h
    taken,          \* taken[p]: the block popped and staged, not yet written
    tries,          \* tries[p]: failed attempts of the main thread's call
    moves, faults, crashes,
    asked           \* auxiliary: asked[p] is moves when goal[p] was reported

vars == <<tip, db, recoverable, mem, pc, goal, at, pending, taken, tries,
          moves, faults, crashes, asked>>

node == <<tip, moves>>
disk == <<db, recoverable>>
plan == <<goal, at, asked>>

-----------------------------------------------------------------------------
(* The node, as block RPCs see it. *)

\* The chain from the start height to b, b included.
ActiveChain[b \in Block \cup {None}] ==
    IF b = None THEN {} ELSE {b} \cup ActiveChain[Parent[b]]

NodeHeight == IF tip = None THEN StartHeight - 1 ELSE Height[tip]

\* getblockhash(h), or None beyond the node's height, where the call fails.
HashAt(h) ==
    IF h \in StartHeight .. NodeHeight
    THEN CHOOSE b \in ActiveChain[tip] : Height[b] = h ELSE None

StoredHash(h) ==
    IF \E b \in db.blocks : Height[b] = h THEN BlockAt(db, h) ELSE None

Least(i, j) == IF i <= j THEN i ELSE j

NoFutures == << >>
Submitted == [tries |-> 0, got |-> None]
Raised(f) == f.got = None /\ f.tries = Attempts

Init ==
    /\ tip \in Block \cup {None}
    /\ db = EmptyDb /\ recoverable = {EmptyDb}
    /\ mem = [p \in Procs |-> None]
    /\ pc = [p \in Procs |-> "down"]
    /\ goal = [p \in Procs |-> 0] /\ at = [p \in Procs |-> 0]
    /\ pending = [p \in Procs |-> NoFutures]
    /\ taken = [p \in Procs |-> None]
    /\ tries = [p \in Procs |-> 0]
    /\ moves = 0 /\ faults = 0 /\ crashes = 0
    /\ asked = [p \in Procs |-> 0]

\* The node extends its chain, reorganizes, or falls behind.
NodeMoves ==
    /\ moves < MaxMoves
    /\ tip' \in (Block \cup {None}) \ {tip}
    /\ moves' = moves + 1
    /\ UNCHANGED <<disk, mem, pc, plan, pending, taken, tries, faults, crashes>>

-----------------------------------------------------------------------------
(* One run of the command. *)

Commit(d) ==
    /\ db' = d
    /\ recoverable' = recoverable \cup {d}

\* The process is gone: its memory, its futures and its place in the scan.
Vanish(p) ==
    /\ mem' = [mem EXCEPT ![p] = None]
    /\ pc' = [pc EXCEPT ![p] = "down"]
    /\ pending' = [pending EXCEPT ![p] = NoFutures]
    /\ taken' = [taken EXCEPT ![p] = None]
    /\ tries' = [tries EXCEPT ![p] = 0]
    /\ goal' = [goal EXCEPT ![p] = 0]
    /\ at' = [at EXCEPT ![p] = 0]
    /\ asked' = [asked EXCEPT ![p] = 0]

\* Leaving the with block, by a return or an exception: the last connection
\* to close checkpoints the log.
Leave(p) ==
    /\ Vanish(p)
    /\ recoverable' = IF \A q \in Procs \ {p} : mem[q] = None THEN {db}
                      ELSE recoverable
    /\ UNCHANGED db

\* The service manager, or an operator, starts the command.
Start(p) ==
    /\ pc[p] = "down"
    /\ mem' = [mem EXCEPT ![p] = Reload(db)]
    /\ pc' = [pc EXCEPT ![p] = "ask"]
    /\ UNCHANGED <<node, disk, plan, pending, taken, tries, faults, crashes>>

\* Mutants: the walk starts one block too low, or above the node's height.
CandidateTooLow == Least(LastHeight(db), NodeHeight) - 1
CandidateUncapped == LastHeight(db)

\* The height the walk down to the common block starts from.
Candidate == Least(LastHeight(db), NodeHeight)

\* scan: the node's height, then the index's own.
AskHeight(p) ==
    /\ pc[p] = "ask"
    /\ goal' = [goal EXCEPT ![p] = NodeHeight]
    /\ at' = [at EXCEPT ![p] = Candidate]
    /\ asked' = [asked EXCEPT ![p] = moves]
    /\ pc' = [pc EXCEPT ![p] = IF db.blocks = {} THEN "plan" ELSE "reconcile"]
    /\ tries' = [tries EXCEPT ![p] = 0]
    /\ UNCHANGED <<node, disk, mem, pending, taken, faults, crashes>>

\* _reconcile_reorg: one turn of the loop, the call having answered.
Compare(p) ==
    /\ pc[p] = "reconcile"
    /\ at[p] >= StartHeight
    /\ HashAt(at[p]) # None
    /\ IF StoredHash(at[p]) = HashAt(at[p])
       THEN pc' = [pc EXCEPT ![p] = "rollback"] /\ UNCHANGED at
       ELSE at' = [at EXCEPT ![p] = @ - 1] /\ UNCHANGED pc
    /\ tries' = [tries EXCEPT ![p] = 0]
    /\ UNCHANGED <<node, disk, mem, goal, asked, pending, taken, faults, crashes>>

\* "The chain reorganization crossed the index start height."
Crossed(p) ==
    /\ pc[p] = "reconcile"
    /\ at[p] < StartHeight
    /\ Leave(p)
    /\ UNCHANGED <<node, faults, crashes>>

\* rollback_after(candidate): with nothing above it, returns at once.
RollBack(p) ==
    /\ pc[p] = "rollback"
    /\ IF \E b \in db.blocks : Height[b] > at[p]
       THEN /\ Commit(Rollback(db, at[p]))
            /\ mem' = [mem EXCEPT ![p] = Reload(Rollback(db, at[p]))]
       ELSE UNCHANGED <<disk, mem>>
    /\ pc' = [pc EXCEPT ![p] = "plan"]
    /\ UNCHANGED <<node, plan, pending, taken, tries, faults, crashes>>

\* The heights of this run, and the first window of futures.
Plan(p) ==
    /\ pc[p] = "plan"
    /\ LET next  == LastHeight(db) + 1
           final == Least(goal[p], next + MaxBlocks - 1)
       IN  IF goal[p] < next
           THEN /\ pc' = [pc EXCEPT ![p] = "done"]
                /\ UNCHANGED <<goal, at, pending>>
           ELSE /\ pc' = [pc EXCEPT ![p] = "scan"]
                /\ goal' = [goal EXCEPT ![p] = final]
                /\ at' = [at EXCEPT ![p] = next]
                /\ pending' = [pending EXCEPT ![p] =
                     [h \in next .. Least(next + Workers - 1, final) |-> Submitted]]
    /\ UNCHANGED <<node, disk, mem, asked, taken, tries, faults, crashes>>

\* A worker thread: getblockhash and getblock answer for height h.
Fetch(p, h) ==
    /\ h \in DOMAIN pending[p]
    /\ pending[p][h].got = None /\ ~Raised(pending[p][h])
    /\ HashAt(h) # None
    /\ pending' = [pending EXCEPT ![p][h].got = HashAt(h)]
    /\ UNCHANGED <<node, disk, mem, pc, plan, taken, tries, faults, crashes>>

\* A worker's attempt fails: beyond the node's height at every attempt, or by
\* a fault that is retried (CoreRpcError) or is not (CoreBlockError).
FetchFails(p, h) ==
    /\ h \in DOMAIN pending[p]
    /\ pending[p][h].got = None /\ ~Raised(pending[p][h])
    /\ \/ /\ HashAt(h) = None
          /\ pending' = [pending EXCEPT ![p][h].tries = @ + 1]
          /\ UNCHANGED faults
       \/ /\ faults < MaxFaults
          /\ pending' = [pending EXCEPT ![p][h].tries = @ + 1]
          /\ faults' = faults + 1
       \/ /\ faults < MaxFaults
          /\ pending' = [pending EXCEPT ![p][h].tries = Attempts]
          /\ faults' = faults + 1
    /\ UNCHANGED <<node, disk, mem, pc, plan, taken, tries, crashes>>

LastAttempt(p) == tries[p] + 1 = Attempts

\* The main thread's call fails: it sleeps and retries, or raises.
CallFails(p) ==
    /\ \/ /\ pc[p] \in {"ask", "reconcile"} /\ faults < MaxFaults
          /\ faults' = faults + 1
       \/ /\ pc[p] = "reconcile" /\ at[p] >= StartHeight /\ HashAt(at[p]) = None
          /\ UNCHANGED faults
    /\ IF LastAttempt(p)
       THEN Leave(p)
       ELSE /\ tries' = [tries EXCEPT ![p] = @ + 1]
            /\ UNCHANGED <<disk, mem, pc, plan, pending, taken>>
    /\ UNCHANGED <<node, crashes>>

\* future.result(), then apply_block up to its transaction: the checks against
\* the last row, the staging from memory, the reconciliation.
Take(p) ==
    /\ pc[p] = "scan"
    /\ pending[p][at[p]].got # None
    /\ LET b  == pending[p][at[p]].got
           st == Staged(mem[p], b)
       IN  IF Connects(db, b) /\ st.ok /\ Reconciles(mem[p], st)
           THEN /\ taken' = [taken EXCEPT ![p] = b]
                /\ pc' = [pc EXCEPT ![p] = "write"]
                /\ pending' = [pending EXCEPT ![p] =
                     [h \in DOMAIN pending[p] \ {at[p]} |-> pending[p][h]]]
                /\ UNCHANGED <<disk, mem, plan, tries>>
           ELSE Leave(p)
    /\ UNCHANGED <<node, faults, crashes>>

\* future.result() raises.
TakeFails(p) ==
    /\ pc[p] = "scan"
    /\ Raised(pending[p][at[p]])
    /\ Leave(p)
    /\ UNCHANGED <<node, faults, crashes>>

\* Mutant: a future is submitted past the last height of the run.
RefillPast(p) ==
    [h \in DOMAIN pending[p] \cup {at[p] + Workers} |->
       IF h = at[p] + Workers THEN Submitted ELSE pending[p][h]]

\* next(height_iterator): one more future, unless every height has had one.
Refill(p) ==
    IF at[p] + Workers <= goal[p]
    THEN [h \in DOMAIN pending[p] \cup {at[p] + Workers} |->
            IF h = at[p] + Workers THEN Submitted ELSE pending[p][h]]
    ELSE pending[p]

\* Mutant: memory is not brought up to the block that was written.
WriteWithoutMemory(p) ==
    /\ pc[p] = "write"
    /\ KeysFree(db, taken[p], Staged(mem[p], taken[p]))
    /\ Commit(Indexed(db, mem[p], taken[p]))
    /\ taken' = [taken EXCEPT ![p] = None]
    /\ pending' = [pending EXCEPT ![p] = Refill(p)]
    /\ at' = [at EXCEPT ![p] = @ + 1]
    /\ pc' = [pc EXCEPT ![p] = IF at[p] = goal[p] THEN "done" ELSE "scan"]
    /\ UNCHANGED <<node, mem, goal, asked, tries, faults, crashes>>

\* _write_block, the update of memory, and the next future.
Write(p) ==
    /\ pc[p] = "write"
    /\ KeysFree(db, taken[p], Staged(mem[p], taken[p]))
    /\ Commit(Indexed(db, mem[p], taken[p]))
    /\ mem' = [mem EXCEPT ![p] = Absorbed(mem[p], taken[p])]
    /\ taken' = [taken EXCEPT ![p] = None]
    /\ pending' = [pending EXCEPT ![p] = Refill(p)]
    /\ at' = [at EXCEPT ![p] = @ + 1]
    /\ pc' = [pc EXCEPT ![p] = IF at[p] = goal[p] THEN "done" ELSE "scan"]
    /\ UNCHANGED <<node, goal, asked, tries, faults, crashes>>

\* The transaction meets a taken key, or the database stays busy.
WriteFails(p) ==
    /\ \/ /\ pc[p] = "write"
          /\ ~KeysFree(db, taken[p], Staged(mem[p], taken[p]))
          /\ UNCHANGED faults
       \/ /\ pc[p] \in {"write", "rollback"}
          /\ faults < MaxFaults
          /\ faults' = faults + 1
    /\ Leave(p)
    /\ UNCHANGED <<node, crashes>>

\* The command prints its result and exits with code 0.
Finish(p) ==
    /\ pc[p] = "done"
    /\ Leave(p)
    /\ UNCHANGED <<node, faults, crashes>>

-----------------------------------------------------------------------------
(* Failures nothing in the program sees coming. *)

Crash(p) ==
    /\ pc[p] # "down"
    /\ crashes < MaxCrashes
    /\ crashes' = crashes + 1
    /\ Vanish(p)
    /\ UNCHANGED <<node, disk, faults>>

PowerLoss ==
    /\ crashes < MaxCrashes
    /\ crashes' = crashes + 1
    /\ db' \in recoverable
    /\ recoverable' = {db'}
    /\ mem' = [p \in Procs |-> None]
    /\ pc' = [p \in Procs |-> "down"]
    /\ pending' = [p \in Procs |-> NoFutures]
    /\ taken' = [p \in Procs |-> None]
    /\ tries' = [p \in Procs |-> 0]
    /\ goal' = [p \in Procs |-> 0] /\ at' = [p \in Procs |-> 0]
    /\ asked' = [p \in Procs |-> 0]
    /\ UNCHANGED <<node, faults>>

-----------------------------------------------------------------------------
Step(p) ==
    \/ Start(p) \/ AskHeight(p) \/ Compare(p) \/ Crossed(p) \/ RollBack(p)
    \/ Plan(p) \/ Take(p) \/ TakeFails(p) \/ Write(p) \/ WriteFails(p)
    \/ CallFails(p) \/ Finish(p)

Worker(p) == \E h \in DOMAIN pending[p] : Fetch(p, h) \/ FetchFails(p, h)

Next ==
    \/ \E p \in Procs : Step(p) \/ Worker(p) \/ Crash(p)
    \/ NodeMoves
    \/ PowerLoss

Spec == Init /\ [][Next]_vars

\* The timer and Restart=on-failure start the command again and again, and a
\* running process and its threads are scheduled; nothing obliges the node to
\* move, a call to fail, or a process to die.
FairSpec ==
    /\ Spec
    /\ \A p \in Procs : WF_vars(Step(p))
    /\ \A p \in Procs : WF_vars(Worker(p))

-----------------------------------------------------------------------------
(* The futures are exactly those of the next heights, at most Workers of    *)
(* them and never past the run's last height, so that pending.pop(height)   *)
(* finds the height it asks for and no worker fetches beyond the target     *)
(* (_scan_heights).                                                         *)
WindowFollows ==
    \A p \in Procs :
        LET from == IF pc[p] = "write" THEN at[p] + 1 ELSE at[p]
        IN  DOMAIN pending[p] =
              IF pc[p] \in {"scan", "write"}
              THEN from .. Least(at[p] + Workers - 1, goal[p]) ELSE {}

(* With one process, a run that ends normally leaves the index at the       *)
(* height it set out for, neither short of it nor beyond it, and on a chain *)
(* of blocks each of which is the parent of the next (scan).                *)
DoneAtTarget ==
    \A p \in Procs : pc[p] = "done" =>
        /\ LastHeight(db) = goal[p]
        /\ \A b \in db.blocks : Height[b] > StartHeight => Parent[b] \in db.blocks

(* While the node stands still, a rollback discards only blocks that are    *)
(* not on the node's active chain: the walk down stops at the highest       *)
(* common block (_reconcile_reorg).                                         *)
OnlyStaleDiscarded ==
    [][\A p \in Procs : RollBack(p) /\ asked[p] = moves =>
          (db.blocks \ db'.blocks) \cap ActiveChain[tip] = {}]_vars

(* With one process, every step is a step of ChainIndex or changes neither  *)
(* the database nor its memory; so the scanner's index is path independent, *)
(* whatever the node, the prefetch and the failures do.                     *)
Index == INSTANCE ChainIndex WITH mem <- mem[CHOOSE p \in Procs : TRUE]

ImplementsChainIndex == Index!Spec

(* Several processes: the history recorded per pool still is what the       *)
(* output rows say.                                                         *)
HistoryAudit == Index!SnapshotsAgree(db)

Matches == db.blocks = ActiveChain[tip]

NoCommonBlock == db.blocks # {} /\ db.blocks \cap ActiveChain[tip] = {}

(* Once the node settles and failures cease, the index reaches the node's   *)
(* active chain and stays there, unless the reorganization replaced even    *)
(* the first indexed block, which the scanner refuses to undo.              *)
CatchesUp == <>[](Matches \/ NoCommonBlock)
=============================================================================
