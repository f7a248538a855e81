-------------------------- MODULE BlockTransaction --------------------------
(***************************************************************************)
(* The two write transactions of ChainIndex, statement by statement: the   *)
(* ten of _write_block and the nine of rollback_after, with the keys and   *)
(* foreign keys SQLite enforces after each, and a failure at any of them.  *)
(* ChainIndex takes each call for one step; here the calls implement it.   *)
(***************************************************************************)
EXTENDS ChainIndex

\* What a running call is: its argument and the statement it has next.
ApplyCalls == [call : {"apply"}, at : Block, next : Nat]
RollbackCalls == [call : {"rollback"}, at : {StartHeight - 1} \cup Heights, next : Nat]

ASSUME CallAssumption == None \notin ApplyCalls /\ None \notin RollbackCalls

VARIABLES
    draft,          \* the tables as the writer's connection sees them
    txn             \* the running call, None between calls

allVars == <<vars, draft, txn>>

CallsInit ==
    /\ Init
    /\ draft = db
    /\ txn = None

-----------------------------------------------------------------------------
(* The statements, in the order the code executes them.                     *)

\* Mutant: the snapshots are written before the row of their block.
ApplyStatementsBlockLast ==
    <<"spend_pool", "insert_pool", "spend_fees", "insert_tx0s", "insert_rounds",
      "insert_spends", "insert_fees", "spend_new_fees", "insert_snapshots",
      "insert_block">>

\* Mutant: a fee spent in the block that creates it is not marked.
ApplyStatementsNewFeesKept ==
    <<"insert_block", "spend_pool", "insert_pool", "spend_fees", "insert_tx0s",
      "insert_rounds", "insert_spends", "insert_fees", "insert_snapshots">>

ApplyStatements ==
    <<"insert_block", "spend_pool", "insert_pool", "spend_fees", "insert_tx0s",
      "insert_rounds", "insert_spends", "insert_fees", "spend_new_fees",
      "insert_snapshots">>

RollbackStatements ==
    <<"unspend_pool", "unspend_fees", "delete_spends", "delete_fees",
      "delete_rounds", "delete_tx0s", "delete_snapshots", "delete_pool",
      "delete_blocks">>

\* UPDATE ... WHERE spent_height IS NULL, on the chosen outpoints.
Spending(table, chosen, h, spend) ==
    [o \in Outpoint |->
       IF o \in chosen THEN {MarkSpent(r, h, spend[o]) : r \in table[o]} ELSE table[o]]

\* Mutant: an output spent in the block that creates it is inserted unspent.
InsertingUnspent(table, h, new, spend) ==
    [o \in Outpoint |->
       table[o] \cup {[item |-> x, created |-> h, spent |-> {}] : x \in new[o]}]

Inserting(table, h, new, spend) ==
    [o \in Outpoint |->
       table[o] \cup {[item |-> x, created |-> h, spent |-> SpentAt(h, spend[o])]
                        : x \in new[o]}]

Unspents == [o \in Outpoint |-> {}]

\* UPDATE ... SET spent_height = NULL WHERE spent_height > h.
Unspending(table, h) ==
    [o \in Outpoint |-> {[r EXCEPT !.spent = {s \in @ : s.height <= h}] : r \in table[o]}]

Deleting(table, h) == [o \in Outpoint |-> {r \in table[o] : r.created <= h}]

Keys(added) == {o \in Outpoint : added[o] # {}}

SnapshotRows(m, st) == {[pool |-> p, at |-> Snapshot(m, st)[p]] : p \in Pools}

\* What a statement of apply_block(b) makes of the tables d.
Applying(d, statement, b) ==
    LET h  == Height[b]
        st == Staged(mem, b)
    IN  CASE statement = "insert_block" -> [d EXCEPT !.blocks = @ \cup {b}]
          [] statement = "spend_pool" ->
               [d EXCEPT !.pool = Spending(@, Keys(st.spent) \ Keys(st.added), h, st.spent)]
          [] statement = "insert_pool" ->
               [d EXCEPT !.pool = Inserting(@, h, st.added, st.spent)]
          [] statement = "spend_fees" ->
               [d EXCEPT !.coord = Spending(@, Keys(st.cspent) \ Keys(st.cadded), h, st.cspent)]
          [] statement = "insert_tx0s" -> [d EXCEPT !.tx0s = @ \cup Logged(h, st.tx0s)]
          [] statement = "insert_rounds" -> [d EXCEPT !.rounds = @ \cup Logged(h, st.rounds)]
          [] statement = "insert_spends" -> [d EXCEPT !.spends = @ \cup Logged(h, st.spends)]
          [] statement = "insert_fees" ->
               [d EXCEPT !.coord = Inserting(@, h, st.cadded, Unspents)]
          [] statement = "spend_new_fees" ->
               [d EXCEPT !.coord =
                  Spending(@, Keys(st.cspent) \cap Keys(st.cadded), h, st.cspent)]
          [] statement = "insert_snapshots" ->
               [d EXCEPT !.snaps = @ \cup Logged(h, SnapshotRows(mem, st))]

\* What a statement of rollback_after(h) makes of them.
RollingBack(d, statement, h) ==
    CASE statement = "unspend_pool"     -> [d EXCEPT !.pool = Unspending(@, h)]
      [] statement = "unspend_fees"     -> [d EXCEPT !.coord = Unspending(@, h)]
      [] statement = "delete_spends"    -> [d EXCEPT !.spends = UpTo(@, h)]
      [] statement = "delete_fees"      -> [d EXCEPT !.coord = Deleting(@, h)]
      [] statement = "delete_rounds"    -> [d EXCEPT !.rounds = UpTo(@, h)]
      [] statement = "delete_tx0s"      -> [d EXCEPT !.tx0s = UpTo(@, h)]
      [] statement = "delete_snapshots" -> [d EXCEPT !.snaps = UpTo(@, h)]
      [] statement = "delete_pool"      -> [d EXCEPT !.pool = Deleting(@, h)]
      [] statement = "delete_blocks"    -> [d EXCEPT !.blocks = {b \in @ : Height[b] <= h}]

-----------------------------------------------------------------------------
(* The constraints of the schema.                                           *)

\* PRIMARY KEY and UNIQUE: the statement inserts a key the tables hold.
KeyTaken(d, statement, b) ==
    LET st == Staged(mem, b)
        Clash(rows, new) == \E q \in rows, r \in new : q.row.txid = r.txid
    IN  CASE statement = "insert_block"     -> \E c \in d.blocks : Height[c] = Height[b]
          [] statement = "insert_pool"      -> \E o \in Keys(st.added) : d.pool[o] # {}
          [] statement = "insert_fees"      -> \E o \in Keys(st.cadded) : d.coord[o] # {}
          [] statement = "insert_tx0s"      -> Clash(d.tx0s, st.tx0s)
          [] statement = "insert_rounds"    -> Clash(d.rounds, st.rounds)
          [] statement = "insert_spends"    -> Clash(d.spends, st.spends)
          [] statement = "insert_snapshots" -> \E q \in d.snaps : q.height = Height[b]
          [] OTHER                          -> FALSE

\* REFERENCES chain_blocks(height), checked at the end of each statement.
HeightsKnown(d) ==
    LET known == {Height[b] : b \in d.blocks}
        Table(table) ==
          \A o \in Outpoint : \A r \in table[o] :
             r.created \in known /\ \A s \in r.spent : s.height \in known
    IN  /\ Table(d.pool) /\ Table(d.coord)
        /\ \A r \in d.tx0s \cup d.rounds \cup d.spends \cup d.snaps : r.height \in known

-----------------------------------------------------------------------------
Statements == IF txn.call = "apply" THEN ApplyStatements ELSE RollbackStatements

\* The running call has a statement left, and which.
More == txn.next <= Len(Statements)
Statement == Statements[txn.next]

\* The tables after that statement.
Executed ==
    IF txn.call = "apply" THEN Applying(draft, Statement, txn.at)
                          ELSE RollingBack(draft, Statement, txn.at)

\* The schema lets it pass.
Allowed ==
    /\ txn.call = "apply" => ~KeyTaken(draft, Statement, txn.at)
    /\ HeightsKnown(Executed)

Begin(call, at) ==
    /\ txn' = [call |-> call, at |-> at, next |-> 1]
    /\ UNCHANGED <<vars, draft>>

\* apply_block up to BEGIN IMMEDIATE; a block it refuses changes nothing.
BeginApply(b) ==
    /\ mem # None /\ txn = None
    /\ Connects(db, b)
    /\ LET st == Staged(mem, b) IN st.ok /\ Reconciles(mem, st)
    /\ Begin("apply", b)

\* rollback_after up to BEGIN IMMEDIATE, with a block above h.
BeginRollback(h) ==
    /\ mem # None /\ txn = None
    /\ h >= StartHeight - 1
    /\ \E b \in db.blocks : Height[b] > h
    /\ Begin("rollback", h)

Execute ==
    /\ txn # None /\ More
    /\ Allowed
    /\ draft' = Executed
    /\ txn' = [txn EXCEPT !.next = @ + 1]
    /\ UNCHANGED vars

\* Mutant: the error is raised and the transaction left as it is.
RollbackQuietlyForgotten == UNCHANGED draft

RollbackQuietly == draft' = db

\* sqlite3.Error at a statement or at COMMIT: a constraint, a full disk, a
\* lock not obtained.  The call raises; memory is left alone.
Fail ==
    /\ txn # None
    /\ RollbackQuietly
    /\ txn' = None
    /\ UNCHANGED vars

\* Mutant: rollback_after returns without reloading memory.
FollowingWithoutReload == IF txn.call = "apply" THEN Absorbed(mem, txn.at) ELSE mem

\* Memory once the call returns: the block absorbed, or the tables reloaded.
Following ==
    IF txn.call = "apply" THEN Absorbed(mem, txn.at) ELSE Reload(draft)

\* COMMIT, and the rest of the call, which nothing but a crash can disturb.
Return ==
    /\ txn # None /\ ~More
    /\ Commit(draft)
    /\ mem' = Following
    /\ txn' = None
    /\ UNCHANGED draft

\* The steps of ChainIndex outside its two calls.  A process that dies, or a
\* machine, takes the open transaction with it.
Between ==
    /\ txn = None
    /\ Open \/ Close \/ Checkpoint
    /\ UNCHANGED <<draft, txn>>

Die ==
    /\ Crash \/ PowerLoss
    /\ draft' = db'
    /\ txn' = None

CallsNext ==
    \/ \E b \in Block : BeginApply(b)
    \/ \E h \in {StartHeight - 1} \cup Heights : BeginRollback(h)
    \/ Execute
    \/ Fail
    \/ Return
    \/ Between
    \/ Die

CallsSpec == CallsInit /\ [][CallsNext]_allVars

-----------------------------------------------------------------------------
(* No statement of a transaction ever meets a key or a foreign key: each    *)
(* finds the rows that earlier ones, of this and of every transaction       *)
(* before, had to leave or to remove (_write_block, rollback_after).        *)
NoConstraintMet == txn # None /\ More => Allowed

(* A statement that fails leaves no part of the block or of the rollback,   *)
(* in the tables or in memory, and all the statements together are the one  *)
(* step ChainIndex takes them for (ChainIndex.apply_block, rollback_after). *)
ImplementsIndex == Spec
=============================================================================
