----------------------------- MODULE ChainIndex -----------------------------
(***************************************************************************)
(* One ChainIndex object at a time over one SQLite file: opening, applying *)
(* blocks, rolling back, closing, crashing and losing power.  The database *)
(* is what other connections read; the memory is the copy of the unspent   *)
(* outputs that apply_block stages the next block from.                    *)
(***************************************************************************)
EXTENDS ChainLedger

VARIABLES
    db,             \* the committed database
    mem,            \* the active state of the open index, None when closed
    recoverable     \* committed databases a loss of power may return to

vars == <<db, mem, recoverable>>

Init ==
    /\ db = EmptyDb
    /\ mem = None
    /\ recoverable = {EmptyDb}

\* Every COMMIT reaches the write-ahead log; synchronous = NORMAL does not
\* flush it, so until a checkpoint a loss of power may drop the last commits.
Commit(d) ==
    /\ db' = d
    /\ recoverable' = recoverable \cup {d}

\* ChainIndex.__init__: the schema exists, the metadata match, memory loads.
Open ==
    /\ mem = None
    /\ mem' = Reload(db)
    /\ UNCHANGED <<db, recoverable>>

\* apply_block returns.  When it raises, nothing changes: the transaction is
\* rolled back and memory is updated only after COMMIT.
ApplyBlock(b) ==
    /\ mem # None
    /\ Connects(db, b)
    /\ Accepts(db, mem, b)
    /\ Commit(Indexed(db, mem, b))
    /\ mem' = Absorbed(mem, b)

\* rollback_after(h) with at least one block above h; otherwise it returns 0
\* at once and changes nothing.
RollbackAfter(h) ==
    /\ mem # None
    /\ h >= StartHeight - 1
    /\ \E b \in db.blocks : Height[b] > h
    /\ Commit(Rollback(db, h))
    /\ mem' = Reload(Rollback(db, h))

\* Closing the last connection checkpoints the log.
Close ==
    /\ mem # None
    /\ mem' = None
    /\ recoverable' = {db}
    /\ UNCHANGED db

Checkpoint ==
    /\ recoverable' = {db}
    /\ UNCHANGED <<db, mem>>

\* The process dies; every commit it made stays in the log.
Crash ==
    /\ mem # None
    /\ mem' = None
    /\ UNCHANGED <<db, recoverable>>

PowerLoss ==
    /\ mem' = None
    /\ db' \in recoverable
    /\ recoverable' = {db'}

Next ==
    \/ Open
    \/ \E b \in Block : ApplyBlock(b)
    \/ \E h \in {StartHeight - 1} \cup Heights : RollbackAfter(h)
    \/ Close
    \/ Checkpoint
    \/ Crash
    \/ PowerLoss

Spec == Init /\ [][Next]_vars

-----------------------------------------------------------------------------
(* The active state apply_block stages from is the one a restart would load *)
(* from the tables: updating it in place after COMMIT (apply_block) and     *)
(* reloading it after rollback_after never drift apart.                     *)
MemoryMatches == mem # None => mem = Reload(db)

PoolRows(d, p, Is(_)) ==
    {o \in Outpoint : \E r \in d.pool[o] : r.item.pool = p /\ Is(r)}

HeldAt(d, p, h) ==
    PoolRows(d, p, LAMBDA r : r.created <= h /\ \A s \in r.spent : s.height > h)

EnteredAt(d, p, h) ==
    PoolRows(d, p, LAMBDA r : r.created = h /\ r.item.source = "tx0")

LeftAt(d, p, h) ==
    PoolRows(d, p, LAMBDA r : \E s \in r.spent :
                                 s.height = h /\ s.spend.how = "exit")

\* Every indexed block has one snapshot per pool, no other height has any,
\* and each says what the output rows say of that height.
SnapshotsAgree(d) ==
    /\ \A b \in d.blocks : \A p \in Pools :
          \E s \in d.snaps : s.height = Height[b] /\ s.row.pool = p
    /\ \A s \in d.snaps :
          LET p == s.row.pool
              h == s.height
          IN  /\ \E b \in d.blocks : Height[b] = h
              /\ s.row.at.count = Cardinality(HeldAt(d, p, h))
              /\ s.row.at.liq   = Denom[p] * Cardinality(HeldAt(d, p, h))
              /\ s.row.at.entry = Denom[p] * Cardinality(EnteredAt(d, p, h))
              /\ s.row.at.exit  = Denom[p] * Cardinality(LeftAt(d, p, h))

(* The pool history (pool_snapshots) and the output rows (pool_utxos) are   *)
(* two accounts of one thing: at every indexed height, the liquidity, the   *)
(* entries and the exits recorded when the block was applied are those the  *)
(* rows give, whatever later spends, reorganizations and restarts did.      *)
SnapshotsAudit == SnapshotsAgree(db)

Fees(d) == {o \in Outpoint : d.coord[o] # {}}

\* The fee outputs spent by the transaction of spend row w.
SpentBy(d, w) ==
    {o \in Outpoint : \E r \in d.coord[o] : \E s \in r.spent :
                        s.height = w.height /\ s.spend = w.row.txid}

FeesAgree(d) ==
    /\ \A o \in Fees(d) : \A r \in d.coord[o] :
          /\ \E w \in d.tx0s :
                w.height = r.created /\ \E f \in w.row.fee : f.out = o
          /\ r.spent # {} => \E w \in d.spends : o \in SpentBy(d, w)
          /\ r.item.method = "reuse" =>
                \E x \in Fees(d) \ {o} : \E q \in d.coord[x] :
                   Script[x] = Script[o] /\ q.created <= r.created
    /\ \A w \in d.spends : w.row.sats = SumValue(SpentBy(d, w))

(* Coordinator fee rows, Tx0 rows and coordinator spend rows tell one story:*)
(* a fee row belongs to the Tx0 that names it, a spent one to the spend row *)
(* of its spender, whose tracked total is the value of the rows it spent;   *)
(* and a fee inferred from a reused script has a surviving row that made    *)
(* the script known (_coordinator_fee_output).                              *)
FeesAudit == FeesAgree(db)

(* Every database on disk, committed or recoverable, indexes a gapless run  *)
(* of heights and holds no row created or spent above its last block: what  *)
(* makes rolling back by height comparisons undo whole blocks and nothing   *)
(* else (rollback_after).                                                   *)
TablesSound == db \in recoverable /\ \A d \in recoverable : Sound(d)

(* A block that connects is never refused: after any history, the spends    *)
(* are found, the liquidity reconciles and no key is taken, so the index    *)
(* cannot be stuck in front of a valid block (_snapshots_after_changes,     *)
(* _write_block).                                                           *)
NeverRefused ==
    mem # None => \A b \in Block : Connects(db, b) => Accepts(db, mem, b)

(* The index is a function of the blocks it holds: whatever was applied,    *)
(* rolled back, reopened or lost, the database is the replay of its chain   *)
(* on an empty one, and so is every rollback of it (docs: "resumes from     *)
(* the indexed tip").                                                       *)
Replay == INSTANCE ReplayLedger WITH
    ladder <- Ladder(db),
    saved  <- {Ladder(d) : d \in recoverable}

ImplementsReplay == Replay!Spec

(* The same as a state invariant: the ladder of the committed database is   *)
(* a replay, and so is that of every database a loss of power may reveal.   *)
DatabaseIsReplay == Replay!AlwaysReplay
=============================================================================
