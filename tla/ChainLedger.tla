---------------------------- MODULE ChainLedger ----------------------------
(***************************************************************************)
(* The pure part of the historical chain index (chainindex.py): what one   *)
(* block does to the SQLite tables and to the in-memory active state, and  *)
(* what a rollback and a reload do.  No variables: ChainIndex and          *)
(* ChainScanner turn these operators into steps.                           *)
(*                                                                         *)
(* A block is known by its hash; the tree of blocks a node may ever serve  *)
(* is a constant, and an output by its outpoint, whose value and script    *)
(* never change because its txid commits to them.                          *)
(***************************************************************************)
EXTENDS Integers, Sequences, FiniteSets, SequencesExt

CONSTANTS
    Pools,          \* pool identifiers
    Denom,          \* Denom[p]: denomination_sats
    Standard,       \* Standard[p]: coordinator_fee_sats
    Legacy,         \* the pools of the "Samourai legacy" protocol
    Outpoint,       \* every output of the block tree
    Value,          \* Value[o]: value_sats
    Script,         \* Script[o]: script_id
    Block,          \* block hashes
    Parent,         \* Parent[b]: previous_block_hash, None if outside the tree
    Height,         \* Height[b]
    Txs,            \* Txs[b]: the block's transactions with their detection
    StartHeight,    \* settings.start_height
    None            \* Python's None and SQL's NULL

ASSUME PoolAssumption == Denom \in [Pools -> Nat \ {0}]
ASSUME FinitelyManyOutputs == IsFiniteSet(Outpoint)
ASSUME HeightAssumption ==
    /\ StartHeight \in Nat
    /\ Height \in [Block -> {h \in Nat : h >= StartHeight}]
    /\ None \notin Block
ASSUME ParentAssumption ==
    /\ Parent \in [Block -> Block \cup {None}]
    /\ \A b \in Block : IF Parent[b] = None THEN Height[b] = StartHeight
                        ELSE Height[b] = Height[Parent[b]] + 1


\* What makes a block one Bitcoin could have.  A txid commits to a transaction
\* and an outpoint names the transaction that creates it; a transaction spends
\* outputs of earlier ones only, each at most once; and the block source asks
\* for the previous output of every input.
ASSUME BlockAssumption ==
    \A b \in Block :
        /\ Len(Txs[b]) \in Nat
        /\ \A i \in 1 .. Len(Txs[b]) : Txs[b][i].ins # {} => Txs[b][i].resolved
        /\ \A i, j \in 1 .. Len(Txs[b]) :
              /\ Txs[b][i].ins \subseteq Outpoint /\ Txs[b][i].outs \subseteq Outpoint
              /\ i # j => /\ Txs[b][i].txid # Txs[b][j].txid
                          /\ Txs[b][i].outs \cap Txs[b][j].outs = {}
                          /\ Txs[b][i].ins \cap Txs[b][j].ins = {}
              /\ i <= j => Txs[b][i].ins \cap Txs[b][j].outs = {}

\* A block and its ancestors: what every set closed under Parent and holding
\* the block must hold.
Line(b) ==
    {c \in Block : \A X \in SUBSET Block :
        b \in X /\ (\A x \in X : Parent[x] # None => Parent[x] \in X) => c \in X}

TxidsOf(b) == {Txs[b][i].txid : i \in 1 .. Len(Txs[b])}
OutsOf(b) == UNION {Txs[b][i].outs : i \in 1 .. Len(Txs[b])}

\* Along a branch no transaction and no output comes twice.
ASSUME BranchAssumption ==
    \A b \in Block : \A c \in Line(b) \ {b} :
        TxidsOf(b) \cap TxidsOf(c) = {} /\ OutsOf(b) \cap OutsOf(c) = {}

\* What memory may hold; a closed index has none.
Memories ==
    [active : [Outpoint -> SUBSET Pools], coord : SUBSET Outpoint,
     scripts : SUBSET {Script[o] : o \in Outpoint},
     liq : [Pools -> Nat], count : [Pools -> Nat]]

ASSUME NoneAssumption == None \notin Memories

Heights == {Height[b] : b \in Block}

-----------------------------------------------------------------------------
(* The database: one field per table.  A column or a key that may be NULL   *)
(* or absent is the set of its values: empty, or with one element.  The     *)
(* tables keyed by outpoint map it to its row; the others are sets of rows. *)

EmptyDb ==
    [blocks |-> {},
     pool   |-> [o \in Outpoint |-> {}],
     coord  |-> [o \in Outpoint |-> {}],
     tx0s   |-> {}, rounds |-> {}, spends |-> {}, snaps |-> {}]

Unspent(table, o) == {r \in table[o] : r.spent = {}}

\* n is the height of the last indexed block (StartHeight - 1: no block yet).
IsLast(d, n) ==
    /\ n \in Int
    /\ n = StartHeight - 1 \/ \E b \in d.blocks : Height[b] = n
    /\ \A b \in d.blocks : Height[b] <= n
    /\ n >= StartHeight - 1

LastHeight(d) == CHOOSE n \in {StartHeight - 1} \cup Heights : IsLast(d, n)

BlockAt(d, h) == CHOOSE b \in d.blocks : Height[b] = h

\* Mutant: any block of the next height connects.
ConnectsByHeight(d, b) == Height[b] = LastHeight(d) + 1

\* Mutant: the height is not compared.
ConnectsByParent(d, b) ==
    d.blocks # {} => Parent[b] \in d.blocks /\ Height[Parent[b]] = LastHeight(d)

\* The two refusals at the head of apply_block: wrong height, wrong parent.
Connects(d, b) ==
    /\ Height[b] = LastHeight(d) + 1
    /\ d.blocks # {} => Parent[b] \in d.blocks /\ Height[Parent[b]] = LastHeight(d)

-----------------------------------------------------------------------------
(* The active state a ChainIndex keeps in memory, read from the database:   *)
(* the pool each unspent output holds liquidity of, the unspent fees, every *)
(* script that ever took a fee, and two totals.                             *)

\* The pool a row's unspent output holds liquidity of, and a staged output's.
LivePool(table, o) == {p \in Pools : \E r \in Unspent(table, o) : r.item.pool = p}
NewPool(added) == {p \in Pools : \E x \in added : x.pool = p}

Holding(active, p) == {o \in Outpoint : active[o] = {p}}

\* Mutant: only the scripts of unspent fee outputs are known.
ReloadLiveScripts(d) ==
    LET active == [o \in Outpoint |-> LivePool(d.pool, o)]
    IN  [active  |-> active,
         coord   |-> {o \in Outpoint : Unspent(d.coord, o) # {}},
         scripts |-> {Script[o] : o \in {x \in Outpoint : Unspent(d.coord, x) # {}}},
         liq     |-> [p \in Pools |-> Denom[p] * Cardinality(Holding(active, p))],
         count   |-> [p \in Pools |-> Cardinality(Holding(active, p))]]

Reload(d) ==
    LET active == [o \in Outpoint |-> LivePool(d.pool, o)]
    IN  [active  |-> active,
         coord   |-> {o \in Outpoint : Unspent(d.coord, o) # {}},
         scripts |-> {Script[o] : o \in {x \in Outpoint : d.coord[x] # {}}},
         liq     |-> [p \in Pools |-> Denom[p] * Cardinality(Holding(active, p))],
         count   |-> [p \in Pools |-> Cardinality(Holding(active, p))]]

-----------------------------------------------------------------------------
(* Staging: the dictionaries apply_block fills while it walks a block.      *)

Blank(m) ==
    [ok      |-> TRUE,
     spent   |-> [o \in Outpoint |-> {}],
     added   |-> [o \in Outpoint |-> {}],
     cspent  |-> [o \in Outpoint |-> {}],
     cadded  |-> [o \in Outpoint |-> {}],
     scripts |-> m.scripts,
     entries |-> [p \in Pools |-> 0],
     exits   |-> [p \in Pools |-> 0],
     tx0s    |-> {}, rounds |-> {}, spends |-> {}]

\* The pool whose liquidity an input holds: this block's outputs shadow memory.
Holder(m, st, o) ==
    IF st.added[o] # {} THEN NewPool(st.added[o]) ELSE m.active[o]

Tracked(m, st, t) == {o \in t.ins : Holder(m, st, o) # {}}

TrackedFees(m, st, t) == {o \in t.ins : st.cadded[o] # {} \/ o \in m.coord}

WithRole(t, role) == {o \in t.outs : t.role[o] = role}

\* A validated round all of whose inputs are tracked liquidity of its pool
\* and whose outputs carry exactly that liquidity on.
IsLiquidityRollover(m, st, t) ==
    /\ t.kind = "round" /\ t.resolved
    /\ \A o \in t.ins : Holder(m, st, o) = {t.pool}
    /\ Cardinality(t.ins) * Denom[t.pool] = Cardinality(t.outs) * Denom[t.pool]

\* Which output of a Tx0 pays the coordinator, and how that was inferred:
\* the set of choices is empty or a singleton.
CoordinatorFee(t, scripts) ==
    LET exact    == WithRole(t, "fee")
        residual == WithRole(t, "residual")
        known    == {o \in residual : Script[o] \in scripts}
        below    == {o \in residual : Value[o] < Standard[t.pool]}
        Chosen(S, how) == {[out |-> o, method |-> how] : o \in S}
        alone    == \A o \in residual \ below : Value[o] > Standard[t.pool]
    IN  IF Cardinality(exact) = 1 THEN Chosen(exact, "exact")
        ELSE IF exact # {} \/ t.pool \notin Legacy THEN {}
        ELSE IF Cardinality(known) = 1 THEN Chosen(known, "reuse")
        ELSE IF Cardinality(below) = 1 /\ alone THEN Chosen(below, "amount")
        ELSE {}

SumValue(S) == MapThenSumSet(LAMBDA o : Value[o], S)

\* {x} if the condition holds, nothing otherwise.
When(condition, x) == {y \in {x} : condition}

\* One transaction of the block.  ok becomes FALSE where the code raises.
StageTx(m, st, t) ==
    LET tracked  == Tracked(m, st, t)
        roll     == IsLiquidityRollover(m, st, t)
        paid     == TrackedFees(m, st, t)
        entering == t.kind = "tx0" /\ t.resolved
        mixing   == t.kind = "round" /\ t.resolved
        fee      == IF entering THEN CoordinatorFee(t, st.scripts) ELSE {}
        premix   == IF entering THEN WithRole(t, "premix") ELSE {}
        mixed    == IF mixing /\ roll THEN t.outs ELSE {}
    IN  [st EXCEPT
          !.ok = @ /\ \A o \in t.ins : st.spent[o] = {} /\ st.cspent[o] = {}
                   /\ (paid # {} => t.resolved),
          !.spent = [o \in Outpoint |->
             IF o \in tracked
             THEN {[by |-> t.txid, how |-> IF roll THEN "round" ELSE "exit"]}
             ELSE @[o]],
          !.exits = [p \in Pools |-> @[p] +
             IF roll THEN 0
             ELSE Denom[p] * Cardinality({o \in tracked : Holder(m, st, o) = {p}})],
          !.cspent = [o \in Outpoint |-> IF o \in paid THEN {t.txid} ELSE @[o]],
          !.spends = @ \cup When(paid # {},
             [txid |-> t.txid, sats |-> SumValue(paid), all |-> paid = t.ins,
              cost |-> IF paid = t.ins THEN t.minerFee ELSE 0]),
          !.added = [o \in Outpoint |->
             CASE o \in premix -> {[pool |-> t.pool, source |-> "tx0"]}
               [] o \in mixed  -> {[pool |-> t.pool, source |-> "round"]}
               [] OTHER        -> @[o]],
          !.entries = [p \in Pools |-> @[p] +
             IF entering /\ p = t.pool THEN Denom[p] * Cardinality(premix) ELSE 0],
          !.tx0s = @ \cup When(entering,
             [txid |-> t.txid, pool |-> t.pool, fee |-> fee]),
          !.cadded = [o \in Outpoint |->
             IF \E f \in fee : f.out = o
             THEN {[pool |-> t.pool, method |-> f.method] : f \in fee} ELSE @[o]],
          !.scripts = @ \cup {Script[f.out] : f \in fee},
          !.rounds = @ \cup When(mixing,
             [txid |-> t.txid, pool |-> t.pool, rollover |-> roll])]

\* The dictionaries after the first n transactions of the block, for each n.
Staging(m, b) ==
    LET st[n \in 0 .. Len(Txs[b])] ==
          IF n = 0 THEN Blank(m) ELSE StageTx(m, st[n - 1], Txs[b][n])
    IN  st

Staged(m, b) == Staging(m, b)[Len(Txs[b])]

-----------------------------------------------------------------------------
(* The pool snapshots of a block, and the checks before anything is written. *)

\* Memory's outputs of pool p that the block spends.
Gone(m, st, p) ==
    {o \in Outpoint : st.spent[o] # {} /\ st.added[o] = {} /\ m.active[o] = {p}}

\* Mutant: an output created and spent in the block still counts.
CameSpent(st, p) == {o \in Outpoint : NewPool(st.added[o]) = {p}}

\* The block's new outputs of pool p that it does not spend itself.
Came(st, p) ==
    {o \in Outpoint : NewPool(st.added[o]) = {p} /\ st.spent[o] = {}}

Snapshot(m, st) ==
    [p \in Pools |->
      [liq    |-> m.liq[p] - Denom[p] * Cardinality(Gone(m, st, p))
                           + Denom[p] * Cardinality(Came(st, p)),
       count  |-> m.count[p] - Cardinality(Gone(m, st, p)) + Cardinality(Came(st, p)),
       entry  |-> st.entries[p],
       exit   |-> st.exits[p],
       tx0s   |-> Cardinality({r \in st.tx0s : r.pool = p}),
       rounds |-> Cardinality({r \in st.rounds : r.pool = p})]]

Reconciles(m, st) ==
    /\ \A o \in Outpoint :
          st.spent[o] # {} => st.added[o] # {} \/ m.active[o] # {}
    /\ \A p \in Pools :
          /\ Snapshot(m, st)[p].liq = m.liq[p] + st.entries[p] - st.exits[p]
          /\ Snapshot(m, st)[p].liq >= 0
          /\ Snapshot(m, st)[p].count >= 0

-----------------------------------------------------------------------------
(* The write transaction, its key constraints, and the update of memory.    *)

KeysFree(d, b, st) ==
    /\ \A c \in d.blocks : Height[c] # Height[b]
    /\ \A q \in d.snaps : q.height # Height[b]
    /\ \A o \in Outpoint : /\ st.added[o] # {} => d.pool[o] = {}
                           /\ st.cadded[o] # {} => d.coord[o] = {}
    /\ \A r \in st.tx0s : \A q \in d.tx0s : q.row.txid # r.txid
    /\ \A r \in st.rounds : \A q \in d.rounds : q.row.txid # r.txid
    /\ \A r \in st.spends : \A q \in d.spends : q.row.txid # r.txid

SpentAt(h, spend) == {[height |-> h, spend |-> s] : s \in spend}

Logged(h, rows) == {[height |-> h, row |-> r] : r \in rows}

MarkSpent(r, h, spend) ==
    [item |-> r.item, created |-> r.created,
     spent |-> IF r.spent = {} THEN SpentAt(h, spend) ELSE r.spent]

\* What becomes of the row of outpoint o: inserted, marked spent, or left.
Written(table, o, h, new, spend) ==
    IF new # {}
    THEN {[item |-> x, created |-> h, spent |-> SpentAt(h, spend)] : x \in new}
    ELSE IF spend # {} THEN {MarkSpent(r, h, spend) : r \in table[o]}
    ELSE table[o]

WriteBlock(d, b, st, snap) ==
    LET h == Height[b]
    IN  [blocks |-> d.blocks \cup {b},
         pool   |-> [o \in Outpoint |->
                       Written(d.pool, o, h, st.added[o], st.spent[o])],
         coord  |-> [o \in Outpoint |->
                       Written(d.coord, o, h, st.cadded[o], st.cspent[o])],
         tx0s   |-> d.tx0s \cup Logged(h, st.tx0s),
         rounds |-> d.rounds \cup Logged(h, st.rounds),
         spends |-> d.spends \cup Logged(h, st.spends),
         snaps  |-> d.snaps \cup Logged(h, {[pool |-> p, at |-> snap[p]] : p \in Pools})]

Absorb(m, st, snap) ==
    [active  |-> [o \in Outpoint |->
                    IF st.spent[o] # {} THEN {}
                    ELSE IF st.added[o] # {} THEN NewPool(st.added[o])
                    ELSE m.active[o]],
     coord   |-> {o \in Outpoint : /\ st.cspent[o] = {}
                                   /\ o \in m.coord \/ st.cadded[o] # {}},
     scripts |-> m.scripts \cup {Script[o] : o \in {x \in Outpoint : st.cadded[x] # {}}},
     liq     |-> [p \in Pools |-> snap[p].liq],
     count   |-> [p \in Pools |-> snap[p].count]]

\* apply_block from memory m returns (rather than raises) on database d.
Accepts(d, m, b) ==
    LET st == Staged(m, b)
    IN  st.ok /\ Reconciles(m, st) /\ KeysFree(d, b, st)

Indexed(d, m, b) ==
    LET st == Staged(m, b) IN WriteBlock(d, b, st, Snapshot(m, st))

Absorbed(m, b) ==
    LET st == Staged(m, b) IN Absorb(m, st, Snapshot(m, st))

\* The database a clean run reaches: memory freshly loaded, then one block.
Replayed(d, b) == Indexed(d, Reload(d), b)

-----------------------------------------------------------------------------
(* rollback_after: spends above h are undone, rows above h are deleted.     *)

Kept(table, o, h) ==
    {[item |-> r.item, created |-> r.created,
      spent |-> {s \in r.spent : s.height <= h}]
       : r \in {q \in table[o] : q.created <= h}}

UpTo(rows, h) == {r \in rows : r.height <= h}

Rollback(d, h) ==
    [blocks |-> {b \in d.blocks : Height[b] <= h},
     pool   |-> [o \in Outpoint |-> Kept(d.pool, o, h)],
     coord  |-> [o \in Outpoint |-> Kept(d.coord, o, h)],
     tx0s   |-> UpTo(d.tx0s, h), rounds |-> UpTo(d.rounds, h),
     spends |-> UpTo(d.spends, h), snaps |-> UpTo(d.snaps, h)]

\* The databases that rolling back to each indexed height would give; what
\* the index stores is exactly this ladder.
Ladder(d) == [h \in (StartHeight - 1) .. LastHeight(d) |-> Rollback(d, h)]

-----------------------------------------------------------------------------
(* What makes a database on disk one that whole blocks can be rolled back   *)
(* from: rows of heights up to the last one, and no height missing.         *)

TableSound(table, n) ==
    /\ table = [o \in Outpoint |-> table[o]]
    /\ \A o \in Outpoint : \A r \in table[o] :
          /\ r = [item |-> r.item, created |-> r.created, spent |-> r.spent]
          /\ r.created \in Int /\ r.created <= n
          /\ \A s \in r.spent : s.height \in Int /\ s.height <= n

RowsSound(rows, n) == \A r \in rows : r.height \in Int /\ r.height <= n

Gapless(d) ==
    \A h \in StartHeight .. LastHeight(d) : \E b \in d.blocks : Height[b] = h

Sound(d) ==
    /\ d = [blocks |-> d.blocks, pool |-> d.pool, coord |-> d.coord,
            tx0s |-> d.tx0s, rounds |-> d.rounds, spends |-> d.spends,
            snaps |-> d.snaps]
    /\ d.blocks \subseteq Block
    /\ IsLast(d, LastHeight(d))
    /\ Gapless(d)
    /\ TableSound(d.pool, LastHeight(d))
    /\ TableSound(d.coord, LastHeight(d))
    /\ RowsSound(d.tx0s, LastHeight(d)) /\ RowsSound(d.rounds, LastHeight(d))
    /\ RowsSound(d.spends, LastHeight(d)) /\ RowsSound(d.snaps, LastHeight(d))
=============================================================================
