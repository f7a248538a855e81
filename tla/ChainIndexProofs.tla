-------------------------- MODULE ChainIndexProofs --------------------------
(***************************************************************************)
(* Theorems about the chain index, for every block tree, pool table and    *)
(* start height.  The inductive invariant is TablesSound /\ MemoryMatches: *)
(* the first makes rollbacks undo whole blocks, the second makes memory a  *)
(* function of the database, so that what a block writes depends on the    *)
(* database alone.                                                         *)
(*                                                                         *)
(* The second half is about BlockTransaction: the write transactions,      *)
(* statement by statement, implement ChainIndex, for every place where a   *)
(* statement fails or the process dies: a call has its whole effect or     *)
(* none.  Its inductive invariant says that what the writer's connection   *)
(* sees is what the statements executed so far make of the committed       *)
(* tables, none of them having met a key.                                  *)
(***************************************************************************)
EXTENDS BlockTransaction, ChainLedgerLemmas

-----------------------------------------------------------------------------
(* Soundness of the tables. *)

\* An index starts sound.
LEMMA TablesSoundInit == Init => TablesSound
BY SoundEmpty DEF Init, TablesSound

\* Every step keeps every database on disk sound.
LEMMA TablesSoundStep == TablesSound /\ [Next]_vars => TablesSound'
<1> SUFFICES ASSUME TablesSound, [Next]_vars PROVE TablesSound'
  OBVIOUS
<1>0. Sound(db) /\ db \in recoverable /\ \A d \in recoverable : Sound(d)
  BY DEF TablesSound
<1>1. CASE Open
  BY <1>0, <1>1 DEF Open, TablesSound
<1>2. ASSUME NEW b \in Block, ApplyBlock(b) PROVE TablesSound'
  <2>1. Connects(db, b)
    BY <1>2 DEF ApplyBlock
  <2>2. Sound(Indexed(db, mem, b))
    BY <1>0, <2>1, IndexedSound
  <2>3. db' = Indexed(db, mem, b) /\ recoverable' = recoverable \cup {db'}
    BY <1>2 DEF ApplyBlock, Commit
  <2> QED
    BY <1>0, <2>2, <2>3 DEF TablesSound
<1>3. ASSUME NEW h \in {StartHeight - 1} \cup Heights, RollbackAfter(h)
      PROVE  TablesSound'
  <2>1. h \in (StartHeight - 1) .. LastHeight(db)
    BY <1>0, <1>3, RollbackHeights DEF RollbackAfter
  <2>2. Sound(Rollback(db, h))
    BY <1>0, <2>1, SoundRollback
  <2>3. db' = Rollback(db, h) /\ recoverable' = recoverable \cup {db'}
    BY <1>3 DEF RollbackAfter, Commit
  <2> QED
    BY <1>0, <2>2, <2>3 DEF TablesSound
<1>4. CASE Close
  BY <1>0, <1>4 DEF Close, TablesSound
<1>5. CASE Checkpoint
  BY <1>0, <1>5 DEF Checkpoint, TablesSound
<1>6. CASE Crash
  BY <1>0, <1>6 DEF Crash, TablesSound
<1>7. CASE PowerLoss
  BY <1>0, <1>7 DEF PowerLoss, TablesSound
<1>8. CASE UNCHANGED vars
  BY <1>0, <1>8 DEF vars, TablesSound
<1> QED
  BY <1>1, <1>2, <1>3, <1>4, <1>5, <1>6, <1>7, <1>8 DEF Next

(* Every database on disk holds whole blocks of a gapless run of heights,   *)
(* whatever was applied, rolled back, crashed or lost (ChainIndex).         *)
THEOREM TablesStaySound == Spec => []TablesSound
BY TablesSoundInit, TablesSoundStep, PTL DEF Spec

-----------------------------------------------------------------------------
(* Memory. *)

\* A closed index has no memory to compare.
LEMMA MemoryMatchesInit == Init => MemoryMatches
BY DEF Init, MemoryMatches

\* Every step keeps memory what the tables would load.
LEMMA MemoryMatchesStep == MemoryMatches /\ [Next]_vars => MemoryMatches'
<1> SUFFICES ASSUME MemoryMatches, [Next]_vars PROVE MemoryMatches'
  OBVIOUS
<1>1. CASE Open
  BY <1>1 DEF Open, MemoryMatches
<1>2. ASSUME NEW b \in Block, ApplyBlock(b) PROVE MemoryMatches'
  <2>1. mem = Reload(db) /\ Accepts(db, mem, b)
    BY <1>2 DEF ApplyBlock, MemoryMatches
  <2>2. Absorbed(mem, b) = Reload(Indexed(db, mem, b))
    BY <2>1, AbsorbedIsReload
  <2>3. db' = Indexed(db, mem, b) /\ mem' = Absorbed(mem, b)
    BY <1>2 DEF ApplyBlock, Commit
  <2> QED
    BY <2>2, <2>3 DEF MemoryMatches
<1>3. ASSUME NEW h \in {StartHeight - 1} \cup Heights, RollbackAfter(h)
      PROVE  MemoryMatches'
  BY <1>3 DEF RollbackAfter, Commit, MemoryMatches
<1>4. CASE Close
  BY <1>4 DEF Close, MemoryMatches
<1>5. CASE Checkpoint
  BY <1>5 DEF Checkpoint, MemoryMatches
<1>6. CASE Crash
  BY <1>6 DEF Crash, MemoryMatches
<1>7. CASE PowerLoss
  BY <1>7 DEF PowerLoss, MemoryMatches
<1>8. CASE UNCHANGED vars
  BY <1>8 DEF vars, MemoryMatches
<1> QED
  BY <1>1, <1>2, <1>3, <1>4, <1>5, <1>6, <1>7, <1>8 DEF Next

(* The memory apply_block stages from is what a restart would load, after   *)
(* any history: updating it in place after each commit is equivalent to     *)
(* reloading it from the tables.                                            *)
THEOREM MemoryStaysReloaded == Spec => []MemoryMatches
BY MemoryMatchesInit, MemoryMatchesStep, PTL DEF Spec

-----------------------------------------------------------------------------
(* The ladder of a database under the steps of the index. *)

Rungs(n) == (StartHeight - 1) .. n

\* The rungs of a sound database, from below the start to its last height.
LEMMA LadderShape ==
    ASSUME NEW d, Sound(d)
    PROVE  /\ DOMAIN Ladder(d) = Rungs(LastHeight(d))
           /\ Ladder(d) = [k \in Rungs(LastHeight(d)) |-> Rollback(d, k)]
           /\ Replay!Top(Ladder(d)) = LastHeight(d)
           /\ Ladder(d)[LastHeight(d)] = d
<1> DEFINE n == LastHeight(d)
<1>1. Ladder(d) = [k \in Rungs(n) |-> Rollback(d, k)]
  BY DEF Ladder, Rungs
<1>2. n \in Rungs(n) /\ \A k \in Rungs(n) : k \in Int /\ k <= n
  BY LastHeightType DEF Rungs
<1>3. \A h \in Rungs(n) : (\A k \in Rungs(n) : k <= h) => h = n
  BY <1>2
<1>4. DOMAIN Ladder(d) = Rungs(n)
  BY <1>1
<1>5. Replay!Top(Ladder(d)) = n
  BY <1>2, <1>3, <1>4 DEF Replay!Top
<1>6. Ladder(d)[n] = d
  BY <1>1, <1>2, RollbackToLast
<1> QED
  BY <1>1, <1>4, <1>5, <1>6

\* The empty database is the ground of the ladder.
LEMMA LadderOfEmpty == Ladder(EmptyDb) = Replay!Ground
<1>1. \A k \in Rungs(StartHeight - 1) : k = StartHeight - 1
  BY HeightAssumption DEF Rungs
<1>2. Rollback(EmptyDb, StartHeight - 1) = EmptyDb
  BY SoundEmpty, RollbackToLast
<1>3. Ladder(EmptyDb) = [k \in Rungs(StartHeight - 1) |-> Rollback(EmptyDb, k)]
  BY SoundEmpty, LadderShape
<1> QED
  BY <1>1, <1>2, <1>3 DEF Replay!Ground, Rungs

\* A block applied adds a rung and leaves the others.
LEMMA LadderIndexed ==
    ASSUME NEW d, Sound(d), NEW m, m = Reload(d), NEW b \in Block,
           Connects(d, b), Accepts(d, m, b)
    PROVE  Ladder(Indexed(d, m, b))
             = [k \in Rungs(Height[b]) |->
                  IF k = Height[b] THEN Replayed(d, b) ELSE Ladder(d)[k]]
<1> DEFINE e == Indexed(d, m, b)
           n == LastHeight(d)
<1>1. Sound(e) /\ LastHeight(e) = Height[b] /\ Height[b] = n + 1
  BY IndexedSound DEF Connects
<1>2. e = Replayed(d, b)
  BY DEF Replayed
<1>3. \A k \in Rungs(n) : Rollback(e, k) = Rollback(d, k)
  <2>1. KeysFree(d, b, Staged(m, b))
    BY DEF Accepts
  <2>2. e = WriteBlock(d, b, Staged(m, b), Snapshot(m, Staged(m, b)))
    BY DEF Indexed
  <2>3. \A k \in Rungs(n) : k \in Int /\ k < Height[b]
    BY <1>1, LastHeightType DEF Rungs
  <2> QED
    BY <2>1, <2>2, <2>3, RollbackWritten
<1>4. Ladder(e) = [k \in Rungs(Height[b]) |-> Rollback(e, k)]
  BY <1>1, LadderShape
<1>5. Ladder(d) = [k \in Rungs(n) |-> Rollback(d, k)]
  BY LadderShape
<1>6. Rollback(e, Height[b]) = e
  BY <1>1, RollbackToLast
<1>7. \A k \in Rungs(Height[b]) : k = Height[b] \/ k \in Rungs(n)
  BY <1>1, LastHeightType DEF Rungs
<1> HIDE DEF e, n
<1> QED
  BY <1>2, <1>3, <1>4, <1>5, <1>6, <1>7 DEF e

\* A rollback removes the rungs above its height.
LEMMA LadderRollback ==
    ASSUME NEW d, Sound(d), NEW h \in Rungs(LastHeight(d))
    PROVE  Ladder(Rollback(d, h)) = [k \in Rungs(h) |-> Ladder(d)[k]]
<1> DEFINE e == Rollback(d, h)
           n == LastHeight(d)
<1>1. Sound(e) /\ LastHeight(e) = h
  BY SoundRollback DEF Rungs
<1>2. Ladder(e) = [k \in Rungs(h) |-> Rollback(e, k)]
  BY <1>1, LadderShape
<1>3. Ladder(d) = [k \in Rungs(n) |-> Rollback(d, k)]
  BY LadderShape
<1>4. \A k \in Rungs(h) : k \in Rungs(n) /\ k \in Int /\ k <= h
  BY LastHeightType DEF Rungs
<1>5. \A k \in Rungs(h) : Rollback(e, k) = Rollback(d, k)
  <2>1. h \in Int
    BY LastHeightType DEF Rungs
  <2> QED
    BY <1>4, <2>1, RollbackRollback
<1> HIDE DEF e, n
<1> QED
  BY <1>2, <1>3, <1>4, <1>5 DEF e

-----------------------------------------------------------------------------
(* Refinement. *)

\* The first state maps to the first state of the ledger of replays.
LEMMA ReplayInit == Init => Replay!Init
BY LadderOfEmpty DEF Init, Replay!Init

\* Every step maps to a step of the ledger of replays or to a stutter.
LEMMA ReplayStep ==
    TablesSound /\ MemoryMatches /\ [Next]_vars => [Replay!Next]_(Replay!vars)
<1> SUFFICES ASSUME TablesSound, MemoryMatches, [Next]_vars
             PROVE  Replay!Next \/ UNCHANGED Replay!vars
  BY DEF Replay!vars
<1> DEFINE saved == {Ladder(d) : d \in recoverable}
<1>0. Sound(db) /\ db \in recoverable /\ \A d \in recoverable : Sound(d)
  BY DEF TablesSound
<1>1. CASE Open \/ Crash \/ UNCHANGED vars
  <2>1. UNCHANGED <<db, recoverable>>
    BY <1>1 DEF Open, Crash, vars
  <2> QED
    BY <2>1 DEF Replay!vars
<1>2. ASSUME NEW b \in Block, ApplyBlock(b) PROVE Replay!Next
  <2>1. /\ mem = Reload(db) /\ Connects(db, b) /\ Accepts(db, mem, b)
        /\ db' = Indexed(db, mem, b) /\ recoverable' = recoverable \cup {db'}
    BY <1>2 DEF ApplyBlock, MemoryMatches, Commit
  <2>2. /\ Replay!Top(Ladder(db)) = LastHeight(db)
        /\ Ladder(db)[LastHeight(db)] = db
    BY <1>0, LadderShape
  <2>3. Height[b] = LastHeight(db) + 1
    BY <2>1 DEF Connects
  <2>4. Ladder(db') = [k \in Rungs(Height[b]) |->
                         IF k = Height[b] THEN Replayed(db, b) ELSE Ladder(db)[k]]
    BY <1>0, <2>1, LadderIndexed
  <2>5. {Ladder(d) : d \in recoverable'} = saved \cup {Ladder(db')}
    BY <2>1
  <2>6. Replay!Extend(b)
    BY <2>1, <2>2, <2>3, <2>4, <2>5 DEF Replay!Extend, Rungs
  <2> QED
    BY <2>6 DEF Replay!Next
<1>3. ASSUME NEW h \in {StartHeight - 1} \cup Heights, RollbackAfter(h)
      PROVE  Replay!Next
  <2>1. h \in Rungs(LastHeight(db)) /\ h < LastHeight(db)
    BY <1>0, <1>3, RollbackHeights DEF RollbackAfter, Rungs
  <2>2. db' = Rollback(db, h) /\ recoverable' = recoverable \cup {db'}
    BY <1>3 DEF RollbackAfter, Commit
  <2>3. /\ DOMAIN Ladder(db) = Rungs(LastHeight(db))
        /\ Replay!Top(Ladder(db)) = LastHeight(db)
    BY <1>0, LadderShape
  <2>4. Ladder(db') = [k \in Rungs(h) |-> Ladder(db)[k]]
    BY <1>0, <2>1, <2>2, LadderRollback
  <2>5. {Ladder(d) : d \in recoverable'} = saved \cup {Ladder(db')}
    BY <2>2
  <2>6. Replay!Truncate(h)
    BY <2>1, <2>3, <2>4, <2>5 DEF Replay!Truncate, Rungs
  <2> QED
    BY <2>1, <2>3, <2>6 DEF Replay!Next
<1>4. CASE Close \/ Checkpoint
  <2>1. recoverable' = {db} /\ UNCHANGED db
    BY <1>4 DEF Close, Checkpoint
  <2>2. Replay!Sync
    BY <2>1 DEF Replay!Sync
  <2> QED
    BY <2>2 DEF Replay!Next
<1>5. CASE PowerLoss
  <2>1. db' \in recoverable /\ recoverable' = {db'}
    BY <1>5 DEF PowerLoss
  <2>2. Replay!Lose
    BY <2>1 DEF Replay!Lose
  <2> QED
    BY <2>2 DEF Replay!Next
<1> QED
  BY <1>1, <1>2, <1>3, <1>4, <1>5 DEF Next

(* The index implements the ledger of replays: applying a block replays it  *)
(* on what the index holds and changes nothing below, rolling back undoes   *)
(* whole blocks and nothing else, and neither a crash nor a loss of power   *)
(* leaves anything but an earlier state of the index (apply_block,          *)
(* rollback_after).                                                         *)
THEOREM IndexImplementsReplay == Spec => ImplementsReplay
<1>1. Init => Replay!Init
  BY ReplayInit
<1>2. TablesSound /\ MemoryMatches /\ [Next]_vars => [Replay!Next]_(Replay!vars)
  BY ReplayStep
<1> QED
  BY <1>1, <1>2, TablesStaySound, MemoryStaysReloaded, PTL
  DEF Spec, ImplementsReplay, Replay!Spec

-----------------------------------------------------------------------------
(* Path independence. *)

\* The empty database replays no block.
LEMMA EmptyIsReplay == Replay!IsReplay(Ladder(EmptyDb))
BY LadderOfEmpty, HeightAssumption DEF Replay!IsReplay, Replay!Ground

\* Applying a block to a replay gives a replay.
LEMMA IndexedIsReplay ==
    ASSUME NEW d, Sound(d), Replay!IsReplay(Ladder(d)), NEW m, m = Reload(d),
           NEW b \in Block, Connects(d, b), Accepts(d, m, b)
    PROVE  Replay!IsReplay(Ladder(Indexed(d, m, b)))
<1> DEFINE l == Ladder(Indexed(d, m, b))
           n == LastHeight(d)
<1>1. l = [k \in Rungs(n + 1) |-> IF k = n + 1 THEN Replayed(d, b) ELSE Ladder(d)[k]]
  BY LadderIndexed DEF Connects
<1>2. /\ n \in Int /\ StartHeight \in Int /\ n >= StartHeight - 1
      /\ Height[b] = n + 1
  BY LastHeightType DEF Connects
<1>3. DOMAIN Ladder(d) = Rungs(n) /\ Ladder(d)[n] = d
  BY LadderShape
<1> HIDE DEF l, n
<1>4. l[StartHeight - 1] = EmptyDb
  <2>1. StartHeight - 1 \in Rungs(n + 1) /\ StartHeight - 1 # n + 1
    BY <1>2 DEF Rungs
  <2> QED
    BY <1>1, <2>1 DEF Replay!IsReplay
<1>5. ASSUME NEW h \in DOMAIN l \ {StartHeight - 1}
      PROVE  \E c \in Block : /\ Height[c] = h
                              /\ Connects(l[h - 1], c)
                              /\ l[h] = Replayed(l[h - 1], c)
  <2>1. h \in Rungs(n + 1) /\ h - 1 \in Rungs(n) /\ h - 1 \in Rungs(n + 1)
        /\ h - 1 # n + 1
    BY <1>1, <1>2 DEF Rungs
  <2>2. l[h - 1] = Ladder(d)[h - 1]
    BY <1>1, <2>1
  <2>3. CASE h = n + 1
    <3>1. l[h] = Replayed(d, b) /\ l[h - 1] = d
      BY <1>1, <1>2, <1>3, <2>1, <2>2, <2>3
    <3> QED
      BY <1>2, <2>3, <3>1
  <2>4. CASE h # n + 1
    <3>1. h \in Rungs(n) /\ l[h] = Ladder(d)[h]
      BY <1>1, <1>2, <2>1, <2>4 DEF Rungs
    <3> QED
      BY <1>3, <2>2, <3>1 DEF Replay!IsReplay
  <2> QED
    BY <2>3, <2>4
<1>6. Replay!IsReplay(l)
  BY <1>4, <1>5 DEF Replay!IsReplay
<1> QED
  BY <1>6 DEF l

\* Rolling a replay back gives a replay.
LEMMA RollbackIsReplay ==
    ASSUME NEW d, Sound(d), Replay!IsReplay(Ladder(d)), NEW h \in Rungs(LastHeight(d))
    PROVE  Replay!IsReplay(Ladder(Rollback(d, h)))
<1> DEFINE l == Ladder(Rollback(d, h))
           n == LastHeight(d)
<1>1. l = [k \in Rungs(h) |-> Ladder(d)[k]]
  BY LadderRollback
<1>2. DOMAIN Ladder(d) = Rungs(n)
  BY LadderShape
<1>3. n \in Int /\ StartHeight \in Int
  BY LastHeightType
<1> HIDE DEF l, n
<1>4. StartHeight - 1 \in Rungs(h) /\ \A k \in Rungs(h) : k \in Rungs(n)
  BY <1>3 DEF Rungs, n
<1>5. \A k \in Rungs(h) \ {StartHeight - 1} : k - 1 \in Rungs(h)
  BY <1>3 DEF Rungs, n
<1>6. Replay!IsReplay(l)
  BY <1>1, <1>2, <1>4, <1>5 DEF Replay!IsReplay
<1> QED
  BY <1>6 DEF l

SavedAreReplays == \A d \in recoverable : Replay!IsReplay(Ladder(d))

\* Every step leaves only replays on disk.
LEMMA SavedAreReplaysStep ==
    TablesSound /\ MemoryMatches /\ SavedAreReplays /\ [Next]_vars => SavedAreReplays'
<1> SUFFICES ASSUME TablesSound, MemoryMatches, SavedAreReplays, [Next]_vars
             PROVE  SavedAreReplays'
  OBVIOUS
<1>0. /\ Sound(db) /\ db \in recoverable
      /\ \A d \in recoverable : Sound(d) /\ Replay!IsReplay(Ladder(d))
  BY DEF TablesSound, SavedAreReplays
<1>1. CASE recoverable' = recoverable
  BY <1>0, <1>1 DEF SavedAreReplays
<1>2. ASSUME NEW b \in Block, ApplyBlock(b) PROVE SavedAreReplays'
  <2>1. /\ mem = Reload(db) /\ Connects(db, b) /\ Accepts(db, mem, b)
        /\ recoverable' = recoverable \cup {Indexed(db, mem, b)}
    BY <1>2 DEF ApplyBlock, MemoryMatches, Commit
  <2>2. Replay!IsReplay(Ladder(Indexed(db, mem, b)))
    BY <1>0, <2>1, IndexedIsReplay
  <2> QED
    BY <1>0, <2>1, <2>2 DEF SavedAreReplays
<1>3. ASSUME NEW h \in {StartHeight - 1} \cup Heights, RollbackAfter(h)
      PROVE  SavedAreReplays'
  <2>1. h \in Rungs(LastHeight(db))
    BY <1>0, <1>3, RollbackHeights DEF RollbackAfter, Rungs
  <2>2. recoverable' = recoverable \cup {Rollback(db, h)}
    BY <1>3 DEF RollbackAfter, Commit
  <2>3. Replay!IsReplay(Ladder(Rollback(db, h)))
    BY <1>0, <2>1, RollbackIsReplay
  <2> QED
    BY <1>0, <2>2, <2>3 DEF SavedAreReplays
<1>4. CASE \E d \in recoverable : recoverable' = {d}
  BY <1>0, <1>4 DEF SavedAreReplays
<1>5. Close \/ Checkpoint \/ PowerLoss => \E d \in recoverable : recoverable' = {d}
  BY <1>0 DEF Close, Checkpoint, PowerLoss
<1>6. Open \/ Crash \/ UNCHANGED vars => recoverable' = recoverable
  BY DEF Open, Crash, vars
<1> QED
  BY <1>1, <1>2, <1>3, <1>4, <1>5, <1>6 DEF Next

(* The committed database, and every database a loss of power may reveal,   *)
(* is at each of its heights the replay of one block on the height below,   *)
(* down to the empty database: what the index stores is a function of the   *)
(* blocks it holds, not of the applies, rollbacks and restarts it took.     *)
THEOREM DatabaseStaysReplay == Spec => []DatabaseIsReplay
<1>1. Init => SavedAreReplays
  BY EmptyIsReplay DEF Init, SavedAreReplays
<1>2. TablesSound /\ SavedAreReplays => DatabaseIsReplay
  BY DEF TablesSound, SavedAreReplays, DatabaseIsReplay, Replay!AlwaysReplay
<1> QED
  BY <1>1, <1>2, SavedAreReplaysStep, TablesStaySound, MemoryStaysReloaded, PTL
  DEF Spec

-----------------------------------------------------------------------------
(* The accounts of the pool history and of the fees. *)

\* Each output has one row, spent once at most and never below the block that
\* created it: what the primary keys of pool_utxos and coordinator_utxos give.
OneEach(table) ==
    \A o \in Outpoint :
        /\ \A q, r \in table[o] : q = r
        /\ \A r \in table[o] : /\ \A s, u \in r.spent : s = u
                               /\ \A s \in r.spent : r.created <= s.height

\* A spend as the row it is marked on stores it.
LEMMA SpentAtIs ==
    ASSUME NEW h, NEW spend
    PROVE  /\ \A s \in SpentAt(h, spend) : s.height = h /\ s.spend \in spend
           /\ \A x \in spend : \E s \in SpentAt(h, spend) : s.height = h /\ s.spend = x
<1>1. \A s \in SpentAt(h, spend) : s.height = h /\ s.spend \in spend
  BY DEF SpentAt
<1>2. ASSUME NEW x \in spend PROVE \E s \in SpentAt(h, spend) : s.height = h /\ s.spend = x
  <2>1. [height |-> h, spend |-> x] \in SpentAt(h, spend)
    BY DEF SpentAt
  <2> QED
    BY <2>1
<1> QED
  BY <1>1, <1>2

\* The rows of an output after a block: inserted, or each marked.
LEMMA WrittenIs ==
    ASSUME NEW table, NEW n \in Int, TableSound(table, n), NEW o \in Outpoint,
           NEW h, NEW new, NEW spend
    PROVE  /\ new # {} => Written(table, o, h, new, spend)
                = {[item |-> x, created |-> h, spent |-> SpentAt(h, spend)] : x \in new}
           /\ new = {} => Written(table, o, h, new, spend)
                = {MarkSpent(r, h, spend) : r \in table[o]}
<1>1. CASE new # {}
  BY <1>1 DEF Written
<1>2. CASE new = {} /\ spend # {}
  BY <1>2 DEF Written
<1>3. CASE new = {} /\ spend = {}
  <2>1. SpentAt(h, spend) = {}
    BY <1>3 DEF SpentAt
  <2>2. \A r \in table[o] : MarkSpent(r, h, spend) = r
    BY <2>1 DEF MarkSpent, TableSound
  <2>3. Written(table, o, h, new, spend) = table[o]
    BY <1>3 DEF Written
  <2> QED
    BY <1>3, <2>2, <2>3
<1> QED
  BY <1>1, <1>2, <1>3

\* Writing what was staged once keeps one row and one spend of each output.
LEMMA OneEachWritten ==
    ASSUME NEW table, NEW n \in Int, TableSound(table, n), OneEach(table),
           NEW new, NEW spend,
           \A o \in Outpoint : /\ \A x, y \in new[o] : x = y
                               /\ \A x, y \in spend[o] : x = y,
           NEW after,
           after = [x \in Outpoint |-> Written(table, x, n + 1, new[x], spend[x])]
    PROVE  OneEach(after)
<1> SUFFICES ASSUME NEW o \in Outpoint
             PROVE  /\ \A q, r \in after[o] : q = r
                    /\ \A r \in after[o] : /\ \A s, u \in r.spent : s = u
                                           /\ \A s \in r.spent : r.created <= s.height
  BY DEF OneEach
<1> DEFINE h == n + 1
           S == SpentAt(h, spend[o])
<1>1. /\ \A s, u \in S : s = u
      /\ \A s \in S : s.height = h
  BY DEF SpentAt
<1> HIDE DEF S
<1>2. CASE new[o] # {}
  <2>1. after[o] = {[item |-> x, created |-> h, spent |-> S] : x \in new[o]}
    BY <1>2, WrittenIs DEF S
  <2> QED
    BY <1>1, <2>1
<1>3. CASE new[o] = {}
  <2>1. after[o] = {MarkSpent(r, h, spend[o]) : r \in table[o]}
    BY <1>3, WrittenIs
  <2>2. \A r \in table[o] :
          /\ MarkSpent(r, h, spend[o]).created = r.created
          /\ MarkSpent(r, h, spend[o]).spent = IF r.spent = {} THEN S ELSE r.spent
    BY DEF MarkSpent, S
  <2>3. \A q, r \in after[o] : q = r
    BY <2>1 DEF OneEach
  <2>4. ASSUME NEW q \in after[o]
        PROVE  /\ \A s, u \in q.spent : s = u
               /\ \A s \in q.spent : q.created <= s.height
    <3>1. PICK r \in table[o] : q = MarkSpent(r, h, spend[o])
      BY <2>1
    <3>2. /\ \A s, u \in r.spent : s = u
          /\ \A s \in r.spent : r.created <= s.height
          /\ r.created \in Int /\ r.created <= n
      BY DEF OneEach, TableSound
    <3>3. q.created = r.created /\ q.spent = IF r.spent = {} THEN S ELSE r.spent
      BY <2>2, <3>1
    <3> QED
      BY <1>1, <3>2, <3>3
  <2> QED
    BY <2>3, <2>4
<1> QED
  BY <1>2, <1>3

\* So does cutting the table at a height.
LEMMA OneEachKept ==
    ASSUME NEW table, OneEach(table), NEW h, NEW cut,
           cut = [o \in Outpoint |-> Kept(table, o, h)]
    PROVE  OneEach(cut)
<1> SUFFICES ASSUME NEW o \in Outpoint
             PROVE  /\ \A q, r \in cut[o] : q = r
                    /\ \A r \in cut[o] : /\ \A s, u \in r.spent : s = u
                                         /\ \A s \in r.spent : r.created <= s.height
  BY DEF OneEach
<1> DEFINE Cut(r) == [item |-> r.item, created |-> r.created,
                      spent |-> {s \in r.spent : s.height <= h}]
<1>1. \A q \in cut[o] : \E r \in table[o] : q = Cut(r)
  BY DEF Kept
<1>2. \A r : Cut(r).created = r.created /\ Cut(r).spent \subseteq r.spent
  OBVIOUS
<1> HIDE DEF Cut
<1> QED
  BY <1>1, <1>2 DEF OneEach

(* What the rows say of a height is what rolling back to it would leave.    *)
LEMMA RowsOfHeight ==
    ASSUME NEW d, Sound(d), OneEach(d.pool), NEW k \in Int, NEW p,
           NEW e, e = Rollback(d, k)
    PROVE  /\ HeldAt(d, p, k) = HeldAt(e, p, k)
           /\ EnteredAt(d, p, k) = EnteredAt(e, p, k)
           /\ LeftAt(d, p, k) = LeftAt(e, p, k)
<1> DEFINE Cut(r) == [item |-> r.item, created |-> r.created,
                      spent |-> {s \in r.spent : s.height <= k}]
<1>1. ASSUME NEW o \in Outpoint
      PROVE  /\ \A q \in e.pool[o] : \E r \in d.pool[o] : r.created <= k /\ q = Cut(r)
             /\ \A r \in d.pool[o] : r.created <= k => Cut(r) \in e.pool[o]
  BY DEF Rollback, Kept
<1>2. \A r : /\ Cut(r).item = r.item /\ Cut(r).created = r.created
             /\ Cut(r).spent = {s \in r.spent : s.height <= k}
  OBVIOUS
<1>3. \A o \in Outpoint : \A r \in d.pool[o] :
        /\ r.created \in Int
        /\ \A s \in r.spent : s.height \in Int /\ r.created <= s.height
  BY DEF Sound, TableSound, OneEach
<1> HIDE DEF Cut
<1>4. HeldAt(d, p, k) = HeldAt(e, p, k)
  <2>1. ASSUME NEW o \in HeldAt(d, p, k) PROVE o \in HeldAt(e, p, k)
    <3>1. o \in Outpoint /\ \E r \in d.pool[o] :
             r.item.pool = p /\ r.created <= k /\ \A s \in r.spent : s.height > k
      BY <2>1 DEF HeldAt, PoolRows
    <3>2. PICK r \in d.pool[o] :
             r.item.pool = p /\ r.created <= k /\ \A s \in r.spent : s.height > k
      BY <3>1
    <3>3. Cut(r) \in e.pool[o] /\ Cut(r).spent = {}
      BY <1>1, <1>2, <1>3, <3>1, <3>2
    <3> QED
      BY <1>2, <3>1, <3>2, <3>3 DEF HeldAt, PoolRows
  <2>2. ASSUME NEW o \in HeldAt(e, p, k) PROVE o \in HeldAt(d, p, k)
    <3>1. o \in Outpoint /\ \E r \in e.pool[o] :
             r.item.pool = p /\ r.created <= k /\ \A s \in r.spent : s.height > k
      BY <2>2 DEF HeldAt, PoolRows
    <3>2. PICK q \in e.pool[o] :
             q.item.pool = p /\ q.created <= k /\ \A s \in q.spent : s.height > k
      BY <3>1
    <3>3. PICK r \in d.pool[o] : r.created <= k /\ q = Cut(r)
      BY <1>1, <3>1
    <3>4. r.item.pool = p /\ \A s \in r.spent : s.height > k
      BY <1>2, <1>3, <3>1, <3>2, <3>3
    <3> QED
      BY <3>1, <3>3, <3>4 DEF HeldAt, PoolRows
  <2> QED
    BY <2>1, <2>2
<1>5. EnteredAt(d, p, k) = EnteredAt(e, p, k)
  <2>1. \A o \in Outpoint :
          (\E r \in d.pool[o] : r.item.pool = p /\ r.created = k /\ r.item.source = "tx0")
          <=> \E r \in e.pool[o] : r.item.pool = p /\ r.created = k /\ r.item.source = "tx0"
    BY <1>1, <1>2
  <2> QED
    BY <2>1 DEF EnteredAt, PoolRows
<1>6. LeftAt(d, p, k) = LeftAt(e, p, k)
  <2> DEFINE Left(r) == r.item.pool = p
                        /\ \E s \in r.spent : s.height = k /\ s.spend.how = "exit"
  <2>1. ASSUME NEW o \in Outpoint, NEW r \in d.pool[o], Left(r)
        PROVE  \E q \in e.pool[o] : Left(q)
    <3>1. PICK s \in r.spent : s.height = k /\ s.spend.how = "exit"
      BY <2>1
    <3>2. r.created <= k /\ s \in Cut(r).spent
      BY <1>2, <1>3, <3>1
    <3> QED
      BY <1>1, <1>2, <2>1, <3>1, <3>2
  <2>2. ASSUME NEW o \in Outpoint, NEW q \in e.pool[o], Left(q)
        PROVE  \E r \in d.pool[o] : Left(r)
    BY <1>1, <1>2, <2>2
  <2>3. \A o \in Outpoint : (\E r \in d.pool[o] : Left(r)) <=> \E q \in e.pool[o] : Left(q)
    <3> HIDE DEF Left
    <3> QED
      BY <2>1, <2>2
  <2> QED
    BY <2>3 DEF LeftAt, PoolRows
<1> QED
  BY <1>4, <1>5, <1>6

(* At the last height, what the rows hold is what memory would load.        *)
LEMMA HeldIsHolding ==
    ASSUME NEW d, Sound(d), OneEach(d.pool), NEW p \in Pools
    PROVE  HeldAt(d, p, LastHeight(d)) = Holding(Reload(d).active, p)
<1> DEFINE n == LastHeight(d)
<1>1. \A o \in Outpoint : \A r \in d.pool[o] :
        /\ r.created <= n
        /\ (\A s \in r.spent : s.height > n) <=> r.spent = {}
  <2>1. \A o \in Outpoint : \A r \in d.pool[o] :
          r.created <= n /\ \A s \in r.spent : s.height \in Int /\ s.height <= n
    BY DEF Sound, TableSound
  <2>2. n \in Int
    BY LastHeightType
  <2> HIDE DEF n
  <2> QED
    BY <2>1, <2>2
<1>2. HeldAt(d, p, n) = {o \in Outpoint : \E r \in Unspent(d.pool, o) : r.item.pool = p}
  <2> HIDE DEF n
  <2> QED
    BY <1>1 DEF HeldAt, PoolRows, Unspent
<1>3. \A o \in Outpoint : \A q, r \in Unspent(d.pool, o) : q = r
  BY DEF OneEach, Unspent
<1>4. ASSUME NEW o \in Outpoint
      PROVE  (\E r \in Unspent(d.pool, o) : r.item.pool = p) <=> LivePool(d.pool, o) = {p}
  BY <1>3 DEF LivePool
<1>5. Holding(Reload(d).active, p) = {o \in Outpoint : LivePool(d.pool, o) = {p}}
  <2>1. \A o \in Outpoint : Reload(d).active[o] = LivePool(d.pool, o)
    BY DEF Reload
  <2> QED
    BY <2>1 DEF Holding
<1> QED
  BY <1>2, <1>4, <1>5

\* The row of an output after a block is written.
LEMMA PoolRowsWritten ==
    ASSUME NEW d, Sound(d), NEW b \in Block, Height[b] = LastHeight(d) + 1,
           NEW st, NEW snap, NEW e, e = WriteBlock(d, b, st, snap), NEW o \in Outpoint
    PROVE  /\ st.added[o] # {} =>
                e.pool[o] = {[item |-> x, created |-> Height[b],
                              spent |-> SpentAt(Height[b], st.spent[o])] : x \in st.added[o]}
           /\ st.added[o] = {} =>
                e.pool[o] = {MarkSpent(r, Height[b], st.spent[o]) : r \in d.pool[o]}
<1>1. e.pool[o] = Written(d.pool, o, Height[b], st.added[o], st.spent[o])
  BY DEF WriteBlock
<1>2. LastHeight(d) \in Int /\ TableSound(d.pool, LastHeight(d))
  BY LastHeightType DEF Sound
<1> QED
  BY <1>1, <1>2, WrittenIs

\* The same of a fee output.
LEMMA FeeRowsWritten ==
    ASSUME NEW d, Sound(d), NEW b \in Block, Height[b] = LastHeight(d) + 1,
           NEW st, NEW snap, NEW e, e = WriteBlock(d, b, st, snap), NEW o \in Outpoint
    PROVE  /\ st.cadded[o] # {} =>
                e.coord[o] = {[item |-> x, created |-> Height[b],
                              spent |-> SpentAt(Height[b], st.cspent[o])] : x \in st.cadded[o]}
           /\ st.cadded[o] = {} =>
                e.coord[o] = {MarkSpent(r, Height[b], st.cspent[o]) : r \in d.coord[o]}
<1>1. e.coord[o] = Written(d.coord, o, Height[b], st.cadded[o], st.cspent[o])
  BY DEF WriteBlock
<1>2. LastHeight(d) \in Int /\ TableSound(d.coord, LastHeight(d))
  BY LastHeightType DEF Sound
<1> QED
  BY <1>1, <1>2, WrittenIs

(* The rows a block writes say what it staged: what entered the pool, and   *)
(* what left it.                                                            *)
LEMMA EnteredIsStaged ==
    ASSUME NEW d, Sound(d), NEW b \in Block, Height[b] = LastHeight(d) + 1,
           NEW st, NEW snap, NEW e, e = WriteBlock(d, b, st, snap), NEW p
    PROVE  EnteredAt(e, p, Height[b]) = Entered(st, p)
<1> DEFINE h == Height[b]
<1>1. \A o \in Outpoint : \A r \in d.pool[o] : r.created # h
  <2>1. \A o \in Outpoint : \A r \in d.pool[o] : r.created <= LastHeight(d)
    BY DEF Sound, TableSound
  <2>2. LastHeight(d) \in Int
    BY LastHeightType
  <2> QED
    BY <2>1, <2>2
<1>2. \A r, s : MarkSpent(r, h, s).created = r.created /\ MarkSpent(r, h, s).item = r.item
  BY DEF MarkSpent
<1>3. \A o \in Outpoint :
        /\ st.added[o] # {} =>
             e.pool[o] = {[item |-> x, created |-> h,
                           spent |-> SpentAt(h, st.spent[o])] : x \in st.added[o]}
        /\ st.added[o] = {} =>
             e.pool[o] = {MarkSpent(r, h, st.spent[o]) : r \in d.pool[o]}
  BY PoolRowsWritten
<1> HIDE DEF h
<1>4. ASSUME NEW o \in Outpoint
      PROVE  (\E r \in e.pool[o] : r.item.pool = p /\ r.created = h /\ r.item.source = "tx0")
             <=> \E x \in st.added[o] : x.pool = p /\ x.source = "tx0"
  <2>1. CASE st.added[o] # {}
    <3> DEFINE New(x) == [item |-> x, created |-> h, spent |-> SpentAt(h, st.spent[o])]
    <3>1. e.pool[o] = {New(x) : x \in st.added[o]}
      BY <1>3, <2>1
    <3>2. \A x : New(x).item = x /\ New(x).created = h
      OBVIOUS
    <3>3. \A x \in st.added[o] : New(x) \in e.pool[o]
      BY <3>1
    <3>4. \A r \in e.pool[o] : \E x \in st.added[o] : r = New(x)
      BY <3>1
    <3> HIDE DEF New
    <3> QED
      BY <3>2, <3>3, <3>4
  <2>2. CASE st.added[o] = {}
    BY <1>1, <1>2, <1>3, <2>2
  <2> QED
    BY <2>1, <2>2
<1> QED
  BY <1>4 DEF EnteredAt, PoolRows, Entered, h

\* The same of what left the pool: an input held by it, spent by no round.
LEMMA LeftIsStaged ==
    ASSUME NEW d, Sound(d), OneEach(d.pool), NEW b \in Block, Height[b] = LastHeight(d) + 1,
           NEW m, m = Reload(d), NEW st, \A o \in Outpoint : \A x, y \in st.added[o] : x = y,
           NEW snap, NEW e, e = WriteBlock(d, b, st, snap), NEW p \in Pools
    PROVE  LeftAt(e, p, Height[b]) = Exited(m, st, p)
<1> DEFINE h == Height[b]
           Left(r) == r.item.pool = p /\ \E s \in r.spent : s.height = h /\ s.spend.how = "exit"
<1>1. \A o \in Outpoint : \A r \in d.pool[o] : \A s \in r.spent : s.height # h
  <2>1. \A o \in Outpoint : \A r \in d.pool[o] : \A s \in r.spent : s.height <= LastHeight(d)
    BY DEF Sound, TableSound
  <2>2. LastHeight(d) \in Int
    BY LastHeightType
  <2> QED
    BY <2>1, <2>2
<1>2. \A r, s : /\ MarkSpent(r, h, s).item = r.item
                /\ MarkSpent(r, h, s).spent = IF r.spent = {} THEN SpentAt(h, s) ELSE r.spent
  BY DEF MarkSpent
<1>3. \A o \in Outpoint :
        /\ st.added[o] # {} =>
             e.pool[o] = {[item |-> x, created |-> h,
                           spent |-> SpentAt(h, st.spent[o])] : x \in st.added[o]}
        /\ st.added[o] = {} =>
             e.pool[o] = {MarkSpent(r, h, st.spent[o]) : r \in d.pool[o]}
  BY PoolRowsWritten
<1>4. \A z : (\E s \in SpentAt(h, z) : s.height = h /\ s.spend.how = "exit")
             <=> \E x \in z : x.how = "exit"
  BY SpentAtIs
<1>5. \A o \in Outpoint : m.active[o] = LivePool(d.pool, o)
  BY DEF Reload
<1> HIDE DEF h
<1>6. ASSUME NEW o \in Outpoint
      PROVE  (\E r \in e.pool[o] : Left(r))
             <=> Holder(m, st, o) = {p} /\ \E s \in st.spent[o] : s.how = "exit"
  <2>1. CASE st.added[o] # {}
    <3>1. PICK x \in st.added[o] : st.added[o] = {x}
      BY <2>1
    <3>2. Holder(m, st, o) = {p} <=> x.pool = p
      BY <3>1 DEF Holder, NewPool
    <3>3. e.pool[o] = {[item |-> x, created |-> h, spent |-> SpentAt(h, st.spent[o])]}
      BY <1>3, <3>1
    <3> QED
      BY <1>4, <3>2, <3>3
  <2>2. CASE st.added[o] = {}
    <3>1. Holder(m, st, o) = LivePool(d.pool, o)
      BY <1>5, <2>2 DEF Holder
    <3>2. LivePool(d.pool, o) = {p}
            <=> \E r \in d.pool[o] : r.spent = {} /\ r.item.pool = p
      BY DEF LivePool, Unspent, OneEach
    <3>3. e.pool[o] = {MarkSpent(r, h, st.spent[o]) : r \in d.pool[o]}
      BY <1>3, <2>2
    <3>4. \A r \in d.pool[o] :
            Left(MarkSpent(r, h, st.spent[o]))
            <=> r.item.pool = p /\ r.spent = {} /\ \E s \in st.spent[o] : s.how = "exit"
      BY <1>1, <1>2, <1>4
    <3> HIDE DEF Left
    <3> QED
      BY <3>1, <3>2, <3>3, <3>4
  <2> QED
    BY <2>1, <2>2
<1> QED
  BY <1>6 DEF LeftAt, PoolRows, Exited, h

\* A snapshot row says what the output rows say of its height.
RowAgrees(d, s) ==
    LET p == s.row.pool
        h == s.height
    IN  /\ s.row.at.count = Cardinality(HeldAt(d, p, h))
        /\ s.row.at.liq   = Denom[p] * Cardinality(HeldAt(d, p, h))
        /\ s.row.at.entry = Denom[p] * Cardinality(EnteredAt(d, p, h))
        /\ s.row.at.exit  = Denom[p] * Cardinality(LeftAt(d, p, h))

\* A snapshot that is true of a database is true of any other that rolls back
\* to the same rows at its height.
LEMMA RowAgreesBelow ==
    ASSUME NEW d, Sound(d), OneEach(d.pool), NEW e, Sound(e), OneEach(e.pool),
           NEW s, s.height \in Int, Rollback(d, s.height) = Rollback(e, s.height)
    PROVE  RowAgrees(d, s) => RowAgrees(e, s)
<1> DEFINE k == s.height
           p == s.row.pool
           r == Rollback(d, k)
<1>1. /\ HeldAt(d, p, k) = HeldAt(r, p, k)
      /\ EnteredAt(d, p, k) = EnteredAt(r, p, k)
      /\ LeftAt(d, p, k) = LeftAt(r, p, k)
  BY RowsOfHeight
<1>2. /\ HeldAt(e, p, k) = HeldAt(r, p, k)
      /\ EnteredAt(e, p, k) = EnteredAt(r, p, k)
      /\ LeftAt(e, p, k) = LeftAt(r, p, k)
  <2>1. r = Rollback(e, k)
    OBVIOUS
  <2> HIDE DEF r, p
  <2> QED
    BY <2>1, RowsOfHeight
<1> HIDE DEF r
<1>3. /\ HeldAt(d, p, k) = HeldAt(e, p, k)
      /\ EnteredAt(d, p, k) = EnteredAt(e, p, k)
      /\ LeftAt(d, p, k) = LeftAt(e, p, k)
  BY <1>1, <1>2
<1> QED
  BY <1>3 DEF RowAgrees

(* Rolling back keeps the snapshots of the heights it keeps true.           *)
LEMMA SnapshotsRollback ==
    ASSUME NEW d, Sound(d), OneEach(d.pool), SnapshotsAgree(d),
           NEW h \in (StartHeight - 1) .. LastHeight(d),
           NEW e, e = Rollback(d, h)
    PROVE  SnapshotsAgree(e)
<1>1. Sound(e) /\ OneEach(e.pool)
  <2>1. e.pool = [o \in Outpoint |-> Kept(d.pool, o, h)]
    BY DEF Rollback
  <2> QED
    BY <2>1, SoundRollback, OneEachKept DEF Sound
<1>2. /\ e.blocks = {c \in d.blocks : Height[c] <= h}
      /\ e.snaps = {s \in d.snaps : s.height <= h}
  BY DEF Rollback, UpTo
<1>3. h \in Int /\ \A s \in d.snaps : s.height \in Int
  BY LastHeightType DEF Sound, RowsSound
<1>4. ASSUME NEW b \in e.blocks, NEW p \in Pools
      PROVE  \E s \in e.snaps : s.height = Height[b] /\ s.row.pool = p
  BY <1>2 DEF SnapshotsAgree
<1>5. ASSUME NEW s \in e.snaps
      PROVE  (\E b \in e.blocks : Height[b] = s.height) /\ RowAgrees(e, s)
  <2>1. s \in d.snaps /\ s.height <= h
    BY <1>2
  <2>2. PICK b \in d.blocks : Height[b] = s.height
    BY <2>1 DEF SnapshotsAgree
  <2>3. RowAgrees(d, s)
    BY <2>1 DEF SnapshotsAgree, RowAgrees
  <2>4. Rollback(d, s.height) = Rollback(e, s.height)
    BY <1>3, <2>1, RollbackRollback
  <2>5. RowAgrees(e, s)
    BY <1>1, <1>3, <2>1, <2>3, <2>4, RowAgreesBelow
  <2> QED
    BY <1>2, <2>1, <2>2, <2>5
<1> QED
  BY <1>4, <1>5 DEF SnapshotsAgree, RowAgrees

\* What a block that is accepted stages, and what its write keeps.
LEMMA IndexedFacts ==
    ASSUME NEW d, Sound(d), OneEach(d.pool), OneEach(d.coord), NEW m,
           NEW b \in Block, Connects(d, b), Accepts(d, m, b),
           NEW st, st = Staged(m, b), NEW e, e = Indexed(d, m, b)
    PROVE  /\ PoolStaged(m, b, Len(Txs[b]), st) /\ FeesStaged(m, b, Len(Txs[b]), st)
           /\ KeysFree(d, b, st) /\ Height[b] = LastHeight(d) + 1
           /\ e = WriteBlock(d, b, st, Snapshot(m, st))
           /\ Sound(e) /\ LastHeight(e) = Height[b]
           /\ OneEach(e.pool) /\ OneEach(e.coord)
<1>1. st.ok /\ KeysFree(d, b, st) /\ Height[b] = LastHeight(d) + 1
  BY DEF Accepts, Connects
<1>2. PoolStaged(m, b, Len(Txs[b]), st) /\ FeesStaged(m, b, Len(Txs[b]), st)
  BY <1>1, StagedFacts
<1>3. e = WriteBlock(d, b, st, Snapshot(m, st))
  BY DEF Indexed
<1>4. Sound(e) /\ LastHeight(e) = Height[b]
  BY IndexedSound
<1>5. /\ LastHeight(d) \in Int
      /\ TableSound(d.pool, LastHeight(d)) /\ TableSound(d.coord, LastHeight(d))
  BY LastHeightType DEF Sound
<1>6. OneEach(e.pool)
  <2>1. e.pool = [x \in Outpoint |->
                    Written(d.pool, x, LastHeight(d) + 1, st.added[x], st.spent[x])]
    BY <1>1, <1>3 DEF WriteBlock
  <2>2. \A o \in Outpoint : /\ \A x, y \in st.added[o] : x = y
                            /\ \A x, y \in st.spent[o] : x = y
    BY <1>2 DEF PoolStaged
  <2> DEFINE new == st.added
             spend == st.spent
  <2>3. /\ \A o \in Outpoint : /\ \A x, y \in new[o] : x = y
                               /\ \A x, y \in spend[o] : x = y
        /\ e.pool = [x \in Outpoint |->
                       Written(d.pool, x, LastHeight(d) + 1, new[x], spend[x])]
    BY <2>1, <2>2
  <2> HIDE DEF new, spend
  <2> QED
    BY <1>5, <2>3, OneEachWritten
<1>7. OneEach(e.coord)
  <2>1. e.coord = [x \in Outpoint |->
                     Written(d.coord, x, LastHeight(d) + 1, st.cadded[x], st.cspent[x])]
    BY <1>1, <1>3 DEF WriteBlock
  <2>2. \A o \in Outpoint : /\ \A x, y \in st.cadded[o] : x = y
                            /\ \A x, y \in st.cspent[o] : x = y
    BY <1>2 DEF FeesStaged
  <2> DEFINE new == st.cadded
             spend == st.cspent
  <2>3. /\ \A o \in Outpoint : /\ \A x, y \in new[o] : x = y
                               /\ \A x, y \in spend[o] : x = y
        /\ e.coord = [x \in Outpoint |->
                        Written(d.coord, x, LastHeight(d) + 1, new[x], spend[x])]
    BY <2>1, <2>2
  <2> HIDE DEF new, spend
  <2> QED
    BY <1>5, <2>3, OneEachWritten
<1> QED
  BY <1>1, <1>2, <1>3, <1>4, <1>6, <1>7

(* A block's snapshots say what its rows say, and the earlier ones still do.*)
LEMMA SnapshotsIndexed ==
    ASSUME NEW d, Sound(d), OneEach(d.pool), OneEach(d.coord), SnapshotsAgree(d),
           NEW m, m = Reload(d), NEW b \in Block, Connects(d, b), Accepts(d, m, b),
           NEW e, e = Indexed(d, m, b)
    PROVE  SnapshotsAgree(e)
<1> DEFINE st == Staged(m, b)
           snap == Snapshot(m, st)
           h == Height[b]
<1>1. /\ PoolStaged(m, b, Len(Txs[b]), st)
      /\ KeysFree(d, b, st) /\ h = LastHeight(d) + 1
      /\ e = WriteBlock(d, b, st, snap)
      /\ Sound(e) /\ LastHeight(e) = h /\ OneEach(e.pool)
  BY IndexedFacts
<1>2. Absorb(m, st, snap) = Reload(e)
  BY <1>1, AbsorbIsReload
<1>3. /\ e.blocks = d.blocks \cup {b}
      /\ e.snaps = d.snaps \cup Logged(h, {[pool |-> p, at |-> snap[p]] : p \in Pools})
  BY <1>1 DEF WriteBlock
<1>4. LastHeight(d) \in Int /\ \A s \in d.snaps : s.height \in Int /\ s.height <= LastHeight(d)
  BY LastHeightType DEF Sound, RowsSound
<1> HIDE DEF st
<1>5. ASSUME NEW s \in d.snaps PROVE RowAgrees(e, s)
  <2>1. RowAgrees(d, s)
    BY DEF SnapshotsAgree, RowAgrees
  <2>2. Rollback(d, s.height) = Rollback(e, s.height)
    BY <1>1, <1>4, RollbackWritten
  <2> QED
    BY <1>1, <1>4, <2>1, <2>2, RowAgreesBelow
<1>6. ASSUME NEW p \in Pools
      PROVE  /\ snap[p].count = Cardinality(HeldAt(e, p, h))
             /\ snap[p].liq = Denom[p] * Cardinality(HeldAt(e, p, h))
             /\ snap[p].entry = Denom[p] * Cardinality(EnteredAt(e, p, h))
             /\ snap[p].exit = Denom[p] * Cardinality(LeftAt(e, p, h))
  <2>1. HeldAt(e, p, h) = Holding(Reload(e).active, p)
    BY <1>1, HeldIsHolding
  <2>2. /\ Absorb(m, st, snap).count[p] = snap[p].count
        /\ Absorb(m, st, snap).liq[p] = snap[p].liq
    BY DEF Absorb
  <2>3. /\ Reload(e).count[p] = Cardinality(Holding(Reload(e).active, p))
        /\ Reload(e).liq[p] = Denom[p] * Cardinality(Holding(Reload(e).active, p))
    BY DEF Reload
  <2>4. EnteredAt(e, p, h) = Entered(st, p)
    BY <1>1, EnteredIsStaged
  <2>5. LeftAt(e, p, h) = Exited(m, st, p)
    <3>1. \A o \in Outpoint : \A x, y \in st.added[o] : x = y
      BY <1>1 DEF PoolStaged
    <3>2. /\ Sound(d) /\ OneEach(d.pool) /\ Height[b] = LastHeight(d) + 1
          /\ m = Reload(d) /\ e = WriteBlock(d, b, st, snap)
      BY <1>1
    <3>3. LeftAt(e, p, Height[b]) = Exited(m, st, p)
      <4> HIDE DEF snap, h
      <4> QED
        BY <3>1, <3>2, LeftIsStaged
    <3> QED
      BY <3>3
  <2>6. snap[p].entry = st.entries[p] /\ snap[p].exit = st.exits[p]
    BY DEF Snapshot
  <2>7. /\ st.entries[p] = Denom[p] * Cardinality(Entered(st, p))
        /\ st.exits[p] = Denom[p] * Cardinality(Exited(m, st, p))
    BY <1>1 DEF PoolStaged
  <2> HIDE DEF snap
  <2>8. /\ snap[p].count = Cardinality(HeldAt(e, p, h))
        /\ snap[p].liq = Denom[p] * Cardinality(HeldAt(e, p, h))
    BY <1>2, <2>1, <2>2, <2>3
  <2>9. /\ snap[p].entry = Denom[p] * Cardinality(EnteredAt(e, p, h))
        /\ snap[p].exit = Denom[p] * Cardinality(LeftAt(e, p, h))
    BY <2>4, <2>5, <2>6, <2>7
  <2> QED
    BY <2>8, <2>9
<1> HIDE DEF snap, h
<1>7. ASSUME NEW s \in e.snaps \ d.snaps
      PROVE  s.height = h /\ RowAgrees(e, s)
  <2>1. PICK p \in Pools : s = [height |-> h, row |-> [pool |-> p, at |-> snap[p]]]
    BY <1>3 DEF Logged
  <2>2. s.height = h /\ s.row.pool = p /\ s.row.at = snap[p]
    BY <2>1
  <2> QED
    BY <1>6, <2>2 DEF RowAgrees
<1>8. ASSUME NEW c \in e.blocks, NEW p \in Pools
      PROVE  \E s \in e.snaps : s.height = Height[c] /\ s.row.pool = p
  <2>1. CASE c \in d.blocks
    BY <1>3, <2>1 DEF SnapshotsAgree
  <2>2. CASE c = b
    <3> DEFINE s == [height |-> h, row |-> [pool |-> p, at |-> snap[p]]]
    <3>1. s \in e.snaps
      BY <1>3 DEF Logged
    <3>2. s.height = h /\ s.row.pool = p
      OBVIOUS
    <3> QED
      BY <2>2, <3>1, <3>2 DEF h
  <2> QED
    BY <1>3, <2>1, <2>2
<1>9. ASSUME NEW s \in e.snaps
      PROVE  (\E c \in e.blocks : Height[c] = s.height) /\ RowAgrees(e, s)
  <2>1. CASE s \in d.snaps
    BY <1>3, <1>5, <2>1 DEF SnapshotsAgree
  <2>2. CASE s \notin d.snaps
    BY <1>3, <1>7, <2>2 DEF h
  <2> QED
    BY <2>1, <2>2
<1> QED
  BY <1>8, <1>9 DEF SnapshotsAgree, RowAgrees

-----------------------------------------------------------------------------
(* The fee outputs a transaction spent are the same before and after what   *)
(* happens to the blocks above it.                                          *)
LEMMA SpentByOfHeight ==
    ASSUME NEW d, Sound(d), OneEach(d.coord), NEW w, w.height \in Int,
           NEW e, e = Rollback(d, w.height)
    PROVE  SpentBy(d, w) = SpentBy(e, w)
<1> DEFINE k == w.height
           Cut(r) == [item |-> r.item, created |-> r.created,
                      spent |-> {s \in r.spent : s.height <= k}]
           By(r) == \E s \in r.spent : s.height = k /\ s.spend = w.row.txid
<1>1. ASSUME NEW o \in Outpoint
      PROVE  /\ \A q \in e.coord[o] : \E r \in d.coord[o] : r.created <= k /\ q = Cut(r)
             /\ \A r \in d.coord[o] : r.created <= k => Cut(r) \in e.coord[o]
  BY DEF Rollback, Kept
<1>2. \A r : Cut(r).spent = {s \in r.spent : s.height <= k}
  OBVIOUS
<1>3. \A o \in Outpoint : \A r \in d.coord[o] :
        /\ r.created \in Int
        /\ \A s \in r.spent : s.height \in Int /\ r.created <= s.height
  BY DEF Sound, TableSound, OneEach
<1> HIDE DEF Cut
<1>4. \A o \in Outpoint : \A r \in d.coord[o] : By(r) => r.created <= k /\ By(Cut(r))
  BY <1>2, <1>3
<1>5. \A r : By(Cut(r)) => By(r)
  BY <1>2
<1>6. \A o \in Outpoint : (\E r \in d.coord[o] : By(r)) <=> \E q \in e.coord[o] : By(q)
  <2> HIDE DEF By, k
  <2> QED
    BY <1>1, <1>4, <1>5
<1> QED
  BY <1>6 DEF SpentBy

\* Two databases that roll back to the same rows at a height agree on what a
\* transaction of that height spent.
LEMMA SpentByBelow ==
    ASSUME NEW d, Sound(d), OneEach(d.coord), NEW e, Sound(e), OneEach(e.coord),
           NEW w, w.height \in Int, Rollback(d, w.height) = Rollback(e, w.height)
    PROVE  SpentBy(d, w) = SpentBy(e, w)
<1> DEFINE r == Rollback(d, w.height)
<1>1. SpentBy(d, w) = SpentBy(r, w)
  BY SpentByOfHeight
<1>2. r = Rollback(e, w.height)
  OBVIOUS
<1> HIDE DEF r
<1>3. SpentBy(e, w) = SpentBy(r, w)
  BY <1>2, SpentByOfHeight
<1> QED
  BY <1>1, <1>3

\* What FeesAgree asks of the row r of fee output o.
FeeRowAgrees(d, o, r) ==
    /\ \E w \in d.tx0s : w.height = r.created /\ \E f \in w.row.fee : f.out = o
    /\ r.spent # {} => \E w \in d.spends : o \in SpentBy(d, w)
    /\ r.item.method = "reuse" =>
          \E x \in Fees(d) \ {o} : \E q \in d.coord[x] :
             Script[x] = Script[o] /\ q.created <= r.created

\* FeesAgree, row by row.
LEMMA FeesAgreeIs ==
    ASSUME NEW d
    PROVE  FeesAgree(d) <=> /\ \A o \in Fees(d) : \A r \in d.coord[o] : FeeRowAgrees(d, o, r)
                            /\ \A w \in d.spends : w.row.sats = SumValue(SpentBy(d, w))
BY DEF FeesAgree, FeeRowAgrees

(* Rolling back keeps the account of the fees of the heights it keeps.      *)
LEMMA FeesRollback ==
    ASSUME NEW d, Sound(d), OneEach(d.coord), FeesAgree(d),
           NEW h \in (StartHeight - 1) .. LastHeight(d),
           NEW e, e = Rollback(d, h)
    PROVE  FeesAgree(e)
<1> DEFINE Cut(r) == [item |-> r.item, created |-> r.created,
                      spent |-> {s \in r.spent : s.height <= h}]
<1>1. Sound(e) /\ OneEach(e.coord)
  <2>1. e.coord = [o \in Outpoint |-> Kept(d.coord, o, h)]
    BY DEF Rollback
  <2> QED
    BY <2>1, SoundRollback, OneEachKept DEF Sound
<1>2. /\ e.tx0s = {w \in d.tx0s : w.height <= h}
      /\ e.spends = {w \in d.spends : w.height <= h}
  BY DEF Rollback, UpTo
<1>3. h \in Int /\ \A w \in d.spends : w.height \in Int
  BY LastHeightType DEF Sound, RowsSound
<1>4. ASSUME NEW o \in Outpoint
      PROVE  /\ \A q \in e.coord[o] : \E r \in d.coord[o] : r.created <= h /\ q = Cut(r)
             /\ \A r \in d.coord[o] : r.created <= h => Cut(r) \in e.coord[o]
  BY DEF Rollback, Kept
<1>5. \A r : /\ Cut(r).item = r.item /\ Cut(r).created = r.created
             /\ Cut(r).spent = {s \in r.spent : s.height <= h}
  OBVIOUS
<1>6. \A o \in Outpoint : \A r \in d.coord[o] :
        /\ r.created \in Int
        /\ \A s, u \in r.spent : s = u
        /\ \A q \in d.coord[o] : q = r
  BY DEF Sound, TableSound, OneEach
<1> HIDE DEF Cut
<1>7. \A w \in e.spends : SpentBy(e, w) = SpentBy(d, w)
  <2> TAKE w \in e.spends
  <2>1. w \in d.spends /\ w.height <= h /\ w.height \in Int
    BY <1>2, <1>3
  <2>2. Rollback(d, w.height) = Rollback(e, w.height)
    BY <1>3, <2>1, RollbackRollback
  <2> QED
    BY <1>1, <2>1, <2>2, SpentByBelow
<1>8. ASSUME NEW o \in Outpoint, NEW q \in e.coord[o] PROVE FeeRowAgrees(e, o, q)
  <2>1. PICK r \in d.coord[o] : r.created <= h /\ q = Cut(r)
    BY <1>4
  <2>2. FeeRowAgrees(d, o, r)
    BY FeesAgreeIs DEF Fees
  <2>3. \E w \in e.tx0s : w.height = q.created /\ \E f \in w.row.fee : f.out = o
    BY <1>2, <1>5, <2>1, <2>2 DEF FeeRowAgrees
  <2>4. ASSUME q.spent # {} PROVE \E w \in e.spends : o \in SpentBy(e, w)
    <3>1. PICK s \in r.spent : s.height <= h
      BY <1>5, <2>1, <2>4
    <3>2. PICK w \in d.spends : o \in SpentBy(d, w)
      BY <2>2, <3>1 DEF FeeRowAgrees
    <3>3. w.height = s.height
      BY <1>6, <3>1, <3>2 DEF SpentBy
    <3>4. w \in e.spends
      BY <1>2, <3>1, <3>3
    <3> QED
      BY <1>7, <3>2, <3>4
  <2>5. ASSUME q.item.method = "reuse"
        PROVE  \E x \in Fees(e) \ {o} : \E y \in e.coord[x] :
                  Script[x] = Script[o] /\ y.created <= q.created
    <3>1. r.item.method = "reuse"
      BY <1>5, <2>1, <2>5
    <3>0. PICK x \in Fees(d) \ {o} :
             \E y \in d.coord[x] : Script[x] = Script[o] /\ y.created <= r.created
      BY <2>2, <3>1 DEF FeeRowAgrees
    <3>2. PICK y \in d.coord[x] : Script[x] = Script[o] /\ y.created <= r.created
      BY <3>0
    <3>3. x \in Outpoint
      BY DEF Fees
    <3>4. y.created <= h
      BY <1>3, <1>6, <2>1, <3>2, <3>3
    <3>5. Cut(y) \in e.coord[x] /\ Cut(y).created <= q.created
      BY <1>4, <1>5, <2>1, <3>2, <3>3, <3>4
    <3> QED
      BY <3>2, <3>3, <3>5 DEF Fees
  <2> QED
    BY <2>3, <2>4, <2>5 DEF FeeRowAgrees
<1>9. \A w \in e.spends : w.row.sats = SumValue(SpentBy(e, w))
  BY <1>2, <1>7, FeesAgreeIs
<1> QED
  BY <1>8, <1>9, FeesAgreeIs DEF Fees

(* A block's fee rows are told by its Tx0 and spend rows, and the earlier   *)
(* ones still by theirs.                                                    *)
LEMMA FeesIndexed ==
    ASSUME NEW d, Sound(d), OneEach(d.pool), OneEach(d.coord), FeesAgree(d),
           NEW m, m = Reload(d), NEW b \in Block, Connects(d, b), Accepts(d, m, b),
           NEW e, e = Indexed(d, m, b)
    PROVE  FeesAgree(e)
<1> DEFINE st == Staged(m, b)
           snap == Snapshot(m, st)
           h == Height[b]
           n == LastHeight(d)
<1>1. /\ FeesStaged(m, b, Len(Txs[b]), st) /\ KeysFree(d, b, st)
      /\ h = n + 1 /\ e = WriteBlock(d, b, st, snap)
      /\ Sound(e) /\ OneEach(e.coord)
  BY IndexedFacts
<1>2. /\ e.tx0s = d.tx0s \cup Logged(h, st.tx0s)
      /\ e.spends = d.spends \cup Logged(h, st.spends)
  BY <1>1 DEF WriteBlock
<1>3. /\ n \in Int /\ \A w \in d.spends : w.height \in Int /\ w.height <= n
      /\ \A o \in Outpoint : \A r \in d.coord[o] :
            /\ r.created \in Int /\ r.created <= n
            /\ \A s \in r.spent : s.height \in Int /\ s.height <= n
  BY LastHeightType DEF Sound, RowsSound, TableSound
<1> DEFINE New(o, x) == [item |-> x, created |-> h, spent |-> SpentAt(h, st.cspent[o])]
           Old(o, r) == MarkSpent(r, h, st.cspent[o])
<1>4. ASSUME NEW o \in Outpoint
      PROVE  /\ st.cadded[o] # {} => e.coord[o] = {New(o, x) : x \in st.cadded[o]}
             /\ st.cadded[o] = {} => e.coord[o] = {Old(o, r) : r \in d.coord[o]}
  BY <1>1, FeeRowsWritten
<1>5. \A o, x : /\ New(o, x).item = x /\ New(o, x).created = h
                /\ New(o, x).spent = SpentAt(h, st.cspent[o])
  OBVIOUS
<1>6. \A o, r : /\ Old(o, r).item = r.item /\ Old(o, r).created = r.created
                /\ Old(o, r).spent = IF r.spent = {} THEN SpentAt(h, st.cspent[o]) ELSE r.spent
  BY DEF MarkSpent
<1>7. /\ m.coord = {o \in Outpoint : Unspent(d.coord, o) # {}}
      /\ m.scripts = {Script[o] : o \in {x \in Outpoint : d.coord[x] # {}}}
  BY DEF Reload
<1>8. \A o \in Outpoint : st.cadded[o] # {} => d.coord[o] = {}
  BY <1>1 DEF KeysFree
<1> HIDE DEF st, snap, h, n, New, Old
<1>9. \A w \in d.spends : SpentBy(e, w) = SpentBy(d, w)
  <2> TAKE w \in d.spends
  <2>1. w.height \in Int /\ w.height < h
    BY <1>1, <1>3
  <2>2. Rollback(d, w.height) = Rollback(e, w.height)
    BY <1>1, <2>1, RollbackWritten DEF h
  <2> QED
    BY <1>1, <2>1, <2>2, SpentByBelow
<1>10. ASSUME NEW w \in st.spends
       PROVE  SpentBy(e, [height |-> h, row |-> w]) = PaidBy(st, w.txid)
  <2> DEFINE By(r) == \E s \in r.spent : s.height = h /\ s.spend = w.txid
  <2>1. \A o : (\E s \in SpentAt(h, st.cspent[o]) : s.height = h /\ s.spend = w.txid)
              <=> w.txid \in st.cspent[o]
    BY SpentAtIs
  <2>2. ASSUME NEW o \in Outpoint PROVE (\E r \in e.coord[o] : By(r)) <=> w.txid \in st.cspent[o]
    <3>1. CASE st.cadded[o] # {}
      <4>1. \A x : By(New(o, x)) <=> w.txid \in st.cspent[o]
        BY <1>5, <2>1
      <4>2. /\ \A x \in st.cadded[o] : New(o, x) \in e.coord[o]
            /\ \A r \in e.coord[o] : \E x \in st.cadded[o] : r = New(o, x)
        BY <1>4, <3>1
      <4> HIDE DEF By
      <4> QED
        BY <3>1, <4>1, <4>2
    <3>2. CASE st.cadded[o] = {}
      <4>1. ASSUME NEW r \in d.coord[o]
            PROVE  By(Old(o, r)) <=> r.spent = {} /\ w.txid \in st.cspent[o]
        <5>1. \A s \in r.spent : s.height # h
          BY <1>1, <1>3
        <5>2. r.spent = {} => Old(o, r).spent = SpentAt(h, st.cspent[o])
          BY <1>6
        <5>3. r.spent # {} => Old(o, r).spent = r.spent
          BY <1>6
        <5> QED
          BY <2>1, <5>1, <5>2, <5>3
      <4>2. w.txid \in st.cspent[o] => \E r \in d.coord[o] : r.spent = {}
        <5>1. w.txid \in st.cspent[o] => o \in m.coord
          BY <1>1, <3>2 DEF FeesStaged
        <5> QED
          BY <1>7, <5>1 DEF Unspent
      <4> HIDE DEF By
      <4> QED
        BY <1>4, <3>2, <4>1, <4>2
    <3> QED
      BY <3>1, <3>2
  <2>3. SpentBy(e, [height |-> h, row |-> w]) = {o \in Outpoint : \E r \in e.coord[o] : By(r)}
    BY DEF SpentBy
  <2> HIDE DEF By
  <2> QED
    BY <2>2, <2>3 DEF PaidBy
<1>11. ASSUME NEW w \in e.spends
       PROVE  w.row.sats = SumValue(SpentBy(e, w))
  <2>1. CASE w \in d.spends
    BY <1>9, <2>1, FeesAgreeIs
  <2>2. CASE w \in Logged(h, st.spends)
    <3>1. PICK r \in st.spends : w = [height |-> h, row |-> r]
      BY <2>2 DEF Logged
    <3>2. r.sats = SumValue(PaidBy(st, r.txid))
      BY <1>1 DEF FeesStaged
    <3> QED
      BY <1>10, <3>1, <3>2
  <2> QED
    BY <1>2, <2>1, <2>2
\* The spend row of a fee output the block spends.
<1>12. ASSUME NEW o \in Outpoint, st.cspent[o] # {}
       PROVE  \E w \in e.spends : o \in SpentBy(e, w)
  <2>1. PICK w \in st.spends : st.cspent[o] = {w.txid}
    BY <1>1, <1>12 DEF FeesStaged
  <2>2. o \in PaidBy(st, w.txid)
    BY <2>1 DEF PaidBy
  <2>3. [height |-> h, row |-> w] \in e.spends
    BY <1>2 DEF Logged
  <2> QED
    BY <1>10, <2>2, <2>3
<1>13. \A h1, z : SpentAt(h1, z) # {} => z # {}
  BY DEF SpentAt
<1>14. ASSUME NEW o \in Outpoint, st.cadded[o] # {}, NEW q \in e.coord[o]
       PROVE  FeeRowAgrees(e, o, q)
  <2>1. PICK x \in st.cadded[o] : q = New(o, x)
    BY <1>4, <1>14
  <2>2. /\ q.item = x /\ q.created = h /\ q.spent = SpentAt(h, st.cspent[o])
    BY <1>5, <2>1
  <2>3. \E w \in e.tx0s : w.height = q.created /\ \E f \in w.row.fee : f.out = o
    <3>1. PICK r \in st.tx0s : \E f \in r.fee : f.out = o
      BY <1>1, <1>14 DEF FeesStaged
    <3> DEFINE w == [height |-> h, row |-> r]
    <3>2. w \in e.tx0s
      BY <1>2 DEF Logged
    <3>3. w.height = h /\ w.row = r
      OBVIOUS
    <3> QED
      BY <2>2, <3>1, <3>2, <3>3
  <2>4. q.spent # {} => \E w \in e.spends : o \in SpentBy(e, w)
    BY <1>12, <1>13, <2>2
  <2>5. ASSUME q.item.method = "reuse"
        PROVE  \E y \in Fees(e) \ {o} : \E r \in e.coord[y] :
                  Script[y] = Script[o] /\ r.created <= q.created
    <3>1. \/ Script[o] \in m.scripts
          \/ \E y \in Outpoint \ {o} : st.cadded[y] # {} /\ Script[y] = Script[o]
      BY <1>1, <2>2, <2>5 DEF FeesStaged
    <3>2. ASSUME NEW y \in Outpoint \ {o}, st.cadded[y] # {}, Script[y] = Script[o]
          PROVE  \E r \in e.coord[y] : y \in Fees(e) /\ r.created = h
      <4>1. PICK z \in st.cadded[y] : TRUE
        BY <3>2
      <4>2. New(y, z) \in e.coord[y]
        BY <1>4, <3>2
      <4> QED
        BY <1>5, <4>2 DEF Fees
    <3>3. ASSUME NEW y \in Outpoint, d.coord[y] # {}, Script[y] = Script[o]
          PROVE  \E r \in e.coord[y] : y # o /\ y \in Fees(e) /\ r.created <= h
      <4>1. PICK r \in d.coord[y] : TRUE
        BY <3>3
      <4>2. y # o /\ st.cadded[y] = {}
        BY <1>8, <1>14, <3>3
      <4>3. Old(y, r) \in e.coord[y]
        BY <1>4, <4>2
      <4> QED
        BY <1>1, <1>3, <1>6, <4>2, <4>3 DEF Fees
    <3>4. h <= h
      BY <1>1, <1>3
    <3>5. CASE Script[o] \in m.scripts
      <4>1. PICK y \in Outpoint : d.coord[y] # {} /\ Script[y] = Script[o]
        BY <1>7, <3>5
      <4> QED
        BY <2>2, <3>3, <4>1 DEF Fees
    <3> QED
      BY <2>2, <3>1, <3>2, <3>4, <3>5
  <2> QED
    BY <2>3, <2>4, <2>5 DEF FeeRowAgrees
<1>15. ASSUME NEW o \in Outpoint, st.cadded[o] = {}, NEW q \in e.coord[o]
       PROVE  FeeRowAgrees(e, o, q)
  <2>1. PICK r \in d.coord[o] : q = Old(o, r)
    BY <1>4, <1>15
  <2>2. /\ q.item = r.item /\ q.created = r.created
        /\ q.spent = IF r.spent = {} THEN SpentAt(h, st.cspent[o]) ELSE r.spent
    BY <1>6, <2>1
  <2>3. FeeRowAgrees(d, o, r)
    BY FeesAgreeIs DEF Fees
  <2>4. \E w \in e.tx0s : w.height = q.created /\ \E f \in w.row.fee : f.out = o
    BY <1>2, <2>2, <2>3 DEF FeeRowAgrees
  <2>5. ASSUME q.spent # {} PROVE \E w \in e.spends : o \in SpentBy(e, w)
    <3>1. CASE r.spent = {}
      BY <1>12, <1>13, <2>2, <2>5, <3>1
    <3>2. CASE r.spent # {}
      BY <1>2, <1>9, <2>3, <3>2 DEF FeeRowAgrees
    <3> QED
      BY <3>1, <3>2
  <2>6. ASSUME q.item.method = "reuse"
        PROVE  \E x \in Fees(e) \ {o} : \E y \in e.coord[x] :
                  Script[x] = Script[o] /\ y.created <= q.created
    <3>0. PICK x \in Fees(d) \ {o} :
             \E y \in d.coord[x] : Script[x] = Script[o] /\ y.created <= r.created
      BY <2>2, <2>3, <2>6 DEF FeeRowAgrees
    <3>1. PICK y \in d.coord[x] : Script[x] = Script[o] /\ y.created <= r.created
      BY <3>0
    <3>2. x \in Outpoint /\ st.cadded[x] = {}
      BY <1>8, <3>1 DEF Fees
    <3>3. Old(x, y) \in e.coord[x]
      BY <1>4, <3>1, <3>2
    <3>4. Old(x, y).created = y.created
      BY <1>6
    <3> QED
      BY <2>2, <3>1, <3>2, <3>3, <3>4 DEF Fees
  <2> QED
    BY <2>4, <2>5, <2>6 DEF FeeRowAgrees
<1>16. \A o \in Fees(e) : \A q \in e.coord[o] : FeeRowAgrees(e, o, q)
  BY <1>14, <1>15 DEF Fees
<1> QED
  BY <1>11, <1>16, FeesAgreeIs

-----------------------------------------------------------------------------
(* The accounts agree in every database a loss of power may reveal.         *)
Accounts(d) ==
    OneEach(d.pool) /\ OneEach(d.coord) /\ SnapshotsAgree(d) /\ FeesAgree(d)

SavedAccounts == \A d \in recoverable : Accounts(d)

\* Nothing disagrees in an empty database.
LEMMA EmptyAccounts == Accounts(EmptyDb)
<1> DEFINE d == EmptyDb
<1>1. /\ \A o \in Outpoint : d.pool[o] = {} /\ d.coord[o] = {}
      /\ d.blocks = {} /\ d.snaps = {} /\ d.spends = {}
  BY DEF EmptyDb
<1> HIDE DEF d
<1>2. Fees(d) = {}
  BY <1>1 DEF Fees
<1>3. OneEach(d.pool) /\ OneEach(d.coord)
  BY <1>1 DEF OneEach
<1>4. SnapshotsAgree(d) /\ FeesAgree(d)
  BY <1>1, <1>2 DEF SnapshotsAgree, FeesAgree
<1> QED
  BY <1>3, <1>4 DEF Accounts, d

\* Every step leaves only databases whose accounts agree.
LEMMA SavedAccountsStep ==
    TablesSound /\ MemoryMatches /\ SavedAccounts /\ [Next]_vars => SavedAccounts'
<1> SUFFICES ASSUME TablesSound, MemoryMatches, SavedAccounts, [Next]_vars
             PROVE  SavedAccounts'
  OBVIOUS
<1>0. /\ Sound(db) /\ db \in recoverable /\ Accounts(db)
      /\ \A d \in recoverable : Accounts(d)
  BY DEF TablesSound, SavedAccounts
<1>1. CASE recoverable' = recoverable
  BY <1>0, <1>1 DEF SavedAccounts
<1>2. ASSUME NEW b \in Block, ApplyBlock(b) PROVE SavedAccounts'
  <2> DEFINE e == Indexed(db, mem, b)
  <2>1. /\ mem = Reload(db) /\ Connects(db, b) /\ Accepts(db, mem, b)
        /\ recoverable' = recoverable \cup {e}
    BY <1>2 DEF ApplyBlock, MemoryMatches, Commit
  <2>2. /\ OneEach(db.pool) /\ OneEach(db.coord)
        /\ SnapshotsAgree(db) /\ FeesAgree(db)
    BY <1>0 DEF Accounts
  <2>3. OneEach(e.pool) /\ OneEach(e.coord)
    BY <1>0, <2>1, <2>2, IndexedFacts
  <2>4. SnapshotsAgree(e)
    BY <1>0, <2>1, <2>2, SnapshotsIndexed
  <2>5. FeesAgree(e)
    BY <1>0, <2>1, <2>2, FeesIndexed
  <2> QED
    BY <1>0, <2>1, <2>3, <2>4, <2>5 DEF SavedAccounts, Accounts
<1>3. ASSUME NEW h \in {StartHeight - 1} \cup Heights, RollbackAfter(h)
      PROVE  SavedAccounts'
  <2> DEFINE e == Rollback(db, h)
  <2>1. h \in (StartHeight - 1) .. LastHeight(db)
    BY <1>0, <1>3, RollbackHeights DEF RollbackAfter
  <2>2. recoverable' = recoverable \cup {e}
    BY <1>3 DEF RollbackAfter, Commit
  <2>3. /\ OneEach(db.pool) /\ OneEach(db.coord)
        /\ SnapshotsAgree(db) /\ FeesAgree(db)
    BY <1>0 DEF Accounts
  <2>4. OneEach(e.pool) /\ OneEach(e.coord)
    <3>1. /\ e.pool = [o \in Outpoint |-> Kept(db.pool, o, h)]
          /\ e.coord = [o \in Outpoint |-> Kept(db.coord, o, h)]
      BY DEF Rollback
    <3> HIDE DEF e
    <3> QED
      BY <2>3, <3>1, OneEachKept
  <2>5. SnapshotsAgree(e)
    BY <1>0, <2>1, <2>3, SnapshotsRollback
  <2>6. FeesAgree(e)
    BY <1>0, <2>1, <2>3, FeesRollback
  <2> QED
    BY <1>0, <2>2, <2>4, <2>5, <2>6 DEF SavedAccounts, Accounts
<1>4. CASE \E d \in recoverable : recoverable' = {d}
  BY <1>0, <1>4 DEF SavedAccounts
<1>5. Close \/ Checkpoint \/ PowerLoss => \E d \in recoverable : recoverable' = {d}
  BY <1>0 DEF Close, Checkpoint, PowerLoss
<1>6. Open \/ Crash \/ UNCHANGED vars => recoverable' = recoverable
  BY DEF Open, Crash, vars
<1> QED
  BY <1>1, <1>2, <1>3, <1>4, <1>5, <1>6 DEF Next

\* The two inductive invariants together.
LEMMA AccountsStay == Spec => [](TablesSound /\ SavedAccounts)
<1>1. Init => SavedAccounts
  BY EmptyAccounts DEF Init, SavedAccounts
<1> QED
  BY <1>1, SavedAccountsStep, TablesStaySound, MemoryStaysReloaded, PTL DEF Spec

(* The pool history and the output rows are two accounts of one thing: at   *)
(* every indexed height the liquidity, the entries and the exits recorded   *)
(* when the block was applied are those the rows give, whatever was spent,  *)
(* rolled back, crashed or lost since (_snapshots_after_changes,            *)
(* _write_block, rollback_after).                                           *)
THEOREM SnapshotsStayTrue == Spec => []SnapshotsAudit
<1>1. TablesSound /\ SavedAccounts => SnapshotsAudit
  BY DEF TablesSound, SavedAccounts, Accounts, SnapshotsAudit
<1> QED
  BY <1>1, AccountsStay, PTL

(* The fee rows, the Tx0 rows and the coordinator's spend rows tell one     *)
(* story, and a fee inferred from a reused script keeps the row that made   *)
(* the script known: a rollback never removes it before the fee it explains *)
(* (_coordinator_fee_output, rollback_after).                               *)
THEOREM FeesStayTrue == Spec => []FeesAudit
<1>1. TablesSound /\ SavedAccounts => FeesAudit
  BY DEF TablesSound, SavedAccounts, Accounts, FeesAudit
<1> QED
  BY <1>1, AccountsStay, PTL

-----------------------------------------------------------------------------
(* Where the rows come from. *)

\* A row of an output was written for the block that creates the output, at
\* its height, and marked spent at the height of a block.
TableSourced(blocks, table) ==
    \A o \in Outpoint : \A r \in table[o] :
       /\ \E c \in blocks : Height[c] = r.created /\ o \in OutsOf(c)
       /\ \A s \in r.spent : \E c \in blocks : Height[c] = s.height

\* A row of a transaction was written for the block that has it.
RowsSourced(blocks, rows) ==
    \A w \in rows : \E c \in blocks : Height[c] = w.height /\ w.row.txid \in TxidsOf(c)

Sourced(d) ==
    /\ TableSourced(d.blocks, d.pool) /\ TableSourced(d.blocks, d.coord)
    /\ RowsSourced(d.blocks, d.tx0s) /\ RowsSourced(d.blocks, d.rounds)
    /\ RowsSourced(d.blocks, d.spends)
    /\ \A s \in d.snaps : \E c \in d.blocks : Height[c] = s.height

\* Writing a block's outputs keeps it so.
LEMMA TableSourcedWritten ==
    ASSUME NEW table, NEW n \in Int, TableSound(table, n),
           NEW blocks, TableSourced(blocks, table), NEW b, NEW new, NEW spend,
           \A o \in Outpoint : new[o] # {} => o \in OutsOf(b),
           NEW after, after = [x \in Outpoint |->
                                 Written(table, x, Height[b], new[x], spend[x])]
    PROVE  TableSourced(blocks \cup {b}, after)
<1> DEFINE h == Height[b]
<1> SUFFICES ASSUME NEW o \in Outpoint, NEW r \in after[o]
             PROVE  /\ \E c \in blocks \cup {b} : Height[c] = r.created /\ o \in OutsOf(c)
                    /\ \A s \in r.spent : \E c \in blocks \cup {b} : Height[c] = s.height
  BY DEF TableSourced
<1>1. r \in Written(table, o, h, new[o], spend[o])
  OBVIOUS
<1>2. \A s \in SpentAt(h, spend[o]) : s.height = h
  BY SpentAtIs
<1> HIDE DEF h
<1>3. CASE new[o] # {}
  <2>1. Written(table, o, h, new[o], spend[o])
          = {[item |-> x, created |-> h, spent |-> SpentAt(h, spend[o])] : x \in new[o]}
    BY <1>3, WrittenIs
  <2>2. r.created = h /\ r.spent = SpentAt(h, spend[o])
    BY <1>1, <2>1
  <2> QED
    BY <1>2, <1>3, <2>2 DEF h
<1>4. CASE new[o] = {}
  <2>1. Written(table, o, h, new[o], spend[o])
          = {MarkSpent(q, h, spend[o]) : q \in table[o]}
    BY <1>4, WrittenIs
  <2>2. PICK q \in table[o] : r = MarkSpent(q, h, spend[o])
    BY <1>1, <2>1
  <2>3. r.created = q.created /\ (r.spent = q.spent \/ r.spent = SpentAt(h, spend[o]))
    BY <2>2 DEF MarkSpent
  <2>4. /\ \E c \in blocks : Height[c] = q.created /\ o \in OutsOf(c)
        /\ \A s \in q.spent : \E c \in blocks : Height[c] = s.height
    BY <2>2 DEF TableSourced
  <2> QED
    BY <1>2, <2>3, <2>4 DEF h
<1> QED
  BY <1>3, <1>4

\* So does logging its transactions.
LEMMA RowsSourcedLogged ==
    ASSUME NEW blocks, NEW rows, RowsSourced(blocks, rows), NEW b, NEW new,
           \A r \in new : r.txid \in TxidsOf(b)
    PROVE  RowsSourced(blocks \cup {b}, rows \cup Logged(Height[b], new))
<1>1. \A w \in Logged(Height[b], new) : w.height = Height[b] /\ w.row \in new
  BY DEF Logged
<1> QED
  BY <1>1 DEF RowsSourced

\* Rolling back keeps the block of every row it keeps.
LEMMA TableSourcedKept ==
    ASSUME NEW blocks, NEW table, TableSourced(blocks, table), NEW h,
           NEW after, after = [o \in Outpoint |-> Kept(table, o, h)]
    PROVE  TableSourced({b \in blocks : Height[b] <= h}, after)
<1> SUFFICES ASSUME NEW o \in Outpoint, NEW r \in Kept(table, o, h)
             PROVE  /\ \E c \in {b \in blocks : Height[b] <= h} :
                          Height[c] = r.created /\ o \in OutsOf(c)
                    /\ \A s \in r.spent : \E c \in {b \in blocks : Height[b] <= h} :
                          Height[c] = s.height
  BY DEF TableSourced
<1>1. PICK q \in table[o] : /\ q.created <= h /\ r.created = q.created
                            /\ r.spent = {s \in q.spent : s.height <= h}
  BY DEF Kept
<1>2. /\ \E c \in blocks : Height[c] = q.created /\ o \in OutsOf(c)
      /\ \A s \in q.spent : \E c \in blocks : Height[c] = s.height
  BY DEF TableSourced
<1> QED
  BY <1>1, <1>2

\* And of every transaction.
LEMMA RowsSourcedUpTo ==
    ASSUME NEW blocks, NEW rows, RowsSourced(blocks, rows), NEW h
    PROVE  RowsSourced({b \in blocks : Height[b] <= h}, UpTo(rows, h))
BY DEF RowsSourced, UpTo

\* An empty database has no rows.
LEMMA SourcedEmpty == Sourced(EmptyDb)
BY DEF Sourced, TableSourced, RowsSourced, EmptyDb

\* apply_block writes rows of its block only.
LEMMA SourcedIndexed ==
    ASSUME NEW d, Sound(d), Sourced(d), NEW m, NEW b \in Block, Connects(d, b),
           NEW e, e = Indexed(d, m, b)
    PROVE  Sourced(e)
<1> DEFINE st == Staged(m, b)
           N == Len(Txs[b])
<1>1. /\ PoolStaged(m, b, N, st) /\ FeesStaged(m, b, N, st) /\ RowsOfTxs(b, N, st)
  BY StagedFacts
<1>2. /\ e.blocks = d.blocks \cup {b}
      /\ e.pool = [o \in Outpoint |->
                     Written(d.pool, o, Height[b], st.added[o], st.spent[o])]
      /\ e.coord = [o \in Outpoint |->
                      Written(d.coord, o, Height[b], st.cadded[o], st.cspent[o])]
      /\ e.tx0s = d.tx0s \cup Logged(Height[b], st.tx0s)
      /\ e.rounds = d.rounds \cup Logged(Height[b], st.rounds)
      /\ e.spends = d.spends \cup Logged(Height[b], st.spends)
  BY DEF Indexed, WriteBlock
<1>s. \A s \in e.snaps : s \in d.snaps \/ s.height = Height[b]
  BY DEF Indexed, WriteBlock, Logged
<1> HIDE DEF st
<1>3. \A o \in Outpoint : /\ st.added[o] # {} => o \in OutsOf(b)
                          /\ st.cadded[o] # {} => o \in OutsOf(b)
  BY <1>1 DEF PoolStaged, FeesStaged, OutsOf
<1>4. \A r : r \in st.tx0s \/ r \in st.rounds \/ r \in st.spends => r.txid \in TxidsOf(b)
  BY <1>1 DEF RowsOfTxs, FeesStaged, TxidsOf
<1>5. /\ LastHeight(d) \in Int
      /\ TableSound(d.pool, LastHeight(d)) /\ TableSound(d.coord, LastHeight(d))
  BY LastHeightType DEF Sound
<1>6. TableSourced(e.blocks, e.pool)
  <2> DEFINE new == st.added
             spend == st.spent
             after == e.pool
  <2>1. after = [o \in Outpoint |-> Written(d.pool, o, Height[b], new[o], spend[o])]
    BY <1>2
  <2>2. \A o \in Outpoint : new[o] # {} => o \in OutsOf(b)
    BY <1>3
  <2>3. TableSourced(d.blocks, d.pool)
    BY DEF Sourced
  <2> HIDE DEF new, spend, after
  <2>4. TableSourced(d.blocks \cup {b}, after)
    BY <1>5, <2>1, <2>2, <2>3, TableSourcedWritten
  <2> QED
    BY <1>2, <2>4 DEF after
<1>7. TableSourced(e.blocks, e.coord)
  <2> DEFINE new == st.cadded
             spend == st.cspent
             after == e.coord
  <2>1. after = [o \in Outpoint |-> Written(d.coord, o, Height[b], new[o], spend[o])]
    BY <1>2
  <2>2. \A o \in Outpoint : new[o] # {} => o \in OutsOf(b)
    BY <1>3
  <2>3. TableSourced(d.blocks, d.coord)
    BY DEF Sourced
  <2> HIDE DEF new, spend, after
  <2>4. TableSourced(d.blocks \cup {b}, after)
    BY <1>5, <2>1, <2>2, <2>3, TableSourcedWritten
  <2> QED
    BY <1>2, <2>4 DEF after
<1>8. /\ RowsSourced(e.blocks, e.tx0s) /\ RowsSourced(e.blocks, e.rounds)
      /\ RowsSourced(e.blocks, e.spends)
  <2>1. /\ RowsSourced(d.blocks, d.tx0s) /\ RowsSourced(d.blocks, d.rounds)
        /\ RowsSourced(d.blocks, d.spends)
    BY DEF Sourced
  <2>2. /\ \A r \in st.tx0s : r.txid \in TxidsOf(b)
        /\ \A r \in st.rounds : r.txid \in TxidsOf(b)
        /\ \A r \in st.spends : r.txid \in TxidsOf(b)
    BY <1>4
  <2>3. RowsSourced(d.blocks \cup {b}, d.tx0s \cup Logged(Height[b], st.tx0s))
    BY <2>1, <2>2, RowsSourcedLogged
  <2>4. RowsSourced(d.blocks \cup {b}, d.rounds \cup Logged(Height[b], st.rounds))
    BY <2>1, <2>2, RowsSourcedLogged
  <2>5. RowsSourced(d.blocks \cup {b}, d.spends \cup Logged(Height[b], st.spends))
    BY <2>1, <2>2, RowsSourcedLogged
  <2> QED
    BY <1>2, <2>3, <2>4, <2>5
<1>9. \A s \in e.snaps : \E c \in e.blocks : Height[c] = s.height
  BY <1>2, <1>s DEF Sourced
<1> QED
  BY <1>6, <1>7, <1>8, <1>9 DEF Sourced

\* rollback_after keeps the block of every row it keeps.
LEMMA SourcedRollback ==
    ASSUME NEW d, Sourced(d), NEW h
    PROVE  Sourced(Rollback(d, h))
<1> DEFINE e == Rollback(d, h)
           below == {b \in d.blocks : Height[b] <= h}
<1>1. /\ e.blocks = below
      /\ e.pool = [o \in Outpoint |-> Kept(d.pool, o, h)]
      /\ e.coord = [o \in Outpoint |-> Kept(d.coord, o, h)]
      /\ e.tx0s = UpTo(d.tx0s, h) /\ e.rounds = UpTo(d.rounds, h)
      /\ e.spends = UpTo(d.spends, h) /\ e.snaps = UpTo(d.snaps, h)
  BY DEF Rollback
<1> HIDE DEF e
<1>2. TableSourced(below, e.pool) /\ TableSourced(below, e.coord)
  BY <1>1, TableSourcedKept DEF Sourced
<1>3. /\ RowsSourced(below, e.tx0s) /\ RowsSourced(below, e.rounds)
      /\ RowsSourced(below, e.spends)
  BY <1>1, RowsSourcedUpTo DEF Sourced
<1>4. \A s \in e.snaps : \E c \in e.blocks : Height[c] = s.height
  BY <1>1 DEF Sourced, UpTo
<1>5. Sourced(e)
  BY <1>1, <1>2, <1>3, <1>4 DEF Sourced
<1> QED
  BY <1>5 DEF e

(* The keys a connecting block writes are free: the rows there are come from*)
(* its ancestors, which share no output and no transaction with it.         *)
LEMMA KeysAreFree ==
    ASSUME NEW d, Sound(d), Linked(d), Sourced(d), NEW b \in Block, Connects(d, b),
           NEW m, NEW st, st = Staged(m, b)
    PROVE  KeysFree(d, b, st)
<1> DEFINE N == Len(Txs[b])
<1>1. /\ PoolStaged(m, b, N, st) /\ FeesStaged(m, b, N, st) /\ RowsOfTxs(b, N, st)
  BY StagedFacts
<1>2. \A o \in Outpoint : /\ st.added[o] # {} => o \in OutsOf(b)
                          /\ st.cadded[o] # {} => o \in OutsOf(b)
  BY <1>1 DEF PoolStaged, FeesStaged, OutsOf
<1>3. \A r : r \in st.tx0s \/ r \in st.rounds \/ r \in st.spends => r.txid \in TxidsOf(b)
  BY <1>1 DEF RowsOfTxs, FeesStaged, TxidsOf
<1>4. \A c \in d.blocks : /\ TxidsOf(b) \cap TxidsOf(c) = {}
                          /\ OutsOf(b) \cap OutsOf(c) = {}
  BY BelowIsLine, BranchAssumption
<1>5. /\ LastHeight(d) \in Int /\ Height[b] = LastHeight(d) + 1
      /\ \A c \in d.blocks : Height[c] \in Int /\ Height[c] <= LastHeight(d)
      /\ \A q \in d.snaps : q.height \in Int /\ q.height <= LastHeight(d)
  BY LastHeightType, HeightAssumption DEF Connects, Sound, RowsSound
<1>6. /\ \A c \in d.blocks : Height[c] # Height[b]
      /\ \A q \in d.snaps : q.height # Height[b]
  BY <1>5
<1>7. \A o \in Outpoint : o \in OutsOf(b) => d.pool[o] = {} /\ d.coord[o] = {}
  BY <1>4 DEF Sourced, TableSourced
<1>8. \A q : q \in d.tx0s \/ q \in d.rounds \/ q \in d.spends
               => q.row.txid \notin TxidsOf(b)
  BY <1>4 DEF Sourced, RowsSourced
<1> QED
  BY <1>2, <1>3, <1>6, <1>7, <1>8 DEF KeysFree

\* Every database a loss of power may reveal is a chain with its rows.
SavedChains == \A d \in recoverable : Linked(d) /\ Sourced(d)

\* Every step leaves only such databases.
LEMMA SavedChainsStep ==
    TablesSound /\ SavedChains /\ [Next]_vars => SavedChains'
<1> SUFFICES ASSUME TablesSound, SavedChains, [Next]_vars PROVE SavedChains'
  OBVIOUS
<1>0. /\ Sound(db) /\ db \in recoverable /\ Linked(db) /\ Sourced(db)
      /\ \A d \in recoverable : Linked(d) /\ Sourced(d)
  BY DEF TablesSound, SavedChains
<1>1. CASE recoverable' = recoverable
  BY <1>0, <1>1 DEF SavedChains
<1>2. ASSUME NEW b \in Block, ApplyBlock(b) PROVE SavedChains'
  <2> DEFINE e == Indexed(db, mem, b)
  <2>1. Connects(db, b) /\ recoverable' = recoverable \cup {e}
    BY <1>2 DEF ApplyBlock, Commit
  <2>2. Linked(e) /\ Sourced(e)
    BY <1>0, <2>1, LinkedIndexed, SourcedIndexed
  <2> QED
    BY <1>0, <2>1, <2>2 DEF SavedChains
<1>3. ASSUME NEW h \in {StartHeight - 1} \cup Heights, RollbackAfter(h)
      PROVE  SavedChains'
  <2> DEFINE e == Rollback(db, h)
  <2>1. h \in Int /\ recoverable' = recoverable \cup {e}
    BY <1>3, HeightAssumption DEF RollbackAfter, Commit, Heights
  <2>2. Linked(e) /\ Sourced(e)
    BY <1>0, <2>1, LinkedRollback, SourcedRollback
  <2> QED
    BY <1>0, <2>1, <2>2 DEF SavedChains
<1>4. CASE \E d \in recoverable : recoverable' = {d}
  BY <1>0, <1>4 DEF SavedChains
<1>5. Close \/ Checkpoint \/ PowerLoss => \E d \in recoverable : recoverable' = {d}
  BY <1>0 DEF Close, Checkpoint, PowerLoss
<1>6. Open \/ Crash \/ UNCHANGED vars => recoverable' = recoverable
  BY DEF Open, Crash, vars
<1> QED
  BY <1>1, <1>2, <1>3, <1>4, <1>5, <1>6 DEF Next

\* The chains and their rows in every reachable state.
LEMMA ChainsStay == Spec => [](TablesSound /\ SavedChains)
<1>1. Init => SavedChains
  BY LinkedEmpty, SourcedEmpty DEF Init, SavedChains
<1> QED
  BY <1>1, SavedChainsStep, TablesStaySound, PTL DEF Spec

(* The index is never stuck in front of a valid block: after any history of *)
(* applications, rollbacks, restarts and losses of power, apply_block       *)
(* accepts every block that connects.  Nothing in it is spent twice, the    *)
(* liquidity reconciles and no primary key is taken                         *)
(* (_snapshots_after_changes, _write_block).                                *)
THEOREM NeverStuck == Spec => []NeverRefused
<1>1. TablesSound /\ SavedChains /\ MemoryMatches => NeverRefused
  <2> SUFFICES ASSUME TablesSound, SavedChains, MemoryMatches, mem # None,
                      NEW b \in Block, Connects(db, b)
               PROVE  Accepts(db, mem, b)
    BY DEF NeverRefused
  <2> DEFINE st == Staged(mem, b)
  <2>1. Sound(db) /\ Linked(db) /\ Sourced(db) /\ mem = Reload(db)
    BY DEF TablesSound, SavedChains, MemoryMatches
  <2>2. st.ok
    BY StagedFacts
  <2>3. Reconciles(mem, st)
    BY <2>1, BlockReconciles
  <2>4. KeysFree(db, b, st)
    BY <2>1, KeysAreFree
  <2> QED
    BY <2>2, <2>3, <2>4 DEF Accepts
<1> QED
  BY <1>1, ChainsStay, MemoryStaysReloaded, PTL

-----------------------------------------------------------------------------
(* apply_block, its ten statements executed. *)

LEMMA StatementNames ==
    /\ Len(ApplyStatements) = 10 /\ Len(RollbackStatements) = 9
    /\ ApplyStatements[1] = "insert_block"
    /\ ApplyStatements[2] = "spend_pool"
    /\ ApplyStatements[3] = "insert_pool"
    /\ ApplyStatements[4] = "spend_fees"
    /\ ApplyStatements[5] = "insert_tx0s"
    /\ ApplyStatements[6] = "insert_rounds"
    /\ ApplyStatements[7] = "insert_spends"
    /\ ApplyStatements[8] = "insert_fees"
    /\ ApplyStatements[9] = "spend_new_fees"
    /\ ApplyStatements[10] = "insert_snapshots"
    /\ RollbackStatements[1] = "unspend_pool"
    /\ RollbackStatements[2] = "unspend_fees"
    /\ RollbackStatements[3] = "delete_spends"
    /\ RollbackStatements[4] = "delete_fees"
    /\ RollbackStatements[5] = "delete_rounds"
    /\ RollbackStatements[6] = "delete_tx0s"
    /\ RollbackStatements[7] = "delete_snapshots"
    /\ RollbackStatements[8] = "delete_pool"
    /\ RollbackStatements[9] = "delete_blocks"
BY DEF ApplyStatements, RollbackStatements

Tables(blocks, pool, coord, tx0s, rounds, spends, snaps) ==
    [blocks |-> blocks, pool |-> pool, coord |-> coord, tx0s |-> tx0s,
     rounds |-> rounds, spends |-> spends, snaps |-> snaps]

IsTables(d) ==
    d = Tables(d.blocks, d.pool, d.coord, d.tx0s, d.rounds, d.spends, d.snaps)

\* e[k] is what the first k statements of apply_block(b) make of d.
Applied(d, b, n, e) ==
    /\ e[0] = d
    /\ \A k \in 1 .. n : /\ ~KeyTaken(e[k - 1], ApplyStatements[k], b)
                         /\ e[k] = Applying(e[k - 1], ApplyStatements[k], b)

\* The pool and fee outputs after each of the statements that change them.
PoolSpent(d, b) ==
    LET st == Staged(mem, b)
    IN  Spending(d.pool, Keys(st.spent) \ Keys(st.added), Height[b], st.spent)

OldFeesSpent(d, b) ==
    LET st == Staged(mem, b)
    IN  Spending(d.coord, Keys(st.cspent) \ Keys(st.cadded), Height[b], st.cspent)

NewFeesIn(d, b) ==
    Inserting(OldFeesSpent(d, b), Height[b], Staged(mem, b).cadded, Unspents)

FeesSpent(d, b) ==
    LET st == Staged(mem, b)
    IN  Spending(NewFeesIn(d, b), Keys(st.cspent) \cap Keys(st.cadded), Height[b],
                 st.cspent)

\* The tables after the first n statements of apply_block(b), from those of d.
Partly(d, b, n) ==
    LET st == Staged(mem, b)
        h  == Height[b]
    IN  Tables(IF n >= 1 THEN d.blocks \cup {b} ELSE d.blocks,
               IF n >= 3 THEN Inserting(PoolSpent(d, b), h, st.added, st.spent)
               ELSE IF n = 2 THEN PoolSpent(d, b) ELSE d.pool,
               IF n >= 9 THEN FeesSpent(d, b)
               ELSE IF n = 8 THEN NewFeesIn(d, b)
               ELSE IF n >= 4 THEN OldFeesSpent(d, b) ELSE d.coord,
               IF n >= 5 THEN d.tx0s \cup Logged(h, st.tx0s) ELSE d.tx0s,
               IF n >= 6 THEN d.rounds \cup Logged(h, st.rounds) ELSE d.rounds,
               IF n >= 7 THEN d.spends \cup Logged(h, st.spends) ELSE d.spends,
               IF n >= 10 THEN d.snaps \cup Logged(h, SnapshotRows(mem, st))
               ELSE d.snaps)

\* Each statement takes them one statement further.
LEMMA PartlyNext ==
    ASSUME NEW d, NEW b
    PROVE  /\ Applying(Partly(d, b, 0), "insert_block", b) = Partly(d, b, 1)
           /\ Applying(Partly(d, b, 1), "spend_pool", b) = Partly(d, b, 2)
           /\ Applying(Partly(d, b, 2), "insert_pool", b) = Partly(d, b, 3)
           /\ Applying(Partly(d, b, 3), "spend_fees", b) = Partly(d, b, 4)
           /\ Applying(Partly(d, b, 4), "insert_tx0s", b) = Partly(d, b, 5)
           /\ Applying(Partly(d, b, 5), "insert_rounds", b) = Partly(d, b, 6)
           /\ Applying(Partly(d, b, 6), "insert_spends", b) = Partly(d, b, 7)
           /\ Applying(Partly(d, b, 7), "insert_fees", b) = Partly(d, b, 8)
           /\ Applying(Partly(d, b, 8), "spend_new_fees", b) = Partly(d, b, 9)
           /\ Applying(Partly(d, b, 9), "insert_snapshots", b) = Partly(d, b, 10)
<1> DEFINE h  == Height[b]
           st == Staged(mem, b)
           p2 == PoolSpent(d, b)
           p3 == Inserting(p2, h, st.added, st.spent)
           c4 == OldFeesSpent(d, b)
           t5 == d.tx0s \cup Logged(h, st.tx0s)
           r6 == d.rounds \cup Logged(h, st.rounds)
           s7 == d.spends \cup Logged(h, st.spends)
           c8 == NewFeesIn(d, b)
           c9 == FeesSpent(d, b)
           n10 == d.snaps \cup Logged(h, SnapshotRows(mem, st))
           bs == d.blocks \cup {b}
           T0 == Tables(d.blocks, d.pool, d.coord, d.tx0s, d.rounds, d.spends, d.snaps)
           T1 == Tables(bs, d.pool, d.coord, d.tx0s, d.rounds, d.spends, d.snaps)
           T2 == Tables(bs, p2, d.coord, d.tx0s, d.rounds, d.spends, d.snaps)
           T3 == Tables(bs, p3, d.coord, d.tx0s, d.rounds, d.spends, d.snaps)
           T4 == Tables(bs, p3, c4, d.tx0s, d.rounds, d.spends, d.snaps)
           T5 == Tables(bs, p3, c4, t5, d.rounds, d.spends, d.snaps)
           T6 == Tables(bs, p3, c4, t5, r6, d.spends, d.snaps)
           T7 == Tables(bs, p3, c4, t5, r6, s7, d.snaps)
           T8 == Tables(bs, p3, c8, t5, r6, s7, d.snaps)
           T9 == Tables(bs, p3, c9, t5, r6, s7, d.snaps)
           T10 == Tables(bs, p3, c9, t5, r6, s7, n10)
<1>1. /\ Partly(d, b, 0) = T0 /\ Partly(d, b, 1) = T1 /\ Partly(d, b, 2) = T2
      /\ Partly(d, b, 3) = T3 /\ Partly(d, b, 4) = T4 /\ Partly(d, b, 5) = T5
      /\ Partly(d, b, 6) = T6 /\ Partly(d, b, 7) = T7 /\ Partly(d, b, 8) = T8
      /\ Partly(d, b, 9) = T9 /\ Partly(d, b, 10) = T10
  BY DEF Partly
<1> HIDE DEF bs, p2, p3, c4, t5, r6, s7, c8, c9, n10,
             T0, T1, T2, T3, T4, T5, T6, T7, T8, T9, T10
<1>2. Applying(T0, "insert_block", b) = T1
  BY DEF T0, T1, bs, Applying, Tables
<1>3. Applying(T1, "spend_pool", b) = T2
  BY DEF T1, T2, p2, PoolSpent, Applying, Tables
<1>4. Applying(T2, "insert_pool", b) = T3
  BY DEF T2, T3, p3, Applying, Tables
<1>5. Applying(T3, "spend_fees", b) = T4
  BY DEF T3, T4, c4, OldFeesSpent, Applying, Tables
<1>6. Applying(T4, "insert_tx0s", b) = T5
  BY DEF T4, T5, t5, Applying, Tables
<1>7. Applying(T5, "insert_rounds", b) = T6
  BY DEF T5, T6, r6, Applying, Tables
<1>8. Applying(T6, "insert_spends", b) = T7
  BY DEF T6, T7, s7, Applying, Tables
<1>9. Applying(T7, "insert_fees", b) = T8
  BY DEF T7, T8, c8, c4, NewFeesIn, Applying, Tables
<1>10. Applying(T8, "spend_new_fees", b) = T9
  BY DEF T8, T9, c9, c8, FeesSpent, Applying, Tables
<1>11. Applying(T9, "insert_snapshots", b) = T10
  BY DEF T9, T10, n10, Applying, Tables
<1> QED
  BY <1>1, <1>2, <1>3, <1>4, <1>5, <1>6, <1>7, <1>8, <1>9, <1>10, <1>11

\* The keys it may find taken are keys of d.
LEMMA PartlyTaken ==
    ASSUME NEW d, NEW b, NEW st, st = Staged(mem, b)
    PROVE  /\ KeyTaken(Partly(d, b, 0), "insert_block", b)
                <=> \E c \in d.blocks : Height[c] = Height[b]
           /\ ~KeyTaken(Partly(d, b, 1), "spend_pool", b)
           /\ KeyTaken(Partly(d, b, 2), "insert_pool", b)
                <=> \E o \in Keys(st.added) : PoolSpent(d, b)[o] # {}
           /\ ~KeyTaken(Partly(d, b, 3), "spend_fees", b)
           /\ KeyTaken(Partly(d, b, 4), "insert_tx0s", b)
                <=> \E q \in d.tx0s, r \in st.tx0s : q.row.txid = r.txid
           /\ KeyTaken(Partly(d, b, 5), "insert_rounds", b)
                <=> \E q \in d.rounds, r \in st.rounds : q.row.txid = r.txid
           /\ KeyTaken(Partly(d, b, 6), "insert_spends", b)
                <=> \E q \in d.spends, r \in st.spends : q.row.txid = r.txid
           /\ KeyTaken(Partly(d, b, 7), "insert_fees", b)
                <=> \E o \in Keys(st.cadded) : OldFeesSpent(d, b)[o] # {}
           /\ ~KeyTaken(Partly(d, b, 8), "spend_new_fees", b)
           /\ KeyTaken(Partly(d, b, 9), "insert_snapshots", b)
                <=> \E q \in d.snaps : q.height = Height[b]
<1>1. /\ Partly(d, b, 0).blocks = d.blocks
      /\ Partly(d, b, 2).pool = PoolSpent(d, b)
      /\ Partly(d, b, 4).tx0s = d.tx0s
      /\ Partly(d, b, 5).rounds = d.rounds
      /\ Partly(d, b, 6).spends = d.spends
      /\ Partly(d, b, 7).coord = OldFeesSpent(d, b)
      /\ Partly(d, b, 9).snaps = d.snaps
  BY DEF Partly, Tables
<1> QED
  BY <1>1 DEF KeyTaken

\* So the statements executed so far have made those tables.
LEMMA AppliedIsPartly ==
    ASSUME NEW d, IsTables(d), NEW b, NEW n \in 0 .. 10, NEW e, Applied(d, b, n, e)
    PROVE  \A k \in 0 .. n : e[k] = Partly(d, b, k)
<1>0. e[0] = Partly(d, b, 0)
  BY DEF Applied, IsTables, Partly
<1>1. \A k \in 0 .. 9 : k < n => e[k + 1] = Applying(e[k], ApplyStatements[k + 1], b)
  <2> SUFFICES ASSUME NEW k \in 0 .. 9, k < n
               PROVE  e[k + 1] = Applying(e[k], ApplyStatements[k + 1], b)
    OBVIOUS
  <2>1. k + 1 \in 1 .. n /\ (k + 1) - 1 = k
    OBVIOUS
  <2> QED
    BY <2>1 DEF Applied
<1>2. n >= 1 => e[1] = Partly(d, b, 1)
  BY <1>0, <1>1, StatementNames, PartlyNext
<1>3. n >= 2 => e[2] = Partly(d, b, 2)
  BY <1>1, <1>2, StatementNames, PartlyNext
<1>4. n >= 3 => e[3] = Partly(d, b, 3)
  BY <1>1, <1>3, StatementNames, PartlyNext
<1>5. n >= 4 => e[4] = Partly(d, b, 4)
  BY <1>1, <1>4, StatementNames, PartlyNext
<1>6. n >= 5 => e[5] = Partly(d, b, 5)
  BY <1>1, <1>5, StatementNames, PartlyNext
<1>7. n >= 6 => e[6] = Partly(d, b, 6)
  BY <1>1, <1>6, StatementNames, PartlyNext
<1>8. n >= 7 => e[7] = Partly(d, b, 7)
  BY <1>1, <1>7, StatementNames, PartlyNext
<1>9. n >= 8 => e[8] = Partly(d, b, 8)
  BY <1>1, <1>8, StatementNames, PartlyNext
<1>10. n >= 9 => e[9] = Partly(d, b, 9)
  BY <1>1, <1>9, StatementNames, PartlyNext
<1>11. n >= 10 => e[10] = Partly(d, b, 10)
  BY <1>1, <1>10, StatementNames, PartlyNext
<1> QED
  BY <1>0, <1>2, <1>3, <1>4, <1>5, <1>6, <1>7, <1>8, <1>9, <1>10, <1>11

\* Marking what was just inserted unspent is inserting it spent.
MarkedNew(X, h, S) ==
    {MarkSpent(r, h, S) : r \in {[item |-> x, created |-> h, spent |-> {}] : x \in X}}
    = {[item |-> x, created |-> h, spent |-> SpentAt(h, S)] : x \in X}

LEMMA MarkNew ==
    ASSUME NEW X, NEW h, NEW S
    PROVE  MarkedNew(X, h, S)
<1> DEFINE Old(x) == [item |-> x, created |-> h, spent |-> {}]
           New(x) == [item |-> x, created |-> h, spent |-> SpentAt(h, S)]
<1>1. \A x : MarkSpent(Old(x), h, S) = New(x)
  BY DEF MarkSpent
<1> HIDE DEF Old, New
<1>2. {MarkSpent(r, h, S) : r \in {Old(x) : x \in X}} = {New(x) : x \in X}
  BY <1>1
<1> QED
  BY <1>2 DEF MarkedNew, Old, New

(* So the ten statements together write the block, and met no key.         *)
LEMMA AppliedIsIndexed ==
    ASSUME NEW d, IsTables(d), NEW b, NEW e, Applied(d, b, 10, e)
    PROVE  e[10] = Indexed(d, mem, b) /\ KeysFree(d, b, Staged(mem, b))
<1> DEFINE st   == Staged(mem, b)
           h    == Height[b]
           pool == PoolSpent(d, b)
           old  == OldFeesSpent(d, b)
           new  == NewFeesIn(d, b)
           pool3 == Inserting(pool, h, st.added, st.spent)
           coord3 == FeesSpent(d, b)
<1>1. /\ e[10] = Tables(d.blocks \cup {b}, pool3, coord3,
                       d.tx0s \cup Logged(h, st.tx0s),
                       d.rounds \cup Logged(h, st.rounds),
                       d.spends \cup Logged(h, st.spends),
                       d.snaps \cup Logged(h, SnapshotRows(mem, st)))
      /\ \A c \in d.blocks : Height[c] # h
      /\ \A o \in Keys(st.added) : pool[o] = {}
      /\ \A o \in Keys(st.cadded) : old[o] = {}
      /\ \A r \in st.tx0s : \A q \in d.tx0s : q.row.txid # r.txid
      /\ \A r \in st.rounds : \A q \in d.rounds : q.row.txid # r.txid
      /\ \A r \in st.spends : \A q \in d.spends : q.row.txid # r.txid
      /\ \A q \in d.snaps : q.height # h
  <2>1. e[10] = Partly(d, b, 10) /\ \A k \in 0 .. 9 : e[k] = Partly(d, b, k)
    BY AppliedIsPartly
  <2>2. \A k \in 0 .. 9 : ~KeyTaken(Partly(d, b, k), ApplyStatements[k + 1], b)
    <3> SUFFICES ASSUME NEW k \in 0 .. 9
                 PROVE  ~KeyTaken(e[k], ApplyStatements[k + 1], b)
      BY <2>1
    <3>1. k + 1 \in 1 .. 10 /\ (k + 1) - 1 = k
      OBVIOUS
    <3> QED
      BY <3>1 DEF Applied
  <2>3. /\ ~KeyTaken(Partly(d, b, 0), "insert_block", b)
        /\ ~KeyTaken(Partly(d, b, 2), "insert_pool", b)
        /\ ~KeyTaken(Partly(d, b, 4), "insert_tx0s", b)
        /\ ~KeyTaken(Partly(d, b, 5), "insert_rounds", b)
        /\ ~KeyTaken(Partly(d, b, 6), "insert_spends", b)
        /\ ~KeyTaken(Partly(d, b, 7), "insert_fees", b)
        /\ ~KeyTaken(Partly(d, b, 9), "insert_snapshots", b)
    BY <2>2, StatementNames
  <2>4. PICK sta : sta = Staged(mem, b)
    OBVIOUS
  <2>5. /\ ~\E c \in d.blocks : Height[c] = Height[b]
        /\ ~\E o \in Keys(sta.added) : PoolSpent(d, b)[o] # {}
        /\ ~\E q \in d.tx0s, r \in sta.tx0s : q.row.txid = r.txid
        /\ ~\E q \in d.rounds, r \in sta.rounds : q.row.txid = r.txid
        /\ ~\E q \in d.spends, r \in sta.spends : q.row.txid = r.txid
        /\ ~\E o \in Keys(sta.cadded) : OldFeesSpent(d, b)[o] # {}
        /\ ~\E q \in d.snaps : q.height = Height[b]
    BY <2>3, <2>4, PartlyTaken
  <2>6. e[10] = Tables(d.blocks \cup {b}, pool3, coord3,
                       d.tx0s \cup Logged(h, st.tx0s),
                       d.rounds \cup Logged(h, st.rounds),
                       d.spends \cup Logged(h, st.spends),
                       d.snaps \cup Logged(h, SnapshotRows(mem, st)))
    BY <2>1 DEF Partly
  <2> HIDE DEF pool3, coord3
  <2> QED
    BY <2>4, <2>5, <2>6
<1>2. Indexed(d, mem, b) = WriteBlock(d, b, st, Snapshot(mem, st))
  BY DEF Indexed
<1>p. /\ pool = Spending(d.pool, Keys(st.spent) \ Keys(st.added), h, st.spent)
      /\ old = Spending(d.coord, Keys(st.cspent) \ Keys(st.cadded), h, st.cspent)
      /\ new = Inserting(old, h, st.cadded, Unspents)
      /\ coord3 = Spending(new, Keys(st.cspent) \cap Keys(st.cadded), h, st.cspent)
  BY DEF PoolSpent, OldFeesSpent, NewFeesIn, FeesSpent
<1> HIDE DEF st, h, pool, old, new, coord3
<1>3. \A o \in Outpoint : st.added[o] # {} => pool[o] = {} /\ d.pool[o] = {}
  <2>1. \A o \in Outpoint : st.added[o] # {} => pool[o] = {}
    BY <1>1 DEF Keys
  <2>2. \A o \in Outpoint : st.added[o] # {} => pool[o] = d.pool[o]
    BY <1>p DEF Spending, Keys
  <2> QED
    BY <2>1, <2>2
<1>4. \A o \in Outpoint : st.cadded[o] # {} => old[o] = {} /\ d.coord[o] = {}
  <2>1. \A o \in Outpoint : st.cadded[o] # {} => old[o] = {}
    BY <1>1 DEF Keys
  <2>2. \A o \in Outpoint : st.cadded[o] # {} => old[o] = d.coord[o]
    BY <1>p DEF Spending, Keys
  <2> QED
    BY <2>1, <2>2
<1>5. KeysFree(d, b, st)
  BY <1>1, <1>3, <1>4 DEF KeysFree, h
<1>6. pool3 = [o \in Outpoint |-> Written(d.pool, o, h, st.added[o], st.spent[o])]
  <2>1. ASSUME NEW o \in Outpoint
        PROVE  pool3[o] = Written(d.pool, o, h, st.added[o], st.spent[o])
    <3>1. CASE st.added[o] # {}
      <4>1. pool[o] = {}
        BY <1>3, <3>1
      <4> QED
        BY <3>1, <4>1 DEF Inserting, Written
    <3>2. CASE st.added[o] = {}
      BY <1>p, <3>2 DEF Inserting, Spending, Keys, Written
    <3> QED
      BY <3>1, <3>2
  <2> QED
    BY <2>1 DEF Inserting
<1>7. coord3 = [o \in Outpoint |-> Written(d.coord, o, h, st.cadded[o], st.cspent[o])]
  <2>1. ASSUME NEW o \in Outpoint
        PROVE  coord3[o] = Written(d.coord, o, h, st.cadded[o], st.cspent[o])
    <3>1. CASE st.cadded[o] # {}
      <4> DEFINE New(s) == {[item |-> x, created |-> h, spent |-> SpentAt(h, s)]
                              : x \in st.cadded[o]}
                 Mark(rows) == {MarkSpent(r, h, st.cspent[o]) : r \in rows}
      <4>1. new[o] = New({})
        <5>1. old[o] = {} /\ Unspents[o] = {}
          BY <1>4, <3>1 DEF Unspents
        <5> QED
          BY <1>p, <5>1 DEF Inserting
      <4>2. SpentAt(h, {}) = {}
        BY DEF SpentAt
      <4>3. coord3[o] = IF st.cspent[o] # {} THEN Mark(new[o]) ELSE new[o]
        <5> QED
          BY <1>p, <3>1 DEF Spending, Keys
      <4>4. Mark(New({})) = New(st.cspent[o])
        <5>1. MarkedNew(st.cadded[o], h, st.cspent[o])
          BY MarkNew
        <5> QED
          BY <4>2, <5>1 DEF MarkedNew
      <4>5. coord3[o] = New(st.cspent[o])
        BY <4>1, <4>3, <4>4
      <4> QED
        BY <3>1, <4>5 DEF Written
    <3>2. CASE st.cadded[o] = {}
      <4>1. new[o] = old[o]
        <5> QED
          BY <1>p, <3>2 DEF Inserting
      <4>2. coord3[o] = new[o]
        <5> QED
          BY <1>p, <3>2 DEF Spending, Keys
      <4>3. old[o] = Written(d.coord, o, h, st.cadded[o], st.cspent[o])
        BY <1>p, <3>2 DEF Spending, Keys, Written
      <4> QED
        BY <4>1, <4>2, <4>3
    <3> QED
      BY <3>1, <3>2
  <2> QED
    BY <1>p, <2>1 DEF Spending
<1> HIDE DEF pool3
<1>8. e[10] = WriteBlock(d, b, st, Snapshot(mem, st))
  BY <1>1, <1>6, <1>7 DEF WriteBlock, Tables, SnapshotRows, h
<1> QED
  BY <1>2, <1>5, <1>8 DEF st

-----------------------------------------------------------------------------
(* rollback_after, its nine statements executed. *)

\* e[k] is what the first k statements of rollback_after(h) make of d.
Undone(d, h, n, e) ==
    /\ e[0] = d
    /\ \A k \in 1 .. n : e[k] = RollingBack(e[k - 1], RollbackStatements[k], h)

\* The tables after the first n statements of rollback_after(h), from those of d.
PartlyUndone(d, h, n) ==
    Tables(IF n >= 9 THEN {b \in d.blocks : Height[b] <= h} ELSE d.blocks,
           IF n >= 8 THEN Deleting(Unspending(d.pool, h), h)
           ELSE IF n >= 1 THEN Unspending(d.pool, h) ELSE d.pool,
           IF n >= 4 THEN Deleting(Unspending(d.coord, h), h)
           ELSE IF n >= 2 THEN Unspending(d.coord, h) ELSE d.coord,
           IF n >= 6 THEN UpTo(d.tx0s, h) ELSE d.tx0s,
           IF n >= 5 THEN UpTo(d.rounds, h) ELSE d.rounds,
           IF n >= 3 THEN UpTo(d.spends, h) ELSE d.spends,
           IF n >= 7 THEN UpTo(d.snaps, h) ELSE d.snaps)

\* Each statement takes them one statement further.
LEMMA PartlyUndoneNext ==
    ASSUME NEW d, NEW h, NEW n \in 0 .. 8
    PROVE  RollingBack(PartlyUndone(d, h, n), RollbackStatements[n + 1], h)
             = PartlyUndone(d, h, n + 1)
<1> DEFINE u1 == Unspending(d.pool, h)
           u2 == Unspending(d.coord, h)
           s3 == UpTo(d.spends, h)
           c4 == Deleting(u2, h)
           r5 == UpTo(d.rounds, h)
           t6 == UpTo(d.tx0s, h)
           n7 == UpTo(d.snaps, h)
           p8 == Deleting(u1, h)
           b9 == {b \in d.blocks : Height[b] <= h}
           T0 == Tables(d.blocks, d.pool, d.coord, d.tx0s, d.rounds, d.spends, d.snaps)
           T1 == Tables(d.blocks, u1, d.coord, d.tx0s, d.rounds, d.spends, d.snaps)
           T2 == Tables(d.blocks, u1, u2, d.tx0s, d.rounds, d.spends, d.snaps)
           T3 == Tables(d.blocks, u1, u2, d.tx0s, d.rounds, s3, d.snaps)
           T4 == Tables(d.blocks, u1, c4, d.tx0s, d.rounds, s3, d.snaps)
           T5 == Tables(d.blocks, u1, c4, d.tx0s, r5, s3, d.snaps)
           T6 == Tables(d.blocks, u1, c4, t6, r5, s3, d.snaps)
           T7 == Tables(d.blocks, u1, c4, t6, r5, s3, n7)
           T8 == Tables(d.blocks, p8, c4, t6, r5, s3, n7)
           T9 == Tables(b9, p8, c4, t6, r5, s3, n7)
<1>0. /\ PartlyUndone(d, h, 0) = T0 /\ PartlyUndone(d, h, 1) = T1
      /\ PartlyUndone(d, h, 2) = T2 /\ PartlyUndone(d, h, 3) = T3
      /\ PartlyUndone(d, h, 4) = T4 /\ PartlyUndone(d, h, 5) = T5
      /\ PartlyUndone(d, h, 6) = T6 /\ PartlyUndone(d, h, 7) = T7
      /\ PartlyUndone(d, h, 8) = T8 /\ PartlyUndone(d, h, 9) = T9
  BY DEF PartlyUndone
<1> HIDE DEF u1, u2, s3, c4, r5, t6, n7, p8, b9,
             T0, T1, T2, T3, T4, T5, T6, T7, T8, T9
<1>1. RollingBack(T0, "unspend_pool", h) = T1
  BY DEF T0, T1, u1, RollingBack, Tables
<1>2. RollingBack(T1, "unspend_fees", h) = T2
  BY DEF T1, T2, u2, RollingBack, Tables
<1>3. RollingBack(T2, "delete_spends", h) = T3
  BY DEF T2, T3, s3, RollingBack, Tables
<1>4. RollingBack(T3, "delete_fees", h) = T4
  BY DEF T3, T4, c4, RollingBack, Tables
<1>5. RollingBack(T4, "delete_rounds", h) = T5
  BY DEF T4, T5, r5, RollingBack, Tables
<1>6. RollingBack(T5, "delete_tx0s", h) = T6
  BY DEF T5, T6, t6, RollingBack, Tables
<1>7. RollingBack(T6, "delete_snapshots", h) = T7
  BY DEF T6, T7, n7, RollingBack, Tables
<1>8. RollingBack(T7, "delete_pool", h) = T8
  BY DEF T7, T8, p8, RollingBack, Tables
<1>9. RollingBack(T8, "delete_blocks", h) = T9
  BY DEF T8, T9, b9, RollingBack, Tables
<1>10. n = 0 \/ n = 1 \/ n = 2 \/ n = 3 \/ n = 4 \/ n = 5 \/ n = 6 \/ n = 7 \/ n = 8
  OBVIOUS
<1> QED
  BY <1>0, <1>1, <1>2, <1>3, <1>4, <1>5, <1>6, <1>7, <1>8, <1>9, <1>10, StatementNames

\* So the statements executed so far have made those tables.
LEMMA UndoneIsPartly ==
    ASSUME NEW d, IsTables(d), NEW h, NEW n \in 0 .. 9, NEW e, Undone(d, h, n, e)
    PROVE  e[n] = PartlyUndone(d, h, n)
<1>0. e[0] = PartlyUndone(d, h, 0)
  BY DEF Undone, IsTables, PartlyUndone
<1>1. ASSUME NEW k \in 0 .. 8, k < n, e[k] = PartlyUndone(d, h, k)
      PROVE  e[k + 1] = PartlyUndone(d, h, k + 1)
  <2>1. k + 1 \in 1 .. n /\ (k + 1) - 1 = k
    BY <1>1
  <2>2. e[k + 1] = RollingBack(e[k], RollbackStatements[k + 1], h)
    BY <2>1 DEF Undone
  <2> QED
    BY <1>1, <2>2, PartlyUndoneNext
<1>2. n >= 1 => e[1] = PartlyUndone(d, h, 1)
  BY <1>0, <1>1
<1>3. n >= 2 => e[2] = PartlyUndone(d, h, 2)
  BY <1>1, <1>2
<1>4. n >= 3 => e[3] = PartlyUndone(d, h, 3)
  BY <1>1, <1>3
<1>5. n >= 4 => e[4] = PartlyUndone(d, h, 4)
  BY <1>1, <1>4
<1>6. n >= 5 => e[5] = PartlyUndone(d, h, 5)
  BY <1>1, <1>5
<1>7. n >= 6 => e[6] = PartlyUndone(d, h, 6)
  BY <1>1, <1>6
<1>8. n >= 7 => e[7] = PartlyUndone(d, h, 7)
  BY <1>1, <1>7
<1>9. n >= 8 => e[8] = PartlyUndone(d, h, 8)
  BY <1>1, <1>8
<1>10. n >= 9 => e[9] = PartlyUndone(d, h, 9)
  BY <1>1, <1>9
<1> QED
  BY <1>0, <1>2, <1>3, <1>4, <1>5, <1>6, <1>7, <1>8, <1>9, <1>10

LEMMA CutIsKept ==
    ASSUME NEW table, NEW k, TableSound(table, k), NEW h \in Int
    PROVE  Deleting(Unspending(table, h), h) = [o \in Outpoint |-> Kept(table, o, h)]
<1>1. ASSUME NEW o \in Outpoint
      PROVE  Deleting(Unspending(table, h), h)[o] = Kept(table, o, h)
  <2> DEFINE Cut(r) == [item |-> r.item, created |-> r.created,
                        spent |-> {s \in r.spent : s.height <= h}]
  <2>1. \A r \in table[o] : [r EXCEPT !.spent = {s \in @ : s.height <= h}] = Cut(r)
    <3> SUFFICES ASSUME NEW r \in table[o]
                 PROVE  [r EXCEPT !.spent = {s \in @ : s.height <= h}] = Cut(r)
      OBVIOUS
    <3> DEFINE X == {s \in r.spent : s.height <= h}
    <3>1. r = [item |-> r.item, created |-> r.created, spent |-> r.spent]
      BY DEF TableSound
    <3>2. [r EXCEPT !.spent = {s \in @ : s.height <= h}] = [r EXCEPT !.spent = X]
      OBVIOUS
    <3> HIDE DEF X
    <3>3. [r EXCEPT !.spent = X] = [item |-> r.item, created |-> r.created, spent |-> X]
      BY <3>1
    <3> QED
      BY <3>2, <3>3 DEF X
  <2>2. Unspending(table, h)[o] = {Cut(r) : r \in table[o]}
    <3> DEFINE Raw(r) == [r EXCEPT !.spent = {s \in @ : s.height <= h}]
    <3>1. Unspending(table, h)[o] = {Raw(r) : r \in table[o]}
      BY DEF Unspending
    <3>2. \A r \in table[o] : Raw(r) = Cut(r)
      BY <2>1
    <3> HIDE DEF Raw, Cut
    <3> QED
      BY <3>1, <3>2
  <2>3. \A r \in table[o] : Cut(r).created = r.created
    OBVIOUS
  <2>4. Deleting(Unspending(table, h), h)[o]
          = {q \in {Cut(r) : r \in table[o]} : q.created <= h}
    BY <2>2 DEF Deleting
  <2> QED
    BY <2>3, <2>4 DEF Kept
<1> QED
  BY <1>1 DEF Deleting

LEMMA PartlyUndoneLast ==
    ASSUME NEW d, Sound(d), NEW h \in Int
    PROVE  PartlyUndone(d, h, 9) = Rollback(d, h)
<1>1. /\ Deleting(Unspending(d.pool, h), h) = [o \in Outpoint |-> Kept(d.pool, o, h)]
      /\ Deleting(Unspending(d.coord, h), h) = [o \in Outpoint |-> Kept(d.coord, o, h)]
  BY CutIsKept DEF Sound
<1> QED
  BY <1>1 DEF PartlyUndone, Rollback, Tables

LEMMA UndoneIsRollback ==
    ASSUME NEW d, Sound(d), NEW h \in Int, NEW e, Undone(d, h, 9, e)
    PROVE  e[9] = Rollback(d, h)
<1>1. IsTables(d)
  BY DEF Sound, IsTables, Tables
<1> QED
  BY <1>1, UndoneIsPartly, PartlyUndoneLast

-----------------------------------------------------------------------------
(* The inductive invariant: what the writer's connection sees is what the   *)
(* statements executed so far make of the committed tables.                 *)

ApplyRunning ==
    LET st == Staged(mem, txn.at)
    IN  /\ txn.call = "apply" /\ txn.at \in Block /\ txn.next \in 1 .. 11
        /\ Connects(db, txn.at) /\ st.ok /\ Reconciles(mem, st)
        /\ \E e : Applied(db, txn.at, txn.next - 1, e) /\ draft = e[txn.next - 1]

RollbackRunning ==
    /\ txn.call = "rollback" /\ txn.at \in {StartHeight - 1} \cup Heights
    /\ txn.at >= StartHeight - 1 /\ txn.next \in 1 .. 10
    /\ \E b \in db.blocks : Height[b] > txn.at
    /\ \E e : Undone(db, txn.at, txn.next - 1, e) /\ draft = e[txn.next - 1]

Running ==
    /\ txn = None => draft = db
    /\ txn # None => /\ mem # None
                     /\ txn = [call |-> txn.call, at |-> txn.at, next |-> txn.next]
                     /\ ApplyRunning \/ RollbackRunning

(* A call is never mistaken for the absence of one.                         *)
LEMMA CallIsSome ==
    /\ \A b \in Block, n \in Nat : [call |-> "apply", at |-> b, next |-> n] # None
    /\ \A h \in {StartHeight - 1} \cup Heights, n \in Nat :
          [call |-> "rollback", at |-> h, next |-> n] # None
BY CallAssumption DEF ApplyCalls, RollbackCalls

(* What was executed does not depend on the step the call takes next.       *)
LEMMA AppliedStays ==
    ASSUME NEW d, NEW b, NEW n, NEW e, Applied(d, b, n, e), mem' = mem
    PROVE  Applied(d, b, n, e)'
<1>1. \A x, s : (Applying(x, s, b))' = Applying(x, s, b)
  BY DEF Applying
<1>2. \A x, s : (KeyTaken(x, s, b))' = KeyTaken(x, s, b)
  BY DEF KeyTaken
<1> QED
  BY <1>1, <1>2 DEF Applied

LEMMA AppliedNext ==
    ASSUME NEW d, NEW b, NEW n \in Nat, NEW e, Applied(d, b, n, e),
           ~KeyTaken(e[n], ApplyStatements[n + 1], b)
    PROVE  \E f : /\ Applied(d, b, n + 1, f)
                  /\ f[n + 1] = Applying(e[n], ApplyStatements[n + 1], b)
<1> DEFINE x == Applying(e[n], ApplyStatements[n + 1], b)
           f == [k \in 0 .. n + 1 |-> IF k <= n THEN e[k] ELSE x]
<1> HIDE DEF x
<1>1. f[0] = d /\ f[n + 1] = x /\ \A k \in 0 .. n : f[k] = e[k]
  BY DEF Applied
<1> HIDE DEF f
<1>2. ASSUME NEW k \in 1 .. n + 1
      PROVE  /\ ~KeyTaken(f[k - 1], ApplyStatements[k], b)
             /\ f[k] = Applying(f[k - 1], ApplyStatements[k], b)
  <2>1. CASE k \in 1 .. n
    <3>1. f[k] = e[k] /\ f[k - 1] = e[k - 1]
      BY <1>1, <2>1
    <3> QED
      BY <2>1, <3>1 DEF Applied
  <2>2. CASE k = n + 1
    <3>1. f[k] = x /\ f[k - 1] = e[n]
      BY <1>1, <2>2
    <3> QED
      BY <2>2, <3>1 DEF x
  <2> QED
    BY <2>1, <2>2
<1>3. Applied(d, b, n + 1, f)
  BY <1>1, <1>2 DEF Applied
<1> QED
  BY <1>1, <1>3 DEF x

LEMMA UndoneNext ==
    ASSUME NEW d, NEW h, NEW n \in Nat, NEW e, Undone(d, h, n, e)
    PROVE  \E f : /\ Undone(d, h, n + 1, f)
                  /\ f[n + 1] = RollingBack(e[n], RollbackStatements[n + 1], h)
<1> DEFINE x == RollingBack(e[n], RollbackStatements[n + 1], h)
           f == [k \in 0 .. n + 1 |-> IF k <= n THEN e[k] ELSE x]
<1> HIDE DEF x
<1>1. f[0] = d /\ f[n + 1] = x /\ \A k \in 0 .. n : f[k] = e[k]
  BY DEF Undone
<1> HIDE DEF f
<1>2. ASSUME NEW k \in 1 .. n + 1
      PROVE  f[k] = RollingBack(f[k - 1], RollbackStatements[k], h)
  <2>1. CASE k \in 1 .. n
    <3>1. f[k] = e[k] /\ f[k - 1] = e[k - 1]
      BY <1>1, <2>1
    <3> QED
      BY <2>1, <3>1 DEF Undone
  <2>2. CASE k = n + 1
    <3>1. f[k] = x /\ f[k - 1] = e[n]
      BY <1>1, <2>2
    <3> QED
      BY <2>2, <3>1 DEF x
  <2> QED
    BY <2>1, <2>2
<1>3. Undone(d, h, n + 1, f)
  BY <1>1, <1>2 DEF Undone
<1> QED
  BY <1>1, <1>3 DEF x

(* A statement that runs takes a call one statement further.                *)
LEMMA ExecuteRuns ==
    ASSUME Running, Execute
    PROVE  Running'
<1>0. /\ txn # None /\ mem # None /\ (ApplyRunning \/ RollbackRunning)
      /\ txn = [call |-> txn.call, at |-> txn.at, next |-> txn.next]
      /\ UNCHANGED vars /\ More /\ Allowed /\ draft' = Executed
      /\ txn' = [txn EXCEPT !.next = @ + 1]
  BY DEF Running, Execute
<1>00. db' = db /\ mem' = mem
  BY <1>0 DEF vars
<1> DEFINE at == txn.at
           n  == txn.next - 1
<1>s. txn' = [call |-> txn.call, at |-> at, next |-> txn.next + 1]
  BY <1>0
<1> HIDE DEF at, n
<1>1. CASE ApplyRunning
  <2>1. /\ txn.call = "apply" /\ at \in Block /\ n \in 0 .. 10 /\ txn.next = n + 1
        /\ Connects(db, at) /\ Staged(mem, at).ok /\ Reconciles(mem, Staged(mem, at))
    BY <1>1 DEF ApplyRunning, at, n
  <2>2. PICK e : Applied(db, at, n, e) /\ draft = e[n]
    BY <1>1 DEF ApplyRunning, at, n
  <2>3. Statements = ApplyStatements
    BY <2>1 DEF Statements
  <2>4. n \in 0 .. 9 /\ Statement = ApplyStatements[n + 1]
    BY <1>0, <2>1, <2>3, StatementNames DEF More, Statement
  <2>5. ~KeyTaken(draft, ApplyStatements[n + 1], at)
        /\ draft' = Applying(draft, ApplyStatements[n + 1], at)
    BY <1>0, <2>1, <2>4 DEF Allowed, Executed, at
  <2>6. PICK f : Applied(db, at, n + 1, f) /\ draft' = f[n + 1]
    BY <2>2, <2>4, <2>5, AppliedNext
  <2>7. PICK b, k : b = at /\ k = n
    OBVIOUS
  <2>8. Applied(db, b, k + 1, f)'
    <3>1. Applied(db, b, k + 1, f)
      BY <2>6, <2>7
    <3> QED
      BY <1>00, <3>1, AppliedStays
  <2>9. /\ txn'.call = "apply" /\ txn'.at = b /\ txn'.next = k + 2
        /\ txn' = [call |-> txn'.call, at |-> txn'.at, next |-> txn'.next]
    BY <1>s, <2>1, <2>7
  <2>10. txn' # None
    BY <1>s, <2>1, CallIsSome
  <2>11. k \in 0 .. 9 /\ txn'.next - 1 = k + 1
    BY <2>4, <2>7, <2>9
  <2>12. ApplyRunning'
    <3>1. /\ txn'.call = "apply" /\ txn'.at \in Block /\ txn'.next \in 1 .. 11
          /\ Connects(db', txn'.at) /\ Staged(mem', txn'.at).ok
          /\ Reconciles(mem', Staged(mem', txn'.at))
      BY <1>00, <2>1, <2>7, <2>9, <2>11
    <3>2. Applied(db, txn.at, txn.next - 1, f)' /\ draft' = f[txn'.next - 1]
      BY <2>6, <2>7, <2>8, <2>9, <2>11
    <3> QED
      BY <3>1, <3>2 DEF ApplyRunning
  <2> QED
    BY <1>0, <1>00, <2>9, <2>10, <2>12 DEF Running
<1>2. CASE RollbackRunning
  <2>1. /\ txn.call = "rollback" /\ at \in {StartHeight - 1} \cup Heights
        /\ at >= StartHeight - 1 /\ n \in 0 .. 9 /\ txn.next = n + 1
        /\ \E b \in db.blocks : Height[b] > at
    BY <1>2 DEF RollbackRunning, at, n
  <2>2. PICK e : Undone(db, at, n, e) /\ draft = e[n]
    BY <1>2 DEF RollbackRunning, at, n
  <2>3. Statements = RollbackStatements
    BY <2>1 DEF Statements
  <2>4. n \in 0 .. 8 /\ Statement = RollbackStatements[n + 1]
    BY <1>0, <2>1, <2>3, StatementNames DEF More, Statement
  <2>5. draft' = RollingBack(draft, RollbackStatements[n + 1], at)
    BY <1>0, <2>1, <2>4 DEF Executed, at
  <2>6. PICK f : Undone(db, at, n + 1, f) /\ draft' = f[n + 1]
    BY <2>2, <2>4, <2>5, UndoneNext
  <2>7. /\ txn'.call = "rollback" /\ txn'.at = at /\ txn'.next = n + 2
        /\ txn' = [call |-> txn'.call, at |-> txn'.at, next |-> txn'.next]
    BY <1>s, <2>1
  <2>8. txn' # None
    <3>1. txn' = [call |-> "rollback", at |-> at, next |-> txn.next + 1]
          /\ txn.next + 1 \in Nat
      BY <1>s, <2>1
    <3> QED
      BY <2>1, <3>1, CallIsSome
  <2>9. txn'.next - 1 = n + 1
    BY <2>1, <2>7
  <2> QED
    BY <1>0, <1>00, <2>1, <2>4, <2>6, <2>7, <2>8, <2>9 DEF Running, RollbackRunning
<1> QED
  BY <1>0, <1>1, <1>2

LEMMA BeginApplyRuns ==
    ASSUME Running, NEW b \in Block, BeginApply(b)
    PROVE  Running'
<1>1. /\ mem # None /\ Connects(db, b) /\ Staged(mem, b).ok
      /\ Reconciles(mem, Staged(mem, b)) /\ draft = db
      /\ txn' = [call |-> "apply", at |-> b, next |-> 1]
      /\ db' = db /\ mem' = mem /\ draft' = draft
  BY DEF BeginApply, Begin, Running, vars
<1> DEFINE e == [k \in {0} |-> db]
<1>2. Applied(db, b, 0, e) /\ e[0] = db
  BY DEF Applied
<1> HIDE DEF e
<1>3. /\ txn'.call = "apply" /\ txn'.at = b /\ txn'.next = 1 /\ txn'.next - 1 = 0
      /\ txn' = [call |-> txn'.call, at |-> txn'.at, next |-> txn'.next]
  BY <1>1
<1>4. txn' # None
  BY <1>1, CallIsSome
<1>5. \E f : Applied(db, b, 0, f)' /\ draft' = f[0]
  <2>1. PICK f : f = e
    OBVIOUS
  <2>2. Applied(db, b, 0, f) /\ draft' = f[0]
    BY <1>1, <1>2, <2>1
  <2>3. Applied(db, b, 0, f)'
    BY <1>1, <2>2, AppliedStays
  <2> QED
    BY <2>2, <2>3
<1> QED
  BY <1>1, <1>3, <1>4, <1>5 DEF Running, ApplyRunning

LEMMA BeginRollbackRuns ==
    ASSUME Running, NEW h \in {StartHeight - 1} \cup Heights, BeginRollback(h)
    PROVE  Running'
<1>1. /\ mem # None /\ h >= StartHeight - 1
      /\ \E b \in db.blocks : Height[b] > h
      /\ draft = db /\ txn' = [call |-> "rollback", at |-> h, next |-> 1]
      /\ db' = db /\ mem' = mem /\ draft' = draft
  BY DEF BeginRollback, Begin, Running, vars
<1> DEFINE e == [k \in {0} |-> db]
<1>2. Undone(db, h, 0, e) /\ e[0] = db
  BY DEF Undone
<1> HIDE DEF e
<1>3. /\ txn'.call = "rollback" /\ txn'.at = h /\ txn'.next = 1 /\ txn'.next - 1 = 0
      /\ txn' = [call |-> txn'.call, at |-> txn'.at, next |-> txn'.next]
  BY <1>1
<1>4. txn' # None
  BY <1>1, CallIsSome
<1>5. \E f : Undone(db', h, 0, f) /\ draft' = f[0]
  BY <1>1, <1>2
<1> QED
  BY <1>1, <1>3, <1>4, <1>5 DEF Running, RollbackRunning

LEMMA RunningStep ==
    ASSUME Running, [CallsNext]_allVars
    PROVE  Running'
<1>1. ASSUME NEW b \in Block, BeginApply(b) PROVE Running'
  BY <1>1, BeginApplyRuns
<1>2. ASSUME NEW h \in {StartHeight - 1} \cup Heights, BeginRollback(h)
      PROVE  Running'
  BY <1>2, BeginRollbackRuns
<1>3. CASE Execute
  BY <1>3, ExecuteRuns
<1>4. CASE Fail
  BY <1>4 DEF Fail, RollbackQuietly, Running, vars
<1>5. CASE Return
  BY <1>5 DEF Return, Commit, Running
<1>6. CASE Between
  <2>1. txn = None /\ txn' = None /\ draft' = draft /\ db' = db
    BY <1>6 DEF Between, Open, Close, Checkpoint
  <2> QED
    BY <2>1 DEF Running
<1>7. CASE Die
  BY <1>7 DEF Die, Running
<1>8. CASE UNCHANGED allVars
  <2>1. db' = db /\ mem' = mem /\ draft' = draft /\ txn' = txn
    BY <1>8 DEF allVars, vars
  <2>2. CASE txn = None
    BY <2>1, <2>2 DEF Running
  <2>3. CASE txn # None /\ ApplyRunning
    <3> DEFINE at == txn.at
               n  == txn.next - 1
    <3>1. PICK e : Applied(db, at, n, e) /\ draft = e[n]
      BY <2>3 DEF ApplyRunning
    <3>2. Applied(db, at, n, e)'
      BY <2>1, <3>1, AppliedStays
    <3> QED
      BY <2>1, <2>3, <3>1, <3>2 DEF Running, ApplyRunning
  <2>4. CASE txn # None /\ RollbackRunning
    BY <2>1, <2>4 DEF Running, RollbackRunning
  <2> QED
    BY <2>2, <2>3, <2>4 DEF Running
<1> QED
  BY <1>1, <1>2, <1>3, <1>4, <1>5, <1>6, <1>7, <1>8 DEF CallsNext

-----------------------------------------------------------------------------
(* Refinement. *)

(* COMMIT publishes what the one step of ChainIndex writes.                 *)
LEMMA ReturnIsACall ==
    ASSUME TablesSound, Running, Return
    PROVE  Next
<1>0. /\ txn # None /\ mem # None /\ (ApplyRunning \/ RollbackRunning)
      /\ ~More /\ Commit(draft) /\ mem' = Following
  BY DEF Running, Return
<1>t. Sound(db) /\ IsTables(db)
  BY DEF TablesSound, Sound, IsTables, Tables
<1>1. CASE ApplyRunning
  <2> DEFINE b == txn.at
  <2>1. /\ txn.call = "apply" /\ b \in Block /\ txn.next \in 1 .. 11
        /\ Connects(db, b) /\ Staged(mem, b).ok /\ Reconciles(mem, Staged(mem, b))
    BY <1>1 DEF ApplyRunning
  <2>s. Statements = ApplyStatements
    BY <2>1 DEF Statements
  <2>2. txn.next - 1 = 10
    BY <1>0, <2>1, <2>s, StatementNames DEF More
  <2>3. PICK e : Applied(db, b, 10, e) /\ draft = e[10]
    BY <1>1, <2>2 DEF ApplyRunning
  <2> HIDE DEF b
  <2>4. draft = Indexed(db, mem, b) /\ KeysFree(db, b, Staged(mem, b))
    BY <1>t, <2>3, AppliedIsIndexed
  <2>5. Accepts(db, mem, b)
    BY <2>1, <2>4 DEF Accepts
  <2>6. ApplyBlock(b)
    BY <1>0, <2>1, <2>4, <2>5 DEF ApplyBlock, Following, b
  <2> QED
    BY <2>1, <2>6 DEF Next
<1>2. CASE RollbackRunning
  <2> DEFINE h == txn.at
  <2>1. /\ txn.call = "rollback" /\ h \in {StartHeight - 1} \cup Heights
        /\ txn.next \in 1 .. 10 /\ h >= StartHeight - 1
        /\ \E b \in db.blocks : Height[b] > h
    BY <1>2 DEF RollbackRunning
  <2>s. Statements = RollbackStatements
    BY <2>1 DEF Statements
  <2>2. txn.next - 1 = 9
    BY <1>0, <2>1, <2>s, StatementNames DEF More
  <2>3. h \in Int
    BY <2>1, HeightAssumption DEF Heights
  <2>4. PICK e : Undone(db, h, 9, e) /\ draft = e[9]
    BY <1>2, <2>2 DEF RollbackRunning
  <2> HIDE DEF h
  <2>5. draft = Rollback(db, h)
    BY <1>t, <2>3, <2>4, UndoneIsRollback
  <2>6. RollbackAfter(h)
    BY <1>0, <2>1, <2>5 DEF RollbackAfter, Following, h
  <2> QED
    BY <2>1, <2>6 DEF Next
<1> QED
  BY <1>0, <1>1, <1>2

LEMMA CallsStep ==
    ASSUME TablesSound, Running, [CallsNext]_allVars
    PROVE  [Next]_vars
<1>1. ASSUME NEW b \in Block, BeginApply(b) PROVE UNCHANGED vars
  BY <1>1 DEF BeginApply, Begin
<1>2. ASSUME NEW h \in {StartHeight - 1} \cup Heights, BeginRollback(h)
      PROVE  UNCHANGED vars
  BY <1>2 DEF BeginRollback, Begin
<1>3. CASE Execute \/ Fail \/ UNCHANGED allVars
  BY <1>3 DEF Execute, Fail, allVars
<1>4. CASE Return
  BY <1>4, ReturnIsACall
<1>5. CASE Between \/ Die
  BY <1>5 DEF Between, Die, Next
<1> QED
  BY <1>1, <1>2, <1>3, <1>4, <1>5 DEF CallsNext

(* Whatever statement fails and wherever the process dies, the calls behave *)
(* as the single steps of ChainIndex: each has its whole effect, in tables  *)
(* and memory, or none (_write_block, rollback_after).                      *)
THEOREM CallsImplementIndex == CallsSpec => ImplementsIndex
<1>1. CallsInit => Init /\ TablesSound /\ Running
  BY TablesSoundInit DEF CallsInit, Running
<1>2. TablesSound /\ Running /\ [CallsNext]_allVars
        => TablesSound' /\ Running' /\ [Next]_vars
  BY TablesSoundStep, RunningStep, CallsStep
<1> QED
  BY <1>1, <1>2, PTL DEF CallsSpec, ImplementsIndex, Spec

(* The calls inherit what is proved of the single steps: a reader or a      *)
(* restart only ever meets whole blocks, and memory is what it would load.  *)
COROLLARY CallsKeepTablesAndMemory ==
    CallsSpec => [](TablesSound /\ MemoryMatches)
BY CallsImplementIndex, TablesStaySound, MemoryStaysReloaded, PTL DEF ImplementsIndex

(* And the index built statement by statement is the replay of its chain.   *)
COROLLARY CallsImplementReplay == CallsSpec => ImplementsReplay
BY CallsImplementIndex, IndexImplementsReplay, PTL DEF ImplementsIndex

-----------------------------------------------------------------------------
(* No statement meets a constraint. *)

\* Every height a row of an output names is one of known.
TableKnown(known, table) ==
    \A o \in Outpoint : \A r \in table[o] :
       r.created \in known /\ \A s \in r.spent : s.height \in known

\* Every row of a log is of a height in known.
RowsKnown(known, rows) == \A r \in rows : r.height \in known

HeightsOf(blocks) == {Height[b] : b \in blocks}

\* The foreign keys of a database, table by table.
LEMMA HeightsKnownTables ==
    ASSUME NEW blocks, NEW pool, NEW coord, NEW tx0s, NEW rounds, NEW spends, NEW snaps,
           NEW known, known = HeightsOf(blocks),
           TableKnown(known, pool), TableKnown(known, coord),
           RowsKnown(known, tx0s), RowsKnown(known, rounds),
           RowsKnown(known, spends), RowsKnown(known, snaps)
    PROVE  HeightsKnown(Tables(blocks, pool, coord, tx0s, rounds, spends, snaps))
<1> DEFINE e == Tables(blocks, pool, coord, tx0s, rounds, spends, snaps)
<1>1. /\ e.blocks = blocks /\ e.pool = pool /\ e.coord = coord /\ e.tx0s = tx0s
      /\ e.rounds = rounds /\ e.spends = spends /\ e.snaps = snaps
  BY DEF Tables
<1> HIDE DEF e
<1>2. known = {Height[b] : b \in e.blocks}
  BY <1>1 DEF HeightsOf
<1>3. /\ \A o \in Outpoint : \A r \in e.pool[o] :
           r.created \in known /\ \A s \in r.spent : s.height \in known
      /\ \A o \in Outpoint : \A r \in e.coord[o] :
           r.created \in known /\ \A s \in r.spent : s.height \in known
  BY <1>1 DEF TableKnown
<1>4. \A r \in e.tx0s \cup e.rounds \cup e.spends \cup e.snaps : r.height \in known
  BY <1>1 DEF RowsKnown
<1>5. HeightsKnown(e)
  BY <1>2, <1>3, <1>4 DEF HeightsKnown
<1> QED
  BY <1>5 DEF e

\* A database whose rows come from its blocks has them.
LEMMA SourcedKnown ==
    ASSUME NEW d, Sourced(d), NEW known, HeightsOf(d.blocks) \subseteq known
    PROVE  /\ TableKnown(known, d.pool) /\ TableKnown(known, d.coord)
           /\ RowsKnown(known, d.tx0s) /\ RowsKnown(known, d.rounds)
           /\ RowsKnown(known, d.spends) /\ RowsKnown(known, d.snaps)
<1>1. \A c \in d.blocks : Height[c] \in known
  BY DEF HeightsOf
<1>2. TableKnown(known, d.pool)
  BY <1>1 DEF Sourced, TableSourced, TableKnown
<1>3. TableKnown(known, d.coord)
  BY <1>1 DEF Sourced, TableSourced, TableKnown
<1>4. /\ RowsKnown(known, d.tx0s) /\ RowsKnown(known, d.rounds)
      /\ RowsKnown(known, d.spends)
  BY <1>1 DEF Sourced, RowsSourced, RowsKnown
<1>5. RowsKnown(known, d.snaps)
  BY <1>1 DEF Sourced, RowsKnown
<1> QED
  BY <1>2, <1>3, <1>4, <1>5

\* A statement of apply_block adds no height but that of its block.
LEMMA SpendingKnown ==
    ASSUME NEW known, NEW table, TableKnown(known, table), NEW h \in known,
           NEW chosen, NEW spend
    PROVE  TableKnown(known, Spending(table, chosen, h, spend))
<1> SUFFICES ASSUME NEW o \in Outpoint, NEW r \in Spending(table, chosen, h, spend)[o]
             PROVE  r.created \in known /\ \A s \in r.spent : s.height \in known
  BY DEF TableKnown
<1>1. \A s \in SpentAt(h, spend[o]) : s.height = h
  BY SpentAtIs
<1>2. CASE o \in chosen
  <2>1. PICK q \in table[o] : r = MarkSpent(q, h, spend[o])
    BY <1>2 DEF Spending
  <2>2. r.created = q.created /\ (r.spent = q.spent \/ r.spent = SpentAt(h, spend[o]))
    BY <2>1 DEF MarkSpent
  <2> QED
    BY <1>1, <2>2 DEF TableKnown
<1>3. CASE o \notin chosen
  BY <1>3 DEF Spending, TableKnown
<1> QED
  BY <1>2, <1>3

LEMMA InsertingKnown ==
    ASSUME NEW known, NEW table, TableKnown(known, table), NEW h \in known,
           NEW new, NEW spend
    PROVE  TableKnown(known, Inserting(table, h, new, spend))
<1> SUFFICES ASSUME NEW o \in Outpoint, NEW r \in Inserting(table, h, new, spend)[o]
             PROVE  r.created \in known /\ \A s \in r.spent : s.height \in known
  BY DEF TableKnown
<1>1. \A s \in SpentAt(h, spend[o]) : s.height = h
  BY SpentAtIs
<1>2. CASE r \in table[o]
  BY <1>2 DEF TableKnown
<1>3. CASE \E x \in new[o] : r = [item |-> x, created |-> h, spent |-> SpentAt(h, spend[o])]
  BY <1>1, <1>3
<1> QED
  BY <1>2, <1>3 DEF Inserting

LEMMA LoggedKnown ==
    ASSUME NEW known, NEW rows, RowsKnown(known, rows), NEW h \in known, NEW new
    PROVE  RowsKnown(known, rows \cup Logged(h, new))
BY DEF RowsKnown, Logged

\* So every foreign key holds from insert_block on.
LEMMA PartlyKnown ==
    ASSUME NEW d, Sourced(d), NEW b, NEW n \in 1 .. 10
    PROVE  HeightsKnown(Partly(d, b, n))
<1> DEFINE st == Staged(mem, b)
           h  == Height[b]
           bs == d.blocks \cup {b}
           known == HeightsOf(bs)
<1>1. HeightsOf(d.blocks) \subseteq known /\ h \in known
  BY DEF HeightsOf
<1> HIDE DEF known, h, st
<1>2. /\ TableKnown(known, d.pool) /\ TableKnown(known, d.coord)
      /\ RowsKnown(known, d.tx0s) /\ RowsKnown(known, d.rounds)
      /\ RowsKnown(known, d.spends) /\ RowsKnown(known, d.snaps)
  BY <1>1, SourcedKnown
<1>3. TableKnown(known, PoolSpent(d, b))
  BY <1>1, <1>2, SpendingKnown DEF PoolSpent, h
<1>4. TableKnown(known, Inserting(PoolSpent(d, b), h, st.added, st.spent))
  BY <1>1, <1>3, InsertingKnown
<1>5. TableKnown(known, OldFeesSpent(d, b))
  BY <1>1, <1>2, SpendingKnown DEF OldFeesSpent, h
<1>6. TableKnown(known, NewFeesIn(d, b))
  BY <1>1, <1>5, InsertingKnown DEF NewFeesIn, h
<1>7. TableKnown(known, FeesSpent(d, b))
  BY <1>1, <1>6, SpendingKnown DEF FeesSpent, h
<1>8. /\ RowsKnown(known, d.tx0s \cup Logged(h, st.tx0s))
      /\ RowsKnown(known, d.rounds \cup Logged(h, st.rounds))
      /\ RowsKnown(known, d.spends \cup Logged(h, st.spends))
      /\ RowsKnown(known, d.snaps \cup Logged(h, SnapshotRows(mem, st)))
  BY <1>1, <1>2, LoggedKnown
<1>9. PICK pool, coord, tx0s, rounds, spends, snaps :
        /\ Partly(d, b, n) = Tables(bs, pool, coord, tx0s, rounds, spends, snaps)
        /\ TableKnown(known, pool) /\ TableKnown(known, coord)
        /\ RowsKnown(known, tx0s) /\ RowsKnown(known, rounds)
        /\ RowsKnown(known, spends) /\ RowsKnown(known, snaps)
  <2> DEFINE X(k, new, old) == IF n >= k THEN new ELSE old
             p == IF n >= 3 THEN Inserting(PoolSpent(d, b), h, st.added, st.spent)
                  ELSE IF n = 2 THEN PoolSpent(d, b) ELSE d.pool
             c == IF n >= 9 THEN FeesSpent(d, b)
                  ELSE IF n = 8 THEN NewFeesIn(d, b)
                  ELSE IF n >= 4 THEN OldFeesSpent(d, b) ELSE d.coord
             t == X(5, d.tx0s \cup Logged(h, st.tx0s), d.tx0s)
             r == X(6, d.rounds \cup Logged(h, st.rounds), d.rounds)
             w == X(7, d.spends \cup Logged(h, st.spends), d.spends)
             q == X(10, d.snaps \cup Logged(h, SnapshotRows(mem, st)), d.snaps)
  <2>1. Partly(d, b, n) = Tables(bs, p, c, t, r, w, q)
    BY DEF Partly, h, st
  <2>2. TableKnown(known, p)
    BY <1>2, <1>3, <1>4
  <2>3. TableKnown(known, c)
    BY <1>2, <1>5, <1>6, <1>7
  <2>4. RowsKnown(known, t) /\ RowsKnown(known, r)
    BY <1>2, <1>8
  <2>5. RowsKnown(known, w) /\ RowsKnown(known, q)
    BY <1>2, <1>8
  <2> HIDE DEF p, c, t, r, w, q
  <2> QED
    BY <2>1, <2>2, <2>3, <2>4, <2>5
<1> HIDE DEF bs
<1>10. HeightsKnown(Tables(bs, pool, coord, tx0s, rounds, spends, snaps))
  BY <1>9, HeightsKnownTables DEF known
<1> QED
  BY <1>9, <1>10

\* A statement of rollback_after adds none.
LEMMA UnspendingKnown ==
    ASSUME NEW known, NEW n, NEW table, TableSound(table, n), TableKnown(known, table),
           NEW h
    PROVE  /\ TableKnown(known, Unspending(table, h))
           /\ TableKnown(known, Deleting(Unspending(table, h), h))
<1>1. ASSUME NEW o \in Outpoint, NEW r \in Unspending(table, h)[o]
      PROVE  r.created \in known /\ \A s \in r.spent : s.height \in known
  <2>1. PICK q \in table[o] : r = [q EXCEPT !.spent = {s \in @ : s.height <= h}]
    BY <1>1 DEF Unspending
  <2>2. q = [item |-> q.item, created |-> q.created, spent |-> q.spent]
    BY DEF TableSound
  <2> DEFINE X == {s \in q.spent : s.height <= h}
  <2>3. r = [q EXCEPT !.spent = X]
    BY <2>1
  <2>4. X \subseteq q.spent
    OBVIOUS
  <2> HIDE DEF X
  <2>5. r.created = q.created /\ r.spent = X
    BY <2>2, <2>3
  <2> QED
    BY <2>4, <2>5 DEF TableKnown
<1>2. TableKnown(known, Unspending(table, h))
  BY <1>1 DEF TableKnown
<1> QED
  BY <1>2 DEF TableKnown, Deleting

\* So every foreign key holds while it deletes rows, and when their blocks go.
LEMMA PartlyUndoneKnown ==
    ASSUME NEW d, Sound(d), Sourced(d), NEW h \in Int, NEW n \in 0 .. 9
    PROVE  HeightsKnown(PartlyUndone(d, h, n))
<1>1. CASE n = 9
  <2> DEFINE e == Rollback(d, h)
             known == HeightsOf(e.blocks)
  <2>1. PartlyUndone(d, h, n) = e
    BY <1>1, PartlyUndoneLast
  <2>2. e = Tables(e.blocks, e.pool, e.coord, e.tx0s, e.rounds, e.spends, e.snaps)
    BY DEF Rollback, Tables
  <2>3. Sourced(e)
    BY SourcedRollback
  <2> HIDE DEF e
  <2>4. /\ TableKnown(known, e.pool) /\ TableKnown(known, e.coord)
        /\ RowsKnown(known, e.tx0s) /\ RowsKnown(known, e.rounds)
        /\ RowsKnown(known, e.spends) /\ RowsKnown(known, e.snaps)
    BY <2>3, SourcedKnown
  <2>5. HeightsKnown(Tables(e.blocks, e.pool, e.coord, e.tx0s, e.rounds, e.spends, e.snaps))
    BY <2>4, HeightsKnownTables
  <2> QED
    BY <2>1, <2>2, <2>5
<1>2. CASE n \in 0 .. 8
  <2> DEFINE known == HeightsOf(d.blocks)
  <2>1. /\ TableKnown(known, d.pool) /\ TableKnown(known, d.coord)
        /\ RowsKnown(known, d.tx0s) /\ RowsKnown(known, d.rounds)
        /\ RowsKnown(known, d.spends) /\ RowsKnown(known, d.snaps)
    BY SourcedKnown
  <2>2. TableSound(d.pool, LastHeight(d)) /\ TableSound(d.coord, LastHeight(d))
    BY DEF Sound
  <2> HIDE DEF known
  <2>3. /\ TableKnown(known, Unspending(d.pool, h))
        /\ TableKnown(known, Deleting(Unspending(d.pool, h), h))
    BY <2>1, <2>2, UnspendingKnown
  <2>4. /\ TableKnown(known, Unspending(d.coord, h))
        /\ TableKnown(known, Deleting(Unspending(d.coord, h), h))
    BY <2>1, <2>2, UnspendingKnown
  <2>5. /\ RowsKnown(known, UpTo(d.tx0s, h)) /\ RowsKnown(known, UpTo(d.rounds, h))
        /\ RowsKnown(known, UpTo(d.spends, h)) /\ RowsKnown(known, UpTo(d.snaps, h))
    BY <2>1 DEF RowsKnown, UpTo
  <2> DEFINE p == IF n >= 8 THEN Deleting(Unspending(d.pool, h), h)
                  ELSE IF n >= 1 THEN Unspending(d.pool, h) ELSE d.pool
             c == IF n >= 4 THEN Deleting(Unspending(d.coord, h), h)
                  ELSE IF n >= 2 THEN Unspending(d.coord, h) ELSE d.coord
             t == IF n >= 6 THEN UpTo(d.tx0s, h) ELSE d.tx0s
             r == IF n >= 5 THEN UpTo(d.rounds, h) ELSE d.rounds
             w == IF n >= 3 THEN UpTo(d.spends, h) ELSE d.spends
             q == IF n >= 7 THEN UpTo(d.snaps, h) ELSE d.snaps
  <2>6. PartlyUndone(d, h, n) = Tables(d.blocks, p, c, t, r, w, q)
    BY <1>2 DEF PartlyUndone
  <2>7. TableKnown(known, p)
    BY <2>1, <2>3
  <2>8. TableKnown(known, c)
    BY <2>1, <2>4
  <2>9. RowsKnown(known, t) /\ RowsKnown(known, r)
    BY <2>1, <2>5
  <2>10. RowsKnown(known, w) /\ RowsKnown(known, q)
    BY <2>1, <2>5
  <2> HIDE DEF p, c, t, r, w, q
  <2>11. HeightsKnown(Tables(d.blocks, p, c, t, r, w, q))
    BY <2>7, <2>8, <2>9, <2>10, HeightsKnownTables DEF known
  <2> QED
    BY <2>6, <2>11
<1> QED
  BY <1>1, <1>2

\* Every key a statement of apply_block inserts is free when it runs: it was
\* free when the call began, and no earlier statement inserts it.
LEMMA NoKeyTaken ==
    ASSUME NEW d, NEW b, KeysFree(d, b, Staged(mem, b)), NEW n \in 0 .. 9
    PROVE  ~KeyTaken(Partly(d, b, n), ApplyStatements[n + 1], b)
<1> DEFINE st == Staged(mem, b)
<1>1. \A o \in Keys(st.added) : PoolSpent(d, b)[o] = {}
  <2>1. \A o \in Keys(st.added) : d.pool[o] = {} /\ o \in Outpoint
    BY DEF KeysFree, Keys
  <2> QED
    BY <2>1 DEF PoolSpent, Spending
<1>2. \A o \in Keys(st.cadded) : OldFeesSpent(d, b)[o] = {}
  <2>1. \A o \in Keys(st.cadded) : d.coord[o] = {} /\ o \in Outpoint
    BY DEF KeysFree, Keys
  <2> QED
    BY <2>1 DEF OldFeesSpent, Spending
<1>3. /\ \A c \in d.blocks : Height[c] # Height[b]
      /\ \A q \in d.snaps : q.height # Height[b]
      /\ \A r \in st.tx0s : \A q \in d.tx0s : q.row.txid # r.txid
      /\ \A r \in st.rounds : \A q \in d.rounds : q.row.txid # r.txid
      /\ \A r \in st.spends : \A q \in d.spends : q.row.txid # r.txid
  BY DEF KeysFree
<1>4. PICK sta : sta = st
  OBVIOUS
<1> HIDE DEF st
<1>5. /\ ~KeyTaken(Partly(d, b, 0), "insert_block", b)
      /\ ~KeyTaken(Partly(d, b, 1), "spend_pool", b)
      /\ ~KeyTaken(Partly(d, b, 2), "insert_pool", b)
      /\ ~KeyTaken(Partly(d, b, 3), "spend_fees", b)
      /\ ~KeyTaken(Partly(d, b, 4), "insert_tx0s", b)
      /\ ~KeyTaken(Partly(d, b, 5), "insert_rounds", b)
      /\ ~KeyTaken(Partly(d, b, 6), "insert_spends", b)
      /\ ~KeyTaken(Partly(d, b, 7), "insert_fees", b)
      /\ ~KeyTaken(Partly(d, b, 8), "spend_new_fees", b)
      /\ ~KeyTaken(Partly(d, b, 9), "insert_snapshots", b)
  <2>1. sta = Staged(mem, b)
    BY <1>4 DEF st
  <2> QED
    BY <1>1, <1>2, <1>3, <1>4, <2>1, PartlyTaken
<1>6. \/ n = 0 \/ n = 1 \/ n = 2 \/ n = 3 \/ n = 4
      \/ n = 5 \/ n = 6 \/ n = 7 \/ n = 8 \/ n = 9
  OBVIOUS
<1> QED
  BY <1>5, <1>6, StatementNames

\* The statement a running call has next meets none.
LEMMA NextAllowed ==
    ASSUME Running, Sound(db), Linked(db), Sourced(db), txn # None, More
    PROVE  Allowed
<1>0. IsTables(db)
  BY DEF Sound, IsTables, Tables
<1>1. CASE ApplyRunning
  <2> DEFINE b == txn.at
             n == txn.next - 1
  <2>1. /\ txn.call = "apply" /\ b \in Block /\ n \in 0 .. 10 /\ txn.next = n + 1
        /\ Connects(db, b)
    BY <1>1 DEF ApplyRunning
  <2>2. PICK e : Applied(db, b, n, e) /\ draft = e[n]
    BY <1>1 DEF ApplyRunning
  <2>3. Statements = ApplyStatements
    BY <2>1 DEF Statements
  <2>4. n \in 0 .. 9 /\ Statement = ApplyStatements[n + 1]
    BY <2>1, <2>3, StatementNames DEF More, Statement
  <2> HIDE DEF b, n
  <2>5. draft = Partly(db, b, n)
    BY <1>0, <2>1, <2>2, AppliedIsPartly
  <2>6. KeysFree(db, b, Staged(mem, b))
    BY <2>1, KeysAreFree
  <2>7. ~KeyTaken(draft, Statement, b)
    BY <2>4, <2>5, <2>6, NoKeyTaken
  <2>8. Executed = Partly(db, b, n + 1)
    <3>1. Executed = Applying(Partly(db, b, n), ApplyStatements[n + 1], b)
      BY <2>1, <2>4, <2>5 DEF Executed, b
    <3>2. \/ n = 0 \/ n = 1 \/ n = 2 \/ n = 3 \/ n = 4
          \/ n = 5 \/ n = 6 \/ n = 7 \/ n = 8 \/ n = 9
      BY <2>4
    <3> QED
      BY <3>1, <3>2, StatementNames, PartlyNext
  <2>9. HeightsKnown(Executed)
    <3>1. n + 1 \in 1 .. 10
      BY <2>4
    <3> QED
      BY <2>8, <3>1, PartlyKnown
  <2> QED
    BY <2>7, <2>9 DEF Allowed, b
<1>2. CASE RollbackRunning
  <2> DEFINE h == txn.at
             n == txn.next - 1
  <2>1. /\ txn.call = "rollback" /\ h \in {StartHeight - 1} \cup Heights
        /\ n \in 0 .. 9 /\ txn.next = n + 1
    BY <1>2 DEF RollbackRunning
  <2>2. PICK e : Undone(db, h, n, e) /\ draft = e[n]
    BY <1>2 DEF RollbackRunning
  <2>3. Statements = RollbackStatements
    BY <2>1 DEF Statements
  <2>4. n \in 0 .. 8 /\ Statement = RollbackStatements[n + 1]
    BY <2>1, <2>3, StatementNames DEF More, Statement
  <2>5. h \in Int
    BY <2>1, HeightAssumption DEF Heights
  <2> HIDE DEF h, n
  <2>6. draft = PartlyUndone(db, h, n)
    BY <1>0, <2>1, <2>2, UndoneIsPartly
  <2>7. Executed = PartlyUndone(db, h, n + 1)
    <3>1. Executed = RollingBack(draft, RollbackStatements[n + 1], h)
      BY <2>1, <2>4 DEF Executed, h
    <3> QED
      BY <2>4, <2>6, <3>1, PartlyUndoneNext
  <2>8. HeightsKnown(Executed)
    <3>1. n + 1 \in 0 .. 9
      BY <2>4
    <3> QED
      BY <2>5, <2>7, <3>1, PartlyUndoneKnown
  <2> QED
    BY <2>1, <2>8 DEF Allowed
<1> QED
  BY <1>1, <1>2 DEF Running

(* No statement of apply_block or rollback_after ever meets a primary key,  *)
(* a UNIQUE or a foreign key of the schema: the call began with its keys    *)
(* free and with the rows of whole blocks, and the order of the statements  *)
(* does the rest (_write_block, rollback_after).                            *)
THEOREM NoStatementRefused == CallsSpec => []NoConstraintMet
<1>1. CallsInit => TablesSound /\ Running
  BY TablesSoundInit DEF CallsInit, Running
<1>2. TablesSound /\ Running /\ [CallsNext]_allVars => TablesSound' /\ Running'
  BY TablesSoundStep, RunningStep, CallsStep
<1>3. CallsSpec => []Running
  BY <1>1, <1>2, PTL DEF CallsSpec
<1>4. CallsSpec => [](TablesSound /\ SavedChains)
  BY CallsImplementIndex, ChainsStay, PTL DEF ImplementsIndex
<1>5. Running /\ TablesSound /\ SavedChains => NoConstraintMet
  BY NextAllowed DEF NoConstraintMet, TablesSound, SavedChains
<1> QED
  BY <1>3, <1>4, <1>5, PTL

(* The statements also keep the accounts: pool history and fee rows agree   *)
(* with the output rows, and no valid block is ever refused.                *)
COROLLARY CallsKeepAccounts ==
    CallsSpec => [](SnapshotsAudit /\ FeesAudit /\ NeverRefused)
BY CallsImplementIndex, SnapshotsStayTrue, FeesStayTrue, NeverStuck, PTL DEF ImplementsIndex
=============================================================================
