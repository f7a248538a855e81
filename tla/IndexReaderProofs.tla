-------------------------- MODULE IndexReaderProofs --------------------------
(***************************************************************************)
(* Theorems about what the network endpoints answer, for every block tree, *)
(* pool table, start height and limit.  A database is an account when it   *)
(* has one snapshot of each pool for each indexed height, each carrying on *)
(* from the one before, and rolling back to a height restores exactly the  *)
(* liquidity its snapshots say.  Commits and rollbacks keep it one; what a *)
(* request has read so far is related to it query by query.                *)
(***************************************************************************)
EXTENDS IndexReader, ChainLedgerLemmas, SequenceTheorems

RowsTyped(d) ==
    \A s \in d.snaps : s.row.pool \in Pools /\ s.height \in StartHeight .. LastHeight(d)

RowOfEach(d) ==
    \A p \in Pools : \A h \in StartHeight .. LastHeight(d) :
       \E s \in d.snaps : s.row.pool = p /\ s.height = h

OneRowEach(d) ==
    \A s, r \in d.snaps : s.row.pool = r.row.pool /\ s.height = r.height => s = r

Carries(d) ==
    \A s, r \in d.snaps :
       s.row.pool = r.row.pool /\ s.height = r.height + 1
          => s.row.at.liq = r.row.at.liq + s.row.at.entry - s.row.at.exit

Restores(d) ==
    \A s \in d.snaps : Reload(Rollback(d, s.height)).liq[s.row.pool] = s.row.at.liq

OneBlockEach(d) == \A a, c \in d.blocks : Height[a] = Height[c] => a = c

Account(d) ==
    /\ Sound(d) /\ RowsTyped(d) /\ RowOfEach(d) /\ OneRowEach(d)
    /\ Carries(d) /\ Restores(d) /\ OneBlockEach(d)

LEMMA AccountEmpty == Account(EmptyDb)
<1>1. EmptyDb.snaps = {} /\ EmptyDb.blocks = {}
  BY DEF EmptyDb
<1>2. StartHeight .. LastHeight(EmptyDb) = {}
  BY SoundEmpty, HeightAssumption
<1>3. /\ RowsTyped(EmptyDb) /\ RowOfEach(EmptyDb) /\ OneRowEach(EmptyDb)
      /\ Carries(EmptyDb) /\ Restores(EmptyDb) /\ OneBlockEach(EmptyDb)
  BY <1>1, <1>2 DEF RowsTyped, RowOfEach, OneRowEach, Carries, Restores, OneBlockEach
<1> QED
  BY <1>3, SoundEmpty DEF Account

-----------------------------------------------------------------------------
(* A commit. *)

\* The rows a block adds to the snapshots.
LEMMA NewRows ==
    ASSUME NEW d, NEW b, NEW st, NEW snap, NEW e, e = WriteBlock(d, b, st, snap)
    PROVE  /\ e.blocks = d.blocks \cup {b}
           /\ \A s : s \in e.snaps <=>
                \/ s \in d.snaps
                \/ \E p \in Pools : s = [height |-> Height[b],
                                         row |-> [pool |-> p, at |-> snap[p]]]
BY DEF WriteBlock, Logged

\* What the snapshot of a reconciled block says, and what a restart loads.
LEMMA NewAmounts ==
    ASSUME NEW m, NEW st, Reconciles(m, st), NEW p \in Pools
    PROVE  /\ Snapshot(m, st)[p].liq
                = m.liq[p] + Snapshot(m, st)[p].entry - Snapshot(m, st)[p].exit
           /\ Absorb(m, st, Snapshot(m, st)).liq[p] = Snapshot(m, st)[p].liq
<1>1. Snapshot(m, st)[p].entry = st.entries[p] /\ Snapshot(m, st)[p].exit = st.exits[p]
  BY DEF Snapshot
<1>2. Snapshot(m, st)[p].liq = m.liq[p] + st.entries[p] - st.exits[p]
  BY DEF Reconciles
<1>3. Absorb(m, st, Snapshot(m, st)).liq[p] = Snapshot(m, st)[p].liq
  BY DEF Absorb
<1> QED
  BY <1>1, <1>2, <1>3

LEMMA AccountWritten ==
    ASSUME NEW d, Account(d), NEW b \in Block, Height[b] = LastHeight(d) + 1,
           NEW m, m = Reload(d), NEW st, KeysFree(d, b, st), Reconciles(m, st),
           NEW snap, snap = Snapshot(m, st),
           NEW e, e = WriteBlock(d, b, st, snap)
    PROVE  Account(e)
<1> DEFINE n == LastHeight(d)
           Row(p) == [height |-> Height[b], row |-> [pool |-> p, at |-> snap[p]]]
<1>0. /\ Sound(d) /\ RowsTyped(d) /\ RowOfEach(d) /\ OneRowEach(d)
      /\ Carries(d) /\ Restores(d) /\ OneBlockEach(d)
  BY DEF Account
<1>1. Sound(e) /\ LastHeight(e) = Height[b]
  BY <1>0, SoundWriteBlock
<1>2. n \in Int /\ StartHeight \in Int /\ n >= StartHeight - 1 /\ Height[b] = n + 1
  BY <1>0, LastHeightType
<1>3. /\ e.blocks = d.blocks \cup {b}
      /\ \A s : s \in e.snaps <=> s \in d.snaps \/ \E p \in Pools : s = Row(p)
  BY NewRows
<1>4. \A p : Row(p).row.pool = p /\ Row(p).height = n + 1 /\ Row(p).row.at = snap[p]
  BY <1>2
<1>5. \A s \in d.snaps : s.row.pool \in Pools /\ s.height \in StartHeight .. n
  BY <1>0 DEF RowsTyped
<1>6. \A p \in Pools : /\ snap[p].liq = m.liq[p] + snap[p].entry - snap[p].exit
                       /\ Reload(e).liq[p] = snap[p].liq
  <2>1. Absorb(m, st, snap) = Reload(e)
    BY AbsorbIsReload
  <2> QED
    BY <2>1, NewAmounts
<1>7. \A k \in StartHeight - 1 .. n : Rollback(e, k) = Rollback(d, k)
  BY <1>2, RollbackWritten
<1>8. Rollback(d, n) = d /\ Rollback(e, n + 1) = e
  BY <1>0, <1>1, <1>2, RollbackToLast
<1>9. OneBlockEach(e)
  <2>1. \A c \in d.blocks : Height[c] # Height[b]
    BY DEF KeysFree
  <2> QED
    BY <1>0, <1>3, <2>1 DEF OneBlockEach
<1> HIDE DEF Row, n
<1>10. RowsTyped(e)
  <2> SUFFICES ASSUME NEW s \in e.snaps
               PROVE  s.row.pool \in Pools /\ s.height \in StartHeight .. n + 1
    BY <1>1, <1>2 DEF RowsTyped
  <2>1. CASE s \in d.snaps
    BY <1>2, <1>5, <2>1
  <2>2. CASE \E p \in Pools : s = Row(p)
    BY <1>2, <1>4, <2>2
  <2> QED
    BY <1>3, <2>1, <2>2
<1>11. RowOfEach(e)
  <2> SUFFICES ASSUME NEW p \in Pools, NEW h \in StartHeight .. n + 1
               PROVE  \E s \in e.snaps : s.row.pool = p /\ s.height = h
    BY <1>1, <1>2 DEF RowOfEach
  <2>1. CASE h = n + 1
    BY <1>3, <1>4, <2>1
  <2>2. CASE h # n + 1
    <3>1. h \in StartHeight .. n
      BY <1>2, <2>2
    <3>2. PICK s \in d.snaps : s.row.pool = p /\ s.height = h
      BY <1>0, <3>1 DEF RowOfEach, n
    <3> QED
      BY <1>3, <3>2
  <2> QED
    BY <2>1, <2>2
<1>12. OneRowEach(e)
  <2> SUFFICES ASSUME NEW s \in e.snaps, NEW r \in e.snaps,
                      s.row.pool = r.row.pool, s.height = r.height
               PROVE  s = r
    BY DEF OneRowEach
  <2>1. CASE s \in d.snaps /\ r \in d.snaps
    BY <1>0, <2>1 DEF OneRowEach
  <2>2. CASE s \in d.snaps /\ \E p \in Pools : r = Row(p)
    BY <1>2, <1>4, <1>5, <2>2
  <2>3. CASE r \in d.snaps /\ \E p \in Pools : s = Row(p)
    BY <1>2, <1>4, <1>5, <2>3
  <2>4. CASE (\E p \in Pools : s = Row(p)) /\ (\E q \in Pools : r = Row(q))
    BY <1>4, <2>4
  <2> QED
    BY <1>3, <2>1, <2>2, <2>3, <2>4
<1>13. Carries(e)
  <2> SUFFICES ASSUME NEW s \in e.snaps, NEW r \in e.snaps,
                      s.row.pool = r.row.pool, s.height = r.height + 1
               PROVE  s.row.at.liq = r.row.at.liq + s.row.at.entry - s.row.at.exit
    BY DEF Carries
  <2>1. CASE s \in d.snaps /\ r \in d.snaps
    BY <1>0, <2>1 DEF Carries
  <2>2. ASSUME NEW p \in Pools, s = Row(p), r \in d.snaps
        PROVE  s.row.at.liq = r.row.at.liq + s.row.at.entry - s.row.at.exit
    <3>1. r.height = n /\ r.row.pool = p
      BY <1>2, <1>4, <1>5, <2>2
    <3>2. m.liq[p] = r.row.at.liq
      BY <1>0, <1>8, <2>2, <3>1 DEF Restores
    <3> QED
      BY <1>4, <1>6, <2>2, <3>2
  <2>3. CASE \E q \in Pools : r = Row(q)
    <3>1. r.height = n + 1
      BY <1>4, <2>3
    <3>2. s.height \in StartHeight .. n + 1
      BY <1>10, <1>1, <1>2 DEF RowsTyped
    <3> QED
      BY <1>2, <3>1, <3>2
  <2> QED
    BY <1>3, <2>1, <2>2, <2>3
<1>14. Restores(e)
  <2> SUFFICES ASSUME NEW s \in e.snaps
               PROVE  Reload(Rollback(e, s.height)).liq[s.row.pool] = s.row.at.liq
    BY DEF Restores
  <2>1. CASE s \in d.snaps
    <3>1. s.height \in StartHeight - 1 .. n
      BY <1>2, <1>5, <2>1
    <3> QED
      BY <1>0, <1>7, <2>1, <3>1 DEF Restores
  <2>2. CASE \E p \in Pools : s = Row(p)
    BY <1>4, <1>6, <1>8, <2>2
  <2> QED
    BY <1>3, <2>1, <2>2
<1> QED
  BY <1>1, <1>9, <1>10, <1>11, <1>12, <1>13, <1>14 DEF Account

LEMMA AccountReplayed ==
    ASSUME NEW d, Account(d), NEW b \in Block, Connects(d, b), Accepts(d, Reload(d), b)
    PROVE  /\ Account(Replayed(d, b))
           /\ LastHeight(Replayed(d, b)) = LastHeight(d) + 1
<1> DEFINE m == Reload(d)
           st == Staged(m, b)
           snap == Snapshot(m, st)
<1>1. Replayed(d, b) = WriteBlock(d, b, st, snap)
  BY DEF Replayed, Indexed
<1>2. KeysFree(d, b, st) /\ Reconciles(m, st)
  BY DEF Accepts
<1>3. Height[b] = LastHeight(d) + 1 /\ Sound(d)
  BY DEF Connects, Account
<1> HIDE DEF m, st, snap
<1>4. m = Reload(d) /\ snap = Snapshot(m, st)
  BY DEF m, snap
<1>5. Account(Replayed(d, b))
  BY <1>1, <1>2, <1>3, <1>4, AccountWritten
<1> QED
  BY <1>1, <1>3, <1>5, SoundWriteBlock

-----------------------------------------------------------------------------
(* A rollback. *)

LEMMA AccountRollback ==
    ASSUME NEW d, Account(d), NEW h \in (StartHeight - 1) .. LastHeight(d)
    PROVE  Account(Rollback(d, h))
<1> DEFINE e == Rollback(d, h)
           n == LastHeight(d)
<1>0. /\ Sound(d) /\ RowsTyped(d) /\ RowOfEach(d) /\ OneRowEach(d)
      /\ Carries(d) /\ Restores(d) /\ OneBlockEach(d)
  BY DEF Account
<1>1. Sound(e) /\ LastHeight(e) = h
  BY <1>0, SoundRollback
<1>2. n \in Int /\ StartHeight \in Int /\ h \in Int /\ h <= n
  BY <1>0, LastHeightType
<1>3. /\ e.blocks \subseteq d.blocks
      /\ \A s : s \in e.snaps <=> s \in d.snaps /\ s.height <= h
  BY DEF Rollback, UpTo
<1>4. \A s \in d.snaps : s.row.pool \in Pools /\ s.height \in StartHeight .. n
  BY <1>0 DEF RowsTyped
<1>5. \A k \in Int : k <= h => Rollback(e, k) = Rollback(d, k)
  BY <1>0, <1>2, RollbackRollback
<1> HIDE DEF e, n
<1>6. RowsTyped(e)
  BY <1>1, <1>2, <1>3, <1>4 DEF RowsTyped
<1>7. RowOfEach(e)
  <2> SUFFICES ASSUME NEW p \in Pools, NEW k \in StartHeight .. h
               PROVE  \E s \in e.snaps : s.row.pool = p /\ s.height = k
    BY <1>1 DEF RowOfEach
  <2>1. k \in StartHeight .. n /\ k <= h
    BY <1>2
  <2>2. PICK s \in d.snaps : s.row.pool = p /\ s.height = k
    BY <1>0, <2>1 DEF RowOfEach, n
  <2> QED
    BY <1>3, <2>1, <2>2
<1>8. OneRowEach(e) /\ Carries(e) /\ OneBlockEach(e)
  BY <1>0, <1>3 DEF OneRowEach, Carries, OneBlockEach
<1>9. Restores(e)
  BY <1>0, <1>3, <1>4, <1>5 DEF Restores
<1>10. Account(e)
  BY <1>1, <1>6, <1>7, <1>8, <1>9 DEF Account
<1> QED
  BY <1>10 DEF e

-----------------------------------------------------------------------------
(* What there is to count in an account. *)

LEMMA OneToOne ==
    ASSUME NEW S, NEW T, NEW f \in [S -> T],
           \A x, y \in S : f[x] = f[y] => x = y,
           \A t \in T : \E x \in S : f[x] = t
    PROVE  ExistsBijection(S, T)
<1>1. f \in Injection(S, T) /\ f \in Surjection(S, T)
  BY DEF Injection, Surjection, IsInjective
<1> QED
  BY <1>1 DEF ExistsBijection, Bijection

Between(d, p, a, z) == {s \in d.snaps : s.row.pool = p /\ s.height \in a .. z}

AtHeight(d, h) == {s \in d.snaps : s.height = h}

LEMMA RowsBetween ==
    ASSUME NEW d, Account(d), NEW p \in Pools, NEW a \in Int, NEW z \in Int,
           StartHeight <= a, z <= LastHeight(d), a <= z + 1
    PROVE  Cardinality(Between(d, p, a, z)) = z - a + 1
<1> DEFINE T == Between(d, p, a, z)
           f == [h \in a .. z |-> CHOOSE s \in d.snaps : s.row.pool = p /\ s.height = h]
<1>1. \A h \in a .. z : \E s \in d.snaps : s.row.pool = p /\ s.height = h
  <2>1. \A h \in a .. z : h \in StartHeight .. LastHeight(d)
    BY LastHeightType DEF Account
  <2> QED
    BY <2>1 DEF Account, RowOfEach
<1>2. \A h \in a .. z : f[h] \in d.snaps /\ f[h].row.pool = p /\ f[h].height = h
  BY <1>1
<1>3. DOMAIN f = a .. z /\ f = [h \in a .. z |-> f[h]]
  OBVIOUS
<1> HIDE DEF f
<1>4. \A h \in a .. z : f[h] \in T
  BY <1>2 DEF Between
<1>5. f \in [a .. z -> T]
  BY <1>3, <1>4
<1>6. \A h, k \in a .. z : f[h] = f[k] => h = k
  BY <1>2
<1>7. \A s \in T : s.height \in a .. z /\ f[s.height] = s
  BY <1>2 DEF Between, Account, OneRowEach
<1> HIDE DEF T
<1>8. \A s \in T : \E h \in a .. z : f[h] = s
  BY <1>7
<1>9. ExistsBijection(a .. z, T)
  BY <1>5, <1>6, <1>8, OneToOne
<1>10. IsFiniteSet(a .. z) /\ Cardinality(a .. z) = z - a + 1
  BY FS_Interval
<1>11. Cardinality(T) = z - a + 1
  BY <1>9, <1>10, FS_Bijection
<1> QED
  BY <1>11 DEF T

LEMMA RowsAtHeight ==
    ASSUME NEW d, Account(d), NEW h \in StartHeight .. LastHeight(d)
    PROVE  /\ {s.row.pool : s \in AtHeight(d, h)} = Pools
           /\ Cardinality(AtHeight(d, h)) = Cardinality(Pools)
<1> DEFINE T == AtHeight(d, h)
           f == [p \in Pools |-> CHOOSE s \in d.snaps : s.row.pool = p /\ s.height = h]
<1>1. \A p \in Pools : f[p] \in d.snaps /\ f[p].row.pool = p /\ f[p].height = h
  BY DEF Account, RowOfEach
<1>2. DOMAIN f = Pools /\ f = [p \in Pools |-> f[p]]
  OBVIOUS
<1> HIDE DEF f
<1>3. \A p \in Pools : f[p] \in T
  BY <1>1 DEF AtHeight
<1>4. f \in [Pools -> T]
  BY <1>2, <1>3
<1>5. \A p, q \in Pools : f[p] = f[q] => p = q
  BY <1>1
<1>6. \A s \in T : s.row.pool \in Pools /\ f[s.row.pool] = s
  <2> TAKE s \in T
  <2>1. s \in d.snaps /\ s.height = h
    BY DEF AtHeight
  <2>2. s.row.pool \in Pools
    BY <2>1 DEF Account, RowsTyped
  <2> QED
    BY <1>1, <2>1, <2>2 DEF Account, OneRowEach
<1> HIDE DEF T
<1>7. \A s \in T : \E p \in Pools : f[p] = s
  BY <1>6
<1>8. ExistsBijection(Pools, T)
  BY <1>4, <1>5, <1>7, OneToOne
<1>9. Cardinality(T) = Cardinality(Pools)
  BY <1>8, PoolsAssumption, FS_Bijection
<1>10. {s.row.pool : s \in T} = Pools
  BY <1>1, <1>3, <1>6
<1> QED
  BY <1>9, <1>10 DEF T

LEMMA CountBlocks ==
    ASSUME NEW d, Account(d)
    PROVE  Cardinality(d.blocks) = LastHeight(d) - StartHeight + 1
<1> DEFINE n == LastHeight(d)
           f == [h \in StartHeight .. n |-> CHOOSE b \in d.blocks : Height[b] = h]
<1>0. n \in Int /\ StartHeight \in Int /\ n >= StartHeight - 1
  BY LastHeightType DEF Account
<1>1. \A h \in StartHeight .. n : f[h] \in d.blocks /\ Height[f[h]] = h
  BY DEF Account, Sound, Gapless
<1>2. DOMAIN f = StartHeight .. n /\ f = [h \in StartHeight .. n |-> f[h]]
  OBVIOUS
<1> HIDE DEF f
<1>3. f \in [StartHeight .. n -> d.blocks]
  BY <1>1, <1>2
<1>4. \A h, k \in StartHeight .. n : f[h] = f[k] => h = k
  BY <1>1
<1>5. \A b \in d.blocks : Height[b] \in StartHeight .. n
  BY HeightAssumption, LastHeightType DEF Account, Sound
<1>6. \A b \in d.blocks : f[Height[b]] = b
  BY <1>1, <1>5 DEF Account, OneBlockEach
<1> HIDE DEF n
<1>7. \A b \in d.blocks : \E h \in StartHeight .. n : f[h] = b
  <2> TAKE b \in d.blocks
  <2>1. Height[b] \in StartHeight .. n /\ f[Height[b]] = b
    BY <1>5, <1>6
  <2> QED
    BY <2>1
<1>8. ExistsBijection(StartHeight .. n, d.blocks)
  <2> DEFINE S == StartHeight .. n
             T == d.blocks
  <2>1. f \in [S -> T] /\ \A h, k \in S : f[h] = f[k] => h = k
    BY <1>3, <1>4
  <2>2. \A b \in T : \E h \in S : f[h] = b
    BY <1>7
  <2> HIDE DEF S, T
  <2>3. ExistsBijection(S, T)
    BY <2>1, <2>2, OneToOne
  <2> QED
    BY <2>3 DEF S, T
<1>9. /\ IsFiniteSet(StartHeight .. n)
      /\ Cardinality(StartHeight .. n) = n - StartHeight + 1
  BY <1>0, FS_Interval
<1>10. Cardinality(d.blocks) = n - StartHeight + 1
  BY <1>8, <1>9, FS_Bijection
<1> QED
  BY <1>10 DEF n

\* There is a block exactly when there is an indexed height.
LEMMA AnyBlock ==
    ASSUME NEW d, Account(d)
    PROVE  /\ d.blocks = {} => LastHeight(d) = StartHeight - 1
           /\ d.blocks # {} => LastHeight(d) \in StartHeight .. LastHeight(d)
<1>1. IsLast(d, LastHeight(d)) /\ d.blocks \subseteq Block
  BY DEF Account, Sound
<1>2. \A b \in d.blocks : Height[b] \in Nat /\ Height[b] >= StartHeight
  BY <1>1, HeightAssumption
<1> QED
  BY <1>1, <1>2, HeightAssumption DEF IsLast

\* The greatest height of each pool is the last one of the index.
LEMMA LatestAreLast ==
    ASSUME NEW d, Account(d)
    PROVE  LatestSnapshots(d) = AtHeight(d, LastHeight(d))
<1> DEFINE n == LastHeight(d)
<1>1. \A s \in d.snaps : s.row.pool \in Pools /\ s.height \in StartHeight .. n
  BY DEF Account, RowsTyped
<1>2. \A s \in d.snaps : \E q \in d.snaps : q.row.pool = s.row.pool /\ q.height = n
  <2> TAKE s \in d.snaps
  <2>1. n \in StartHeight .. n
    BY <1>1, LastHeightType DEF Account
  <2> QED
    BY <1>1, <2>1 DEF Account, RowOfEach
<1>3. n \in Int
  BY LastHeightType DEF Account
<1> HIDE DEF n
<1>4. LatestSnapshots(d) = AtHeight(d, n)
  BY <1>1, <1>2, <1>3 DEF LatestSnapshots, AtHeight
<1> QED
  BY <1>4 DEF n

-----------------------------------------------------------------------------
(* A pool history. *)

\* Rows of consecutive heights, in order: the i-th is of height a + i - 1.
LEMMA OrderedRows ==
    ASSUME NEW d, Account(d), NEW p \in Pools, NEW a \in Int, NEW z \in Int,
           StartHeight <= a, z <= LastHeight(d), a <= z + 1,
           NEW rows, rows = ByHeight(Between(d, p, a, z))
    PROVE  /\ Len(rows) = z - a + 1
           /\ rows = << >> <=> a = z + 1
           /\ \A i \in 1 .. z - a + 1 :
                 rows[i] \in Between(d, p, a, z) /\ rows[i].height = a + i - 1
<1> DEFINE T == Between(d, p, a, z)
           n == z - a + 1
           Before(s) == {r \in T : r.height < s.height}
<1>1. Cardinality(T) = n /\ n \in Nat
  BY RowsBetween
<1>2. \A s \in T : s.height \in a .. z /\ Cardinality(Before(s)) = s.height - a
  <2> TAKE s \in T
  <2>1. s.height \in a .. z
    BY DEF Between
  <2>2. Before(s) = Between(d, p, a, s.height - 1)
    BY <2>1 DEF Between
  <2>3. s.height - 1 \in Int /\ s.height - 1 <= LastHeight(d) /\ a <= s.height - 1 + 1
    BY <2>1, LastHeightType DEF Account
  <2>4. Cardinality(Between(d, p, a, s.height - 1)) = s.height - 1 - a + 1
    BY <2>3, RowsBetween
  <2> HIDE DEF T, Before
  <2> QED
    BY <2>1, <2>2, <2>3, <2>4
<1>3. \A h \in a .. z : \E s \in T : s.height = h
  <2> TAKE h \in a .. z
  <2>1. h \in StartHeight .. LastHeight(d)
    BY LastHeightType DEF Account
  <2> QED
    BY <2>1 DEF Between, Account, RowOfEach
<1>4. rows = [i \in 1 .. n |-> CHOOSE s \in T : Cardinality(Before(s)) = i - 1]
  BY <1>1 DEF ByHeight
<1> HIDE DEF T, Before
<1>5. \A i \in 1 .. n : rows[i] \in T /\ rows[i].height = a + i - 1
  <2> TAKE i \in 1 .. n
  <2>1. rows[i] = CHOOSE s \in T : Cardinality(Before(s)) = i - 1
    BY <1>4
  <2>2. PICK s \in T : s.height = a + i - 1
    BY <1>3
  <2>3. Cardinality(Before(s)) = i - 1
    BY <1>2, <2>2
  <2>4. rows[i] \in T /\ Cardinality(Before(rows[i])) = i - 1
    BY <2>1, <2>2, <2>3
  <2> QED
    BY <1>2, <2>4
<1>6. rows \in Seq(T) /\ DOMAIN rows = 1 .. n
  <2>1. rows \in [1 .. n -> T]
    BY <1>4, <1>5
  <2> QED
    BY <1>1, <2>1, SeqDef
<1>7. Len(rows) = n
  BY <1>1, <1>6
<1> QED
  BY <1>5, <1>6, <1>7 DEF T

LEMMA QueryType ==
    ASSUME NEW d, Account(d), NEW q \in History
    PROVE  /\ OldEnd(q) \in Int /\ StartHeight <= OldEnd(q)
           /\ NewEnd(d, q) \in Int /\ NewEnd(d, q) <= LastHeight(d)
           /\ q.limit \in Nat \ {0}
<1>1. \A h \in AskedHeight : h \in Int
  BY AskedHeightAssumption
<1>2. q.from \in AskedHeight \cup {None} /\ q.to \in AskedHeight \cup {None}
      /\ q.limit \in Limit
  BY DEF History, MaybeHeight
<1>3. LastHeight(d) \in Int /\ StartHeight \in Int
  BY LastHeightType DEF Account
<1>4. OldEnd(q) \in Int /\ StartHeight <= OldEnd(q)
  <2> DEFINE f == q.from
  <2>1. f = None \/ f \in Int
    BY <1>1, <1>2
  <2> HIDE DEF f
  <2>2. (IF f = None \/ f < StartHeight THEN StartHeight ELSE f) \in Int
    BY <1>3, <2>1
  <2>3. StartHeight <= (IF f = None \/ f < StartHeight THEN StartHeight ELSE f)
    BY <1>3, <2>1
  <2> QED
    BY <2>2, <2>3 DEF OldEnd, f
<1>5. NewEnd(d, q) \in Int /\ NewEnd(d, q) <= LastHeight(d)
  <2> DEFINE n == LastHeight(d)
             t == q.to
  <2>1. t = None \/ t \in Int
    BY <1>1, <1>2
  <2> HIDE DEF n, t
  <2>2. (IF t = None \/ t > n THEN n ELSE t) \in Int
    BY <1>3, <2>1 DEF n
  <2>3. (IF t = None \/ t > n THEN n ELSE t) <= n
    BY <1>3, <2>1 DEF n
  <2> QED
    BY <2>2, <2>3 DEF NewEnd, n, t
<1>6. q.limit \in Nat \ {0}
  <2>1. \A l \in Limit : l \in Nat \ {0}
    BY LimitAssumption
  <2> QED
    BY <1>2, <2>1
<1> QED
  BY <1>4, <1>5, <1>6

LEMMA RangeRows ==
    ASSUME NEW d, Account(d), NEW q \in History
    PROVE  {s \in d.snaps : InRange(s, q)} = Between(d, q.pool, OldEnd(q), NewEnd(d, q))
<1>1. \A h \in AskedHeight : h \in Int
  BY AskedHeightAssumption
<1>2. q.from \in AskedHeight \cup {None} /\ q.to \in AskedHeight \cup {None}
  BY DEF History, MaybeHeight
<1>3. LastHeight(d) \in Int /\ StartHeight \in Int
  BY LastHeightType DEF Account
<1>4. \A s \in d.snaps : s.height \in StartHeight .. LastHeight(d)
  BY DEF Account, RowsTyped
<1>5. \A s \in d.snaps :
         InRange(s, q) <=> s.row.pool = q.pool /\ s.height \in OldEnd(q) .. NewEnd(d, q)
  <2> TAKE s \in d.snaps
  <2> DEFINE h == s.height
             n == LastHeight(d)
             f == q.from
             t == q.to
  <2>1. h \in Int /\ n \in Int /\ StartHeight <= h /\ h <= n
    BY <1>3, <1>4
  <2>2. (f = None \/ f \in Int) /\ (t = None \/ t \in Int)
    BY <1>1, <1>2
  <2>3. (f # None => h >= f)
           <=> (IF f = None \/ f < StartHeight THEN StartHeight ELSE f) <= h
    <3> HIDE DEF h, f
    <3> QED
      BY <2>1, <2>2, <1>3
  <2>4. (t # None => h <= t) <=> h <= (IF t = None \/ t > n THEN n ELSE t)
    <3> HIDE DEF h, t, n
    <3> QED
      BY <2>1, <2>2
  <2>5. OldEnd(q) \in Int /\ NewEnd(d, q) \in Int
    BY QueryType
  <2> QED
    BY <2>1, <2>3, <2>4, <2>5 DEF InRange, OldEnd, NewEnd
<1> QED
  BY <1>5 DEF Between

\* What a history holds: the rows of an unbroken run of heights a .. z, which
\* ends where the range or the index does and is cut only to the limit.
HistoryRun(d, q, a, z) ==
    /\ a \in Int /\ z \in Int
    /\ StartHeight <= a /\ z <= LastHeight(d) /\ a <= z + 1
    /\ PoolHistory(d, q) = ByHeight(Between(d, q.pool, a, z))
    /\ z - a + 1 <= q.limit
    /\ 0 < z - a + 1 /\ z - a + 1 < q.limit => a = OldEnd(q)
    /\ a <= z => OldEnd(q) <= a /\ z = NewEnd(d, q)
    /\ a <= z <=> OldEnd(q) <= NewEnd(d, q)

LEMMA HistoryRuns ==
    ASSUME NEW d, Account(d), NEW q \in History, q.pool \in Pools
    PROVE  \E a, z : HistoryRun(d, q, a, z)
<1> DEFINE p == q.pool
           lo == OldEnd(q)
           z == NewEnd(d, q)
           rows == {s \in d.snaps : InRange(s, q)}
           Later(s) == {r \in rows : r.height > s.height}
           kept == {s \in rows : Cardinality(Later(s)) < q.limit}
<1>1. /\ lo \in Int /\ z \in Int /\ StartHeight <= lo /\ z <= LastHeight(d)
      /\ q.limit \in Nat \ {0} /\ StartHeight \in Int /\ LastHeight(d) \in Int
      /\ StartHeight - 1 <= LastHeight(d)
  BY QueryType, LastHeightType DEF Account
<1>2. rows = Between(d, p, lo, z)
  BY RangeRows
<1>3. PoolHistory(d, q) = ByHeight(kept)
  BY DEF PoolHistory
<1> HIDE DEF rows, lo, z
<1>4. CASE lo > z
  <2>1. rows = {}
    BY <1>1, <1>2, <1>4 DEF Between
  <2>2. kept = {} /\ Between(d, p, StartHeight, StartHeight - 1) = {}
    BY <1>1, <2>1 DEF Between
  <2> DEFINE e == StartHeight - 1
  <2>4. /\ e \in Int /\ e - StartHeight + 1 = 0 /\ StartHeight <= e + 1
        /\ e <= LastHeight(d) /\ ~(StartHeight <= e)
    BY <1>1
  <2>5. kept = Between(d, p, StartHeight, e)
    BY <2>2
  <2> HIDE DEF e, kept
  <2>6. HistoryRun(d, q, StartHeight, e)
    BY <1>1, <1>3, <1>4, <2>4, <2>5 DEF HistoryRun, lo, z
  <2> QED
    BY <2>6
<1>5. CASE lo <= z
  <2> DEFINE a == IF z - q.limit + 1 > lo THEN z - q.limit + 1 ELSE lo
  <2>1. \A s \in rows : s.height \in lo .. z /\ Cardinality(Later(s)) = z - s.height
    <3> TAKE s \in rows
    <3>1. s.height \in lo .. z
      BY <1>2 DEF Between
    <3>2. Later(s) = Between(d, p, s.height + 1, z)
      BY <1>1, <1>2, <3>1 DEF Between
    <3>3. /\ s.height + 1 \in Int /\ StartHeight <= s.height + 1
          /\ s.height + 1 <= z + 1
      BY <1>1, <3>1
    <3>4. Cardinality(Between(d, p, s.height + 1, z)) = z - (s.height + 1) + 1
      BY <1>1, <3>3, RowsBetween
    <3> HIDE DEF Later
    <3> QED
      BY <1>1, <3>1, <3>2, <3>4
  <2>2. a \in Int /\ StartHeight <= a /\ lo <= a /\ a <= z /\ z - a + 1 <= q.limit
    BY <1>1, <1>5
  <2>3. kept = Between(d, p, a, z)
    <3>1. \A s \in rows : s \in kept <=> s.height \in a .. z
      <4> TAKE s \in rows
      <4>1. s \in kept <=> z - s.height < q.limit
        BY <2>1
      <4> QED
        BY <1>1, <2>1, <4>1
    <3>2. \A s : s \in Between(d, p, a, z) => s \in rows
      BY <1>1, <1>2, <2>2 DEF Between
    <3> HIDE DEF a
    <3> QED
      BY <3>1, <3>2, <1>2, <1>1, <2>2 DEF Between
  <2>4. 0 < z - a + 1 /\ z - a + 1 < q.limit => a = lo
    BY <1>1
  <2> HIDE DEF a, kept
  <2>6. HistoryRun(d, q, a, z)
    BY <1>1, <1>3, <1>5, <2>2, <2>3, <2>4 DEF HistoryRun, lo, z
  <2> QED
    BY <2>6
<1> QED
  BY <1>1, <1>4, <1>5

-----------------------------------------------------------------------------
(* The invariant: the database is an account, and what a request has read   *)
(* is related to it, as far as no rollback came in between.                 *)

Reading == {"count", "fees", "spends", "pools"}

RequestType ==
    /\ request = [at |-> request.at, ask |-> request.ask, seen |-> request.seen,
                  undone |-> request.undone]
    /\ request.undone \in BOOLEAN
    /\ request.at \in {"status"} \cup Reading => request.ask = Overview
    /\ request.at = "history" => request.ask \in History

\* The coverage read first is covered now; the count read next was as great.
StatusBacked ==
    request.at \in Reading =>
        /\ "last" \in DOMAIN seen
        /\ ~request.undone /\ seen.last # None =>
              db.blocks # {} /\ seen.last \in Int /\ seen.last <= LastHeight(db)

CountBacked ==
    request.at \in Reading \ {"count"} =>
        /\ "blocks" \in DOMAIN seen
        /\ ~request.undone /\ seen.last # None =>
              seen.blocks >= seen.last - StartHeight + 1

ReaderInv ==
    /\ Account(db) /\ RequestType /\ StatusBacked /\ CountBacked
    /\ CoverageBacked /\ HistoryReconciles

\* An answer not yet given, or given to the other endpoint, claims nothing.
LEMMA NoOverview ==
    ASSUME request.at # "200" \/ request.ask # Overview PROVE CoverageBacked
BY DEF CoverageBacked, Answered

LEMMA NoHistory ==
    ASSUME request.at # "200" \/ request.ask \notin History PROVE HistoryReconciles
BY DEF HistoryReconciles

LEMMA KindsDiffer == Overview \notin History
<1> SUFFICES ASSUME Overview \in History PROVE FALSE
  OBVIOUS
<1>1. Overview.kind = "history"
  BY DEF History
<1> QED
  BY <1>1 DEF Overview

LEMMA ReaderInit == Init => ReaderInv
<1> SUFFICES ASSUME Init PROVE ReaderInv
  OBVIOUS
<1>1. db = EmptyDb /\ request = Waiting /\ request.at = "waiting" /\ request.undone = FALSE
  BY DEF Init, Waiting
<1>2. RequestType /\ StatusBacked /\ CountBacked
  BY <1>1 DEF RequestType, StatusBacked, CountBacked, Reading, Waiting
<1> QED
  BY <1>1, <1>2, AccountEmpty, NoOverview, NoHistory DEF ReaderInv

-----------------------------------------------------------------------------
(* The writer's steps. *)

LEMMA CommitStep ==
    ASSUME ReaderInv, NEW b \in Block, Commit(b) PROVE ReaderInv'
<1>1. db' = Replayed(db, b) /\ request' = request
  BY DEF Commit
<1>2. Account(db) /\ Account(db') /\ LastHeight(db') = LastHeight(db) + 1
  BY <1>1, AccountReplayed DEF ReaderInv, Commit
<1>3. LastHeight(db) \in Int /\ LastHeight(db') \in Int
  BY <1>2, LastHeightType DEF Account
<1>4. db.blocks # {} => db'.blocks # {}
  BY <1>2, <1>3, AnyBlock, LastHeightType DEF Account
<1>5. StatusBacked'
  BY <1>1, <1>2, <1>3, <1>4 DEF ReaderInv, StatusBacked, seen
<1>6. RequestType' /\ CountBacked' /\ CoverageBacked' /\ HistoryReconciles'
  BY <1>1 DEF ReaderInv, RequestType, CountBacked, CoverageBacked, HistoryReconciles,
              Answered, seen
<1> QED
  BY <1>2, <1>5, <1>6 DEF ReaderInv

LEMMA RollbackStep ==
    ASSUME ReaderInv, NEW h \in {StartHeight - 1} \cup Heights, RollbackTo(h)
    PROVE  ReaderInv'
<1>1. db' = Rollback(db, h) /\ request' = [request EXCEPT !.undone = @ \/ Serving]
  BY DEF RollbackTo
<1>2. Account(db) /\ RequestType
  BY DEF ReaderInv
<1>3. Account(db')
  <2>1. PICK c \in db.blocks : Height[c] > h
    BY DEF RollbackTo
  <2>2. h >= StartHeight - 1
    BY HeightAssumption DEF Heights
  <2>3. h \in (StartHeight - 1) .. LastHeight(db)
    BY <1>2, <2>1, <2>2, RollbackHeights DEF Account
  <2> QED
    BY <1>1, <1>2, <2>3, AccountRollback
<1>4. /\ request'.at = request.at /\ request'.ask = request.ask
      /\ request'.seen = request.seen /\ request'.undone = (request.undone \/ Serving)
  BY <1>1, <1>2 DEF RequestType
<1>5. request' = [at |-> request'.at, ask |-> request'.ask, seen |-> request'.seen,
                  undone |-> request'.undone]
  BY <1>1, <1>2 DEF RequestType
<1>6. request.at \in Reading => request'.undone
  BY <1>4 DEF Reading, Serving
<1>7. request.at = "200" => request'.undone = request.undone
  BY <1>2, <1>4 DEF Serving, RequestType
<1>8. RequestType'
  BY <1>2, <1>4, <1>5 DEF RequestType
<1>9. StatusBacked' /\ CountBacked'
  BY <1>4, <1>6 DEF ReaderInv, StatusBacked, CountBacked, Reading, seen
<1>10. CoverageBacked' /\ HistoryReconciles'
  <2>1. CASE request.at = "200"
    BY <1>4, <1>7, <2>1 DEF ReaderInv, CoverageBacked, HistoryReconciles, Answered, seen
  <2>2. CASE request.at # "200"
    BY <1>4, <2>2 DEF CoverageBacked, HistoryReconciles, Answered
  <2> QED
    BY <2>1, <2>2
<1> QED
  BY <1>3, <1>8, <1>9, <1>10 DEF ReaderInv

-----------------------------------------------------------------------------
(* The reader's steps. *)

LEMMA AskStep ==
    ASSUME ReaderInv,
           AskOverview \/ Unavailable \/ \E q \in History : AskHistory(q)
    PROVE  ReaderInv'
<1>1. db' = db /\ Account(db)
  BY DEF ReaderInv, AskOverview, Unavailable, AskHistory
<1> DEFINE Fresh(at, ask) ==
              /\ request' = [at |-> at, ask |-> ask, seen |-> << >>, undone |-> FALSE]
              /\ at \notin Reading \cup {"200"}
              /\ at = "status" => ask = Overview
              /\ at = "history" => ask \in History
<1>2. \E at, ask : Fresh(at, ask)
  <2>1. CASE AskOverview
    <3>1. Fresh("status", Overview)
      BY <2>1 DEF AskOverview, Waiting, Reading
    <3> QED
      BY <3>1
  <2>2. CASE Unavailable
    <3>1. Fresh("503", None)
      BY <2>2 DEF Unavailable, Waiting, Reading
    <3> QED
      BY <3>1
  <2>3. ASSUME NEW q \in History, AskHistory(q) PROVE Fresh(Verdict(q), q)
    <3>1. Verdict(q) \in {"422", "history"}
      BY DEF Verdict
    <3> QED
      BY <2>3, <3>1 DEF AskHistory, Waiting, Reading
  <2> HIDE DEF Fresh
  <2> QED
    BY <2>1, <2>2, <2>3
<1>3. PICK at, ask : Fresh(at, ask)
  BY <1>2
<1>4. request'.at = at /\ request'.ask = ask /\ request'.undone = FALSE
  BY <1>3
<1>5. RequestType' /\ StatusBacked' /\ CountBacked'
  BY <1>3, <1>4 DEF RequestType, StatusBacked, CountBacked
<1>6. CoverageBacked' /\ HistoryReconciles'
  BY <1>3, <1>4 DEF CoverageBacked, HistoryReconciles, Answered
<1> QED
  BY <1>1, <1>5, <1>6 DEF ReaderInv

LEMMA RefuseStep ==
    ASSUME ReaderInv, RefusePool PROVE ReaderInv'
<1>1. db' = db /\ Account(db) /\ RequestType
  BY DEF ReaderInv, RefusePool
<1>2. /\ request' = [at |-> "404", ask |-> request.ask, seen |-> request.seen,
                     undone |-> request.undone]
      /\ request'.at = "404" /\ request'.undone = request.undone
  BY <1>1 DEF RefusePool, RequestType
<1>3. RequestType' /\ StatusBacked' /\ CountBacked'
  BY <1>1, <1>2 DEF RequestType, StatusBacked, CountBacked, Reading
<1>4. CoverageBacked' /\ HistoryReconciles'
  BY <1>2 DEF CoverageBacked, HistoryReconciles, Answered
<1> QED
  BY <1>1, <1>3, <1>4 DEF ReaderInv

\* What a query leaves behind.
LEMMA ReadStep ==
    ASSUME RequestType, NEW query, NEW field, NEW value, NEW next,
           Read(query, field, value, next)
    PROVE  /\ db' = db /\ request.at = query
           /\ request' = [at |-> next, ask |-> request.ask,
                          seen |-> With(request.seen, field, value),
                          undone |-> request.undone]
           /\ request'.at = next /\ request'.ask = request.ask
           /\ request'.undone = request.undone
           /\ DOMAIN request'.seen = DOMAIN request.seen \cup {field}
           /\ request'.seen[field] = value
           /\ \A f \in DOMAIN request.seen :
                 f # field => request'.seen[f] = request.seen[f]
<1>1. request' = [at |-> next, ask |-> request.ask,
                  seen |-> With(request.seen, field, value), undone |-> request.undone]
  BY DEF Read, RequestType
<1>2. DOMAIN With(request.seen, field, value) = DOMAIN request.seen \cup {field}
  BY DEF With
<1>3. With(request.seen, field, value)[field] = value
  BY DEF With
<1>4. \A f \in DOMAIN request.seen :
         f # field => With(request.seen, field, value)[f] = request.seen[f]
  BY DEF With
<1>5. request.at = query /\ db' = db
  BY DEF Read
<1> QED
  BY <1>1, <1>2, <1>3, <1>4, <1>5

LEMMA StatusStep ==
    ASSUME ReaderInv, ReadStatus PROVE ReaderInv'
<1>0. Account(db) /\ RequestType
  BY DEF ReaderInv
<1>1. /\ db' = db /\ request.at = "status" /\ request'.at = "count"
      /\ request'.ask = request.ask /\ request'.undone = request.undone
      /\ request'.seen["last"] = LastRow(db) /\ "last" \in DOMAIN request'.seen
      /\ request' = [at |-> request'.at, ask |-> request'.ask, seen |-> request'.seen,
                     undone |-> request'.undone]
  BY <1>0, ReadStep DEF ReadStatus
<1>2. RequestType' /\ CountBacked'
  BY <1>0, <1>1 DEF RequestType, CountBacked, Reading
<1>3. LastRow(db) # None => db.blocks # {} /\ LastRow(db) = LastHeight(db)
  BY DEF LastRow
<1>4. LastHeight(db) \in Int
  BY <1>0, LastHeightType DEF Account
<1>5. StatusBacked'
  BY <1>1, <1>3, <1>4 DEF StatusBacked, seen
<1>6. CoverageBacked' /\ HistoryReconciles'
  BY <1>1 DEF CoverageBacked, HistoryReconciles, Answered
<1> QED
  BY <1>0, <1>1, <1>2, <1>5, <1>6 DEF ReaderInv

LEMMA CountStep ==
    ASSUME ReaderInv, ReadCount PROVE ReaderInv'
<1>0. Account(db) /\ RequestType /\ StatusBacked
  BY DEF ReaderInv
<1>1. /\ db' = db /\ request.at = "count" /\ request'.at = "fees"
      /\ request'.ask = request.ask /\ request'.undone = request.undone
      /\ request'.seen["blocks"] = Cardinality(db.blocks)
      /\ DOMAIN request'.seen = DOMAIN request.seen \cup {"blocks"}
      /\ \A f \in DOMAIN request.seen :
            f # "blocks" => request'.seen[f] = request.seen[f]
      /\ request' = [at |-> request'.at, ask |-> request'.ask, seen |-> request'.seen,
                     undone |-> request'.undone]
  BY <1>0, ReadStep DEF ReadCount
<1>2. RequestType'
  BY <1>0, <1>1 DEF RequestType, Reading
<1>3. "last" \in DOMAIN seen /\ request'.seen["last"] = request.seen["last"]
  BY <1>0, <1>1 DEF StatusBacked, Reading, seen
<1>4. StatusBacked'
  BY <1>0, <1>1, <1>3 DEF StatusBacked, Reading, seen
<1>5. Cardinality(db.blocks) = LastHeight(db) - StartHeight + 1
  BY <1>0, CountBlocks
<1>6. LastHeight(db) \in Int /\ StartHeight \in Int
  BY <1>0, LastHeightType DEF Account
<1>7. ~request.undone /\ seen.last # None
         => seen.last \in Int /\ seen.last <= LastHeight(db)
  BY <1>0, <1>1 DEF StatusBacked, Reading
<1>8. \A k \in Int : k <= LastHeight(db)
         => LastHeight(db) - StartHeight + 1 >= k - StartHeight + 1
  BY <1>6
<1>9. CountBacked'
  BY <1>1, <1>3, <1>5, <1>7, <1>8 DEF CountBacked, Reading, seen
<1>10. CoverageBacked' /\ HistoryReconciles'
  BY <1>1 DEF CoverageBacked, HistoryReconciles, Answered
<1> QED
  BY <1>0, <1>1, <1>2, <1>4, <1>9, <1>10 DEF ReaderInv

LEMMA SumsStep ==
    ASSUME ReaderInv, ReadFees \/ ReadSpends PROVE ReaderInv'
<1>0. Account(db) /\ RequestType /\ StatusBacked /\ CountBacked
  BY DEF ReaderInv
<1>1. /\ db' = db /\ request.at \in {"fees", "spends"}
      /\ request'.at \in {"spends", "pools"}
      /\ request'.ask = request.ask /\ request'.undone = request.undone
      /\ "last" \in DOMAIN request.seen => /\ "last" \in DOMAIN request'.seen
                                           /\ request'.seen["last"] = request.seen["last"]
      /\ "blocks" \in DOMAIN request.seen => /\ "blocks" \in DOMAIN request'.seen
                                             /\ request'.seen["blocks"] = request.seen["blocks"]
      /\ request' = [at |-> request'.at, ask |-> request'.ask, seen |-> request'.seen,
                     undone |-> request'.undone]
  <2>1. CASE ReadFees
    BY <1>0, <2>1, ReadStep DEF ReadFees
  <2>2. CASE ReadSpends
    BY <1>0, <2>2, ReadStep DEF ReadSpends
  <2> QED
    BY <2>1, <2>2
<1>2. RequestType'
  BY <1>0, <1>1 DEF RequestType, Reading
<1>3. "last" \in DOMAIN seen /\ "blocks" \in DOMAIN seen
  BY <1>0, <1>1 DEF StatusBacked, CountBacked, Reading
<1>4. StatusBacked' /\ CountBacked'
  BY <1>0, <1>1, <1>3 DEF StatusBacked, CountBacked, Reading, seen
<1>5. CoverageBacked' /\ HistoryReconciles'
  BY <1>1 DEF CoverageBacked, HistoryReconciles, Answered
<1> QED
  BY <1>0, <1>1, <1>2, <1>4, <1>5 DEF ReaderInv

LEMMA PoolsStep ==
    ASSUME ReaderInv, ReadPools PROVE ReaderInv'
<1> DEFINE L == LatestSnapshots(db)
           n == LastHeight(db)
<1>0. Account(db) /\ RequestType /\ StatusBacked /\ CountBacked
  BY DEF ReaderInv
<1>1. /\ db' = db /\ request.at = "pools" /\ request'.at = "200"
      /\ request'.ask = request.ask /\ request'.undone = request.undone
      /\ request'.seen["pools"] = L
      /\ \A f \in DOMAIN request.seen :
            f # "pools" => request'.seen[f] = request.seen[f]
      /\ request' = [at |-> request'.at, ask |-> request'.ask, seen |-> request'.seen,
                     undone |-> request'.undone]
  BY <1>0, ReadStep DEF ReadPools
<1>2. RequestType'
  BY <1>0, <1>1 DEF RequestType, Reading
<1>3. "last" \in DOMAIN seen /\ "blocks" \in DOMAIN seen
  BY <1>0, <1>1 DEF StatusBacked, CountBacked, Reading
<1>4. request'.seen["last"] = seen.last /\ request'.seen["blocks"] = seen.blocks
  BY <1>1, <1>3 DEF seen
<1> DEFINE after == request'.seen
<1>10. /\ after.pools = L /\ after.last = seen.last /\ after.blocks = seen.blocks
       /\ (request.undone <=> request'.undone)
  BY <1>1, <1>4
<1>11. ASSUME \/ after.pools = {}
              \/ /\ {s.row.pool : s \in after.pools} = Pools
                 /\ Cardinality(after.pools) = Cardinality(Pools)
                 /\ \A s, r \in after.pools : s.height = r.height,
              ~request'.undone /\ after.last # None =>
                 /\ after.pools # {}
                 /\ \A s \in after.pools : s.height >= after.last
                 /\ after.blocks >= after.last - StartHeight + 1
       PROVE  CoverageBacked'
  BY <1>11 DEF CoverageBacked, seen
<1> HIDE DEF after
<1>5. L = AtHeight(db, n)
  BY <1>0, LatestAreLast
<1>6. ASSUME db.blocks = {} PROVE CoverageBacked'
  <2>1. n = StartHeight - 1 /\ StartHeight \in Int
    BY <1>0, <1>6, AnyBlock, HeightAssumption
  <2>2. L = {}
    BY <1>0, <1>5, <2>1 DEF AtHeight, Account, RowsTyped
  <2>3. request.undone \/ seen.last = None
    BY <1>0, <1>1, <1>6 DEF StatusBacked, Reading
  <2> HIDE DEF L, n
  <2>4. after.pools = {}
    BY <1>10, <2>2
  <2>5. request'.undone \/ after.last = None
    BY <1>10, <2>3
  <2>6. CoverageBacked'
    BY <1>11, <2>4, <2>5
  <2> QED
    BY <2>6
<1>7. ASSUME db.blocks # {} PROVE CoverageBacked'
  <2>1. n \in StartHeight .. n
    BY <1>0, <1>7, AnyBlock
  <2>2. {s.row.pool : s \in L} = Pools /\ Cardinality(L) = Cardinality(Pools)
    BY <1>0, <1>5, <2>1, RowsAtHeight
  <2>3. \A s \in L : s.height = n
    BY <1>5 DEF AtHeight
  <2>4. L # {}
    BY <2>2, PoolsAssumption
  <2>5. ~request.undone /\ seen.last # None =>
           /\ seen.last \in Int /\ seen.last <= n
           /\ seen.blocks >= seen.last - StartHeight + 1
    BY <1>0, <1>1 DEF StatusBacked, CountBacked, Reading
  <2> HIDE DEF L, n
  <2>6. ~request.undone /\ seen.last # None => \A s \in L : s.height >= seen.last
    BY <2>1, <2>3, <2>5
  <2>7. \A s, r \in L : s.height = r.height
    BY <2>3
  <2>8. /\ {s.row.pool : s \in after.pools} = Pools
        /\ Cardinality(after.pools) = Cardinality(Pools)
        /\ \A s, r \in after.pools : s.height = r.height
    BY <1>10, <2>2, <2>7
  <2>9. ~request'.undone /\ after.last # None =>
           /\ after.pools # {}
           /\ \A s \in after.pools : s.height >= after.last
           /\ after.blocks >= after.last - StartHeight + 1
    BY <1>10, <2>4, <2>5, <2>6
  <2>10. CoverageBacked'
    BY <1>11, <2>8, <2>9
  <2> QED
    BY <2>10
<1>8. HistoryReconciles'
  <2>1. request'.ask = Overview
    BY <1>0, <1>1 DEF RequestType, Reading
  <2> QED
    BY <2>1, KindsDiffer DEF HistoryReconciles, History, MaybeHeight
<1>9. StatusBacked' /\ CountBacked'
  BY <1>1 DEF StatusBacked, CountBacked, Reading
<1> QED
  BY <1>0, <1>1, <1>2, <1>6, <1>7, <1>8, <1>9 DEF ReaderInv

\* An unbroken run of rows in order reconciles, whatever was asked.
LEMMA RunReconciles ==
    ASSUME NEW d, Account(d), NEW q \in History, q.pool \in Pools,
           NEW rows, rows = PoolHistory(d, q)
    PROVE  /\ Len(rows) <= q.limit
           /\ \A i \in 1 .. Len(rows) :
                 /\ rows[i].row.pool = q.pool
                 /\ rows[i].height >= OldEnd(q)
                 /\ q.to # None => rows[i].height <= q.to
           /\ \A i \in 2 .. Len(rows) :
                 /\ rows[i].height = rows[i - 1].height + 1
                 /\ rows[i].row.at.liq = rows[i - 1].row.at.liq + rows[i].row.at.entry
                                                               - rows[i].row.at.exit
           /\ 0 < Len(rows) /\ Len(rows) < q.limit => rows[1].height = OldEnd(q)
           /\ IF OldEnd(q) <= NewEnd(d, q)
              THEN rows # << >> /\ rows[Len(rows)].height = NewEnd(d, q)
              ELSE rows = << >>
<1>1. PICK a, z : HistoryRun(d, q, a, z)
  BY HistoryRuns
<1> DEFINE T == Between(d, q.pool, a, z)
           n == z - a + 1
<1>2. /\ a \in Int /\ z \in Int /\ n \in Nat /\ a <= z + 1
      /\ StartHeight <= a /\ z <= LastHeight(d)
      /\ rows = ByHeight(Between(d, q.pool, a, z))
  BY <1>1 DEF HistoryRun
<1>3. /\ Len(rows) = n /\ (rows = << >> <=> a = z + 1)
      /\ \A i \in 1 .. n : rows[i] \in T /\ rows[i].height = a + i - 1
  BY <1>2, OrderedRows
<1>4. Len(rows) <= q.limit
  BY <1>1, <1>3 DEF HistoryRun
<1>5. ASSUME NEW i \in 1 .. n
      PROVE  /\ rows[i].row.pool = q.pool
             /\ rows[i].height >= OldEnd(q)
             /\ q.to # None => rows[i].height <= q.to
  <2>1. rows[i] \in T /\ rows[i].height = a + i - 1
    BY <1>3
  <2>2. a <= z
    BY <1>2
  <2>3. OldEnd(q) <= a /\ z = NewEnd(d, q)
    BY <1>1, <2>2 DEF HistoryRun
  <2>4. rows[i].row.pool = q.pool /\ InRange(rows[i], q)
    <3>1. rows[i] \in Between(d, q.pool, OldEnd(q), NewEnd(d, q))
      <4>1. OldEnd(q) \in Int
        BY QueryType
      <4> QED
        BY <1>2, <2>1, <2>3, <4>1 DEF Between
    <3>2. rows[i] \in {s \in d.snaps : InRange(s, q)}
      BY <3>1, RangeRows
    <3> QED
      BY <3>2 DEF InRange
  <2>5. OldEnd(q) \in Int
    BY QueryType
  <2>6. rows[i].height >= OldEnd(q)
    BY <1>2, <2>1, <2>3, <2>5
  <2> QED
    BY <2>4, <2>6 DEF InRange
<1>6. ASSUME NEW i \in 2 .. n
      PROVE  /\ rows[i].height = rows[i - 1].height + 1
             /\ rows[i].row.at.liq = rows[i - 1].row.at.liq + rows[i].row.at.entry
                                                            - rows[i].row.at.exit
  <2>1. i \in 1 .. n /\ i - 1 \in 1 .. n
    BY <1>2
  <2>2. rows[i].height = a + i - 1 /\ rows[i - 1].height = a + (i - 1) - 1
    BY <1>3, <2>1
  <2>3. rows[i].height = rows[i - 1].height + 1
    BY <1>2, <2>1, <2>2
  <2>4. rows[i] \in T /\ rows[i - 1] \in T
    BY <1>3, <2>1
  <2>5. /\ rows[i] \in d.snaps /\ rows[i - 1] \in d.snaps
        /\ rows[i].row.pool = rows[i - 1].row.pool
    BY <2>4 DEF Between
  <2>6. Carries(d)
    BY DEF Account
  <2> QED
    BY <2>3, <2>5, <2>6 DEF Carries
<1>7. 0 < n /\ n < q.limit => rows[1].height = OldEnd(q)
  <2> SUFFICES ASSUME 0 < n, n < q.limit PROVE rows[1].height = OldEnd(q)
    OBVIOUS
  <2>1. a = OldEnd(q)
    BY <1>1 DEF HistoryRun
  <2>2. 1 \in 1 .. n
    BY <1>2
  <2>3. rows[1].height = a + 1 - 1
    BY <1>3, <2>2
  <2> QED
    BY <1>2, <2>1, <2>3
<1>8. CASE a <= z
  <2>1. z = NewEnd(d, q) /\ OldEnd(q) <= NewEnd(d, q)
    BY <1>1, <1>8 DEF HistoryRun
  <2>2. n \in 1 .. n
    BY <1>2, <1>8
  <2>3. rows[n].height = a + n - 1
    BY <1>3, <2>2
  <2>4. rows # << >> /\ rows[Len(rows)].height = z
    BY <1>2, <1>3, <1>8, <2>3
  <2> QED
    BY <1>3, <1>4, <1>5, <1>6, <1>7, <2>1, <2>4
<1>9. CASE ~(a <= z)
  <2>1. ~(OldEnd(q) <= NewEnd(d, q))
    BY <1>1, <1>9 DEF HistoryRun
  <2>2. rows = << >>
    BY <1>2, <1>3, <1>9
  <2> QED
    BY <1>3, <1>4, <1>5, <1>6, <1>7, <2>1, <2>2
<1> QED
  BY <1>8, <1>9

LEMMA HistoryStep ==
    ASSUME ReaderInv, ReadHistory PROVE ReaderInv'
<1> DEFINE rows == PoolHistory(db, request.ask)
<1>0. Account(db) /\ RequestType
  BY DEF ReaderInv
<1>1. /\ db' = db /\ request.at = "history" /\ request'.at = "200"
      /\ request'.ask = request.ask /\ request'.undone = request.undone
      /\ request'.seen["snapshots"] = rows
      /\ request' = [at |-> request'.at, ask |-> request'.ask, seen |-> request'.seen,
                     undone |-> request'.undone]
  BY <1>0, ReadStep DEF ReadHistory
<1>2. RequestType' /\ StatusBacked' /\ CountBacked'
  BY <1>0, <1>1 DEF RequestType, StatusBacked, CountBacked, Reading
<1>3. request.ask \in History /\ request.ask.pool \in Pools
  BY <1>0, <1>1 DEF RequestType, ReadHistory, History
<1>4. CoverageBacked'
  <2>1. request'.ask # Overview
    BY <1>1, <1>3, KindsDiffer
  <2> QED
    BY <2>1 DEF CoverageBacked, Answered
<1>5. HistoryReconciles'
  <2> HIDE DEF rows
  <2>1. rows = PoolHistory(db, request.ask)
    BY DEF rows
  <2>2. request'.seen.snapshots = rows /\ request'.ask = request.ask
    BY <1>1
  <2>3. /\ Len(rows) <= request.ask.limit
        /\ \A i \in 1 .. Len(rows) :
              /\ rows[i].row.pool = request.ask.pool
              /\ rows[i].height >= OldEnd(request.ask)
              /\ request.ask.to # None => rows[i].height <= request.ask.to
        /\ \A i \in 2 .. Len(rows) :
              /\ rows[i].height = rows[i - 1].height + 1
              /\ rows[i].row.at.liq = rows[i - 1].row.at.liq + rows[i].row.at.entry
                                                            - rows[i].row.at.exit
        /\ 0 < Len(rows) /\ Len(rows) < request.ask.limit =>
              rows[1].height = OldEnd(request.ask)
    BY <1>0, <1>3, <2>1, RunReconciles
  <2> QED
    BY <2>2, <2>3 DEF HistoryReconciles, seen
<1> QED
  BY <1>0, <1>1, <1>2, <1>4, <1>5 DEF ReaderInv

-----------------------------------------------------------------------------
LEMMA ReaderStep == ReaderInv /\ [Next]_vars => ReaderInv'
<1> SUFFICES ASSUME ReaderInv, [Next]_vars PROVE ReaderInv'
  OBVIOUS
<1>1. CASE \E b \in Block : Commit(b)
  BY <1>1, CommitStep
<1>2. CASE \E h \in {StartHeight - 1} \cup Heights : RollbackTo(h)
  BY <1>2, RollbackStep
<1>3. CASE AskOverview \/ Unavailable \/ \E q \in History : AskHistory(q)
  BY <1>3, AskStep
<1>4. CASE ReadOverview
  BY <1>4, StatusStep, CountStep, SumsStep, PoolsStep DEF ReadOverview
<1>5. CASE ReadHistory \/ RefusePool
  BY <1>5, HistoryStep, RefuseStep
<1>6. CASE UNCHANGED vars
  BY <1>6 DEF vars, ReaderInv, RequestType, StatusBacked, CountBacked, CoverageBacked,
              HistoryReconciles, Answered, seen
<1> QED
  BY <1>1, <1>2, <1>3, <1>4, <1>5, <1>6 DEF Next

LEMMA ReaderInvHolds == Spec => []ReaderInv
BY ReaderInit, ReaderStep, PTL DEF Spec

(* An overview has one snapshot of every pool, all of one height, or none;  *)
(* and unless a rollback came in between its five queries it never claims a *)
(* height or a block count its snapshots do not back (overview).            *)
THEOREM OverviewIsBacked == Spec => []CoverageBacked
<1>1. ReaderInv => CoverageBacked
  BY DEF ReaderInv
<1> QED
  BY <1>1, ReaderInvHolds, PTL

(* A pool history is an unbroken run of rows of the pool and the range      *)
(* asked for, whose liquidity carries on from row to row, cut only to the   *)
(* limit and only at its old end, after any commits and rollbacks           *)
(* (pool_history).                                                          *)
THEOREM HistoriesReconcile == Spec => []HistoryReconciles
<1>1. ReaderInv => HistoryReconciles
  BY DEF ReaderInv
<1> QED
  BY <1>1, ReaderInvHolds, PTL

(* A pool history ends where its range or the index of that moment ends,    *)
(* and is empty only when no indexed height is in the range (pool_history). *)
THEOREM HistoriesAreCurrent == Spec => NothingNewerHidden
<1>1. ReaderInv /\ [Next]_vars => [ReadHistory =>
         LET rows == request'.seen.snapshots
             last == NewEnd(db, request.ask)
         IN  IF OldEnd(request.ask) <= last
             THEN rows # << >> /\ rows[Len(rows)].height = last
             ELSE rows = << >>]_vars
  <2> SUFFICES ASSUME ReaderInv, ReadHistory
               PROVE  LET rows == request'.seen.snapshots
                          last == NewEnd(db, request.ask)
                      IN  IF OldEnd(request.ask) <= last
                          THEN rows # << >> /\ rows[Len(rows)].height = last
                          ELSE rows = << >>
    OBVIOUS
  <2>1. Account(db) /\ RequestType
    BY DEF ReaderInv
  <2>2. request.at = "history" /\ request'.seen["snapshots"] = PoolHistory(db, request.ask)
    BY <2>1, ReadStep DEF ReadHistory
  <2>3. request.ask \in History /\ request.ask.pool \in Pools
    BY <2>1, <2>2 DEF RequestType, ReadHistory, History
  <2> QED
    BY <2>1, <2>2, <2>3, RunReconciles
<1> QED
  BY <1>1, ReaderInvHolds, PTL DEF Spec, NothingNewerHidden
=============================================================================
