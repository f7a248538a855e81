-------------------------- MODULE ChainLedgerLemmas --------------------------
(***************************************************************************)
(* What writing a block and rolling back do to a sound database: the facts *)
(* the theorems about the index rest on.                                   *)
(***************************************************************************)
EXTENDS ChainLedger, FiniteSetTheorems, WellFoundedInduction, TLAPS

(* A height that bounds the indexed ones and is reached is the last one.    *)
LEMMA LastHeightIs ==
    ASSUME NEW d, NEW n, IsLast(d, n), d.blocks \subseteq Block
    PROVE  LastHeight(d) = n
<1>1. n \in {StartHeight - 1} \cup Heights
  BY DEF IsLast, Heights
<1>2. ASSUME NEW m, IsLast(d, m) PROVE m = n
  <2>1. m \in Int /\ n \in Int
    BY <1>2 DEF IsLast
  <2>2. m <= n
    BY <1>2, <2>1, HeightAssumption DEF IsLast
  <2>3. n <= m
    BY <1>2, <2>1, HeightAssumption DEF IsLast
  <2> QED
    BY <2>1, <2>2, <2>3
<1>3. LastHeight(d) \in {StartHeight - 1} \cup Heights /\ IsLast(d, LastHeight(d))
  BY <1>1 DEF LastHeight
<1> QED
  BY <1>2, <1>3

(* Nothing is above the last height, so rolling back to it keeps everything.*)
LEMMA KeptAll ==
    ASSUME NEW table, NEW n \in Int, TableSound(table, n), NEW o \in Outpoint
    PROVE  Kept(table, o, n) = table[o]
<1>1. \A r \in table[o] : {s \in r.spent : s.height <= n} = r.spent
  BY DEF TableSound
<1>2. {q \in table[o] : q.created <= n} = table[o]
  BY DEF TableSound
<1>3. \A r \in table[o] :
        [item |-> r.item, created |-> r.created,
         spent |-> {s \in r.spent : s.height <= n}] = r
  BY <1>1 DEF TableSound
<1> QED
  BY <1>2, <1>3 DEF Kept

\* Rolling back to the last height changes nothing.
LEMMA RollbackToLast ==
    ASSUME NEW d, Sound(d)
    PROVE  Rollback(d, LastHeight(d)) = d
<1> DEFINE n == LastHeight(d)
<1>0. n \in Int
  BY DEF Sound, IsLast
<1>1. {b \in d.blocks : Height[b] <= n} = d.blocks
  BY DEF Sound, IsLast
<1>2. [o \in Outpoint |-> Kept(d.pool, o, n)] = d.pool
  <2>1. TableSound(d.pool, n)
    BY DEF Sound
  <2>2. \A o \in Outpoint : Kept(d.pool, o, n) = d.pool[o]
    BY <1>0, <2>1, KeptAll
  <2> QED
    BY <2>1, <2>2 DEF TableSound
<1>3. [o \in Outpoint |-> Kept(d.coord, o, n)] = d.coord
  <2>1. TableSound(d.coord, n)
    BY DEF Sound
  <2>2. \A o \in Outpoint : Kept(d.coord, o, n) = d.coord[o]
    BY <1>0, <2>1, KeptAll
  <2> QED
    BY <2>1, <2>2 DEF TableSound
<1>4. /\ UpTo(d.tx0s, n) = d.tx0s /\ UpTo(d.rounds, n) = d.rounds
      /\ UpTo(d.spends, n) = d.spends /\ UpTo(d.snaps, n) = d.snaps
  BY DEF Sound, RowsSound, UpTo
<1> QED
  BY <1>1, <1>2, <1>3, <1>4 DEF Rollback, Sound

(* A block's writes are invisible below its height: rows it inserts are     *)
(* dropped, spends it marks are undone (_write_block, rollback_after).      *)
LEMMA KeptWritten ==
    ASSUME NEW table, NEW new, NEW spend, NEW h \in Int, NEW k \in Int, k < h,
           NEW o, new # {} => table[o] = {},
           NEW after, after[o] = Written(table, o, h, new, spend)
    PROVE  Kept(after, o, k) = Kept(table, o, k)
<1> DEFINE Cut(r) == [item |-> r.item, created |-> r.created,
                      spent |-> {s \in r.spent : s.height <= k}]
<1>1. CASE new # {}
  <2>1. \A r \in after[o] : r.created = h
    BY <1>1 DEF Written
  <2>2. {q \in after[o] : q.created <= k} = {}
    BY <2>1
  <2> QED
    BY <1>1, <2>2 DEF Kept
<1>2. CASE new = {} /\ spend # {}
  <2>1. after[o] = {MarkSpent(r, h, spend) : r \in table[o]}
    BY <1>2 DEF Written
  <2>2. ASSUME NEW r \in table[o]
        PROVE  /\ MarkSpent(r, h, spend).created = r.created
               /\ Cut(MarkSpent(r, h, spend)) = Cut(r)
    <3>1. {s \in SpentAt(h, spend) : s.height <= k} = {}
      BY DEF SpentAt
    <3> QED
      BY <3>1 DEF MarkSpent
  <2>3. {Cut(r) : r \in {q \in after[o] : q.created <= k}}
          = {Cut(r) : r \in {q \in table[o] : q.created <= k}}
    <3> HIDE DEF Cut
    <3>1. ASSUME NEW q \in after[o], q.created <= k
          PROVE  \E r \in table[o] : r.created <= k /\ Cut(r) = Cut(q)
      BY <2>1, <2>2, <3>1
    <3>2. ASSUME NEW r \in table[o], r.created <= k
          PROVE  \E q \in after[o] : q.created <= k /\ Cut(q) = Cut(r)
      BY <2>1, <2>2, <3>2
    <3> QED
      BY <3>1, <3>2
  <2> QED
    BY <2>3 DEF Kept
<1>3. CASE new = {} /\ spend = {}
  BY <1>3 DEF Kept, Written
<1> QED
  BY <1>1, <1>2, <1>3

\* Rows logged at a height are gone below it.
LEMMA UpToLogged ==
    ASSUME NEW rows, NEW more, NEW h \in Int, NEW k \in Int, k < h
    PROVE  UpTo(rows \cup Logged(h, more), k) = UpTo(rows, k)
BY DEF UpTo, Logged

(* Rolling back below a block just written undoes exactly that block.       *)
LEMMA RollbackWritten ==
    ASSUME NEW d, NEW b \in Block, NEW st, NEW snap, KeysFree(d, b, st),
           NEW k \in Int, k < Height[b]
    PROVE  Rollback(WriteBlock(d, b, st, snap), k) = Rollback(d, k)
<1> DEFINE e == WriteBlock(d, b, st, snap)
           h == Height[b]
<1>0. h \in Int
  BY HeightAssumption
<1>1. {c \in d.blocks \cup {b} : Height[c] <= k} = {c \in d.blocks : Height[c] <= k}
  BY <1>0
<1>2. \A o \in Outpoint : Kept(e.pool, o, k) = Kept(d.pool, o, k)
  <2> TAKE o \in Outpoint
  <2>1. e.pool[o] = Written(d.pool, o, h, st.added[o], st.spent[o])
    BY DEF WriteBlock
  <2>2. st.added[o] # {} => d.pool[o] = {}
    BY DEF KeysFree
  <2> QED
    BY <1>0, <2>1, <2>2, KeptWritten
<1>3. \A o \in Outpoint : Kept(e.coord, o, k) = Kept(d.coord, o, k)
  <2> TAKE o \in Outpoint
  <2>1. e.coord[o] = Written(d.coord, o, h, st.cadded[o], st.cspent[o])
    BY DEF WriteBlock
  <2>2. st.cadded[o] # {} => d.coord[o] = {}
    BY DEF KeysFree
  <2> QED
    BY <1>0, <2>1, <2>2, KeptWritten
<1>4. /\ UpTo(e.tx0s, k) = UpTo(d.tx0s, k)
      /\ UpTo(e.rounds, k) = UpTo(d.rounds, k)
      /\ UpTo(e.spends, k) = UpTo(d.spends, k)
      /\ UpTo(e.snaps, k) = UpTo(d.snaps, k)
  <2>1. \E more : e.tx0s = d.tx0s \cup Logged(h, more)
    BY DEF WriteBlock
  <2>2. \E more : e.rounds = d.rounds \cup Logged(h, more)
    BY DEF WriteBlock
  <2>3. \E more : e.spends = d.spends \cup Logged(h, more)
    BY DEF WriteBlock
  <2>4. \E more : e.snaps = d.snaps \cup Logged(h, more)
    BY DEF WriteBlock
  <2> HIDE DEF e, h
  <2> QED
    BY <1>0, <2>1, <2>2, <2>3, <2>4, UpToLogged DEF h
<1>5. e.blocks = d.blocks \cup {b}
  BY DEF WriteBlock
<1>6. Rollback(e, k) = Rollback(d, k)
  <2> HIDE DEF e
  <2> QED
    BY <1>1, <1>2, <1>3, <1>4, <1>5 DEF Rollback
<1> QED
  BY <1>6

\* A table stays sound when a block of the next height is written to it.
LEMMA SoundWritten ==
    ASSUME NEW table, NEW new, NEW spend, NEW n \in Int, TableSound(table, n),
           NEW after,
           after = [x \in Outpoint |-> Written(table, x, n + 1, new[x], spend[x])]
    PROVE  TableSound(after, n + 1)
<1> SUFFICES ASSUME NEW o \in Outpoint, NEW r \in after[o]
             PROVE  /\ r = [item |-> r.item, created |-> r.created, spent |-> r.spent]
                    /\ r.created \in Int /\ r.created <= n + 1
                    /\ \A s \in r.spent : s.height \in Int /\ s.height <= n + 1
  BY DEF TableSound
<1>0. r \in Written(table, o, n + 1, new[o], spend[o])
  OBVIOUS
<1>1. \A s \in SpentAt(n + 1, spend[o]) : s.height = n + 1
  BY DEF SpentAt
<1>2. CASE new[o] # {}
  BY <1>0, <1>1, <1>2 DEF Written
<1>3. CASE new[o] = {} /\ spend[o] # {}
  <2>1. PICK q \in table[o] : r = MarkSpent(q, n + 1, spend[o])
    BY <1>0, <1>3 DEF Written
  <2>2. /\ q.created \in Int /\ q.created <= n
        /\ \A s \in q.spent : s.height \in Int /\ s.height <= n
    BY DEF TableSound
  <2> QED
    BY <1>1, <2>1, <2>2 DEF MarkSpent
<1>4. CASE new[o] = {} /\ spend[o] = {}
  BY <1>0, <1>4 DEF Written, TableSound
<1> QED
  BY <1>2, <1>3, <1>4

\* So does a set of logged rows.
LEMMA RowsWritten ==
    ASSUME NEW rows, NEW more, NEW n \in Int, RowsSound(rows, n)
    PROVE  RowsSound(rows \cup Logged(n + 1, more), n + 1)
BY DEF RowsSound, Logged

\* The empty database is sound and ends below the start height.
LEMMA SoundEmpty ==
    Sound(EmptyDb) /\ LastHeight(EmptyDb) = StartHeight - 1
<1>1. IsLast(EmptyDb, StartHeight - 1)
  BY HeightAssumption DEF IsLast, EmptyDb
<1>2. LastHeight(EmptyDb) = StartHeight - 1
  BY <1>1, LastHeightIs DEF EmptyDb
<1>3. Gapless(EmptyDb)
  BY <1>2, HeightAssumption DEF Gapless
<1> QED
  BY <1>1, <1>2, <1>3 DEF Sound, EmptyDb, TableSound, RowsSound

(* Writing a connecting block keeps a database sound and moves its last     *)
(* height to the block's.                                                   *)
LEMMA SoundWriteBlock ==
    ASSUME NEW d, Sound(d), NEW b \in Block, Height[b] = LastHeight(d) + 1,
           NEW st, NEW snap
    PROVE  /\ Sound(WriteBlock(d, b, st, snap))
           /\ LastHeight(WriteBlock(d, b, st, snap)) = Height[b]
<1> DEFINE e == WriteBlock(d, b, st, snap)
           n == LastHeight(d)
<1>0. n \in Int /\ n >= StartHeight - 1 /\ StartHeight \in Int /\ Height[b] = n + 1
  BY HeightAssumption DEF Sound, IsLast
<1>1. /\ e.blocks = d.blocks \cup {b}
      /\ e.pool = [o \in Outpoint |-> Written(d.pool, o, n + 1, st.added[o], st.spent[o])]
      /\ e.coord = [o \in Outpoint |-> Written(d.coord, o, n + 1, st.cadded[o], st.cspent[o])]
  BY DEF WriteBlock
<1>2. IsLast(e, n + 1)
  <2>1. \A c \in d.blocks : Height[c] \in Int /\ Height[c] <= n
    BY HeightAssumption DEF Sound, IsLast
  <2> QED
    BY <1>0, <1>1, <2>1 DEF IsLast
<1>3. LastHeight(e) = n + 1
  BY <1>1, <1>2, LastHeightIs DEF Sound
<1>4. Gapless(e)
  <2>1. \A k \in StartHeight .. n + 1 : k \in StartHeight .. n \/ k = Height[b]
    BY <1>0
  <2> HIDE DEF e
  <2> QED
    BY <1>0, <1>1, <1>3, <2>1 DEF Gapless, Sound
<1>5. TableSound(e.pool, n + 1)
  <2>1. \E new, spend :
          e.pool = [o \in Outpoint |-> Written(d.pool, o, n + 1, new[o], spend[o])]
    BY <1>1
  <2> HIDE DEF e, n
  <2> QED
    BY <1>0, <2>1, SoundWritten DEF Sound, n
<1>6. TableSound(e.coord, n + 1)
  <2>1. \E new, spend :
          e.coord = [o \in Outpoint |-> Written(d.coord, o, n + 1, new[o], spend[o])]
    BY <1>1
  <2> HIDE DEF e, n
  <2> QED
    BY <1>0, <2>1, SoundWritten DEF Sound, n
<1>7. /\ RowsSound(e.tx0s, n + 1) /\ RowsSound(e.rounds, n + 1)
      /\ RowsSound(e.spends, n + 1) /\ RowsSound(e.snaps, n + 1)
  <2>1. /\ e.tx0s = d.tx0s \cup Logged(n + 1, st.tx0s)
        /\ e.rounds = d.rounds \cup Logged(n + 1, st.rounds)
        /\ e.spends = d.spends \cup Logged(n + 1, st.spends)
        /\ \E more : e.snaps = d.snaps \cup Logged(n + 1, more)
    BY DEF WriteBlock
  <2> HIDE DEF e, n
  <2> QED
    BY <1>0, <2>1, RowsWritten DEF Sound, n
<1>8. e = [blocks |-> e.blocks, pool |-> e.pool, coord |-> e.coord,
           tx0s |-> e.tx0s, rounds |-> e.rounds, spends |-> e.spends,
           snaps |-> e.snaps]
  BY DEF WriteBlock
<1>9. e.blocks \subseteq Block
  BY <1>1 DEF Sound
<1> HIDE DEF e
<1>10. Sound(e) /\ LastHeight(e) = Height[b]
  BY <1>0, <1>2, <1>3, <1>4, <1>5, <1>6, <1>7, <1>8, <1>9 DEF Sound
<1> QED
  BY <1>10 DEF e

\* A table cut at a height is sound up to that height.
LEMMA KeptSound ==
    ASSUME NEW table, NEW n \in Int, TableSound(table, n), NEW h \in Int
    PROVE  TableSound([o \in Outpoint |-> Kept(table, o, h)], h)
BY DEF TableSound, Kept

(* Rolling back to a height in the index keeps a database sound and leaves  *)
(* that height as the last one.                                             *)
LEMMA SoundRollback ==
    ASSUME NEW d, Sound(d), NEW h \in (StartHeight - 1) .. LastHeight(d)
    PROVE  Sound(Rollback(d, h)) /\ LastHeight(Rollback(d, h)) = h
<1> DEFINE e == Rollback(d, h)
           n == LastHeight(d)
<1>0. n \in Int /\ h \in Int /\ h <= n /\ StartHeight - 1 <= h /\ StartHeight \in Int
  BY HeightAssumption DEF Sound, IsLast
<1>1. e.blocks = {c \in d.blocks : Height[c] <= h}
  BY DEF Rollback
<1>2. d.blocks \subseteq Block /\ \A c \in d.blocks : Height[c] \in Int
  BY HeightAssumption DEF Sound
<1>3. \A k \in StartHeight .. h : \E c \in e.blocks : Height[c] = k
  <2> TAKE k \in StartHeight .. h
  <2>1. k \in StartHeight .. n
    BY <1>0
  <2>2. PICK c \in d.blocks : Height[c] = k
    BY <2>1 DEF Sound, Gapless
  <2> QED
    BY <1>0, <1>1, <2>2
<1>4. IsLast(e, h)
  <2>1. h = StartHeight - 1 \/ h \in StartHeight .. h
    BY <1>0
  <2> HIDE DEF e
  <2> QED
    BY <1>0, <1>1, <1>2, <1>3, <2>1 DEF IsLast
<1>5. LastHeight(e) = h
  BY <1>1, <1>2, <1>4, LastHeightIs
<1>6. Gapless(e)
  BY <1>3, <1>5 DEF Gapless
<1>7. TableSound(e.pool, h) /\ TableSound(e.coord, h)
  BY <1>0, KeptSound DEF Sound, Rollback
<1>8. /\ RowsSound(e.tx0s, h) /\ RowsSound(e.rounds, h)
      /\ RowsSound(e.spends, h) /\ RowsSound(e.snaps, h)
  BY <1>0 DEF Sound, Rollback, RowsSound, UpTo
<1>9. e = [blocks |-> e.blocks, pool |-> e.pool, coord |-> e.coord,
           tx0s |-> e.tx0s, rounds |-> e.rounds, spends |-> e.spends,
           snaps |-> e.snaps]
  BY DEF Rollback
<1> HIDE DEF e
<1>10. Sound(e) /\ LastHeight(e) = h
  BY <1>1, <1>2, <1>4, <1>5, <1>6, <1>7, <1>8, <1>9 DEF Sound
<1> QED
  BY <1>10 DEF e

\* Cutting a table twice is cutting it at the lower height.
LEMMA KeptKept ==
    ASSUME NEW table, NEW o, NEW n \in Int, NEW h \in Int, NEW k \in Int, k <= h,
           NEW cut, cut[o] = Kept(table, o, h),
           \A r \in table[o] : /\ r.created \in Int
                               /\ \A s \in r.spent : s.height \in Int
    PROVE  Kept(cut, o, k) = Kept(table, o, k)
<1> DEFINE Cut(r, i) == [item |-> r.item, created |-> r.created,
                         spent |-> {s \in r.spent : s.height <= i}]
<1>1. \A r \in table[o] : Cut(Cut(r, h), k) = Cut(r, k)
  OBVIOUS
<1>2. \A r \in table[o] : r.created <= k => r.created <= h
  OBVIOUS
<1>3. Kept(cut, o, k) = {Cut(q, k) : q \in {x \in cut[o] : x.created <= k}}
  BY DEF Kept
<1>4. cut[o] = {Cut(r, h) : r \in {x \in table[o] : x.created <= h}}
  BY DEF Kept
<1>5. Kept(table, o, k) = {Cut(q, k) : q \in {x \in table[o] : x.created <= k}}
  BY DEF Kept
<1>6. \A r : Cut(r, h).created = r.created
  OBVIOUS
<1> HIDE DEF Cut
<1> QED
  BY <1>1, <1>2, <1>3, <1>4, <1>5, <1>6

(* Rolling back in two steps is rolling back once.                          *)
LEMMA RollbackRollback ==
    ASSUME NEW d, Sound(d), NEW h \in Int, NEW k \in Int, k <= h
    PROVE  Rollback(Rollback(d, h), k) = Rollback(d, k)
<1> DEFINE e == Rollback(d, h)
<1>1. {c \in e.blocks : Height[c] <= k} = {c \in d.blocks : Height[c] <= k}
  <2>1. \A c \in d.blocks : Height[c] \in Int
    BY HeightAssumption DEF Sound
  <2> QED
    BY <2>1 DEF Rollback
<1>2. \A o \in Outpoint : Kept(e.pool, o, k) = Kept(d.pool, o, k)
  BY KeptKept DEF Rollback, Sound, TableSound
<1>3. \A o \in Outpoint : Kept(e.coord, o, k) = Kept(d.coord, o, k)
  BY KeptKept DEF Rollback, Sound, TableSound
<1>4. /\ UpTo(e.tx0s, k) = UpTo(d.tx0s, k)
      /\ UpTo(e.rounds, k) = UpTo(d.rounds, k)
      /\ UpTo(e.spends, k) = UpTo(d.spends, k)
      /\ UpTo(e.snaps, k) = UpTo(d.snaps, k)
  BY DEF Rollback, UpTo, Sound, RowsSound
<1>5. Rollback(e, k) = Rollback(d, k)
  <2> HIDE DEF e
  <2> QED
    BY <1>1, <1>2, <1>3, <1>4 DEF Rollback
<1> QED
  BY <1>5

-----------------------------------------------------------------------------
(* Memory. *)

\* The pool an output is active in after a block, from what was staged.
LEMMA ActiveWritten ==
    ASSUME NEW d, NEW b, NEW st, NEW snap, NEW e, e = WriteBlock(d, b, st, snap),
           NEW o \in Outpoint
    PROVE  LivePool(e.pool, o)
             = IF st.spent[o] # {} THEN {}
               ELSE IF st.added[o] # {} THEN NewPool(st.added[o])
               ELSE LivePool(d.pool, o)
<1>1. e.pool[o] = Written(d.pool, o, Height[b], st.added[o], st.spent[o])
  BY DEF WriteBlock
<1>2. CASE st.spent[o] # {}
  <2>1. SpentAt(Height[b], st.spent[o]) # {}
    BY <1>2 DEF SpentAt
  <2>2. \A r \in e.pool[o] : r.spent # {}
    BY <1>1, <1>2, <2>1 DEF Written, MarkSpent
  <2>3. Unspent(e.pool, o) = {}
    BY <2>2 DEF Unspent
  <2> QED
    BY <1>2, <2>3 DEF LivePool
<1>3. CASE st.spent[o] = {} /\ st.added[o] # {}
  <2>1. SpentAt(Height[b], st.spent[o]) = {}
    BY <1>3 DEF SpentAt
  <2> DEFINE Row(x) == [item |-> x, created |-> Height[b], spent |-> {}]
  <2>2. e.pool[o] = {Row(x) : x \in st.added[o]}
    BY <1>1, <1>3, <2>1 DEF Written
  <2>3. \A x : Row(x).item.pool = x.pool /\ Row(x).spent = {}
    OBVIOUS
  <2> HIDE DEF Row
  <2>4. Unspent(e.pool, o) = e.pool[o]
    BY <2>2, <2>3 DEF Unspent
  <2>5. LivePool(e.pool, o)
          = {p \in Pools : \E r \in {Row(x) : x \in st.added[o]} : r.item.pool = p}
    BY <2>2, <2>4 DEF LivePool
  <2>6. LivePool(e.pool, o) = {p \in Pools : \E x \in st.added[o] : Row(x).item.pool = p}
    BY <2>5
  <2> QED
    BY <1>3, <2>3, <2>6 DEF NewPool
<1>4. CASE st.spent[o] = {} /\ st.added[o] = {}
  BY <1>1, <1>4 DEF Written, Unspent, LivePool
<1> QED
  BY <1>2, <1>3, <1>4

\* The fee outputs with a row after a block: the old and the added ones.
LEMMA FeeWritten ==
    ASSUME NEW d, NEW b, NEW st, NEW snap, NEW e, e = WriteBlock(d, b, st, snap),
           NEW o \in Outpoint
    PROVE  e.coord[o] # {} <=> d.coord[o] # {} \/ st.cadded[o] # {}
<1>1. e.coord[o] = Written(d.coord, o, Height[b], st.cadded[o], st.cspent[o])
  BY DEF WriteBlock
<1>2. CASE st.cadded[o] # {}
  BY <1>1, <1>2 DEF Written
<1>3. CASE st.cadded[o] = {}
  BY <1>1, <1>3 DEF Written
<1> QED
  BY <1>2, <1>3

\* The unspent fee outputs after a block.
LEMMA CoordWritten ==
    ASSUME NEW d, NEW b, NEW st, NEW snap, NEW e, e = WriteBlock(d, b, st, snap)
    PROVE  Reload(e).coord
             = {o \in Outpoint : /\ st.cspent[o] = {}
                                 /\ Unspent(d.coord, o) # {} \/ st.cadded[o] # {}}
<1>1. Reload(e).coord = {o \in Outpoint : Unspent(e.coord, o) # {}}
  BY DEF Reload
<1>2. ASSUME NEW o \in Outpoint
      PROVE  Unspent(e.coord, o) # {} <=>
               /\ st.cspent[o] = {}
               /\ Unspent(d.coord, o) # {} \/ st.cadded[o] # {}
  <2>0. e.coord[o] = Written(d.coord, o, Height[b], st.cadded[o], st.cspent[o])
    BY DEF WriteBlock
  <2>1. CASE st.cspent[o] # {}
    <3>1. SpentAt(Height[b], st.cspent[o]) # {}
      BY <2>1 DEF SpentAt
    <3>2. \A r \in e.coord[o] : r.spent # {}
      BY <2>0, <2>1, <3>1 DEF Written, MarkSpent
    <3> QED
      BY <2>1, <3>2 DEF Unspent
  <2>2. CASE st.cspent[o] = {} /\ st.cadded[o] # {}
    <3>1. SpentAt(Height[b], st.cspent[o]) = {}
      BY <2>2 DEF SpentAt
    <3>2. PICK x \in st.cadded[o] : TRUE
      BY <2>2
    <3>3. [item |-> x, created |-> Height[b], spent |-> {}] \in Unspent(e.coord, o)
      BY <2>0, <2>2, <3>1, <3>2 DEF Written, Unspent
    <3> QED
      BY <2>2, <3>3
  <2>3. CASE st.cspent[o] = {} /\ st.cadded[o] = {}
    BY <2>0, <2>3 DEF Written, Unspent
  <2> QED
    BY <2>1, <2>2, <2>3
<1> QED
  BY <1>1, <1>2

(* The outputs a pool holds after a block: those it held less those the     *)
(* block spends, plus those the block brings.                               *)
LEMMA HoldingCount ==
    ASSUME NEW d, NEW b, NEW st, KeysFree(d, b, st), NEW snap,
           NEW m, m = Reload(d),
           NEW a, a = Reload(WriteBlock(d, b, st, snap)).active,
           NEW p
    PROVE  /\ Cardinality(Holding(m.active, p)) \in Int
           /\ Cardinality(Gone(m, st, p)) \in Int
           /\ Cardinality(Came(st, p)) \in Int
           /\ Cardinality(Holding(a, p))
                = Cardinality(Holding(m.active, p))
                    - Cardinality(Gone(m, st, p)) + Cardinality(Came(st, p))
<1> DEFINE H == Holding(m.active, p)
           G == Gone(m, st, p)
           C == Came(st, p)
<1>1. \A o \in Outpoint : m.active[o] = LivePool(d.pool, o)
  BY DEF Reload
<1>2. \A o \in Outpoint : a[o] = IF st.spent[o] # {} THEN {}
                                 ELSE IF st.added[o] # {} THEN NewPool(st.added[o]) ELSE LivePool(d.pool, o)
  <2> DEFINE e == WriteBlock(d, b, st, snap)
  <2>1. \A o \in Outpoint : a[o] = LivePool(e.pool, o)
    BY DEF Reload
  <2>2. e = WriteBlock(d, b, st, snap)
    OBVIOUS
  <2> HIDE DEF e
  <2> QED
    BY <2>1, <2>2, ActiveWritten
<1>3. \A o \in Outpoint : st.added[o] # {} => LivePool(d.pool, o) = {}
  BY DEF KeysFree, Unspent, LivePool
<1>4. \A o \in Outpoint : st.added[o] = {} => NewPool(st.added[o]) = {}
  BY DEF NewPool
<1>5. IsFiniteSet(H) /\ IsFiniteSet(G) /\ IsFiniteSet(C)
  <2>1. H \subseteq Outpoint /\ G \subseteq Outpoint /\ C \subseteq Outpoint
    BY DEF Holding, Gone, Came
  <2> QED
    BY <2>1, FinitelyManyOutputs, FS_Subset
<1>6. G \subseteq H /\ H \cap C = {} /\ Holding(a, p) = (H \ G) \cup C
  <2>1. H = {o \in Outpoint : LivePool(d.pool, o) = {p}}
    BY <1>1 DEF Holding
  <2>2. G = {o \in Outpoint : st.spent[o] # {} /\ st.added[o] = {} /\ LivePool(d.pool, o) = {p}}
    BY <1>1 DEF Gone
  <2>3. C = {o \in Outpoint : NewPool(st.added[o]) = {p} /\ st.spent[o] = {}}
    BY DEF Came
  <2>4. Holding(a, p) = {o \in Outpoint : a[o] = {p}}
    BY DEF Holding
  <2> HIDE DEF H, G, C
  <2> QED
    BY <1>2, <1>3, <1>4, <2>1, <2>2, <2>3, <2>4
<1> HIDE DEF H, G, C
<1>7. Cardinality(H \ G) = Cardinality(H) - Cardinality(G)
  <2>1. Cardinality(H \ G) = Cardinality(H) - Cardinality(H \cap G)
    BY <1>5, FS_Difference
  <2>2. H \cap G = G
    BY <1>6
  <2> QED
    BY <2>1, <2>2
<1>8. Cardinality((H \ G) \cup C) = Cardinality(H \ G) + Cardinality(C)
  <2>1. IsFiniteSet(H \ G)
    BY <1>5, FS_Difference
  <2>2. Cardinality((H \ G) \cup C)
          = Cardinality(H \ G) + Cardinality(C) - Cardinality((H \ G) \cap C)
    BY <1>5, <2>1, FS_Union
  <2>3. (H \ G) \cap C = {}
    BY <1>6
  <2>4. Cardinality(H \ G) \in Int /\ Cardinality(C) \in Int
    BY <1>5, <2>1, FS_CardinalityType
  <2> QED
    BY <2>2, <2>3, <2>4, FS_EmptySet
<1>9. Cardinality(H) \in Int /\ Cardinality(G) \in Int /\ Cardinality(C) \in Int
  BY <1>5, FS_CardinalityType
<1> QED
  BY <1>6, <1>7, <1>8, <1>9 DEF H, G, C

\* The denomination distributes over a count that moves.
LEMMA ScaledCount ==
    ASSUME NEW k \in Int, NEW x \in Int, NEW y \in Int, NEW z \in Int
    PROVE  k * (x - y + z) = k * x - k * y + k * z
OBVIOUS

(* Updating memory in place after a commit gives the memory a restart would *)
(* load (apply_block's last lines and _reload_active_state).                *)
LEMMA AbsorbIsReload ==
    ASSUME NEW d, NEW b, NEW st, KeysFree(d, b, st), NEW snap, NEW m, m = Reload(d)
    PROVE  Absorb(m, st, Snapshot(m, st)) = Reload(WriteBlock(d, b, st, snap))
<1> DEFINE e == WriteBlock(d, b, st, snap)
           n == Reload(e)
           t == Absorb(m, st, Snapshot(m, st))
<1>0. e = WriteBlock(d, b, st, snap)
  OBVIOUS
<1>1. t.active = n.active
  <2>1. t.active = [o \in Outpoint |->
                      IF st.spent[o] # {} THEN {}
                      ELSE IF st.added[o] # {} THEN NewPool(st.added[o])
                      ELSE LivePool(d.pool, o)]
    BY DEF Absorb, Reload
  <2>2. n.active = [o \in Outpoint |-> LivePool(e.pool, o)]
    BY DEF Reload
  <2>3. \A o \in Outpoint :
          LivePool(e.pool, o)
            = IF st.spent[o] # {} THEN {}
              ELSE IF st.added[o] # {} THEN NewPool(st.added[o])
              ELSE LivePool(d.pool, o)
    <3> HIDE DEF e
    <3> QED
      BY <1>0, ActiveWritten
  <2> HIDE DEF e, n, t
  <2> QED
    BY <2>1, <2>2, <2>3
<1>2. t.coord = n.coord
  <2>1. t.coord = {o \in Outpoint : /\ st.cspent[o] = {}
                                    /\ Unspent(d.coord, o) # {} \/ st.cadded[o] # {}}
    BY DEF Absorb, Reload
  <2>2. n.coord = {o \in Outpoint : /\ st.cspent[o] = {}
                                    /\ Unspent(d.coord, o) # {} \/ st.cadded[o] # {}}
    BY CoordWritten
  <2> HIDE DEF n, t
  <2> QED
    BY <2>1, <2>2
<1>3. t.scripts = n.scripts
  <2>1. t.scripts = {Script[o] : o \in {x \in Outpoint : d.coord[x] # {}}}
                      \cup {Script[o] : o \in {x \in Outpoint : st.cadded[x] # {}}}
    BY DEF Absorb, Reload
  <2>2. n.scripts = {Script[o] : o \in {x \in Outpoint : e.coord[x] # {}}}
    BY DEF Reload
  <2>3. \A o \in Outpoint : e.coord[o] # {} <=> d.coord[o] # {} \/ st.cadded[o] # {}
    BY FeeWritten
  <2> HIDE DEF e, n, t
  <2> QED
    BY <2>1, <2>2, <2>3
<1>4. t.liq = n.liq
  <2>1. t.liq = [p \in Pools |->
                   Denom[p] * Cardinality(Holding(m.active, p))
                     - Denom[p] * Cardinality(Gone(m, st, p))
                     + Denom[p] * Cardinality(Came(st, p))]
    BY DEF Absorb, Snapshot, Reload
  <2>2. n.liq = [p \in Pools |-> Denom[p] * Cardinality(Holding(n.active, p))]
    BY DEF Reload
  <2>3. ASSUME NEW p \in Pools
        PROVE  Denom[p] * Cardinality(Holding(m.active, p))
                 - Denom[p] * Cardinality(Gone(m, st, p))
                 + Denom[p] * Cardinality(Came(st, p))
               = Denom[p] * Cardinality(Holding(n.active, p))
    <3>1. Denom[p] \in Int
      BY PoolAssumption
    <3> QED
      BY <3>1, HoldingCount, ScaledCount
  <2> HIDE DEF n, t
  <2> QED
    BY <2>1, <2>2, <2>3
<1>5. t.count = n.count
  <2>1. t.count = [p \in Pools |->
                     Cardinality(Holding(m.active, p))
                       - Cardinality(Gone(m, st, p)) + Cardinality(Came(st, p))]
    BY DEF Absorb, Snapshot, Reload
  <2>2. n.count = [p \in Pools |-> Cardinality(Holding(n.active, p))]
    BY DEF Reload
  <2>3. \A p \in Pools : Cardinality(Holding(n.active, p))
          = Cardinality(Holding(m.active, p))
              - Cardinality(Gone(m, st, p)) + Cardinality(Came(st, p))
    BY HoldingCount
  <2> HIDE DEF n, t
  <2> QED
    BY <2>1, <2>2, <2>3
<1>6. /\ t = [active |-> t.active, coord |-> t.coord, scripts |-> t.scripts,
              liq |-> t.liq, count |-> t.count]
      /\ n = [active |-> n.active, coord |-> n.coord, scripts |-> n.scripts,
              liq |-> n.liq, count |-> n.count]
  BY DEF Absorb, Reload
<1>7. t = n
  <2> HIDE DEF t, n
  <2> QED
    BY <1>1, <1>2, <1>3, <1>4, <1>5, <1>6
<1> QED
  BY <1>7

-----------------------------------------------------------------------------
(* The last height, and the heights a call may bring it to.                 *)
LEMMA LastHeightType ==
    ASSUME NEW d, Sound(d)
    PROVE  /\ LastHeight(d) \in Int /\ StartHeight \in Int
           /\ LastHeight(d) >= StartHeight - 1
           /\ \A c \in d.blocks : Height[c] <= LastHeight(d)
BY HeightAssumption DEF Sound, IsLast

\* What apply_block writes on a sound database is sound.
LEMMA IndexedSound ==
    ASSUME NEW d, Sound(d), NEW m, NEW b \in Block, Connects(d, b)
    PROVE  Sound(Indexed(d, m, b)) /\ LastHeight(Indexed(d, m, b)) = Height[b]
BY SoundWriteBlock DEF Indexed, Connects

\* The heights a rollback may be asked for, when there is a block above.
LEMMA RollbackHeights ==
    ASSUME NEW d, Sound(d), NEW h \in {StartHeight - 1} \cup Heights,
           h >= StartHeight - 1, NEW c \in d.blocks, Height[c] > h
    PROVE  h \in (StartHeight - 1) .. LastHeight(d) /\ h < LastHeight(d)
<1>1. h \in Int /\ Height[c] \in Int
  BY HeightAssumption DEF Heights, Sound
<1> QED
  BY <1>1, LastHeightType

\* The same of an accepted block, as apply_block composes it.
LEMMA AbsorbedIsReload ==
    ASSUME NEW d, NEW m, m = Reload(d), NEW b \in Block, Accepts(d, m, b)
    PROVE  Absorbed(m, b) = Reload(Indexed(d, m, b))
<1> DEFINE st == Staged(m, b)
<1>1. KeysFree(d, b, st)
  BY DEF Accepts
<1>2. Absorbed(m, b) = Absorb(m, st, Snapshot(m, st))
  BY DEF Absorbed
<1>3. Indexed(d, m, b) = WriteBlock(d, b, st, Snapshot(m, st))
  BY DEF Indexed
<1> HIDE DEF st
<1> QED
  BY <1>1, <1>2, <1>3, AbsorbIsReload

-----------------------------------------------------------------------------
(* What is loaded from the tables is a memory, which None is not.           *)
LEMMA ReloadType ==
    ASSUME NEW d
    PROVE  Reload(d) \in Memories /\ Reload(d) # None
<1> DEFINE active == [o \in Outpoint |-> LivePool(d.pool, o)]
           Count(p) == Cardinality(Holding(active, p))
           m == Reload(d)
<1>1. m = [active  |-> active,
           coord   |-> {o \in Outpoint : Unspent(d.coord, o) # {}},
           scripts |-> {Script[o] : o \in {x \in Outpoint : d.coord[x] # {}}},
           liq     |-> [p \in Pools |-> Denom[p] * Count(p)],
           count   |-> [p \in Pools |-> Count(p)]]
  BY DEF Reload
<1>2. active \in [Outpoint -> SUBSET Pools]
  BY DEF LivePool
<1>3. \A p : Count(p) \in Nat
  <2>1. \A p : Holding(active, p) \subseteq Outpoint
    BY DEF Holding
  <2> QED
    BY <2>1, FinitelyManyOutputs, FS_Subset, FS_CardinalityType
<1> HIDE DEF active, Count, m
<1>4. \A p \in Pools : Denom[p] * Count(p) \in Nat
  <2>1. \A i, j \in Nat : i * j \in Nat
    OBVIOUS
  <2> QED
    BY <1>3, <2>1, PoolAssumption
<1>5. m \in Memories
  BY <1>1, <1>2, <1>3, <1>4 DEF Memories
<1> QED
  BY <1>5, NoneAssumption DEF m

(* Every set of natural numbers that is not empty has a least element.      *)
LEMMA LeastNatural ==
    ASSUME NEW T, T \subseteq Nat, T # {}
    PROVE  \E x \in T : \A y \in T : x <= y
<1>1. IsWellFoundedOn(OpToRel(<, Nat), Nat)
  BY NatLessThanWellFounded
<1>2. PICK x \in T : \A y \in T : ~ (<<y, x>> \in OpToRel(<, Nat))
  BY <1>1, WFMin
<1>3. \A y \in T : ~ (y < x)
  BY <1>2 DEF OpToRel
<1>4. \A y \in T : x <= y
  <2> SUFFICES ASSUME NEW y \in T PROVE x <= y
    OBVIOUS
  <2>1. x \in Nat /\ y \in Nat
    BY <1>2
  <2> QED
    BY <1>3, <2>1
<1> QED
  BY <1>2, <1>4

(* Induction over the numbers up to N, as a fact about a set of them: the   *)
(* least number that is missing would have to be 0 or follow one that is in.*)
LEMMA CountingUp ==
    ASSUME NEW N \in Nat, NEW T, 0 \in T, \A n \in 1 .. N : n - 1 \in T => n \in T
    PROVE  \A n \in 0 .. N : n \in T
<1> DEFINE Missing == {n \in 0 .. N : n \notin T}
<1> SUFFICES ASSUME Missing # {} PROVE FALSE
  OBVIOUS
<1>1. PICK k \in Missing : \A j \in Missing : k <= j
  <2>1. Missing \subseteq Nat
    OBVIOUS
  <2> HIDE DEF Missing
  <2> QED
    BY <2>1, LeastNatural
<1>2. k \in 1 .. N /\ k - 1 \in 0 .. N /\ ~ (k <= k - 1)
  <2>1. k \in 0 .. N /\ k # 0
    OBVIOUS
  <2> HIDE DEF Missing
  <2> QED
    BY <2>1
<1> QED
  BY <1>1, <1>2

-----------------------------------------------------------------------------
(* Chains of blocks on disk. *)

\* A block's line is the block and its parent's line.
LEMMA LineStep ==
    ASSUME NEW b \in Block
    PROVE  Line(b) = {b} \cup IF Parent[b] = None THEN {} ELSE Line(Parent[b])
<1> DEFINE Closed(X) == \A x \in X : Parent[x] # None => Parent[x] \in X
<1>1. b \in Line(b)
  BY DEF Line
<1>2. CASE Parent[b] = None
  <2>1. {b} \in SUBSET Block /\ Closed({b})
    BY <1>2
  <2> QED
    BY <1>1, <1>2, <2>1 DEF Line
<1>3. CASE Parent[b] # None
  <2> DEFINE q == Parent[b]
  <2>1. Line(q) \subseteq Line(b)
    BY <1>3 DEF Line
  <2>2. ASSUME NEW c \in Line(b), c # b PROVE c \in Line(q)
    <3>1. SUFFICES ASSUME NEW X \in SUBSET Block, q \in X, Closed(X) PROVE c \in X
      BY <2>2 DEF Line
    <3>2. X \cup {b} \in SUBSET Block /\ Closed(X \cup {b}) /\ b \in X \cup {b}
      BY <3>1
    <3>3. c \in X \cup {b}
      BY <2>2, <3>2 DEF Line
    <3> QED
      BY <2>2, <3>3
  <2> QED
    BY <1>1, <1>3, <2>1, <2>2
<1> QED
  BY <1>2, <1>3

\* The blocks of a database are a chain: one at each height, above its parent.
Linked(d) ==
    \A b \in d.blocks :
        /\ Height[b] > StartHeight => Parent[b] \in d.blocks
        /\ \A c \in d.blocks : Height[b] = Height[c] => b = c

\* No block, nothing to link.
LEMMA LinkedEmpty == Linked(EmptyDb)
BY DEF Linked, EmptyDb

\* A connecting block goes on top of the chain.
LEMMA LinkedIndexed ==
    ASSUME NEW d, Sound(d), Linked(d), NEW m, NEW b \in Block, Connects(d, b)
    PROVE  Linked(Indexed(d, m, b))
<1> DEFINE e == Indexed(d, m, b)
           n == LastHeight(d)
<1>1. e.blocks = d.blocks \cup {b}
  BY DEF Indexed, WriteBlock
<1>2. /\ n \in Int /\ StartHeight \in Int /\ Height[b] = n + 1
      /\ \A c \in d.blocks : c \in Block /\ Height[c] \in Int /\ Height[c] <= n
  BY HeightAssumption DEF Sound, IsLast, Connects
<1>3. Height[b] > StartHeight => Parent[b] \in d.blocks
  <2>1. d.blocks = {} => n = StartHeight - 1
    BY DEF Sound, IsLast
  <2> QED
    BY <1>2, <2>1 DEF Connects
<1> HIDE DEF e, n
<1>4. Linked(e)
  BY <1>1, <1>2, <1>3 DEF Linked
<1> QED
  BY <1>4 DEF e

\* The blocks up to a height are a chain too.
LEMMA LinkedRollback ==
    ASSUME NEW d, Sound(d), Linked(d), NEW h \in Int
    PROVE  Linked(Rollback(d, h))
<1>1. Rollback(d, h).blocks = {b \in d.blocks : Height[b] <= h}
  BY DEF Rollback
<1>2. \A b \in d.blocks : Height[b] \in Int /\ b \in Block
  BY HeightAssumption DEF Sound
<1>3. ASSUME NEW b \in d.blocks, Height[b] <= h, Height[b] > StartHeight
      PROVE  Height[Parent[b]] <= h
  <2>1. Parent[b] # None /\ Parent[b] \in d.blocks
    BY <1>2, <1>3, ParentAssumption, HeightAssumption DEF Linked
  <2>2. Height[b] = Height[Parent[b]] + 1
    BY <1>2, <2>1, ParentAssumption
  <2> QED
    BY <1>2, <1>3, <2>1, <2>2
<1> QED
  BY <1>1, <1>3 DEF Linked

(* The blocks below a connecting block are its ancestors: going down from   *)
(* the last one, each is the parent of the one above it.                    *)
LEMMA BelowIsLine ==
    ASSUME NEW d, Sound(d), Linked(d), NEW b \in Block, Connects(d, b)
    PROVE  \A c \in d.blocks : c \in Line(b) \ {b}
<1> DEFINE n == LastHeight(d)
           Closed(X) == b \in X /\ (\A x \in X : Parent[x] # None => Parent[x] \in X)
<1>1. /\ n \in Int /\ StartHeight \in Int /\ Height[b] = n + 1 /\ n >= StartHeight - 1
      /\ \A c \in d.blocks : c \in Block /\ Height[c] \in Int /\ Height[c] <= n
                             /\ Height[c] >= StartHeight
  BY HeightAssumption DEF Sound, IsLast, Connects
<1>2. d.blocks # {} => Parent[b] \in d.blocks /\ Height[Parent[b]] = n
  BY DEF Connects
<1>3. \A h \in StartHeight .. n : \E c \in d.blocks : Height[c] = h
  BY DEF Sound, Gapless
<1> HIDE DEF n
<1>4. ASSUME NEW X \in SUBSET Block, Closed(X), NEW c \in d.blocks, c \notin X
      PROVE  FALSE
  <2> DEFINE Out == {a \in d.blocks : a \notin X}
             T == {n - Height[a] : a \in Out}
  <2>1. PICK a \in Out : \A x \in Out : Height[x] <= Height[a]
    <3>1. T \subseteq Nat /\ T # {}
      BY <1>1, <1>4
    <3>2. PICK k \in T : \A j \in T : k <= j
      BY <3>1, LeastNatural
    <3>3. PICK a \in Out : k = n - Height[a]
      BY <3>2
    <3>4. \A x \in Out : n - Height[a] <= n - Height[x]
      BY <3>2, <3>3
    <3>5. \A x \in Out : Height[x] \in Int
      BY <1>1
    <3> HIDE DEF Out, T
    <3> QED
      BY <1>1, <3>4, <3>5
  <2>2. CASE Height[a] = n
    <3>1. Parent[b] \in d.blocks /\ Height[Parent[b]] = Height[a]
      BY <1>2, <2>1, <2>2
    <3>2. Parent[b] = a
      BY <2>1, <3>1 DEF Linked
    <3>3. Parent[b] # None
      BY <1>1, <3>1, HeightAssumption
    <3> QED
      BY <1>4, <2>1, <3>2, <3>3
  <2>3. CASE Height[a] # n
    <3>1. Height[a] + 1 \in StartHeight .. n
      BY <1>1, <2>1, <2>3
    <3>2. PICK e \in d.blocks : Height[e] = Height[a] + 1
      BY <1>3, <3>1
    <3>3. Height[e] > StartHeight /\ ~ (Height[e] <= Height[a])
      BY <1>1, <2>1, <3>2
    <3>4. e \in X
      BY <2>1, <3>3
    <3>5. Parent[e] \in d.blocks /\ Parent[e] # None
      BY <1>1, <3>3, HeightAssumption DEF Linked
    <3>6. Height[e] = Height[Parent[e]] + 1
      BY <1>1, <3>5, ParentAssumption
    <3>7. Height[Parent[e]] = Height[a]
      BY <1>1, <2>1, <3>2, <3>5, <3>6
    <3>8. Parent[e] = a
      BY <2>1, <3>5, <3>7 DEF Linked
    <3> QED
      BY <1>4, <2>1, <3>4, <3>5, <3>8
  <2> QED
    BY <2>2, <2>3
<1>5. ASSUME NEW c \in d.blocks PROVE c \in Line(b) \ {b}
  <2>1. c \in Block /\ c # b
    BY <1>1
  <2>2. \A X \in SUBSET Block : Closed(X) => c \in X
    BY <1>4
  <2> QED
    BY <2>1, <2>2 DEF Line
<1> QED
  BY <1>5

-----------------------------------------------------------------------------
(* Staging. *)

(* The recursive definition of Staging has a solution, so it is one: blank  *)
(* dictionaries, then one transaction after another.                        *)
LEMMA StagingStep ==
    ASSUME NEW m, NEW b \in Block
    PROVE  /\ Staging(m, b)[0] = Blank(m)
           /\ \A n \in 1 .. Len(Txs[b]) :
                 Staging(m, b)[n] = StageTx(m, Staging(m, b)[n - 1], Txs[b][n])
<1> DEFINE N == Len(Txs[b])
           Step(f, k) == [n \in 0 .. k |->
                            IF n = 0 THEN Blank(m) ELSE StageTx(m, f[n - 1], Txs[b][n])]
           Bad == {k \in 0 .. N : \A f : f # Step(f, k)}
<1>1. N \in Nat
  BY BlockAssumption
<1> HIDE DEF N
<1>2. \E f : f = Step(f, N)
  <2>1. SUFFICES ASSUME Bad # {} PROVE FALSE
    BY <1>1
  <2>2. PICK k \in Bad : \A j \in Bad : k <= j
    <3>1. Bad \subseteq Nat
      BY <1>1
    <3> HIDE DEF Bad
    <3> QED
      BY <2>1, <3>1, LeastNatural
  <2>3. CASE k = 0
    <3> DEFINE g == [n \in 0 .. 0 |-> Blank(m)]
    <3>1. g = Step(g, 0)
      OBVIOUS
    <3> QED
      BY <2>2, <2>3, <3>1
  <2>4. CASE k # 0
    <3>1. k - 1 \in 0 .. N /\ k - 1 \notin Bad
      <4>1. k \in 0 .. N /\ \A j \in Bad : k <= j
        BY <2>2
      <4> HIDE DEF Bad
      <4> QED
        BY <1>1, <2>4, <4>1
    <3>2. PICK g : g = Step(g, k - 1)
      <4> HIDE DEF Step
      <4> QED
        BY <3>1
    <3> DEFINE Rest(n) == StageTx(m, g[n - 1], Txs[b][n])
               f == [n \in 0 .. k |-> IF n = 0 THEN Blank(m) ELSE Rest(n)]
    <3>3. \A n \in 0 .. k - 1 : f[n] = g[n]
      <4>1. \A n \in 0 .. k - 1 : n \in 0 .. k /\ g[n] = IF n = 0 THEN Blank(m) ELSE Rest(n)
        BY <1>1, <2>2, <3>2
      <4> QED
        BY <4>1
    <3>4. \A n \in 1 .. k : n - 1 \in 0 .. k - 1
      BY <1>1, <2>2
    <3>5. \A n \in 1 .. k : f[n - 1] = g[n - 1]
      BY <3>3, <3>4
    <3>6. \A n \in 0 .. k : n # 0 => n \in 1 .. k
      BY <1>1, <2>2
    <3>7. f = Step(f, k)
      <4>1. \A n \in 0 .. k : n # 0 => Rest(n) = StageTx(m, f[n - 1], Txs[b][n])
        BY <3>5, <3>6
      <4>2. \A n \in 0 .. k : f[n] = Step(f, k)[n]
        BY <4>1
      <4> QED
        BY <4>2
    <3> QED
      BY <2>2, <3>7
  <2> QED
    BY <2>3, <2>4
<1>3. Staging(m, b) = CHOOSE f : f = Step(f, N)
  BY DEF Staging, N
<1>4. Staging(m, b) = Step(Staging(m, b), N)
  <2> HIDE DEF Step
  <2> QED
    BY <1>2, <1>3
<1>5. 0 \in 0 .. N /\ \A n \in 1 .. N : n \in 0 .. N /\ n # 0
  BY <1>1
<1> QED
  BY <1>4, <1>5 DEF N

\* What a transaction stages, given what was staged before it.
Entering(t) == t.kind = "tx0" /\ t.resolved
Premix(t) == IF Entering(t) THEN WithRole(t, "premix") ELSE {}
PremixOf(t, p) == IF p = t.pool THEN Premix(t) ELSE {}
FeeOf(st, t) == IF Entering(t) THEN CoordinatorFee(t, st.scripts) ELSE {}
Mixed(m, st, t) ==
    IF (t.kind = "round" /\ t.resolved) /\ IsLiquidityRollover(m, st, t) THEN t.outs ELSE {}
Lost(m, st, t, p) ==
    IF IsLiquidityRollover(m, st, t) THEN {}
    ELSE {o \in Tracked(m, st, t) : Holder(m, st, o) = {p}}
Spend(m, st, t) ==
    [by |-> t.txid, how |-> IF IsLiquidityRollover(m, st, t) THEN "round" ELSE "exit"]
FeeOuts(st, t) == {f.out : f \in FeeOf(st, t)}
FeeItems(st, t) == {[pool |-> t.pool, method |-> f.method] : f \in FeeOf(st, t)}
SpendRow(m, st, t) ==
    LET paid == TrackedFees(m, st, t)
    IN  [txid |-> t.txid, sats |-> SumValue(paid), all |-> paid = t.ins,
         cost |-> IF paid = t.ins THEN t.minerFee ELSE 0]
Tx0Row(st, t) == [txid |-> t.txid, pool |-> t.pool, fee |-> FeeOf(st, t)]
Item(t, source) == [pool |-> t.pool, source |-> source]

StagingFields ==
    {"ok", "spent", "added", "cspent", "cadded", "scripts", "entries", "exits",
     "tx0s", "rounds", "spends"}

\* Staging a transaction keeps every dictionary.
LEMMA StageTxDomain ==
    ASSUME NEW m, NEW st, StagingFields \subseteq DOMAIN st, NEW t
    PROVE  StagingFields \subseteq DOMAIN StageTx(m, st, t)
BY DEF StageTx

\* A refusal is final: nothing later makes the block acceptable again.
LEMMA StageTxOk ==
    ASSUME NEW m, NEW st, StagingFields \subseteq DOMAIN st, NEW t, StageTx(m, st, t).ok
    PROVE  st.ok = TRUE
BY DEF StageTx, StagingFields

\* A transaction that is not refused spends nothing already spent.
LEMMA StageTxFresh ==
    ASSUME NEW m, NEW st, StagingFields \subseteq DOMAIN st, NEW t, StageTx(m, st, t).ok,
           NEW o \in t.ins
    PROVE  st.spent[o] = {} /\ st.cspent[o] = {}
BY DEF StageTx, StagingFields

\* What the code accepts: nothing spent twice, and the previous outputs of a
\* transaction that spends fees are known.
LEMMA StageTxAccepts ==
    ASSUME NEW m, NEW st, StagingFields \subseteq DOMAIN st, st.ok, NEW t,
           \A o \in t.ins : st.spent[o] = {} /\ st.cspent[o] = {},
           TrackedFees(m, st, t) # {} => t.resolved
    PROVE  StageTx(m, st, t).ok
<1> DEFINE ok == /\ st.ok
                 /\ \A o \in t.ins : st.spent[o] = {} /\ st.cspent[o] = {}
                 /\ (TrackedFees(m, st, t) # {} => t.resolved)
<1>1. StageTx(m, st, t).ok = ok
  BY DEF StageTx, StagingFields
<1>2. ok
  OBVIOUS
<1> HIDE DEF ok
<1> QED
  BY <1>1, <1>2

\* The pool outputs one transaction stages.
LEMMA StageTxAdded ==
    ASSUME NEW m, NEW st, StagingFields \subseteq DOMAIN st, NEW t, NEW o \in Outpoint
    PROVE  LET u == StageTx(m, st, t)
           IN  /\ o \in Premix(t) => u.added[o] = {Item(t, "tx0")}
               /\ o \in Mixed(m, st, t) => u.added[o] = {Item(t, "round")}
               /\ o \notin Premix(t) /\ o \notin Mixed(m, st, t) => u.added[o] = st.added[o]
<1> DEFINE u == StageTx(m, st, t)
<1>1. u.added = [x \in Outpoint |->
                   CASE x \in Premix(t) -> {Item(t, "tx0")}
                     [] x \in Mixed(m, st, t) -> {Item(t, "round")}
                     [] OTHER -> st.added[x]]
  BY DEF StageTx, StagingFields, Premix, Mixed, Entering, Item
<1>2. Premix(t) \cap Mixed(m, st, t) = {}
  BY DEF Premix, Mixed, Entering
<1> HIDE DEF u
<1>3. /\ o \in Premix(t) => u.added[o] = {Item(t, "tx0")}
      /\ o \in Mixed(m, st, t) => u.added[o] = {Item(t, "round")}
      /\ o \notin Premix(t) /\ o \notin Mixed(m, st, t) => u.added[o] = st.added[o]
  BY <1>1, <1>2
<1> QED
  BY <1>3 DEF u

\* The pool outputs one transaction spends.
LEMMA StageTxSpent ==
    ASSUME NEW m, NEW st, StagingFields \subseteq DOMAIN st, NEW t, NEW o \in Outpoint
    PROVE  LET u == StageTx(m, st, t)
           IN  /\ o \in Tracked(m, st, t) => u.spent[o] = {Spend(m, st, t)}
               /\ o \notin Tracked(m, st, t) => u.spent[o] = st.spent[o]
<1>1. StageTx(m, st, t).spent =
        [x \in Outpoint |-> IF x \in Tracked(m, st, t) THEN {Spend(m, st, t)}
                            ELSE st.spent[x]]
  BY DEF StageTx, StagingFields, Spend
<1> QED
  BY <1>1

\* What one transaction adds to the entry and exit totals.
LEMMA StageTxTotals ==
    ASSUME NEW m, NEW st, StagingFields \subseteq DOMAIN st, NEW t, NEW p \in Pools
    PROVE  LET u == StageTx(m, st, t)
           IN  /\ u.entries[p] = st.entries[p] + Denom[p] * Cardinality(PremixOf(t, p))
               /\ u.exits[p] = st.exits[p] + Denom[p] * Cardinality(Lost(m, st, t, p))
<1> DEFINE u == StageTx(m, st, t)
<1>1. u.entries = [q \in Pools |-> st.entries[q]
                     + IF Entering(t) /\ q = t.pool
                       THEN Denom[q] * Cardinality(Premix(t)) ELSE 0]
  BY DEF StageTx, StagingFields, Premix, Entering
<1>2. u.exits = [q \in Pools |-> st.exits[q]
                   + IF IsLiquidityRollover(m, st, t) THEN 0
                     ELSE Denom[q] * Cardinality({o \in Tracked(m, st, t) :
                                                    Holder(m, st, o) = {q}})]
  BY DEF StageTx, StagingFields
<1> HIDE DEF u
<1>3. Denom[p] * Cardinality({}) = 0
  BY PoolAssumption, FS_EmptySet
<1>4. u.entries[p] = st.entries[p] + Denom[p] * Cardinality(PremixOf(t, p))
  BY <1>1, <1>3 DEF PremixOf, Premix
<1>5. u.exits[p] = st.exits[p] + Denom[p] * Cardinality(Lost(m, st, t, p))
  BY <1>2, <1>3 DEF Lost
<1> QED
  BY <1>4, <1>5 DEF u

\* u is st after the pool outputs and totals of transaction t.
PoolAfter(m, st, t, u) ==
    /\ \A o \in t.ins : st.spent[o] = {}
    /\ \A o \in Outpoint :
          /\ o \in Premix(t) => u.added[o] = {Item(t, "tx0")}
          /\ o \in Mixed(m, st, t) => u.added[o] = {Item(t, "round")}
          /\ o \notin Premix(t) /\ o \notin Mixed(m, st, t) => u.added[o] = st.added[o]
          /\ o \in Tracked(m, st, t) => u.spent[o] = {Spend(m, st, t)}
          /\ o \notin Tracked(m, st, t) => u.spent[o] = st.spent[o]
    /\ \A p \in Pools :
          /\ u.entries[p] = st.entries[p] + Denom[p] * Cardinality(PremixOf(t, p))
          /\ u.exits[p] = st.exits[p] + Denom[p] * Cardinality(Lost(m, st, t, p))

\* One accepted transaction does to the pool dictionaries what PoolAfter says.
LEMMA StageTxPool ==
    ASSUME NEW m, NEW st, StagingFields \subseteq DOMAIN st, NEW t,
           NEW u, u = StageTx(m, st, t), u.ok
    PROVE  PoolAfter(m, st, t, u)
<1>1. \A o \in t.ins : st.spent[o] = {}
  BY StageTxFresh
<1>2. \A o \in Outpoint :
        /\ o \in Premix(t) => u.added[o] = {Item(t, "tx0")}
        /\ o \in Mixed(m, st, t) => u.added[o] = {Item(t, "round")}
        /\ o \notin Premix(t) /\ o \notin Mixed(m, st, t) => u.added[o] = st.added[o]
  BY StageTxAdded
<1>3. \A o \in Outpoint :
        /\ o \in Tracked(m, st, t) => u.spent[o] = {Spend(m, st, t)}
        /\ o \notin Tracked(m, st, t) => u.spent[o] = st.spent[o]
  BY StageTxSpent
<1>4. \A p \in Pools :
        /\ u.entries[p] = st.entries[p] + Denom[p] * Cardinality(PremixOf(t, p))
        /\ u.exits[p] = st.exits[p] + Denom[p] * Cardinality(Lost(m, st, t, p))
  BY StageTxTotals
<1> QED
  BY <1>1, <1>2, <1>3, <1>4 DEF PoolAfter

\* The fee outputs one transaction spends.
LEMMA StageTxFeeSpent ==
    ASSUME NEW m, NEW st, StagingFields \subseteq DOMAIN st, NEW t, NEW o \in Outpoint
    PROVE  LET u == StageTx(m, st, t)
           IN  /\ o \in TrackedFees(m, st, t) => u.cspent[o] = {t.txid}
               /\ o \notin TrackedFees(m, st, t) => u.cspent[o] = st.cspent[o]
<1>1. StageTx(m, st, t).cspent =
        [x \in Outpoint |-> IF x \in TrackedFees(m, st, t) THEN {t.txid}
                            ELSE st.cspent[x]]
  BY DEF StageTx, StagingFields
<1> QED
  BY <1>1

\* The fee outputs one transaction stages.
LEMMA StageTxFeeAdded ==
    ASSUME NEW m, NEW st, StagingFields \subseteq DOMAIN st, NEW t, NEW o \in Outpoint
    PROVE  LET u == StageTx(m, st, t)
           IN  /\ o \in FeeOuts(st, t) => u.cadded[o] = FeeItems(st, t)
               /\ o \notin FeeOuts(st, t) => u.cadded[o] = st.cadded[o]
<1> DEFINE u == StageTx(m, st, t)
<1>1. u.cadded = [x \in Outpoint |->
                    IF \E f \in FeeOf(st, t) : f.out = x
                    THEN {[pool |-> t.pool, method |-> f.method] : f \in FeeOf(st, t)}
                    ELSE st.cadded[x]]
  BY DEF StageTx, StagingFields, FeeOf, Entering
<1>2. o \in FeeOuts(st, t) <=> \E f \in FeeOf(st, t) : f.out = o
  BY DEF FeeOuts
<1> HIDE DEF u
<1>3. /\ o \in FeeOuts(st, t) => u.cadded[o] = FeeItems(st, t)
      /\ o \notin FeeOuts(st, t) => u.cadded[o] = st.cadded[o]
  BY <1>1, <1>2 DEF FeeItems
<1> QED
  BY <1>3 DEF u

\* The spend row, the Tx0 row and the script one transaction stages.
LEMMA StageTxRows ==
    ASSUME NEW m, NEW st, StagingFields \subseteq DOMAIN st, NEW t
    PROVE  LET u == StageTx(m, st, t)
           IN  /\ u.spends = st.spends
                    \cup When(TrackedFees(m, st, t) # {}, SpendRow(m, st, t))
               /\ u.tx0s = st.tx0s \cup When(Entering(t), Tx0Row(st, t))
               /\ u.scripts = st.scripts \cup {Script[o] : o \in FeeOuts(st, t)}
<1> DEFINE u == StageTx(m, st, t)
<1>1. u.spends = st.spends \cup When(TrackedFees(m, st, t) # {}, SpendRow(m, st, t))
  BY DEF StageTx, StagingFields, SpendRow
<1>2. u.tx0s = st.tx0s \cup When(Entering(t), Tx0Row(st, t))
  BY DEF StageTx, StagingFields, FeeOf, Entering, Tx0Row
<1>3. u.scripts = st.scripts \cup {Script[f.out] : f \in FeeOf(st, t)}
  BY DEF StageTx, StagingFields, FeeOf, Entering
<1>4. {Script[f.out] : f \in FeeOf(st, t)} = {Script[o] : o \in FeeOuts(st, t)}
  BY DEF FeeOuts
<1> QED
  BY <1>1, <1>2, <1>3, <1>4

\* The size of a disjoint union.
LEMMA CountAdds ==
    ASSUME NEW A, A \subseteq Outpoint, NEW B, B \subseteq Outpoint, A \cap B = {}
    PROVE  /\ Cardinality(A \cup B) = Cardinality(A) + Cardinality(B)
           /\ Cardinality(A) \in Nat /\ Cardinality(B) \in Nat
<1>1. IsFiniteSet(A) /\ IsFiniteSet(B)
  BY FinitelyManyOutputs, FS_Subset
<1>2. Cardinality(A \cup B) = Cardinality(A) + Cardinality(B) - Cardinality(A \cap B)
  BY <1>1, FS_Union
<1>3. Cardinality(A \cap B) = 0
  BY FS_EmptySet
<1>4. Cardinality(A) \in Nat /\ Cardinality(B) \in Nat
  BY <1>1, FS_CardinalityType
<1> QED
  BY <1>2, <1>3, <1>4

\* The denomination times the size of a disjoint union.
LEMMA CountsAdd ==
    ASSUME NEW A, A \subseteq Outpoint, NEW B, B \subseteq Outpoint, A \cap B = {},
           NEW k \in Nat
    PROVE  k * Cardinality(A \cup B) = k * Cardinality(A) + k * Cardinality(B)
<1>1. \A i, j \in Nat : k * (i + j) = k * i + k * j
  OBVIOUS
<1>2. /\ Cardinality(A \cup B) = Cardinality(A) + Cardinality(B)
      /\ Cardinality(A) \in Nat /\ Cardinality(B) \in Nat
  BY CountAdds
<1> QED
  BY <1>1, <1>2

\* The outputs staged as entering pool p, and as leaving it.
Entered(st, p) == {o \in Outpoint : \E x \in st.added[o] : x.pool = p /\ x.source = "tx0"}
Exited(m, st, p) ==
    {o \in Outpoint : Holder(m, st, o) = {p} /\ \E s \in st.spent[o] : s.how = "exit"}

\* The totals of the first n transactions are the counts of what they staged;
\* an output is staged once, by the transaction that creates or spends it.
PoolStaged(m, b, n, st) ==
    /\ \A o \in Outpoint :
          /\ \A x, y \in st.added[o] : x = y
          /\ st.added[o] # {} => \E i \in 1 .. n : o \in Txs[b][i].outs
          /\ \A x, y \in st.spent[o] : x = y
          /\ st.spent[o] # {} => /\ Holder(m, st, o) # {}
                                 /\ \E i \in 1 .. n : o \in Txs[b][i].ins
    /\ \A p \in Pools :
          /\ st.entries[p] = Denom[p] * Cardinality(Entered(st, p))
          /\ st.exits[p] = Denom[p] * Cardinality(Exited(m, st, p))

\* Nothing is staged before the first transaction.
LEMMA PoolStagedBlank == ASSUME NEW m, NEW b PROVE PoolStaged(m, b, 0, Blank(m))
<1> DEFINE st == Blank(m)
<1>1. \A o \in Outpoint : st.added[o] = {} /\ st.spent[o] = {}
  BY DEF Blank
<1>2. \A p \in Pools : st.entries[p] = 0 /\ st.exits[p] = 0
  BY DEF Blank
<1> HIDE DEF st
<1>3. \A p : Entered(st, p) = {} /\ Exited(m, st, p) = {}
  BY <1>1 DEF Entered, Exited
<1>4. \A p \in Pools : Denom[p] * Cardinality({}) = 0
  BY PoolAssumption, FS_EmptySet
<1>5. PoolStaged(m, b, 0, st)
  BY <1>1, <1>2, <1>3, <1>4 DEF PoolStaged
<1> QED
  BY <1>5 DEF st

\* What a block's transactions share, from BlockAssumption.
LEMMA BlockFacts ==
    ASSUME NEW b \in Block, NEW n \in 1 .. Len(Txs[b])
    PROVE  /\ n - 1 \in 0 .. Len(Txs[b]) /\ Len(Txs[b]) \in Nat
           /\ \A i \in 1 .. n - 1 : i \in 1 .. Len(Txs[b]) /\ i \in 1 .. n
           /\ n \in 1 .. n
           /\ Txs[b][n].ins \subseteq Outpoint /\ Txs[b][n].outs \subseteq Outpoint
           /\ \A i \in 1 .. n - 1 :
                 /\ Txs[b][i].outs \cap Txs[b][n].outs = {}
                 /\ Txs[b][i].ins \cap Txs[b][n].ins = {}
                 /\ Txs[b][i].txid # Txs[b][n].txid
           /\ \A i \in 1 .. n : Txs[b][i].ins \cap Txs[b][n].outs = {}
           /\ Txs[b][n].ins # {} => Txs[b][n].resolved
<1>1. Len(Txs[b]) \in Nat
  BY BlockAssumption
<1>2. /\ n - 1 \in 0 .. Len(Txs[b]) /\ n \in 1 .. n
      /\ \A i \in 1 .. n - 1 : i \in 1 .. Len(Txs[b]) /\ i \in 1 .. n /\ i # n
      /\ \A i \in 1 .. n : i \in 1 .. Len(Txs[b]) /\ i <= n
  BY <1>1
<1> QED
  BY <1>1, <1>2, BlockAssumption

\* PoolStaged is preserved by one more transaction.
LEMMA PoolStagedStep ==
    ASSUME NEW m, NEW b \in Block, NEW n \in 1 .. Len(Txs[b]), NEW st,
           PoolStaged(m, b, n - 1, st), NEW u, PoolAfter(m, st, Txs[b][n], u)
    PROVE  PoolStaged(m, b, n, u)
<1> DEFINE t == Txs[b][n]
           In == Tracked(m, st, t)
           New == Premix(t)
           Mix == Mixed(m, st, t)
<1>1. /\ t.ins \subseteq Outpoint /\ t.outs \subseteq Outpoint
      /\ \A i \in 1 .. n - 1 : i \in 1 .. n /\ Txs[b][i].outs \cap t.outs = {}
      /\ \A i \in 1 .. n : Txs[b][i].ins \cap t.outs = {}
      /\ n \in 1 .. n
  BY BlockFacts
<1>0. PoolAfter(m, st, t, u)
  OBVIOUS
<1> HIDE DEF t
<1>2. /\ \A o \in t.ins : st.spent[o] = {}
      /\ \A o \in Outpoint :
           /\ o \in New => u.added[o] = {Item(t, "tx0")}
           /\ o \in Mix => u.added[o] = {Item(t, "round")}
           /\ o \notin New /\ o \notin Mix => u.added[o] = st.added[o]
           /\ o \in In => u.spent[o] = {Spend(m, st, t)}
           /\ o \notin In => u.spent[o] = st.spent[o]
      /\ \A p \in Pools :
           /\ u.entries[p] = st.entries[p] + Denom[p] * Cardinality(PremixOf(t, p))
           /\ u.exits[p] = st.exits[p] + Denom[p] * Cardinality(Lost(m, st, t, p))
  BY <1>0 DEF PoolAfter
<1>3. /\ New \subseteq t.outs /\ Mix \subseteq t.outs /\ New \cap Mix = {}
      /\ In \subseteq t.ins /\ \A o \in In : Holder(m, st, o) # {}
  BY DEF Premix, Mixed, Tracked, WithRole, Entering
<1> HIDE DEF In, New, Mix
<1>4. \A o \in Outpoint : o \in t.outs => st.added[o] = {} /\ st.spent[o] = {}
  BY <1>1 DEF PoolStaged
<1>5. \A o \in Outpoint : o \notin t.outs =>
        u.added[o] = st.added[o] /\ Holder(m, u, o) = Holder(m, st, o)
  BY <1>2, <1>3 DEF Holder
<1>6. \A o \in t.ins : o \notin t.outs
  BY <1>1 DEF t
<1>7. ASSUME NEW o \in Outpoint
      PROVE  /\ \A x, y \in u.added[o] : x = y
             /\ u.added[o] # {} => \E i \in 1 .. n : o \in Txs[b][i].outs
             /\ \A x, y \in u.spent[o] : x = y
             /\ u.spent[o] # {} => /\ Holder(m, u, o) # {}
                                   /\ \E i \in 1 .. n : o \in Txs[b][i].ins
  <2>1. \A x, y \in u.added[o] : x = y
    BY <1>2 DEF PoolStaged
  <2>2. u.added[o] # {} => \E i \in 1 .. n : o \in Txs[b][i].outs
    BY <1>1, <1>2, <1>3 DEF PoolStaged, t
  <2>3. \A x, y \in u.spent[o] : x = y
    BY <1>2 DEF PoolStaged
  <2>4. ASSUME u.spent[o] # {}
        PROVE  Holder(m, u, o) # {} /\ \E i \in 1 .. n : o \in Txs[b][i].ins
    <3>1. CASE o \in In
      BY <1>1, <1>3, <1>5, <1>6, <3>1 DEF t
    <3>2. CASE o \notin In
      BY <1>1, <1>2, <1>4, <1>5, <2>4, <3>2 DEF PoolStaged
    <3> QED
      BY <3>1, <3>2
  <2> QED
    BY <2>1, <2>2, <2>3, <2>4
<1>8. ASSUME NEW p \in Pools
      PROVE  u.entries[p] = Denom[p] * Cardinality(Entered(u, p))
  <2> DEFINE More == PremixOf(t, p)
  <2>1. ASSUME NEW o \in Outpoint
        PROVE  o \in Entered(u, p) <=> o \in Entered(st, p) \/ o \in More
    <3>1. CASE o \in New
      <4>1. u.added[o] = {Item(t, "tx0")} /\ st.added[o] = {}
        BY <1>2, <1>3, <1>4, <3>1
      <4>2. o \in More <=> p = t.pool
        BY <3>1 DEF PremixOf, New
      <4>3. Item(t, "tx0").pool = t.pool /\ Item(t, "tx0").source = "tx0"
        BY DEF Item
      <4>4. (\E x \in u.added[o] : x.pool = p /\ x.source = "tx0") <=> t.pool = p
        BY <4>1, <4>3
      <4> QED
        BY <4>1, <4>2, <4>4 DEF Entered
    <3>2. CASE o \in Mix
      <4>1. u.added[o] = {Item(t, "round")} /\ st.added[o] = {}
        BY <1>2, <1>3, <1>4, <3>2
      <4>2. o \notin More
        BY <1>3, <3>2 DEF PremixOf, New
      <4> QED
        BY <4>1, <4>2 DEF Entered, Item
    <3>3. CASE o \notin New \cup Mix
      <4>1. u.added[o] = st.added[o] /\ o \notin More
        BY <1>2, <3>3 DEF PremixOf, New
      <4> QED
        BY <4>1 DEF Entered
    <3> QED
      BY <3>1, <3>2, <3>3
  <2>2. More \subseteq Outpoint /\ Entered(st, p) \cap More = {}
    <3>1. More \subseteq New
      BY DEF PremixOf, New
    <3> QED
      BY <1>1, <1>3, <1>4, <3>1 DEF Entered
  <2> HIDE DEF More
  <2>3. Entered(u, p) = Entered(st, p) \cup More
    BY <2>1, <2>2 DEF Entered
  <2>4. Entered(st, p) \subseteq Outpoint /\ Denom[p] \in Nat
    BY PoolAssumption DEF Entered
  <2>5. Denom[p] * Cardinality(Entered(st, p) \cup More)
          = Denom[p] * Cardinality(Entered(st, p)) + Denom[p] * Cardinality(More)
    BY <2>2, <2>4, CountsAdd
  <2>6. /\ st.entries[p] = Denom[p] * Cardinality(Entered(st, p))
        /\ u.entries[p] = st.entries[p] + Denom[p] * Cardinality(More)
    BY <1>2 DEF PoolStaged, More
  <2> QED
    BY <2>3, <2>5, <2>6
<1>9. ASSUME NEW p \in Pools
      PROVE  u.exits[p] = Denom[p] * Cardinality(Exited(m, u, p))
  <2> DEFINE More == Lost(m, st, t, p)
             roll == IsLiquidityRollover(m, st, t)
  <2>1. ASSUME NEW o \in Outpoint
        PROVE  o \in Exited(m, u, p) <=> o \in Exited(m, st, p) \/ o \in More
    <3>1. CASE o \in In
      <4>1. /\ Holder(m, u, o) = Holder(m, st, o) /\ o \notin Exited(m, st, p)
            /\ u.spent[o] = {Spend(m, st, t)}
        BY <1>2, <1>3, <1>5, <1>6, <3>1 DEF Exited
      <4>2. (\E s \in u.spent[o] : s.how = "exit") <=> ~roll
        BY <4>1 DEF Spend
      <4>3. o \in More <=> ~roll /\ Holder(m, st, o) = {p}
        BY <3>1 DEF Lost, In
      <4> QED
        BY <4>1, <4>2, <4>3 DEF Exited
    <3>2. CASE o \notin In
      <4>1. /\ u.spent[o] = st.spent[o] /\ o \notin More
            /\ st.spent[o] # {} => Holder(m, u, o) = Holder(m, st, o)
        BY <1>2, <1>4, <1>5, <3>2 DEF Lost, In
      <4> QED
        BY <4>1 DEF Exited
    <3> QED
      BY <3>1, <3>2
  <2>2. More \subseteq Outpoint /\ Exited(m, st, p) \cap More = {}
    <3>1. More \subseteq In
      BY DEF Lost, In
    <3> QED
      BY <1>1, <1>2, <1>3, <3>1 DEF Exited
  <2> HIDE DEF More
  <2>3. Exited(m, u, p) = Exited(m, st, p) \cup More
    BY <2>1, <2>2 DEF Exited
  <2>4. Exited(m, st, p) \subseteq Outpoint /\ Denom[p] \in Nat
    BY PoolAssumption DEF Exited
  <2>5. Denom[p] * Cardinality(Exited(m, st, p) \cup More)
          = Denom[p] * Cardinality(Exited(m, st, p)) + Denom[p] * Cardinality(More)
    BY <2>2, <2>4, CountsAdd
  <2>6. /\ st.exits[p] = Denom[p] * Cardinality(Exited(m, st, p))
        /\ u.exits[p] = st.exits[p] + Denom[p] * Cardinality(More)
    BY <1>2 DEF PoolStaged, More
  <2> QED
    BY <2>3, <2>5, <2>6
<1> QED
  BY <1>7, <1>8, <1>9 DEF PoolStaged

(* The output a Tx0 pays the coordinator with is one of its outputs, at     *)
(* most one, and inferred from a reused script only if the script is known. *)
LEMMA FeeIsOne ==
    ASSUME NEW st, NEW t, t.outs \subseteq Outpoint
    PROVE  /\ \A f \in FeeOf(st, t) : f.out \in t.outs
           /\ \A f, g \in FeeOf(st, t) : f = g
           /\ \A f \in FeeOf(st, t) : f.method = "reuse" => Script[f.out] \in st.scripts
<1> DEFINE exact    == WithRole(t, "fee")
           residual == WithRole(t, "residual")
           known    == {o \in residual : Script[o] \in st.scripts}
           below    == {o \in residual : Value[o] < Standard[t.pool]}
           Chosen(S, how) == {[out |-> o, method |-> how] : o \in S}
           fee == FeeOf(st, t)
<1>1. /\ exact \subseteq t.outs /\ known \subseteq t.outs /\ below \subseteq t.outs
      /\ \A o \in known : Script[o] \in st.scripts
  BY DEF WithRole
<1>2. \/ fee = {}
      \/ Cardinality(exact) = 1 /\ fee = Chosen(exact, "exact")
      \/ Cardinality(known) = 1 /\ fee = Chosen(known, "reuse")
      \/ Cardinality(below) = 1 /\ fee = Chosen(below, "amount")
  BY DEF FeeOf, CoordinatorFee
<1> HIDE DEF exact, known, below, fee
<1>3. ASSUME NEW S, S \subseteq t.outs, Cardinality(S) = 1 PROVE \E o : S = {o}
  <2>1. IsFiniteSet(S)
    BY <1>3, FinitelyManyOutputs, FS_Subset
  <2> QED
    BY <1>3, <2>1, FS_Singleton
<1>4. CASE fee = {}
  BY <1>4 DEF fee
<1>5. ASSUME NEW S, S \subseteq t.outs, Cardinality(S) = 1, NEW how, fee = Chosen(S, how),
             how = "reuse" => \A o \in S : Script[o] \in st.scripts
      PROVE  /\ \A f \in fee : f.out \in t.outs
             /\ \A f, g \in fee : f = g
             /\ \A f \in fee : f.method = "reuse" => Script[f.out] \in st.scripts
  <2>1. PICK o : S = {o}
    BY <1>3, <1>5
  <2>2. fee = {[out |-> o, method |-> how]}
    BY <1>5, <2>1
  <2> QED
    BY <1>5, <2>1, <2>2
<1>6. "exact" # "reuse" /\ "amount" # "reuse"
  OBVIOUS
<1>7. CASE fee # {}
  BY <1>1, <1>2, <1>5, <1>6, <1>7 DEF fee
<1> QED
  BY <1>4, <1>7

\* The staged fee outputs the transaction with this id spends.
PaidBy(st, txid) == {o \in Outpoint : txid \in st.cspent[o]}

\* A fee output is staged with the row of the Tx0 that pays it, and spent with
\* the row of the transaction that spends it, whose total is their value.
FeesStaged(m, b, n, st) ==
    /\ \A o \in Outpoint :
          /\ \A x, y \in st.cadded[o] : x = y
          /\ st.cadded[o] # {} =>
                /\ \E i \in 1 .. n : o \in Txs[b][i].outs
                /\ \E r \in st.tx0s : \E f \in r.fee : f.out = o
          /\ \A x \in st.cadded[o] : x.method = "reuse" =>
                \/ Script[o] \in m.scripts
                \/ \E y \in Outpoint \ {o} : st.cadded[y] # {} /\ Script[y] = Script[o]
          /\ st.cspent[o] # {} =>
                /\ st.cadded[o] # {} \/ o \in m.coord
                /\ \E w \in st.spends : st.cspent[o] = {w.txid}
    /\ st.scripts = m.scripts \cup {Script[o] : o \in {x \in Outpoint : st.cadded[x] # {}}}
    /\ \A w \in st.spends : /\ w.sats = SumValue(PaidBy(st, w.txid))
                            /\ \E i \in 1 .. n : w.txid = Txs[b][i].txid

FeesAfter(m, st, t, u) ==
    /\ \A o \in t.ins : st.cspent[o] = {}
    /\ \A o \in Outpoint :
          /\ o \in TrackedFees(m, st, t) => u.cspent[o] = {t.txid}
          /\ o \notin TrackedFees(m, st, t) => u.cspent[o] = st.cspent[o]
          /\ o \in FeeOuts(st, t) => u.cadded[o] = FeeItems(st, t)
          /\ o \notin FeeOuts(st, t) => u.cadded[o] = st.cadded[o]
    /\ u.spends = st.spends \cup When(TrackedFees(m, st, t) # {}, SpendRow(m, st, t))
    /\ u.tx0s = st.tx0s \cup When(Entering(t), Tx0Row(st, t))
    /\ u.scripts = st.scripts \cup {Script[o] : o \in FeeOuts(st, t)}

\* One accepted transaction does to the fee dictionaries what FeesAfter says.
LEMMA StageTxFee ==
    ASSUME NEW m, NEW st, StagingFields \subseteq DOMAIN st, NEW t,
           NEW u, u = StageTx(m, st, t), u.ok
    PROVE  FeesAfter(m, st, t, u)
<1>1. \A o \in t.ins : st.cspent[o] = {}
  BY StageTxFresh
<1>2. \A o \in Outpoint :
        /\ o \in TrackedFees(m, st, t) => u.cspent[o] = {t.txid}
        /\ o \notin TrackedFees(m, st, t) => u.cspent[o] = st.cspent[o]
  BY StageTxFeeSpent
<1>4. \A o \in Outpoint :
        /\ o \in FeeOuts(st, t) => u.cadded[o] = FeeItems(st, t)
        /\ o \notin FeeOuts(st, t) => u.cadded[o] = st.cadded[o]
  BY StageTxFeeAdded
<1>3. /\ u.spends = st.spends \cup When(TrackedFees(m, st, t) # {}, SpendRow(m, st, t))
      /\ u.tx0s = st.tx0s \cup When(Entering(t), Tx0Row(st, t))
      /\ u.scripts = st.scripts \cup {Script[o] : o \in FeeOuts(st, t)}
  BY StageTxRows
<1> QED
  BY <1>1, <1>2, <1>3, <1>4 DEF FeesAfter

\* No fee is staged before the first transaction.
LEMMA FeesStagedBlank == ASSUME NEW m, NEW b PROVE FeesStaged(m, b, 0, Blank(m))
<1> DEFINE st == Blank(m)
<1>1. \A o \in Outpoint : st.cadded[o] = {} /\ st.cspent[o] = {}
  BY DEF Blank
<1>2. st.scripts = m.scripts /\ st.spends = {}
  BY DEF Blank
<1> HIDE DEF st
<1>3. FeesStaged(m, b, 0, st)
  BY <1>1, <1>2 DEF FeesStaged
<1> QED
  BY <1>3 DEF st

\* FeesStaged is preserved by one more transaction.
LEMMA FeesStagedStep ==
    ASSUME NEW m, NEW b \in Block, NEW n \in 1 .. Len(Txs[b]), NEW st,
           FeesStaged(m, b, n - 1, st), NEW u, FeesAfter(m, st, Txs[b][n], u)
    PROVE  FeesStaged(m, b, n, u)
<1> DEFINE t == Txs[b][n]
           Paid == TrackedFees(m, st, t)
           Out == FeeOuts(st, t)
<1>0. FeesAfter(m, st, t, u)
  OBVIOUS
<1>1. /\ t.ins \subseteq Outpoint /\ t.outs \subseteq Outpoint
      /\ \A i \in 1 .. n - 1 : /\ i \in 1 .. n /\ Txs[b][i].outs \cap t.outs = {}
                               /\ Txs[b][i].txid # t.txid
      /\ n \in 1 .. n /\ t = Txs[b][n]
  BY BlockFacts
<1> HIDE DEF t
<1>2. /\ \A o \in t.ins : st.cspent[o] = {}
      /\ \A o \in Outpoint :
            /\ o \in Paid => u.cspent[o] = {t.txid}
            /\ o \notin Paid => u.cspent[o] = st.cspent[o]
            /\ o \in Out => u.cadded[o] = FeeItems(st, t)
            /\ o \notin Out => u.cadded[o] = st.cadded[o]
      /\ u.spends = st.spends \cup When(Paid # {}, SpendRow(m, st, t))
      /\ u.tx0s = st.tx0s \cup When(Entering(t), Tx0Row(st, t))
      /\ u.scripts = st.scripts \cup {Script[o] : o \in Out}
  BY <1>0 DEF FeesAfter
<1>3. /\ Out \subseteq t.outs
      /\ \A x, y \in FeeItems(st, t) : x = y
      /\ \A o \in Out : FeeItems(st, t) # {} /\ Entering(t)
                        /\ \E f \in FeeOf(st, t) : f.out = o
      /\ \A o \in Out : \A x \in FeeItems(st, t) :
            x.method = "reuse" => Script[o] \in st.scripts
  <2>1. /\ \A f \in FeeOf(st, t) : f.out \in t.outs
        /\ \A f, g \in FeeOf(st, t) : f = g
        /\ \A f \in FeeOf(st, t) : f.method = "reuse" => Script[f.out] \in st.scripts
    BY <1>1, FeeIsOne
  <2>2. FeeOf(st, t) # {} => Entering(t)
    BY DEF FeeOf
  <2>3. \A x : x \in FeeItems(st, t) <=>
               \E f \in FeeOf(st, t) : x = [pool |-> t.pool, method |-> f.method]
    BY DEF FeeItems
  <2>4. \A o : o \in Out <=> \E f \in FeeOf(st, t) : o = f.out
    BY DEF FeeOuts
  <2> HIDE DEF Out
  <2>5. Out \subseteq t.outs
    BY <2>1, <2>4
  <2>6. \A x, y \in FeeItems(st, t) : x = y
    BY <2>1, <2>3
  <2>7. \A o \in Out : /\ FeeItems(st, t) # {} /\ Entering(t)
                       /\ \E f \in FeeOf(st, t) : f.out = o
    BY <2>2, <2>3, <2>4
  <2>8. \A o \in Out : \A x \in FeeItems(st, t) :
           x.method = "reuse" => Script[o] \in st.scripts
    <3> TAKE o \in Out
    <3> TAKE x \in FeeItems(st, t)
    <3>1. PICK f \in FeeOf(st, t) : x = [pool |-> t.pool, method |-> f.method]
      BY <2>3
    <3>2. o = f.out /\ x.method = f.method
      BY <2>1, <2>4, <3>1
    <3> QED
      BY <2>1, <3>2
  <2> QED
    BY <2>5, <2>6, <2>7, <2>8
<1>4. /\ Paid \subseteq t.ins
      /\ \A o \in Paid : st.cadded[o] # {} \/ o \in m.coord
  BY DEF TrackedFees
<1>5. /\ Paid # {} => SpendRow(m, st, t) \in u.spends
      /\ Entering(t) => Tx0Row(st, t) \in u.tx0s
      /\ \A w \in u.spends : w \in st.spends \/ (w = SpendRow(m, st, t) /\ Paid # {})
      /\ st.spends \subseteq u.spends /\ st.tx0s \subseteq u.tx0s
  <2> DEFINE row == SpendRow(m, st, t)
             tx0 == Tx0Row(st, t)
             Rows == When(Paid # {}, row)
             Tx0s == When(Entering(t), tx0)
  <2>1. \A w : w \in Rows <=> Paid # {} /\ w = row
    <3> HIDE DEF Paid, row
    <3> QED
      BY DEF When
  <2>2. \A w : w \in Tx0s <=> Entering(t) /\ w = tx0
    <3> HIDE DEF tx0
    <3> QED
      BY DEF When
  <2>3. u.spends = st.spends \cup Rows /\ u.tx0s = st.tx0s \cup Tx0s
    BY <1>2
  <2> HIDE DEF Paid, Rows, Tx0s, row, tx0
  <2>4. Paid # {} => row \in u.spends
    BY <2>1, <2>3
  <2>5. Entering(t) => tx0 \in u.tx0s
    BY <2>2, <2>3
  <2>6. \A w \in u.spends : w \in st.spends \/ (w = row /\ Paid # {})
    BY <2>1, <2>3
  <2>7. st.spends \subseteq u.spends /\ st.tx0s \subseteq u.tx0s
    BY <2>3
  <2> QED
    BY <2>4, <2>5, <2>6, <2>7 DEF row, tx0
<1>6. /\ SpendRow(m, st, t).txid = t.txid /\ SpendRow(m, st, t).sats = SumValue(Paid)
      /\ Tx0Row(st, t).fee = FeeOf(st, t)
  BY DEF SpendRow, Tx0Row
<1> HIDE DEF Paid, Out
<1>7. \A o \in Outpoint : o \in t.outs => st.cadded[o] = {}
  BY <1>1 DEF FeesStaged
<1>8. \A o \in Outpoint : st.cadded[o] # {} => o \notin Out /\ u.cadded[o] = st.cadded[o]
  BY <1>2, <1>3, <1>7
<1>9. \A o \in Outpoint : u.cadded[o] # {} <=> st.cadded[o] # {} \/ o \in Out
  BY <1>2, <1>3, <1>8
<1>10. ASSUME NEW o \in Outpoint
       PROVE  /\ \A x, y \in u.cadded[o] : x = y
              /\ u.cadded[o] # {} =>
                   /\ \E i \in 1 .. n : o \in Txs[b][i].outs
                   /\ \E r \in u.tx0s : \E f \in r.fee : f.out = o
              /\ \A x \in u.cadded[o] : x.method = "reuse" =>
                   \/ Script[o] \in m.scripts
                   \/ \E y \in Outpoint \ {o} : u.cadded[y] # {} /\ Script[y] = Script[o]
  <2>1. CASE o \in Out
    <3>1. u.cadded[o] = FeeItems(st, t) /\ o \in t.outs /\ st.cadded[o] = {}
      BY <1>2, <1>3, <1>7, <2>1
    <3>2. \E f \in Tx0Row(st, t).fee : f.out = o
      BY <1>3, <1>6, <2>1
    <3>3. Tx0Row(st, t) \in u.tx0s
      BY <1>3, <1>5, <2>1
    <3>4. ASSUME Script[o] \in st.scripts, Script[o] \notin m.scripts
          PROVE  \E y \in Outpoint \ {o} : u.cadded[y] # {} /\ Script[y] = Script[o]
      <4>1. PICK y \in Outpoint : st.cadded[y] # {} /\ Script[y] = Script[o]
        BY <3>4 DEF FeesStaged
      <4> QED
        BY <1>9, <3>1, <4>1
    <3> QED
      BY <1>1, <1>3, <2>1, <3>1, <3>2, <3>3, <3>4
  <2>2. CASE o \notin Out
    <3>1. u.cadded[o] = st.cadded[o]
      BY <1>2, <2>2
    <3>2. \A x, y \in u.cadded[o] : x = y
      BY <3>1 DEF FeesStaged
    <3>3. u.cadded[o] # {} =>
            /\ \E i \in 1 .. n : o \in Txs[b][i].outs
            /\ \E r \in u.tx0s : \E f \in r.fee : f.out = o
      BY <1>1, <1>5, <3>1 DEF FeesStaged
    <3>4. \A x \in u.cadded[o] : x.method = "reuse" =>
            \/ Script[o] \in m.scripts
            \/ \E y \in Outpoint \ {o} : u.cadded[y] # {} /\ Script[y] = Script[o]
      BY <1>9, <3>1 DEF FeesStaged
    <3> QED
      BY <3>2, <3>3, <3>4
  <2> QED
    BY <2>1, <2>2
<1>11. ASSUME NEW o \in Outpoint, u.cspent[o] # {}
       PROVE  /\ u.cadded[o] # {} \/ o \in m.coord
              /\ \E w \in u.spends : u.cspent[o] = {w.txid}
  <2>1. CASE o \in Paid
    BY <1>2, <1>4, <1>5, <1>6, <1>9, <2>1
  <2>2. CASE o \notin Paid
    <3>1. u.cspent[o] = st.cspent[o]
      BY <1>2, <2>2
    <3> QED
      BY <1>5, <1>9, <1>11, <3>1 DEF FeesStaged
  <2> QED
    BY <2>1, <2>2
<1>12. u.scripts = m.scripts \cup {Script[o] : o \in {x \in Outpoint : u.cadded[x] # {}}}
  <2>1. {x \in Outpoint : u.cadded[x] # {}} = {x \in Outpoint : st.cadded[x] # {}} \cup Out
    BY <1>1, <1>3, <1>9
  <2>2. st.scripts = m.scripts
          \cup {Script[o] : o \in {x \in Outpoint : st.cadded[x] # {}}}
    BY DEF FeesStaged
  <2> QED
    BY <1>2, <2>1, <2>2
<1>13. \A w \in st.spends : w.txid # t.txid
  BY <1>1 DEF FeesStaged
<1>14. \A o \in Outpoint : t.txid \notin st.cspent[o]
  BY <1>13 DEF FeesStaged
<1>15. ASSUME NEW w \in u.spends
       PROVE  /\ w.sats = SumValue(PaidBy(u, w.txid))
              /\ \E i \in 1 .. n : w.txid = Txs[b][i].txid
  <2>1. CASE w \in st.spends
    <3>1. PaidBy(u, w.txid) = PaidBy(st, w.txid)
      BY <1>2, <1>4, <1>13, <2>1 DEF PaidBy
    <3> QED
      BY <1>1, <2>1, <3>1 DEF FeesStaged
  <2>2. CASE w = SpendRow(m, st, t) /\ Paid # {}
    <3>1. PaidBy(u, t.txid) = Paid
      BY <1>1, <1>2, <1>4, <1>14 DEF PaidBy
    <3> QED
      BY <1>1, <1>6, <2>2, <3>1
  <2> QED
    BY <1>5, <2>1, <2>2
<1> QED
  BY <1>10, <1>11, <1>12, <1>15 DEF FeesStaged

\* A transaction changes nothing about outputs it does not spend.
LEMMA StageTxUntouched ==
    ASSUME NEW m, NEW st, StagingFields \subseteq DOMAIN st, NEW t,
           NEW u, u = StageTx(m, st, t)
    PROVE  \A o \in Outpoint :
              o \notin t.ins => u.spent[o] = st.spent[o] /\ u.cspent[o] = st.cspent[o]
<1>1. \A o \in Outpoint : o \notin t.ins =>
         o \notin Tracked(m, st, t) /\ o \notin TrackedFees(m, st, t)
  BY DEF Tracked, TrackedFees
<1>2. \A o \in Outpoint : o \notin Tracked(m, st, t) => u.spent[o] = st.spent[o]
  BY StageTxSpent
<1>3. \A o \in Outpoint : o \notin TrackedFees(m, st, t) => u.cspent[o] = st.cspent[o]
  BY StageTxFeeSpent
<1> QED
  BY <1>1, <1>2, <1>3

\* What the block spends, of pool outputs and fees, its transactions spend.
SpentByTxs(b, n, st) ==
    \A o \in Outpoint :
       st.spent[o] # {} \/ st.cspent[o] # {} => \E i \in 1 .. n : o \in Txs[b][i].ins

(* The next transaction is not refused: what it spends was not spent before *)
(* it, and its previous outputs are all known.                              *)
LEMMA NextTxOk ==
    ASSUME NEW m, NEW b \in Block, NEW n \in 1 .. Len(Txs[b]), NEW st,
           StagingFields \subseteq DOMAIN st, st.ok, SpentByTxs(b, n - 1, st),
           NEW u, u = StageTx(m, st, Txs[b][n])
    PROVE  u.ok /\ SpentByTxs(b, n, u)
<1> DEFINE t == Txs[b][n]
<1>1. /\ t.ins \subseteq Outpoint
      /\ t.ins # {} => t.resolved
      /\ \A i \in 1 .. n - 1 : i \in 1 .. n /\ Txs[b][i].ins \cap t.ins = {}
      /\ n \in 1 .. n /\ t = Txs[b][n] /\ u = StageTx(m, st, t)
  BY BlockFacts
<1> HIDE DEF t
<1>2. \A o \in t.ins : st.spent[o] = {} /\ st.cspent[o] = {}
  BY <1>1 DEF SpentByTxs
<1>3. TrackedFees(m, st, t) \subseteq t.ins /\ Tracked(m, st, t) \subseteq t.ins
  BY DEF TrackedFees, Tracked
<1>4. u.ok
  <2>1. TrackedFees(m, st, t) # {} => t.resolved
    BY <1>1, <1>3
  <2> QED
    BY <1>1, <1>2, <2>1, StageTxAccepts
<1>5. ASSUME NEW o \in Outpoint, u.spent[o] # {} \/ u.cspent[o] # {}
      PROVE  \E i \in 1 .. n : o \in Txs[b][i].ins
  <2>1. CASE o \in t.ins
    BY <1>1, <2>1
  <2>2. CASE o \notin t.ins
    <3>1. u.spent[o] = st.spent[o] /\ u.cspent[o] = st.cspent[o]
      BY <1>1, <2>2, StageTxUntouched
    <3> QED
      BY <1>1, <1>5, <3>1 DEF SpentByTxs
  <2> QED
    BY <2>1, <2>2
<1> QED
  BY <1>4, <1>5 DEF SpentByTxs

\* The Tx0 and round rows of a block are its transactions'.
RowsOfTxs(b, n, st) ==
    \A r \in st.tx0s \cup st.rounds : \E i \in 1 .. n : r.txid = Txs[b][i].txid

\* RowsOfTxs is preserved by one more transaction.
LEMMA RowsOfTxsStep ==
    ASSUME NEW m, NEW b \in Block, NEW n \in 1 .. Len(Txs[b]), NEW st,
           StagingFields \subseteq DOMAIN st, RowsOfTxs(b, n - 1, st),
           NEW u, u = StageTx(m, st, Txs[b][n])
    PROVE  RowsOfTxs(b, n, u)
<1> DEFINE t == Txs[b][n]
           row == [txid |-> t.txid, pool |-> t.pool,
                   rollover |-> IsLiquidityRollover(m, st, t)]
<1>1. /\ \A i \in 1 .. n - 1 : i \in 1 .. n
      /\ n \in 1 .. n /\ t = Txs[b][n] /\ u = StageTx(m, st, t)
  BY BlockFacts
<1> HIDE DEF t
<1>2. u.tx0s = st.tx0s \cup When(Entering(t), Tx0Row(st, t))
  BY <1>1, StageTxRows
<1>3. u.rounds = st.rounds \cup When(t.kind = "round" /\ t.resolved, row)
  BY <1>1 DEF StageTx, StagingFields
<1>4. row.txid = t.txid /\ Tx0Row(st, t).txid = t.txid
  BY DEF Tx0Row
<1> HIDE DEF row
<1>5. \A r \in u.tx0s : r \in st.tx0s \/ r.txid = t.txid
  BY <1>2, <1>4 DEF When
<1>6. \A r \in u.rounds : r \in st.rounds \/ r.txid = t.txid
  BY <1>3, <1>4 DEF When
<1> QED
  BY <1>1, <1>5, <1>6 DEF RowsOfTxs

\* The outputs of pool p that rounds create, and those that rounds carry on.
Remixed(st, p) ==
    {o \in Outpoint : \E x \in st.added[o] : x.pool = p /\ x.source = "round"}
Carried(m, st, p) ==
    {o \in Outpoint : Holder(m, st, o) = {p} /\ \E s \in st.spent[o] : s.how = "round"}

\* Rounds create as many outputs of a pool as they carry on.
RoundsStaged(m, st) ==
    /\ \A o \in Outpoint : /\ \A x \in st.added[o] : x.source \in {"tx0", "round"}
                           /\ \A s \in st.spent[o] : s.how \in {"round", "exit"}
    /\ \A p \in Pools : Cardinality(Remixed(st, p)) = Cardinality(Carried(m, st, p))

\* Nothing is mixed before the first transaction.
LEMMA RoundsStagedBlank == ASSUME NEW m PROVE RoundsStaged(m, Blank(m))
<1> DEFINE st == Blank(m)
<1>1. \A o \in Outpoint : st.added[o] = {} /\ st.spent[o] = {}
  BY DEF Blank
<1> HIDE DEF st
<1>2. \A p : Remixed(st, p) = {} /\ Carried(m, st, p) = {}
  BY <1>1 DEF Remixed, Carried
<1>3. RoundsStaged(m, st)
  BY <1>1, <1>2 DEF RoundsStaged
<1> QED
  BY <1>3 DEF st

\* RoundsStaged is preserved by one more transaction.
LEMMA RoundsStagedStep ==
    ASSUME NEW m, NEW b \in Block, NEW n \in 1 .. Len(Txs[b]), NEW st,
           PoolStaged(m, b, n - 1, st), RoundsStaged(m, st),
           NEW u, PoolAfter(m, st, Txs[b][n], u)
    PROVE  RoundsStaged(m, u)
<1> DEFINE t == Txs[b][n]
           In == Tracked(m, st, t)
           New == Premix(t)
           Mix == Mixed(m, st, t)
           roll == IsLiquidityRollover(m, st, t)
<1>1. /\ t.ins \subseteq Outpoint /\ t.outs \subseteq Outpoint
      /\ \A i \in 1 .. n - 1 : /\ i \in 1 .. n /\ Txs[b][i].outs \cap t.outs = {}
                               /\ Txs[b][i].ins \cap t.outs = {}
      /\ t.ins \cap t.outs = {}
  BY BlockFacts
<1>0. PoolAfter(m, st, t, u)
  OBVIOUS
<1> HIDE DEF t
<1>2. /\ \A o \in t.ins : st.spent[o] = {}
      /\ \A o \in Outpoint :
           /\ o \in New => u.added[o] = {Item(t, "tx0")}
           /\ o \in Mix => u.added[o] = {Item(t, "round")}
           /\ o \notin New /\ o \notin Mix => u.added[o] = st.added[o]
           /\ o \in In => u.spent[o] = {Spend(m, st, t)}
           /\ o \notin In => u.spent[o] = st.spent[o]
  BY <1>0 DEF PoolAfter
<1>3. /\ New \subseteq t.outs /\ Mix \subseteq t.outs /\ New \cap Mix = {}
      /\ In \subseteq t.ins /\ \A o \in In : Holder(m, st, o) # {}
  BY DEF Premix, Mixed, Tracked, WithRole, Entering
<1>4. /\ roll => Mix = t.outs /\ In = t.ins /\ \A o \in t.ins : Holder(m, st, o) = {t.pool}
      /\ ~ roll => Mix = {}
  BY DEF Mixed, IsLiquidityRollover, Tracked
<1>5. /\ \A o : \A x \in {Item(t, o)} : x.pool = t.pool /\ x.source = o
      /\ Item(t, "tx0").source = "tx0" /\ Item(t, "round").source = "round"
      /\ Item(t, "tx0").pool = t.pool /\ Item(t, "round").pool = t.pool
  BY DEF Item
<1>6. /\ roll => Spend(m, st, t).how = "round"
      /\ ~ roll => Spend(m, st, t).how = "exit"
  BY DEF Spend
<1>7. roll => Cardinality(t.ins) * Denom[t.pool] = Cardinality(t.outs) * Denom[t.pool]
  BY DEF IsLiquidityRollover
<1> HIDE DEF In, New, Mix, roll
<1>8. \A o \in t.outs : st.added[o] = {} /\ st.spent[o] = {}
  BY <1>1 DEF PoolStaged
<1>9. \A o \in Outpoint : o \notin t.outs => Holder(m, u, o) = Holder(m, st, o)
  BY <1>2, <1>3 DEF Holder
<1>10. ASSUME NEW o \in Outpoint
       PROVE  /\ \A x \in u.added[o] : x.source \in {"tx0", "round"}
              /\ \A s \in u.spent[o] : s.how \in {"round", "exit"}
  BY <1>2, <1>5, <1>6 DEF RoundsStaged
<1>11. ASSUME NEW p \in Pools
       PROVE  Cardinality(Remixed(u, p)) = Cardinality(Carried(m, u, p))
  <2>0. Cardinality(Remixed(st, p)) = Cardinality(Carried(m, st, p))
    BY DEF RoundsStaged
  <2>1. CASE roll /\ t.pool = p
    <3>1. Remixed(u, p) = Remixed(st, p) \cup t.outs
      BY <1>1, <1>2, <1>3, <1>4, <1>5, <2>1 DEF Remixed
    <3>2. Carried(m, u, p) = Carried(m, st, p) \cup t.ins
      <4>1. ASSUME NEW o \in Outpoint
            PROVE  o \in Carried(m, u, p) <=> o \in Carried(m, st, p) \/ o \in t.ins
        <5>1. CASE o \in t.ins
          BY <1>1, <1>2, <1>4, <1>6, <1>9, <2>1, <5>1 DEF Carried
        <5>2. CASE o \notin t.ins
          <6>1. u.spent[o] = st.spent[o]
            BY <1>2, <1>3, <5>2
          <6>2. st.spent[o] # {} => Holder(m, u, o) = Holder(m, st, o)
            BY <1>8, <1>9
          <6> QED
            BY <5>2, <6>1, <6>2 DEF Carried
        <5> QED
          BY <5>1, <5>2
      <4> QED
        BY <1>1, <4>1 DEF Carried
    <3>3. Remixed(st, p) \cap t.outs = {} /\ Carried(m, st, p) \cap t.ins = {}
      BY <1>2, <1>8 DEF Remixed, Carried
    <3>4. Cardinality(t.ins) = Cardinality(t.outs)
      <4>1. Cardinality(t.ins) \in Nat /\ Cardinality(t.outs) \in Nat
        BY <1>1, FinitelyManyOutputs, FS_Subset, FS_CardinalityType
      <4>2. Denom[p] \in Nat /\ Denom[p] # 0
        BY PoolAssumption
      <4>3. \A i, j, k \in Nat : k # 0 /\ i * k = j * k => i = j
        OBVIOUS
      <4> QED
        BY <1>7, <2>1, <4>1, <4>2, <4>3
    <3>5. Remixed(st, p) \subseteq Outpoint /\ Carried(m, st, p) \subseteq Outpoint
      BY DEF Remixed, Carried
    <3>6. Cardinality(Remixed(u, p)) = Cardinality(Remixed(st, p)) + Cardinality(t.outs)
      BY <1>1, <3>1, <3>3, <3>5, CountAdds
    <3>7. Cardinality(Carried(m, u, p)) = Cardinality(Carried(m, st, p)) + Cardinality(t.ins)
      BY <1>1, <3>2, <3>3, <3>5, CountAdds
    <3> QED
      BY <2>0, <3>4, <3>6, <3>7
  <2>2. CASE ~ (roll /\ t.pool = p)
    <3>1. Remixed(u, p) = Remixed(st, p)
      <4>1. ASSUME NEW o \in Outpoint
            PROVE  o \in Remixed(u, p) <=> o \in Remixed(st, p)
        <5>1. CASE o \in New
          BY <1>2, <1>3, <1>5, <1>8, <5>1 DEF Remixed
        <5>2. CASE o \in Mix
          <6>1. t.pool # p /\ o \in t.outs
            BY <1>3, <1>4, <2>2, <5>2
          <6> QED
            BY <1>2, <1>5, <1>8, <5>2, <6>1 DEF Remixed
        <5>3. CASE o \notin New /\ o \notin Mix
          BY <1>2, <5>3 DEF Remixed
        <5> QED
          BY <5>1, <5>2, <5>3
      <4> QED
        BY <4>1 DEF Remixed
    <3>2. Carried(m, u, p) = Carried(m, st, p)
      <4>1. ASSUME NEW o \in Outpoint
            PROVE  o \in Carried(m, u, p) <=> o \in Carried(m, st, p)
        <5>1. CASE o \in In
          <6>1. st.spent[o] = {} /\ u.spent[o] = {Spend(m, st, t)}
            BY <1>2, <1>3, <5>1
          <6>2. CASE roll
            <7>1. Holder(m, u, o) = {t.pool} /\ t.pool # p
              BY <1>1, <1>3, <1>4, <1>9, <2>2, <5>1, <6>2
            <7> QED
              BY <6>1, <7>1 DEF Carried
          <6>3. CASE ~ roll
            BY <1>6, <6>1, <6>3 DEF Carried
          <6> QED
            BY <6>2, <6>3
        <5>2. CASE o \notin In
          <6>1. u.spent[o] = st.spent[o]
            BY <1>2, <5>2
          <6>2. st.spent[o] # {} => Holder(m, u, o) = Holder(m, st, o)
            BY <1>8, <1>9
          <6> QED
            BY <6>1, <6>2 DEF Carried
        <5> QED
          BY <5>1, <5>2
      <4> QED
        BY <4>1 DEF Carried
    <3> QED
      BY <2>0, <3>1, <3>2
  <2> QED
    BY <2>1, <2>2
<1> QED
  BY <1>10, <1>11 DEF RoundsStaged

(* What a whole block stages; nothing in it is refused.                     *)
LEMMA StagedFacts ==
    ASSUME NEW m, NEW b \in Block, NEW st, st = Staged(m, b)
    PROVE  /\ st.ok
           /\ PoolStaged(m, b, Len(Txs[b]), st) /\ RoundsStaged(m, st)
           /\ FeesStaged(m, b, Len(Txs[b]), st) /\ RowsOfTxs(b, Len(Txs[b]), st)
<1> DEFINE N == Len(Txs[b])
           S(n) == Staging(m, b)[n]
           Good(n) == /\ StagingFields \subseteq DOMAIN S(n)
                      /\ S(n).ok /\ SpentByTxs(b, n, S(n))
                      /\ PoolStaged(m, b, n, S(n)) /\ RoundsStaged(m, S(n))
                      /\ FeesStaged(m, b, n, S(n)) /\ RowsOfTxs(b, n, S(n))
           T == {n \in 0 .. N : Good(n)}
<1>1. N \in Nat
  BY BlockAssumption
<1>2. Good(0)
  <2>1. S(0) = Blank(m)
    BY StagingStep
  <2>2. /\ StagingFields \subseteq DOMAIN Blank(m) /\ Blank(m).ok
        /\ SpentByTxs(b, 0, Blank(m)) /\ RowsOfTxs(b, 0, Blank(m))
    BY DEF Blank, StagingFields, SpentByTxs, RowsOfTxs
  <2> HIDE DEF S
  <2> QED
    BY <2>1, <2>2, PoolStagedBlank, FeesStagedBlank, RoundsStagedBlank
<1>3. ASSUME NEW n \in 1 .. N, Good(n - 1) PROVE Good(n)
  <2> DEFINE s == S(n - 1)
             u == S(n)
             t == Txs[b][n]
  <2>1. u = StageTx(m, s, t) /\ n \in 1 .. Len(Txs[b])
    BY <1>3, StagingStep
  <2>2. /\ StagingFields \subseteq DOMAIN s
        /\ s.ok /\ SpentByTxs(b, n - 1, s)
        /\ PoolStaged(m, b, n - 1, s) /\ RoundsStaged(m, s)
        /\ FeesStaged(m, b, n - 1, s) /\ RowsOfTxs(b, n - 1, s)
    BY <1>3
  <2> HIDE DEF s, u, S
  <2>3. StagingFields \subseteq DOMAIN u
    BY <2>1, <2>2, StageTxDomain
  <2>4. u.ok /\ SpentByTxs(b, n, u)
    BY <2>1, <2>2, NextTxOk
  <2>5. RowsOfTxs(b, n, u)
    BY <2>1, <2>2, RowsOfTxsStep
  <2>6. PoolAfter(m, s, t, u)
    BY <2>1, <2>2, <2>4, StageTxPool
  <2>7. FeesAfter(m, s, t, u)
    BY <2>1, <2>2, <2>4, StageTxFee
  <2>8. PoolStaged(m, b, n, u) /\ RoundsStaged(m, u)
    BY <2>1, <2>2, <2>6, PoolStagedStep, RoundsStagedStep
  <2>9. FeesStaged(m, b, n, u)
    BY <2>1, <2>2, <2>7, FeesStagedStep
  <2> QED
    BY <2>3, <2>4, <2>5, <2>8, <2>9 DEF u
<1> HIDE DEF Good
<1>4. 0 \in T /\ \A n \in 1 .. N : n - 1 \in T => n \in T
  <2>1. \A n \in 1 .. N : n \in 0 .. N
    BY <1>1
  <2> QED
    BY <1>1, <1>2, <1>3, <2>1
<1>5. Good(N)
  <2> HIDE DEF N, T
  <2>1. N \in T
    BY <1>1, <1>4, CountingUp
  <2> QED
    BY <2>1 DEF T
<1>6. S(N) = st
  BY DEF Staged
<1> QED
  BY <1>5, <1>6 DEF Good

\* What is left of a set when a part of it is taken out.
LEMMA CountLeft ==
    ASSUME NEW A, A \subseteq Outpoint, NEW B, B \subseteq A
    PROVE  /\ Cardinality(A \ B) = Cardinality(A) - Cardinality(B)
           /\ Cardinality(A) \in Nat /\ Cardinality(B) \in Nat
           /\ Cardinality(A \ B) \in Nat
<1> DEFINE C == A \ B
<1>1. C \subseteq Outpoint /\ B \subseteq Outpoint /\ C \cap B = {} /\ C \cup B = A
  OBVIOUS
<1> HIDE DEF C
<1>2. /\ Cardinality(C \cup B) = Cardinality(C) + Cardinality(B)
      /\ Cardinality(C) \in Nat /\ Cardinality(B) \in Nat
  BY <1>1, CountAdds
<1>3. /\ Cardinality(A) = Cardinality(C) + Cardinality(B)
      /\ Cardinality(C) \in Nat /\ Cardinality(B) \in Nat
  BY <1>1, <1>2
<1>4. /\ Cardinality(C) = Cardinality(A) - Cardinality(B)
      /\ Cardinality(A) \in Nat
  BY <1>3
<1> QED
  BY <1>3, <1>4 DEF C

(* The pools' liquidity changes by what enters and what leaves: what rounds *)
(* create and what they carry on cancel out, and so does what is created    *)
(* and spent in the block.                                                  *)
LEMMA NetChange ==
    ASSUME NEW m, NEW b \in Block, NEW n, NEW st, PoolStaged(m, b, n, st),
           RoundsStaged(m, st), NEW p \in Pools
    PROVE  /\ Cardinality(Came(st, p)) - Cardinality(Gone(m, st, p))
                = Cardinality(Entered(st, p)) - Cardinality(Exited(m, st, p))
           /\ Cardinality(Came(st, p)) \in Nat /\ Cardinality(Gone(m, st, p)) \in Nat
           /\ Cardinality(Entered(st, p)) \in Nat
           /\ Cardinality(Exited(m, st, p)) \in Nat
<1> DEFINE A == {o \in Outpoint : NewPool(st.added[o]) = {p}}
           S == {o \in Outpoint : Holder(m, st, o) = {p} /\ st.spent[o] # {}}
           B == A \cap S
           E == Entered(st, p)
           R == Remixed(st, p)
           X == Exited(m, st, p)
           C == Carried(m, st, p)
<1>1. \A o \in Outpoint : /\ \A x, y \in st.added[o] : x = y
                          /\ \A s, r \in st.spent[o] : s = r
                          /\ \A x \in st.added[o] : x.source \in {"tx0", "round"}
                          /\ \A s \in st.spent[o] : s.how \in {"round", "exit"}
  BY DEF PoolStaged, RoundsStaged
<1>2. ASSUME NEW o \in Outpoint
      PROVE  NewPool(st.added[o]) = {p} <=> \E x \in st.added[o] : x.pool = p
  BY <1>1 DEF NewPool
<1>3. A = E \cup R /\ E \cap R = {} /\ E \subseteq Outpoint /\ R \subseteq Outpoint
  <2>1. \A o \in Outpoint :
          (\E x \in st.added[o] : x.pool = p)
            <=> \/ \E x \in st.added[o] : x.pool = p /\ x.source = "tx0"
                \/ \E x \in st.added[o] : x.pool = p /\ x.source = "round"
    BY <1>1
  <2>2. A = E \cup R
    BY <1>2, <2>1 DEF Entered, Remixed
  <2>3. E \cap R = {} /\ E \subseteq Outpoint /\ R \subseteq Outpoint
    BY <1>1 DEF Entered, Remixed
  <2> QED
    BY <2>2, <2>3
<1>4. S = X \cup C /\ X \cap C = {} /\ X \subseteq Outpoint /\ C \subseteq Outpoint
  <2>1. \A o \in Outpoint :
          st.spent[o] # {} <=> \/ \E s \in st.spent[o] : s.how = "exit"
                              \/ \E s \in st.spent[o] : s.how = "round"
    BY <1>1
  <2>2. S = X \cup C
    BY <2>1 DEF Exited, Carried
  <2>3. X \cap C = {} /\ X \subseteq Outpoint /\ C \subseteq Outpoint
    BY <1>1 DEF Exited, Carried
  <2> QED
    BY <2>2, <2>3
<1>5. \A o \in Outpoint : /\ st.added[o] # {} => Holder(m, st, o) = NewPool(st.added[o])
                          /\ st.added[o] = {} => Holder(m, st, o) = m.active[o]
  BY DEF Holder
<1>6. \A o \in Outpoint : NewPool(st.added[o]) = {p} => st.added[o] # {}
  BY <1>2
<1>7. Came(st, p) = A \ B
  <2>1. \A o \in Outpoint :
          NewPool(st.added[o]) = {p} => (o \in S <=> st.spent[o] # {})
    BY <1>5, <1>6
  <2> QED
    BY <2>1 DEF Came
<1>8. Gone(m, st, p) = S \ B
  <2>1. ASSUME NEW o \in Outpoint, st.spent[o] # {}
        PROVE  st.added[o] = {} /\ m.active[o] = {p}
                  <=> Holder(m, st, o) = {p} /\ NewPool(st.added[o]) # {p}
    BY <1>5, <1>6
  <2> QED
    BY <2>1 DEF Gone
<1>9. A \subseteq Outpoint /\ S \subseteq Outpoint /\ B \subseteq A /\ B \subseteq S
  OBVIOUS
<1>10. Cardinality(R) = Cardinality(C)
  BY DEF RoundsStaged
<1> HIDE DEF A, S, B, E, R, X, C
<1>11. /\ Cardinality(A \ B) = Cardinality(A) - Cardinality(B)
       /\ Cardinality(B) \in Nat /\ Cardinality(A \ B) \in Nat
  BY <1>9, CountLeft
<1>12. Cardinality(S \ B) = Cardinality(S) - Cardinality(B) /\ Cardinality(S \ B) \in Nat
  BY <1>9, CountLeft
<1>13. /\ Cardinality(A) = Cardinality(E) + Cardinality(R)
       /\ Cardinality(E) \in Nat /\ Cardinality(R) \in Nat
  BY <1>3, CountAdds
<1>14. /\ Cardinality(S) = Cardinality(X) + Cardinality(C)
       /\ Cardinality(X) \in Nat /\ Cardinality(C) \in Nat
  BY <1>4, CountAdds
<1> QED
  BY <1>7, <1>8, <1>10, <1>11, <1>12, <1>13, <1>14 DEF E, X

(* The three refusals before the write transaction (_tracked_pool_inputs    *)
(* and _snapshots_after_changes) never happen: every spent output is held,  *)
(* the new liquidity is the old one with the entries and without the exits, *)
(* and no total is negative.                                                *)
LEMMA BlockReconciles ==
    ASSUME NEW d, NEW m, m = Reload(d), NEW b \in Block, NEW st, st = Staged(m, b)
    PROVE  Reconciles(m, st)
<1>1. PoolStaged(m, b, Len(Txs[b]), st) /\ RoundsStaged(m, st)
  BY StagedFacts
<1>2. ASSUME NEW o \in Outpoint, st.spent[o] # {}
      PROVE  st.added[o] # {} \/ m.active[o] # {}
  <2>1. Holder(m, st, o) # {}
    BY <1>1, <1>2 DEF PoolStaged
  <2> QED
    BY <2>1 DEF Holder
<1>3. ASSUME NEW p \in Pools
      PROVE  /\ Snapshot(m, st)[p].liq = m.liq[p] + st.entries[p] - st.exits[p]
             /\ Snapshot(m, st)[p].liq >= 0
             /\ Snapshot(m, st)[p].count >= 0
  <2> DEFINE k == Denom[p]
             held == Cardinality(Holding(m.active, p))
             came == Cardinality(Came(st, p))
             gone == Cardinality(Gone(m, st, p))
             entered == Cardinality(Entered(st, p))
             exited == Cardinality(Exited(m, st, p))
  <2>1. /\ Snapshot(m, st)[p].liq = m.liq[p] - k * gone + k * came
        /\ Snapshot(m, st)[p].count = m.count[p] - gone + came
    BY DEF Snapshot
  <2>2. m.liq[p] = k * held /\ m.count[p] = held
    BY DEF Reload
  <2>3. st.entries[p] = k * entered /\ st.exits[p] = k * exited
    BY <1>1 DEF PoolStaged
  <2>4. /\ came - gone = entered - exited
        /\ came \in Nat /\ gone \in Nat /\ entered \in Nat /\ exited \in Nat
    BY <1>1, NetChange
  <2>5. gone <= held /\ held \in Nat
    <3> DEFINE H == Holding(m.active, p)
               G == Gone(m, st, p)
    <3>1. H \subseteq Outpoint /\ G \subseteq H
      BY DEF Holding, Gone
    <3> HIDE DEF H, G
    <3>2. /\ Cardinality(H \ G) = Cardinality(H) - Cardinality(G)
          /\ Cardinality(H) \in Nat /\ Cardinality(G) \in Nat
          /\ Cardinality(H \ G) \in Nat
      BY <3>1, CountLeft
    <3> QED
      BY <3>2 DEF H, G
  <2>6. k \in Nat
    BY PoolAssumption
  <2> HIDE DEF k, held, came, gone, entered, exited
  <2>7. \A x, y \in Int : k * (x - y) = k * x - k * y
    BY <2>6
  <2>8. /\ k * held \in Int /\ k * came \in Int /\ k * gone \in Int
        /\ k * entered \in Int /\ k * exited \in Int
    BY <2>4, <2>5, <2>6
  <2>9. k * came - k * gone = k * entered - k * exited
    <3>1. k * (came - gone) = k * came - k * gone
      BY <2>4, <2>7
    <3>2. k * (entered - exited) = k * entered - k * exited
      BY <2>4, <2>7
    <3> QED
      BY <2>4, <3>1, <3>2
  <2>10. k * held - k * gone >= 0 /\ k * came >= 0
    <3>1. k * (held - gone) = k * held - k * gone
      BY <2>4, <2>5, <2>7
    <3>2. held - gone \in Nat /\ \A x \in Nat : k * x >= 0
      BY <2>4, <2>5, <2>6
    <3> QED
      BY <2>4, <3>1, <3>2
  <2> QED
    BY <2>1, <2>2, <2>3, <2>4, <2>5, <2>8, <2>9, <2>10
<1> QED
  BY <1>2, <1>3 DEF Reconciles
=============================================================================
