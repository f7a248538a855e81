-------------------------- MODULE TraceCacheProofs --------------------------
(***************************************************************************)
(* What holds of the report cache for every set of threads, requests, time *)
(* to live and capacity, and of the page that asks for the reports for any *)
(* number of clicks.                                                       *)
(***************************************************************************)
EXTENDS TraceCache, TracePage, FiniteSetTheorems, TLAPS

(* The key determines the report: it leaves out nothing a report depends on *)
(* (_make_cache_key).                                                       *)
LEMMA KeyDecides ==
    ASSUME NEW q \in Request, NEW r \in Request, Key(q) = Key(r)
    PROVE  ReportOf(q) = ReportOf(r)
<1>1. Lower[q.txid] = Lower[r.txid]
    BY DEF Key
<1>2. /\ q.limits.max_depth = r.limits.max_depth
      /\ q.limits.max_transactions = r.limits.max_transactions
      /\ q.limits.max_outputs = r.limits.max_outputs
      /\ q.limits.max_history_lookups = r.limits.max_history_lookups
    BY DEF Key
<1>3. q.limits \in LimitFields /\ r.limits \in LimitFields
    BY RequestAssumption
<1>4. q.limits = r.limits
    BY <1>2, <1>3 DEF LimitFields
<1> QED
    BY <1>1, <1>4 DEF ReportOf

\* What a put leaves are rows it found and the row it stored, in its place.
LEMMA StoredRows ==
    ASSUME NEW row
    PROVE  Stored(row) \subseteq {r \in table : r.key # row.key} \cup {row}
BY DEF Stored

LEMMA ReportTyped ==
    ASSUME NEW r \in Request
    PROVE  ReportOf(r) \in Reports /\ Key(r) \in Keys
BY DEF Reports, Keys

\* One thread moved, to a well-typed state.
LEMMA GoesTyped ==
    ASSUME TypeOK, NEW t \in Thread, NEW s, Goes(t, s), ThreadOK(s)
    PROVE  /\ thread' \in [Thread -> Progress]
           /\ \A u \in Thread : ThreadOK(thread'[u])
BY DEF TypeOK, Goes, ThreadOK

(* The table and the requests in progress are well typed, and no key ever   *)
(* has two rows.                                                            *)
THEOREM TypeCorrect == Spec => []TypeOK
<1>1. Init => TypeOK
    BY DEF Init, TypeOK, Idle, ThreadOK, Progress
<1>2. TypeOK /\ [Next]_vars => TypeOK'
    <2> SUFFICES ASSUME TypeOK, [Next]_vars PROVE TypeOK'
        OBVIOUS
    <2>1. ASSUME NEW t \in Thread, NEW r \in Request, Receive(t, r) PROVE TypeOK'
        <3>1. ThreadOK([Idle EXCEPT !.at = IF enabled THEN "select" ELSE "service",
                                    !.req = r, !.bypassed = ~enabled, !.time = clock])
            BY <2>1 DEF TypeOK, Idle, ThreadOK, Progress
        <3> QED
            BY <2>1, <3>1, GoesTyped DEF Receive, TypeOK
    <2>2. ASSUME NEW t \in Thread, Absent(t) \/ Refuse(t) \/ GetFails(t) PROVE TypeOK'
        <3>1. thread[t].at \in {"select", "delete"} /\ ThreadOK(thread[t])
            BY <2>2 DEF Absent, Refuse, GetFails, TypeOK
        <3>2. ThreadOK([thread[t] EXCEPT !.at = "service", !.time = 0])
            BY <3>1 DEF ThreadOK, Progress
        <3>3. ThreadOK([thread[t] EXCEPT !.at = "delete"])
            BY <3>1 DEF ThreadOK, Progress
        <3>4. ThreadOK([thread[t] EXCEPT !.at = "service", !.time = 0, !.bypassed = TRUE])
            BY <3>1 DEF ThreadOK, Progress
        <3> QED
            BY <2>2, <3>2, <3>3, <3>4, GoesTyped DEF Absent, Refuse, GetFails, TypeOK
    <2>3. ASSUME NEW t \in Thread, Hit(t) PROVE TypeOK'
        <3>1. PICK row \in table :
                 Goes(t, [thread[t] EXCEPT !.at = "answered", !.header = "HIT",
                                           !.time = 0, !.report = row.report])
            BY <2>3 DEF Hit, RowsOf
        <3>2. /\ ThreadOK(thread[t]) /\ thread[t].at = "select"
              /\ row.report \in Reports \cup {Damaged}
            BY <2>3 DEF TypeOK, Hit, Row
        <3>3. ThreadOK([thread[t] EXCEPT !.at = "answered", !.header = "HIT",
                                         !.time = 0, !.report = row.report])
            BY <3>2 DEF ThreadOK, Progress
        <3> QED
            BY <2>3, <3>1, <3>3, GoesTyped DEF Hit, TypeOK
    <2>4. ASSUME NEW t \in Thread, Delete(t) PROVE TypeOK'
        <3>1. ThreadOK([thread[t] EXCEPT !.at = "service", !.time = 0])
            BY <2>4 DEF TypeOK, Delete, ThreadOK, Progress
        <3> QED
            BY <2>4, <3>1, GoesTyped DEF Delete, TypeOK
    <2>5. ASSUME NEW t \in Thread, Trace(t) PROVE TypeOK'
        <3>1. ThreadOK(thread[t]) /\ thread[t].at = "service" /\ clock \in Nat
            BY <2>5 DEF TypeOK, Trace
        <3>2. ReportOf(thread[t].req) \in Reports
            BY <3>1, ReportTyped DEF ThreadOK, Progress
        <3>3. ThreadOK([thread[t] EXCEPT !.at = "answered", !.header = "BYPASS",
                                         !.report = ReportOf(thread[t].req)])
            BY <3>1, <3>2 DEF ThreadOK, Progress
        <3>4. ThreadOK([thread[t] EXCEPT !.at = "put", !.time = clock,
                                         !.report = ReportOf(thread[t].req)])
            BY <3>1, <3>2 DEF ThreadOK, Progress
        <3> QED
            BY <2>5, <3>3, <3>4, GoesTyped DEF Trace, TypeOK
    <2>6. ASSUME NEW t \in Thread, TraceFails(t) \/ PutFails(t) PROVE TypeOK'
        <3>1. ThreadOK(thread[t]) /\ thread[t].at \in {"service", "put"}
            BY <2>6 DEF TypeOK, TraceFails, PutFails
        <3>2. ThreadOK([thread[t] EXCEPT !.at = "answered", !.header = "502"])
            BY <3>1 DEF ThreadOK, Progress
        <3>3. ThreadOK([thread[t] EXCEPT !.at = "answered", !.time = 0,
                                         !.header = "BYPASS"])
            BY <3>1 DEF ThreadOK, Progress
        <3> QED
            BY <2>6, <3>2, <3>3, GoesTyped DEF TraceFails, PutFails, TypeOK
    <2>7. ASSUME NEW t \in Thread, Put(t) PROVE TypeOK'
        <3> DEFINE row == [key |-> Key(thread[t].req), created |-> thread[t].time,
                           report |-> thread[t].report]
        <3>1. ThreadOK(thread[t]) /\ thread[t].at = "put"
            BY <2>7 DEF TypeOK, Put
        <3>2. ThreadOK([thread[t] EXCEPT !.at = "answered", !.time = 0,
                                         !.header = "MISS"])
            BY <3>1 DEF ThreadOK, Progress
        <3>3. row \in Row
            BY <3>1, ReportTyped DEF ThreadOK, Progress, Row
        <3>4. table' \subseteq {r \in table : r.key # row.key} \cup {row}
            BY <2>7, StoredRows DEF Put
        <3> HIDE DEF row
        <3>5. table' \subseteq Row
            BY <3>3, <3>4 DEF TypeOK
        <3>6. \A a, b \in table' : a.key = b.key => a = b
            BY <3>4 DEF TypeOK
        <3> QED
            BY <2>7, <3>2, <3>5, <3>6, GoesTyped DEF Put, TypeOK
    <2>8. CASE ClockMoves
        BY <2>8 DEF ClockMoves, TypeOK
    <2>9. ASSUME NEW row \in table, Damage(row) PROVE TypeOK'
        <3>1. row \in Row
            BY DEF TypeOK
        <3>2. [row EXCEPT !.report = Damaged] \in Row /\ [row EXCEPT !.report = Damaged].key = row.key
            BY <3>1 DEF Row
        <3>3. table' \subseteq Row
            BY <2>9, <3>2 DEF Damage, TypeOK
        <3>4. \A a, b \in table' : a.key = b.key => a = b
            BY <2>9, <3>2 DEF Damage, TypeOK
        <3> QED
            BY <2>9, <3>3, <3>4 DEF Damage, TypeOK
    <2>10. CASE Restart
        BY <2>10 DEF Restart, TypeOK, Idle, ThreadOK, Progress
    <2>11. CASE UNCHANGED vars
        BY <2>11 DEF vars, TypeOK
    <2> QED
        BY <2>1, <2>2, <2>3, <2>4, <2>5, <2>6, <2>7, <2>8, <2>9, <2>10, <2>11 DEF Next
<1> QED
    BY <1>1, <1>2, PTL DEF Spec

\* A stored report is the report of every request that has its key, and so is
\* the one a request is about to store.
RightRow(row) ==
    \A r \in Request :
        row.key = Key(r) /\ row.report # Damaged => row.report = ReportOf(r)

RightThread(s) ==
    s.at = "put" \/ (s.at = "answered" /\ s.header = "HIT") =>
        s.report = ReportOf(s.req)

RightReports ==
    /\ \A row \in table : RightRow(row)
    /\ \A t \in Thread : RightThread(thread[t])

LEMMA GoesRight ==
    ASSUME TypeOK, RightReports, NEW t \in Thread, NEW s, Goes(t, s), RightThread(s)
    PROVE  \A u \in Thread : RightThread(thread'[u])
BY DEF TypeOK, RightReports, Goes

(* A report served from the cache is the report asked for, for any number   *)
(* of threads and of requests, whatever the clock does.                     *)
THEOREM HitsAreRight == Spec => []HitIsRight
<1>1. Init => RightReports
    BY DEF Init, RightReports, RightThread, Idle
<1>2. TypeOK /\ RightReports /\ [Next]_vars => RightReports'
    <2> SUFFICES ASSUME TypeOK, RightReports, [Next]_vars PROVE RightReports'
        OBVIOUS
    <2>1. ASSUME NEW t \in Thread, NEW r \in Request, Receive(t, r) PROVE RightReports'
        <3>1. RightThread([Idle EXCEPT !.at = IF enabled THEN "select" ELSE "service",
                                       !.req = r, !.bypassed = ~enabled, !.time = clock])
            BY DEF Idle, RightThread
        <3> QED
            BY <2>1, <3>1, GoesRight DEF Receive, RightReports
    <2>2. ASSUME NEW t \in Thread, Absent(t) \/ Refuse(t) \/ GetFails(t) \/ Delete(t)
          PROVE  RightReports'
        <3>1. ThreadOK(thread[t])
            BY DEF TypeOK
        <3>2. /\ RightThread([thread[t] EXCEPT !.at = "service", !.time = 0])
              /\ RightThread([thread[t] EXCEPT !.at = "delete"])
              /\ RightThread([thread[t] EXCEPT !.at = "service", !.time = 0,
                                               !.bypassed = TRUE])
            BY <3>1 DEF RightThread, ThreadOK, Progress
        <3>3. \A u \in Thread : RightThread(thread'[u])
            BY <2>2, <3>2, GoesRight DEF Absent, Refuse, GetFails, Delete
        <3>4. table' \subseteq table
            BY <2>2 DEF Absent, Refuse, GetFails, Delete
        <3> QED
            BY <3>3, <3>4 DEF RightReports
    <2>3. ASSUME NEW t \in Thread, Hit(t) PROVE RightReports'
        <3>1. PICK row \in RowsOf(Key(thread[t].req)) :
                 /\ ~Refused(row, thread[t].time)
                 /\ Goes(t, [thread[t] EXCEPT !.at = "answered", !.header = "HIT",
                                              !.time = 0, !.report = row.report])
            BY <2>3 DEF Hit
        <3>2. ThreadOK(thread[t]) /\ thread[t].req \in Request
            BY <2>3 DEF TypeOK, Hit, ThreadOK, Progress
        <3>3. row.report = ReportOf(thread[t].req)
            BY <3>1, <3>2 DEF RowsOf, Refused, RightReports, RightRow
        <3>4. RightThread([thread[t] EXCEPT !.at = "answered", !.header = "HIT",
                                            !.time = 0, !.report = row.report])
            BY <3>2, <3>3 DEF RightThread, ThreadOK, Progress
        <3> QED
            BY <2>3, <3>1, <3>4, GoesRight DEF Hit, RightReports
    <2>4. ASSUME NEW t \in Thread, Trace(t) PROVE RightReports'
        <3>1. ThreadOK(thread[t])
            BY DEF TypeOK
        <3>2. /\ RightThread([thread[t] EXCEPT !.at = "answered", !.header = "BYPASS",
                                               !.report = ReportOf(thread[t].req)])
              /\ RightThread([thread[t] EXCEPT !.at = "put", !.time = clock,
                                               !.report = ReportOf(thread[t].req)])
            BY <3>1 DEF RightThread, ThreadOK, Progress
        <3> QED
            BY <2>4, <3>2, GoesRight DEF Trace, RightReports
    <2>5. ASSUME NEW t \in Thread, TraceFails(t) \/ PutFails(t) PROVE RightReports'
        <3>1. ThreadOK(thread[t])
            BY DEF TypeOK
        <3>2. /\ RightThread([thread[t] EXCEPT !.at = "answered", !.header = "502"])
              /\ RightThread([thread[t] EXCEPT !.at = "answered", !.time = 0,
                                               !.header = "BYPASS"])
            BY <3>1 DEF RightThread, ThreadOK, Progress
        <3> QED
            BY <2>5, <3>2, GoesRight DEF TraceFails, PutFails, RightReports
    <2>6. ASSUME NEW t \in Thread, Put(t) PROVE RightReports'
        <3> DEFINE row == [key |-> Key(thread[t].req), created |-> thread[t].time,
                           report |-> thread[t].report]
        <3>1. ThreadOK(thread[t]) /\ thread[t].at = "put" /\ RightThread(thread[t])
            BY <2>6 DEF TypeOK, Put, RightReports
        <3>2. thread[t].req \in Request /\ thread[t].report = ReportOf(thread[t].req)
            BY <3>1 DEF ThreadOK, RightThread
        <3>3. RightRow(row)
            BY <3>2, KeyDecides DEF RightRow
        <3>4. table' \subseteq {r \in table : r.key # row.key} \cup {row}
            BY <2>6, StoredRows DEF Put
        <3> HIDE DEF row
        <3>5. \A r \in table' : RightRow(r)
            BY <3>3, <3>4 DEF RightReports
        <3>6. RightThread([thread[t] EXCEPT !.at = "answered", !.time = 0,
                                            !.header = "MISS"])
            BY <3>1 DEF RightThread, ThreadOK, Progress
        <3> QED
            BY <2>6, <3>5, <3>6, GoesRight DEF Put, RightReports
    <2>7. CASE ClockMoves
        BY <2>7 DEF ClockMoves, RightReports
    <2>8. ASSUME NEW row \in table, Damage(row) PROVE RightReports'
        <3>1. row \in Row
            BY DEF TypeOK
        <3>2. RightRow([row EXCEPT !.report = Damaged])
            BY <3>1 DEF RightRow, Row
        <3> QED
            BY <2>8, <3>2 DEF Damage, RightReports
    <2>9. CASE Restart
        BY <2>9 DEF Restart, RightReports, RightThread, Idle
    <2>10. CASE UNCHANGED vars
        BY <2>10 DEF vars, RightReports
    <2> QED
        BY <2>1, <2>2, <2>3, <2>4, <2>5, <2>6, <2>7, <2>8, <2>9, <2>10 DEF Next
<1>3. RightReports => HitIsRight
    BY DEF RightReports, RightThread, HitIsRight
<1> QED
    BY <1>1, <1>2, <1>3, TypeCorrect, PTL DEF Spec

-----------------------------------------------------------------------------
(* The pruning of put.                                                      *)

\* How many rows are older.
Older(rows, row) == {r \in rows : Before(r, row)}
Place(rows, row) == Cardinality(Older(rows, row))

\* Rows of a table: typed, and told apart by their keys.
Rows(rows) ==
    /\ IsFiniteSet(rows) /\ rows \subseteq Row
    /\ \A a, b \in rows : a.key = b.key => a = b

LEMMA PlaceType ==
    ASSUME NEW rows, Rows(rows), NEW a \in rows
    PROVE  /\ Place(rows, a) \in 0 .. Cardinality(rows) - 1
           /\ Cardinality(rows) \in Nat
<1>1. Older(rows, a) \subseteq rows \ {a}
  BY RankAssumption DEF Older, Before, Rows, Row
<1>2. IsFiniteSet(rows \ {a}) /\ Cardinality(rows \ {a}) = Cardinality(rows) - 1
  BY FS_RemoveElement DEF Rows
<1>3. IsFiniteSet(Older(rows, a)) /\ Place(rows, a) <= Cardinality(rows) - 1
  BY <1>1, <1>2, FS_Subset DEF Place
<1>4. Place(rows, a) \in Nat /\ Cardinality(rows) \in Nat
  BY <1>3, FS_CardinalityType DEF Place, Rows
<1> QED
  BY <1>3, <1>4

(* The order of the deletion is the order of the places.                    *)
LEMMA PlacesGrow ==
    ASSUME NEW rows, Rows(rows), NEW a \in rows, NEW b \in rows, Before(a, b)
    PROVE  Place(rows, a) < Place(rows, b)
<1>1. Older(rows, a) \subseteq Older(rows, b)
  BY RankAssumption DEF Older, Before, Rows, Row
<1>2. a \in Older(rows, b) /\ a \notin Older(rows, a)
  BY RankAssumption DEF Older, Before, Rows, Row
<1>3. IsFiniteSet(Older(rows, b))
  BY FS_Subset DEF Older, Rows
<1>4. Place(rows, a) <= Place(rows, b) /\ Place(rows, a) # Place(rows, b)
  BY <1>1, <1>2, <1>3, FS_Subset DEF Place
<1>5. Place(rows, a) \in Int /\ Place(rows, b) \in Int
  BY PlaceType
<1> QED
  BY <1>4, <1>5

LEMMA PlacesDiffer ==
    ASSUME NEW rows, Rows(rows), NEW a \in rows, NEW b \in rows,
           Place(rows, a) = Place(rows, b)
    PROVE  a = b
<1>1. Before(a, b) \/ Before(b, a) \/ a = b
  BY RankAssumption DEF Before, Rows, Row
<1>2. Place(rows, a) \in Int /\ Place(rows, b) \in Int
  BY PlaceType
<1> QED
  BY <1>1, <1>2, PlacesGrow

(* Of more than max_entries rows put keeps that many; of fewer, all.        *)
LEMMA PruneKeeps ==
    ASSUME NEW rows, Rows(rows)
    PROVE  LET kept == rows \ Oldest(rows)
           IN  /\ IsFiniteSet(kept)
               /\ Cardinality(kept) <= MaxEntries
               /\ Oldest(rows) # {} => Cardinality(kept) = MaxEntries
<1> DEFINE kept == rows \ Oldest(rows)
           size == Cardinality(rows)
           excess == size - MaxEntries
           place == [r \in rows |-> Place(rows, r)]
<1>1. /\ size \in Nat /\ MaxEntries \in Nat \ {0} /\ excess \in Int
      /\ \A r \in rows : Place(rows, r) \in 0 .. size - 1
  BY FS_CardinalityType, PlaceType, BoundAssumption DEF Rows
<1>2. Oldest(rows) = {r \in rows : Place(rows, r) < excess}
  BY DEF Oldest, Place, Older
<1>3. IsFiniteSet(kept) /\ IsFiniteSet(Oldest(rows))
      /\ Cardinality(kept) = size - Cardinality(Oldest(rows))
      /\ Cardinality(Oldest(rows)) \in Nat
  <2>1. Oldest(rows) \subseteq rows
    BY <1>2
  <2>2. IsFiniteSet(Oldest(rows)) /\ rows \cap Oldest(rows) = Oldest(rows)
    BY <2>1, FS_Subset DEF Rows
  <2> QED
    BY <2>2, FS_Difference, FS_CardinalityType DEF Rows
<1> HIDE DEF kept, size, excess
<1>4. CASE excess <= 0
  <2>1. Oldest(rows) = {}
    BY <1>1, <1>2, <1>4
  <2>2. kept = rows /\ size <= MaxEntries
    BY <1>1, <1>4, <2>1 DEF kept, excess
  <2> QED
    BY <1>3, <2>1, <2>2 DEF kept, size
<1>5. CASE excess > 0
  <2>1. \A a, b \in rows : Place(rows, a) = Place(rows, b) => a = b
    BY PlacesDiffer
  <2>2. Cardinality(Oldest(rows)) <= excess
    <3> DEFINE f == [r \in Oldest(rows) |-> Place(rows, r)]
    <3>1. f \in [Oldest(rows) -> 0 .. excess - 1]
      BY <1>1, <1>2
    <3>2. f \in Injection(Oldest(rows), 0 .. excess - 1)
      BY <1>2, <2>1, <3>1 DEF Injection, IsInjective
    <3>3. IsFiniteSet(0 .. excess - 1) /\ Cardinality(0 .. excess - 1) = excess
      BY <1>1, <1>5, FS_Interval
    <3> HIDE DEF f
    <3> QED
      BY <3>2, <3>3, FS_Injection
  <2>3. Cardinality(kept) <= MaxEntries
    <3> DEFINE f == [r \in kept |-> Place(rows, r)]
    <3>1. f \in [kept -> excess .. size - 1]
      BY <1>1, <1>2 DEF kept
    <3>2. f \in Injection(kept, excess .. size - 1)
      BY <2>1, <3>1 DEF Injection, IsInjective, kept
    <3>3. excess <= size /\ size - excess = MaxEntries
      BY <1>1 DEF excess
    <3>4. /\ IsFiniteSet(excess .. size - 1)
          /\ Cardinality(excess .. size - 1) = MaxEntries
      BY <1>1, <3>3, FS_Interval
    <3> HIDE DEF f
    <3> QED
      BY <3>2, <3>4, FS_Injection
  <2>4. Cardinality(kept) = MaxEntries
    BY <1>1, <1>3, <2>2, <2>3 DEF excess
  <2> QED
    BY <1>3, <2>4, <1>1 DEF kept
<1> QED
  BY <1>1, <1>4, <1>5

\* A row is put: the table, then what stands in it after the put.
Replaced(row) == {r \in table : r.key # row.key} \cup {row}
Fresh(row) == {r \in Replaced(row) : ~Outdated(r, row.created)}

\* No row of a put that is pruned is newer than one that is kept.
LEMMA PrunedAreOldest ==
    ASSUME NEW rows, Rows(rows), NEW a \in Oldest(rows), NEW b \in rows \ Oldest(rows)
    PROVE  a.created <= b.created
<1>1. a \in rows /\ b \in rows /\ a.created \in Nat /\ b.created \in Nat
  BY DEF Oldest, Rows, Row
<1>2. Place(rows, a) < Place(rows, b)
  <2>1. /\ Place(rows, a) < Cardinality(rows) - MaxEntries
        /\ ~(Place(rows, b) < Cardinality(rows) - MaxEntries)
    BY <1>1 DEF Oldest, Place, Older
  <2>2. Place(rows, a) \in Int /\ Place(rows, b) \in Int
        /\ Cardinality(rows) - MaxEntries \in Int
    BY <1>1, PlaceType, BoundAssumption
  <2> QED
    BY <2>1, <2>2
<1>3. ~Before(b, a)
  <2>1. Place(rows, a) \in Int /\ Place(rows, b) \in Int
    BY <1>1, PlaceType
  <2> QED
    BY <1>1, <1>2, <2>1, PlacesGrow
<1> QED
  BY <1>1, <1>3 DEF Before

-----------------------------------------------------------------------------
(* Capacity.                                                                *)

\* The table is finite and within its capacity; a request that is not answered
\* has no header yet.
Bounded ==
    /\ IsFiniteSet(table) /\ Cardinality(table) <= MaxEntries
    /\ \A t \in Thread : thread[t].at # "answered" => thread[t].header = None

\* What a put stores and prunes.
LEMMA PutRows ==
    ASSUME TypeOK, Bounded, NEW t \in Thread, Put(t)
    PROVE  \E row \in Row :
              /\ row.key = Key(thread[t].req) /\ row.created = thread[t].time
              /\ Rows(Fresh(row)) /\ table' = Fresh(row) \ Oldest(Fresh(row))
<1> DEFINE row == [key |-> Key(thread[t].req), created |-> thread[t].time,
                   report |-> thread[t].report]
<1>1. ThreadOK(thread[t]) /\ thread[t].at = "put"
  BY DEF TypeOK, Put
<1>2. row \in Row
  BY <1>1, ReportTyped DEF ThreadOK, Progress, Row
<1>3. row.key = Key(thread[t].req) /\ row.created = thread[t].time
  OBVIOUS
<1>4. table' = Stored(row)
  BY DEF Put
<1> HIDE DEF row
<1>5. Rows(Fresh(row))
  <2>1. IsFiniteSet(table \cup {row})
    BY FS_AddElement DEF Bounded
  <2>2. Fresh(row) \subseteq table \cup {row}
    BY DEF Fresh, Replaced
  <2>3. IsFiniteSet(Fresh(row))
    BY <2>1, <2>2, FS_Subset
  <2>4. Fresh(row) \subseteq Row /\ \A a, b \in Fresh(row) : a.key = b.key => a = b
    BY <1>2 DEF Fresh, Replaced, TypeOK
  <2> QED
    BY <2>3, <2>4 DEF Rows
<1>6. table' = Fresh(row) \ Oldest(Fresh(row))
  BY <1>4 DEF Stored, Fresh, Replaced
<1> QED
  BY <1>2, <1>3, <1>5, <1>6

LEMMA GoesUnanswered ==
    ASSUME TypeOK, Bounded, NEW t \in Thread, NEW s, Goes(t, s),
           s.at # "answered" => s.header = None
    PROVE  \A u \in Thread : thread'[u].at # "answered" => thread'[u].header = None
BY DEF TypeOK, Bounded, Goes

\* The steps of a request that leave the table alone.
LEMMA RequestStep ==
    ASSUME TypeOK, Bounded, NEW t \in Thread,
           \/ \E r \in Request : Receive(t, r)
           \/ Absent(t) \/ Hit(t) \/ Refuse(t) \/ GetFails(t)
           \/ Trace(t) \/ TraceFails(t) \/ PutFails(t)
    PROVE  /\ table' = table
           /\ \A u \in Thread : thread'[u].at # "answered" => thread'[u].header = None
           /\ ~Puts(t)
<1>0. /\ ThreadOK(thread[t]) /\ thread \in [Thread -> Progress]
      /\ thread[t].at # "answered" => thread[t].header = None
  BY DEF TypeOK, Bounded
<1> DEFINE Fine(s) == /\ s.at # "answered" => s.header = None
                      /\ thread[t].at = "put" => s.header # "MISS"
<1>1. ASSUME NEW s, Goes(t, s), Fine(s), table' = table
      PROVE  /\ table' = table
             /\ \A u \in Thread : thread'[u].at # "answered" => thread'[u].header = None
             /\ ~Puts(t)
  <2>1. thread'[t] = s
    BY <1>0, <1>1 DEF Goes
  <2> QED
    BY <1>1, <2>1, GoesUnanswered DEF Puts
<1>2. ASSUME NEW r \in Request, Receive(t, r)
      PROVE  \E s : Goes(t, s) /\ Fine(s) /\ table' = table
  BY <1>2 DEF Receive, Idle
<1>3. CASE Absent(t) \/ Refuse(t) \/ GetFails(t)
  <2>1. /\ Fine([thread[t] EXCEPT !.at = "service", !.time = 0])
        /\ Fine([thread[t] EXCEPT !.at = "delete"])
        /\ Fine([thread[t] EXCEPT !.at = "service", !.time = 0, !.bypassed = TRUE])
    BY <1>0, <1>3, HeaderAssumption DEF Absent, Refuse, GetFails, ThreadOK, Progress
  <2> HIDE DEF Fine
  <2> QED
    BY <1>1, <1>3, <2>1 DEF Absent, Refuse, GetFails
<1>4. CASE Hit(t)
  <2>1. PICK row \in table :
           Goes(t, [thread[t] EXCEPT !.at = "answered", !.header = "HIT",
                                     !.time = 0, !.report = row.report])
    BY <1>4 DEF Hit, RowsOf
  <2>2. Fine([thread[t] EXCEPT !.at = "answered", !.header = "HIT",
                               !.time = 0, !.report = row.report])
    BY <1>0, <1>4 DEF Hit, ThreadOK, Progress
  <2> HIDE DEF Fine
  <2> QED
    BY <1>1, <1>4, <2>1, <2>2 DEF Hit
<1>5. CASE Trace(t)
  <2>1. /\ Fine([thread[t] EXCEPT !.at = "answered", !.header = "BYPASS",
                                  !.report = ReportOf(thread[t].req)])
        /\ Fine([thread[t] EXCEPT !.at = "put", !.time = clock,
                                  !.report = ReportOf(thread[t].req)])
    BY <1>0, <1>5 DEF Trace, ThreadOK, Progress
  <2> HIDE DEF Fine
  <2> QED
    BY <1>1, <1>5, <2>1 DEF Trace
<1>6. CASE TraceFails(t) \/ PutFails(t)
  <2>1. /\ Fine([thread[t] EXCEPT !.at = "answered", !.header = "502"])
        /\ Fine([thread[t] EXCEPT !.at = "answered", !.time = 0, !.header = "BYPASS"])
    BY <1>0 DEF ThreadOK, Progress
  <2> HIDE DEF Fine
  <2> QED
    BY <1>1, <1>6, <2>1 DEF TraceFails, PutFails
<1> HIDE DEF Fine
<1> QED
  BY <1>1, <1>2, <1>3, <1>4, <1>5, <1>6

LEMMA BoundedStep ==
    ASSUME TypeOK, Bounded, [Next]_vars
    PROVE  Bounded'
<1>1. ASSUME NEW t \in Thread,
             \/ \E r \in Request : Receive(t, r)
             \/ Absent(t) \/ Hit(t) \/ Refuse(t) \/ GetFails(t)
             \/ Trace(t) \/ TraceFails(t) \/ PutFails(t)
      PROVE  Bounded'
  BY <1>1, RequestStep DEF Bounded
<1>2. ASSUME NEW t \in Thread, Delete(t) PROVE Bounded'
  <2>1. table' \in SUBSET table
    BY <1>2 DEF Delete
  <2>2. /\ IsFiniteSet(table') /\ Cardinality(table') <= Cardinality(table)
        /\ Cardinality(table') \in Nat /\ Cardinality(table) \in Nat
    BY <2>1, FS_Subset, FS_CardinalityType DEF Bounded
  <2>3. /\ ThreadOK(thread[t]) /\ thread[t].header = None
    BY <1>2 DEF TypeOK, Bounded, Delete
  <2>4. [thread[t] EXCEPT !.at = "service", !.time = 0].header = None
    BY <2>3 DEF ThreadOK, Progress
  <2>5. \A u \in Thread : thread'[u].at # "answered" => thread'[u].header = None
    BY <1>2, <2>4, GoesUnanswered DEF Delete
  <2> QED
    BY <2>2, <2>5, BoundAssumption DEF Bounded
<1>3. ASSUME NEW t \in Thread, Put(t) PROVE Bounded'
  <2>1. PICK row \in Row : Rows(Fresh(row)) /\ table' = Fresh(row) \ Oldest(Fresh(row))
    BY <1>3, PutRows
  <2>2. IsFiniteSet(table') /\ Cardinality(table') <= MaxEntries
    BY <2>1, PruneKeeps
  <2>3. ThreadOK(thread[t])
    BY DEF TypeOK
  <2>4. [thread[t] EXCEPT !.at = "answered", !.time = 0, !.header = "MISS"].at = "answered"
    BY <2>3 DEF ThreadOK, Progress
  <2>5. \A u \in Thread : thread'[u].at # "answered" => thread'[u].header = None
    BY <1>3, <2>4, GoesUnanswered DEF Put
  <2> QED
    BY <2>2, <2>5 DEF Bounded
<1>4. ASSUME NEW row \in table, Damage(row) PROVE Bounded'
  <2>1. /\ IsFiniteSet(table \ {row}) /\ Cardinality(table \ {row}) = Cardinality(table) - 1
    BY FS_RemoveElement DEF Bounded
  <2>2. /\ IsFiniteSet(table') /\ Cardinality(table') <= Cardinality(table)
        /\ Cardinality(table') \in Nat /\ Cardinality(table) \in Nat
    <3> DEFINE rest == table \ {row}
    <3>1. PICK x : table' = rest \cup {x}
      BY <1>4 DEF Damage
    <3>2. /\ Cardinality(rest) \in Nat /\ Cardinality(table) \in Nat
          /\ IsFiniteSet(rest) /\ Cardinality(rest) = Cardinality(table) - 1
      BY <2>1, FS_CardinalityType DEF Bounded
    <3> HIDE DEF rest
    <3>3. /\ IsFiniteSet(rest \cup {x})
          /\ Cardinality(rest \cup {x})
               = IF x \in rest THEN Cardinality(rest) ELSE Cardinality(rest) + 1
      BY <3>2, FS_AddElement
    <3> QED
      BY <3>1, <3>2, <3>3
  <2> QED
    BY <1>4, <2>2, BoundAssumption DEF Damage, Bounded
<1>5. CASE ClockMoves \/ UNCHANGED vars
  BY <1>5 DEF ClockMoves, vars, Bounded
<1>6. CASE Restart
  BY <1>6 DEF Restart, Bounded, Idle
<1> QED
  BY <1>1, <1>2, <1>3, <1>4, <1>5, <1>6 DEF Next

LEMMA BoundedInit == Init => Bounded
BY FS_EmptySet, BoundAssumption DEF Init, Bounded, Idle

(* The table never outgrows max_entries, for any capacity and any number of *)
(* concurrent puts: each prunes in the transaction that inserts (put).      *)
THEOREM TableStaysBounded == Spec => []AtMostMaxEntries
<1>1. Bounded => AtMostMaxEntries
  BY DEF Bounded, AtMostMaxEntries
<1> QED
  BY <1>1, BoundedInit, BoundedStep, TypeCorrect, PTL DEF Spec

-----------------------------------------------------------------------------
(* What a step may do to the stored reports.                                *)

\* Only a put is a put.
LEMMA OnlyPutPuts ==
    ASSUME TypeOK, Bounded, [Next]_vars, NEW u \in Thread, Puts(u)
    PROVE  Put(u)
<1>0. thread[u].at = "put" /\ thread'[u].header = "MISS" /\ thread[u].header = None
  BY DEF Puts, Bounded
<1>1. thread'[u] # thread[u]
  BY <1>0, HeaderAssumption
<1>2. ASSUME NEW t \in Thread,
             \/ \E r \in Request : Receive(t, r)
             \/ Absent(t) \/ Hit(t) \/ Refuse(t) \/ GetFails(t) \/ Delete(t)
             \/ Trace(t) \/ TraceFails(t) \/ PutFails(t) \/ Put(t)
      PROVE  u = t
  <2>1. PICK s : Goes(t, s)
    BY <1>2 DEF Receive, Absent, Hit, Refuse, GetFails, Delete, Trace, TraceFails,
                PutFails, Put
  <2> QED
    BY <1>1, <2>1 DEF Goes, TypeOK
<1>3. ~(ClockMoves \/ (\E row \in table : Damage(row)) \/ UNCHANGED vars)
  BY <1>1 DEF ClockMoves, Damage, vars
<1>4. ~Restart
  BY <1>0, HeaderAssumption DEF Restart, Idle
<1>5. ~Delete(u)
  BY <1>0 DEF Delete
<1> QED
  BY <1>2, <1>3, <1>4, <1>5, RequestStep DEF Next

(* The two expiry comparisons agree: a put leaves nothing a get of that     *)
(* time would refuse, and takes what such a get would serve only when the   *)
(* table was full, and then the oldest (get, put).                          *)
THEOREM PutsAndGetsAgree == Spec => ExpiriesAgree
<1>1. ASSUME TypeOK, Bounded, [Next]_vars, NEW t \in Thread, Puts(t)
      PROVE  LET now   == thread[t].time
                 Taken == {r \in table \ table' : r.key # Key(thread[t].req)}
             IN  /\ \A r \in table' : r.report # Damaged => ~Refused(r, now)
                 /\ (\E r \in Taken : ~Refused(r, now)) =>
                        Cardinality(table') = MaxEntries
                 /\ \A r \in Taken, k \in table' :
                        ~Refused(r, now) => r.created <= k.created
  <2> DEFINE now   == thread[t].time
             Taken == {r \in table \ table' : r.key # Key(thread[t].req)}
  <2>1. Put(t)
    BY <1>1, OnlyPutPuts
  <2>2. PICK row \in Row :
           /\ row.key = Key(thread[t].req) /\ row.created = now
           /\ Rows(Fresh(row)) /\ table' = Fresh(row) \ Oldest(Fresh(row))
    BY <1>1, <2>1, PutRows
  <2>3. \A r \in Row : r.report # Damaged => (Refused(r, now) <=> Outdated(r, now))
    BY <2>2, BoundAssumption DEF Refused, Outdated, Row
  <2>4. table \subseteq Row /\ table' \subseteq Row
    BY <1>1, <2>2 DEF TypeOK, Rows
  <2>5. \A r \in table' : r.report # Damaged => ~Refused(r, now)
    BY <2>2, <2>3, <2>4 DEF Fresh
  <2>6. \A r \in Taken : ~Refused(r, now) => r \in Oldest(Fresh(row))
    <3> SUFFICES ASSUME NEW r \in Taken, ~Refused(r, now)
                 PROVE  r \in Oldest(Fresh(row))
      OBVIOUS
    <3>1. r.report # Damaged /\ ~Outdated(r, now)
      BY <2>3, <2>4 DEF Refused
    <3>2. r \in Fresh(row)
      BY <2>2, <3>1 DEF Fresh, Replaced
    <3> QED
      BY <2>2, <3>2
  <2>7. Oldest(Fresh(row)) # {} => Cardinality(table') = MaxEntries
    BY <2>2, PruneKeeps
  <2>8. \A r \in Taken, k \in table' : ~Refused(r, now) => r.created <= k.created
    BY <2>2, <2>6, PrunedAreOldest
  <2> QED
    BY <2>5, <2>6, <2>7, <2>8
<1>2. TypeOK /\ Bounded /\ [Next]_vars =>
        [\A t \in Thread : Puts(t) =>
           LET now   == thread[t].time
               Taken == {r \in table \ table' : r.key # Key(thread[t].req)}
           IN  /\ \A r \in table' : r.report # Damaged => ~Refused(r, now)
               /\ (\E r \in Taken : ~Refused(r, now)) =>
                      Cardinality(table') = MaxEntries
               /\ \A r \in Taken, k \in table' :
                      ~Refused(r, now) => r.created <= k.created]_vars
  BY <1>1
<1> QED
  BY <1>2, BoundedInit, BoundedStep, TypeCorrect, PTL DEF Spec, ExpiriesAgree

(* No request costs another transaction its cached report: outside a put, a *)
(* row goes only by a get of its own key, or is damaged (_delete).          *)
THEOREM OthersKeepTheirRows == Spec => OnlyOwnKeyDropped
<1>1. ASSUME TypeOK, Bounded, [Next]_vars, NEW row \in table \ table'
      PROVE  \/ \E t \in Thread : Puts(t)
             \/ \E t \in Thread : thread[t].at = "delete" /\ Key(thread[t].req) = row.key
             \/ \E r \in table' : r.key = row.key /\ r.report = Damaged
  <2>1. table' # table
    OBVIOUS
  <2>2. ASSUME NEW t \in Thread, Put(t) PROVE Puts(t)
    <3>1. ThreadOK(thread[t]) /\ thread \in [Thread -> Progress]
      BY <1>1 DEF TypeOK
    <3>2. [thread[t] EXCEPT !.at = "answered", !.time = 0, !.header = "MISS"].header = "MISS"
      BY <3>1 DEF ThreadOK, Progress
    <3> QED
      BY <2>2, <3>1, <3>2 DEF Put, Puts, Goes
  <2>3. ASSUME NEW t \in Thread, Delete(t)
        PROVE  thread[t].at = "delete" /\ Key(thread[t].req) = row.key
    BY <2>3 DEF Delete, RowsOf
  <2>4. ASSUME NEW r \in table, Damage(r)
        PROVE  \E q \in table' : q.key = row.key /\ q.report = Damaged
    <3>1. row = r /\ row \in Row
      BY <1>1, <2>4 DEF Damage, TypeOK
    <3>2. [r EXCEPT !.report = Damaged] \in table'
      BY <2>4 DEF Damage
    <3> QED
      BY <3>1, <3>2 DEF Row
  <2>5. ~(ClockMoves \/ Restart \/ UNCHANGED vars)
    BY <2>1 DEF ClockMoves, Restart, vars
  <2> QED
    BY <1>1, <2>1, <2>2, <2>3, <2>4, <2>5, RequestStep DEF Next
<1>2. TypeOK /\ Bounded /\ [Next]_vars =>
        [\A row \in table \ table' :
           \/ \E t \in Thread : Puts(t)
           \/ \E t \in Thread : thread[t].at = "delete" /\ Key(thread[t].req) = row.key
           \/ \E r \in table' : r.key = row.key /\ r.report = Damaged]_vars
  BY <1>1
<1> QED
  BY <1>2, BoundedInit, BoundedStep, TypeCorrect, PTL DEF Spec, OnlyOwnKeyDropped

-----------------------------------------------------------------------------
(* The page that sends the requests. *)

\* While the buttons are off one request is in flight, the latest; while
\* they are on, none is.
TraceFormInv ==
    /\ submitted \in Nat
    /\ buttonsOff \in BOOLEAN
    /\ buttonsOff => traces = {submitted} /\ error = 0
    /\ ~buttonsOff => traces = {}
    /\ ~buttonsOff => error = submitted \/ (error = 0 /\ report = submitted)

\* As long as no questions overlapped, one at most is in flight, it is about
\* the pressed pool, and no blocks are visible until it is answered.
HistoryInv ==
    ~overlapped =>
      /\ \A q, r \in questions : q = r
      /\ \A q \in questions : q.pool = pressed
      /\ questions # {} => blocks = NoPool
      /\ blocks # NoPool => blocks = pressed /\ message = "shown"

(* Every step of the page keeps it. *)
LEMMA TraceFormKept ==
    TraceFormInv /\ [PageNext]_pageVars => TraceFormInv'
<1> SUFFICES ASSUME TraceFormInv, [PageNext]_pageVars PROVE TraceFormInv'
  OBVIOUS
<1>1. CASE Submit
  BY <1>1 DEF Submit, SetBusy, TraceFormInv
<1>2. CASE SubmitRefused
  BY <1>2 DEF SubmitRefused, TraceFormInv
<1>3. CASE RequestAnswers
  BY <1>3 DEF RequestAnswers, SetBusy, TraceFormInv
<1>4. CASE RequestFails
  BY <1>4 DEF RequestFails, SetBusy, TraceFormInv
<1>5. CASE RenderFails
  BY <1>5 DEF RenderFails, SetBusy, TraceFormInv
<1>6. CASE UNCHANGED traceVars
  BY <1>6 DEF traceVars, TraceFormInv
<1> QED
  BY <1>1, <1>2, <1>3, <1>4, <1>5, <1>6
     DEF PageNext, pageVars, OverviewAnswers, OverviewFails, ClickPool,
         HistoryAnswers, HistoryFails

(* Every step of the page keeps it: a new question hides the blocks. *)
LEMMA HistoryKept ==
    HistoryInv /\ [PageNext]_pageVars => HistoryInv'
<1> SUFFICES ASSUME HistoryInv, [PageNext]_pageVars PROVE HistoryInv'
  OBVIOUS
<1>1. ASSUME NEW p, LoadPoolHistory(p) PROVE HistoryInv'
  <2> DEFINE new == [n |-> asked + 1, pool |-> p]
  <2>1. /\ pressed' = p /\ blocks' = NoPool
        /\ questions' = questions \cup {new}
        /\ new.pool = p
    BY <1>1 DEF LoadPoolHistory
  <2> SUFFICES ASSUME ~overlapped' PROVE questions = {}
    BY <2>1 DEF HistoryInv
  <2> QED
    BY <1>1, Zenon DEF LoadPoolHistory
<1>2. CASE HistoryAnswers
  BY <1>2 DEF HistoryAnswers, RenderPoolHistory, HistoryInv
<1>3. CASE HistoryFails
  BY <1>3 DEF HistoryFails, HistoryInv
<1>4. CASE UNCHANGED <<questions, overlapped, pressed, blocks, message>>
  BY <1>4 DEF HistoryInv
<1> QED
  BY <1>1, <1>2, <1>3, <1>4
     DEF PageNext, pageVars, poolVars, Submit, SubmitRefused, RequestAnswers, RequestFails,
         RenderFails, OverviewAnswers, OverviewFails, ClickPool

(* Whatever the order of clicks and answers, and however many: once the      *)
(* buttons are back the page speaks of the latest submission, and while it   *)
(* runs no error is shown (submitTrace, setBusy).                            *)
THEOREM PageFollowsLastSubmission == PageSpec => []PageOfLastSubmission
<1>1. PageInit => TraceFormInv
  <2>1. PageInit => /\ buttonsOff \in BOOLEAN /\ ~buttonsOff
                    /\ traces = {} /\ submitted = 0 /\ error = 0
    BY Zenon DEF PageInit
  <2> QED
    BY <2>1 DEF TraceFormInv
<1>2. TraceFormInv => PageOfLastSubmission
  BY DEF TraceFormInv, PageOfLastSubmission
<1> QED
  BY <1>1, <1>2, TraceFormKept, PTL DEF PageSpec

(* A user who waits for each answer sees, whatever pools the overview lists, *)
(* the blocks of the pressed pool or none (loadPoolHistory).                 *)
THEOREM PatientUserSeesPressedPool == PageSpec => []PatientUser
<1>1. PageInit => HistoryInv
  BY DEF PageInit, HistoryInv
<1>2. HistoryInv => PatientUser
  BY DEF HistoryInv, PatientUser
<1> QED
  BY <1>1, <1>2, HistoryKept, PTL DEF PageSpec
=============================================================================
