----------------------------- MODULE IndexReader -----------------------------
(***************************************************************************)
(* The read-only side of the chain index: ChainIndexReader (chainindex.py) *)
(* and the two network endpoints built on it (web.py).  A request opens a  *)
(* connection of its own in autocommit mode, so every query reads the      *)
(* database of its moment while the scanner, another process, commits      *)
(* blocks and rollbacks.                                                   *)
(*                                                                         *)
(* The writer is reduced to its commits: by the theorems of                *)
(* ChainIndexProofs an applied block always makes the database the replay  *)
(* of its chain, and a rollback always cuts it at a height.                *)
(***************************************************************************)
EXTENDS ChainLedger

CONSTANTS
    AskedHeight,    \* the heights a client may ask from and to
    Limit,          \* the row limits a client may ask for
    UnknownPool     \* a pool identifier that is not in Pools

ASSUME PoolsAssumption == IsFiniteSet(Pools) /\ Pools # {}
ASSUME AskedHeightAssumption == AskedHeight \subseteq Nat
ASSUME LimitAssumption == Limit \subseteq 1 .. 2000
ASSUME UnknownPoolAssumption == UnknownPool \notin Pools

VARIABLES
    db,             \* the committed database
    request         \* the request being served

vars == <<db, request>>

MaybeHeight == AskedHeight \cup {None}

\* GET /api/network, and GET /api/network/pools/{pool}/history with a query
\* FastAPI accepts: any height from 0, below the index or beyond it too.
Overview == [kind |-> "overview"]
History == [kind : {"history"}, pool : Pools \cup {UnknownPool},
            from : MaybeHeight, to : MaybeHeight, limit : Limit]

\* at: the next query, or how the request was answered; seen: the values read
\* so far; undone: a rollback was committed since the first of them.
Waiting == [at |-> "waiting", ask |-> None, seen |-> << >>, undone |-> FALSE]

Init ==
    /\ db = EmptyDb
    /\ request = Waiting

-----------------------------------------------------------------------------
(* The queries. *)

\* The newest row of chain_blocks; no row is None.
LastRow(d) == IF d.blocks = {} THEN None ELSE LastHeight(d)

FeeRows(d) == {o \in Outpoint : d.coord[o] # {}}

FeeSums(d) == [sats |-> SumValue(FeeRows(d)), count |-> Cardinality(FeeRows(d))]

SpendSums(d) ==
    LET mixed == {s \in d.spends : ~s.row.all}
    IN  [cost  |-> MapThenSumSet(LAMBDA s : s.row.cost, d.spends),
         count |-> Cardinality(mixed),
         sats  |-> MapThenSumSet(LAMBDA s : s.row.sats, mixed)]

\* The rows at the greatest height of their pool.
LatestSnapshots(d) ==
    {s \in d.snaps : \A q \in d.snaps : q.row.pool = s.row.pool => q.height <= s.height}

\* Mutant: the lower end of the range is left out.
InRangeAfter(s, q) ==
    /\ s.row.pool = q.pool
    /\ q.from # None => s.height > q.from
    /\ q.to # None => s.height <= q.to

InRange(s, q) ==
    /\ s.row.pool = q.pool
    /\ q.from # None => s.height >= q.from
    /\ q.to # None => s.height <= q.to

\* ORDER BY height, of the rows of one pool.
ByHeight(rows) ==
    [i \in 1 .. Cardinality(rows) |->
       CHOOSE s \in rows : Cardinality({r \in rows : r.height < s.height}) = i - 1]

\* Mutant: the inner query orders by ascending height.
OldestHistory(d, q) ==
    LET rows == {s \in d.snaps : InRange(s, q)}
        kept == {s \in rows : Cardinality({r \in rows : r.height < s.height}) < q.limit}
    IN  ByHeight(kept)

\* pool_history: the newest rows of the range, in ascending order.
PoolHistory(d, q) ==
    LET rows == {s \in d.snaps : InRange(s, q)}
        kept == {s \in rows : Cardinality({r \in rows : r.height > s.height}) < q.limit}
    IN  ByHeight(kept)

-----------------------------------------------------------------------------
(* The writer. *)

Serving == request.at \notin {"waiting", "200", "404", "422", "503"}

Commit(b) ==
    /\ Connects(db, b) /\ Accepts(db, Reload(db), b)
    /\ db' = Replayed(db, b)
    /\ UNCHANGED request

RollbackTo(h) ==
    /\ \E b \in db.blocks : Height[b] > h
    /\ db' = Rollback(db, h)
    /\ request' = [request EXCEPT !.undone = @ \/ Serving]

-----------------------------------------------------------------------------
(* The endpoints. *)

\* A request arrives.  web.py refuses an empty range before it opens the
\* index; for anything else it opens the index first.
AskOverview ==
    /\ ~Serving
    /\ request' = [Waiting EXCEPT !.at = "status", !.ask = Overview]
    /\ UNCHANGED db

Verdict(q) ==
    IF q.from # None /\ q.to # None /\ q.from > q.to THEN "422" ELSE "history"

AskHistory(q) ==
    /\ ~Serving
    /\ request' = [Waiting EXCEPT !.at = Verdict(q), !.ask = q]
    /\ UNCHANGED db

With(values, field, value) ==
    [f \in DOMAIN values \cup {field} |-> IF f = field THEN value ELSE values[f]]

\* A query returned: the value joins the answer, the next query is due.
Read(query, field, value, next) ==
    /\ request.at = query
    /\ request' = [request EXCEPT !.at = next, !.seen = With(@, field, value)]
    /\ UNCHANGED db

ReadStatus == Read("status", "last", LastRow(db), "count")
ReadCount == Read("count", "blocks", Cardinality(db.blocks), "fees")
ReadFees == Read("fees", "fees", FeeSums(db), "spends")
ReadSpends == Read("spends", "spends", SpendSums(db), "pools")
ReadPools == Read("pools", "pools", LatestSnapshots(db), "200")

ReadHistory ==
    /\ request.at = "history" /\ request.ask.pool # UnknownPool
    /\ Read("history", "snapshots", PoolHistory(db, request.ask), "200")

\* pool_history of the open index refuses a pool it does not know.
RefusePool ==
    /\ request.at = "history" /\ request.ask.pool = UnknownPool
    /\ request' = [request EXCEPT !.at = "404"]
    /\ UNCHANGED db

\* The index is missing, locked for too long or unreadable: 503, to any
\* request that needs it, for an unknown pool too.
Unavailable ==
    /\ Serving
    /\ request' = [Waiting EXCEPT !.at = "503"]
    /\ UNCHANGED db

\* Mutant: the pools are listed first, the status last.
ReadPoolsFirst ==
    \/ Read("status", "pools", LatestSnapshots(db), "count")
    \/ ReadCount \/ ReadFees \/ ReadSpends
    \/ Read("pools", "last", LastRow(db), "200")

\* overview: five queries, in this order.
ReadOverview ==
    \/ ReadStatus \/ ReadCount \/ ReadFees \/ ReadSpends \/ ReadPools

Next ==
    \/ \E b \in Block : Commit(b)
    \/ \E h \in {StartHeight - 1} \cup Heights : RollbackTo(h)
    \/ AskOverview
    \/ \E q \in History : AskHistory(q)
    \/ ReadOverview
    \/ ReadHistory
    \/ RefusePool
    \/ Unavailable

Spec == Init /\ [][Next]_vars

-----------------------------------------------------------------------------
Answered(ask) == request.at = "200" /\ request.ask = ask
seen == request.seen

(* An overview has one snapshot of every pool and all of one height, or     *)
(* none of any, although pools are listed by the greatest height of each    *)
(* and the writer works between the queries; and unless a rollback came in  *)
(* between, it never claims coverage it has no data for: the pools are of   *)
(* the last indexed height or later, and the block count is no less than    *)
(* that height says (overview reads the status first).                      *)
CoverageBacked ==
    Answered(Overview) =>
        /\ \/ seen.pools = {}
           \/ /\ {s.row.pool : s \in seen.pools} = Pools
              /\ Cardinality(seen.pools) = Cardinality(Pools)
              /\ \A s, r \in seen.pools : s.height = r.height
        /\ ~request.undone /\ seen.last # None =>
              /\ seen.pools # {}
              /\ \A s \in seen.pools : s.height >= seen.last
              /\ seen.blocks >= seen.last - StartHeight + 1

\* The first and the last height a history may hold: those of the range, or
\* of the index where the range reaches beyond it.
OldEnd(q) == IF q.from = None \/ q.from < StartHeight THEN StartHeight ELSE q.from
NewEnd(d, q) == IF q.to = None \/ q.to > LastHeight(d) THEN LastHeight(d) ELSE q.to

(* A pool history is an unbroken account of the pool and the range asked    *)
(* for: heights follow one another, each row's liquidity is the previous    *)
(* one's plus entries minus exits, and a page below the limit begins where  *)
(* the range or the index does: it is cut only at its old end, and only to  *)
(* the limit (pool_history, over whatever the writer left).                 *)
HistoryReconciles ==
    request.at = "200" /\ request.ask \in History =>
        LET rows == seen.snapshots
            q    == request.ask
            Prev(i) == rows[i - 1].row.at.liq
        IN  /\ Len(rows) <= q.limit
            /\ \A i \in 1 .. Len(rows) :
                  /\ rows[i].row.pool = q.pool
                  /\ rows[i].height >= OldEnd(q)
                  /\ q.to # None => rows[i].height <= q.to
            /\ \A i \in 2 .. Len(rows) :
                  /\ rows[i].height = rows[i - 1].height + 1
                  /\ rows[i].row.at.liq = Prev(i) + rows[i].row.at.entry
                                                  - rows[i].row.at.exit
            /\ 0 < Len(rows) /\ Len(rows) < q.limit => rows[1].height = OldEnd(q)

(* Nothing newer is hidden, whatever the limit: a page ends with the last   *)
(* height of the range, or of the index at that moment if it ends before,   *)
(* and is empty only when no indexed height is in the range (pool_history   *)
(* keeps the newest rows and only then puts them in ascending order).       *)
NothingNewerHidden ==
    [][ReadHistory =>
         LET rows == request'.seen.snapshots
             last == NewEnd(db, request.ask)
         IN  IF OldEnd(request.ask) <= last
             THEN rows # << >> /\ rows[Len(rows)].height = last
             ELSE rows = << >>]_vars
=============================================================================
