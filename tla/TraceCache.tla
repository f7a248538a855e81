----------------------------- MODULE TraceCache -----------------------------
(***************************************************************************)
(* The report cache (cache.py) and the POST /api/trace endpoint that uses  *)
(* it (web.py).  The endpoint is a plain function, so requests run in      *)
(* worker threads and their SQLite transactions interleave; the clock is   *)
(* time.time(), which an operator or NTP may set back.                     *)
(***************************************************************************)
EXTENDS Integers, FiniteSets

CONSTANTS
    Thread,         \* worker threads, one request at a time each
    Spelling,       \* the spellings of transaction ids a client may send
    Lower,          \* Lower[s]: s in lower case
    Request,        \* what clients may ask for: [txid, limits]
    Rank,           \* Rank[k]: position of the key's digest in text order
    Ttl,            \* settings.ttl_seconds
    MaxEntries,     \* settings.max_entries
    MaxClock,       \* bound: the clock stays in 0 .. MaxClock
    Damaged,        \* a stored report that is not a JSON object
    None

\* TraceLimits, field by field: the key names each of the four.
LimitFields == [max_depth : Nat, max_transactions : Nat,
                max_outputs : Nat, max_history_lookups : Nat]

ASSUME RequestAssumption == Request \subseteq [txid : Spelling, limits : LimitFields]
ASSUME BoundAssumption ==
    Ttl \in Nat \ {0} /\ MaxEntries \in Nat \ {0} /\ MaxClock \in Nat

VARIABLES
    table,          \* trace_reports: rows [key, created_at, report]
    clock,          \* what int(time.time()) reads
    enabled,        \* create_app built a cache
    thread          \* thread[t]: the progress of the request it serves

vars == <<table, clock, enabled, thread>>

\* The report of a traced transaction: what it is a report of.
ReportOf(r) == [txid |-> Lower[r.txid], limits |-> r.limits]

\* Mutant: the key does not depend on one of the limits.
KeyWithoutLookups(r) ==
    [txid |-> Lower[r.txid], max_depth |-> r.limits.max_depth,
     max_transactions |-> r.limits.max_transactions,
     max_outputs |-> r.limits.max_outputs,
     max_history_lookups |-> 1]

\* _make_cache_key; SHA-256 is injective on the keys that ever occur.
Key(r) ==
    [txid |-> Lower[r.txid], max_depth |-> r.limits.max_depth,
     max_transactions |-> r.limits.max_transactions,
     max_outputs |-> r.limits.max_outputs,
     max_history_lookups |-> r.limits.max_history_lookups]

\* What a request may ask for, as the cache sees it.
Keys == {Key(r) : r \in Request}
Reports == {ReportOf(r) : r \in Request}

\* Digests of different keys differ, and None is none of the headers.
ASSUME RankAssumption ==
    \A k, l \in Keys : Rank[k] \in Int /\ (Rank[k] = Rank[l] => k = l)
ASSUME HeaderAssumption == None \notin {"HIT", "MISS", "BYPASS", "502"}

Idle == [at |-> "idle", req |-> None, time |-> 0, bypassed |-> FALSE,
         report |-> None, header |-> None]

Init ==
    /\ table = {}
    /\ clock = 0
    /\ enabled \in BOOLEAN
    /\ thread = [t \in Thread |-> Idle]

-----------------------------------------------------------------------------
(* The table. *)

RowsOf(k) == {row \in table : row.key = k}

\* get refuses a row: too old at this time, or not a JSON object.
Refused(row, now) == row.report = Damaged \/ now - row.created >= Ttl

\* Mutant: put keeps the row whose age is exactly Ttl.
OutdatedStrictly(row, now) == row.created < now - Ttl

\* put's own expiry comparison.
Outdated(row, now) == row.created <= now - Ttl

\* ORDER BY created_at ASC, cache_key ASC
Before(a, b) ==
    \/ a.created < b.created
    \/ a.created = b.created /\ Rank[a.key] < Rank[b.key]

\* Mutant: one row too many is kept.
OldestButOne(rows) ==
    {row \in rows : Cardinality({r \in rows : Before(r, row)}) + 1
                        < Cardinality(rows) - MaxEntries}

\* The rows in excess of max_entries, oldest first.
Oldest(rows) ==
    {row \in rows : Cardinality({r \in rows : Before(r, row)})
                        < Cardinality(rows) - MaxEntries}

\* Mutant: put inserts beside the row its key already has.
StoredBeside(row) ==
    LET fresh == {r \in table \cup {row} : ~Outdated(r, row.created)}
    IN  fresh \ Oldest(fresh)

\* The table after put stored a row: replace, expire, prune, in one COMMIT.
Stored(row) ==
    LET replaced == {r \in table : r.key # row.key} \cup {row}
        fresh    == {r \in replaced : ~Outdated(r, row.created)}
    IN  fresh \ Oldest(fresh)

-----------------------------------------------------------------------------
(* The endpoint.  A CacheError on either side bypasses the cache. *)

Goes(t, s) == thread' = [thread EXCEPT ![t] = s]

\* The request arrives; get reads the clock before it opens the database.
Receive(t, r) ==
    /\ thread[t].at \in {"idle", "answered"}
    /\ Goes(t, [Idle EXCEPT !.at = IF enabled THEN "select" ELSE "service",
                            !.req = r, !.bypassed = ~enabled, !.time = clock])
    /\ UNCHANGED <<table, clock, enabled>>

\* get finds no row.
Absent(t) ==
    /\ thread[t].at = "select"
    /\ RowsOf(Key(thread[t].req)) = {}
    /\ Goes(t, [thread[t] EXCEPT !.at = "service", !.time = 0])
    /\ UNCHANGED <<table, clock, enabled>>

\* get finds a row it may serve.
Hit(t) ==
    /\ thread[t].at = "select"
    /\ \E row \in RowsOf(Key(thread[t].req)) :
          /\ ~Refused(row, thread[t].time)
          /\ Goes(t, [thread[t] EXCEPT !.at = "answered", !.header = "HIT",
                                       !.time = 0, !.report = row.report])
    /\ UNCHANGED <<table, clock, enabled>>

\* get finds a row it must not serve; _delete is a transaction of its own.
Refuse(t) ==
    /\ thread[t].at = "select"
    /\ \E row \in RowsOf(Key(thread[t].req)) : Refused(row, thread[t].time)
    /\ Goes(t, [thread[t] EXCEPT !.at = "delete"])
    /\ UNCHANGED <<table, clock, enabled>>

\* Mutant: the deletion sweeps whatever it thinks too old.
DeleteOutdated(t) ==
    /\ thread[t].at = "delete"
    /\ table' = {row \in table : ~Refused(row, thread[t].time)}
    /\ Goes(t, [thread[t] EXCEPT !.at = "service", !.time = 0])
    /\ UNCHANGED <<clock, enabled>>

\* _delete by key: whatever row the key has by now.
Delete(t) ==
    /\ thread[t].at = "delete"
    /\ table' = table \ RowsOf(Key(thread[t].req))
    /\ Goes(t, [thread[t] EXCEPT !.at = "service", !.time = 0])
    /\ UNCHANGED <<clock, enabled>>

\* The database cannot be opened, read or written: get raises CacheError.
GetFails(t) ==
    /\ thread[t].at \in {"select", "delete"}
    /\ Goes(t, [thread[t] EXCEPT !.at = "service", !.time = 0,
                                 !.bypassed = TRUE])
    /\ UNCHANGED <<table, clock, enabled>>

\* The service returns a report; put reads the clock before it writes.
Trace(t) ==
    /\ thread[t].at = "service"
    /\ Goes(t, IF thread[t].bypassed
               THEN [thread[t] EXCEPT !.at = "answered", !.header = "BYPASS",
                                      !.report = ReportOf(thread[t].req)]
               ELSE [thread[t] EXCEPT !.at = "put", !.time = clock,
                                      !.report = ReportOf(thread[t].req)])
    /\ UNCHANGED <<table, clock, enabled>>

\* The service raises: 502, nothing is cached.
TraceFails(t) ==
    /\ thread[t].at = "service"
    /\ Goes(t, [thread[t] EXCEPT !.at = "answered", !.header = "502"])
    /\ UNCHANGED <<table, clock, enabled>>

Put(t) ==
    /\ thread[t].at = "put"
    /\ table' = Stored([key     |-> Key(thread[t].req),
                        created |-> thread[t].time,
                        report  |-> thread[t].report])
    /\ Goes(t, [thread[t] EXCEPT !.at = "answered", !.time = 0,
                                 !.header = "MISS"])
    /\ UNCHANGED <<clock, enabled>>

\* The transaction of put is rolled back: CacheError.
PutFails(t) ==
    /\ thread[t].at = "put"
    /\ Goes(t, [thread[t] EXCEPT !.at = "answered", !.time = 0,
                                 !.header = "BYPASS"])
    /\ UNCHANGED <<table, clock, enabled>>

-----------------------------------------------------------------------------
(* The environment. *)

\* Time passes, or the clock is set back.
ClockMoves ==
    /\ \/ clock < MaxClock /\ clock' = clock + 1
       \/ clock > 0 /\ clock' = clock - 1
    /\ UNCHANGED <<table, enabled, thread>>

\* A stored report becomes unreadable; get has a case for it.
Damage(row) ==
    /\ row.report # Damaged
    /\ table' = (table \ {row}) \cup {[row EXCEPT !.report = Damaged]}
    /\ UNCHANGED <<clock, enabled, thread>>

\* The server restarts: requests are lost, the file stays.  create_app builds
\* the cache again, or goes without when it cannot be initialised.
Restart ==
    /\ thread' = [t \in Thread |-> Idle]
    /\ enabled' \in BOOLEAN
    /\ UNCHANGED <<table, clock>>

Next ==
    \/ \E t \in Thread :
          \/ \E r \in Request : Receive(t, r)
          \/ Absent(t) \/ Hit(t) \/ Refuse(t) \/ Delete(t) \/ GetFails(t)
          \/ Trace(t) \/ TraceFails(t) \/ Put(t) \/ PutFails(t)
    \/ ClockMoves
    \/ \E row \in table : Damage(row)
    \/ Restart

Spec == Init /\ [][Next]_vars

-----------------------------------------------------------------------------
Row == [key : Keys, created : Nat, report : Reports \cup {Damaged}]

Progress ==
    [at       : {"idle", "select", "delete", "service", "put", "answered"},
     req      : Request \cup {None},
     time     : Nat,
     bypassed : BOOLEAN,
     report   : Reports \cup {Damaged, None},
     header   : {"HIT", "MISS", "BYPASS", "502", None}]

ThreadOK(s) ==
    /\ s \in Progress
    /\ s.at # "idle" => s.req \in Request
    /\ s.at = "put" => s.report \in Reports

(* Types of the table and of the requests in progress; cache_key is the     *)
(* primary key of trace_reports, so no key has two rows.                    *)
TypeOK ==
    /\ clock \in Nat /\ enabled \in BOOLEAN
    /\ table \subseteq Row
    /\ \A a, b \in table : a.key = b.key => a = b
    /\ thread \in [Thread -> Progress]
    /\ \A t \in Thread : ThreadOK(thread[t])

(* However the puts of concurrent requests interleave with deletions, the   *)
(* table never holds more than max_entries reports (put: the excess is      *)
(* counted and pruned in the transaction that inserts).                     *)
AtMostMaxEntries == Cardinality(table) <= MaxEntries

(* A report served from the cache is readable and is the report of the very *)
(* transaction and limits asked for, however the id was spelled and         *)
(* whatever was stored, damaged or deleted in between (_make_cache_key).    *)
HitIsRight ==
    \A t \in Thread :
        thread[t].at = "answered" /\ thread[t].header = "HIT" =>
            thread[t].report = ReportOf(thread[t].req)

\* A put in this step, by the thread t.
Puts(t) == thread[t].at = "put" /\ thread'[t].header = "MISS"

(* A put leaves no readable report that a get at the time it read would     *)
(* refuse, and takes none that such a get would serve unless it replaces it *)
(* or the table was full: the two expiry comparisons agree (get, put).      *)
ExpiriesAgree ==
    [][\A t \in Thread : Puts(t) =>
         LET now   == thread[t].time
             Taken == {r \in table \ table' : r.key # Key(thread[t].req)}
         IN  /\ \A r \in table' : r.report # Damaged => ~Refused(r, now)
             /\ (\E r \in Taken : ~Refused(r, now)) =>
                    Cardinality(table') = MaxEntries
             /\ \A r \in Taken, k \in table' :
                    ~Refused(r, now) => r.created <= k.created]_vars

(* Apart from puts and from damage, a row leaves the table only when a get  *)
(* of its own key found that key's row damaged or expired: a request never  *)
(* costs another transaction its cached report (_delete).                   *)
OnlyOwnKeyDropped ==
    [][\A row \in table \ table' :
          \/ \E t \in Thread : Puts(t)
          \/ \E t \in Thread : thread[t].at = "delete" /\ Key(thread[t].req) = row.key
          \/ \E r \in table' : r.key = row.key /\ r.report = Damaged]_vars

(* README: "MISS: live analysis stored successfully".  A request answered   *)
(* with MISS in this step has left its report in the table (put).           *)
MissIsStored ==
    [][\A t \in Thread : Puts(t) =>
          \E row \in table' : row.key = Key(thread[t].req)]_vars
=============================================================================
