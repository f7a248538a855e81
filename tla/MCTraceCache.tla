---------------------------- MODULE MCTraceCache ----------------------------
(* TraceCache with two transactions, one of them asked for in two spellings *)
(* and with two limits: three keys for a table of one or two rows.          *)
EXTENDS TraceCache, TLC

MCSpelling == {"aa", "AA", "bb"}
MCLower == [s \in MCSpelling |-> IF s = "AA" THEN "aa" ELSE s]

Lim(n) == [max_depth |-> 8, max_transactions |-> 100,
           max_outputs |-> 250, max_history_lookups |-> n]
MCRequest == {[txid |-> "aa", limits |-> Lim(250)], [txid |-> "AA", limits |-> Lim(250)],
              [txid |-> "aa", limits |-> Lim(1)],   [txid |-> "bb", limits |-> Lim(250)]}

\* The digests order the keys in a way unrelated to their content.
MCRank == [k \in {Key(r) : r \in Request} |->
              (IF k.txid = "aa" THEN 2 ELSE 1)
                  + (IF k.max_history_lookups = 1 THEN 2 ELSE 0)]


Threads == Permutations(Thread)
=============================================================================
