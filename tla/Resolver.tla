------------------------------- MODULE Resolver -------------------------------
(***************************************************************************)
(* The transaction resolver of one trace (resolver.py): which transaction  *)
(* spends an output, as told by an Electrum server.  One lookup takes many *)
(* questions, each over a connection of its own: the history of the        *)
(* output's script first, then the transactions it names, one by one.  In  *)
(* between, the server's chain and mempool go on: transactions confirm,    *)
(* are replaced, or lose their block to a reorganization.                  *)
(***************************************************************************)
EXTENDS Integers, FiniteSets

CONSTANTS
    Tx,             \* transaction ids
    Outpoint,       \* pairs <<txid, index>>
    Spent,          \* Spent[t]: the outpoints t spends
    ScriptOf,       \* ScriptOf[o]: the script of the output o names
    MayBe,          \* bound: MayBe[t]: the heights t is seen at, 0 for the
                    \* mempool, Gone for not held
    Gone,           \* not held
    HistoryLimit,   \* the history entries one lookup goes through: 100
    MaxMoves,       \* bound: the server's view changes this often
    None

ASSUME ResolverAssumption ==
    /\ \A o \in Outpoint : o[1] \in Tx
    /\ Spent \in [Tx -> SUBSET Outpoint]
    /\ \A t \in Tx : \A o \in Spent[t] : o[1] # t
    /\ \A t \in Tx : MayBe[t] \subseteq Nat \cup {Gone}
    /\ Gone \notin Nat

VARIABLES
    view,           \* the server: transaction -> height, 0 in the mempool
    moves,          \* how often the view changed
    transactions,   \* _transactions: those whose data was fetched
    spending,       \* _spending_transactions: outpoint -> {spender} or {}
    heights,        \* _transaction_heights: {height}, or {} for None or none
    ask,            \* the lookup in progress, or None
    failed,         \* TransactionResolutionError or a client error was raised
    witness         \* auxiliary: the spenders an output had when the history
                    \* of its script was read

memo == <<transactions, spending, heights>>
vars == <<view, moves, memo, ask, failed, witness>>

\* What a server may hold: no double spends, parents not after children.
Held(f) == {t \in Tx : f[t] # Gone}

Views ==
    {v \in {[t \in Held(f) |-> f[t]] : f \in [Tx -> UNION {MayBe[t] : t \in Tx}]} :
        /\ \A t \in Tx : IF t \in DOMAIN v THEN v[t] \in MayBe[t] ELSE Gone \in MayBe[t]
        /\ \A t, u \in DOMAIN v : t # u => Spent[t] \cap Spent[u] = {}
        /\ \A t \in DOMAIN v : \A o \in Spent[t] :
              /\ o[1] \in DOMAIN v
              /\ v[t] > 0 => v[o[1]] \in 1 .. v[t]}

History(v, script) ==
    {t \in DOMAIN v : \E o \in Outpoint :
        ScriptOf[o] = script /\ (o[1] = t \/ o \in Spent[t])}

Init ==
    /\ view \in Views
    /\ moves = 0
    /\ transactions = {}
    /\ spending = << >>
    /\ heights = [t \in Tx |-> {}]
    /\ ask = None
    /\ failed = FALSE
    /\ witness = << >>

-----------------------------------------------------------------------------
Move ==
    /\ moves < MaxMoves
    /\ view' \in Views \ {view}
    /\ moves' = moves + 1
    /\ UNCHANGED <<memo, ask, failed, witness>>

\* The height a history entry tells, if it is a block's.
Observed(v, t) == {h \in {v[t]} : h > 0}

\* Mutant: the later height replaces the earlier one.
NoConflict(v, t) == FALSE

Conflict(v, t) ==
    heights[t] # {} /\ Observed(v, t) # {} /\ heights[t] # Observed(v, t)

\* _remember_height of each of these entries.
Remembered(v, entries) ==
    [t \in Tx |-> IF t \in entries /\ Observed(v, t) # {} THEN Observed(v, t)
                  ELSE heights[t]]

Raise ==
    /\ failed' = TRUE /\ ask' = None
    /\ UNCHANGED <<view, moves, memo, witness>>

\* spending_transaction of an output not looked up before: its script's
\* history, read at one moment.  Remembered: the spenders of that moment.
Asking(o) == ~failed /\ ask = None /\ o \in Outpoint \ DOMAIN spending
                     /\ o[1] \in transactions

Ask(o) ==
    LET entries == History(view, ScriptOf[o])
    IN  /\ Asking(o)
        /\ Cardinality(entries) <= HistoryLimit
        /\ \A t \in entries : ~Conflict(view, t)
        /\ heights' = Remembered(view, entries)
        /\ ask' = [out |-> o, left |-> entries \ {o[1]}, found |-> {}]
        /\ witness' = [x \in DOMAIN witness \cup {o} |->
              IF x = o THEN {t \in DOMAIN view : o \in Spent[t]} ELSE witness[x]]
        /\ UNCHANGED <<view, moves, transactions, spending, failed>>

\* Refused before any entry is remembered.
AskRefused(o) ==
    /\ Asking(o)
    /\ Cardinality(History(view, ScriptOf[o])) > HistoryLimit
    /\ Raise

\* The entries that the server listed before the conflicting one, in
\* whatever order, are remembered.
AskConflicts(o) ==
    LET entries == History(view, ScriptOf[o])
    IN  /\ Asking(o)
        /\ Cardinality(entries) <= HistoryLimit
        /\ \E t \in entries : Conflict(view, t)
        /\ \E earlier \in SUBSET {t \in entries : ~Conflict(view, t)} :
              heights' = Remembered(view, earlier)
        /\ failed' = TRUE /\ ask' = None
        /\ UNCHANGED <<view, moves, transactions, spending, witness>>

\* transaction: from memory, or from the server as long as it has it.
Available(t) == t \in transactions \cup DOMAIN view

\* The next entry of the history, in whatever order the server listed them.
Candidate(t) ==
    /\ ask # None /\ t \in ask.left /\ Available(t)
    /\ transactions' = transactions \cup {t}
    /\ ask' = [ask EXCEPT !.left = @ \ {t},
                          !.found = @ \cup {u \in {t} : ask.out \in Spent[u]}]
    /\ UNCHANGED <<view, moves, spending, heights, failed, witness>>

\* Two spenders raise an error that no history of one view can cause.
Conclude ==
    /\ ask # None /\ ask.left = {} /\ Cardinality(ask.found) <= 1
    /\ spending' = [o \in DOMAIN spending \cup {ask.out} |->
                      IF o = ask.out THEN ask.found ELSE spending[o]]
    /\ ask' = None
    /\ UNCHANGED <<view, moves, transactions, heights, failed, witness>>

\* transaction, asked by the tracer, or by prevouts for a parent of a
\* transaction that it has.
Fetch(t) ==
    /\ ~failed /\ ask = None /\ t \notin transactions /\ Available(t)
    /\ transactions = {} \/ \E u \in transactions : \E o \in Spent[u] : o[1] = t
    /\ transactions' = transactions \cup {t}
    /\ UNCHANGED <<view, moves, spending, heights, ask, failed, witness>>

\* Mutant: an entry that cannot be fetched is passed over.
SkipEntry ==
    \/ /\ ask # None
       /\ \E t \in ask.left \ transactions : ask' = [ask EXCEPT !.left = @ \ {t}]
       /\ UNCHANGED <<view, moves, memo, failed, witness>>
    \/ ask = None /\ ~failed /\ Raise

\* The connection fails, the server no longer has the transaction, or it
\* answers with data that does not parse or has another id.
Fails ==
    /\ ~failed
    /\ ask # None => ask.left \ transactions # {}
    /\ Raise

Finished == failed /\ UNCHANGED vars

Next ==
    \/ Move
    \/ \E o \in Outpoint : Ask(o) \/ AskRefused(o) \/ AskConflicts(o)
    \/ \E t \in Tx : Candidate(t) \/ Fetch(t)
    \/ Conclude \/ Fails \/ Finished

Spec == Init /\ [][Next]_vars

-----------------------------------------------------------------------------
(* A lookup answers for one moment, although it asks many times: what is    *)
(* remembered as the spender of an output, or as its absence, was so in the *)
(* server's view when the history was read, whatever was replaced or        *)
(* confirmed before the last candidate came (spending_transaction).         *)
AnswerOfOneMoment ==
    \A o \in DOMAIN spending : spending[o] = witness[o]

(* The resolver never takes a height back: one that a reorganization        *)
(* changed under a trace ends it, since no report may mix the two           *)
(* (_remember_height, the conflict).                                        *)
HeightsKept ==
    [][\A t \in Tx : heights[t] # {} => heights'[t] = heights[t]]_vars
=============================================================================
