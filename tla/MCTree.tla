------------------------------- MODULE MCTree -------------------------------
(***************************************************************************)
(* A small block tree for model checking: one root with two branches that  *)
(* share transactions, and a second root for a reorganization across the   *)
(* start height.  Rounds have two inputs instead of five to eight.         *)
(***************************************************************************)
EXTENDS ChainLedger

MCPools == {"p1", "p2"}
MCDenom == [p1 |-> 10, p2 |-> 20]
MCStandard == [p1 |-> 5, p2 |-> 7]
MCLegacy == {"p1"}

\* Value and script of every output that can matter to the index.
Outputs == [
    a1 |-> <<10, "x">>, a2 |-> <<10, "x">>, af |-> <<5, "s1">>,
    b1 |-> <<20, "x">>, bf |-> <<7, "s2">>,
    c1 |-> <<10, "x">>, c2 |-> <<10, "x">>,
    c3 |-> <<3, "s1">>, c4 |-> <<4, "s3">>,
    d1 |-> <<10, "x">>, df |-> <<2, "s3">>,
    m1 |-> <<10, "x">>, m2 |-> <<10, "x">>,
    n1 |-> <<10, "x">>, n2 |-> <<10, "x">>,
    k1 |-> <<10, "x">>, k2 |-> <<10, "x">>,
    u  |-> <<10, "x">> ]

MCOutpoint == DOMAIN Outputs
MCValue == [o \in MCOutpoint |-> Outputs[o][1]]
MCScript == [o \in MCOutpoint |-> Outputs[o][2]]

Tx(txid, kind, pool, ins, role, fee) ==
    [txid |-> txid, kind |-> kind, pool |-> pool, resolved |-> TRUE,
     ins |-> ins, outs |-> DOMAIN role, role |-> role, minerFee |-> fee]

Tx0A == Tx("A", "tx0", "p1", {}, [a1 |-> "premix", a2 |-> "premix", af |-> "fee"], 1)
Tx0B == Tx("B", "tx0", "p2", {}, [b1 |-> "premix", bf |-> "fee"], 1)
\* A discounted fee: c3 is recognised by its script if s1 is known, and by
\* amount only if c4 were not below the standard fee as well.
Tx0C == Tx("C", "tx0", "p1", {}, [c1 |-> "premix", c2 |-> "premix",
                                  c3 |-> "residual", c4 |-> "residual"], 1)
\* A discounted fee recognised by its amount alone.
Tx0D == Tx("D", "tx0", "p1", {}, [d1 |-> "premix", df |-> "residual"], 1)
RoundM == Tx("M", "round", "p1", {"a1", "a2"}, [m1 |-> "mix", m2 |-> "mix"], 1)
RoundN == Tx("N", "round", "p1", {"a1", "c1"}, [n1 |-> "mix", n2 |-> "mix"], 1)
\* One input was created before the start height: no rollover.
RoundK == Tx("K", "round", "p1", {"u", "m1"}, [k1 |-> "mix", k2 |-> "mix"], 1)
ExitBoth == Tx("E", "none", None, {"b1", "c2"}, << >>, 1)
ExitC2 == Tx("F", "none", None, {"c2"}, << >>, 1)
PayAf == Tx("P", "none", None, {"af"}, << >>, 2)
PayAfU == Tx("Q", "none", None, {"af", "u"}, << >>, 2)
PayC3 == Tx("R", "none", None, {"c3", "bf"}, << >>, 3)

Tree == [
    r1 |-> <<None, 1, <<Tx0A>>>>,
    a2 |-> <<"r1", 2, <<Tx0B, RoundM, PayAf>>>>,
    a3 |-> <<"a2", 3, <<Tx0C, RoundK, ExitBoth, PayC3>>>>,
    b2 |-> <<"r1", 2, <<PayAfU, Tx0D, Tx0C, ExitC2>>>>,
    b3 |-> <<"b2", 3, <<Tx0B, RoundN>>>>,
    z1 |-> <<None, 1, <<Tx0C>>>>,
    z2 |-> <<"z1", 2, <<Tx0D, ExitC2>>>> ]

MCBlock == DOMAIN Tree
MCParent == [b \in MCBlock |-> Tree[b][1]]
MCHeight == [b \in MCBlock |-> Tree[b][2]]
MCTxs == [b \in MCBlock |-> Tree[b][3]]

\* What ChainLedger's assumptions leave open of a tree Bitcoin could have:
\* along a branch no output is spent twice or before it is created.
Branch[b \in MCBlock] ==
    IF MCParent[b] = None THEN MCTxs[b] ELSE Branch[MCParent[b]] \o MCTxs[b]

ASSUME TreeIsValid ==
    \A b \in MCBlock :
        LET txs == Branch[b]
        IN  \A i, j \in 1 .. Len(txs) :
               /\ i # j => txs[i].ins \cap txs[j].ins = {}
               /\ txs[i].ins \subseteq {"u"} \cup
                    UNION {txs[k].outs : k \in 1 .. i - 1}
=============================================================================
