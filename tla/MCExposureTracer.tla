--------------------------- MODULE MCExposureTracer ---------------------------
(***************************************************************************)
(* A graph in which every branch of the walk is taken.  A is a Tx0; R1 and *)
(* R3 are rounds its premix outputs enter, and its change is spent by the  *)
(* later Tx0 B.  R2 and R5 are remixes that can be reached along ways of   *)
(* different lengths.  K consolidates outputs of R3 and R5 and pays for R3 *)
(* as its child; P spends K's payment.  E is the entry of a Ricochet with  *)
(* the hops H1 to H4 and is reached at two depths; W is a Stonewall, J a   *)
(* Payjoin.                                                                *)
(* Amounts are small: the denomination is 10, the pool fee 3, the Ricochet *)
(* service fee 4.                                                          *)
(***************************************************************************)
EXTENDS ExposureTracer, TLC

MCPoolDefs == {[id |-> "pool", denom |-> 10, fees |-> {3}, maxPremix |-> 2, maxReserve |-> 2]}

Out(v, script) == [value |-> v, type |-> "p2wpkh", script |-> script]
Marker == [value |-> 0, type |-> "marker", script |-> "marker"]
Mixed(script) == Out(10, script)

\* Coins from outside the graph.
Coins == (<<"X", 1>> :> Out(60, "x1")) @@ (<<"X", 2>> :> Out(11, "x2"))
      @@ (<<"X", 3>> :> Out(10, "x3")) @@ (<<"X", 4>> :> Out(11, "x4"))
      @@ (<<"X", 5>> :> Out(10, "x5")) @@ (<<"Y", 1>> :> Out(9, "y1"))
      @@ (<<"Y", 2>> :> Out(9, "y2"))

T(ins, outs, vsize) == [ins |-> ins, outs |-> outs, vsize |-> vsize]

Graph ==
    [A  |-> T(<<<<"X", 1>>>>,
              <<Marker, Out(3, "fee"), Out(11, "a3"), Out(11, "a4"), Out(30, "a5")>>, 2),
     B  |-> T(<<<<"A", 5>>>>, <<Marker, Out(3, "b2"), Out(11, "a4"), Out(14, "b4")>>, 2),
     R1 |-> T(<<<<"A", 4>>, <<"X", 2>>, <<"X", 3>>>>,
              <<Mixed("r11"), Mixed("r12"), Mixed("r13")>>, 3),
     R3 |-> T(<<<<"A", 3>>, <<"X", 4>>, <<"X", 5>>>>,
              <<Mixed("r31"), Mixed("r32"), Mixed("fee")>>, 3),
     R2 |-> T(<<<<"R1", 2>>, <<"B", 3>>>>, <<Mixed("r21"), Mixed("r22")>>, 2),
     R5 |-> T(<<<<"R2", 2>>, <<"R3", 2>>>>, <<Mixed("r51"), Mixed("r52")>>, 2),
     K  |-> T(<<<<"R3", 1>>, <<"R3", 3>>, <<"R5", 1>>>>, <<Out(26, "k1")>>, 2),
     P  |-> T(<<<<"K", 1>>>>, <<Out(25, "p1")>>, 1),
     E  |-> T(<<<<"R1", 1>>, <<"R2", 1>>>>,
              <<Out(4, "e1"), Out(9, "e2"), Out(6, "e3")>>, 2),
     H1 |-> T(<<<<"E", 2>>>>, <<Out(8, "h1")>>, 1),
     H2 |-> T(<<<<"H1", 1>>>>, <<Out(7, "h2")>>, 1),
     H3 |-> T(<<<<"H2", 1>>>>, <<Out(6, "h3")>>, 1),
     H4 |-> T(<<<<"H3", 1>>>>, <<Out(5, "h4")>>, 1),
     W  |-> T(<<<<"R5", 2>>, <<"Y", 1>>>>,
              <<Out(7, "r11"), Out(7, "w2"), Out(2, "w3"), Out(1, "w4")>>, 2),
     J  |-> T(<<<<"R1", 3>>, <<"Y", 2>>>>, <<Out(13, "j1"), Out(5, "j2")>>, 2)]

MCTx == DOMAIN Graph

\* Inputs differ in their sequence numbers: the first of each is final.
MCBody ==
    [t \in MCTx |->
       [txid |-> t, ins |-> Graph[t].ins, outs |-> Graph[t].outs, vsize |-> Graph[t].vsize,
        prints |-> [i \in DOMAIN Graph[t].ins |->
                      [seq |-> IF i = 1 THEN 1 ELSE 0, sig |-> [form |-> "none"]]]]]

MCOutputAt ==
    Coins @@ [o \in UNION {{<<t, i>> : i \in DOMAIN Graph[t].outs} : t \in MCTx}
                |-> Graph[o[1]].outs[o[2]]]

\* R3 and its child K are in one block; P is unconfirmed.
MCConfirmedIn ==
    [t \in MCTx |-> CASE t \in {"R3", "K"} -> {2} [] t = "P" -> {} [] OTHER -> {1}]

MCLimitChoices ==
    [depth : {2, 3, 6, 8}, transactions : {3, 20},
     outputs : {9, 22, 40}, lookups : {10, 40}]
=============================================================================
