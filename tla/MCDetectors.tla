---------------------------- MODULE MCDetectors ----------------------------
(***************************************************************************)
(* The detectors over every transaction that can be put together, output   *)
(* by output, of two families.  "W": from a few amounts around two pools'  *)
(* own, for a few choices of inputs, for the Whirlpool detector.  As among *)
(* DEFAULT_POOLS, a coordinator fee of the large pool is a premix amount   *)
(* of the small one, and another is its denomination; rounds have two or   *)
(* three inputs instead of five to eight.  "T": spends of five coins of    *)
(* three parents, with every choice of the inputs that are tracked, for    *)
(* the post-mix detectors.  Parent "R" is the round whose outputs are      *)
(* tracked, and the parent of child pays for parent.                       *)
(***************************************************************************)
EXTENDS Postmix

CONSTANTS
    MaxIns, MaxOuts     \* bounds: inputs and outputs of a transaction

VARIABLES
    tx,                 \* the transaction under construction
    prev,               \* the previous outputs that were resolved
    tracked             \* the outpoints known to be possible postmix

vars == <<tx, prev, tracked>>

Mixing == tx.txid = "W"
Spending == tx.txid = "T"

Out(v, type) == [value |-> v, type |-> type]

MCPoolDefs ==
    {[id |-> "small", denom |-> 10, fees |-> {3},      maxPremix |-> 2, maxReserve |-> 4],
     [id |-> "large", denom |-> 20, fees |-> {12, 10}, maxPremix |-> 2, maxReserve |-> 4]}

MixAmounts == {Out(v, "p2wpkh") : v \in {3, 6, 10, 11, 12, 21}}
MixOutputs == MixAmounts \cup {Out(0, "marker"), Out(6, "p2tr")}

\* Premix, remix, an amount of no pool, and a non-native input.
Named == [a |-> Out(11, "p2wpkh"), b |-> Out(10, "p2wpkh"), c |-> Out(10, "p2wpkh"),
          d |-> Out(60, "p2wpkh"), e |-> Out(11, "p2tr")]
Only(S) == [o \in S |-> Named[o]]

\* The inputs of a transaction and those of them that were resolved.
MixInputs ==
    {<<<<"a", "b">>, {"a", "b"}>>, <<<<"a", "b">>, {}>>, <<<<"a", "b">>, {"a"}>>,
     <<<<"a", "e">>, {"a", "e"}>>, <<<<"a", "b", "c">>, {"a", "b", "c"}>>,
     <<<<"d">>, {"d"}>>}

Ecdsa(r, hash) == [form |-> "ecdsa", r |-> r, hash |-> hash]

R(i) == <<"R", i>>
CoinSet == {R(1), R(2), <<"Q", 1>>, <<"Q", 2>>, <<"S", 1>>}

Coins == [o \in CoinSet |->
            CASE o[1] = "R"    -> Out(5, "p2wpkh")
              [] o = <<"Q", 1>> -> Out(7, "p2wpkh")
              [] o = <<"Q", 2>> -> Out(2, "p2tr")
              [] o[1] = "S"    -> Out(1, "p2wpkh")]

PrintOf == [o \in CoinSet |->
              CASE o \in {R(1), <<"Q", 1>>} -> [seq |-> 0, sig |-> Ecdsa(32, 1)]
                [] o = R(2)       -> [seq |-> 0, sig |-> Ecdsa(33, 1)]
                [] o = <<"Q", 2>>  -> [seq |-> 0, sig |-> [form |-> "default"]]
                [] o[1] = "S"     -> [seq |-> 1, sig |-> Unparsed]]

SpendOutputs == {Out(1, "p2wpkh"), Out(4, "p2wpkh"), Out(5, "p2tr"), Out(0, "op_return")}

\* The round: two inputs and outputs of 5, and a fee of 2 over a size of 2.
Round == [txid |-> "R", ins |-> <<<<"P", 1>>, <<"P", 2>>>>, vsize |-> 2,
          outs |-> <<Out(5, "p2wpkh"), Out(5, "p2wpkh")>>]
RoundPrev == [o \in InSet(Round) |-> Out(6, "p2wpkh")]

Init ==
    /\ \/ \E s \in MixInputs :
             /\ tx = [txid |-> "W", ins |-> s[1], outs |-> << >>, vsize |-> 1,
                      prints |-> [i \in DOMAIN s[1] |-> PrintOf[R(1)]]]
             /\ prev = Only(s[2])
       \/ \E size \in {1, 3} :
             /\ tx = [txid |-> "T", ins |-> << >>, outs |-> << >>, vsize |-> size,
                      prints |-> << >>]
             /\ prev = << >>
    /\ tracked = {}

AddInput(o) ==
    /\ Spending /\ Len(tx.ins) < MaxIns /\ o \notin InSet(tx)
    /\ tx' = [tx EXCEPT !.ins = Append(@, o), !.prints = Append(@, PrintOf[o])]
    /\ prev' = [p \in DOMAIN prev \cup {o} |-> Coins[p]]
    /\ UNCHANGED tracked

\* The outputs of a spend come in order of their values: its detectors ask
\* which outputs there are, not where.
AddOutput(out) ==
    /\ Len(tx.outs) < MaxOuts
    /\ out \in IF Mixing THEN MixOutputs ELSE SpendOutputs
    /\ Spending => \A i \in OutsOf(tx) : tx.outs[i].value <= out.value
    /\ tx' = [tx EXCEPT !.outs = Append(@, out)]
    /\ UNCHANGED <<prev, tracked>>

Track(o) ==
    /\ Spending /\ o \notin tracked
    /\ tracked' = tracked \cup {o}
    /\ UNCHANGED <<tx, prev>>

Swapped(f, i) == [f EXCEPT ![i] = f[i + 1], ![i + 1] = f[i]]

SwapInputs(i) ==
    /\ tx' = [tx EXCEPT !.ins = Swapped(@, i), !.prints = Swapped(@, i)]
    /\ UNCHANGED <<prev, tracked>>

SwapOutputs(i) ==
    /\ Mixing
    /\ tx' = [tx EXCEPT !.outs = Swapped(@, i)]
    /\ UNCHANGED <<prev, tracked>>

Next ==
    \/ \E o \in CoinSet : AddInput(o)
    \/ \E out \in MixOutputs \cup SpendOutputs : AddOutput(out)
    \/ \E o \in {R(1), R(2)} : Track(o)
    \/ \E i \in 1 .. Len(tx.ins) - 1 : SwapInputs(i)
    \/ \E i \in 1 .. Len(tx.outs) - 1 : SwapOutputs(i)

Spec == Init /\ [][Next]_vars

-----------------------------------------------------------------------------
Verdict == Detect(tx, prev)
PayjoinNow == Payjoin(tx, prev, tracked)
CpfpNow == Cpfp(Round, RoundPrev, tx, prev, tracked, {100}, {100})
StonewallNow == Stonewall(tx, prev, tracked)

WithRole(v, role) == {i \in DOMAIN v.roles : v.roles[i] = role}

\* A marker, a fee, equal premix outputs within the limit, and at most change.
Tx0Explained(t, v) ==
    v.kind = "tx0" /\ v.conf = "high" =>
      /\ Cardinality(WithRole(v, "op_return")) = 1
      /\ Cardinality(WithRole(v, "coordinator_fee")) = 1
      /\ Cardinality(WithRole(v, "doxxic_change")) <= 1
      /\ WithRole(v, "unclassified") = {}
      /\ \E p \in PoolDefs : /\ p.id = v.pool
                             /\ Cardinality(WithRole(v, "premix")) \in 1 .. p.maxPremix
                             /\ v.entered = Cardinality(WithRole(v, "premix")) * p.denom
      /\ Cardinality({t.outs[i].value : i \in WithRole(v, "premix")}) = 1

\* Of the shape of a pool's round, with nothing known against it.
Mixes(t, known, p) ==
    /\ Len(t.ins) = Len(t.outs) /\ Len(t.ins) \in RoundSizes
    /\ \A i \in OutsOf(t) : t.outs[i] = Out(p.denom, "p2wpkh")
    /\ DOMAIN known # {} =>
         /\ \A i \in InsOf(t) :
               /\ t.ins[i] \in DOMAIN known
               /\ Native(known[t.ins[i]])
               /\ known[t.ins[i]].value - p.denom \in 0 .. p.maxReserve
         /\ OutputTotal(t) <= MaxMoney /\ InputTotal(t, known) <= MaxMoney

RoundsExact(t, known, v) ==
    /\ v.kind = "whirlpool_round" <=> \E p \in PoolDefs : Mixes(t, known, p)
    /\ \A p \in PoolDefs : Mixes(t, known, p) => v.pool = p.id

(* A Tx0 verdict of high confidence accounts for every output, and a        *)
(* transaction is called a round exactly when all its outputs are one       *)
(* pool's denomination and nothing known of its inputs speaks against it:   *)
(* no Tx0 verdict, of the same or of another pool, gets in the way          *)
(* (_tx0_candidates, _round_candidates; detect_whirlpool tries Tx0 first).  *)
VerdictsExplained ==
    Mixing => Tx0Explained(tx, Verdict) /\ RoundsExact(tx, prev, Verdict)

(* The order of the outputs and of the inputs decides nothing: each output  *)
(* takes its role along (the candidates are built in output order).         *)
RolesFollow ==
    [][Mixing =>
       /\ \A i \in 1 .. Len(tx.outs) - 1 : SwapOutputs(i) =>
             Verdict' = [Verdict EXCEPT !.roles = Swapped(@, i), !.confs = Swapped(@, i)]
       /\ \A i \in 1 .. Len(tx.ins) - 1 : SwapInputs(i) => Verdict' = Verdict]_vars

Total(S, known) == SumOf([o \in S |-> known[o].value])

\* UIH2: some of the inputs, not all, could have paid for the larger output
\* and the fee; UIH1: for the smaller one only.
UnnecessaryReal(t, known, e) ==
    LET Pays(v) == \E S \in (SUBSET InSet(t)) \ {InSet(t)} :
                      Total(S, known) >= v + MinerFee(t, known)
        amounts == {t.outs[i].value : i \in OutsOf(t)}
    IN  /\ e.uih = "uih2" <=> Pays(Max(amounts))
        /\ e.uih = "uih1" <=> Pays(Min(amounts)) /\ ~Pays(Max(amounts))

\* Child and package pay a higher rate than the parent alone, and the package
\* a lower one than the child.
PackageRaised(pfee, psize, cfee, csize) ==
    LET Higher(f1, s1, f2, s2) == f1 * s2 > f2 * s1
    IN  /\ Higher(cfee, csize, pfee, psize)
        /\ Higher(pfee + cfee, psize + csize, pfee, psize)
        /\ Higher(cfee, csize, pfee + cfee, psize + csize)

(* Numbers in a verdict are true.  The unnecessary-input verdicts compare   *)
(* with all inputs but the smallest and agree with a search over all sets   *)
(* of inputs: without a verdict, no input can be left out.  The rates of a  *)
(* child-pays-for-parent verdict are ordered as it says                     *)
(* (detect_payjoin_fingerprints, detect_whirlpool_cpfp).                    *)
VerdictsTrue ==
    Spending =>
      /\ \A e \in PayjoinNow : UnnecessaryReal(tx, prev, e)
      /\ CpfpNow # {} => PackageRaised(MinerFee(Round, RoundPrev), Round.vsize,
                                      MinerFee(tx, prev), tx.vsize)

(* Neither the order of the inputs nor, once a spend is suspected of being  *)
(* a Stonewall, the discovery of another tracked input changes the verdicts *)
(* except for the inputs they name: what a trace finds first does not       *)
(* decide (detect_stonewall, detect_payjoin_fingerprints).                  *)
OrderFree ==
    [][Spending =>
       /\ \A i \in 1 .. Len(tx.ins) - 1 : SwapInputs(i) =>
             PayjoinNow' = PayjoinNow /\ StonewallNow' = StonewallNow /\ CpfpNow' = CpfpNow
       /\ \A o \in {R(1), R(2)}, s \in StonewallNow : Track(o) =>
             StonewallNow' = {[s EXCEPT !.tracked = @ \cup ({o} \cap InSet(tx))]}]_vars
=============================================================================
