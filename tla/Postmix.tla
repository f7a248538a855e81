------------------------------- MODULE Postmix -------------------------------
(***************************************************************************)
(* The detectors of postmix.py: shapes that the spend of a possible        *)
(* Whirlpool output may have.  Pure operators; each returns the set of its *)
(* verdicts, empty for None and otherwise with one element.                *)
(*                                                                         *)
(* A transaction is [txid, ins, prints, outs, vsize]: the outpoints        *)
(* <<txid, index>> it spends, what can be seen of each input (its sequence *)
(* number and the form of its signature), and its outputs [value, type].   *)
(* prev maps outpoints to the outputs they name.  No transaction here is a *)
(* coinbase: a coinbase spends nothing that a trace follows.               *)
(***************************************************************************)
EXTENDS Whirlpool

CONSTANT
    ServiceFee      \* RICOCHET_SERVICE_FEE_SATS

\* Marks of a signature: no signature that can be parsed, or its r length and
\* hash type (ECDSA), or the form of a Taproot signature.
Unparsed == [form |-> "none"]
IsEcdsa(sig) == sig.form = "ecdsa"
IsTaproot(sig) == sig.form \in {"default", "explicit"}

Spendable == {"p2pkh", "p2sh", "p2wpkh", "p2wsh", "p2tr"}
Unspendable == {"op_return", "marker"}

InSet(t) == {t.ins[i] : i \in InsOf(t)}

Distinct(t) == Cardinality(InSet(t)) = Len(t.ins)
Parents(t) == {o[1] : o \in InSet(t)}

\* _bounded_sum on both sides: every value and both totals within the money
\* limit, and the outputs funded.
Funded(t, prev) ==
    /\ \A i \in InsOf(t) : prev[t.ins[i]].value \in 0 .. MaxMoney
    /\ \A i \in OutsOf(t) : t.outs[i].value \in 0 .. MaxMoney
    /\ InputTotal(t, prev) <= MaxMoney /\ OutputTotal(t) <= InputTotal(t, prev)

\* Several inputs of several parents, all of them known.
JoinsCoins(t, prev) ==
    /\ Len(t.ins) >= 2 /\ Distinct(t) /\ Cardinality(Parents(t)) >= 2
    /\ DOMAIN prev = InSet(t)

-----------------------------------------------------------------------------
(* Payjoin / Cahoots fingerprints. *)

\* Mutant: an input is unnecessary only if the outputs are overfunded.
UnnecessaryStrictly(t, prev) ==
    LET values   == {prev[t.ins[i]].value : i \in InsOf(t)}
        amounts  == {t.outs[i].value : i \in OutsOf(t)}
        capacity == InputTotal(t, prev) - Min(values)
    IN  IF capacity > Max(amounts) + MinerFee(t, prev) THEN "uih2"
        ELSE IF capacity > Min(amounts) + MinerFee(t, prev) THEN "uih1"
        ELSE "none"

\* What all inputs but the smallest could have paid: both outputs' fee and
\* the larger output (UIH2), or only the smaller one (UIH1).
Unnecessary(t, prev) ==
    LET values   == {prev[t.ins[i]].value : i \in InsOf(t)}
        amounts  == {t.outs[i].value : i \in OutsOf(t)}
        capacity == InputTotal(t, prev) - Min(values)
    IN  IF capacity >= Max(amounts) + MinerFee(t, prev) THEN "uih2"
        ELSE IF capacity >= Min(amounts) + MinerFee(t, prev) THEN "uih1"
        ELSE "none"

\* The dimensions that can be compared, each with its value per input.
Dimensions(t, prev) ==
    LET types  == [i \in InsOf(t) |-> prev[t.ins[i]].type]
        ecdsa  == \A i \in InsOf(t) :
                     types[i] \in {"p2wpkh", "p2pkh"} /\ IsEcdsa(t.prints[i].sig)
        schnorr == \A i \in InsOf(t) :
                     types[i] = "p2tr" /\ IsTaproot(t.prints[i].sig)
        Dim(name, known, f) == {[name |-> name, of |-> g] : g \in {x \in {f} : known}}
    IN  Dim("prevout_script_type", \A i \in InsOf(t) : types[i] \in Spendable, types)
        \cup Dim("sequence", TRUE, [i \in InsOf(t) |-> t.prints[i].seq])
        \cup (IF ecdsa
              THEN {[name |-> "ecdsa_r_length", of |-> [i \in InsOf(t) |-> t.prints[i].sig.r]],
                    [name |-> "ecdsa_sighash", of |-> [i \in InsOf(t) |-> t.prints[i].sig.hash]]}
              ELSE {})
        \cup Dim("taproot_sighash_form", schnorr,
                 [i \in InsOf(t) |-> t.prints[i].sig.form])

\* Mutant: only the first two inputs are compared.
DifferingFirst(t, prev) == {d \in Dimensions(t, prev) : d.of[1] # d.of[2]}

\* Those in which two inputs differ.
Differing(t, prev) ==
    {d \in Dimensions(t, prev) : \E i, j \in InsOf(t) : d.of[i] # d.of[j]}

\* Inputs alike in every differing dimension; all of them without any.
Clusters(t, prev) ==
    {{t.ins[j] : j \in {k \in InsOf(t) :
                          \A d \in Differing(t, prev) : d.of[i] = d.of[k]}}
       : i \in InsOf(t)}

Payjoin(t, prev, tracked) ==
    LET Shape ==
            /\ JoinsCoins(t, prev)
            /\ InSet(t) \cap tracked # {} /\ InSet(t) \ tracked # {}
            /\ Len(t.outs) = 2
            /\ \A i \in OutsOf(t) : t.outs[i].value > 0 /\ t.outs[i].type \in Spendable
            /\ \A o \in InSet(t) : prev[o].value > 0
            /\ Funded(t, prev)
        Signals == {d.name : d \in Differing(t, prev)}
        Strong(uih) == \/ uih = "uih2" \/ Cardinality(Signals) >= 2
                       \/ uih = "uih1" /\ Signals # {}
        Evidence(uih) == [uih      |-> uih,
                          signals  |-> Signals,
                          clusters |-> Clusters(t, prev),
                          tracked  |-> InSet(t) \cap tracked,
                          conf     |-> IF Strong(uih) THEN "medium" ELSE "low"]
    IN  IF Shape /\ (Unnecessary(t, prev) # "none" \/ Signals # {})
        THEN {Evidence(Unnecessary(t, prev))} ELSE {}

-----------------------------------------------------------------------------
(* Child pays for parent. *)

\* Mutant: the fees are compared, not the fee rates.
PaysMoreInTotal(parent, pfee, child, cfee) == cfee > pfee

\* The child's fee rate is above the parent's, and so is the package's.
PaysMore(parent, pfee, child, cfee) ==
    /\ cfee * parent.vsize > pfee * child.vsize
    /\ (pfee + cfee) * parent.vsize > pfee * (parent.vsize + child.vsize)

\* heights: the blocks of parent and child, an empty set for none.
Cpfp(parent, pprev, child, cprev, tracked, pheight, cheight) ==
    LET paying == InSet(child) \cap tracked
        Complete(t, prev) ==
            t.ins # << >> /\ Distinct(t) /\ DOMAIN prev = InSet(t) /\ Funded(t, prev)
        Holds ==
            /\ pheight # {} /\ pheight = cheight /\ parent.txid # child.txid
            /\ Complete(parent, pprev) /\ Complete(child, cprev)
            /\ paying # {} /\ \A o \in paying : o[1] = parent.txid
            /\ PaysMore(parent, MinerFee(parent, pprev), child, MinerFee(child, cprev))
    IN  IF Holds THEN {[tracked |-> paying, conf |-> "medium"]} ELSE {}

-----------------------------------------------------------------------------
(* Stonewall: four outputs, some amount twice and none more often. *)

SameAmount(t, i) == {j \in OutsOf(t) : t.outs[j].value = t.outs[i].value}

Paired(t) == {i \in OutsOf(t) : Cardinality(SameAmount(t, i)) = 2}

Stonewall(t, prev, tracked) ==
    LET Shape ==
            /\ JoinsCoins(t, prev) /\ InSet(t) \cap tracked # {}
            /\ Len(t.outs) = 4
            /\ \A i \in OutsOf(t) : /\ t.outs[i].value > 0
                                  /\ t.outs[i].type \notin Unspendable \cup {"unknown"}
                                  /\ Cardinality(SameAmount(t, i)) <= 2
            /\ Paired(t) # {} /\ Funded(t, prev)
    IN  IF Shape THEN {[repeated |-> Paired(t), tracked |-> InSet(t) \cap tracked,
                        conf |-> "medium"]}
        ELSE {}

-----------------------------------------------------------------------------
(* Ricochet: a spend that pays the service fee, then a chain of hops. *)

RicochetEntry(t, tracked) ==
    LET fees == {i \in OutsOf(t) : t.outs[i].value = ServiceFee}
        Shape ==
            /\ InSet(t) \cap tracked # {} /\ Len(t.outs) \in {2, 3}
            /\ \A i \in OutsOf(t) : t.outs[i].value > 0 /\ t.outs[i].type = "p2wpkh"
            /\ Cardinality(fees) = 1
    IN  IF Shape THEN {[fees |-> fees, candidates |-> OutsOf(t) \ fees, conf |-> "medium"]}
        ELSE {}

\* One input, one smaller native output.
IsRicochetHop(t, expected, out) ==
    /\ t.ins = <<expected>> /\ Len(t.outs) = 1
    /\ out.type = "p2wpkh" /\ 0 < out.value /\ out.value <= MaxMoney
    /\ t.outs[1].type = "p2wpkh"
    /\ 0 < t.outs[1].value /\ t.outs[1].value < out.value
=============================================================================
