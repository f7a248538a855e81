------------------------------ MODULE Whirlpool ------------------------------
(***************************************************************************)
(* The Whirlpool detector (whirlpool.py): which pool's Tx0, or which       *)
(* pool's coinjoin round, a transaction looks like, and the role of each   *)
(* of its outputs.  Pure operators over one transaction and the previous   *)
(* outputs it spends.                                                      *)
(*                                                                         *)
(* A transaction is [ins, outs]: the outpoints it spends and its outputs   *)
(* [value, type], both in order.  An output of type "marker" is the        *)
(* zero-value OP_RETURN with 64 pushed bytes that announces a Tx0; any     *)
(* other OP_RETURN has type "op_return".                                   *)
(***************************************************************************)
EXTENDS Integers, Sequences, FiniteSets, FiniteSetsExt

CONSTANTS
    PoolDefs,       \* records [id, denom, fees, maxPremix, maxReserve]
    RoundSizes,     \* numbers of inputs of a coinjoin round: 5 .. 8
    MaxMoney        \* MAX_MONEY_SATS

ASSUME PoolDefAssumption ==
    \A p \in PoolDefs : /\ p.denom \in Nat \ {0} /\ p.maxReserve \in Nat
                        /\ p.maxPremix \in Nat /\ p.fees \subseteq 0 .. p.denom

ASSUME RoundSizeAssumption == RoundSizes \subseteq Nat \ {0, 1}

ASSUME MoneyAssumption == MaxMoney \in Nat

\* The premix amounts of a pool never reach the denomination of another, so
\* that no denomination is a premix amount (DEFAULT_POOLS).
ASSUME PoolsApart ==
    \A p, q \in PoolDefs : ~(0 < q.denom - p.denom /\ q.denom - p.denom <= p.maxReserve)

\* Pools differ in their denominations (DEFAULT_POOLS).
ASSUME PoolsDistinct ==
    /\ IsFiniteSet(PoolDefs)
    /\ \A p, q \in PoolDefs : p.denom = q.denom => p = q

OutsOf(t) == 1 .. Len(t.outs)
InsOf(t) == 1 .. Len(t.ins)
Native(out) == out.type = "p2wpkh"

-----------------------------------------------------------------------------
(* Accounting.  prev maps the outpoints that were resolved to the outputs   *)
(* they name; an empty map means that none was asked for.                   *)

SumOf(f) == FoldFunction(+, 0, f)

InputTotal(t, prev) == SumOf([i \in InsOf(t) |-> prev[t.ins[i]].value])
OutputTotal(t) == SumOf([i \in OutsOf(t) |-> t.outs[i].value])
MinerFee(t, prev) == InputTotal(t, prev) - OutputTotal(t)

Resolved(prev) == DOMAIN prev # {}

\* The running totals of _resolved_input_accounting stop at MAX_MONEY; the
\* values are not negative, so the totals decide.
InvalidAccounting(t, prev) ==
    /\ Resolved(prev)
    /\ \/ \E i \in InsOf(t) : t.ins[i] \notin DOMAIN prev
       \/ \E i \in InsOf(t) : prev[t.ins[i]].value < 0
       \/ InputTotal(t, prev) > MaxMoney
       \/ OutputTotal(t) > MaxMoney
       \/ MinerFee(t, prev) < 0

-----------------------------------------------------------------------------
(* Tx0 candidates: one for each pool and each premix amount of the pool.    *)

Markers(t) == {i \in OutsOf(t) : t.outs[i].type = "marker"}
PoolFees(t, p) == {i \in OutsOf(t) : Native(t.outs[i]) /\ t.outs[i].value \in p.fees}

IsPremix(out, p) ==
    Native(out) /\ 0 < out.value - p.denom /\ out.value - p.denom <= p.maxReserve

PremixAmounts(t, p) == {t.outs[i].value : i \in {j \in OutsOf(t) : IsPremix(t.outs[j], p)}}

PremixGroup(t, v) == {i \in OutsOf(t) : Native(t.outs[i]) /\ t.outs[i].value = v}

Residual(t, p, v) == OutsOf(t) \ (PremixGroup(t, v) \cup Markers(t) \cup PoolFees(t, p))

\* The residual output, if there is one only and it is a positive native one.
Change(t, p, v) ==
    {i \in Residual(t, p, v) : /\ Residual(t, p, v) = {i}
                               /\ t.outs[i].value > 0 /\ Native(t.outs[i])}

Tx0Role(t, p, v, i) ==
    CASE i \in Change(t, p, v)   -> "doxxic_change"
      [] i \in PoolFees(t, p)    -> "coordinator_fee"
      [] i \in Markers(t)        -> "op_return"
      [] i \in PremixGroup(t, v) \ (PoolFees(t, p) \cup Markers(t)) -> "premix"
      [] OTHER                   -> "unclassified"

If(condition, n) == IF condition THEN n ELSE 0

\* Mutant: a residual output that is no change is overlooked.
MarkedAndPaid(t, p, v) == Cardinality(Markers(t)) = 1 /\ Cardinality(PoolFees(t, p)) = 1

\* The evidence for high confidence.
Explained(t, p, v) ==
    /\ Cardinality(Markers(t)) = 1 /\ Cardinality(PoolFees(t, p)) = 1
    /\ Residual(t, p, v) \subseteq Change(t, p, v)

Tx0Candidate(t, prev, p, v) ==
    LET conf == IF Explained(t, p, v) THEN "high" ELSE "medium"
        roles == [i \in OutsOf(t) |-> Tx0Role(t, p, v, i)]
        fee  == SumOf([i \in PoolFees(t, p) |-> t.outs[i].value])
    IN  [kind |-> "tx0", pool |-> p.id, conf |-> conf, roles |-> roles,
         confs |-> [i \in OutsOf(t) |->
                      IF roles[i] = "unclassified" THEN "low" ELSE conf],
         score |-> 4 + If(Cardinality(Markers(t)) = 1, 4)
                     + If(Cardinality(PoolFees(t, p)) = 1, 4)
                     + If(Change(t, p, v) # {}, 1),
         entered |-> Cardinality(PremixGroup(t, v)) * p.denom,
         cost |-> IF Resolved(prev) THEN {MinerFee(t, prev) + fee} ELSE {},
         premixIns |-> 0, remixIns |-> 0]

Tx0Candidates(t, prev) ==
    IF InvalidAccounting(t, prev) THEN {}
    ELSE UNION {{Tx0Candidate(t, prev, p, v) : v \in
                   {w \in PremixAmounts(t, p) :
                      /\ Cardinality(PremixGroup(t, w)) <= p.maxPremix
                      /\ Markers(t) \cup PoolFees(t, p) # {}
                      /\ Cardinality(PremixGroup(t, w)) * p.denom <= MaxMoney}}
                : p \in PoolDefs}

-----------------------------------------------------------------------------
(* Round candidates: as many inputs as outputs, all outputs at the          *)
(* denomination, all inputs premix or remix of the same pool.               *)

PremixIns(t, prev, p) == {i \in InsOf(t) : IsPremix(prev[t.ins[i]], p)}
RemixIns(t, prev, p) ==
    {i \in InsOf(t) : Native(prev[t.ins[i]]) /\ prev[t.ins[i]].value = p.denom}

\* Mutant: one output at the denomination is enough.
RoundShapeAny(t, p) ==
    /\ Len(t.ins) = Len(t.outs) /\ Len(t.ins) \in RoundSizes
    /\ \A i \in OutsOf(t) : Native(t.outs[i])
    /\ \E i \in OutsOf(t) : t.outs[i].value = p.denom

RoundShape(t, p) ==
    /\ Len(t.ins) = Len(t.outs) /\ Len(t.ins) \in RoundSizes
    /\ \A i \in OutsOf(t) : Native(t.outs[i]) /\ t.outs[i].value = p.denom

RoundInputs(t, prev, p) == PremixIns(t, prev, p) \cup RemixIns(t, prev, p) = InsOf(t)

RoundCandidate(t, prev, p) ==
    LET conf == IF Resolved(prev) THEN "high" ELSE "medium"
    IN  [kind |-> "whirlpool_round", pool |-> p.id, conf |-> conf,
         roles |-> [i \in OutsOf(t) |-> "coinjoin"],
         confs |-> [i \in OutsOf(t) |-> conf],
         score |-> 5 + If(Resolved(prev), 5), entered |-> 0, cost |-> {},
         premixIns |-> IF Resolved(prev) THEN Cardinality(PremixIns(t, prev, p)) ELSE 0,
         remixIns |-> IF Resolved(prev) THEN Cardinality(RemixIns(t, prev, p)) ELSE 0]

RoundCandidates(t, prev) ==
    {RoundCandidate(t, prev, p) : p \in
        {q \in PoolDefs : /\ RoundShape(t, q) /\ ~InvalidAccounting(t, prev)
                          /\ Resolved(prev) => RoundInputs(t, prev, q)}}

-----------------------------------------------------------------------------
(* The verdict. *)

Unknown(t) ==
    [kind |-> "unknown", pool |-> "", conf |-> "low",
     roles |-> [i \in OutsOf(t) |-> "unclassified"],
     confs |-> [i \in OutsOf(t) |-> "low"],
     score |-> 0, entered |-> 0, cost |-> {}, premixIns |-> 0, remixIns |-> 0]

Best(candidates) == {c \in candidates : \A d \in candidates : d.score <= c.score}

\* Mutant: among equal scores, the candidate of the earliest premix output.
DetectFirst(t, prev) ==
    LET tx0s   == Best(Tx0Candidates(t, prev))
        rounds == Best(RoundCandidates(t, prev))
        First(c) == Min({i \in OutsOf(t) : c.roles[i] = "premix"} \cup {99})
    IN  IF tx0s # {}
        THEN CHOOSE c \in tx0s : \A d \in tx0s : First(c) <= First(d)
        ELSE IF Cardinality(rounds) = 1 THEN CHOOSE c \in rounds : TRUE
        ELSE Unknown(t)

\* detect_whirlpool: a Tx0 if one candidate is best, unknown if several are;
\* only without any Tx0 candidate is a round considered.
Detect(t, prev) ==
    LET tx0s   == Best(Tx0Candidates(t, prev))
        rounds == Best(RoundCandidates(t, prev))
    IN  IF Cardinality(tx0s) = 1 THEN CHOOSE c \in tx0s : TRUE
        ELSE IF tx0s = {} /\ Cardinality(rounds) = 1 THEN CHOOSE c \in rounds : TRUE
        ELSE Unknown(t)
=============================================================================
