--------------------------- MODULE ExposureTracer ---------------------------
(***************************************************************************)
(* The bounded forward walk of trace.py: from a root Tx0 or round, along   *)
(* the spends of its outputs, through later rounds and Tx0s, to the first  *)
(* ordinary spend.  One action per way an iteration of the loop ends.      *)
(*                                                                         *)
(* What the walk has built so far is one record, w, and the helpers are    *)
(* functions from such records to such records, in the order in which the  *)
(* methods they model are called.  The graph is a constant; known is the   *)
(* part of it the node serves, which may grow while the walk goes on.      *)
(***************************************************************************)
EXTENDS Postmix

CONSTANTS
    Tx,             \* transaction ids
    Body,           \* Body[t]: the transaction t
    OutputAt,       \* OutputAt[o]: the output an outpoint names
    ConfirmedIn,    \* ConfirmedIn[t]: {height of t's block}, or {} if none
    Roots,          \* transactions a trace may start from
    Late,           \* transactions the node may learn while it is asked
    Detection,      \* Detection[t]: what the detector says of t
    LimitChoices    \* records [depth, transactions, outputs, lookups]

ASSUME LimitsArePositive ==
    LimitChoices \subseteq [depth : Nat \ {0}, transactions : Nat \ {0},
                            outputs : Nat \ {0}, lookups : Nat \ {0}]

ASSUME GraphAssumption ==
    /\ Roots \subseteq Tx \ Late /\ Late \subseteq Tx
    /\ \A o \in DOMAIN OutputAt : o = <<o[1], o[2]>>
    /\ \A t \in Tx : \A i \in OutsOf(Body[t]) : <<t, i>> \in DOMAIN OutputAt
    /\ \A t \in Tx : Len(Body[t].ins) \in Nat /\ Len(Body[t].outs) \in Nat
    /\ \A t, s \in Tx : t # s => InSet(Body[t]) \cap InSet(Body[s]) = {}
    /\ \A t \in Tx : InSet(Body[t]) \subseteq DOMAIN OutputAt

PrevoutsOf == [t \in Tx |-> [o \in InSet(Body[t]) |-> OutputAt[o]]]

\* _detection, with the prevouts the resolver fetches.  Neither changes, so
\* the verdicts the tracer keeps are constants.
Detected == [t \in Tx |-> Detect(Body[t], PrevoutsOf[t])]

ASSUME DetectionAssumption == Detection = Detected

VARIABLES
    known,          \* the transactions the node serves
    limits,         \* TraceLimits
    root,           \* root_txid
    pc,             \* "start", "walk", "report", "done" or "failed"
    w               \* the walk

vars == <<known, limits, root, pc, w>>

Spends(t, o) == o \in InSet(Body[t])
Spenders(o) == {t \in known : Spends(t, o)}

Outpoints == DOMAIN OutputAt

NewWalk ==
    [nodes    |-> {},       \* the transaction nodes
     outs     |-> << >>,    \* output nodes: outpoint -> [role, conf, status]
     edges    |-> << >>,    \* <<kind, from, to>> -> confidence
     findings |-> << >>,    \* [kind, tx, at] -> confidence
     cut      |-> {},       \* why the report is partial
     anc      |-> [o \in Outpoints |-> {}],     \* _ancestry
     found    |-> << >>,    \* _spend_cache: outpoint -> spenders
     seen     |-> {},       \* _visited_states
     frontier |-> << >>,
     detected |-> {}]       \* the transactions the report lists

Init ==
    /\ known = Tx \ Late
    /\ limits \in LimitChoices
    /\ root \in Roots
    /\ pc = "start"
    /\ w = NewWalk

-----------------------------------------------------------------------------
(* Recording.  What is there already is kept (setdefault). *)

One(key, value) == [k \in {key} |-> value]

With(f, g) == [k \in DOMAIN f \cup DOMAIN g |-> IF k \in DOMAIN f THEN f[k] ELSE g[k]]

Find(v, kind, t, at, conf) ==
    [v EXCEPT !.findings = With(@, One([kind |-> kind, tx |-> t, at |-> at], conf))]

Edge(v, kind, from, to, conf) ==
    [v EXCEPT !.edges = With(@, One(<<kind, from, to>>, conf))]

Cut(v, cause) == [v EXCEPT !.cut = @ \cup {cause}]

\* _mark_output_role of every outpoint of S that has a node.
Marked(v, S, role, conf) ==
    [v EXCEPT !.outs =
       [o \in DOMAIN v.outs |->
          IF o \in S THEN [role |-> role, conf |-> conf, status |-> v.outs[o].status]
          ELSE v.outs[o]]]

\* _mark_output_status.
Status(v, o, status) ==
    [v EXCEPT !.outs =
       [x \in DOMAIN v.outs |->
          IF x = o THEN [v.outs[o] EXCEPT !.status = status] ELSE v.outs[x]]]

Confirm(v, o, t) ==
    IF o \in DOMAIN v.outs THEN Edge(Status(v, o, "spent"), "spends", o, t, "high")
    ELSE v

\* Mutant: the outputs are counted before the transaction's own are added.
KeptAll(v, t) ==
    IF Cardinality(DOMAIN v.outs) < limits.outputs THEN OutsOf(Body[t]) ELSE {}

\* The outputs of a new transaction that still fit.
KeptOutputs(v, t) ==
    {i \in OutsOf(Body[t]) : i <= limits.outputs - Cardinality(DOMAIN v.outs)}

\* _add_transaction of a transaction without a node, below the limit.
WithOuts(v, t, kept) ==
    [v EXCEPT
      !.nodes = @ \cup {t},
      !.outs = With(@, [o \in {<<t, i>> : i \in kept} |->
                          [role   |-> Detection[t].roles[o[2]],
                           conf   |-> Detection[t].confs[o[2]],
                           status |-> "unknown"]]),
      !.edges = With(@, [e \in {<<"creates", t, <<t, i>>>> : i \in kept} |-> "high"]),
      !.cut = @ \cup IF kept = OutsOf(Body[t]) THEN {} ELSE {"outputs"}]

WithTx(v, t) == WithOuts(v, t, KeptOutputs(v, t))

\* The outputs of t that have a node.
WithNode(v, t) == {i \in OutsOf(Body[t]) : <<t, i>> \in DOMAIN v.outs}

TxFits(v, t) == t \in v.nodes \/ Cardinality(v.nodes) < limits.transactions

AddTx(v, t) == IF t \in v.nodes \/ ~TxFits(v, t) THEN v ELSE WithTx(v, t)

\* Mutant: a stack instead of a queue.
Pushed(queue, items) == [k \in DOMAIN items |-> items[Len(items) + 1 - k]] \o queue

Queued(queue, items) == queue \o items

\* The indices of a set, in ascending order.
InOrder(S) ==
    [k \in 1 .. Cardinality(S) |->
       CHOOSE i \in S : Cardinality({j \in S : j < i}) = k - 1]

\* Outputs of t join the frontier, in order: ancestry, confidence and depth.
Track(v, t, chosen, anc, conf, depth, recursive) ==
    LET order == InOrder(chosen)
    IN  [v EXCEPT
          !.anc = [o \in Outpoints |->
                     IF o[1] = t /\ o[2] \in chosen
                     THEN v.anc[o] \cup {anc[o[2]]} ELSE v.anc[o]],
          !.frontier = Queued(@, [k \in DOMAIN order |->
                     [out |-> <<t, order[k]>>, anc |-> anc[order[k]],
                      conf |-> conf[order[k]], depth |-> depth,
                      recursive |-> recursive]])]

-----------------------------------------------------------------------------
(* Confidence. *)

LowerConf(a, b) ==
    IF "low" \in {a, b} THEN "low" ELSE IF "medium" \in {a, b} THEN "medium" ELSE "high"

\* Mutant: a coinjoin keeps the confidence of what enters it.
CoinjoinConfKept(conf) == conf

CoinjoinConf(conf) == IF conf = "high" THEN "medium" ELSE "low"

-----------------------------------------------------------------------------
(* Spenders.  Looked up once each, within the budget. *)

Exhausted(v, o) ==
    o \notin DOMAIN v.found /\ Cardinality(DOMAIN v.found) >= limits.lookups

\* Mutant: asked again each time.
LookedAgain(v, o) == [v EXCEPT !.found = With(One(o, Spenders(o)), @)]

Looked(v, o) == [v EXCEPT !.found = With(@, One(o, Spenders(o)))]

SpenderOf(v, o) == CHOOSE t \in v.found[o] : TRUE

-----------------------------------------------------------------------------
(* _enqueue_roles and _follow_round. *)

Tx0Ancestry == [premix |-> "premix", doxxic_change |-> "doxxic_change"]
RoundAncestry == [coinjoin |-> "postmix"]

EnqueueRoles(v, t, ancestry, cap, depth) ==
    LET roles  == Detection[t].roles
        chosen == {i \in WithNode(v, t) : roles[i] \in DOMAIN ancestry}
        anc    == [i \in chosen |-> ancestry[roles[i]]]
        conf   == [i \in chosen |-> LowerConf(Detection[t].confs[i], cap)]
        marked == [v EXCEPT !.outs =
                     [o \in DOMAIN v.outs |->
                        IF o[1] = t /\ o[2] \in chosen
                        THEN [role |-> roles[o[2]], conf |-> conf[o[2]],
                              status |-> v.outs[o].status]
                        ELSE v.outs[o]]]
    IN  Track(marked, t, chosen, anc, conf, depth, TRUE)

FollowRound(v, item, t, depth) ==
    LET entered == Find(v, "whirlpool_entry", t, {item.out}, Detection[t].conf)
        chosen  == WithNode(v, t)
        conf    == CoinjoinConf(item.conf)
        linked  == [entered EXCEPT !.edges = With(@,
                      [e \in {<<"possible_coinjoin_link", item.out, <<t, i>>>> : i \in chosen}
                         |-> conf])]
        marked  == Marked(linked, {<<t, i>> : i \in chosen}, "coinjoin", conf)
    IN  Track(marked, t, chosen, [i \in chosen |-> "postmix"],
              [i \in chosen |-> conf], depth, TRUE)

-----------------------------------------------------------------------------
(* _follow_ordinary_spend: findings about the shape of the spend. *)

\* Mutant: inputs that a finding about this spend names are left out.
TrackedPostmixNew(v, t) ==
    {o \in InSet(Body[t]) :
       /\ "postmix" \in v.anc[o]
       /\ \A f \in DOMAIN v.findings :
             f.kind = "postmix_consolidation" /\ f.tx = t => o \notin f.at}

TrackedPostmix(v, t) == {o \in InSet(Body[t]) : "postmix" \in v.anc[o]}

SpendableOuts(t) ==
    {i \in OutsOf(Body[t]) :
        Body[t].outs[i].value > 0 /\ Body[t].outs[i].type \notin Unspendable}

Several(v, t, tracked) ==
    IF Cardinality(tracked) >= 2
    THEN Find(v, "postmix_consolidation", t, tracked, "high") ELSE v

Paying(v, t, tracked) ==
    IF Cardinality(tracked) >= 3 /\ Cardinality(SpendableOuts(t)) = 1
    THEN Find(v, "postmix_payment_consolidation", t, tracked, "medium") ELSE v

WithConsolidation(v, t, tracked) == Paying(Several(v, t, tracked), t, tracked)

StonewallOf(v, t) == Stonewall(Body[t], PrevoutsOf[t], TrackedPostmix(v, t))

Protected(v, t) == UNION {s.repeated : s \in StonewallOf(v, t)}

\* The verdict found, if any, of the detectors that return one at most.
The(found) == CHOOSE x \in found : TRUE

Stonewalled(v, t, s) ==
    Find(Marked(v, {<<t, i>> : i \in s.repeated}, "stonewall_equal_output", s.conf),
         "stonewall", t, s.tracked, s.conf)

WithStonewall(v, t, found) ==
    IF found = {} THEN v ELSE Stonewalled(v, t, The(found))

WithPayjoin(v, t, found) ==
    IF found = {} THEN v
    ELSE Find(v, "postmix_payjoin_fingerprint", t, The(found).tracked, The(found).conf)

Shaped(v, t, tracked) ==
    WithPayjoin(WithStonewall(WithConsolidation(v, t, tracked), t, StonewallOf(v, t)),
                t, Payjoin(Body[t], PrevoutsOf[t], tracked))

-----------------------------------------------------------------------------
(* _follow_ricochet: each output that may continue is probed for four hops, *)
(* and the chain is added whole or not at all.                              *)

Probe(v, t, i) == [w |-> v, path |-> <<<<t, i>>>>, end |-> "open"]

End(p) == p.path[Len(p.path)]
PathTxs(path) == {path[k][1] : k \in DOMAIN path}

\* The spend of the last output of path, if it is a hop and no repetition.
Onward(v, path, o) ==
    {t \in v.found[o] : t \notin PathTxs(path) /\ IsRicochetHop(Body[t], o, OutputAt[o])}

Advanced(looked, path, next) ==
    IF next = {} THEN [w |-> looked, path |-> path, end |-> "dead"]
    ELSE [w |-> looked, path |-> Append(path, <<CHOOSE t \in next : TRUE, 1>>), end |-> "open"]

Hop(p) ==
    IF p.end # "open" THEN p
    ELSE IF Exhausted(p.w, End(p))
    THEN [w |-> Cut(p.w, "lookups"), path |-> p.path, end |-> "limit"]
    ELSE Advanced(Looked(p.w, End(p)), p.path, Onward(Looked(p.w, End(p)), p.path, End(p)))

\* _probe_ricochet_chain.
Probed(v, t, i) == Hop(Hop(Hop(Hop(Probe(v, t, i)))))

ChainOutputs(new) == UNION {{<<t, i>> : i \in OutsOf(Body[t])} : t \in new}

\* Mutant: only the transactions are counted in advance.
ChainFitsTxs(v, new) == Cardinality(v.nodes) + Cardinality(new) <= limits.transactions

ChainFits(v, new) ==
    /\ Cardinality(v.nodes) + Cardinality(new) <= limits.transactions
    /\ Cardinality(DOMAIN v.outs) + Cardinality(ChainOutputs(new)) <= limits.outputs

\* Hop k of a chain: path[k] is spent by the transaction of path[k + 1].
HopRole(k) == IF k = 4 THEN "possible_payment" ELSE "ricochet_hop"

WithHop(v, from, onto, k) ==
    [Marked(Marked(v, {from}, "ricochet_hop", "medium"), {onto}, HopRole(k), "medium")
       EXCEPT !.detected = @ \cup {onto[1]},
              !.anc[onto] = @ \cup {IF k = 4 THEN "possible_payment" ELSE "postmix"}]

AddHop(v, path, k) ==
    WithHop(Confirm(AddTx(v, path[k + 1][1]), path[k], path[k + 1][1]),
            path[k], path[k + 1], k)

AddChain(v, t, fee, path) ==
    Find(AddHop(AddHop(AddHop(AddHop(Marked(v, {<<t, fee>>}, "ricochet_fee", "medium"),
                path, 1), path, 2), path, 3), path, 4),
         "ricochet", t, {<<t, fee>>}, "medium")

\* What the probes decide: the walk, and the outputs that are no payments.
Chained(v, t, fee, path) ==
    IF ChainFits(v, PathTxs(path) \ v.nodes)
    THEN [w |-> AddChain(v, t, fee, path), taken |-> {fee, path[1][2]}]
    ELSE [w |-> Cut(v, "chain"), taken |-> {}]

RicochetVerdict(v, t, entry, paths) ==
    IF Cardinality(paths) = 1 THEN Chained(v, t, The(entry.fees), The(paths))
    ELSE [w |-> v, taken |-> {}]

\* The second candidate is probed unless the first probe met a limit.
Judged(first, second, t, entry) ==
    IF second.end = "limit" THEN [w |-> second.w, taken |-> {}]
    ELSE RicochetVerdict(second.w, t, entry,
                         {p.path : p \in {q \in {first, second} : q.end = "open"}})

ProbedBoth(first, t, entry) ==
    Judged(first, IF first.end = "limit" THEN first
                  ELSE Probed(first.w, t, Max(entry.candidates)), t, entry)

FollowRicochet(v, t, entry, depth) ==
    IF depth + 4 > limits.depth THEN [w |-> Cut(v, "depth"), taken |-> {}]
    ELSE ProbedBoth(Probed(v, t, Min(entry.candidates)), t, entry)

WithRicochet(v, t, entry, depth) ==
    IF entry = {} THEN [w |-> v, taken |-> {}]
    ELSE FollowRicochet(v, t, The(entry), depth)

-----------------------------------------------------------------------------
(* The outputs of an ordinary spend: followed one spend further. *)

WithPayments(v, t, taken, protected, depth) ==
    LET chosen == (SpendableOuts(t) \cap WithNode(v, t)) \ taken
        marked == Marked(v, {<<t, i>> : i \in chosen \ protected}, "possible_payment", "low")
        found  == [marked EXCEPT !.findings = With(@,
                     [f \in {[kind |-> "possible_payment", tx |-> t, at |-> {<<t, i>>}]
                               : i \in chosen} |-> "low"])]
    IN  Track(found, t, chosen, [i \in chosen |-> "possible_payment"],
              [i \in chosen |-> "low"], depth, FALSE)

Continued(ricochet, t, protected, depth) ==
    WithPayments(ricochet.w, t, ricochet.taken, protected, depth)

FollowOrdinary(v, t, depth) ==
    Continued(WithRicochet(Shaped(v, t, TrackedPostmix(v, t)), t,
                           RicochetEntry(Body[t], TrackedPostmix(v, t)), depth),
              t, Protected(v, t), depth)

-----------------------------------------------------------------------------
(* The other findings of the loop. *)

\* Mutant: the finding names the output the walk came by.
WithCpfpHere(v, o, t) ==
    LET p       == o[1]
        found   == Cpfp(Body[p], PrevoutsOf[p], Body[t], PrevoutsOf[t],
                        {o}, ConfirmedIn[p], ConfirmedIn[t])
    IN  IF Detection[p].kind # "whirlpool_round" \/ found = {} THEN v
        ELSE Find(v, "whirlpool_cpfp", t, {o}, "medium")

\* _add_whirlpool_cpfp_finding: p is the parent, a round.
WithCpfp(v, o, t) ==
    LET p       == o[1]
        tracked == {x \in TrackedPostmix(v, t) : x[1] = p}
        found   == Cpfp(Body[p], PrevoutsOf[p], Body[t], PrevoutsOf[t],
                        tracked, ConfirmedIn[p], ConfirmedIn[t])
    IN  IF Detection[p].kind # "whirlpool_round" \/ found = {} THEN v
        ELSE Find(v, "whirlpool_cpfp", t, tracked, "medium")

WithDoxxic(v, item, t) ==
    IF item.anc = "doxxic_change"
    THEN Find(v, "doxxic_change_spend", t, {item.out}, item.conf) ELSE v

WithLaterTx0(v, item, t) ==
    IF item.anc = "doxxic_change"
    THEN Find(v, "later_tx0", t, {item.out}, Detection[t].conf) ELSE v

\* Address reuse, over the nodes of the finished walk.  The finding's txid is
\* that of its first outpoint.
ReuseRoles == {"coordinator_fee", "premix", "coinjoin", "stonewall_equal_output"}

Labelled(v, script) ==
    {o \in DOMAIN v.outs :
        /\ v.outs[o].role \in ReuseRoles
        /\ OutputAt[o].value > 0 /\ OutputAt[o].type = "p2wpkh"
        /\ OutputAt[o].script = script}

Reused(v) ==
    {S \in {Labelled(v, OutputAt[o].script) : o \in DOMAIN v.outs} :
        Cardinality({v.outs[o].role : o \in S}) >= 2}

WithReuse(v) ==
    [v EXCEPT !.findings = With(@,
       [f \in {[kind |-> "address_reuse", tx |-> (CHOOSE o \in S : TRUE)[1], at |-> S]
                 : S \in Reused(v)} |-> "medium"])]

-----------------------------------------------------------------------------
(* trace. *)

Begin ==
    /\ pc = "start"
    /\ pc' = IF Detection[root].kind = "unknown" THEN "report" ELSE "walk"
    /\ LET v == AddTx([NewWalk EXCEPT !.detected = {root}], root)
       IN  w' = CASE Detection[root].kind = "tx0" ->
                       EnqueueRoles(v, root, Tx0Ancestry, "high", 0)
                  [] Detection[root].kind = "whirlpool_round" ->
                       EnqueueRoles(v, root, RoundAncestry, "medium", 0)
                  [] OTHER -> v
    /\ UNCHANGED <<known, limits, root>>

Walking == pc = "walk" /\ w.frontier # << >>
Item == Head(w.frontier)
State(item) == <<item.out, item.anc>>

\* Mutant: the item goes back to the end of the queue.
Rotated == [w EXCEPT !.frontier = Append(Tail(@), Head(@))]

Popped == [w EXCEPT !.frontier = Tail(@)]
Visiting == [Popped EXCEPT !.seen = @ \cup {State(Item)}]
New == State(Item) \notin w.seen

Repeat ==
    /\ Walking /\ ~New
    /\ w' = Popped
    /\ UNCHANGED <<known, limits, root, pc>>

TooDeep ==
    /\ Walking /\ New /\ Item.depth >= limits.depth
    /\ w' = Cut(Visiting, "depth")
    /\ UNCHANGED <<known, limits, root, pc>>

Fetching == Walking /\ New /\ Item.depth < limits.depth

OutOfLookups ==
    /\ Fetching /\ Exhausted(w, Item.out)
    /\ w' = Cut(Visiting, "lookups")
    /\ pc' = "report"
    /\ UNCHANGED <<known, limits, root>>

Fetched == Looked(Visiting, Item.out)
Spent == Fetched.found[Item.out] # {}
Spender == SpenderOf(Fetched, Item.out)

Unspent ==
    /\ Fetching /\ ~Exhausted(w, Item.out) /\ ~Spent
    /\ w' = Find(Status(Fetched, Item.out, "unspent"),
                 "unspent", Item.out[1], {Item.out}, Item.conf)
    /\ UNCHANGED <<known, limits, root, pc>>

OutOfTransactions ==
    /\ Fetching /\ ~Exhausted(w, Item.out) /\ Spent /\ ~TxFits(w, Spender)
    /\ w' = [Cut(Fetched, "transactions") EXCEPT !.detected = @ \cup {Spender}]
    /\ pc' = "report"
    /\ UNCHANGED <<known, limits, root>>

\* The spending transaction is added and the spend recorded.
Recorded ==
    LET added == [AddTx(Fetched, Spender) EXCEPT !.detected = @ \cup {Spender}]
    IN  WithDoxxic(WithCpfp(Confirm(added, Item.out, Spender), Item.out, Spender),
                   Item, Spender)

Followed ==
    /\ Fetching /\ ~Exhausted(w, Item.out) /\ Spent /\ TxFits(w, Spender)
    /\ UNCHANGED <<known, limits, root, pc>>

Becomes(kind) == Followed /\ Item.recursive /\ Detection[Spender].kind = kind

LastSpend == Followed /\ ~Item.recursive /\ w' = Recorded

EnterRound ==
    /\ Becomes("whirlpool_round")
    /\ w' = FollowRound(Recorded, Item, Spender, Item.depth + 1)

EnterTx0 ==
    /\ Becomes("tx0")
    /\ w' = EnqueueRoles(WithLaterTx0(Recorded, Item, Spender), Spender,
                         Tx0Ancestry, "high", Item.depth + 1)

OrdinarySpend ==
    /\ Becomes("unknown")
    /\ w' = FollowOrdinary(Recorded, Spender, Item.depth + 1)

Drained ==
    /\ pc = "walk" /\ w.frontier = << >>
    /\ pc' = "report"
    /\ UNCHANGED <<known, limits, root, w>>

Report ==
    /\ pc = "report"
    /\ pc' = "done"
    /\ w' = WithReuse(w)
    /\ UNCHANGED <<known, limits, root>>

Step ==
    \/ Begin \/ Repeat \/ TooDeep \/ OutOfLookups \/ Unspent
    \/ OutOfTransactions \/ LastSpend \/ EnterRound \/ EnterTx0 \/ OrdinarySpend
    \/ Drained \/ Report

\* The resolver raises when it is asked: no report is made.
Fails ==
    /\ pc = "start" \/ (Fetching /\ ~Exhausted(w, Item.out))
    /\ pc' = "failed"
    /\ UNCHANGED <<known, limits, root, w>>

\* A transaction reaches the node between two questions.
NodeLearns ==
    /\ \E t \in Late \ known : /\ Parents(Body[t]) \cap Tx \subseteq known
                               /\ known' = known \cup {t}
    /\ UNCHANGED <<limits, root, pc, w>>

Over == pc \in {"done", "failed"}

Finished == Over /\ UNCHANGED vars

Next == Step \/ Fails \/ NodeLearns \/ Finished

Spec == Init /\ [][Next]_vars

\* The loop goes on until the trace is over: WF_vars(Step), with ENABLED Step
\* written out.
FairSpec == Spec /\ ([]<>Over \/ []<><<Step>>_vars)

-----------------------------------------------------------------------------
(* No report is larger than the limits: transactions, outputs and history   *)
(* lookups are counted where they are added, on every path of the walk and  *)
(* of the Ricochet probes (_add_transaction, _spending_transaction,         *)
(* _follow_ricochet).                                                       *)
WithinBudgets ==
    /\ Cardinality(w.nodes) <= limits.transactions
    /\ Cardinality(DOMAIN w.outs) <= limits.outputs
    /\ Cardinality(DOMAIN w.found) <= limits.lookups

\* What the outputs of t hand on: <<outpoint, ancestry>> for its own.
Handed(t, ancestry) ==
    {<<<<t, i>>, ancestry[Detection[t].roles[i]]>> :
       i \in {j \in OutsOf(Body[t]) : Detection[t].roles[j] \in DOMAIN ancestry}}

HandedOn(t) ==
    CASE Detection[t].kind = "whirlpool_round" -> Handed(t, RoundAncestry)
      [] Detection[t].kind = "tx0"             -> Handed(t, Tx0Ancestry)
      [] OTHER                                 -> {}

SpendersFound(o) == IF o \in DOMAIN w.found THEN w.found[o] ELSE {}

\* The recursive states at most n spends away from the root.
Within ==
    LET near[n \in Nat] ==
          IF n = 0 THEN HandedOn(root)
          ELSE near[n - 1] \cup UNION {HandedOn(t) :
                 t \in UNION {SpendersFound(s[1]) : s \in near[n - 1]}}
    IN  near

(* A report that only its depth cut short covers everything nearer than the *)
(* depth: each state was visited, its spend looked up, and the spending     *)
(* transaction is there with all its outputs.  A state is visited once, so  *)
(* this needs the first visit to be the nearest (trace, the deque).         *)
CoveredToDepth ==
    pc = "done" /\ w.cut \subseteq {"depth"} =>
        \A s \in Within[limits.depth - 1] :
            /\ s \in w.seen /\ s[1] \in DOMAIN w.found
            /\ \A t \in w.found[s[1]] :
                  t \in w.nodes /\ \A i \in OutsOf(Body[t]) : <<t, i>> \in DOMAIN w.outs

Findings(kind) == {f \in DOMAIN w.findings : f.kind = kind}

(* What the graph says of an output and what the findings say agree: it is  *)
(* reported unspent exactly if its node is, and spent exactly if a spending *)
(* transaction is shown, even if the node learns of a spend in the middle   *)
(* of the trace (_spend_cache).                                             *)
StatusAgrees ==
    \A o \in DOMAIN w.outs :
        /\ w.outs[o].status = "unspent" <=> \E f \in Findings("unspent") : f.at = {o}
        /\ w.outs[o].status = "spent" <=>
              \E e \in DOMAIN w.edges : e[1] = "spends" /\ e[2] = o

\* What is found about a spend as such, whoever owns what it spends: that it
\* enters a round, or that it joins outputs.
ShownBySpend == {"whirlpool_entry", "postmix_consolidation"}

(* Behind a round nothing is certain: no output that the walk tracks as     *)
(* possible postmix is of high confidence, in the graph or in the queue,    *)
(* from whichever items its round was entered and in whatever order; no     *)
(* link through a round is; and no finding that names such an output is,    *)
(* except for those that only say what a spend itself shows                 *)
(* (_coinjoin_confidence, _follow_round, _follow_ordinary_spend).           *)
Ambiguity ==
    LET Possible == {o \in Outpoints : "postmix" \in w.anc[o]}
    IN  /\ \A o \in DOMAIN w.outs \cap Possible : w.outs[o].conf # "high"
        /\ \A k \in DOMAIN w.frontier :
              w.frontier[k].anc = "postmix" => w.frontier[k].conf # "high"
        /\ \A e \in DOMAIN w.edges :
              e[1] = "possible_coinjoin_link" => w.edges[e] # "high"
        /\ \A f \in DOMAIN w.findings :
              w.findings[f] = "high" /\ f.at \cap Possible # {} => f.kind \in ShownBySpend

(* A Ricochet is reported with its whole chain or not at all: from one      *)
(* output of its entry, four spends in the graph with the outputs they      *)
(* create, each node marked as spent but the last (_follow_ricochet).       *)
RicochetWhole ==
    \A f \in Findings("ricochet") : \E i \in OutsOf(Body[f.tx]) :
        LET Next1(o) == {<<e[3], 1>> : e \in {x \in DOMAIN w.edges :
                                                x[1] = "spends" /\ x[2] = o}}
            Step1(S) == UNION {Next1(o) : o \in S}
            last     == Step1(Step1(Step1(Step1({<<f.tx, i>>}))))
        IN  last # {} /\ last \subseteq DOMAIN w.outs /\ {<<f.tx, i>>} # f.at

(* A fee bump is reported once per child and parent, however many of the    *)
(* child's inputs the walk arrives by (_add_whirlpool_cpfp_finding; the     *)
(* outputs of a round become tracked all at once).                          *)
CpfpOnce ==
    \A f, g \in Findings("whirlpool_cpfp") :
        f.tx = g.tx /\ {o[1] : o \in f.at} = {o[1] : o \in g.at} => f = g

(* A spend of possible postmix outputs is analysed again when one more of   *)
(* its inputs becomes tracked: of two consolidations reported of one spend  *)
(* one names all the inputs of the other, and in the end, unless a limit    *)
(* cut the walk short, one names every input that is tracked                *)
(* (_follow_ordinary_spend, _add_finding).                                  *)
ConsolidationsGrow ==
    LET found == Findings("postmix_consolidation")
    IN  /\ \A f, g \in found :
              f.tx = g.tx => f.at \subseteq g.at \/ g.at \subseteq f.at
        /\ pc = "done" /\ w.cut = {} =>
              \A f \in found : \E g \in found :
                 g.tx = f.tx /\ g.at = TrackedPostmix(w, f.tx)

(* Every trace ends (trace, the visited states).                            *)
Terminates == <>Over
=============================================================================
