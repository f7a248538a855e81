------------------------ MODULE ExposureTracerProofs ------------------------
(***************************************************************************)
(* The walk of the tracer, for every graph, every verdict of the detectors *)
(* and all limits.                                                         *)
(*                                                                         *)
(* First, no report is larger than its limits: each helper of the walk is  *)
(* shown to keep what the limits count, in the order of ExposureTracer;    *)
(* only WithTx and Looked add to it.                                       *)
(*                                                                         *)
(* Second, an honest walk: nothing behind a round is certain, what the     *)
(* report says of an output agrees with its edges and findings, and a fee  *)
(* bump is reported once. The helpers follow in the same order.            *)
(*                                                                         *)
(* Third, the course of the walk: what each helper adds to its nodes, its  *)
(* spends, its lookups and its frontier, and what it leaves alone; then a  *)
(* chain that is judged to fit, hop by hop; then one turn of the loop, the *)
(* inductive invariant CInv and the theorem that a Ricochet is reported    *)
(* whole; then what waits to be visited, the invariant JInv and the        *)
(* theorem that the consolidations of a spend grow; at the end the order   *)
(* of the frontier, the invariant KInv and the theorem that nothing nearer *)
(* than the depth is missed.                                               *)
(***************************************************************************)
EXTENDS ExposureTracer, FiniteSetTheorems, WellFoundedInduction, TLAPS

Fields == {"nodes", "outs", "edges", "findings", "cut", "anc", "found", "seen",
           "frontier", "detected"}

\* A walk within the limits: the inductive invariant of w.
Fits(v) ==
    /\ Fields \subseteq DOMAIN v
    /\ IsFiniteSet(v.nodes) /\ Cardinality(v.nodes) <= limits.transactions
    /\ IsFiniteSet(DOMAIN v.outs) /\ Cardinality(DOMAIN v.outs) <= limits.outputs
    /\ IsFiniteSet(DOMAIN v.found) /\ Cardinality(DOMAIN v.found) <= limits.lookups

\* Two walks that count the same.
Alike(v, u) ==
    /\ Fields \subseteq DOMAIN u
    /\ u.nodes = v.nodes /\ DOMAIN u.outs = DOMAIN v.outs
    /\ DOMAIN u.found = DOMAIN v.found

Positive == limits \in [depth : Nat \ {0}, transactions : Nat \ {0},
                        outputs : Nat \ {0}, lookups : Nat \ {0}]

LEMMA AlikeFits == ASSUME NEW v, NEW u, Fits(v), Alike(v, u) PROVE Fits(u)
BY DEF Fits, Alike

-----------------------------------------------------------------------------
(* Recording. *)

LEMMA FindFits ==
    ASSUME NEW v, Fits(v), NEW kind, NEW t, NEW at, NEW conf
    PROVE  Fits(Find(v, kind, t, at, conf))
<1>1. Alike(v, Find(v, kind, t, at, conf))
  BY DEF Fits, Alike, Fields, Find
<1>2. QED BY <1>1, AlikeFits

LEMMA EdgeFits ==
    ASSUME NEW v, Fits(v), NEW kind, NEW from, NEW to, NEW conf
    PROVE  Fits(Edge(v, kind, from, to, conf))
<1>1. Alike(v, Edge(v, kind, from, to, conf))
  BY DEF Fits, Alike, Fields, Edge
<1>2. QED BY <1>1, AlikeFits

LEMMA CutFits ==
    ASSUME NEW v, Fits(v), NEW cause
    PROVE  Fits(Cut(v, cause))
<1>1. Alike(v, Cut(v, cause))
  BY DEF Fits, Alike, Fields, Cut
<1>2. QED BY <1>1, AlikeFits

LEMMA MarkedFits ==
    ASSUME NEW v, Fits(v), NEW S, NEW role, NEW conf
    PROVE  Fits(Marked(v, S, role, conf))
<1>1. Alike(v, Marked(v, S, role, conf))
  BY DEF Fits, Alike, Fields, Marked
<1>2. QED BY <1>1, AlikeFits

LEMMA StatusFits ==
    ASSUME NEW v, Fits(v), NEW o, NEW status
    PROVE  Fits(Status(v, o, status))
<1>1. Alike(v, Status(v, o, status))
  BY DEF Fits, Alike, Fields, Status
<1>2. QED BY <1>1, AlikeFits

LEMMA ConfirmFits ==
    ASSUME NEW v, Fits(v), NEW o, NEW t
    PROVE  Fits(Confirm(v, o, t))
<1>1. Fits(Edge(Status(v, o, "spent"), "spends", o, t, "high"))
  BY StatusFits, EdgeFits
<1>2. QED BY <1>1 DEF Confirm

LEMMA TrackFits ==
    ASSUME NEW v, Fits(v), NEW t, NEW chosen, NEW anc, NEW conf, NEW depth, NEW recursive
    PROVE  Fits(Track(v, t, chosen, anc, conf, depth, recursive))
<1>1. Alike(v, Track(v, t, chosen, anc, conf, depth, recursive))
  BY DEF Fits, Alike, Fields, Track
<1>2. QED BY <1>1, AlikeFits

LEMMA DetectedFits ==
    ASSUME NEW v, Fits(v), NEW t
    PROVE  Fits([v EXCEPT !.detected = @ \cup {t}])
<1>1. Alike(v, [v EXCEPT !.detected = @ \cup {t}])
  BY DEF Fits, Alike, Fields
<1>2. QED BY <1>1, AlikeFits

-----------------------------------------------------------------------------
(* A new transaction and its outputs.  An output is kept only below the     *)
(* limit: the indices of the kept ones are at most what is left of it.      *)

LEMMA KeptFew ==
    ASSUME NEW v, Fits(v), Positive, NEW t
    PROVE  LET news == {<<t, i>> : i \in KeptOutputs(v, t)}
           IN  /\ IsFiniteSet(news)
               /\ Cardinality(news) + Cardinality(DOMAIN v.outs) <= limits.outputs
<1> DEFINE kept == KeptOutputs(v, t)
           news == {<<t, i>> : i \in kept}
           left == limits.outputs - Cardinality(DOMAIN v.outs)
<1>1. left \in Nat
  BY FS_CardinalityType DEF Fits, Positive
<1>2. kept \subseteq 1 .. left
  BY <1>1, FS_CardinalityType DEF KeptOutputs, OutsOf, Fits, Positive
<1>3. IsFiniteSet(1 .. left) /\ Cardinality(1 .. left) = left
  BY <1>1, FS_Interval
<1>4. IsFiniteSet(kept) /\ Cardinality(kept) <= left
  <2> HIDE DEF kept, left
  <2> QED
    BY <1>2, <1>3, FS_Subset
<1>5. IsFiniteSet(news) /\ Cardinality(news) <= Cardinality(kept)
  <2> DEFINE f == [i \in kept |-> <<t, i>>]
  <2>1. f \in Surjection(kept, news)
    BY DEF Surjection
  <2>2. QED BY <2>1, <1>4, FS_Surjection
<1>6. Cardinality(news) \in Nat /\ Cardinality(kept) \in Nat
      /\ Cardinality(DOMAIN v.outs) \in Nat
  BY <1>4, <1>5, FS_CardinalityType DEF Fits
<1>7. QED BY <1>4, <1>5, <1>6 DEF Positive

LEMMA WithTxFits ==
    ASSUME NEW v, Fits(v), Positive, NEW t,
           t \notin v.nodes, Cardinality(v.nodes) < limits.transactions
    PROVE  Fits(WithTx(v, t))
<1> DEFINE news == {<<t, i>> : i \in KeptOutputs(v, t)}
           u == WithTx(v, t)
<1>1. /\ Fields \subseteq DOMAIN u
      /\ u.nodes = v.nodes \cup {t} /\ DOMAIN u.outs = DOMAIN v.outs \cup news
      /\ u.found = v.found
  BY DEF WithTx, WithOuts, With, Fits, Fields
<1>2. IsFiniteSet(u.nodes) /\ Cardinality(u.nodes) <= limits.transactions
  <2>1. Cardinality(v.nodes) \in Nat /\ limits.transactions \in Nat
    BY FS_CardinalityType DEF Fits, Positive
  <2>2. /\ IsFiniteSet(v.nodes \cup {t})
        /\ Cardinality(v.nodes \cup {t}) = Cardinality(v.nodes) + 1
    BY FS_AddElement DEF Fits
  <2>3. QED BY <1>1, <2>1, <2>2
<1>3. IsFiniteSet(news) /\ Cardinality(news) + Cardinality(DOMAIN v.outs) <= limits.outputs
  BY KeptFew
<1>4. IsFiniteSet(DOMAIN u.outs) /\ Cardinality(DOMAIN u.outs) <= limits.outputs
  <2> DEFINE old == DOMAIN v.outs
  <2>1. IsFiniteSet(old) /\ Cardinality(old) \in Nat /\ Cardinality(news) \in Nat
        /\ Cardinality(old \cap news) \in Nat
    BY <1>3, FS_CardinalityType, FS_Intersection DEF Fits
  <2>2. IsFiniteSet(old \cup news)
        /\ Cardinality(old \cup news)
              = Cardinality(old) + Cardinality(news) - Cardinality(old \cap news)
    BY <1>3, <2>1, FS_Union
  <2>3. QED BY <1>1, <1>3, <2>1, <2>2 DEF Positive
<1>5. QED BY <1>1, <1>2, <1>4 DEF Fits

LEMMA AddTxFits ==
    ASSUME NEW v, Fits(v), Positive, NEW t
    PROVE  Fits(AddTx(v, t))
BY WithTxFits DEF AddTx, TxFits

-----------------------------------------------------------------------------
(* Lookups. *)

LEMMA LookedFits ==
    ASSUME NEW v, Fits(v), Positive, NEW o, ~Exhausted(v, o)
    PROVE  Fits(Looked(v, o))
<1> DEFINE u == Looked(v, o)
<1>1. /\ Fields \subseteq DOMAIN u
      /\ u.nodes = v.nodes /\ u.outs = v.outs
      /\ DOMAIN u.found = DOMAIN v.found \cup {o}
  BY DEF Looked, With, One, Fits, Fields
<1>2. IsFiniteSet(DOMAIN u.found) /\ Cardinality(DOMAIN u.found) <= limits.lookups
  <2>1. Cardinality(DOMAIN v.found) \in Nat /\ limits.lookups \in Nat
    BY FS_CardinalityType DEF Fits, Positive
  <2>2. CASE o \in DOMAIN v.found
    BY <1>1, <2>2 DEF Fits
  <2>3. CASE o \notin DOMAIN v.found
    <3>1. /\ IsFiniteSet(DOMAIN v.found \cup {o})
          /\ Cardinality(DOMAIN v.found \cup {o}) = Cardinality(DOMAIN v.found) + 1
      BY <2>3, FS_AddElement DEF Fits
    <3>2. Cardinality(DOMAIN v.found) < limits.lookups
      BY <2>1, <2>3 DEF Exhausted
    <3>3. QED BY <1>1, <2>1, <3>1, <3>2
  <2>4. QED BY <2>2, <2>3
<1>3. QED BY <1>1, <1>2 DEF Fits

-----------------------------------------------------------------------------
(* Following a round, or the outputs of certain roles. *)

LEMMA EnqueueRolesFits ==
    ASSUME NEW v, Fits(v), NEW t, NEW ancestry, NEW cap, NEW depth
    PROVE  Fits(EnqueueRoles(v, t, ancestry, cap, depth))
<1> DEFINE roles  == Detection[t].roles
           chosen == {i \in WithNode(v, t) : roles[i] \in DOMAIN ancestry}
           anc    == [i \in chosen |-> ancestry[roles[i]]]
           conf   == [i \in chosen |-> LowerConf(Detection[t].confs[i], cap)]
           marked == [v EXCEPT !.outs =
                        [o \in DOMAIN v.outs |->
                           IF o[1] = t /\ o[2] \in chosen
                           THEN [role |-> roles[o[2]], conf |-> conf[o[2]],
                                 status |-> v.outs[o].status]
                           ELSE v.outs[o]]]
<1>1. Fits(marked)
  <2> HIDE DEF roles, chosen, conf
  <2>1. Alike(v, marked)
    BY DEF Fits, Alike, Fields
  <2>2. QED BY <2>1, AlikeFits
<1>2. EnqueueRoles(v, t, ancestry, cap, depth)
        = Track(marked, t, chosen, anc, conf, depth, TRUE)
  BY DEF EnqueueRoles
<1> HIDE DEF roles, chosen, anc, conf, marked
<1>3. QED BY <1>1, <1>2, TrackFits

LEMMA FollowRoundFits ==
    ASSUME NEW v, Fits(v), NEW item, NEW t, NEW depth
    PROVE  Fits(FollowRound(v, item, t, depth))
<1> DEFINE entered == Find(v, "whirlpool_entry", t, {item.out}, Detection[t].conf)
           chosen  == WithNode(v, t)
           conf    == CoinjoinConf(item.conf)
           linked  == [entered EXCEPT !.edges = With(@,
                         [e \in {<<"possible_coinjoin_link", item.out, <<t, i>>>> : i \in chosen}
                            |-> conf])]
           marked  == Marked(linked, {<<t, i>> : i \in chosen}, "coinjoin", conf)
<1>1. Fits(entered)
  BY FindFits
<1>2. Fits(linked)
  <2> HIDE DEF entered, chosen, conf
  <2>1. Alike(entered, linked)
    BY <1>1 DEF Fits, Alike, Fields
  <2>2. QED BY <1>1, <2>1, AlikeFits
<1>3. Fits(marked)
  <2> HIDE DEF linked
  <2>1. QED BY <1>2, MarkedFits
<1>4. FollowRound(v, item, t, depth)
        = Track(marked, t, chosen, [i \in chosen |-> "postmix"],
                [i \in chosen |-> conf], depth, TRUE)
  BY DEF FollowRound
<1> HIDE DEF chosen, conf, marked
<1>5. QED BY <1>3, <1>4, TrackFits

-----------------------------------------------------------------------------
(* Findings about an ordinary spend. *)

LEMMA ConsolidationFits ==
    ASSUME NEW v, Fits(v), NEW t, NEW tracked
    PROVE  Fits(WithConsolidation(v, t, tracked))
<1>1. Fits(Several(v, t, tracked))
  BY FindFits DEF Several
<1>2. ASSUME NEW u, Fits(u) PROVE Fits(Paying(u, t, tracked))
  BY <1>2, FindFits DEF Paying
<1>3. QED BY <1>1, <1>2 DEF WithConsolidation

LEMMA StonewallFits ==
    ASSUME NEW v, Fits(v), NEW t, NEW found
    PROVE  Fits(WithStonewall(v, t, found))
BY FindFits, MarkedFits DEF WithStonewall, Stonewalled

LEMMA PayjoinFits ==
    ASSUME NEW v, Fits(v), NEW t, NEW found
    PROVE  Fits(WithPayjoin(v, t, found))
BY FindFits DEF WithPayjoin

LEMMA ShapedFits ==
    ASSUME NEW v, Fits(v), NEW t, NEW tracked
    PROVE  Fits(Shaped(v, t, tracked))
<1>1. Fits(WithStonewall(WithConsolidation(v, t, tracked), t, StonewallOf(v, t)))
  BY ConsolidationFits, StonewallFits
<1>2. QED BY <1>1, PayjoinFits DEF Shaped

LEMMA CpfpFits ==
    ASSUME NEW v, Fits(v), NEW o, NEW t
    PROVE  Fits(WithCpfp(v, o, t))
BY FindFits DEF WithCpfp

LEMMA DoxxicFits ==
    ASSUME NEW v, Fits(v), NEW item, NEW t
    PROVE  Fits(WithDoxxic(v, item, t)) /\ Fits(WithLaterTx0(v, item, t))
BY FindFits DEF WithDoxxic, WithLaterTx0

LEMMA ReuseFits ==
    ASSUME NEW v, Fits(v)
    PROVE  Fits(WithReuse(v))
<1>1. Alike(v, WithReuse(v))
  BY DEF Fits, Alike, Fields, WithReuse
<1>2. QED BY <1>1, AlikeFits

LEMMA PaymentsFit ==
    ASSUME NEW v, Fits(v), NEW t, NEW taken, NEW protected, NEW depth
    PROVE  Fits(WithPayments(v, t, taken, protected, depth))
<1> DEFINE chosen == (SpendableOuts(t) \cap WithNode(v, t)) \ taken
           marked == Marked(v, {<<t, i>> : i \in chosen \ protected}, "possible_payment", "low")
           found  == [marked EXCEPT !.findings = With(@,
                        [f \in {[kind |-> "possible_payment", tx |-> t, at |-> {<<t, i>>}]
                                  : i \in chosen} |-> "low"])]
<1>1. Fits(marked)
  BY MarkedFits
<1>2. Fits(found)
  <2> HIDE DEF chosen, marked
  <2>1. Alike(marked, found)
    BY <1>1 DEF Fits, Alike, Fields
  <2>2. QED BY <1>1, <2>1, AlikeFits
<1>3. WithPayments(v, t, taken, protected, depth)
        = Track(found, t, chosen, [i \in chosen |-> "possible_payment"],
                [i \in chosen |-> "low"], depth, FALSE)
  BY DEF WithPayments
<1> HIDE DEF chosen, found
<1>4. QED BY <1>2, <1>3, TrackFits

-----------------------------------------------------------------------------
(* A Ricochet: its probes look up within the budget, and its transactions   *)
(* are added one by one like any other.                                     *)

ProbeFits(p) == {"w", "path", "end"} \subseteq DOMAIN p /\ Fits(p.w)

LEMMA HopFits ==
    ASSUME NEW p, ProbeFits(p), Positive
    PROVE  ProbeFits(Hop(p))
<1>1. CASE p.end # "open"
  BY <1>1 DEF Hop
<1>2. CASE p.end = "open" /\ Exhausted(p.w, End(p))
  <2>1. Fits(Cut(p.w, "lookups"))
    BY CutFits DEF ProbeFits
  <2>2. Hop(p) = [w |-> Cut(p.w, "lookups"), path |-> p.path, end |-> "limit"]
    BY <1>2 DEF Hop
  <2>3. QED BY <2>1, <2>2 DEF ProbeFits
<1>3. CASE p.end = "open" /\ ~Exhausted(p.w, End(p))
  <2> DEFINE looked == Looked(p.w, End(p))
  <2>1. Fits(looked)
    BY <1>3, LookedFits DEF ProbeFits
  <2>2. Hop(p) = Advanced(looked, p.path, Onward(looked, p.path, End(p)))
    BY <1>3 DEF Hop
  <2> HIDE DEF looked
  <2>3. QED BY <2>1, <2>2 DEF ProbeFits, Advanced
<1>4. QED BY <1>1, <1>2, <1>3

LEMMA ProbedFits ==
    ASSUME NEW v, Fits(v), Positive, NEW t, NEW i
    PROVE  Fits(Probed(v, t, i).w)
<1>1. ProbeFits(Probe(v, t, i))
  BY DEF ProbeFits, Probe
<1>2. ProbeFits(Probed(v, t, i))
  BY <1>1, HopFits DEF Probed
<1>3. QED BY <1>2 DEF ProbeFits

LEMMA WithHopFits ==
    ASSUME NEW v, Fits(v), NEW from, NEW onto, NEW k
    PROVE  Fits(WithHop(v, from, onto, k))
<1> DEFINE marked == Marked(Marked(v, {from}, "ricochet_hop", "medium"),
                            {onto}, HopRole(k), "medium")
<1>1. Fits(marked)
  BY MarkedFits
<1>2. Alike(marked, WithHop(v, from, onto, k))
  <2>1. WithHop(v, from, onto, k)
          = [marked EXCEPT
               !.detected = @ \cup {onto[1]},
               !.anc[onto] = @ \cup {IF k = 4 THEN "possible_payment" ELSE "postmix"}]
    BY DEF WithHop
  <2> HIDE DEF marked
  <2>2. QED BY <1>1, <2>1 DEF Fits, Alike, Fields
<1>3. QED BY <1>1, <1>2, AlikeFits

LEMMA AddHopFits ==
    ASSUME NEW v, Fits(v), Positive, NEW path, NEW k
    PROVE  Fits(AddHop(v, path, k))
<1>1. Fits(Confirm(AddTx(v, path[k + 1][1]), path[k], path[k + 1][1]))
  BY AddTxFits, ConfirmFits
<1>2. QED BY <1>1, WithHopFits DEF AddHop

LEMMA AddChainFits ==
    ASSUME NEW v, Fits(v), Positive, NEW t, NEW fee, NEW path
    PROVE  Fits(AddChain(v, t, fee, path))
<1> DEFINE marked == Marked(v, {<<t, fee>>}, "ricochet_fee", "medium")
           one    == AddHop(marked, path, 1)
           two    == AddHop(one, path, 2)
           three  == AddHop(two, path, 3)
           four   == AddHop(three, path, 4)
<1>1. Fits(marked)
  BY MarkedFits
<1>2. AddChain(v, t, fee, path) = Find(four, "ricochet", t, {<<t, fee>>}, "medium")
  BY DEF AddChain
<1> HIDE DEF marked
<1>3. Fits(one)
  BY <1>1, AddHopFits
<1> HIDE DEF one
<1>4. Fits(two)
  BY <1>3, AddHopFits
<1> HIDE DEF two
<1>5. Fits(three)
  BY <1>4, AddHopFits
<1> HIDE DEF three
<1>6. Fits(four)
  BY <1>5, AddHopFits
<1> HIDE DEF four
<1>7. QED BY <1>2, <1>6, FindFits

LEMMA ChainedFits ==
    ASSUME NEW v, Fits(v), Positive, NEW t, NEW fee, NEW path
    PROVE  Fits(Chained(v, t, fee, path).w)
<1>1. Fits(AddChain(v, t, fee, path)) /\ Fits(Cut(v, "chain"))
  BY AddChainFits, CutFits
<1>2. Chained(v, t, fee, path).w \in {AddChain(v, t, fee, path), Cut(v, "chain")}
  BY DEF Chained
<1>3. QED BY <1>1, <1>2

LEMMA VerdictFits ==
    ASSUME NEW v, Fits(v), Positive, NEW t, NEW entry, NEW paths
    PROVE  Fits(RicochetVerdict(v, t, entry, paths).w)
<1>1. Fits(Chained(v, t, The(entry.fees), The(paths)).w)
  BY ChainedFits
<1>2. QED BY <1>1 DEF RicochetVerdict

LEMMA JudgedFits ==
    ASSUME NEW first, NEW second, Fits(second.w), Positive, NEW t, NEW entry
    PROVE  Fits(Judged(first, second, t, entry).w)
BY VerdictFits DEF Judged

LEMMA FollowRicochetFits ==
    ASSUME NEW v, Fits(v), Positive, NEW t, NEW entry, NEW depth
    PROVE  Fits(FollowRicochet(v, t, entry, depth).w)
<1>1. ASSUME NEW first, Fits(first.w) PROVE Fits(ProbedBoth(first, t, entry).w)
  <2>1. Fits(Probed(first.w, t, Max(entry.candidates)).w)
    BY <1>1, ProbedFits
  <2>2. CASE first.end = "limit"
    BY <1>1, <2>2, JudgedFits DEF ProbedBoth
  <2>3. CASE first.end # "limit"
    BY <2>1, <2>3, JudgedFits DEF ProbedBoth
  <2>4. QED BY <2>2, <2>3
<1>2. Fits(ProbedBoth(Probed(v, t, Min(entry.candidates)), t, entry).w)
  BY <1>1, ProbedFits
<1>3. Fits(Cut(v, "depth"))
  BY CutFits
<1>4. QED BY <1>2, <1>3 DEF FollowRicochet

LEMMA WithRicochetFits ==
    ASSUME NEW v, Fits(v), Positive, NEW t, NEW entry, NEW depth
    PROVE  Fits(WithRicochet(v, t, entry, depth).w)
<1>1. Fits(FollowRicochet(v, t, The(entry), depth).w)
  BY FollowRicochetFits
<1>2. QED BY <1>1 DEF WithRicochet

LEMMA OrdinaryFits ==
    ASSUME NEW v, Fits(v), Positive, NEW t, NEW depth
    PROVE  Fits(FollowOrdinary(v, t, depth))
<1> DEFINE shaped   == Shaped(v, t, TrackedPostmix(v, t))
           ricochet == WithRicochet(shaped, t,
                          RicochetEntry(Body[t], TrackedPostmix(v, t)), depth)
<1>1. Fits(shaped)
  BY ShapedFits
<1>2. FollowOrdinary(v, t, depth)
        = WithPayments(ricochet.w, t, ricochet.taken, Protected(v, t), depth)
  BY DEF FollowOrdinary, Continued
<1> HIDE DEF shaped
<1>3. Fits(ricochet.w)
  BY <1>1, WithRicochetFits
<1> HIDE DEF ricochet
<1>4. QED BY <1>2, <1>3, PaymentsFit

-----------------------------------------------------------------------------
(* The loop. *)

LEMMA NewWalkFits ==
    ASSUME Positive, NEW t
    PROVE  Fits(NewWalk) /\ Fits([NewWalk EXCEPT !.detected = {t}])
<1>1. Fits(NewWalk)
  <2>1. Fields \subseteq DOMAIN NewWalk
    BY DEF NewWalk, Fields
  <2>2. NewWalk.nodes = {} /\ DOMAIN NewWalk.outs = {} /\ DOMAIN NewWalk.found = {}
    BY DEF NewWalk
  <2>3. QED BY <2>1, <2>2, FS_EmptySet DEF Fits, Positive
<1>2. Alike(NewWalk, [NewWalk EXCEPT !.detected = {t}])
  BY <1>1 DEF Fits, Alike, Fields
<1>3. QED BY <1>1, <1>2, AlikeFits

LEMMA VisitingFits ==
    ASSUME Fits(w)
    PROVE  Fits(Popped) /\ Fits(Visiting)
<1>1. Alike(w, Popped)
  BY DEF Fits, Alike, Fields, Popped
<1>2. Fits(Popped)
  BY <1>1, AlikeFits
<1>3. Alike(Popped, Visiting)
  <2>1. QED BY <1>2 DEF Fits, Alike, Fields, Visiting
<1>4. QED BY <1>2, <1>3, AlikeFits

LEMMA FetchedFits ==
    ASSUME Fits(w), Positive, ~Exhausted(w, Item.out)
    PROVE  Fits(Fetched)
<1>1. ~Exhausted(Visiting, Item.out)
  BY DEF Exhausted, Visiting, Popped, Fits, Fields
<1>2. QED BY <1>1, VisitingFits, LookedFits DEF Fetched

LEMMA RecordedFits ==
    ASSUME Fits(w), Positive, ~Exhausted(w, Item.out)
    PROVE  Fits(Recorded)
<1> DEFINE added == [AddTx(Fetched, Spender) EXCEPT !.detected = @ \cup {Spender}]
<1>1. Fits(AddTx(Fetched, Spender))
  BY FetchedFits, AddTxFits
<1>2. Fits(added)
  BY <1>1, DetectedFits
<1>3. Recorded = WithDoxxic(WithCpfp(Confirm(added, Item.out, Spender),
                                     Item.out, Spender), Item, Spender)
  BY DEF Recorded
<1> HIDE DEF added
<1>4. Fits(Confirm(added, Item.out, Spender))
  BY <1>2, ConfirmFits
<1>5. Fits(WithCpfp(Confirm(added, Item.out, Spender), Item.out, Spender))
  BY <1>4, CpfpFits
<1>6. QED BY <1>3, <1>5, DoxxicFits

-----------------------------------------------------------------------------
(* The invariant: the limits are among the possible ones, the walk fits.    *)

IInv == limits \in LimitChoices /\ Fits(w)

LEMMA InitFits == Init => IInv
BY NewWalkFits, LimitsArePositive DEF Init, IInv, Positive

LEMMA NextFits == IInv /\ [Next]_vars => IInv'
<1> SUFFICES ASSUME IInv, [Next]_vars PROVE IInv'
  OBVIOUS
<1>a. Positive /\ Fits(w)
  BY LimitsArePositive DEF IInv, Positive
<1>b. ASSUME NEW u, Fits(u), w' = u, limits' = limits PROVE IInv'
  BY <1>b DEF IInv, Fits, Fields
<1>1. CASE Begin
  <2> DEFINE v == AddTx([NewWalk EXCEPT !.detected = {root}], root)
             tx0 == EnqueueRoles(v, root, Tx0Ancestry, "high", 0)
             round == EnqueueRoles(v, root, RoundAncestry, "medium", 0)
  <2>1. Fits(v)
    BY <1>a, NewWalkFits, AddTxFits
  <2>2. w' \in {tx0, round, v} /\ limits' = limits
    BY <1>1 DEF Begin
  <2> HIDE DEF v
  <2>3. Fits(tx0) /\ Fits(round)
    BY <2>1, EnqueueRolesFits
  <2> HIDE DEF tx0, round
  <2>4. QED BY <2>1, <2>2, <2>3, <1>b
<1>2. CASE Repeat
  BY <1>2, <1>a, <1>b, VisitingFits DEF Repeat
<1>3. CASE TooDeep
  BY <1>3, <1>a, <1>b, VisitingFits, CutFits DEF TooDeep
<1>4. CASE OutOfLookups
  BY <1>4, <1>a, <1>b, VisitingFits, CutFits DEF OutOfLookups
<1>5. CASE Unspent
  <2>1. Fits(Status(Fetched, Item.out, "unspent"))
    BY <1>5, <1>a, FetchedFits, StatusFits DEF Unspent
  <2>2. Fits(Find(Status(Fetched, Item.out, "unspent"),
                  "unspent", Item.out[1], {Item.out}, Item.conf))
    BY <2>1, FindFits
  <2>3. QED BY <1>5, <1>b, <2>2 DEF Unspent
<1>6. CASE OutOfTransactions
  <2>1. Fits(Cut(Fetched, "transactions"))
    BY <1>6, <1>a, FetchedFits, CutFits DEF OutOfTransactions
  <2>2. Fits([Cut(Fetched, "transactions") EXCEPT !.detected = @ \cup {Spender}])
    BY <2>1, DetectedFits
  <2>3. QED BY <1>6, <1>b, <2>2 DEF OutOfTransactions
<1>c. Followed => Fits(Recorded) /\ limits' = limits
  BY <1>a, RecordedFits DEF Followed
<1>7. CASE LastSpend
  BY <1>7, <1>b, <1>c DEF LastSpend
<1>8. CASE EnterRound
  <2>1. Fits(Recorded) /\ limits' = limits
    BY <1>8, <1>c DEF EnterRound, Becomes
  <2>2. Fits(FollowRound(Recorded, Item, Spender, Item.depth + 1))
    BY <2>1, FollowRoundFits
  <2>3. QED BY <1>8, <1>b, <2>1, <2>2 DEF EnterRound
<1>9. CASE EnterTx0
  <2>1. Fits(Recorded) /\ limits' = limits
    BY <1>9, <1>c DEF EnterTx0, Becomes
  <2>2. Fits(WithLaterTx0(Recorded, Item, Spender))
    BY <2>1, DoxxicFits
  <2>3. Fits(EnqueueRoles(WithLaterTx0(Recorded, Item, Spender), Spender,
                          Tx0Ancestry, "high", Item.depth + 1))
    BY <2>2, EnqueueRolesFits
  <2>4. QED BY <1>9, <1>b, <2>1, <2>3 DEF EnterTx0
<1>10. CASE OrdinarySpend
  <2>1. Fits(Recorded) /\ limits' = limits
    BY <1>10, <1>c DEF OrdinarySpend, Becomes
  <2>2. Fits(FollowOrdinary(Recorded, Spender, Item.depth + 1))
    BY <1>a, <2>1, OrdinaryFits
  <2>3. QED BY <1>10, <1>b, <2>1, <2>2 DEF OrdinarySpend
<1>11. CASE Drained \/ Fails \/ NodeLearns \/ Finished \/ UNCHANGED vars
  BY <1>11, <1>a, <1>b DEF Drained, Fails, NodeLearns, Finished, vars
<1>12. CASE Report
  BY <1>12, <1>a, <1>b, ReuseFits DEF Report
<1>13. QED
  BY <1>1, <1>2, <1>3, <1>4, <1>5, <1>6, <1>7, <1>8, <1>9, <1>10, <1>11, <1>12
     DEF Next, Step

(* Whatever the graph, the limits and the node's answers, no report exceeds *)
(* a limit (TraceLimits, _ExposureTracer).                                  *)
THEOREM ReportsWithinBudgets == Spec => []WithinBudgets
<1>1. IInv => WithinBudgets
  BY DEF IInv, Fits, WithinBudgets
<1>2. QED BY <1>1, InitFits, NextFits, PTL DEF Spec

-----------------------------------------------------------------------------
(* An honest walk: what makes its confidences, statuses and findings agree. *)

Ancestries == {"premix", "doxxic_change", "postmix", "possible_payment"}
Confs == {"low", "medium", "high"}
Kind(o) == Detection[o[1]].kind

\* An item of high confidence, or of doxxic change, is an output of a Tx0.
Justified(x) == x.conf = "high" \/ x.anc = "doxxic_change" => Kind(x.out) = "tx0"

\* The items that may wait while the outputs D have nodes.
Items(D) ==
    {x \in [out : D, anc : Ancestries, conf : Confs, depth : Int, recursive : BOOLEAN] :
        Justified(x) /\ (x.anc = "postmix" => Kind(x.out) # "tx0")}

\* A finding of high confidence says what a spend itself shows, or is about
\* outputs of a Tx0.
Grounded(f, conf) ==
    conf = "high" => f.kind \in ShownBySpend \/ \A o \in f.at : Kind(o) = "tx0"

\* Nodes and spenders are of the graph; each output node is an output of a
\* transaction node; an output is tracked by the ancestries there are.
Placed(v) ==
    /\ v.nodes \subseteq Tx
    /\ \A o \in DOMAIN v.outs :
          /\ o = <<o[1], o[2]>> /\ o[1] \in v.nodes /\ o[2] \in OutsOf(Body[o[1]])
          /\ {"conf", "status"} \subseteq DOMAIN v.outs[o]
    /\ v.anc \in [Outpoints -> SUBSET Ancestries]
    /\ v.frontier \in Seq(Items(DOMAIN v.outs))
    /\ \A o \in DOMAIN v.found : v.found[o] \subseteq Tx

\* Nothing behind a round is certain.  Only outputs of a Tx0 are, and these
\* are never taken for outputs of a round.
Modest(v) ==
    /\ \A o \in Outpoints : "postmix" \in v.anc[o] => Kind(o) # "tx0"
    /\ \A o \in DOMAIN v.outs : "postmix" \in v.anc[o] => v.outs[o].conf # "high"
    /\ \A e \in DOMAIN v.edges : e[1] = "possible_coinjoin_link" => v.edges[e] # "high"
    /\ \A f \in DOMAIN v.findings : Grounded(f, v.findings[f])

\* Statuses, findings and edges say the same, and what the lookups said.
UnspentBacked(v) ==
    \A f \in DOMAIN v.findings : f.kind = "unspent" =>
       \E o \in DOMAIN v.outs : /\ f.at = {o} /\ v.outs[o].status = "unspent"
                                /\ o \in DOMAIN v.found /\ v.found[o] = {}

SpendsBacked(v) ==
    \A e \in DOMAIN v.edges : e[1] = "spends" =>
       /\ e[2] \in DOMAIN v.outs /\ v.outs[e[2]].status = "spent"
       /\ e[2] \in DOMAIN v.found /\ v.found[e[2]] # {}

StatusBacked(v) ==
    \A o \in DOMAIN v.outs :
       /\ v.outs[o].status = "unspent" =>
             \E f \in DOMAIN v.findings : f.kind = "unspent" /\ f.at = {o}
       /\ v.outs[o].status = "spent" =>
             \E e \in DOMAIN v.edges : e[1] = "spends" /\ e[2] = o

Agreed(v) == UnspentBacked(v) /\ SpendsBacked(v) /\ StatusBacked(v)

\* The outputs of a round are tracked all at once or not at all.
AllAtOnce(v) ==
    \A o \in Outpoints :
       "postmix" \in v.anc[o] /\ Kind(o) = "whirlpool_round" =>
          /\ o \in DOMAIN v.outs
          /\ \A x \in DOMAIN v.outs : x[1] = o[1] => "postmix" \in v.anc[x]

\* The inputs of t that are nodes of the parent p.
ParentNodes(v, t, p) == {x \in InSet(Body[t]) : x[1] = p /\ x \in DOMAIN v.outs}

\* A finding about a fee bump names all of them.
BumpsWhole(v) ==
    \A f \in DOMAIN v.findings : f.kind = "whirlpool_cpfp" =>
       /\ f = [kind |-> f.kind, tx |-> f.tx, at |-> f.at]
       /\ f.at # {}
       /\ \E p \in v.nodes : f.at = ParentNodes(v, f.tx, p)

Honest(v) ==
    /\ Fields \subseteq DOMAIN v
    /\ Placed(v) /\ Modest(v) /\ Agreed(v) /\ AllAtOnce(v) /\ BumpsWhole(v)

-----------------------------------------------------------------------------
(* What a helper may do to a walk without touching what keeps it honest:    *)
(* relabel outputs, but with high confidence only those of a Tx0, and add   *)
(* grounded findings, and edges of the kinds the invariant does not speak   *)
(* of.                                                                      *)

Relabelled(v, u) ==
    /\ DOMAIN u.outs = DOMAIN v.outs
    /\ \A o \in DOMAIN v.outs :
          /\ {"conf", "status"} \subseteq DOMAIN u.outs[o]
          /\ u.outs[o].status = v.outs[o].status
          /\ u.outs[o].conf = v.outs[o].conf \/ u.outs[o].conf # "high" \/ Kind(o) = "tx0"

AddsFindings(v, u) ==
    /\ \A f \in DOMAIN v.findings : f \in DOMAIN u.findings /\ u.findings[f] = v.findings[f]
    /\ \A f \in DOMAIN u.findings :
          \/ f \in DOMAIN v.findings
          \/ f.kind \notin {"unspent", "whirlpool_cpfp"} /\ Grounded(f, u.findings[f])

AddsEdges(v, u) ==
    /\ \A e \in DOMAIN v.edges : e \in DOMAIN u.edges /\ u.edges[e] = v.edges[e]
    /\ \A e \in DOMAIN u.edges :
          \/ e \in DOMAIN v.edges
          \/ e[1] # "spends" /\ (e[1] = "possible_coinjoin_link" => u.edges[e] # "high")

SameCourse(v, u) ==
    /\ Fields \subseteq DOMAIN u
    /\ u.nodes = v.nodes /\ u.anc = v.anc /\ u.found = v.found /\ u.frontier = v.frontier

LEMMA NodesAreOutpoints ==
    ASSUME NEW v, Placed(v) PROVE DOMAIN v.outs \subseteq Outpoints
<1> SUFFICES ASSUME NEW o \in DOMAIN v.outs PROVE o \in Outpoints
  OBVIOUS
<1>1. o = <<o[1], o[2]>> /\ o[1] \in Tx /\ o[2] \in OutsOf(Body[o[1]])
  BY DEF Placed
<1>2. <<o[1], o[2]>> \in DOMAIN OutputAt
  <2>1. \A t \in Tx : \A i \in OutsOf(Body[t]) : <<t, i>> \in DOMAIN OutputAt
    BY GraphAssumption
  <2> QED
    BY <1>1, <2>1
<1> QED
  BY <1>1, <1>2 DEF Outpoints

LEMMA StatusStays ==
    ASSUME NEW v, NEW u, StatusBacked(v),
           DOMAIN u.outs = DOMAIN v.outs,
           \A o \in DOMAIN v.outs : u.outs[o].status = v.outs[o].status,
           DOMAIN v.findings \subseteq DOMAIN u.findings,
           DOMAIN v.edges \subseteq DOMAIN u.edges
    PROVE  StatusBacked(u)
<1> SUFFICES ASSUME NEW o \in DOMAIN v.outs
             PROVE  /\ v.outs[o].status = "unspent" =>
                          \E f \in DOMAIN u.findings : f.kind = "unspent" /\ f.at = {o}
                    /\ v.outs[o].status = "spent" =>
                          \E e \in DOMAIN u.edges : e[1] = "spends" /\ e[2] = o
  BY DEF StatusBacked
<1>1. /\ v.outs[o].status = "unspent" =>
            \E f \in DOMAIN v.findings : f.kind = "unspent" /\ f.at = {o}
      /\ v.outs[o].status = "spent" =>
            \E e \in DOMAIN v.edges : e[1] = "spends" /\ e[2] = o
  BY DEF StatusBacked
<1> QED
  BY <1>1

LEMMA HonestFrame ==
    ASSUME NEW v, Honest(v), NEW u, SameCourse(v, u),
           Relabelled(v, u), AddsFindings(v, u), AddsEdges(v, u)
    PROVE  Honest(u)
<1>0. /\ Placed(v) /\ Modest(v) /\ Agreed(v) /\ AllAtOnce(v) /\ BumpsWhole(v)
      /\ u.nodes = v.nodes /\ u.anc = v.anc /\ u.found = v.found /\ u.frontier = v.frontier
      /\ DOMAIN u.outs = DOMAIN v.outs
  BY DEF Honest, SameCourse, Relabelled
<1>1. Placed(u)
  BY <1>0 DEF Placed, Relabelled
<1>2. Modest(u)
  <2>1. \A o \in DOMAIN u.outs : "postmix" \in u.anc[o] => u.outs[o].conf # "high"
    <3> TAKE o \in DOMAIN u.outs
    <3>1. o \in Outpoints => ("postmix" \in u.anc[o] => Kind(o) # "tx0")
      BY <1>0 DEF Modest
    <3>2. o \in Outpoints
      BY <1>0, NodesAreOutpoints
    <3>3. "postmix" \in v.anc[o] => v.outs[o].conf # "high"
      BY <1>0 DEF Modest
    <3>4. u.outs[o].conf = v.outs[o].conf \/ u.outs[o].conf # "high" \/ Kind(o) = "tx0"
      BY <1>0 DEF Relabelled
    <3> QED
      BY <1>0, <3>1, <3>2, <3>3, <3>4
  <2>2. \A f \in DOMAIN u.findings : Grounded(f, u.findings[f])
    BY <1>0 DEF Modest, AddsFindings
  <2>3. \A e \in DOMAIN u.edges : e[1] = "possible_coinjoin_link" => u.edges[e] # "high"
    BY <1>0 DEF Modest, AddsEdges
  <2> QED
    BY <1>0, <2>1, <2>2, <2>3 DEF Modest
<1>3. Agreed(u)
  <2>1. \A o \in DOMAIN u.outs : u.outs[o].status = v.outs[o].status
    BY <1>0 DEF Relabelled
  <2>2. \A f \in DOMAIN u.findings : f.kind = "unspent" => f \in DOMAIN v.findings
    BY DEF AddsFindings
  <2>3. \A e \in DOMAIN u.edges : e[1] = "spends" => e \in DOMAIN v.edges
    BY DEF AddsEdges
  <2>4. DOMAIN v.findings \subseteq DOMAIN u.findings /\ DOMAIN v.edges \subseteq DOMAIN u.edges
    BY DEF AddsFindings, AddsEdges
  <2>5. UnspentBacked(u)
    BY <1>0, <2>1, <2>2 DEF Agreed, UnspentBacked
  <2>6. SpendsBacked(u)
    BY <1>0, <2>1, <2>3 DEF Agreed, SpendsBacked
  <2>7. StatusBacked(u)
    BY <1>0, <2>1, <2>4, StatusStays DEF Agreed
  <2> QED
    BY <2>5, <2>6, <2>7 DEF Agreed
<1>4. AllAtOnce(u)
  BY <1>0 DEF AllAtOnce
<1>5. BumpsWhole(u)
  <2>1. \A f \in DOMAIN u.findings : f.kind = "whirlpool_cpfp" => f \in DOMAIN v.findings
    BY DEF AddsFindings
  <2>2. \A t, p : ParentNodes(u, t, p) = ParentNodes(v, t, p)
    BY <1>0 DEF ParentNodes
  <2> QED
    BY <1>0, <2>1, <2>2 DEF BumpsWhole
<1> QED
  BY <1>1, <1>2, <1>3, <1>4, <1>5 DEF Honest, SameCourse

\* Nothing of this changed at all.
LEMMA Unchanged ==
    ASSUME NEW v, NEW u
    PROVE  /\ Honest(v) /\ u.outs = v.outs => Relabelled(v, u)
           /\ u.findings = v.findings => AddsFindings(v, u)
           /\ u.edges = v.edges => AddsEdges(v, u)
<1>1. Honest(v) /\ u.outs = v.outs => Relabelled(v, u)
  BY DEF Honest, Placed, Relabelled
<1>2. u.findings = v.findings => AddsFindings(v, u)
  BY DEF AddsFindings
<1>3. u.edges = v.edges => AddsEdges(v, u)
  BY DEF AddsEdges
<1> QED
  BY <1>1, <1>2, <1>3

LEMMA WithType ==
    ASSUME NEW f, NEW g
    PROVE  /\ DOMAIN With(f, g) = DOMAIN f \cup DOMAIN g
           /\ \A k \in DOMAIN f : With(f, g)[k] = f[k]
           /\ \A k \in DOMAIN g \ DOMAIN f : With(f, g)[k] = g[k]
BY DEF With

LEMMA FindHonest ==
    ASSUME NEW v, Honest(v), NEW kind, kind \notin {"unspent", "whirlpool_cpfp"},
           NEW t, NEW at, NEW conf,
           conf = "high" => kind \in ShownBySpend \/ \A o \in at : Kind(o) = "tx0"
    PROVE  Honest(Find(v, kind, t, at, conf))
<1> DEFINE u == Find(v, kind, t, at, conf)
           f == [kind |-> kind, tx |-> t, at |-> at]
<1>1. Fields \subseteq DOMAIN v
  BY DEF Honest
<1>2. SameCourse(v, u) /\ u.outs = v.outs /\ u.edges = v.edges
  BY <1>1 DEF Find, SameCourse, Fields
<1>3. u.findings = With(v.findings, One(f, conf))
  BY <1>1 DEF Find, Fields
<1>4. DOMAIN One(f, conf) = {f} /\ One(f, conf)[f] = conf /\ f.kind = kind
  BY DEF One
<1>g. Grounded(f, conf)
  BY DEF Grounded
<1> HIDE DEF u, f
<1>5. AddsFindings(v, u)
  <2> DEFINE old == v.findings
             one == One(f, conf)
  <2>0. u.findings = With(old, one) /\ DOMAIN one = {f} /\ one[f] = conf
    BY <1>3, <1>4
  <2> HIDE DEF old, one
  <2>1. DOMAIN u.findings = DOMAIN old \cup {f}
    BY <2>0 DEF With
  <2>2. \A g \in DOMAIN old : u.findings[g] = old[g]
    BY <2>0 DEF With
  <2>3. f \in DOMAIN old \/ u.findings[f] = conf
    BY <2>0 DEF With
  <2> QED
    BY <1>4, <1>g, <2>1, <2>2, <2>3 DEF AddsFindings, old
<1>6. Honest(u)
  BY <1>2, <1>5, Unchanged, HonestFrame
<1> QED
  BY <1>6 DEF u

LEMMA CutHonest ==
    ASSUME NEW v, Honest(v), NEW cause
    PROVE  Honest(Cut(v, cause))
<1> DEFINE u == Cut(v, cause)
<1>1. Fields \subseteq DOMAIN v
  BY DEF Honest
<1>2. SameCourse(v, u) /\ u.outs = v.outs /\ u.edges = v.edges /\ u.findings = v.findings
  BY <1>1 DEF Cut, SameCourse, Fields
<1> HIDE DEF u
<1>3. Honest(u)
  BY <1>2, Unchanged, HonestFrame
<1> QED
  BY <1>3 DEF u

LEMMA DetectedHonest ==
    ASSUME NEW v, Honest(v), NEW t
    PROVE  Honest([v EXCEPT !.detected = @ \cup {t}])
<1> DEFINE u == [v EXCEPT !.detected = @ \cup {t}]
<1>1. Fields \subseteq DOMAIN v
  BY DEF Honest
<1>2. SameCourse(v, u) /\ u.outs = v.outs /\ u.edges = v.edges /\ u.findings = v.findings
  BY <1>1 DEF SameCourse, Fields
<1> HIDE DEF u
<1>3. Honest(u)
  BY <1>2, Unchanged, HonestFrame
<1> QED
  BY <1>3 DEF u

LEMMA MarkedHonest ==
    ASSUME NEW v, Honest(v), NEW S, NEW role, NEW conf, conf # "high"
    PROVE  Honest(Marked(v, S, role, conf))
<1> DEFINE u == Marked(v, S, role, conf)
<1>1. Fields \subseteq DOMAIN v /\ Placed(v)
  BY DEF Honest
<1>2. /\ SameCourse(v, u) /\ u.edges = v.edges /\ u.findings = v.findings
      /\ u.outs = [o \in DOMAIN v.outs |->
                     IF o \in S THEN [role |-> role, conf |-> conf, status |-> v.outs[o].status]
                     ELSE v.outs[o]]
  BY <1>1 DEF Marked, SameCourse, Fields
<1> HIDE DEF u
<1>3. Relabelled(v, u)
  BY <1>1, <1>2 DEF Relabelled, Placed
<1>4. Honest(u)
  BY <1>2, <1>3, Unchanged, HonestFrame
<1> QED
  BY <1>4 DEF u

-----------------------------------------------------------------------------
(* Joining the frontier. *)

LEMMA InOrderType ==
    ASSUME NEW S, S \subseteq Nat, IsFiniteSet(S)
    PROVE  /\ InOrder(S) \in Seq(S)
           /\ \A i \in S : \E k \in DOMAIN InOrder(S) : InOrder(S)[k] = i
<1> DEFINE n == Cardinality(S)
           Below(i) == {j \in S : j < i}
           f == [i \in S |-> Cardinality(Below(i))]
<1>1. n \in Nat
  BY FS_CardinalityType
<1>2. \A i \in S : /\ IsFiniteSet(Below(i)) /\ Cardinality(Below(i)) \in Nat
                   /\ Cardinality(Below(i)) < n
  <2> TAKE i \in S
  <2>1. Below(i) \subseteq S /\ i \notin Below(i)
    OBVIOUS
  <2> HIDE DEF Below
  <2>2. IsFiniteSet(Below(i)) /\ Cardinality(Below(i)) <= n /\ Cardinality(Below(i)) # n
    BY <2>1, FS_Subset
  <2>3. Cardinality(Below(i)) \in Nat
    BY <2>2, FS_CardinalityType
  <2> QED
    BY <1>1, <2>2, <2>3
<1>3. \A i, j \in S : i < j => Cardinality(Below(i)) < Cardinality(Below(j))
  <2> SUFFICES ASSUME NEW i \in S, NEW j \in S, i < j
               PROVE  Cardinality(Below(i)) < Cardinality(Below(j))
    OBVIOUS
  <2>0. \A x \in S : x \in Nat
    OBVIOUS
  <2>a. \A x \in S : x < i => x < j
    BY <2>0
  <2>b. ~(i < i)
    BY <2>0
  <2>1. Below(i) \subseteq Below(j) /\ i \in Below(j) /\ i \notin Below(i)
    BY <2>a, <2>b
  <2> HIDE DEF Below
  <2>2. /\ Cardinality(Below(i)) <= Cardinality(Below(j))
        /\ Cardinality(Below(i)) # Cardinality(Below(j))
    BY <1>2, <2>1, FS_Subset
  <2> QED
    BY <1>2, <2>2
<1> HIDE DEF n, Below
<1>4. f \in Injection(S, 0 .. n - 1)
  <2>1. f \in [S -> 0 .. n - 1]
    BY <1>1, <1>2
  <2>2. \A i, j \in S : f[i] = f[j] => i = j
    <3> SUFFICES ASSUME NEW i \in S, NEW j \in S, f[i] = f[j] PROVE i = j
      OBVIOUS
    <3>1. i \in Nat /\ j \in Nat
      OBVIOUS
    <3> QED
      BY <1>2, <1>3, <3>1
  <2> HIDE DEF f
  <2> QED
    BY <2>1, <2>2 DEF Injection, IsInjective
<1>5. IsFiniteSet(0 .. n - 1) /\ Cardinality(0 .. n - 1) = n
  BY <1>1, FS_Interval
<1> DEFINE T == 0 .. n - 1
<1>6. f \in Surjection(S, T)
  <2>1. f \in Injection(S, T) /\ IsFiniteSet(T) /\ Cardinality(S) = Cardinality(T)
    BY <1>4, <1>5 DEF n
  <2> HIDE DEF f, T
  <2> QED
    BY <2>1, FS_Injection
<1>7. \A k \in 1 .. n : \E i \in S : Cardinality(Below(i)) = k - 1
  <2> TAKE k \in 1 .. n
  <2>1. k - 1 \in T
    BY <1>1
  <2>2. \E i \in S : f[i] = k - 1
    BY <1>6, <2>1 DEF Surjection
  <2> QED
    BY <2>2
<1>8. InOrder(S) = [k \in 1 .. n |-> CHOOSE i \in S : Cardinality(Below(i)) = k - 1]
  BY DEF InOrder, n, Below
<1>9. InOrder(S) \in [1 .. n -> S]
  BY <1>7, <1>8
<1>10. ASSUME NEW i \in S PROVE \E k \in DOMAIN InOrder(S) : InOrder(S)[k] = i
  <2> DEFINE k == f[i] + 1
             j == InOrder(S)[k]
  <2>1. f[i] \in 0 .. n - 1 /\ f \in [S -> 0 .. n - 1]
        /\ \A x, y \in S : f[x] = f[y] => x = y
    BY <1>4 DEF Injection, IsInjective
  <2>2. k \in 1 .. n /\ f[i] = k - 1
    BY <1>1, <2>1
  <2>3. \A x \in S : f[x] = Cardinality(Below(x))
    OBVIOUS
  <2> HIDE DEF f, k
  <2>4. j \in S /\ Cardinality(Below(j)) = k - 1
    BY <1>7, <1>8, <2>2
  <2>5. f[j] = f[i]
    BY <2>2, <2>3, <2>4
  <2>6. j = i
    BY <2>1, <2>4, <2>5
  <2> QED
    BY <1>8, <2>2, <2>6
<1> QED
  BY <1>1, <1>9, <1>10

LEMMA ItemsGrow ==
    ASSUME NEW D, NEW E, D \subseteq E
    PROVE  Seq(Items(D)) \subseteq Seq(Items(E))
<1>1. Items(D) \subseteq Items(E)
  BY DEF Items
<1> HIDE DEF Items
<1> QED
  BY <1>1

LEMMA OutsAreFinite ==
    ASSUME NEW t \in Tx, NEW S, S \subseteq OutsOf(Body[t])
    PROVE  S \subseteq Nat /\ IsFiniteSet(S)
<1>1. Len(Body[t].outs) \in Nat
  BY GraphAssumption
<1>2. S \subseteq 1 .. Len(Body[t].outs)
  BY DEF OutsOf
<1>3. IsFiniteSet(1 .. Len(Body[t].outs))
  BY <1>1, FS_Interval
<1>4. IsFiniteSet(S)
  BY <1>2, <1>3, FS_Subset
<1> QED
  BY <1>1, <1>2, <1>4

LEMMA TrackHonest ==
    ASSUME NEW v, Honest(v), NEW t \in Tx, NEW chosen, chosen \subseteq WithNode(v, t),
           NEW anc \in [chosen -> Ancestries], NEW conf \in [chosen -> Confs],
           NEW depth \in Int, NEW recursive \in BOOLEAN,
           Detection[t].kind # "tx0" => \A i \in chosen : conf[i] # "high",
           \A i \in chosen : anc[i] = "postmix" =>
              Detection[t].kind # "tx0" /\ v.outs[<<t, i>>].conf # "high",
           \A i \in chosen : anc[i] = "doxxic_change" => Detection[t].kind = "tx0",
           Detection[t].kind = "whirlpool_round" =>
              chosen = WithNode(v, t) /\ \A i \in chosen : anc[i] = "postmix"
    PROVE  Honest(Track(v, t, chosen, anc, conf, depth, recursive))
<1> DEFINE u == Track(v, t, chosen, anc, conf, depth, recursive)
           order == InOrder(chosen)
           more == [k \in DOMAIN order |->
                      [out |-> <<t, order[k]>>, anc |-> anc[order[k]],
                       conf |-> conf[order[k]], depth |-> depth, recursive |-> recursive]]
           D == DOMAIN v.outs
<1>0. /\ Fields \subseteq DOMAIN v /\ Placed(v) /\ Modest(v) /\ Agreed(v) /\ AllAtOnce(v)
      /\ BumpsWhole(v)
  BY DEF Honest
<1>1. /\ Fields \subseteq DOMAIN u
      /\ u.nodes = v.nodes /\ u.found = v.found /\ u.outs = v.outs
      /\ u.edges = v.edges /\ u.findings = v.findings
      /\ u.frontier = v.frontier \o more
      /\ u.anc = [o \in Outpoints |-> IF o[1] = t /\ o[2] \in chosen
                                      THEN v.anc[o] \cup {anc[o[2]]} ELSE v.anc[o]]
  BY <1>0 DEF Track, Queued, Fields
<1>2. chosen \subseteq Nat /\ IsFiniteSet(chosen)
  <2>1. chosen \subseteq OutsOf(Body[t])
    BY DEF WithNode
  <2> QED
    BY <2>1, OutsAreFinite
<1>3. order \in Seq(chosen)
  BY <1>2, InOrderType
<1>4. \A i \in chosen : <<t, i>> \in D
  BY DEF WithNode
<1> HIDE DEF u, order
<1>5. more \in Seq(Items(D))
  <2>1. \A i \in chosen :
           [out |-> <<t, i>>, anc |-> anc[i], conf |-> conf[i], depth |-> depth,
            recursive |-> recursive] \in Items(D)
    <3> TAKE i \in chosen
    <3>1. conf[i] = "high" \/ anc[i] = "doxxic_change" => Kind(<<t, i>>) = "tx0"
      BY DEF Kind
    <3>2. anc[i] = "postmix" => Kind(<<t, i>>) # "tx0"
      BY DEF Kind
    <3> QED
      BY <1>4, <3>1, <3>2 DEF Items, Justified
  <2> HIDE DEF D, Items
  <2> QED
    BY <1>3, <2>1
<1> HIDE DEF more
<1>6. Placed(u)
  <2>1. u.anc \in [Outpoints -> SUBSET Ancestries]
    BY <1>0, <1>1 DEF Placed
  <2>2. u.frontier \in Seq(Items(DOMAIN u.outs))
    <3>1. v.frontier \in Seq(Items(D))
      BY <1>0 DEF Placed
    <3> HIDE DEF D, Items
    <3> QED
      BY <1>1, <1>5, <3>1 DEF D
  <2> QED
    BY <1>0, <1>1, <2>1, <2>2 DEF Placed
<1>7. \A o \in Outpoints : "postmix" \in u.anc[o] =>
         \/ "postmix" \in v.anc[o]
         \/ o[1] = t /\ o[2] \in chosen /\ anc[o[2]] = "postmix"
  BY <1>1
<1>8. \A o \in Outpoints : v.anc[o] \subseteq u.anc[o]
  BY <1>1
<1>9. \A o \in Outpoints : o = <<o[1], o[2]>>
  BY GraphAssumption DEF Outpoints
<1>10. D \subseteq Outpoints
  BY <1>0, NodesAreOutpoints
<1>11. Modest(u)
  <2>1. \A o \in Outpoints : "postmix" \in u.anc[o] => Kind(o) # "tx0"
    BY <1>0, <1>7 DEF Modest, Kind
  <2>2. \A o \in D : "postmix" \in u.anc[o] => v.outs[o].conf # "high"
    BY <1>0, <1>7, <1>9, <1>10 DEF Modest
  <2> QED
    BY <1>0, <1>1, <2>1, <2>2 DEF Modest
<1>12. Agreed(u)
  <2>0. /\ UnspentBacked(v) /\ SpendsBacked(v) /\ StatusBacked(v)
        /\ u.outs = v.outs /\ u.found = v.found /\ u.edges = v.edges
        /\ u.findings = v.findings
    BY <1>0, <1>1 DEF Agreed
  <2>1. UnspentBacked(u)
    BY <2>0 DEF UnspentBacked
  <2>2. SpendsBacked(u)
    BY <2>0 DEF SpendsBacked
  <2>3. StatusBacked(u)
    <3>1. /\ DOMAIN u.outs = DOMAIN v.outs
          /\ \A o \in DOMAIN v.outs : u.outs[o].status = v.outs[o].status
          /\ DOMAIN v.findings \subseteq DOMAIN u.findings
          /\ DOMAIN v.edges \subseteq DOMAIN u.edges
      BY <2>0
    <3>2. StatusBacked(v)
      BY <2>0
    <3> QED
      BY <3>1, <3>2, StatusStays
  <2> QED
    BY <2>1, <2>2, <2>3 DEF Agreed
<1>13. AllAtOnce(u)
  <2> SUFFICES ASSUME NEW o \in Outpoints, "postmix" \in u.anc[o],
                      Kind(o) = "whirlpool_round"
               PROVE  /\ o \in D
                      /\ \A x \in D : x[1] = o[1] => "postmix" \in u.anc[x]
    BY <1>1 DEF AllAtOnce
  <2>1. CASE "postmix" \in v.anc[o]
    BY <1>0, <1>8, <1>10, <2>1 DEF AllAtOnce
  <2>2. CASE o[1] = t /\ o[2] \in chosen
    <3>1. o \in D
      BY <1>4, <1>9, <2>2
    <3>2. chosen = WithNode(v, t) /\ \A i \in chosen : anc[i] = "postmix"
      BY <2>2 DEF Kind
    <3>3. ASSUME NEW x \in D, x[1] = t PROVE "postmix" \in u.anc[x]
      <4>1. x = <<t, x[2]>> /\ x[2] \in OutsOf(Body[t]) /\ x \in Outpoints
        BY <1>0, <1>10, <3>3 DEF Placed
      <4>2. x[2] \in chosen
        BY <3>2, <4>1 DEF WithNode
      <4> QED
        BY <1>1, <3>2, <3>3, <4>1, <4>2
    <3> QED
      BY <2>2, <3>1, <3>3
  <2> QED
    BY <1>7, <2>1, <2>2
<1>14. BumpsWhole(u)
  <2>1. \A s, p : ParentNodes(u, s, p) = ParentNodes(v, s, p)
    BY <1>1 DEF ParentNodes
  <2> QED
    BY <1>0, <1>1, <2>1 DEF BumpsWhole
<1>15. Honest(u)
  BY <1>1, <1>6, <1>11, <1>12, <1>13, <1>14 DEF Honest
<1> QED
  BY <1>15 DEF u

-----------------------------------------------------------------------------
(* What the detector says: of unknown transactions and of the outputs of    *)
(* rounds, and never anything of a transaction of one output.               *)

LEMMA OneIsSome ==
    ASSUME NEW S, Cardinality(S) = 1 PROVE (CHOOSE c \in S : TRUE) \in S
<1>1. S # {}
  BY FS_EmptySet
<1> QED
  BY <1>1

IsTx0Verdict(d, t) == d.kind = "tx0" /\ \A i \in OutsOf(t) : d.confs[i] \in Confs
IsRoundVerdict(d, t) ==
    /\ d.kind = "whirlpool_round"
    /\ \A i \in OutsOf(t) : d.confs[i] \in Confs /\ d.roles[i] = "coinjoin"
IsUnknownVerdict(d, t) == d.kind = "unknown" /\ \A i \in OutsOf(t) : d.confs[i] = "low"

LEMMA Candidates ==
    ASSUME NEW t, NEW prev
    PROVE  /\ \A c \in Tx0Candidates(t, prev) : IsTx0Verdict(c, t)
           /\ \A c \in RoundCandidates(t, prev) : IsRoundVerdict(c, t)
           /\ IsUnknownVerdict(Unknown(t), t)
<1>1. ASSUME NEW p, NEW v PROVE IsTx0Verdict(Tx0Candidate(t, prev, p, v), t)
  BY DEF Tx0Candidate, IsTx0Verdict, Confs
<1>2. ASSUME NEW p PROVE IsRoundVerdict(RoundCandidate(t, prev, p), t)
  BY DEF RoundCandidate, IsRoundVerdict, Confs
<1>3. IsUnknownVerdict(Unknown(t), t)
  BY DEF Unknown, IsUnknownVerdict
<1>4. \A c \in Tx0Candidates(t, prev) : IsTx0Verdict(c, t)
  BY <1>1 DEF Tx0Candidates
<1>5. \A c \in RoundCandidates(t, prev) : IsRoundVerdict(c, t)
  BY <1>2 DEF RoundCandidates
<1> QED
  BY <1>3, <1>4, <1>5

LEMMA Verdict ==
    ASSUME NEW t \in Tx
    PROVE  \/ IsTx0Verdict(Detection[t], Body[t])
           \/ IsRoundVerdict(Detection[t], Body[t])
           \/ IsUnknownVerdict(Detection[t], Body[t])
<1> DEFINE b == Body[t]
           prev == PrevoutsOf[t]
           tx0s == Best(Tx0Candidates(b, prev))
           rounds == Best(RoundCandidates(b, prev))
<1>1. Detection[t] = Detect(b, prev)
  BY DetectionAssumption DEF Detected
<1>2. tx0s \subseteq Tx0Candidates(b, prev) /\ rounds \subseteq RoundCandidates(b, prev)
  BY DEF Best
<1>3. Cardinality(tx0s) = 1 => IsTx0Verdict(CHOOSE c \in tx0s : TRUE, b)
  <2> SUFFICES ASSUME Cardinality(tx0s) = 1 PROVE IsTx0Verdict(CHOOSE c \in tx0s : TRUE, b)
    OBVIOUS
  <2>1. (CHOOSE c \in tx0s : TRUE) \in tx0s
    BY OneIsSome
  <2> QED
    BY <1>2, <2>1, Candidates
<1>4. Cardinality(rounds) = 1 => IsRoundVerdict(CHOOSE c \in rounds : TRUE, b)
  <2> SUFFICES ASSUME Cardinality(rounds) = 1
               PROVE  IsRoundVerdict(CHOOSE c \in rounds : TRUE, b)
    OBVIOUS
  <2>1. (CHOOSE c \in rounds : TRUE) \in rounds
    BY OneIsSome
  <2> QED
    BY <1>2, <2>1, Candidates
<1>5. \/ Cardinality(tx0s) = 1 /\ Detect(b, prev) = (CHOOSE c \in tx0s : TRUE)
      \/ Cardinality(rounds) = 1 /\ Detect(b, prev) = (CHOOSE c \in rounds : TRUE)
      \/ Detect(b, prev) = Unknown(b)
  BY DEF Detect
<1> QED
  BY <1>1, <1>3, <1>4, <1>5, Candidates

LEMMA HopsAreUnknown ==
    ASSUME NEW t \in Tx, Len(Body[t].outs) = 1
    PROVE  Kind(<<t, 1>>) = "unknown"
<1> DEFINE b == Body[t]
           prev == PrevoutsOf[t]
<1>1. OutsOf(b) = {1}
  BY DEF OutsOf
<1>2. Tx0Candidates(b, prev) = {}
  <2> SUFFICES ASSUME NEW p \in PoolDefs, NEW v \in PremixAmounts(b, p),
                      NEW i \in Markers(b) \cup PoolFees(b, p)
               PROVE  FALSE
    BY DEF Tx0Candidates
  <2>1. i = 1 /\ IsPremix(b.outs[1], p)
    BY <1>1 DEF PremixAmounts, Markers, PoolFees
  <2>2. b.outs[1].type = "p2wpkh" /\ 0 < b.outs[1].value - p.denom
    BY <2>1 DEF IsPremix, Native
  <2>3. b.outs[1].value \in 0 .. p.denom
    BY <2>1, <2>2, PoolDefAssumption DEF Markers, PoolFees
  <2>4. p.denom \in Nat
    BY PoolDefAssumption
  <2> QED
    BY <2>2, <2>3, <2>4
<1>3. RoundCandidates(b, prev) = {}
  <2>1. 1 \notin RoundSizes
    BY RoundSizeAssumption
  <2>2. \A q \in PoolDefs : ~RoundShape(b, q)
    BY <2>1 DEF RoundShape
  <2> HIDE DEF b, prev
  <2> QED
    BY <2>2 DEF RoundCandidates
<1>4. Best(Tx0Candidates(b, prev)) = {} /\ Best(RoundCandidates(b, prev)) = {}
  BY <1>2, <1>3 DEF Best
<1>5. Cardinality(Best(Tx0Candidates(b, prev))) # 1
      /\ Cardinality(Best(RoundCandidates(b, prev))) # 1
  BY <1>4, FS_EmptySet
<1>6. Detection[t] = Detect(b, prev)
  BY DetectionAssumption DEF Detected
<1>7. Detect(b, prev) = Unknown(b)
  BY <1>5 DEF Detect
<1> HIDE DEF b, prev
<1>8. Detection[t].kind = "unknown"
  BY <1>6, <1>7, Candidates DEF IsUnknownVerdict
<1> QED
  BY <1>8 DEF Kind

-----------------------------------------------------------------------------
(* A new transaction brings nodes that no finding, edge or ancestry of a    *)
(* round speaks of yet.                                                     *)

LEMMA WithTxHonest ==
    ASSUME NEW v, Honest(v), NEW t \in Tx, t \notin v.nodes
    PROVE  /\ Honest(WithTx(v, t))
           /\ WithTx(v, t).nodes = v.nodes \cup {t}
           /\ DOMAIN v.outs \subseteq DOMAIN WithTx(v, t).outs
           /\ WithTx(v, t).found = v.found
           /\ WithTx(v, t).anc = v.anc
           /\ WithTx(v, t).frontier = v.frontier
<1> DEFINE u == WithTx(v, t)
           kept == KeptOutputs(v, t)
           news == {<<t, i>> : i \in kept}
           D == DOMAIN v.outs
           links == {<<"creates", t, <<t, i>>>> : i \in kept}
<1>0. /\ Fields \subseteq DOMAIN v /\ Placed(v) /\ Modest(v) /\ Agreed(v) /\ AllAtOnce(v)
      /\ BumpsWhole(v)
  BY DEF Honest
<1>1. /\ Fields \subseteq DOMAIN u
      /\ u.nodes = v.nodes \cup {t} /\ u.found = v.found /\ u.anc = v.anc
      /\ u.findings = v.findings /\ u.frontier = v.frontier
  BY <1>0 DEF WithTx, WithOuts, Fields
<1>tables.
      /\ u.edges = With(v.edges, [e \in links |-> "high"])
      /\ u.outs = With(v.outs, [o \in news |-> [role |-> Detection[t].roles[o[2]],
                                                conf |-> Detection[t].confs[o[2]],
                                                status |-> "unknown"]])
  BY <1>0 DEF WithTx, WithOuts, Fields
<1>2. /\ DOMAIN u.outs = D \cup news
      /\ \A o \in D : u.outs[o] = v.outs[o]
      /\ \A o \in news \ D : /\ u.outs[o].conf = Detection[t].confs[o[2]]
                             /\ u.outs[o].status = "unknown"
                             /\ {"conf", "status"} \subseteq DOMAIN u.outs[o]
  <2> DEFINE old == v.outs
             new == [o \in news |-> [role |-> Detection[t].roles[o[2]],
                                     conf |-> Detection[t].confs[o[2]],
                                     status |-> "unknown"]]
  <2>1. u.outs = With(old, new) /\ DOMAIN new = news /\ DOMAIN old = D
    BY <1>tables
  <2>2. \A o \in news : /\ new[o].conf = Detection[t].confs[o[2]]
                       /\ new[o].status = "unknown"
                       /\ {"conf", "status"} \subseteq DOMAIN new[o]
    OBVIOUS
  <2> HIDE DEF u, old, new, news, D
  <2>3. /\ DOMAIN u.outs = D \cup news
        /\ \A o \in D : u.outs[o] = old[o]
        /\ \A o \in news \ D : u.outs[o] = new[o]
    BY <2>1 DEF With
  <2> QED
    BY <2>2, <2>3 DEF old
<1>3. /\ DOMAIN u.edges = DOMAIN v.edges \cup links
      /\ \A e \in DOMAIN v.edges : u.edges[e] = v.edges[e]
  BY <1>tables DEF With
<1>4. \A o \in news : o = <<t, o[2]>> /\ o[1] = t /\ o[2] \in OutsOf(Body[t])
  BY DEF KeptOutputs
<1>5. \A o \in D : o[1] # t
  BY <1>0 DEF Placed
<1>6. \A e \in links : e[1] = "creates"
  OBVIOUS
<1> HIDE DEF u, news, links, kept
<1>7. Placed(u)
  <2>1. u.frontier \in Seq(Items(DOMAIN u.outs))
    <3>1. v.frontier \in Seq(Items(D))
      BY <1>0 DEF Placed
    <3>2. Seq(Items(D)) \subseteq Seq(Items(DOMAIN u.outs))
      BY <1>2, ItemsGrow
    <3> HIDE DEF D
    <3> QED
      BY <1>1, <3>1, <3>2
  <2>2. \A o \in DOMAIN u.outs :
          /\ o = <<o[1], o[2]>> /\ o[1] \in u.nodes /\ o[2] \in OutsOf(Body[o[1]])
          /\ {"conf", "status"} \subseteq DOMAIN u.outs[o]
    <3> TAKE o \in DOMAIN u.outs
    <3>1. CASE o \in D
      BY <1>0, <1>1, <1>2, <3>1 DEF Placed
    <3>2. CASE o \in news \ D
      BY <1>1, <1>2, <1>4, <3>2
    <3> QED
      BY <1>2, <3>1, <3>2
  <2> QED
    BY <1>0, <1>1, <2>1, <2>2 DEF Placed
<1>8. \A o \in Outpoints : "postmix" \in v.anc[o] /\ Kind(o) = "whirlpool_round" => o \in D
  BY <1>0 DEF AllAtOnce
<1>9. D \subseteq Outpoints /\ news \subseteq Outpoints
  <2>1. D \subseteq Outpoints
    BY <1>0, NodesAreOutpoints
  <2>2. \A o \in news : <<t, o[2]>> \in DOMAIN OutputAt
    BY <1>4, GraphAssumption
  <2> QED
    BY <1>4, <2>1, <2>2 DEF Outpoints
<1>10. Modest(u)
  <2>1. \A o \in DOMAIN u.outs : "postmix" \in u.anc[o] => u.outs[o].conf # "high"
    <3> SUFFICES ASSUME NEW o \in DOMAIN u.outs, "postmix" \in v.anc[o]
                 PROVE  u.outs[o].conf # "high"
      BY <1>1
    <3>1. CASE o \in D
      BY <1>0, <1>2, <3>1 DEF Modest
    <3>2. CASE o \in news \ D
      <4>1. Kind(o) # "tx0" /\ Kind(o) # "whirlpool_round"
        BY <1>0, <1>8, <1>9, <3>2 DEF Modest
      <4>2. IsUnknownVerdict(Detection[t], Body[t])
        BY <1>4, <3>2, <4>1, Verdict DEF Kind, IsTx0Verdict, IsRoundVerdict
      <4> QED
        BY <1>2, <1>4, <3>2, <4>2 DEF IsUnknownVerdict
    <3> QED
      BY <1>2, <3>1, <3>2
  <2>2. \A e \in DOMAIN u.edges : e[1] = "possible_coinjoin_link" => u.edges[e] # "high"
    BY <1>0, <1>3, <1>6 DEF Modest
  <2> QED
    BY <1>0, <1>1, <2>1, <2>2 DEF Modest
<1>11. Agreed(u)
  <2>0. UnspentBacked(v) /\ SpendsBacked(v) /\ StatusBacked(v)
    BY <1>0 DEF Agreed
  <2>1. UnspentBacked(u)
    <3>1. u.findings = v.findings /\ u.found = v.found /\ D \subseteq DOMAIN u.outs
      BY <1>1, <1>2
    <3> SUFFICES ASSUME NEW f \in DOMAIN v.findings, f.kind = "unspent"
                 PROVE  \E o \in DOMAIN u.outs :
                           /\ f.at = {o} /\ u.outs[o].status = "unspent"
                           /\ o \in DOMAIN v.found /\ v.found[o] = {}
      BY <3>1 DEF UnspentBacked
    <3>2. PICK o \in D : /\ f.at = {o} /\ v.outs[o].status = "unspent"
                         /\ o \in DOMAIN v.found /\ v.found[o] = {}
      BY <2>0 DEF UnspentBacked
    <3> QED
      BY <1>2, <3>1, <3>2
  <2>2. SpendsBacked(u)
    <3> SUFFICES ASSUME NEW e \in DOMAIN u.edges, e[1] = "spends"
                 PROVE  /\ e[2] \in DOMAIN u.outs /\ u.outs[e[2]].status = "spent"
                        /\ e[2] \in DOMAIN u.found /\ u.found[e[2]] # {}
      BY DEF SpendsBacked
    <3>1. e \in DOMAIN v.edges
      BY <1>3, <1>6
    <3>2. /\ e[2] \in D /\ v.outs[e[2]].status = "spent"
          /\ e[2] \in DOMAIN v.found /\ v.found[e[2]] # {}
      BY <2>0, <3>1 DEF SpendsBacked
    <3> QED
      BY <1>1, <1>2, <3>2
  <2>3. StatusBacked(u)
    <3> SUFFICES ASSUME NEW o \in DOMAIN u.outs
                 PROVE  /\ u.outs[o].status = "unspent" =>
                              \E f \in DOMAIN u.findings : f.kind = "unspent" /\ f.at = {o}
                        /\ u.outs[o].status = "spent" =>
                              \E e \in DOMAIN u.edges : e[1] = "spends" /\ e[2] = o
      BY DEF StatusBacked
    <3>1. DOMAIN v.edges \subseteq DOMAIN u.edges /\ DOMAIN v.findings = DOMAIN u.findings
      BY <1>1, <1>3
    <3>2. CASE o \in D
      <4>1. u.outs[o].status = v.outs[o].status
        BY <1>2, <3>2
      <4>2. /\ v.outs[o].status = "unspent" =>
                  \E f \in DOMAIN v.findings : f.kind = "unspent" /\ f.at = {o}
            /\ v.outs[o].status = "spent" =>
                  \E e \in DOMAIN v.edges : e[1] = "spends" /\ e[2] = o
        BY <2>0, <3>2 DEF StatusBacked
      <4> QED
        BY <3>1, <4>1, <4>2
    <3>3. CASE o \notin D
      <4>1. u.outs[o].status = "unknown"
        BY <1>2, <3>3
      <4> QED
        BY <4>1
    <3> QED
      BY <3>2, <3>3
  <2> QED
    BY <2>1, <2>2, <2>3 DEF Agreed
<1>12. AllAtOnce(u)
  <2> SUFFICES ASSUME NEW o \in Outpoints, "postmix" \in v.anc[o],
                      Kind(o) = "whirlpool_round"
               PROVE  /\ o \in D \cup news
                      /\ \A x \in D \cup news : x[1] = o[1] => "postmix" \in v.anc[x]
    BY <1>1, <1>2 DEF AllAtOnce
  <2>1. o \in D /\ \A x \in D : x[1] = o[1] => "postmix" \in v.anc[x]
    BY <1>0 DEF AllAtOnce
  <2> QED
    BY <1>4, <1>5, <2>1
<1>13. BumpsWhole(u)
  <2>1. \A s : \A p \in v.nodes : ParentNodes(u, s, p) = ParentNodes(v, s, p)
    BY <1>2, <1>4 DEF ParentNodes
  <2> QED
    BY <1>0, <1>1, <2>1 DEF BumpsWhole
<1>14. Honest(u)
  BY <1>1, <1>7, <1>10, <1>11, <1>12, <1>13 DEF Honest
<1>15. u.nodes = v.nodes \cup {t} /\ D \subseteq DOMAIN u.outs
       /\ u.found = v.found /\ u.anc = v.anc /\ u.frontier = v.frontier
  BY <1>1, <1>2
<1> QED
  BY <1>14, <1>15 DEF u

LEMMA AddTxHonest ==
    ASSUME NEW v, Honest(v), NEW t \in Tx
    PROVE  /\ Honest(AddTx(v, t))
           /\ v.nodes \subseteq AddTx(v, t).nodes
           /\ TxFits(v, t) => t \in AddTx(v, t).nodes
           /\ DOMAIN v.outs \subseteq DOMAIN AddTx(v, t).outs
           /\ AddTx(v, t).found = v.found
           /\ AddTx(v, t).anc = v.anc
           /\ AddTx(v, t).frontier = v.frontier
<1>1. CASE t \in v.nodes \/ ~TxFits(v, t)
  BY <1>1 DEF AddTx
<1>2. CASE t \notin v.nodes /\ TxFits(v, t)
  <2>1. AddTx(v, t) = WithTx(v, t)
    BY <1>2 DEF AddTx
  <2> QED
    BY <1>2, <2>1, WithTxHonest
<1> QED
  BY <1>1, <1>2

-----------------------------------------------------------------------------
(* A spend looked up, and what the walk says of it afterwards.              *)

LEMMA LookedHonest ==
    ASSUME NEW v, Honest(v), NEW o, known \subseteq Tx
    PROVE  /\ Honest(Looked(v, o))
           /\ Looked(v, o).nodes = v.nodes /\ Looked(v, o).outs = v.outs
           /\ Looked(v, o).anc = v.anc /\ Looked(v, o).frontier = v.frontier
           /\ DOMAIN Looked(v, o).found = DOMAIN v.found \cup {o}
           /\ \A x \in DOMAIN v.found : Looked(v, o).found[x] = v.found[x]
           /\ Looked(v, o).found[o] \subseteq Tx
<1> DEFINE u == Looked(v, o)
           old == v.found
           one == One(o, Spenders(o))
<1>0. /\ Fields \subseteq DOMAIN v /\ Placed(v) /\ Modest(v) /\ Agreed(v) /\ AllAtOnce(v)
      /\ BumpsWhole(v)
  BY DEF Honest
<1>1. /\ Fields \subseteq DOMAIN u
      /\ u.nodes = v.nodes /\ u.outs = v.outs /\ u.anc = v.anc /\ u.edges = v.edges
      /\ u.findings = v.findings /\ u.frontier = v.frontier
      /\ u.found = With(old, one)
  BY <1>0 DEF Looked, Fields
<1>2. DOMAIN one = {o} /\ one[o] \subseteq Tx
  BY DEF One, Spenders
<1> HIDE DEF u, old, one
<1>3. /\ DOMAIN u.found = DOMAIN old \cup {o}
      /\ \A x \in DOMAIN old : u.found[x] = old[x]
      /\ o \notin DOMAIN old => u.found[o] = one[o]
  BY <1>1, <1>2 DEF With
<1>4. /\ DOMAIN u.found = DOMAIN v.found \cup {o}
      /\ \A x \in DOMAIN v.found : u.found[x] = v.found[x]
  BY <1>3 DEF old
<1>5. \A x \in DOMAIN u.found : u.found[x] \subseteq Tx
  <2>1. \A x \in DOMAIN v.found : v.found[x] \subseteq Tx
    BY <1>0 DEF Placed
  <2> QED
    BY <1>2, <1>3, <1>4, <2>1 DEF old
<1>6. Placed(u)
  <2>1. u.frontier \in Seq(Items(DOMAIN u.outs))
    BY <1>0, <1>1 DEF Placed
  <2> QED
    BY <1>0, <1>1, <1>5, <2>1 DEF Placed
<1>7. Modest(u) /\ AllAtOnce(u)
  BY <1>0, <1>1 DEF Modest, AllAtOnce
<1>8. Agreed(u)
  <2>0. /\ UnspentBacked(v) /\ SpendsBacked(v)
        /\ u.outs = v.outs /\ u.edges = v.edges /\ u.findings = v.findings
    BY <1>0, <1>1 DEF Agreed
  <2>1. UnspentBacked(u)
    BY <1>4, <2>0 DEF UnspentBacked
  <2>2. SpendsBacked(u)
    BY <1>4, <2>0 DEF SpendsBacked
  <2>3. StatusBacked(u)
    <3>1. /\ DOMAIN u.outs = DOMAIN v.outs
          /\ \A x \in DOMAIN v.outs : u.outs[x].status = v.outs[x].status
          /\ DOMAIN v.findings \subseteq DOMAIN u.findings
          /\ DOMAIN v.edges \subseteq DOMAIN u.edges
      BY <2>0
    <3>2. StatusBacked(v)
      BY <1>0 DEF Agreed
    <3> QED
      BY <3>1, <3>2, StatusStays
  <2> QED
    BY <2>1, <2>2, <2>3 DEF Agreed
<1>9. BumpsWhole(u)
  <2>1. \A s, p : ParentNodes(u, s, p) = ParentNodes(v, s, p)
    BY <1>1 DEF ParentNodes
  <2> QED
    BY <1>0, <1>1, <2>1 DEF BumpsWhole
<1>10. Honest(u)
  BY <1>1, <1>6, <1>7, <1>8, <1>9 DEF Honest
<1>11. o \in DOMAIN u.found
  BY <1>4
<1> QED
  BY <1>1, <1>4, <1>5, <1>10, <1>11 DEF u

\* The status of one node changes, with the finding or the edge that says so.
Restated(v, u, o, status) ==
    /\ SameCourse(v, u)
    /\ DOMAIN u.outs = DOMAIN v.outs
    /\ \A x \in DOMAIN v.outs :
          /\ {"conf", "status"} \subseteq DOMAIN u.outs[x]
          /\ u.outs[x].conf = v.outs[x].conf
          /\ u.outs[x].status = IF x = o THEN status ELSE v.outs[x].status

LEMMA RestatedFrame ==
    ASSUME NEW v, Honest(v), NEW u, NEW o, NEW status, Restated(v, u, o, status)
    PROVE  /\ Placed(u) /\ AllAtOnce(u)
           /\ \A s, p : ParentNodes(u, s, p) = ParentNodes(v, s, p)
           /\ \A x \in DOMAIN u.outs : "postmix" \in u.anc[x] => u.outs[x].conf # "high"
           /\ \A x \in Outpoints : "postmix" \in u.anc[x] => Kind(x) # "tx0"
<1>0. /\ Placed(v) /\ Modest(v) /\ AllAtOnce(v)
      /\ u.nodes = v.nodes /\ u.anc = v.anc /\ u.found = v.found /\ u.frontier = v.frontier
      /\ DOMAIN u.outs = DOMAIN v.outs
  BY DEF Honest, Restated, SameCourse
<1>1. Placed(u)
  <2>1. u.frontier \in Seq(Items(DOMAIN u.outs))
    BY <1>0 DEF Placed
  <2>2. \A x \in DOMAIN u.outs : {"conf", "status"} \subseteq DOMAIN u.outs[x]
    BY <1>0 DEF Restated
  <2> QED
    BY <1>0, <2>1, <2>2 DEF Placed
<1>2. AllAtOnce(u)
  BY <1>0 DEF AllAtOnce
<1>3. \A s, p : ParentNodes(u, s, p) = ParentNodes(v, s, p)
  BY <1>0 DEF ParentNodes
<1>4. \A x \in DOMAIN u.outs : u.outs[x].conf = v.outs[x].conf
  BY <1>0 DEF Restated
<1>5. \A x \in DOMAIN v.outs : "postmix" \in v.anc[x] => v.outs[x].conf # "high"
  BY <1>0 DEF Modest
<1>6. \A x \in Outpoints : "postmix" \in u.anc[x] => Kind(x) # "tx0"
  BY <1>0 DEF Modest
<1> QED
  BY <1>0, <1>1, <1>2, <1>3, <1>4, <1>5, <1>6

LEMMA StatusFacts ==
    ASSUME NEW v, Fields \subseteq DOMAIN v, Placed(v), NEW o, NEW status
    PROVE  /\ Restated(v, Status(v, o, status), o, status)
           /\ Status(v, o, status).edges = v.edges
           /\ Status(v, o, status).findings = v.findings
<1> DEFINE u == Status(v, o, status)
<1>1. /\ SameCourse(v, u) /\ u.edges = v.edges /\ u.findings = v.findings
      /\ u.outs = [x \in DOMAIN v.outs |->
                     IF x = o THEN [v.outs[o] EXCEPT !.status = status] ELSE v.outs[x]]
  BY DEF Status, SameCourse, Fields
<1>2. \A x \in DOMAIN v.outs : {"conf", "status"} \subseteq DOMAIN v.outs[x]
  BY DEF Placed
<1> HIDE DEF u
<1>3. DOMAIN u.outs = DOMAIN v.outs
  BY <1>1
<1>4. \A x \in DOMAIN v.outs :
          /\ {"conf", "status"} \subseteq DOMAIN u.outs[x]
          /\ u.outs[x].conf = v.outs[x].conf
          /\ u.outs[x].status = IF x = o THEN status ELSE v.outs[x].status
  <2> TAKE x \in DOMAIN v.outs
  <2>1. CASE x = o
    <3> DEFINE r == v.outs[o]
    <3>1. u.outs[x] = [r EXCEPT !.status = status] /\ {"conf", "status"} \subseteq DOMAIN r
      BY <1>1, <1>2, <2>1
    <3> HIDE DEF r
    <3>2. /\ {"conf", "status"} \subseteq DOMAIN u.outs[x]
          /\ u.outs[x].conf = r.conf /\ u.outs[x].status = status
      BY <3>1
    <3> QED
      BY <2>1, <3>2 DEF r
  <2>2. CASE x # o
    BY <1>1, <1>2, <2>2
  <2> QED
    BY <2>1, <2>2
<1>5. Restated(v, u, o, status)
  BY <1>1, <1>3, <1>4 DEF Restated
<1> QED
  BY <1>1, <1>5 DEF u

LEMMA ConfirmHonest ==
    ASSUME NEW v, Honest(v), NEW o, o \in DOMAIN v.found, v.found[o] # {}, NEW t
    PROVE  /\ Honest(Confirm(v, o, t))
           /\ Confirm(v, o, t).nodes = v.nodes
           /\ DOMAIN Confirm(v, o, t).outs = DOMAIN v.outs
           /\ Confirm(v, o, t).found = v.found
           /\ Confirm(v, o, t).anc = v.anc
           /\ Confirm(v, o, t).frontier = v.frontier
<1>1. CASE o \notin DOMAIN v.outs
  BY <1>1 DEF Confirm
<1>2. CASE o \in DOMAIN v.outs
  <2> DEFINE s == Status(v, o, "spent")
             u == Edge(s, "spends", o, t, "high")
             e == <<"spends", o, t>>
             one == One(e, "high")
             old == v.edges
  <2>0. /\ Fields \subseteq DOMAIN v /\ Placed(v) /\ Modest(v) /\ Agreed(v) /\ BumpsWhole(v)
    BY DEF Honest
  <2>1. Restated(v, s, o, "spent") /\ s.edges = v.edges /\ s.findings = v.findings
    BY <2>0, StatusFacts
  <2>2. Confirm(v, o, t) = u
    BY <1>2 DEF Confirm
  <2> HIDE DEF s
  <2>3. /\ SameCourse(s, u) /\ u.outs = s.outs /\ u.findings = v.findings
        /\ u.edges = With(old, one)
    BY <2>1 DEF Edge, Restated, SameCourse, Fields
  <2> HIDE DEF u
  <2>4. Restated(v, u, o, "spent")
    BY <2>1, <2>3 DEF Restated, SameCourse
  <2>5. DOMAIN one = {e} /\ e[1] = "spends" /\ e[2] = o
    BY DEF One
  <2> HIDE DEF old, one, e
  <2>6. /\ DOMAIN u.edges = DOMAIN old \cup {e}
        /\ \A x \in DOMAIN old : u.edges[x] = old[x]
    BY <2>3, <2>5 DEF With
  <2>7. \A x \in DOMAIN v.outs : u.outs[x].status = IF x = o THEN "spent" ELSE v.outs[x].status
    BY <2>4 DEF Restated
  <2>8. DOMAIN u.outs = DOMAIN v.outs /\ u.found = v.found /\ u.nodes = v.nodes /\ u.anc = v.anc
        /\ u.frontier = v.frontier /\ Fields \subseteq DOMAIN u
    BY <2>4 DEF Restated, SameCourse
  <2>9. Modest(u)
    <3>1. \A x \in DOMAIN u.edges : x[1] = "possible_coinjoin_link" => u.edges[x] # "high"
      BY <2>0, <2>5, <2>6 DEF Modest, old
    <3>2. \A f \in DOMAIN u.findings :
             Grounded(f, u.findings[f])
      BY <2>0, <2>3 DEF Modest
    <3> QED
      BY <2>4, <3>1, <3>2, RestatedFrame DEF Modest
  <2>10. Agreed(u)
    <3>0. UnspentBacked(v) /\ SpendsBacked(v) /\ StatusBacked(v)
      BY <2>0 DEF Agreed
    <3>1. UnspentBacked(u)
      BY <2>3, <2>7, <2>8, <3>0 DEF UnspentBacked
    <3>2. SpendsBacked(u)
      <4> SUFFICES ASSUME NEW x \in DOMAIN u.edges, x[1] = "spends"
                   PROVE  /\ x[2] \in DOMAIN u.outs /\ u.outs[x[2]].status = "spent"
                          /\ x[2] \in DOMAIN u.found /\ u.found[x[2]] # {}
        BY DEF SpendsBacked
      <4>1. CASE x = e
        BY <1>2, <2>5, <2>7, <2>8, <4>1
      <4>2. CASE x \in DOMAIN v.edges
        <5>1. /\ x[2] \in DOMAIN v.outs /\ v.outs[x[2]].status = "spent"
              /\ x[2] \in DOMAIN v.found /\ v.found[x[2]] # {}
          BY <3>0, <4>2 DEF SpendsBacked
        <5> QED
          BY <2>7, <2>8, <5>1
      <4> QED
        BY <2>6, <4>1, <4>2 DEF old
    <3>3. StatusBacked(u)
      <4> SUFFICES ASSUME NEW x \in DOMAIN v.outs
                   PROVE  /\ u.outs[x].status = "unspent" =>
                                \E f \in DOMAIN u.findings : f.kind = "unspent" /\ f.at = {x}
                          /\ u.outs[x].status = "spent" =>
                                \E y \in DOMAIN u.edges : y[1] = "spends" /\ y[2] = x
        BY <2>8 DEF StatusBacked
      <4>1. CASE x = o
        BY <2>5, <2>6, <2>7, <4>1
      <4>2. CASE x # o
        <5>1. u.outs[x].status = v.outs[x].status
          BY <2>7, <4>2
        <5>2. DOMAIN v.edges \subseteq DOMAIN u.edges /\ DOMAIN u.findings = DOMAIN v.findings
          BY <2>3, <2>6 DEF old
        <5> QED
          BY <3>0, <5>1, <5>2 DEF StatusBacked
      <4> QED
        BY <4>1, <4>2
    <3> QED
      BY <3>1, <3>2, <3>3 DEF Agreed
  <2>11. BumpsWhole(u)
    <3>1. \A x, p : ParentNodes(u, x, p) = ParentNodes(v, x, p)
      BY <2>4, RestatedFrame
    <3> QED
      BY <2>0, <2>3, <2>8, <3>1 DEF BumpsWhole
  <2>12. Honest(u)
    BY <2>4, <2>8, <2>9, <2>10, <2>11, RestatedFrame DEF Honest
  <2> QED
    BY <2>2, <2>8, <2>12
<1> QED
  BY <1>1, <1>2

LEMMA UnspentHonest ==
    ASSUME NEW v, Honest(v), NEW o \in DOMAIN v.outs, o \in DOMAIN v.found, v.found[o] = {},
           NEW conf, conf = "high" => Kind(o) = "tx0"
    PROVE  Honest(Find(Status(v, o, "unspent"), "unspent", o[1], {o}, conf))
<1> DEFINE s == Status(v, o, "unspent")
           u == Find(s, "unspent", o[1], {o}, conf)
           f == [kind |-> "unspent", tx |-> o[1], at |-> {o}]
           one == One(f, conf)
           old == v.findings
<1>0. /\ Fields \subseteq DOMAIN v /\ Placed(v) /\ Modest(v) /\ Agreed(v) /\ BumpsWhole(v)
  BY DEF Honest
<1>1. Restated(v, s, o, "unspent") /\ s.edges = v.edges /\ s.findings = v.findings
  BY <1>0, StatusFacts
<1> HIDE DEF s
<1>3. /\ SameCourse(s, u) /\ u.outs = s.outs /\ u.edges = v.edges
      /\ u.findings = With(old, one)
  BY <1>1 DEF Find, Restated, SameCourse, Fields
<1> HIDE DEF u
<1>4. Restated(v, u, o, "unspent")
  BY <1>1, <1>3 DEF Restated, SameCourse
<1>5. DOMAIN one = {f} /\ one[f] = conf /\ f.kind = "unspent" /\ f.at = {o}
  BY DEF One
<1> HIDE DEF old, one, f
<1>6. /\ DOMAIN u.findings = DOMAIN old \cup {f}
      /\ \A x \in DOMAIN old : u.findings[x] = old[x]
      /\ f \in DOMAIN old \/ u.findings[f] = conf
  BY <1>3, <1>5 DEF With
<1>7. \A x \in DOMAIN v.outs : u.outs[x].status = IF x = o THEN "unspent" ELSE v.outs[x].status
  BY <1>4 DEF Restated
<1>8. DOMAIN u.outs = DOMAIN v.outs /\ u.found = v.found /\ u.nodes = v.nodes /\ u.anc = v.anc
      /\ u.frontier = v.frontier /\ Fields \subseteq DOMAIN u
  BY <1>4 DEF Restated, SameCourse
<1>9. Modest(u)
  <2>1. \A x \in DOMAIN u.edges : x[1] = "possible_coinjoin_link" => u.edges[x] # "high"
    BY <1>0, <1>3 DEF Modest
  <2>2. \A g \in DOMAIN u.findings :
           Grounded(g, u.findings[g])
    <3> TAKE g \in DOMAIN u.findings
    <3>1. CASE g \in DOMAIN v.findings
      BY <1>0, <1>6, <3>1 DEF Modest, old
    <3>2. CASE g = f /\ u.findings[f] = conf
      BY <1>5, <3>2 DEF Grounded
    <3> QED
      BY <1>6, <3>1, <3>2 DEF old
  <2> QED
    BY <1>4, <2>1, <2>2, RestatedFrame DEF Modest
<1>10. Agreed(u)
  <2>0. UnspentBacked(v) /\ SpendsBacked(v) /\ StatusBacked(v)
    BY <1>0 DEF Agreed
  <2>1. UnspentBacked(u)
    <3> SUFFICES ASSUME NEW g \in DOMAIN u.findings, g.kind = "unspent"
                 PROVE  \E x \in DOMAIN u.outs : /\ g.at = {x} /\ u.outs[x].status = "unspent"
                                                 /\ x \in DOMAIN u.found /\ u.found[x] = {}
      BY DEF UnspentBacked
    <3>1. CASE g = f
      BY <1>5, <1>7, <1>8, <3>1
    <3>2. CASE g \in DOMAIN v.findings
      <4>1. \E x \in DOMAIN v.outs : /\ g.at = {x} /\ v.outs[x].status = "unspent"
                                     /\ x \in DOMAIN v.found /\ v.found[x] = {}
        BY <2>0, <3>2 DEF UnspentBacked
      <4> QED
        BY <1>7, <1>8, <4>1
    <3> QED
      BY <1>6, <3>1, <3>2 DEF old
  <2>2. SpendsBacked(u)
    <3> SUFFICES ASSUME NEW x \in DOMAIN v.edges, x[1] = "spends"
                 PROVE  /\ x[2] \in DOMAIN u.outs /\ u.outs[x[2]].status = "spent"
                        /\ x[2] \in DOMAIN u.found /\ u.found[x[2]] # {}
      BY <1>3 DEF SpendsBacked
    <3>1. /\ x[2] \in DOMAIN v.outs /\ v.outs[x[2]].status = "spent"
          /\ x[2] \in DOMAIN v.found /\ v.found[x[2]] # {}
      BY <2>0 DEF SpendsBacked
    <3> QED
      BY <1>7, <1>8, <3>1
  <2>3. StatusBacked(u)
    <3> SUFFICES ASSUME NEW x \in DOMAIN v.outs
                 PROVE  /\ u.outs[x].status = "unspent" =>
                              \E g \in DOMAIN u.findings : g.kind = "unspent" /\ g.at = {x}
                        /\ u.outs[x].status = "spent" =>
                              \E y \in DOMAIN u.edges : y[1] = "spends" /\ y[2] = x
      BY <1>8 DEF StatusBacked
    <3>1. CASE x = o
      BY <1>5, <1>6, <1>7, <3>1
    <3>2. CASE x # o
      <4>1. u.outs[x].status = v.outs[x].status
        BY <1>7, <3>2
      <4>2. DOMAIN v.findings \subseteq DOMAIN u.findings /\ DOMAIN u.edges = DOMAIN v.edges
        BY <1>3, <1>6 DEF old
      <4> QED
        BY <2>0, <4>1, <4>2 DEF StatusBacked
    <3> QED
      BY <3>1, <3>2
  <2> QED
    BY <2>1, <2>2, <2>3 DEF Agreed
<1>11. BumpsWhole(u)
  <2>1. \A x, p : ParentNodes(u, x, p) = ParentNodes(v, x, p)
    BY <1>4, RestatedFrame
  <2>2. \A g \in DOMAIN u.findings : g.kind = "whirlpool_cpfp" => g \in DOMAIN v.findings
    BY <1>5, <1>6 DEF old
  <2> QED
    BY <1>0, <1>8, <2>1, <2>2 DEF BumpsWhole
<1>12. Honest(u)
  BY <1>4, <1>8, <1>9, <1>10, <1>11, RestatedFrame DEF Honest
<1> QED
  BY <1>12 DEF u, s

(* All inputs of the child that are nodes of the parent are named.          *)
LEMMA CpfpHonest ==
    ASSUME NEW v, Honest(v), NEW o \in DOMAIN v.outs, NEW t \in Tx
    PROVE  /\ Honest(WithCpfp(v, o, t))
           /\ SameCourse(v, WithCpfp(v, o, t)) /\ WithCpfp(v, o, t).outs = v.outs
<1> DEFINE p == o[1]
           tracked == {x \in TrackedPostmix(v, t) : x[1] = p}
           found == Cpfp(Body[p], PrevoutsOf[p], Body[t], PrevoutsOf[t],
                         tracked, ConfirmedIn[p], ConfirmedIn[t])
           u == Find(v, "whirlpool_cpfp", t, tracked, "medium")
<1>0. /\ Fields \subseteq DOMAIN v /\ Placed(v) /\ Modest(v) /\ Agreed(v) /\ AllAtOnce(v)
      /\ BumpsWhole(v)
  BY DEF Honest
<1>1. CASE Detection[p].kind # "whirlpool_round" \/ found = {}
  <2>1. WithCpfp(v, o, t) = v
    BY <1>1 DEF WithCpfp
  <2> QED
    BY <1>0, <2>1 DEF SameCourse
<1>2. CASE Detection[p].kind = "whirlpool_round" /\ found # {}
  <2>1. WithCpfp(v, o, t) = u
    BY <1>2 DEF WithCpfp
  <2>2. tracked # {}
    <3>1. ASSUME tracked = {} PROVE found = {}
      BY <3>1 DEF Cpfp
    <3> QED
      BY <1>2, <3>1
  <2> HIDE DEF found
  <2>3. tracked = ParentNodes(v, t, p)
    <3>1. InSet(Body[t]) \subseteq Outpoints
      BY GraphAssumption DEF Outpoints
    <3>2. \A x \in InSet(Body[t]) : x[1] = p /\ "postmix" \in v.anc[x] =>
             /\ x \in DOMAIN v.outs
             /\ \A y \in DOMAIN v.outs : y[1] = x[1] => "postmix" \in v.anc[y]
      BY <1>0, <1>2, <3>1 DEF AllAtOnce, Kind
    <3>3. tracked = {x \in InSet(Body[t]) : x[1] = p /\ "postmix" \in v.anc[x]}
      BY DEF TrackedPostmix
    <3>4. PICK x \in InSet(Body[t]) : x[1] = p /\ "postmix" \in v.anc[x]
      BY <2>2, <3>3
    <3>5. \A y \in DOMAIN v.outs : y[1] = p => "postmix" \in v.anc[y]
      BY <3>2, <3>4
    <3> HIDE DEF tracked
    <3> QED
      BY <3>2, <3>3, <3>5 DEF ParentNodes
  <2> DEFINE f == [kind |-> "whirlpool_cpfp", tx |-> t, at |-> tracked]
             one == One(f, "medium")
             old == v.findings
  <2>4. /\ SameCourse(v, u) /\ u.outs = v.outs /\ u.edges = v.edges
        /\ u.findings = With(old, one)
    BY <1>0 DEF Find, SameCourse, Fields
  <2>5. DOMAIN one = {f} /\ one[f] = "medium"
        /\ f.kind = "whirlpool_cpfp" /\ f.tx = t /\ f.at = tracked
        /\ f = [kind |-> f.kind, tx |-> f.tx, at |-> f.at]
    BY DEF One
  <2> HIDE DEF u, f, one, old, tracked
  <2>6. DOMAIN u.findings = DOMAIN old \cup {f} /\ \A g \in DOMAIN old : u.findings[g] = old[g]
    BY <2>4, <2>5 DEF With
  <2>7. /\ u.nodes = v.nodes /\ u.anc = v.anc /\ u.found = v.found /\ u.frontier = v.frontier
        /\ Fields \subseteq DOMAIN u
    BY <2>4 DEF SameCourse
  <2>8. Placed(u)
    BY <1>0, <2>4, <2>7 DEF Placed
  <2>9. Modest(u)
    <3>1. \A g \in DOMAIN u.findings :
             Grounded(g, u.findings[g])
      <4>1. f \in DOMAIN old \/ u.findings[f] = "medium"
        BY <2>4, <2>5 DEF With
      <4>2. u.findings[f] = "medium" => Grounded(f, u.findings[f])
        BY DEF Grounded
      <4> QED
        BY <1>0, <2>6, <4>1, <4>2 DEF Modest, old
    <3> QED
      BY <1>0, <2>4, <2>7, <3>1 DEF Modest
  <2>10. Agreed(u)
    <3>0. UnspentBacked(v) /\ SpendsBacked(v) /\ StatusBacked(v)
      BY <1>0 DEF Agreed
    <3>1. UnspentBacked(u)
      BY <2>4, <2>5, <2>6, <2>7, <3>0 DEF UnspentBacked, old
    <3>2. SpendsBacked(u)
      BY <2>4, <2>7, <3>0 DEF SpendsBacked
    <3>3. StatusBacked(u)
      <4>1. /\ DOMAIN u.outs = DOMAIN v.outs
            /\ \A x \in DOMAIN v.outs : u.outs[x].status = v.outs[x].status
            /\ DOMAIN v.findings \subseteq DOMAIN u.findings
            /\ DOMAIN v.edges \subseteq DOMAIN u.edges
        BY <2>4, <2>6 DEF old
      <4> QED
        BY <3>0, <4>1 DEF StatusBacked
    <3> QED
      BY <3>1, <3>2, <3>3 DEF Agreed
  <2>11. AllAtOnce(u)
    BY <1>0, <2>4, <2>7 DEF AllAtOnce
  <2>12. BumpsWhole(u)
    <3>1. \A s, q : ParentNodes(u, s, q) = ParentNodes(v, s, q)
      BY <2>4 DEF ParentNodes
    <3>2. p \in u.nodes
      BY <1>0, <2>7 DEF Placed
    <3> SUFFICES ASSUME NEW g \in DOMAIN u.findings, g.kind = "whirlpool_cpfp"
                 PROVE  /\ g = [kind |-> g.kind, tx |-> g.tx, at |-> g.at]
                        /\ g.at # {}
                        /\ \E q \in u.nodes : g.at = ParentNodes(u, g.tx, q)
      BY DEF BumpsWhole
    <3>3. CASE g = f
      BY <2>2, <2>3, <2>5, <3>1, <3>2, <3>3
    <3>4. CASE g \in DOMAIN v.findings
      BY <1>0, <2>7, <3>1, <3>4 DEF BumpsWhole
    <3> QED
      BY <2>6, <3>3, <3>4 DEF old
  <2>13. Honest(u)
    BY <2>7, <2>8, <2>9, <2>10, <2>11, <2>12 DEF Honest
  <2> QED
    BY <2>1, <2>4, <2>13
<1> QED
  BY <1>1, <1>2

-----------------------------------------------------------------------------
(* The outputs of a Tx0 or of a round join the frontier.                    *)

LEMMA LowerConfType ==
    ASSUME NEW a, NEW b
    PROVE  LowerConf(a, b) \in Confs /\ (b = "medium" => LowerConf(a, b) # "high")
BY DEF LowerConf, Confs

LEMMA EnqueueRolesHonest ==
    ASSUME NEW v, Honest(v), NEW t \in Tx, NEW ancestry, NEW cap, NEW depth \in Int,
           \/ /\ Detection[t].kind = "tx0" /\ ancestry = Tx0Ancestry
           \/ /\ Detection[t].kind = "whirlpool_round"
              /\ ancestry = RoundAncestry /\ cap = "medium"
    PROVE  Honest(EnqueueRoles(v, t, ancestry, cap, depth))
<1> DEFINE roles  == Detection[t].roles
           chosen == {i \in WithNode(v, t) : roles[i] \in DOMAIN ancestry}
           anc    == [i \in chosen |-> ancestry[roles[i]]]
           conf   == [i \in chosen |-> LowerConf(Detection[t].confs[i], cap)]
           marked == [v EXCEPT !.outs =
                        [o \in DOMAIN v.outs |->
                           IF o[1] = t /\ o[2] \in chosen
                           THEN [role |-> roles[o[2]], conf |-> conf[o[2]],
                                 status |-> v.outs[o].status]
                           ELSE v.outs[o]]]
<1>0. Fields \subseteq DOMAIN v /\ Placed(v)
  BY DEF Honest
<1>1. EnqueueRoles(v, t, ancestry, cap, depth)
        = Track(marked, t, chosen, anc, conf, depth, TRUE)
  BY DEF EnqueueRoles
<1>2. chosen \subseteq WithNode(v, t)
  OBVIOUS
<1>3. conf \in [chosen -> Confs]
  BY LowerConfType
<1>4. Detection[t].kind # "tx0" => \A i \in chosen : conf[i] # "high"
  BY LowerConfType
<1>5. anc \in [chosen -> Ancestries]
  BY DEF Ancestries, Tx0Ancestry, RoundAncestry
<1>6. \A i \in chosen :
         /\ anc[i] = "postmix" => Detection[t].kind # "tx0"
         /\ anc[i] = "doxxic_change" => Detection[t].kind = "tx0"
  BY DEF Tx0Ancestry, RoundAncestry
<1>7. Detection[t].kind = "whirlpool_round" =>
         chosen = WithNode(v, t) /\ \A i \in chosen : anc[i] = "postmix"
  <2> SUFFICES ASSUME Detection[t].kind = "whirlpool_round"
               PROVE  chosen = WithNode(v, t) /\ \A i \in chosen : anc[i] = "postmix"
    OBVIOUS
  <2>1. \A i \in WithNode(v, t) : roles[i] = "coinjoin"
    BY Verdict DEF IsTx0Verdict, IsRoundVerdict, IsUnknownVerdict, WithNode
  <2>2. DOMAIN ancestry = {"coinjoin"} /\ ancestry["coinjoin"] = "postmix"
    BY DEF RoundAncestry
  <2> HIDE DEF roles
  <2> QED
    BY <2>1, <2>2
<1> HIDE DEF roles, chosen, anc, conf
<1>8. /\ SameCourse(v, marked) /\ marked.edges = v.edges /\ marked.findings = v.findings
      /\ marked.outs = [o \in DOMAIN v.outs |->
                           IF o[1] = t /\ o[2] \in chosen
                           THEN [role |-> roles[o[2]], conf |-> conf[o[2]],
                                 status |-> v.outs[o].status]
                           ELSE v.outs[o]]
  BY <1>0 DEF SameCourse, Fields
<1> HIDE DEF marked
<1>9. Relabelled(v, marked)
  <2>1. DOMAIN marked.outs = DOMAIN v.outs
    BY <1>8
  <2>2. \A o \in DOMAIN v.outs :
          /\ {"conf", "status"} \subseteq DOMAIN marked.outs[o]
          /\ marked.outs[o].status = v.outs[o].status
          /\ \/ marked.outs[o].conf = v.outs[o].conf
             \/ marked.outs[o].conf # "high"
             \/ Kind(o) = "tx0"
    <3> TAKE o \in DOMAIN v.outs
    <3>1. CASE o[1] = t /\ o[2] \in chosen
      <4>1. marked.outs[o] = [role |-> roles[o[2]], conf |-> conf[o[2]],
                              status |-> v.outs[o].status]
        BY <1>8, <3>1
      <4>2. conf[o[2]] # "high" \/ Kind(o) = "tx0"
        BY <1>4, <3>1 DEF Kind
      <4> QED
        BY <4>1, <4>2
    <3>2. CASE ~(o[1] = t /\ o[2] \in chosen)
      BY <1>0, <1>8, <3>2 DEF Placed
    <3> QED
      BY <3>1, <3>2
  <2> QED
    BY <2>1, <2>2 DEF Relabelled
<1>10. Honest(marked)
  BY <1>8, <1>9, Unchanged, HonestFrame
<1>11. WithNode(marked, t) = WithNode(v, t)
  BY <1>8 DEF WithNode
<1>12. \A i \in chosen : anc[i] = "postmix" =>
          Detection[t].kind # "tx0" /\ marked.outs[<<t, i>>].conf # "high"
  <2> TAKE i \in chosen
  <2>1. <<t, i>> \in DOMAIN v.outs
    BY <1>2 DEF WithNode
  <2>2. marked.outs[<<t, i>>].conf = conf[i]
    BY <1>8, <2>1
  <2> QED
    BY <1>4, <1>6, <2>2
<1>13. Honest(Track(marked, t, chosen, anc, conf, depth, TRUE))
  BY <1>2, <1>3, <1>4, <1>5, <1>6, <1>7, <1>10, <1>11, <1>12, TrackHonest
<1> QED
  BY <1>1, <1>13

LEMMA FollowRoundHonest ==
    ASSUME NEW v, Honest(v), NEW item, NEW t \in Tx, Detection[t].kind = "whirlpool_round",
           NEW depth \in Int
    PROVE  Honest(FollowRound(v, item, t, depth))
<1> DEFINE entered == Find(v, "whirlpool_entry", t, {item.out}, Detection[t].conf)
           chosen  == WithNode(v, t)
           conf    == CoinjoinConf(item.conf)
           links   == {<<"possible_coinjoin_link", item.out, <<t, i>>>> : i \in chosen}
           linked  == [entered EXCEPT !.edges = With(@, [e \in links |-> conf])]
           marked  == Marked(linked, {<<t, i>> : i \in chosen}, "coinjoin", conf)
           anc     == [i \in chosen |-> "postmix"]
           confs   == [i \in chosen |-> conf]
<1>1. FollowRound(v, item, t, depth) = Track(marked, t, chosen, anc, confs, depth, TRUE)
  BY DEF FollowRound
<1>2. Honest(entered)
  BY FindHonest DEF ShownBySpend
<1>3. conf # "high" /\ conf \in Confs
  BY DEF CoinjoinConf, Confs
<1>4. entered.outs = v.outs
  BY DEF Find, Honest, Fields
<1> HIDE DEF entered, conf
<1>5. /\ SameCourse(entered, linked) /\ linked.outs = entered.outs
      /\ linked.findings = entered.findings
      /\ linked.edges = With(entered.edges, [e \in links |-> conf])
  BY <1>2 DEF Honest, SameCourse, Fields
<1>6. \A e \in links : e[1] = "possible_coinjoin_link"
  OBVIOUS
<1> HIDE DEF links, linked
<1>7. AddsEdges(entered, linked)
  <2> DEFINE old == entered.edges
             new == [e \in links |-> conf]
  <2>1. linked.edges = With(old, new) /\ DOMAIN new = links /\ \A e \in links : new[e] = conf
    BY <1>5
  <2> HIDE DEF old, new
  <2>2. /\ DOMAIN linked.edges = DOMAIN old \cup links
        /\ \A e \in DOMAIN old : linked.edges[e] = old[e]
        /\ \A e \in links : e \in DOMAIN old \/ linked.edges[e] = conf
    BY <2>1 DEF With
  <2> QED
    BY <1>3, <1>6, <2>2 DEF AddsEdges, old
<1>8. Honest(linked)
  BY <1>2, <1>5, <1>7, Unchanged, HonestFrame
<1>9. Honest(marked)
  BY <1>3, <1>8, MarkedHonest
<1>10. /\ DOMAIN marked.outs = DOMAIN v.outs
       /\ \A i \in chosen : <<t, i>> \in DOMAIN v.outs => marked.outs[<<t, i>>].conf = conf
  <2>1. marked.outs = [o \in DOMAIN linked.outs |->
                         IF o \in {<<t, i>> : i \in chosen}
                         THEN [role |-> "coinjoin", conf |-> conf, status |-> linked.outs[o].status]
                         ELSE linked.outs[o]]
    BY <1>8 DEF Marked, Honest, Fields
  <2> HIDE DEF marked, chosen
  <2> QED
    BY <1>4, <1>5, <2>1
<1> HIDE DEF marked
<1>11. WithNode(marked, t) = chosen /\ \A i \in chosen : <<t, i>> \in DOMAIN v.outs
  BY <1>10 DEF WithNode
<1> HIDE DEF chosen
<1>12. anc \in [chosen -> Ancestries] /\ confs \in [chosen -> Confs]
  BY <1>3 DEF Ancestries
<1>13. \A i \in chosen : confs[i] # "high" /\ anc[i] = "postmix"
                         /\ marked.outs[<<t, i>>].conf # "high"
  BY <1>3, <1>10, <1>11
<1> HIDE DEF anc, confs
<1>14. Honest(Track(marked, t, chosen, anc, confs, depth, TRUE))
  BY <1>9, <1>11, <1>12, <1>13, TrackHonest
<1> QED
  BY <1>1, <1>14

-----------------------------------------------------------------------------
(* Findings about the shape of a spend. *)

LEMMA StonewallIsModest ==
    ASSUME NEW v, NEW t, NEW s \in StonewallOf(v, t) PROVE s.conf = "medium"
<1>1. StonewallOf(v, t) \subseteq
        {[repeated |-> Paired(Body[t]), tracked |-> InSet(Body[t]) \cap TrackedPostmix(v, t),
          conf |-> "medium"]}
  BY DEF StonewallOf, Stonewall
<1> QED
  BY <1>1

LEMMA PayjoinIsModest ==
    ASSUME NEW t, NEW prev, NEW tracked, NEW x \in Payjoin(t, prev, tracked)
    PROVE  x.conf # "high"
BY DEF Payjoin

LEMMA ShapedHonest ==
    ASSUME NEW v, Honest(v), NEW t, NEW tracked
    PROVE  Honest(Shaped(v, t, tracked))
<1>1. Honest(Several(v, t, tracked))
  BY FindHonest DEF Several, ShownBySpend
<1>2. ASSUME NEW u, Honest(u) PROVE Honest(Paying(u, t, tracked))
  BY <1>2, FindHonest DEF Paying
<1>3. Honest(WithConsolidation(v, t, tracked))
  BY <1>1, <1>2 DEF WithConsolidation
<1>4. ASSUME NEW u, Honest(u) PROVE Honest(WithStonewall(u, t, StonewallOf(v, t)))
  <2> DEFINE found == StonewallOf(v, t)
             s == The(found)
  <2>1. CASE found = {}
    BY <1>4, <2>1 DEF WithStonewall
  <2>2. CASE found # {}
    <3>1. s \in found
      BY <2>2 DEF The
    <3>2. s.conf = "medium"
      BY <3>1, StonewallIsModest
    <3>3. WithStonewall(u, t, found) = Stonewalled(u, t, s)
      BY <2>2 DEF WithStonewall
    <3> HIDE DEF found, s
    <3>4. Honest(Marked(u, {<<t, i>> : i \in s.repeated}, "stonewall_equal_output", s.conf))
      BY <1>4, <3>2, MarkedHonest
    <3>5. Honest(Stonewalled(u, t, s))
      BY <3>2, <3>4, FindHonest DEF Stonewalled
    <3> QED
      BY <3>3, <3>5 DEF found
  <2> QED
    BY <2>1, <2>2
<1>5. ASSUME NEW u, Honest(u)
      PROVE  Honest(WithPayjoin(u, t, Payjoin(Body[t], PrevoutsOf[t], tracked)))
  <2> DEFINE found == Payjoin(Body[t], PrevoutsOf[t], tracked)
             x == The(found)
  <2>1. CASE found = {}
    BY <1>5, <2>1 DEF WithPayjoin
  <2>2. CASE found # {}
    <3>1. x \in found
      BY <2>2 DEF The
    <3>2. x.conf # "high"
      BY <3>1, PayjoinIsModest
    <3>3. WithPayjoin(u, t, found) = Find(u, "postmix_payjoin_fingerprint", t, x.tracked, x.conf)
      BY <2>2 DEF WithPayjoin
    <3> HIDE DEF found, x
    <3>4. Honest(Find(u, "postmix_payjoin_fingerprint", t, x.tracked, x.conf))
      BY <1>5, <3>2, FindHonest
    <3> QED
      BY <3>3, <3>4 DEF found
  <2> QED
    BY <2>1, <2>2
<1> QED
  BY <1>3, <1>4, <1>5 DEF Shaped

LEMMA DoxxicHonest ==
    ASSUME NEW v, Honest(v), NEW item, Justified(item), NEW t
    PROVE  Honest(WithDoxxic(v, item, t)) /\ Honest(WithLaterTx0(v, item, t))
<1>1. CASE item.anc # "doxxic_change"
  BY <1>1 DEF WithDoxxic, WithLaterTx0
<1>2. CASE item.anc = "doxxic_change"
  <2>1. \A o \in {item.out} : Kind(o) = "tx0"
    BY <1>2 DEF Justified
  <2>2. /\ Honest(Find(v, "doxxic_change_spend", t, {item.out}, item.conf))
        /\ Honest(Find(v, "later_tx0", t, {item.out}, Detection[t].conf))
    BY <2>1, FindHonest
  <2> QED
    BY <1>2, <2>2 DEF WithDoxxic, WithLaterTx0
<1> QED
  BY <1>1, <1>2

LEMMA ReuseHonest ==
    ASSUME NEW v, Honest(v) PROVE Honest(WithReuse(v))
<1> DEFINE u == WithReuse(v)
           more == {[kind |-> "address_reuse", tx |-> (CHOOSE o \in S : TRUE)[1], at |-> S]
                      : S \in Reused(v)}
           new == [f \in more |-> "medium"]
           old == v.findings
<1>1. /\ SameCourse(v, u) /\ u.outs = v.outs /\ u.edges = v.edges
      /\ u.findings = With(old, new)
  BY DEF WithReuse, SameCourse, Honest, Fields
<1>2. DOMAIN new = more /\ \A f \in more : f.kind = "address_reuse" /\ new[f] = "medium"
  OBVIOUS
<1> HIDE DEF u, new, old, more
<1>3. /\ DOMAIN u.findings = DOMAIN old \cup more
      /\ \A f \in DOMAIN old : u.findings[f] = old[f]
      /\ \A f \in more \ DOMAIN old : u.findings[f] = "medium"
  BY <1>1, <1>2 DEF With
<1>4. AddsFindings(v, u)
  BY <1>2, <1>3 DEF AddsFindings, Grounded, old
<1>5. Honest(u)
  BY <1>1, <1>4, Unchanged, HonestFrame
<1> QED
  BY <1>5 DEF u

LEMMA PaymentsHonest ==
    ASSUME NEW v, Honest(v), NEW t \in Tx, Detection[t].kind = "unknown",
           NEW taken, NEW protected, NEW depth \in Int
    PROVE  Honest(WithPayments(v, t, taken, protected, depth))
<1> DEFINE chosen == (SpendableOuts(t) \cap WithNode(v, t)) \ taken
           marked == Marked(v, {<<t, i>> : i \in chosen \ protected}, "possible_payment", "low")
           more   == {[kind |-> "possible_payment", tx |-> t, at |-> {<<t, i>>}] : i \in chosen}
           found  == [marked EXCEPT !.findings = With(@, [f \in more |-> "low"])]
           anc    == [i \in chosen |-> "possible_payment"]
           conf   == [i \in chosen |-> "low"]
<1>1. WithPayments(v, t, taken, protected, depth)
        = Track(found, t, chosen, anc, conf, depth, FALSE)
  BY DEF WithPayments
<1>2. Honest(marked)
  BY MarkedHonest
<1>3. DOMAIN marked.outs = DOMAIN v.outs
  BY DEF Marked, Honest, Fields
<1>4. chosen \subseteq WithNode(v, t)
  OBVIOUS
<1>5. \A f \in more : f.kind = "possible_payment"
  OBVIOUS
<1> HIDE DEF chosen, marked, more
<1>6. /\ SameCourse(marked, found) /\ found.outs = marked.outs /\ found.edges = marked.edges
      /\ found.findings = With(marked.findings, [f \in more |-> "low"])
  BY <1>2 DEF Honest, SameCourse, Fields
<1> HIDE DEF found
<1>7. AddsFindings(marked, found)
  <2> DEFINE old == marked.findings
             new == [f \in more |-> "low"]
  <2>1. found.findings = With(old, new) /\ DOMAIN new = more /\ \A f \in more : new[f] = "low"
    BY <1>6
  <2> HIDE DEF old, new
  <2>2. /\ DOMAIN found.findings = DOMAIN old \cup more
        /\ \A f \in DOMAIN old : found.findings[f] = old[f]
        /\ \A f \in more \ DOMAIN old : found.findings[f] = "low"
    BY <2>1 DEF With
  <2> QED
    BY <1>5, <2>2 DEF AddsFindings, Grounded, old
<1>8. Honest(found)
  BY <1>2, <1>6, <1>7, Unchanged, HonestFrame
<1>9. chosen \subseteq WithNode(found, t)
  BY <1>3, <1>4, <1>6 DEF WithNode
<1>10. anc \in [chosen -> Ancestries] /\ conf \in [chosen -> Confs]
  BY DEF Ancestries, Confs
<1>11. \A i \in chosen : anc[i] \notin {"postmix", "doxxic_change"} /\ conf[i] # "high"
  OBVIOUS
<1> HIDE DEF anc, conf
<1>12. Honest(Track(found, t, chosen, anc, conf, depth, FALSE))
  BY <1>8, <1>9, <1>10, <1>11, TrackHonest
<1> QED
  BY <1>1, <1>12

-----------------------------------------------------------------------------
(* A Ricochet: what a probe walks is spent hop by hop, by transactions of   *)
(* one output, and stays so while the walk goes on.                         *)

Keeps(v, u) ==
    \A o \in DOMAIN v.found : o \in DOMAIN u.found /\ u.found[o] = v.found[o]

Linked(v, path, k) ==
    /\ path[k] \in DOMAIN v.found /\ v.found[path[k]] # {}
    /\ path[k + 1][1] \in Tx /\ Kind(path[k + 1]) = "unknown"

Chain(v, path) == \A k \in 1 .. 4 : Linked(v, path, k)

Steps(o) == {o} \cup (Tx \X {1})

\* A probe of the output o after n - 1 hops.
ProbeAt(p, v, o, n) ==
    /\ {"w", "path", "end"} \subseteq DOMAIN p
    /\ Honest(p.w) /\ Keeps(v, p.w)
    /\ p.end = "open" =>
          /\ p.path \in Seq(Steps(o)) /\ Len(p.path) = n
          /\ \A k \in 1 .. n - 1 : Linked(p.w, p.path, k)

LEMMA LinkedKeeps ==
    ASSUME NEW v, NEW u, Keeps(v, u), NEW path, NEW k, Linked(v, path, k)
    PROVE  Linked(u, path, k)
BY DEF Keeps, Linked

LEMMA HopHonest ==
    ASSUME NEW p, NEW v, NEW o, NEW n \in Nat \ {0}, ProbeAt(p, v, o, n), known \subseteq Tx
    PROVE  ProbeAt(Hop(p), v, o, n + 1)
<1> DEFINE q == Hop(p)
<1>1. CASE p.end # "open"
  BY <1>1 DEF Hop, ProbeAt
<1>2. CASE p.end = "open" /\ Exhausted(p.w, End(p))
  <2>1. q = [w |-> Cut(p.w, "lookups"), path |-> p.path, end |-> "limit"]
    BY <1>2 DEF Hop
  <2> DEFINE c == Cut(p.w, "lookups")
  <2>2. Honest(c)
    BY CutHonest DEF ProbeAt
  <2>3. c.found = p.w.found
    BY DEF Cut, ProbeAt, Honest, Fields
  <2> HIDE DEF c, q
  <2>4. {"w", "path", "end"} \subseteq DOMAIN q /\ q.w = c /\ q.end = "limit"
    BY <2>1 DEF c
  <2>5. ProbeAt(q, v, o, n + 1)
    BY <2>2, <2>3, <2>4 DEF ProbeAt, Keeps
  <2> QED
    BY <2>5 DEF q
<1>3. CASE p.end = "open" /\ ~Exhausted(p.w, End(p))
  <2> DEFINE last == End(p)
             looked == Looked(p.w, last)
             path == p.path
             next == Onward(looked, path, last)
  <2>1. q = Advanced(looked, path, next)
    BY <1>3 DEF Hop
  <2>2. Honest(p.w) /\ path \in Seq(Steps(o)) /\ Len(path) = n /\ Keeps(v, p.w)
        /\ \A k \in 1 .. n - 1 : Linked(p.w, path, k)
    BY <1>3 DEF ProbeAt
  <2>3. /\ Honest(looked)
        /\ DOMAIN looked.found = DOMAIN p.w.found \cup {last}
        /\ \A x \in DOMAIN p.w.found : looked.found[x] = p.w.found[x]
        /\ looked.found[last] \subseteq Tx
    BY <2>2, LookedHonest
  <2>4. last = path[n]
    BY <2>2 DEF End
  <2> HIDE DEF last, looked
  <2>5. Keeps(p.w, looked) /\ Keeps(v, looked)
    BY <2>2, <2>3 DEF Keeps
  <2>6. CASE next = {}
    <3>1. q = [w |-> looked, path |-> path, end |-> "dead"]
      BY <2>1, <2>6 DEF Advanced
    <3> HIDE DEF q, path
    <3>2. {"w", "path", "end"} \subseteq DOMAIN q /\ q.w = looked /\ q.end = "dead"
      BY <3>1
    <3>3. ProbeAt(q, v, o, n + 1)
      BY <2>3, <2>5, <3>2 DEF ProbeAt
    <3> QED
      BY <3>3 DEF q
  <2>7. CASE next # {}
    <3> DEFINE t == CHOOSE s \in next : TRUE
               onto == <<t, 1>>
               longer == Append(path, onto)
    <3>1. q = [w |-> looked, path |-> longer, end |-> "open"]
      BY <2>1, <2>7 DEF Advanced
    <3>2. t \in next
      BY Zenon, <2>7
    <3>3. t \in looked.found[last] /\ Len(Body[t].outs) = 1
      BY Zenon, <3>2 DEF Onward, IsRicochetHop
    <3>4. t \in Tx
      BY <2>3, <3>3
    <3> HIDE DEF t
    <3>5. Kind(onto) = "unknown" /\ onto[1] = t /\ onto \in Steps(o)
      BY <3>3, <3>4, HopsAreUnknown DEF Kind, Steps
    <3> HIDE DEF onto, path, q
    <3>6. /\ longer \in Seq(Steps(o)) /\ Len(longer) = n + 1
          /\ longer[n + 1] = onto /\ \A k \in 1 .. n : longer[k] = path[k]
      <4> DEFINE S == Steps(o)
      <4>1. path \in Seq(S) /\ onto \in S /\ Len(path) = n
        BY <2>2, <3>5
      <4> HIDE DEF S
      <4> QED
        BY <4>1 DEF S
    <3> HIDE DEF longer
    <3>7. {"w", "path", "end"} \subseteq DOMAIN q /\ q.w = looked /\ q.path = longer
      BY <3>1
    <3>8. ASSUME NEW k \in 1 .. (n + 1) - 1 PROVE Linked(looked, longer, k)
      <4>1. CASE k = n
        BY <2>3, <2>4, <3>3, <3>4, <3>5, <3>6, <4>1 DEF Linked
      <4>2. CASE k # n
        <5>1. k \in 1 .. n - 1 /\ longer[k] = path[k] /\ longer[k + 1] = path[k + 1]
          BY <3>6, <4>2
        <5>2. Linked(looked, path, k)
          BY <2>2, <2>5, <5>1, LinkedKeeps
        <5> QED
          BY <5>1, <5>2 DEF Linked
      <4> QED
        BY <4>1, <4>2
    <3>9. ProbeAt(q, v, o, n + 1)
      BY <2>3, <2>5, <3>6, <3>7, <3>8 DEF ProbeAt
    <3> QED
      BY <3>9 DEF q
  <2> QED
    BY <2>6, <2>7
<1> QED
  BY <1>1, <1>2, <1>3

LEMMA ProbedHonest ==
    ASSUME NEW v, Honest(v), NEW t, NEW i, known \subseteq Tx
    PROVE  ProbeAt(Probed(v, t, i), v, <<t, i>>, 5)
<1> DEFINE o == <<t, i>>
           p == Probe(v, t, i)
<1>1. ProbeAt(p, v, o, 1)
  <2>1. /\ {"w", "path", "end"} \subseteq DOMAIN p /\ p.w = v /\ p.path = <<o>>
    BY DEF Probe
  <2>2. <<o>> \in Seq(Steps(o)) /\ Len(<<o>>) = 1
    BY DEF Steps
  <2>3. Keeps(v, v)
    BY DEF Keeps
  <2> HIDE DEF p, o
  <2> QED
    BY <2>1, <2>2, <2>3 DEF ProbeAt
<1>2. Probed(v, t, i) = Hop(Hop(Hop(Hop(p))))
  BY DEF Probed
<1> HIDE DEF p, o
<1>3. ProbeAt(Hop(p), v, o, 2)
  BY <1>1, HopHonest
<1>4. ProbeAt(Hop(Hop(p)), v, o, 3)
  BY <1>3, HopHonest
<1>5. ProbeAt(Hop(Hop(Hop(p))), v, o, 4)
  BY <1>4, HopHonest
<1>6. ProbeAt(Hop(Hop(Hop(Hop(p)))), v, o, 5)
  BY <1>5, HopHonest
<1> QED
  BY <1>2, <1>6 DEF o

LEMMA ProbeIsChain ==
    ASSUME NEW p, NEW v, NEW o, ProbeAt(p, v, o, 5), p.end = "open"
    PROVE  Chain(p.w, p.path)
BY DEF ProbeAt, Chain

LEMMA WithHopHonest ==
    ASSUME NEW v, Honest(v), NEW from, NEW onto, NEW k, Kind(onto) = "unknown"
    PROVE  Honest(WithHop(v, from, onto, k)) /\ WithHop(v, from, onto, k).found = v.found
<1> DEFINE one == Marked(v, {from}, "ricochet_hop", "medium")
           two == Marked(one, {onto}, HopRole(k), "medium")
           three == [two EXCEPT !.detected = @ \cup {onto[1]}]
           mark == IF k = 4 THEN "possible_payment" ELSE "postmix"
           u == WithHop(v, from, onto, k)
<1>1. Honest(one)
  BY MarkedHonest
<1>2. one.found = v.found
  BY DEF Marked, Honest, Fields
<1> HIDE DEF one
<1>3. Honest(two)
  BY <1>1, MarkedHonest
<1>4. two.found = v.found
  BY <1>1, <1>2 DEF Marked, Honest, Fields
<1>5. onto \in DOMAIN two.outs => two.outs[onto].conf = "medium"
  BY <1>1 DEF Marked, Honest, Fields
<1>6. u = [two EXCEPT !.detected = @ \cup {onto[1]}, !.anc[onto] = @ \cup {mark}]
  BY DEF WithHop, one
<1> HIDE DEF two, u
<1>0. /\ Fields \subseteq DOMAIN two /\ Placed(two) /\ Modest(two) /\ Agreed(two)
      /\ AllAtOnce(two) /\ BumpsWhole(two)
  BY <1>3 DEF Honest
<1>7. /\ Fields \subseteq DOMAIN u
      /\ u.nodes = two.nodes /\ u.outs = two.outs /\ u.edges = two.edges
      /\ u.findings = two.findings /\ u.found = two.found /\ u.frontier = two.frontier
      /\ u.anc = [two.anc EXCEPT ![onto] = @ \cup {mark}]
  BY <1>0, <1>6 DEF Fields
<1>8. mark \in Ancestries
  BY DEF Ancestries
<1> HIDE DEF mark
<1>9. /\ u.anc \in [Outpoints -> SUBSET Ancestries]
      /\ \A x \in Outpoints : two.anc[x] \subseteq u.anc[x]
      /\ \A x \in Outpoints : x # onto => u.anc[x] = two.anc[x]
  <2> DEFINE old == two.anc
  <2>1. old \in [Outpoints -> SUBSET Ancestries] /\ u.anc = [old EXCEPT ![onto] = @ \cup {mark}]
    BY <1>0, <1>7 DEF Placed
  <2> HIDE DEF old
  <2>2. /\ u.anc \in [Outpoints -> SUBSET Ancestries]
        /\ \A x \in Outpoints : old[x] \subseteq u.anc[x]
        /\ \A x \in Outpoints : x # onto => u.anc[x] = old[x]
    BY <1>8, <2>1
  <2> QED
    BY <2>2 DEF old
<1>10. Placed(u)
  BY <1>0, <1>7, <1>9 DEF Placed
<1>11. DOMAIN two.outs \subseteq Outpoints
  BY <1>0, NodesAreOutpoints
<1>12. Modest(u)
  <2>1. \A x \in Outpoints : "postmix" \in u.anc[x] => Kind(x) # "tx0"
    BY <1>0, <1>9 DEF Modest
  <2>2. \A x \in DOMAIN u.outs : "postmix" \in u.anc[x] => u.outs[x].conf # "high"
    BY <1>0, <1>5, <1>7, <1>9, <1>11 DEF Modest
  <2> QED
    BY <1>0, <1>7, <2>1, <2>2 DEF Modest
<1>13. Agreed(u)
  <2>0. /\ UnspentBacked(two) /\ SpendsBacked(two)
        /\ u.outs = two.outs /\ u.found = two.found /\ u.edges = two.edges
        /\ u.findings = two.findings
    BY <1>0, <1>7 DEF Agreed
  <2>1. UnspentBacked(u)
    BY <2>0 DEF UnspentBacked
  <2>2. SpendsBacked(u)
    BY <2>0 DEF SpendsBacked
  <2>3. StatusBacked(u)
    <3>1. /\ DOMAIN u.outs = DOMAIN two.outs
          /\ \A x \in DOMAIN two.outs : u.outs[x].status = two.outs[x].status
          /\ DOMAIN two.findings \subseteq DOMAIN u.findings
          /\ DOMAIN two.edges \subseteq DOMAIN u.edges
      BY <2>0
    <3>2. StatusBacked(two)
      BY <1>0 DEF Agreed
    <3> QED
      BY <3>1, <3>2, StatusStays
  <2> QED
    BY <2>1, <2>2, <2>3 DEF Agreed
<1>14. AllAtOnce(u)
  <2> SUFFICES ASSUME NEW x \in Outpoints, "postmix" \in u.anc[x], Kind(x) = "whirlpool_round"
               PROVE  /\ x \in DOMAIN two.outs
                      /\ \A y \in DOMAIN two.outs : y[1] = x[1] => "postmix" \in u.anc[y]
    BY <1>7 DEF AllAtOnce
  <2>1. "postmix" \in two.anc[x]
    BY <1>9
  <2>2. /\ x \in DOMAIN two.outs
        /\ \A y \in DOMAIN two.outs : y[1] = x[1] => "postmix" \in two.anc[y]
    BY <1>0, <2>1 DEF AllAtOnce
  <2> QED
    BY <1>9, <1>11, <2>2
<1>15. BumpsWhole(u)
  <2>1. \A s, p : ParentNodes(u, s, p) = ParentNodes(two, s, p)
    BY <1>7 DEF ParentNodes
  <2> QED
    BY <1>0, <1>7, <2>1 DEF BumpsWhole
<1>16. Honest(u) /\ u.found = v.found
  BY <1>4, <1>7, <1>10, <1>12, <1>13, <1>14, <1>15 DEF Honest
<1> QED
  BY <1>16 DEF u

LEMMA AddHopHonest ==
    ASSUME NEW v, Honest(v), NEW path, Chain(v, path), NEW k \in 1 .. 4
    PROVE  /\ Honest(AddHop(v, path, k))
           /\ Chain(AddHop(v, path, k), path)
           /\ AddHop(v, path, k).found = v.found
<1> DEFINE o == path[k]
           t == path[k + 1][1]
           added == AddTx(v, t)
           confirmed == Confirm(added, o, t)
           u == AddHop(v, path, k)
<1>1. o \in DOMAIN v.found /\ v.found[o] # {} /\ t \in Tx /\ Kind(path[k + 1]) = "unknown"
  BY DEF Chain, Linked
<1>2. Honest(added) /\ added.found = v.found
  BY <1>1, AddTxHonest
<1>3. u = WithHop(confirmed, path[k], path[k + 1], k)
  BY DEF AddHop
<1> HIDE DEF added
<1>4. Honest(confirmed) /\ confirmed.found = v.found
  BY <1>1, <1>2, ConfirmHonest
<1> HIDE DEF confirmed, u
<1>5. Honest(u) /\ u.found = v.found
  BY <1>1, <1>3, <1>4, WithHopHonest
<1>6. Chain(u, path)
  BY <1>5 DEF Chain, Linked
<1> QED
  BY <1>5, <1>6 DEF u

LEMMA AddChainHonest ==
    ASSUME NEW v, Honest(v), NEW t, NEW fee, NEW path, Chain(v, path)
    PROVE  Honest(AddChain(v, t, fee, path))
<1> DEFINE marked == Marked(v, {<<t, fee>>}, "ricochet_fee", "medium")
           one    == AddHop(marked, path, 1)
           two    == AddHop(one, path, 2)
           three  == AddHop(two, path, 3)
           four   == AddHop(three, path, 4)
<1>1. Honest(marked)
  BY MarkedHonest
<1>2. marked.found = v.found
  BY DEF Marked, Honest, Fields
<1>3. AddChain(v, t, fee, path) = Find(four, "ricochet", t, {<<t, fee>>}, "medium")
  BY DEF AddChain
<1> HIDE DEF marked
<1>4. Chain(marked, path)
  BY <1>2 DEF Chain, Linked
<1>5. Honest(one) /\ Chain(one, path)
  BY <1>1, <1>4, AddHopHonest
<1> HIDE DEF one
<1>6. Honest(two) /\ Chain(two, path)
  BY <1>5, AddHopHonest
<1> HIDE DEF two
<1>7. Honest(three) /\ Chain(three, path)
  BY <1>6, AddHopHonest
<1> HIDE DEF three
<1>8. Honest(four)
  BY <1>7, AddHopHonest
<1> HIDE DEF four
<1> QED
  BY <1>3, <1>8, FindHonest

LEMMA RicochetHonest ==
    ASSUME NEW v, Honest(v), NEW t, NEW entry, NEW depth, known \subseteq Tx
    PROVE  Honest(WithRicochet(v, t, entry, depth).w)
<1>1. ASSUME NEW u, Honest(u), NEW fee, NEW path, Chain(u, path)
      PROVE  Honest(Chained(u, t, fee, path).w)
  <2>1. Honest(AddChain(u, t, fee, path)) /\ Honest(Cut(u, "chain"))
    BY <1>1, AddChainHonest, CutHonest
  <2> QED
    BY <2>1 DEF Chained
<1>2. ASSUME NEW first, NEW second, NEW a, NEW b, NEW e,
             ProbeAt(first, v, a, 5),
             second = first \/ ProbeAt(second, first.w, b, 5)
      PROVE  Honest(Judged(first, second, t, e).w)
  <2> DEFINE open == {p \in {first, second} : p.end = "open"}
             paths == {p.path : p \in open}
             path == The(paths)
  <2>1. Honest(second.w) /\ Keeps(first.w, second.w)
    BY <1>2 DEF ProbeAt, Keeps
  <2>2. \A p \in open : Chain(second.w, p.path)
    <3> TAKE p \in open
    <3>1. CASE p = first
      <4>1. Chain(first.w, first.path)
        BY <1>2, <3>1, ProbeIsChain
      <4> QED
        BY <2>1, <3>1, <4>1, LinkedKeeps DEF Chain
    <3>2. CASE p = second /\ second # first
      BY <1>2, <3>2, ProbeIsChain
    <3> QED
      BY <3>1, <3>2
  <2>3. Judged(first, second, t, e) =
           IF second.end = "limit" THEN [w |-> second.w, taken |-> {}]
           ELSE IF Cardinality(paths) = 1 THEN Chained(second.w, t, The(e.fees), path)
           ELSE [w |-> second.w, taken |-> {}]
    BY DEF Judged, RicochetVerdict
  <2>4. Cardinality(paths) = 1 => Chain(second.w, path)
    <3> SUFFICES ASSUME Cardinality(paths) = 1 PROVE Chain(second.w, path)
      OBVIOUS
    <3> HIDE DEF open
    <3>1. path \in paths
      BY OneIsSome DEF The
    <3> QED
      BY <2>2, <3>1
  <2> HIDE DEF open, paths, path
  <2>5. Cardinality(paths) = 1 => Honest(Chained(second.w, t, The(e.fees), path).w)
    BY <1>1, <2>1, <2>4
  <2> QED
    BY <2>1, <2>3, <2>5
<1>3. ASSUME NEW e PROVE Honest(FollowRicochet(v, t, e, depth).w)
  <2> DEFINE i == Min(e.candidates)
             j == Max(e.candidates)
             first == Probed(v, t, i)
             second == Probed(first.w, t, j)
  <2>1. CASE depth + 4 > limits.depth
    <3>1. Honest(Cut(v, "depth"))
      BY CutHonest
    <3> QED
      BY <2>1, <3>1 DEF FollowRicochet
  <2>2. CASE ~(depth + 4 > limits.depth)
    <3>1. FollowRicochet(v, t, e, depth) =
             Judged(first, IF first.end = "limit" THEN first ELSE second, t, e)
      BY <2>2 DEF FollowRicochet, ProbedBoth
    <3>2. ProbeAt(first, v, <<t, i>>, 5)
      BY ProbedHonest
    <3> HIDE DEF first, i
    <3>3. Honest(first.w)
      BY <3>2 DEF ProbeAt
    <3>4. ProbeAt(second, first.w, <<t, j>>, 5)
      BY <3>3, ProbedHonest
    <3> HIDE DEF second, j
    <3>5. Honest(Judged(first, first, t, e).w) /\ Honest(Judged(first, second, t, e).w)
      BY <1>2, <3>2, <3>4
    <3> QED
      BY <3>1, <3>5
  <2> QED
    BY <2>1, <2>2
<1> QED
  BY <1>3 DEF WithRicochet

LEMMA FollowOrdinaryHonest ==
    ASSUME NEW v, Honest(v), NEW t \in Tx, Detection[t].kind = "unknown",
           NEW depth \in Int, known \subseteq Tx
    PROVE  Honest(FollowOrdinary(v, t, depth))
<1> DEFINE shaped == Shaped(v, t, TrackedPostmix(v, t))
           ricochet == WithRicochet(shaped, t,
                          RicochetEntry(Body[t], TrackedPostmix(v, t)), depth)
<1>1. Honest(shaped)
  BY ShapedHonest
<1>2. FollowOrdinary(v, t, depth)
        = WithPayments(ricochet.w, t, ricochet.taken, Protected(v, t), depth)
  BY DEF FollowOrdinary, Continued
<1> HIDE DEF shaped
<1>3. Honest(ricochet.w)
  BY <1>1, RicochetHonest
<1> HIDE DEF ricochet
<1> QED
  BY <1>2, <1>3, PaymentsHonest

-----------------------------------------------------------------------------
(* The loop, honest from beginning to end. *)

LEMMA NewWalkHonest ==
    ASSUME NEW t
    PROVE  Honest(NewWalk) /\ Honest([NewWalk EXCEPT !.detected = {t}])
<1>1. ASSUME NEW u, Fields \subseteq DOMAIN u,
             u.nodes = {}, u.outs = << >>, u.edges = << >>, u.findings = << >>,
             u.found = << >>, u.frontier = << >>, u.anc = [o \in Outpoints |-> {}]
      PROVE  Honest(u)
  <2>1. DOMAIN u.outs = {} /\ DOMAIN u.edges = {} /\ DOMAIN u.findings = {}
        /\ DOMAIN u.found = {}
    BY <1>1
  <2>2. u.frontier \in Seq(Items(DOMAIN u.outs))
    BY <1>1
  <2>3. Placed(u)
    BY <1>1, <2>1, <2>2 DEF Placed
  <2>4. Modest(u) /\ AllAtOnce(u) /\ BumpsWhole(u)
    BY <1>1, <2>1 DEF Modest, AllAtOnce, BumpsWhole
  <2>5. Agreed(u)
    BY <2>1 DEF Agreed, UnspentBacked, SpendsBacked, StatusBacked
  <2> QED
    BY <1>1, <2>3, <2>4, <2>5 DEF Honest
<1> DEFINE plain == NewWalk
           u == [plain EXCEPT !.detected = {t}]
<1>2. /\ Fields \subseteq DOMAIN plain
      /\ plain.nodes = {} /\ plain.outs = << >> /\ plain.edges = << >>
      /\ plain.findings = << >> /\ plain.found = << >> /\ plain.frontier = << >>
      /\ plain.anc = [o \in Outpoints |-> {}]
  BY DEF NewWalk, Fields
<1> HIDE DEF plain
<1>3. /\ Fields \subseteq DOMAIN u
      /\ u.nodes = {} /\ u.outs = << >> /\ u.edges = << >>
      /\ u.findings = << >> /\ u.found = << >> /\ u.frontier = << >>
      /\ u.anc = [o \in Outpoints |-> {}]
  BY <1>2 DEF Fields
<1> HIDE DEF u
<1>4. Honest(plain)
  BY <1>1, <1>2
<1>5. Honest(u)
  BY <1>1, <1>3
<1> QED
  BY <1>4, <1>5 DEF u, plain

LEMMA PoppedHonest ==
    ASSUME Honest(w), w.frontier # << >>
    PROVE  /\ Honest(Popped) /\ Honest(Visiting)
           /\ Item \in Items(DOMAIN w.outs)
           /\ Visiting.outs = w.outs /\ Visiting.found = w.found /\ Visiting.nodes = w.nodes
<1> DEFINE queue == w.frontier
           I == Items(DOMAIN w.outs)
<1>0. /\ Fields \subseteq DOMAIN w /\ Placed(w) /\ Modest(w) /\ Agreed(w) /\ AllAtOnce(w)
      /\ BumpsWhole(w)
  BY DEF Honest
<1>1. queue \in Seq(I)
  BY <1>0 DEF Placed
<1> HIDE DEF I
<1>2. Head(queue) \in I /\ Tail(queue) \in Seq(I)
  BY <1>1
<1>3. Fields \subseteq DOMAIN Popped /\ Popped.frontier = Tail(queue)
      /\ Popped.nodes = w.nodes /\ Popped.outs = w.outs /\ Popped.edges = w.edges
      /\ Popped.findings = w.findings /\ Popped.anc = w.anc /\ Popped.found = w.found
  BY <1>0 DEF Popped, Fields
<1> HIDE DEF queue
<1>4. Placed(Popped)
  <2>1. Popped.frontier \in Seq(Items(DOMAIN Popped.outs))
    BY <1>2, <1>3 DEF I
  <2> QED
    BY <1>0, <1>3, <2>1 DEF Placed
<1>5. Modest(Popped) /\ AllAtOnce(Popped)
  BY <1>0, <1>3 DEF Modest, AllAtOnce
<1>6. Agreed(Popped)
  <2>0. /\ UnspentBacked(w) /\ SpendsBacked(w)
        /\ Popped.outs = w.outs /\ Popped.found = w.found /\ Popped.edges = w.edges
        /\ Popped.findings = w.findings
    BY <1>0, <1>3 DEF Agreed
  <2>1. UnspentBacked(Popped)
    BY <2>0 DEF UnspentBacked
  <2>2. SpendsBacked(Popped)
    BY <2>0 DEF SpendsBacked
  <2>3. StatusBacked(Popped)
    <3>1. /\ DOMAIN Popped.outs = DOMAIN w.outs
          /\ \A x \in DOMAIN w.outs : Popped.outs[x].status = w.outs[x].status
          /\ DOMAIN w.findings \subseteq DOMAIN Popped.findings
          /\ DOMAIN w.edges \subseteq DOMAIN Popped.edges
      BY <2>0
    <3>2. StatusBacked(w)
      BY <1>0 DEF Agreed
    <3> QED
      BY <3>1, <3>2, StatusStays
  <2> QED
    BY <2>1, <2>2, <2>3 DEF Agreed
<1>7. BumpsWhole(Popped)
  <2>1. \A s, p : ParentNodes(Popped, s, p) = ParentNodes(w, s, p)
    BY <1>3 DEF ParentNodes
  <2> QED
    BY <1>0, <1>3, <2>1 DEF BumpsWhole
<1>8. Honest(Popped)
  BY <1>3, <1>4, <1>5, <1>6, <1>7 DEF Honest
<1>9. /\ SameCourse(Popped, Visiting) /\ Visiting.outs = Popped.outs
      /\ Visiting.edges = Popped.edges /\ Visiting.findings = Popped.findings
  BY <1>3 DEF Visiting, SameCourse, Fields
<1>10. Honest(Visiting)
  BY <1>8, <1>9, Unchanged, HonestFrame
<1>11. Visiting.outs = w.outs /\ Visiting.found = w.found /\ Visiting.nodes = w.nodes
  BY <1>3, <1>9 DEF SameCourse
<1> QED
  BY <1>2, <1>8, <1>10, <1>11 DEF Item, I, queue

LEMMA FetchedHonest ==
    ASSUME Honest(w), w.frontier # << >>, known \subseteq Tx
    PROVE  /\ Honest(Fetched) /\ Fetched.outs = w.outs /\ Fetched.nodes = w.nodes
           /\ Item.out \in DOMAIN Fetched.outs /\ Item.out \in DOMAIN Fetched.found
           /\ Item.depth \in Int /\ Justified(Item)
           /\ Spent => Spender \in Tx
<1>1. /\ Honest(Visiting) /\ Item \in Items(DOMAIN w.outs)
      /\ Visiting.outs = w.outs /\ Visiting.nodes = w.nodes
  BY PoppedHonest
<1>2. Item.out \in DOMAIN w.outs /\ Item.depth \in Int /\ Justified(Item)
  BY <1>1 DEF Items
<1>3. /\ Honest(Fetched) /\ Fetched.outs = w.outs /\ Fetched.nodes = w.nodes
      /\ Item.out \in DOMAIN Fetched.found /\ Fetched.found[Item.out] \subseteq Tx
  BY <1>1, LookedHonest DEF Fetched
<1>4. Spent => Spender \in Tx
  BY <1>3 DEF Spent, Spender, SpenderOf
<1> QED
  BY <1>2, <1>3, <1>4

LEMMA RecordedHonest ==
    ASSUME Honest(w), w.frontier # << >>, known \subseteq Tx, Spent
    PROVE  Honest(Recorded) /\ Spender \in Tx /\ Justified(Item)
<1> DEFINE o == Item.out
           t == Spender
           plain == AddTx(Fetched, t)
           added == [plain EXCEPT !.detected = @ \cup {t}]
           confirmed == Confirm(added, o, t)
           bumped == WithCpfp(confirmed, o, t)
<1>1. /\ Honest(Fetched) /\ o \in DOMAIN Fetched.outs /\ o \in DOMAIN Fetched.found
      /\ Fetched.found[o] # {} /\ t \in Tx /\ Justified(Item)
  BY FetchedHonest DEF Spent
<1>2. Recorded = WithDoxxic(bumped, Item, t)
  BY DEF Recorded
<1> HIDE DEF o, t
<1>3. /\ Honest(plain) /\ plain.found = Fetched.found
      /\ DOMAIN Fetched.outs \subseteq DOMAIN plain.outs
  BY <1>1, AddTxHonest
<1> HIDE DEF plain
<1>4. Honest(added)
  BY <1>3, DetectedHonest
<1>5. added.found = plain.found /\ added.outs = plain.outs
  BY <1>3 DEF Honest, Fields
<1> HIDE DEF added
<1>6. Honest(confirmed) /\ DOMAIN confirmed.outs = DOMAIN added.outs
  BY <1>1, <1>3, <1>4, <1>5, ConfirmHonest
<1>7. o \in DOMAIN confirmed.outs
  BY <1>1, <1>3, <1>5, <1>6
<1> HIDE DEF confirmed
<1>8. Honest(bumped)
  BY <1>1, <1>6, <1>7, CpfpHonest
<1> HIDE DEF bumped
<1> QED
  BY <1>1, <1>2, <1>8, DoxxicHonest DEF t

\* The inductive invariant.
HInv == known \subseteq Tx /\ root \in Tx /\ Honest(w)

LEMMA InitHonest == Init => HInv
BY GraphAssumption, NewWalkHonest DEF Init, HInv

LEMMA NextHonest == HInv /\ [Next]_vars => HInv'
<1> SUFFICES ASSUME HInv, [Next]_vars PROVE HInv'
  OBVIOUS
<1>a. known \subseteq Tx /\ root \in Tx /\ Honest(w)
  BY DEF HInv
<1>b. ASSUME NEW u, Honest(u), w' = u, known' = known, root' = root PROVE HInv'
  <2>1. Honest(w')
    BY <1>b
  <2>2. Honest(w)'
    BY <2>1 DEF Honest, Fields, Placed, Modest, Agreed, UnspentBacked, SpendsBacked,
       StatusBacked, AllAtOnce, BumpsWhole, ParentNodes, Items, Justified, Grounded,
       Kind, Outpoints, Ancestries, Confs
  <2> QED
    BY <1>a, <1>b, <2>2 DEF HInv
<1>1. CASE Begin
  <2> DEFINE v == AddTx([NewWalk EXCEPT !.detected = {root}], root)
             tx0 == EnqueueRoles(v, root, Tx0Ancestry, "high", 0)
             round == EnqueueRoles(v, root, RoundAncestry, "medium", 0)
             kind == Detection[root].kind
  <2>1. Honest(v)
    BY <1>a, NewWalkHonest, AddTxHonest
  <2>2. /\ w' = CASE kind = "tx0" -> tx0 [] kind = "whirlpool_round" -> round [] OTHER -> v
        /\ known' = known /\ root' = root
    BY <1>1 DEF Begin
  <2> HIDE DEF v
  <2>3. kind = "tx0" => Honest(tx0)
    BY <1>a, <2>1, EnqueueRolesHonest
  <2>4. kind = "whirlpool_round" => Honest(round)
    BY <1>a, <2>1, EnqueueRolesHonest
  <2> HIDE DEF tx0, round, kind
  <2>5. Honest(w')
    BY <2>1, <2>2, <2>3, <2>4
  <2> QED
    BY <2>2, <2>5, <1>b
<1>c. Walking => w.frontier # << >>
  BY DEF Walking
<1>2. CASE Repeat
  BY <1>2, <1>a, <1>b, <1>c, PoppedHonest DEF Repeat
<1>3. CASE TooDeep
  <2>1. Honest(Cut(Visiting, "depth"))
    BY <1>3, <1>a, <1>c, PoppedHonest, CutHonest DEF TooDeep
  <2> QED
    BY <1>3, <1>b, <2>1 DEF TooDeep
<1>d. Fetching => w.frontier # << >>
  BY <1>c DEF Fetching
<1>4. CASE OutOfLookups
  <2>1. Honest(Cut(Visiting, "lookups"))
    BY <1>4, <1>a, <1>d, PoppedHonest, CutHonest DEF OutOfLookups
  <2> QED
    BY <1>4, <1>b, <2>1 DEF OutOfLookups
<1>5. CASE Unspent
  <2>1. /\ Honest(Fetched) /\ Item.out \in DOMAIN Fetched.outs
        /\ Item.out \in DOMAIN Fetched.found /\ Fetched.found[Item.out] = {}
        /\ Item.conf = "high" => Kind(Item.out) = "tx0"
    BY <1>5, <1>a, <1>d, FetchedHonest DEF Unspent, Spent, Justified
  <2>2. Honest(Find(Status(Fetched, Item.out, "unspent"),
                    "unspent", Item.out[1], {Item.out}, Item.conf))
    BY <2>1, UnspentHonest
  <2> QED
    BY <1>5, <1>b, <2>2 DEF Unspent
<1>6. CASE OutOfTransactions
  <2>1. Honest(Cut(Fetched, "transactions"))
    BY <1>6, <1>a, <1>d, FetchedHonest, CutHonest DEF OutOfTransactions
  <2>2. Honest([Cut(Fetched, "transactions") EXCEPT !.detected = @ \cup {Spender}])
    BY <2>1, DetectedHonest
  <2> QED
    BY <1>6, <1>b, <2>2 DEF OutOfTransactions
<1>e. Followed => /\ Honest(Recorded) /\ Spender \in Tx /\ Item.depth + 1 \in Int
                  /\ Justified(Item) /\ known' = known /\ root' = root
  <2> SUFFICES ASSUME Followed
               PROVE  /\ Honest(Recorded) /\ Spender \in Tx /\ Item.depth + 1 \in Int
                      /\ Justified(Item) /\ known' = known /\ root' = root
    OBVIOUS
  <2>1. w.frontier # << >> /\ Spent /\ known' = known /\ root' = root
    BY <1>d DEF Followed
  <2>2. Item.depth \in Int
    BY <1>a, <2>1, FetchedHonest
  <2> QED
    BY <1>a, <2>1, <2>2, RecordedHonest
<1>7. CASE LastSpend
  BY <1>7, <1>b, <1>e DEF LastSpend
<1>8. CASE EnterRound
  <2>1. /\ Honest(Recorded) /\ Spender \in Tx /\ Item.depth + 1 \in Int
        /\ Detection[Spender].kind = "whirlpool_round"
        /\ known' = known /\ root' = root
    BY <1>8, <1>e DEF EnterRound, Becomes
  <2>2. Honest(FollowRound(Recorded, Item, Spender, Item.depth + 1))
    BY <2>1, FollowRoundHonest
  <2> QED
    BY <1>8, <1>b, <2>1, <2>2 DEF EnterRound
<1>9. CASE EnterTx0
  <2>1. /\ Honest(Recorded) /\ Spender \in Tx /\ Item.depth + 1 \in Int
        /\ Detection[Spender].kind = "tx0" /\ Justified(Item)
        /\ known' = known /\ root' = root
    BY <1>9, <1>e DEF EnterTx0, Becomes
  <2>2. Honest(WithLaterTx0(Recorded, Item, Spender))
    BY <2>1, DoxxicHonest
  <2>3. Honest(EnqueueRoles(WithLaterTx0(Recorded, Item, Spender), Spender,
                            Tx0Ancestry, "high", Item.depth + 1))
    BY <2>1, <2>2, EnqueueRolesHonest
  <2> QED
    BY <1>9, <1>b, <2>1, <2>3 DEF EnterTx0
<1>10. CASE OrdinarySpend
  <2>1. /\ Honest(Recorded) /\ Spender \in Tx /\ Item.depth + 1 \in Int
        /\ Detection[Spender].kind = "unknown"
        /\ known' = known /\ root' = root
    BY <1>10, <1>e DEF OrdinarySpend, Becomes
  <2>2. Honest(FollowOrdinary(Recorded, Spender, Item.depth + 1))
    BY <1>a, <2>1, FollowOrdinaryHonest
  <2> QED
    BY <1>10, <1>b, <2>1, <2>2 DEF OrdinarySpend
<1>11. CASE Drained \/ Fails \/ Finished \/ UNCHANGED vars
  BY <1>11, <1>a, <1>b DEF Drained, Fails, Finished, vars
<1>12. CASE Report
  BY <1>12, <1>a, <1>b, ReuseHonest DEF Report
<1>13. CASE NodeLearns
  <2>1. w' = w /\ root' = root /\ known' \subseteq Tx
    BY <1>13, <1>a, GraphAssumption DEF NodeLearns
  <2>2. Honest(w')
    BY <1>a, <2>1
  <2>3. Honest(w)'
    BY <2>2 DEF Honest, Fields, Placed, Modest, Agreed, UnspentBacked, SpendsBacked,
       StatusBacked, AllAtOnce, BumpsWhole, ParentNodes, Items, Justified, Grounded,
       Kind, Outpoints, Ancestries, Confs
  <2> QED
    BY <1>a, <2>1, <2>3 DEF HInv
<1> QED
  BY <1>1, <1>2, <1>3, <1>4, <1>5, <1>6, <1>7, <1>8, <1>9, <1>10, <1>11, <1>12, <1>13
     DEF Next, Step

LEMMA HonestAlways == Spec => []HInv
BY InitHonest, NextHonest, PTL DEF Spec

(* Whatever the graph and the limits, and whatever the node learns in the   *)
(* middle of the walk, nothing behind a round is of high confidence         *)
(* (_coinjoin_confidence, _follow_round, _enqueue_roles).                   *)
THEOREM NothingCertainBehindARound == Spec => []Ambiguity
<1>1. HInv => Ambiguity
  <2> SUFFICES ASSUME HInv PROVE Ambiguity
    OBVIOUS
  <2>1. Modest(w) /\ Placed(w) /\ DOMAIN w.outs \subseteq Outpoints
    BY NodesAreOutpoints DEF HInv, Honest
  <2>2. \A o \in DOMAIN w.outs : "postmix" \in w.anc[o] => w.outs[o].conf # "high"
    BY <2>1 DEF Modest
  <2>3. ASSUME NEW k \in DOMAIN w.frontier, w.frontier[k].anc = "postmix"
        PROVE  w.frontier[k].conf # "high"
    <3> DEFINE queue == w.frontier
               I == Items(DOMAIN w.outs)
    <3>1. queue \in Seq(I) /\ k \in DOMAIN queue
      BY <2>1, <2>3 DEF Placed
    <3> HIDE DEF queue, I
    <3>2. queue[k] \in I
      BY <3>1
    <3> QED
      BY <2>3, <3>2 DEF queue, I, Items, Justified
  <2>4. \A e \in DOMAIN w.edges : e[1] = "possible_coinjoin_link" => w.edges[e] # "high"
    BY <2>1 DEF Modest
  <2>5. ASSUME NEW f \in DOMAIN w.findings, w.findings[f] = "high",
               NEW o \in f.at, o \in Outpoints, "postmix" \in w.anc[o]
        PROVE  f.kind \in ShownBySpend
    <3>1. Kind(o) # "tx0" /\ Grounded(f, w.findings[f])
      BY <2>1, <2>5 DEF Modest
    <3> QED
      BY <2>5, <3>1 DEF Grounded
  <2> QED
    BY <2>2, <2>3, <2>4, <2>5 DEF Ambiguity
<1> QED
  BY <1>1, HonestAlways, PTL

(* The statuses of the nodes, the findings and the spend edges agree, even  *)
(* if the node learns of a spend that was looked up before (_spend_cache).  *)
THEOREM StatusesAgree == Spec => []StatusAgrees
<1>1. HInv => StatusAgrees
  <2> SUFFICES ASSUME HInv, NEW o \in DOMAIN w.outs
               PROVE  /\ w.outs[o].status = "unspent" <=>
                            \E f \in Findings("unspent") : f.at = {o}
                      /\ w.outs[o].status = "spent" <=>
                            \E e \in DOMAIN w.edges : e[1] = "spends" /\ e[2] = o
    BY DEF StatusAgrees
  <2>1. UnspentBacked(w) /\ SpendsBacked(w) /\ StatusBacked(w)
    BY DEF HInv, Honest, Agreed
  <2>2. ASSUME NEW f \in Findings("unspent"), f.at = {o} PROVE w.outs[o].status = "unspent"
    BY <2>1, <2>2 DEF UnspentBacked, Findings
  <2>3. w.outs[o].status = "unspent" => \E f \in Findings("unspent") : f.at = {o}
    BY <2>1 DEF StatusBacked, Findings
  <2>4. ASSUME NEW e \in DOMAIN w.edges, e[1] = "spends", e[2] = o
        PROVE  w.outs[o].status = "spent"
    BY <2>1, <2>4 DEF SpendsBacked
  <2>5. w.outs[o].status = "spent" =>
           \E e \in DOMAIN w.edges : e[1] = "spends" /\ e[2] = o
    BY <2>1 DEF StatusBacked
  <2> QED
    BY <2>2, <2>3, <2>4, <2>5
<1> QED
  BY <1>1, HonestAlways, PTL

(* One fee bump of a parent by a child is one finding, whichever of the     *)
(* child's inputs the walk arrives by (_add_whirlpool_cpfp_finding).        *)
THEOREM BumpsReportedOnce == Spec => []CpfpOnce
<1>1. HInv => CpfpOnce
  <2> SUFFICES ASSUME HInv, NEW f \in Findings("whirlpool_cpfp"),
                      NEW g \in Findings("whirlpool_cpfp"), f.tx = g.tx,
                      {o[1] : o \in f.at} = {o[1] : o \in g.at}
               PROVE  f = g
    BY DEF CpfpOnce
  <2>1. /\ f = [kind |-> "whirlpool_cpfp", tx |-> f.tx, at |-> f.at] /\ f.at # {}
        /\ g = [kind |-> "whirlpool_cpfp", tx |-> g.tx, at |-> g.at] /\ g.at # {}
    BY DEF HInv, Honest, BumpsWhole, Findings
  <2>2. PICK p : f.at = ParentNodes(w, f.tx, p)
    BY DEF HInv, Honest, BumpsWhole, Findings
  <2>3. PICK q : g.at = ParentNodes(w, g.tx, q)
    BY DEF HInv, Honest, BumpsWhole, Findings
  <2>4. {o[1] : o \in f.at} = {p} /\ {o[1] : o \in g.at} = {q}
    BY <2>1, <2>2, <2>3 DEF ParentNodes
  <2>5. p = q
    BY <2>4
  <2> QED
    BY <2>1, <2>2, <2>3, <2>5
<1> QED
  BY <1>1, HonestAlways, PTL
-----------------------------------------------------------------------------
(* The course of the walk: what a helper adds and what it leaves alone.     *)

Cons(v) == {f \in DOMAIN v.findings : f.kind = "postmix_consolidation"}
Chains(v) == {f \in DOMAIN v.findings : f.kind = "ricochet"}
Hops(v) == {e \in DOMAIN v.edges : e[1] = "spends"}

\* Labels, findings of other kinds and reasons for a partial report apart,
\* the walk stands still.
Still(v, u) ==
    /\ Fields \subseteq DOMAIN u
    /\ u.nodes = v.nodes /\ DOMAIN u.outs = DOMAIN v.outs /\ u.anc = v.anc
    /\ u.found = v.found /\ u.seen = v.seen /\ u.frontier = v.frontier
    /\ v.cut \subseteq u.cut

Quiet(v, u) ==
    Still(v, u) /\ Cons(u) = Cons(v) /\ Chains(u) = Chains(v) /\ Hops(u) = Hops(v)

LEMMA QuietOn ==
    ASSUME NEW v, NEW u, NEW x, Quiet(v, u), Quiet(u, x) PROVE Quiet(v, x)
BY DEF Quiet, Still

LEMMA QuietSelf == ASSUME NEW v, Fields \subseteq DOMAIN v PROVE Quiet(v, v)
BY DEF Quiet, Still

LEMMA FindStill ==
    ASSUME NEW v, Fields \subseteq DOMAIN v, NEW kind, NEW t, NEW at, NEW conf
    PROVE  LET u == Find(v, kind, t, at, conf)
           IN  /\ Still(v, u) /\ Hops(u) = Hops(v)
               /\ DOMAIN u.findings = DOMAIN v.findings \cup {[kind |-> kind, tx |-> t, at |-> at]}
<1> DEFINE u == Find(v, kind, t, at, conf)
           f == [kind |-> kind, tx |-> t, at |-> at]
           one == One(f, conf)
<1>1. u.findings = With(v.findings, one)
  BY DEF Find, Fields
<1>2. DOMAIN one = {f}
  BY DEF One
<1>3. Still(v, u)
  BY DEF Find, Fields, Still
<1>4. u.edges = v.edges
  BY DEF Find, Fields
<1> HIDE DEF u, one, f
<1>5. DOMAIN u.findings = DOMAIN v.findings \cup {f}
  BY <1>1, <1>2 DEF With
<1> QED
  BY <1>3, <1>4, <1>5 DEF u, f, Hops

LEMMA FindQuiet ==
    ASSUME NEW v, Fields \subseteq DOMAIN v,
           NEW kind, kind \notin {"postmix_consolidation", "ricochet"},
           NEW t, NEW at, NEW conf
    PROVE  Quiet(v, Find(v, kind, t, at, conf))
<1> DEFINE u == Find(v, kind, t, at, conf)
           f == [kind |-> kind, tx |-> t, at |-> at]
<1>1. /\ Still(v, u) /\ Hops(u) = Hops(v)
      /\ DOMAIN u.findings = DOMAIN v.findings \cup {f}
  BY FindStill
<1>2. f.kind = kind
  OBVIOUS
<1> HIDE DEF u, f
<1>3. Cons(u) = Cons(v) /\ Chains(u) = Chains(v)
  BY <1>1, <1>2 DEF Cons, Chains
<1> QED
  BY <1>1, <1>3 DEF Quiet, u

\* What changes no finding and no edge is quiet if the walk stands still.
LEMMA PlainQuiet ==
    ASSUME NEW v, NEW u, Still(v, u), u.findings = v.findings, u.edges = v.edges
    PROVE  Quiet(v, u)
BY DEF Quiet, Cons, Chains, Hops

LEMMA CutQuiet ==
    ASSUME NEW v, Fields \subseteq DOMAIN v, NEW cause
    PROVE  Quiet(v, Cut(v, cause)) /\ cause \in Cut(v, cause).cut
<1>1. /\ Still(v, Cut(v, cause)) /\ cause \in Cut(v, cause).cut
      /\ Cut(v, cause).findings = v.findings /\ Cut(v, cause).edges = v.edges
  BY DEF Still, Cut, Fields
<1> QED
  BY <1>1, PlainQuiet

LEMMA DetectedQuiet ==
    ASSUME NEW v, Fields \subseteq DOMAIN v, NEW t
    PROVE  Quiet(v, [v EXCEPT !.detected = @ \cup {t}])
<1> DEFINE u == [v EXCEPT !.detected = @ \cup {t}]
<1>1. Still(v, u) /\ u.findings = v.findings /\ u.edges = v.edges
  BY DEF Still, Fields
<1> QED
  BY <1>1, PlainQuiet

LEMMA MarkedQuiet ==
    ASSUME NEW v, Fields \subseteq DOMAIN v, NEW S, NEW role, NEW conf
    PROVE  Quiet(v, Marked(v, S, role, conf))
<1> DEFINE u == Marked(v, S, role, conf)
<1>1. Still(v, u) /\ u.findings = v.findings /\ u.edges = v.edges
  BY DEF Still, Fields, Marked
<1> QED
  BY <1>1, PlainQuiet

LEMMA StatusQuiet ==
    ASSUME NEW v, Fields \subseteq DOMAIN v, NEW o, NEW status
    PROVE  Quiet(v, Status(v, o, status))
<1> DEFINE u == Status(v, o, status)
<1>1. Still(v, u) /\ u.findings = v.findings /\ u.edges = v.edges
  BY DEF Still, Fields, Status
<1> QED
  BY <1>1, PlainQuiet

\* A spend is recorded where the output has a node, and nowhere else.
LEMMA ConfirmStill ==
    ASSUME NEW v, Fields \subseteq DOMAIN v, NEW o, NEW t
    PROVE  LET u == Confirm(v, o, t)
           IN  /\ Still(v, u) /\ Cons(u) = Cons(v) /\ Chains(u) = Chains(v)
               /\ o \in DOMAIN v.outs => Hops(u) = Hops(v) \cup {<<"spends", o, t>>}
               /\ o \notin DOMAIN v.outs => u = v
<1> DEFINE u == Confirm(v, o, t)
           s == Status(v, o, "spent")
           e == <<"spends", o, t>>
<1>1. CASE o \notin DOMAIN v.outs
  <2>1. u = v
    BY <1>1 DEF Confirm
  <2> QED
    BY <1>1, <2>1 DEF Still
<1>2. CASE o \in DOMAIN v.outs
  <2>1. Quiet(v, s) /\ Fields \subseteq DOMAIN s
    BY StatusQuiet DEF Quiet, Still
  <2>2. u = Edge(s, "spends", o, t, "high")
    BY <1>2 DEF Confirm
  <2> HIDE DEF s
  <2>3. /\ Still(s, u) /\ u.findings = s.findings
        /\ u.edges = With(s.edges, One(e, "high"))
    BY <2>1, <2>2 DEF Edge, Still, Fields
  <2>4. DOMAIN One(e, "high") = {e} /\ e[1] = "spends"
    BY DEF One
  <2> HIDE DEF u, e
  <2>5. DOMAIN u.edges = DOMAIN s.edges \cup {e}
    BY <2>3, <2>4 DEF With
  <2>6. Hops(u) = Hops(v) \cup {e}
    BY <2>1, <2>4, <2>5 DEF Quiet, Hops
  <2>7. Still(v, u) /\ Cons(u) = Cons(v) /\ Chains(u) = Chains(v)
    BY <2>1, <2>3 DEF Quiet, Still, Cons, Chains
  <2> QED
    BY <1>2, <2>6, <2>7 DEF u, e
<1> QED
  BY <1>1, <1>2

LEMMA FindsQuiet ==
    ASSUME NEW v, Fields \subseteq DOMAIN v
    PROVE  /\ \A o, t : Quiet(v, WithCpfp(v, o, t))
           /\ \A item, t : Quiet(v, WithDoxxic(v, item, t)) /\ Quiet(v, WithLaterTx0(v, item, t))
           /\ \A t, tracked : Quiet(v, Paying(v, t, tracked))
           /\ \A t, found : Quiet(v, WithPayjoin(v, t, found))
BY FindQuiet, QuietSelf DEF WithCpfp, WithDoxxic, WithLaterTx0, Paying, WithPayjoin

LEMMA StonewallQuiet ==
    ASSUME NEW v, Fields \subseteq DOMAIN v, NEW t, NEW found
    PROVE  Quiet(v, WithStonewall(v, t, found))
<1>1. CASE found = {}
  BY <1>1, QuietSelf DEF WithStonewall
<1>2. CASE found # {}
  <2> DEFINE s == The(found)
             marked == Marked(v, {<<t, i>> : i \in s.repeated}, "stonewall_equal_output", s.conf)
             u == Find(marked, "stonewall", t, s.tracked, s.conf)
  <2>1. WithStonewall(v, t, found) = u
    BY <1>2 DEF WithStonewall, Stonewalled
  <2>2. Quiet(v, marked)
    BY MarkedQuiet
  <2> HIDE DEF marked
  <2>3. Fields \subseteq DOMAIN marked
    BY <2>2 DEF Quiet, Still
  <2>4. Quiet(marked, u)
    BY <2>3, FindQuiet
  <2> HIDE DEF u
  <2> QED
    BY <2>1, <2>2, <2>4, QuietOn
<1> QED
  BY <1>1, <1>2

\* The report's address reuse.
LEMMA ReuseQuiet ==
    ASSUME NEW v, Fields \subseteq DOMAIN v
    PROVE  Quiet(v, WithReuse(v))
<1> DEFINE u == WithReuse(v)
           more == [f \in {[kind |-> "address_reuse", tx |-> (CHOOSE o \in S : TRUE)[1], at |-> S]
                            : S \in Reused(v)} |-> "medium"]
<1>1. Still(v, u) /\ u.findings = With(v.findings, more) /\ u.edges = v.edges
  BY DEF Still, Fields, WithReuse
<1>2. \A f \in DOMAIN more : f.kind = "address_reuse"
  OBVIOUS
<1> HIDE DEF u, more
<1>3. DOMAIN u.findings = DOMAIN v.findings \cup DOMAIN more
  BY <1>1 DEF With
<1>4. Cons(u) = Cons(v) /\ Chains(u) = Chains(v) /\ Hops(u) = Hops(v)
  BY <1>1, <1>2, <1>3 DEF Cons, Chains, Hops
<1> QED
  BY <1>1, <1>4 DEF Quiet, u

-----------------------------------------------------------------------------
(* A helper that queues nothing: transactions and spends may come with it,  *)
(* lookups of outputs of no round and no Tx0, and the ancestry of a         *)
(* Ricochet, whose outputs are spent alone.                                 *)

Witnessed(v) == \A o \in DOMAIN v.found : v.found[o] \subseteq Spenders(o)

\* Every output of a transaction node has a node, unless the report says that
\* outputs were left out.
Complete(v) ==
    "outputs" \notin v.cut =>
        \A t \in v.nodes : \A i \in OutsOf(Body[t]) : <<t, i>> \in DOMAIN v.outs

Alone(o) == Kind(o) = "unknown" /\ \A t \in Tx : Spends(t, o) => InSet(Body[t]) = {o}

Grows(v, u) ==
    /\ Fields \subseteq DOMAIN u
    /\ v.nodes \subseteq u.nodes /\ DOMAIN v.outs \subseteq DOMAIN u.outs
    /\ v.cut \subseteq u.cut /\ u.seen = v.seen /\ u.frontier = v.frontier
    /\ Complete(v) => Complete(u)

Strays(v, u) ==
    /\ Grows(v, u) /\ Keeps(v, u)
    /\ \A o \in DOMAIN u.found : o \in DOMAIN v.found \/ Kind(o) = "unknown"
    /\ Witnessed(v) => Witnessed(u)
    /\ \A o \in Outpoints :
          /\ v.anc[o] \subseteq u.anc[o]
          /\ "postmix" \in u.anc[o] => "postmix" \in v.anc[o] \/ Alone(o)

LEMMA OneSpender ==
    ASSUME NEW t \in Tx, NEW s \in Tx, NEW o, Spends(t, o), Spends(s, o)
    PROVE  t = s
BY GraphAssumption DEF Spends

LEMMA StraysOn ==
    ASSUME NEW v, NEW u, NEW x, Strays(v, u), Strays(u, x) PROVE Strays(v, x)
<1>1. Grows(v, x)
  BY DEF Strays, Grows
<1>2. Keeps(v, x)
  BY DEF Strays, Keeps
<1>3. \A o \in DOMAIN x.found : o \in DOMAIN v.found \/ Kind(o) = "unknown"
  BY DEF Strays
<1>4. Witnessed(v) => Witnessed(x)
  BY DEF Strays
<1>5. \A o \in Outpoints :
         /\ v.anc[o] \subseteq x.anc[o]
         /\ "postmix" \in x.anc[o] => "postmix" \in v.anc[o] \/ Alone(o)
  BY DEF Strays
<1> QED
  BY <1>1, <1>2, <1>3, <1>4, <1>5 DEF Strays

\* What looks nothing up and tracks nothing strays if it grows.
LEMMA GrowsStrays ==
    ASSUME NEW v, NEW u, Grows(v, u), u.found = v.found, u.anc = v.anc
    PROVE  Strays(v, u)
BY DEF Strays, Keeps, Witnessed

LEMMA StillStrays ==
    ASSUME NEW v, NEW u, Still(v, u) PROVE Strays(v, u)
<1>1. Complete(v) => Complete(u)
  BY DEF Complete, Still
<1>2. Grows(v, u)
  BY <1>1 DEF Still, Grows
<1> QED
  BY <1>2, GrowsStrays DEF Still

LEMMA WithTxGrows ==
    ASSUME NEW v, Fields \subseteq DOMAIN v, NEW t
    PROVE  LET u == WithTx(v, t)
           IN  /\ Grows(v, u) /\ u.found = v.found /\ u.anc = v.anc
               /\ u.findings = v.findings /\ Hops(u) = Hops(v)
               /\ u.nodes = v.nodes \cup {t}
               /\ DOMAIN u.outs = DOMAIN v.outs \cup {<<t, i>> : i \in KeptOutputs(v, t)}
<1> DEFINE u == WithTx(v, t)
           kept == KeptOutputs(v, t)
           links == {<<"creates", t, <<t, i>>>> : i \in kept}
           new == [e \in links |-> "high"]
           fresh == [o \in {<<t, i>> : i \in kept} |->
                          [role   |-> Detection[t].roles[o[2]],
                           conf   |-> Detection[t].confs[o[2]],
                           status |-> "unknown"]]
<1>1. /\ Fields \subseteq DOMAIN u
      /\ u.found = v.found /\ u.anc = v.anc /\ u.findings = v.findings
      /\ u.seen = v.seen /\ u.frontier = v.frontier /\ u.nodes = v.nodes \cup {t}
  BY DEF WithTx, WithOuts, Fields
<1>2. u.cut = v.cut \cup IF kept = OutsOf(Body[t]) THEN {} ELSE {"outputs"}
  BY DEF WithTx, WithOuts, Fields
<1>3. u.edges = With(v.edges, new) /\ u.outs = With(v.outs, fresh)
  BY DEF WithTx, WithOuts, Fields
<1>4. DOMAIN new = links /\ DOMAIN fresh = {<<t, i>> : i \in kept}
      /\ \A e \in links : e[1] = "creates"
  OBVIOUS
<1> HIDE DEF u, new, links, fresh
<1>5. DOMAIN u.edges = DOMAIN v.edges \cup links
      /\ DOMAIN u.outs = DOMAIN v.outs \cup {<<t, i>> : i \in kept}
  BY <1>3, <1>4 DEF With
<1>6. Hops(u) = Hops(v)
  BY <1>4, <1>5 DEF Hops
<1> HIDE DEF kept
<1>7. ASSUME Complete(v) PROVE Complete(u)
  <2> SUFFICES ASSUME "outputs" \notin u.cut, NEW s \in u.nodes, NEW i \in OutsOf(Body[s])
               PROVE  <<s, i>> \in DOMAIN u.outs
    BY DEF Complete
  <2>1. kept = OutsOf(Body[t]) /\ "outputs" \notin v.cut
    BY <1>2
  <2>2. CASE s = t
    BY <1>5, <2>1, <2>2
  <2>3. CASE s \in v.nodes
    BY <1>5, <1>7, <2>1, <2>3 DEF Complete
  <2> QED
    BY <1>1, <2>2, <2>3
<1>8. Grows(v, u)
  BY <1>1, <1>2, <1>5, <1>7 DEF Grows
<1> QED
  BY <1>1, <1>5, <1>6, <1>8 DEF u, kept

LEMMA AddTxGrows ==
    ASSUME NEW v, Fields \subseteq DOMAIN v, NEW t
    PROVE  LET u == AddTx(v, t)
           IN  /\ Grows(v, u) /\ u.found = v.found /\ u.anc = v.anc
               /\ u.findings = v.findings /\ Hops(u) = Hops(v)
               /\ TxFits(v, t) => t \in u.nodes
<1>1. CASE t \in v.nodes \/ ~TxFits(v, t)
  <2>1. AddTx(v, t) = v
    BY <1>1 DEF AddTx
  <2> QED
    BY <1>1, <2>1 DEF Grows
<1>2. CASE t \notin v.nodes /\ TxFits(v, t)
  <2>1. AddTx(v, t) = WithTx(v, t)
    BY <1>2 DEF AddTx
  <2> QED
    BY <2>1, WithTxGrows
<1> QED
  BY <1>1, <1>2

\* A lookup outside the loop, of an output of no round and no Tx0.
LEMMA LookedStrays ==
    ASSUME NEW v, Fields \subseteq DOMAIN v, NEW o
    PROVE  LET u == Looked(v, o)
           IN  /\ Grows(v, u) /\ Keeps(v, u) /\ u.anc = v.anc /\ u.nodes = v.nodes
               /\ u.outs = v.outs /\ u.findings = v.findings /\ u.edges = v.edges
               /\ DOMAIN u.found = DOMAIN v.found \cup {o}
               /\ Witnessed(v) => Witnessed(u)
               /\ o \notin DOMAIN v.found => u.found[o] = Spenders(o)
               /\ Kind(o) = "unknown" => Strays(v, u)
<1> DEFINE u == Looked(v, o)
           one == One(o, Spenders(o))
<1>1. /\ Fields \subseteq DOMAIN u
      /\ u.nodes = v.nodes /\ u.outs = v.outs /\ u.anc = v.anc /\ u.cut = v.cut
      /\ u.seen = v.seen /\ u.frontier = v.frontier
      /\ u.findings = v.findings /\ u.edges = v.edges /\ u.found = With(v.found, one)
  BY DEF Looked, Fields
<1>2. DOMAIN one = {o} /\ one[o] = Spenders(o)
  BY DEF One
<1> HIDE DEF u, one
<1>3. /\ DOMAIN u.found = DOMAIN v.found \cup {o}
      /\ \A x \in DOMAIN v.found : u.found[x] = v.found[x]
      /\ o \notin DOMAIN v.found => u.found[o] = Spenders(o)
  BY <1>1, <1>2 DEF With
<1>4. Grows(v, u)
  BY <1>1 DEF Grows, Complete
<1>5. Keeps(v, u)
  BY <1>3 DEF Keeps
<1>6. Witnessed(v) => Witnessed(u)
  BY <1>3 DEF Witnessed
<1>7. Kind(o) = "unknown" => Strays(v, u)
  BY <1>1, <1>3, <1>4, <1>5, <1>6 DEF Strays
<1> QED
  BY <1>1, <1>3, <1>4, <1>5, <1>6, <1>7 DEF u

-----------------------------------------------------------------------------
(* The states A join the frontier, all at the depth d.                      *)

\* u's frontier is v's and behind it one item for each state of A.
Queued1(v, u, A, d, r) ==
    /\ Len(v.frontier) <= Len(u.frontier)
    /\ \A k \in 1 .. Len(v.frontier) : u.frontier[k] = v.frontier[k]
    /\ \A k \in DOMAIN u.frontier : k > Len(v.frontier) =>
          /\ State(u.frontier[k]) \in A
          /\ u.frontier[k].depth = d /\ u.frontier[k].recursive = r
    /\ \A s \in A : \E k \in DOMAIN u.frontier :
          k > Len(v.frontier) /\ State(u.frontier[k]) = s

Queues(v, u, A, d, r) ==
    /\ Fields \subseteq DOMAIN u
    /\ u.nodes = v.nodes /\ DOMAIN u.outs = DOMAIN v.outs
    /\ u.found = v.found /\ u.seen = v.seen /\ v.cut \subseteq u.cut
    /\ Cons(u) = Cons(v) /\ Chains(u) = Chains(v) /\ Hops(u) = Hops(v)
    /\ \A o \in Outpoints : u.anc[o] = v.anc[o] \cup {s[2] : s \in {x \in A : x[1] = o}}
    /\ Queued1(v, u, A, d, r)

LEMMA QuietQueues ==
    ASSUME NEW v, NEW u, NEW x, NEW A, NEW d, NEW r, Quiet(v, u), Queues(u, x, A, d, r)
    PROVE  Queues(v, x, A, d, r)
<1>1. /\ u.nodes = v.nodes /\ DOMAIN u.outs = DOMAIN v.outs /\ u.anc = v.anc
      /\ u.found = v.found /\ u.seen = v.seen /\ u.frontier = v.frontier
      /\ v.cut \subseteq u.cut
      /\ Cons(u) = Cons(v) /\ Chains(u) = Chains(v) /\ Hops(u) = Hops(v)
  BY DEF Quiet, Still
<1>2. Queued1(v, x, A, d, r)
  BY <1>1 DEF Queues, Queued1
<1> QED
  BY <1>1, <1>2 DEF Queues

TrackStates(t, chosen, anc) == {<<<<t, i>>, anc[i]>> : i \in chosen}

LEMMA TrackQueues ==
    ASSUME NEW v, Fields \subseteq DOMAIN v, v.frontier \in Seq(Items(DOMAIN v.outs)),
           NEW t \in Tx, NEW chosen, chosen \subseteq OutsOf(Body[t]),
           NEW anc, NEW conf, NEW depth, NEW recursive
    PROVE  Queues(v, Track(v, t, chosen, anc, conf, depth, recursive),
                  TrackStates(t, chosen, anc), depth, recursive)
<1> DEFINE u == Track(v, t, chosen, anc, conf, depth, recursive)
           A == {<<<<t, i>>, anc[i]>> : i \in chosen}
           order == InOrder(chosen)
           item(k) == [out |-> <<t, order[k]>>, anc |-> anc[order[k]],
                       conf |-> conf[order[k]], depth |-> depth, recursive |-> recursive]
           more == [k \in DOMAIN order |-> item(k)]
           old == v.frontier
           n == Len(old)
<1>1. /\ Fields \subseteq DOMAIN u
      /\ u.nodes = v.nodes /\ u.outs = v.outs
      /\ u.found = v.found /\ u.seen = v.seen /\ u.cut = v.cut
      /\ u.findings = v.findings /\ u.edges = v.edges
      /\ u.frontier = old \o more
      /\ u.anc = [o \in Outpoints |->
                     IF o[1] = t /\ o[2] \in chosen
                     THEN v.anc[o] \cup {anc[o[2]]} ELSE v.anc[o]]
  BY DEF Track, Queued, Fields
<1>2. /\ order \in Seq(chosen)
      /\ \A i \in chosen : \E k \in DOMAIN order : order[k] = i
  BY OutsAreFinite, InOrderType
<1>3. n \in Nat /\ old \in Seq(Items(DOMAIN v.outs))
  OBVIOUS
<1> HIDE DEF u, A
<1>4. /\ Len(u.frontier) = n + Len(order) /\ Len(order) \in Nat
      /\ DOMAIN order = 1 .. Len(order)
      /\ \A k \in 1 .. n : u.frontier[k] = old[k]
      /\ \A k \in 1 .. Len(order) : u.frontier[n + k] = item(k)
      /\ DOMAIN u.frontier = 1 .. n + Len(order)
  <2>1. DOMAIN order = 1 .. Len(order) /\ Len(order) \in Nat
    BY <1>2
  <2>2. DOMAIN more = 1 .. Len(order) /\ \A k \in 1 .. Len(order) : more[k] = item(k)
    BY <2>1
  <2> DEFINE T == {item(k) : k \in 1 .. Len(order)} \cup Items(DOMAIN v.outs)
  <2>3. more \in Seq(T) /\ old \in Seq(T) /\ Len(more) = Len(order)
    <3>1. more \in [1 .. Len(order) -> T]
      BY <2>1
    <3>2. old \in [1 .. n -> T] /\ n \in Nat
      BY <1>3
    <3> HIDE DEF more, T, old
    <3> QED
      BY <2>1, <3>1, <3>2
  <2> HIDE DEF more, T, old, order, item
  <2>4. /\ Len(old \o more) = n + Len(more) /\ DOMAIN (old \o more) = 1 .. n + Len(more)
        /\ \A k \in 1 .. n : (old \o more)[k] = old[k]
        /\ \A k \in 1 .. Len(more) : (old \o more)[n + k] = more[k]
    BY <2>3
  <2> QED
    BY <1>1, <2>1, <2>2, <2>3, <2>4
<1>5. \A k \in DOMAIN order :
         /\ State(item(k)) = <<<<t, order[k]>>, anc[order[k]]>>
         /\ item(k).depth = depth /\ item(k).recursive = recursive
         /\ order[k] \in chosen
  BY <1>2 DEF State
<1> HIDE DEF item, order, old
<1>6. Queued1(v, u, A, depth, recursive)
  <2>1. n <= Len(u.frontier) /\ n = Len(v.frontier)
    BY <1>3, <1>4 DEF old
  <2>2. ASSUME NEW k \in DOMAIN u.frontier, k > n
        PROVE  /\ State(u.frontier[k]) \in A
               /\ u.frontier[k].depth = depth /\ u.frontier[k].recursive = recursive
    <3>1. k - n \in 1 .. Len(order) /\ k = n + (k - n)
      BY <1>3, <1>4, <2>2
    <3>2. u.frontier[k] = item(k - n)
      BY <1>4, <3>1
    <3> QED
      BY <1>4, <1>5, <3>1, <3>2 DEF A
  <2>3. ASSUME NEW s \in A
        PROVE  \E k \in DOMAIN u.frontier : k > n /\ State(u.frontier[k]) = s
    <3>1. PICK i \in chosen : s = <<<<t, i>>, anc[i]>>
      BY DEF A
    <3>2. PICK k \in DOMAIN order : order[k] = i
      BY <1>2
    <3>3. n + k \in DOMAIN u.frontier /\ n + k > n /\ u.frontier[n + k] = item(k)
      BY <1>3, <1>4, <3>2
    <3> QED
      BY <1>5, <3>1, <3>2, <3>3
  <2>4. \A k \in 1 .. n : u.frontier[k] = v.frontier[k]
    BY <1>4 DEF old
  <2> HIDE DEF n
  <2> QED
    BY <2>1, <2>2, <2>3, <2>4 DEF Queued1
<1>7. ASSUME NEW o \in Outpoints
      PROVE  u.anc[o] = v.anc[o] \cup {s[2] : s \in {x \in A : x[1] = o}}
  <2>1. o = <<o[1], o[2]>>
    BY GraphAssumption DEF Outpoints
  <2>2. CASE o[1] = t /\ o[2] \in chosen
    <3>1. {s[2] : s \in {x \in A : x[1] = o}} = {anc[o[2]]}
      <4>1. <<o, anc[o[2]]>> \in A
        BY <2>1, <2>2 DEF A
      <4>2. \A x \in A : x[1] = o => x[2] = anc[o[2]]
        BY DEF A
      <4>3. <<o, anc[o[2]]>>[1] = o /\ <<o, anc[o[2]]>>[2] = anc[o[2]]
        OBVIOUS
      <4> QED
        BY <4>1, <4>2, <4>3
    <3> QED
      BY <1>1, <2>2, <3>1
  <2>3. CASE ~(o[1] = t /\ o[2] \in chosen)
    <3>1. \A x \in A : x[1] # o
      BY <2>3 DEF A
    <3>2. {s[2] : s \in {x \in A : x[1] = o}} = {}
      BY <3>1
    <3> QED
      BY <1>1, <2>3, <3>2
  <2> QED
    BY <2>2, <2>3
<1>8. Cons(u) = Cons(v) /\ Chains(u) = Chains(v) /\ Hops(u) = Hops(v)
  BY <1>1 DEF Cons, Chains, Hops
<1> QED
  BY <1>1, <1>6, <1>7, <1>8 DEF Queues, u, A, TrackStates

\* The states of a transaction's outputs, each by its role.
RoleStates(v, t, ancestry) ==
    {<<<<t, i>>, ancestry[Detection[t].roles[i]]>> :
       i \in {j \in WithNode(v, t) : Detection[t].roles[j] \in DOMAIN ancestry}}

LEMMA EnqueueRolesQueues ==
    ASSUME NEW v, Honest(v), NEW t \in Tx, NEW ancestry, NEW cap, NEW depth
    PROVE  Queues(v, EnqueueRoles(v, t, ancestry, cap, depth),
                  RoleStates(v, t, ancestry), depth, TRUE)
<1> DEFINE roles  == Detection[t].roles
           chosen == {i \in WithNode(v, t) : roles[i] \in DOMAIN ancestry}
           anc    == [i \in chosen |-> ancestry[roles[i]]]
           conf   == [i \in chosen |-> LowerConf(Detection[t].confs[i], cap)]
           marked == [v EXCEPT !.outs =
                        [o \in DOMAIN v.outs |->
                           IF o[1] = t /\ o[2] \in chosen
                           THEN [role |-> roles[o[2]], conf |-> conf[o[2]],
                                 status |-> v.outs[o].status]
                           ELSE v.outs[o]]]
           u == EnqueueRoles(v, t, ancestry, cap, depth)
<1>0. Fields \subseteq DOMAIN v /\ v.frontier \in Seq(Items(DOMAIN v.outs))
  BY DEF Honest, Placed
<1>1. u = Track(marked, t, chosen, anc, conf, depth, TRUE)
  BY DEF EnqueueRoles
<1>2. chosen \subseteq OutsOf(Body[t])
  BY DEF WithNode
<1>3. RoleStates(v, t, ancestry) = TrackStates(t, chosen, anc)
  BY DEF RoleStates, TrackStates
<1>4. Still(v, marked) /\ marked.findings = v.findings /\ marked.edges = v.edges
  <2> HIDE DEF roles, chosen, conf
  <2> QED
    BY <1>0 DEF Still, Fields
<1> HIDE DEF marked, chosen, anc, conf, u
<1>5. Quiet(v, marked) /\ Fields \subseteq DOMAIN marked
      /\ marked.frontier \in Seq(Items(DOMAIN marked.outs))
  BY <1>0, <1>4, PlainQuiet DEF Still
<1>6. Queues(marked, u, RoleStates(v, t, ancestry), depth, TRUE)
  BY <1>1, <1>2, <1>3, <1>5, TrackQueues
<1> QED
  BY <1>5, <1>6, QuietQueues DEF u

RoundStates(v, t) == {<<<<t, i>>, "postmix">> : i \in WithNode(v, t)}

LEMMA FollowRoundQueues ==
    ASSUME NEW v, Honest(v), NEW item, NEW t \in Tx, NEW depth
    PROVE  Queues(v, FollowRound(v, item, t, depth), RoundStates(v, t), depth, TRUE)
<1> DEFINE entered == Find(v, "whirlpool_entry", t, {item.out}, Detection[t].conf)
           chosen  == WithNode(v, t)
           conf    == CoinjoinConf(item.conf)
           links   == {<<"possible_coinjoin_link", item.out, <<t, i>>>> : i \in chosen}
           new     == [e \in links |-> conf]
           linked  == [entered EXCEPT !.edges = With(@, new)]
           marked  == Marked(linked, {<<t, i>> : i \in chosen}, "coinjoin", conf)
           anc     == [i \in chosen |-> "postmix"]
           confs   == [i \in chosen |-> conf]
           u       == FollowRound(v, item, t, depth)
<1>0. Fields \subseteq DOMAIN v /\ v.frontier \in Seq(Items(DOMAIN v.outs))
  BY DEF Honest, Placed
<1>1. u = Track(marked, t, chosen, anc, confs, depth, TRUE)
  BY DEF FollowRound
<1>2. chosen \subseteq OutsOf(Body[t])
  BY DEF WithNode
<1>3. RoundStates(v, t) = TrackStates(t, chosen, anc)
  BY DEF RoundStates, TrackStates
<1>4. Quiet(v, entered)
  BY <1>0, FindQuiet
<1>5. Fields \subseteq DOMAIN entered
  BY <1>4 DEF Quiet, Still
<1> HIDE DEF entered, conf
<1>6. /\ Still(entered, linked) /\ linked.findings = entered.findings
      /\ linked.edges = With(entered.edges, new)
  BY <1>5 DEF Still, Fields
<1>7. DOMAIN new = links /\ \A e \in links : e[1] = "possible_coinjoin_link"
  OBVIOUS
<1> HIDE DEF linked, new, links
<1>8. DOMAIN linked.edges = DOMAIN entered.edges \cup links
  BY <1>6, <1>7 DEF With
<1>9. Quiet(entered, linked)
  BY <1>6, <1>7, <1>8 DEF Quiet, Cons, Chains, Hops
<1>10. Fields \subseteq DOMAIN linked
  BY <1>6 DEF Still
<1>11. Quiet(linked, marked)
  BY <1>10, MarkedQuiet
<1> HIDE DEF marked, chosen, anc, confs, u
<1>12. Quiet(v, marked)
  BY <1>4, <1>9, <1>11, QuietOn
<1>13. Fields \subseteq DOMAIN marked /\ marked.frontier \in Seq(Items(DOMAIN marked.outs))
  BY <1>0, <1>12 DEF Quiet, Still
<1>14. Queues(marked, u, RoundStates(v, t), depth, TRUE)
  BY <1>1, <1>2, <1>3, <1>13, TrackQueues
<1> QED
  BY <1>12, <1>14, QuietQueues DEF u

PaymentStates(v, t, taken) ==
    {<<<<t, i>>, "possible_payment">> : i \in (SpendableOuts(t) \cap WithNode(v, t)) \ taken}

LEMMA PaymentsQueue ==
    ASSUME NEW v, Honest(v), NEW t \in Tx, NEW taken, NEW protected, NEW depth
    PROVE  Queues(v, WithPayments(v, t, taken, protected, depth),
                  PaymentStates(v, t, taken), depth, FALSE)
<1> DEFINE chosen == (SpendableOuts(t) \cap WithNode(v, t)) \ taken
           marked == Marked(v, {<<t, i>> : i \in chosen \ protected}, "possible_payment", "low")
           new    == [f \in {[kind |-> "possible_payment", tx |-> t, at |-> {<<t, i>>}]
                               : i \in chosen} |-> "low"]
           found  == [marked EXCEPT !.findings = With(@, new)]
           anc    == [i \in chosen |-> "possible_payment"]
           conf   == [i \in chosen |-> "low"]
           u      == WithPayments(v, t, taken, protected, depth)
<1>0. Fields \subseteq DOMAIN v /\ v.frontier \in Seq(Items(DOMAIN v.outs))
  BY DEF Honest, Placed
<1>1. u = Track(found, t, chosen, anc, conf, depth, FALSE)
  BY DEF WithPayments
<1>2. chosen \subseteq OutsOf(Body[t])
  BY DEF WithNode
<1>3. PaymentStates(v, t, taken) = TrackStates(t, chosen, anc)
  BY DEF PaymentStates, TrackStates
<1>4. Quiet(v, marked)
  BY <1>0, MarkedQuiet
<1>5. Fields \subseteq DOMAIN marked
  BY <1>4 DEF Quiet, Still
<1> HIDE DEF marked
<1>6. /\ Still(marked, found) /\ found.edges = marked.edges
      /\ found.findings = With(marked.findings, new)
  BY <1>5 DEF Still, Fields
<1>7. \A f \in DOMAIN new : f.kind = "possible_payment"
  OBVIOUS
<1> HIDE DEF found, new
<1>8. DOMAIN found.findings = DOMAIN marked.findings \cup DOMAIN new
  BY <1>6 DEF With
<1>9. Quiet(marked, found)
  BY <1>6, <1>7, <1>8 DEF Quiet, Cons, Chains, Hops
<1>10. Quiet(v, found)
  BY <1>4, <1>9, QuietOn
<1>11. Fields \subseteq DOMAIN found /\ found.frontier \in Seq(Items(DOMAIN found.outs))
  BY <1>0, <1>10 DEF Quiet, Still
<1> HIDE DEF chosen, anc, conf, u
<1>12. Queues(found, u, PaymentStates(v, t, taken), depth, FALSE)
  BY <1>1, <1>2, <1>3, <1>11, TrackQueues
<1> QED
  BY <1>10, <1>12, QuietQueues DEF u

-----------------------------------------------------------------------------
(* The shape of a spend: one consolidation is found at most, of all inputs  *)
(* that are tracked.                                                        *)

Consolidation(t, at) == [kind |-> "postmix_consolidation", tx |-> t, at |-> at]

LEMMA ShapedStays ==
    ASSUME NEW v, Fields \subseteq DOMAIN v, NEW t, NEW tracked
    PROVE  LET u == Shaped(v, t, tracked)
           IN  /\ Still(v, u) /\ Hops(u) = Hops(v) /\ Chains(u) = Chains(v)
               /\ Cardinality(tracked) >= 2 => Cons(u) = Cons(v) \cup {Consolidation(t, tracked)}
               /\ ~(Cardinality(tracked) >= 2) => Cons(u) = Cons(v)
<1> DEFINE several == Several(v, t, tracked)
           paying == Paying(several, t, tracked)
           shared == WithStonewall(paying, t, StonewallOf(v, t))
           joined == WithPayjoin(shared, t, Payjoin(Body[t], PrevoutsOf[t], tracked))
           u == Shaped(v, t, tracked)
           f == Consolidation(t, tracked)
<1>1. /\ Still(v, several) /\ Hops(several) = Hops(v) /\ Chains(several) = Chains(v)
      /\ Cardinality(tracked) >= 2 => Cons(several) = Cons(v) \cup {f}
      /\ ~(Cardinality(tracked) >= 2) => Cons(several) = Cons(v)
  <2>1. CASE Cardinality(tracked) >= 2
    <3>1. several = Find(v, "postmix_consolidation", t, tracked, "high")
      BY <2>1 DEF Several
    <3>2. /\ Still(v, several) /\ Hops(several) = Hops(v)
          /\ DOMAIN several.findings = DOMAIN v.findings \cup {f}
      BY <3>1, FindStill DEF Consolidation
    <3>3. f.kind = "postmix_consolidation"
      BY DEF Consolidation
    <3> HIDE DEF several, f
    <3>4. Cons(several) = Cons(v) \cup {f} /\ Chains(several) = Chains(v)
      BY <3>2, <3>3 DEF Cons, Chains
    <3> QED
      BY <2>1, <3>2, <3>4
  <2>2. CASE ~(Cardinality(tracked) >= 2)
    <3>1. several = v
      BY <2>2 DEF Several
    <3> QED
      BY <2>2, <3>1 DEF Still
  <2> QED
    BY <2>1, <2>2
<1>2. u = joined
  BY DEF Shaped, WithConsolidation
<1> HIDE DEF several, f
<1>3. Fields \subseteq DOMAIN several
  BY <1>1 DEF Still
<1>4. Quiet(several, paying)
  BY <1>3, FindsQuiet
<1> HIDE DEF paying
<1>5. Fields \subseteq DOMAIN paying
  BY <1>4 DEF Quiet, Still
<1>6. Quiet(paying, shared)
  BY <1>5, StonewallQuiet
<1> HIDE DEF shared
<1>7. Fields \subseteq DOMAIN shared
  BY <1>6 DEF Quiet, Still
<1>8. Quiet(shared, u)
  BY <1>2, <1>7, FindsQuiet
<1> HIDE DEF u, joined
<1>9. Quiet(several, u)
  BY <1>4, <1>6, <1>8, QuietOn
<1>10. /\ Still(several, u) /\ Cons(u) = Cons(several) /\ Chains(u) = Chains(several)
       /\ Hops(u) = Hops(several)
  BY <1>9 DEF Quiet
<1>11. Still(v, u)
  BY <1>1, <1>10 DEF Still
<1> QED
  BY <1>1, <1>10, <1>11 DEF u, f

-----------------------------------------------------------------------------
(* A Ricochet strays: what it tracks as postmix is spent alone.             *)

LEMMA WithHopStrays ==
    ASSUME NEW v, Honest(v), NEW from, NEW onto, NEW k, k # 4 => Alone(onto)
    PROVE  LET u == WithHop(v, from, onto, k)
           IN  /\ Strays(v, u) /\ u.found = v.found /\ u.nodes = v.nodes
               /\ DOMAIN u.outs = DOMAIN v.outs
               /\ Cons(u) = Cons(v) /\ Chains(u) = Chains(v) /\ Hops(u) = Hops(v)
<1> DEFINE one == Marked(v, {from}, "ricochet_hop", "medium")
           two == Marked(one, {onto}, HopRole(k), "medium")
           mark == IF k = 4 THEN "possible_payment" ELSE "postmix"
           u == WithHop(v, from, onto, k)
<1>0. Fields \subseteq DOMAIN v /\ DOMAIN v.anc = Outpoints
  BY DEF Honest, Placed
<1>1. Quiet(v, one)
  BY <1>0, MarkedQuiet
<1>2. Fields \subseteq DOMAIN one
  BY <1>1 DEF Quiet, Still
<1>3. u = [two EXCEPT !.detected = @ \cup {onto[1]}, !.anc[onto] = @ \cup {mark}]
  BY DEF WithHop
<1> HIDE DEF one
<1>4. Quiet(one, two)
  BY <1>2, MarkedQuiet
<1> HIDE DEF two
<1>5. Quiet(v, two)
  BY <1>1, <1>4, QuietOn
<1>6. Fields \subseteq DOMAIN two /\ two.anc = v.anc
  BY <1>5 DEF Quiet, Still
<1> HIDE DEF mark
<1>7. /\ Fields \subseteq DOMAIN u
      /\ u.nodes = two.nodes /\ u.outs = two.outs /\ u.found = two.found
      /\ u.cut = two.cut /\ u.seen = two.seen /\ u.frontier = two.frontier
      /\ u.findings = two.findings /\ u.edges = two.edges
      /\ u.anc = [two.anc EXCEPT ![onto] = @ \cup {mark}]
  BY <1>3, <1>6 DEF Fields
<1>8. \A o \in Outpoints :
         /\ v.anc[o] \subseteq u.anc[o]
         /\ "postmix" \in u.anc[o] => "postmix" \in v.anc[o] \/ Alone(o)
  <2> TAKE o \in Outpoints
  <2>1. CASE o = onto
    <3>1. u.anc[o] = v.anc[o] \cup {mark}
      BY <1>0, <1>6, <1>7, <2>1
    <3>2. mark = "postmix" => k # 4
      BY DEF mark
    <3> QED
      BY <2>1, <3>1, <3>2
  <2>2. CASE o # onto
    BY <1>0, <1>6, <1>7, <2>2
  <2> QED
    BY <2>1, <2>2
<1> HIDE DEF u
<1>9. Complete(v) => Complete(u)
  BY <1>5, <1>7 DEF Complete, Quiet, Still
<1>10. Grows(v, u)
  BY <1>5, <1>7, <1>9 DEF Grows, Quiet, Still
<1>11. u.found = v.found
  BY <1>5, <1>7 DEF Quiet, Still
<1>12. Keeps(v, u) /\ (Witnessed(v) => Witnessed(u))
  BY <1>11 DEF Keeps, Witnessed
<1>13. Strays(v, u)
  BY <1>8, <1>10, <1>11, <1>12 DEF Strays
<1>14. Cons(u) = Cons(v) /\ Chains(u) = Chains(v) /\ Hops(u) = Hops(v)
       /\ u.nodes = v.nodes /\ DOMAIN u.outs = DOMAIN v.outs
  BY <1>5, <1>7 DEF Cons, Chains, Hops, Quiet, Still
<1> QED
  BY <1>11, <1>13, <1>14 DEF u

LEMMA AddHopStrays ==
    ASSUME NEW v, Honest(v), NEW path, NEW k, NEW t \in Tx, t = path[k + 1][1],
           path[k] \in DOMAIN v.found, v.found[path[k]] # {},
           k # 4 => Alone(path[k + 1])
    PROVE  LET u == AddHop(v, path, k)
               added == AddTx(v, t)
               e == <<"spends", path[k], t>>
           IN  /\ Strays(v, u) /\ u.found = v.found
               /\ Cons(u) = Cons(v) /\ Chains(u) = Chains(v)
               /\ u.nodes = added.nodes /\ DOMAIN u.outs = DOMAIN added.outs
               /\ path[k] \in DOMAIN added.outs => Hops(u) = Hops(v) \cup {e}
               /\ path[k] \notin DOMAIN added.outs => Hops(u) = Hops(v)
<1> DEFINE added == AddTx(v, t)
           confirmed == Confirm(added, path[k], t)
           u == AddHop(v, path, k)
           e == <<"spends", path[k], t>>
<1>0. Fields \subseteq DOMAIN v
  BY DEF Honest
<1>1. /\ Grows(v, added) /\ added.found = v.found /\ added.anc = v.anc
      /\ added.findings = v.findings /\ Hops(added) = Hops(v)
  BY <1>0, AddTxGrows
<1>2. Honest(added)
  BY AddTxHonest
<1>3. u = WithHop(confirmed, path[k], path[k + 1], k)
  BY DEF AddHop
<1> HIDE DEF added
<1>4. Fields \subseteq DOMAIN added /\ Strays(v, added)
        /\ Cons(added) = Cons(v) /\ Chains(added) = Chains(v)
  BY <1>1, GrowsStrays DEF Grows, Cons, Chains
<1>5. Honest(confirmed) /\ confirmed.found = v.found
  BY <1>1, <1>2, ConfirmHonest
<1>6. /\ Still(added, confirmed) /\ Cons(confirmed) = Cons(added)
      /\ Chains(confirmed) = Chains(added)
      /\ path[k] \in DOMAIN added.outs => Hops(confirmed) = Hops(added) \cup {e}
      /\ path[k] \notin DOMAIN added.outs => Hops(confirmed) = Hops(added)
  BY <1>4, ConfirmStill
<1> HIDE DEF confirmed, e
<1>7. Strays(added, confirmed) /\ confirmed.nodes = added.nodes
      /\ DOMAIN confirmed.outs = DOMAIN added.outs
  BY <1>6, StillStrays DEF Still
<1>8. /\ Strays(confirmed, u) /\ u.found = confirmed.found /\ u.nodes = confirmed.nodes
      /\ DOMAIN u.outs = DOMAIN confirmed.outs
      /\ Cons(u) = Cons(confirmed) /\ Chains(u) = Chains(confirmed)
      /\ Hops(u) = Hops(confirmed)
  BY <1>3, <1>5, WithHopStrays
<1> HIDE DEF u
<1>9. Strays(v, u)
  BY <1>4, <1>7, <1>8, StraysOn
<1> QED
  BY <1>1, <1>4, <1>5, <1>6, <1>7, <1>8, <1>9 DEF u, e, added

\* path[k] is spent alone, by the transaction of path[k + 1], its only output.
Hopped(v, path, k) ==
    /\ path[k] \in DOMAIN v.found /\ path[k + 1][1] \in v.found[path[k]]
    /\ path[k + 1] = <<path[k + 1][1], 1>> /\ path[k + 1][1] \in Tx
    /\ InSet(Body[path[k + 1][1]]) = {path[k]}
    /\ OutsOf(Body[path[k + 1][1]]) = {1} /\ Kind(path[k + 1]) = "unknown"

\* What a probe does to the walk.
Probes(v, u) ==
    /\ Strays(v, u) /\ u.nodes = v.nodes /\ DOMAIN u.outs = DOMAIN v.outs
    /\ Cons(u) = Cons(v) /\ Chains(u) = Chains(v) /\ Hops(u) = Hops(v)

\* A probe of the output o after n - 1 hops: where it went.
Probed1(p, v, o, n) ==
    /\ Probes(v, p.w)
    /\ p.end = "open" => p.path[1] = o /\ \A k \in 1 .. n - 1 : Hopped(p.w, p.path, k)

LEMMA ProbesOn ==
    ASSUME NEW v, NEW u, NEW x, Probes(v, u), Probes(u, x) PROVE Probes(v, x)
BY StraysOn DEF Probes

LEMMA QuietProbes == ASSUME NEW v, NEW u, Quiet(v, u) PROVE Probes(v, u)
BY StillStrays DEF Probes, Quiet, Still

LEMMA HoppedStays ==
    ASSUME NEW v, NEW u, Keeps(v, u), NEW path, NEW k, Hopped(v, path, k)
    PROVE  Hopped(u, path, k)
BY DEF Keeps, Hopped

LEMMA HopProbes ==
    ASSUME NEW p, NEW v, NEW o, NEW n \in Nat \ {0}, ProbeAt(p, v, o, n),
           Probed1(p, v, o, n), Kind(o) = "unknown", known \subseteq Tx
    PROVE  Probed1(Hop(p), v, o, n + 1)
<1> DEFINE q == Hop(p)
<1>0. Fields \subseteq DOMAIN p.w /\ Honest(p.w) /\ Probes(v, p.w)
  BY DEF ProbeAt, Probed1, Honest
<1>1. CASE p.end # "open"
  BY <1>1 DEF Hop, Probed1
<1>2. CASE p.end = "open" /\ Exhausted(p.w, End(p))
  <2> DEFINE c == Cut(p.w, "lookups")
  <2>1. q = [w |-> c, path |-> p.path, end |-> "limit"]
    BY <1>2 DEF Hop
  <2>2. Probes(p.w, c)
    BY <1>0, CutQuiet, QuietProbes
  <2> HIDE DEF c, q
  <2>3. Probes(v, c)
    BY <1>0, <2>2, ProbesOn
  <2>4. q.w = c /\ q.end = "limit"
    BY <2>1
  <2> QED
    BY <2>3, <2>4 DEF Probed1, q
<1>3. CASE p.end = "open" /\ ~Exhausted(p.w, End(p))
  <2> DEFINE last == End(p)
             looked == Looked(p.w, last)
             path == p.path
             next == Onward(looked, path, last)
  <2>1. q = Advanced(looked, path, next)
    BY <1>3 DEF Hop
  <2>2. /\ path \in Seq(Steps(o)) /\ Len(path) = n /\ path[1] = o
        /\ \A k \in 1 .. n - 1 : Hopped(p.w, path, k)
    BY <1>3 DEF ProbeAt, Probed1
  <2>3. last = path[n] /\ Kind(last) = "unknown"
    <3>1. last = path[n]
      BY <2>2 DEF End
    <3>2. CASE n = 1
      BY <2>2, <3>1, <3>2
    <3>3. CASE n # 1
      <4>1. n - 1 \in 1 .. n - 1 /\ n - 1 + 1 = n
        BY <3>3
      <4>2. Hopped(p.w, path, n - 1)
        BY <2>2, <4>1
      <4> QED
        BY <3>1, <4>1, <4>2 DEF Hopped
    <3> QED
      BY <3>2, <3>3
  <2> HIDE DEF last
  <2>4. /\ Strays(p.w, looked) /\ looked.nodes = p.w.nodes /\ looked.outs = p.w.outs
        /\ looked.findings = p.w.findings /\ looked.edges = p.w.edges
        /\ last \in DOMAIN looked.found /\ Keeps(p.w, looked)
    BY <1>0, <2>3, LookedStrays
  <2>5. looked.found[last] \subseteq Tx
    BY <1>0, LookedHonest
  <2> HIDE DEF looked
  <2>6. Probes(p.w, looked)
    BY <2>4 DEF Probes, Cons, Chains, Hops
  <2>7. Probes(v, looked)
    BY <1>0, <2>6, ProbesOn
  <2>8. CASE next = {}
    <3>1. q = [w |-> looked, path |-> path, end |-> "dead"]
      BY <2>1, <2>8 DEF Advanced
    <3> HIDE DEF q, path
    <3>2. q.w = looked /\ q.end = "dead"
      BY <3>1
    <3> QED
      BY <2>7, <3>2 DEF Probed1, q
  <2>9. CASE next # {}
    <3> DEFINE t == CHOOSE s \in next : TRUE
               onto == <<t, 1>>
               longer == Append(path, onto)
    <3>1. q = [w |-> looked, path |-> longer, end |-> "open"]
      BY <2>1, <2>9 DEF Advanced
    <3>2. t \in next
      BY Zenon, <2>9
    <3>3. t \in looked.found[last] /\ Body[t].ins = <<last>> /\ Len(Body[t].outs) = 1
      BY Zenon, <3>2 DEF Onward, IsRicochetHop
    <3>4. t \in Tx
      BY <2>5, <3>3
    <3> HIDE DEF t
    <3>5. Kind(onto) = "unknown" /\ onto[1] = t
      BY <3>3, <3>4, HopsAreUnknown DEF Kind
    <3>6. InSet(Body[t]) = {last} /\ OutsOf(Body[t]) = {1}
      BY <3>3 DEF InSet, InsOf, OutsOf
    <3> HIDE DEF path, q
    <3>7. /\ longer[n + 1] = onto /\ \A k \in 1 .. n : longer[k] = path[k]
      <4> DEFINE S == Steps(o)
      <4>1. path \in Seq(S) /\ onto \in S /\ Len(path) = n
        BY <2>2, <3>4, <3>5 DEF Steps
      <4> HIDE DEF S, onto
      <4> QED
        BY <4>1 DEF S
    <3> HIDE DEF longer
    <3>8. q.w = looked /\ q.path = longer
      BY <3>1
    <3>9. ASSUME NEW k \in 1 .. (n + 1) - 1 PROVE Hopped(looked, longer, k)
      <4>1. CASE k = n
        <5>1. longer[k] = last /\ longer[k + 1] = <<t, 1>> /\ <<t, 1>>[1] = t
          BY <2>3, <3>7, <4>1
        <5> QED
          BY <2>4, <3>3, <3>4, <3>5, <3>6, <5>1 DEF Hopped
      <4>2. CASE k # n
        <5>1. k \in 1 .. n - 1 /\ longer[k] = path[k] /\ longer[k + 1] = path[k + 1]
          BY <3>7, <4>2
        <5>2. Hopped(looked, path, k)
          BY <2>2, <2>4, <5>1, HoppedStays
        <5> QED
          BY <5>1, <5>2 DEF Hopped
      <4> QED
        BY <4>1, <4>2
    <3>10. longer[1] = o
      BY <2>2, <3>7
    <3> QED
      BY <2>7, <3>8, <3>9, <3>10 DEF Probed1, q
  <2> QED
    BY <2>8, <2>9
<1> QED
  BY <1>1, <1>2, <1>3

LEMMA ProbedProbes ==
    ASSUME NEW v, Honest(v), NEW t, NEW i, Kind(<<t, i>>) = "unknown", known \subseteq Tx
    PROVE  Probed1(Probed(v, t, i), v, <<t, i>>, 5)
<1> DEFINE o == <<t, i>>
           p == Probe(v, t, i)
<1>0. Fields \subseteq DOMAIN v
  BY DEF Honest
<1>1. ProbeAt(p, v, o, 1) /\ Probed1(p, v, o, 1)
  <2>1. /\ {"w", "path", "end"} \subseteq DOMAIN p /\ p.w = v /\ p.path = <<o>>
    BY DEF Probe
  <2>2. <<o>> \in Seq(Steps(o)) /\ Len(<<o>>) = 1 /\ <<o>>[1] = o
    BY DEF Steps
  <2>3. Keeps(v, v) /\ Probes(v, v)
    BY <1>0, QuietSelf, QuietProbes DEF Keeps
  <2> HIDE DEF p, o
  <2>4. ProbeAt(p, v, o, 1)
    BY <2>1, <2>2, <2>3 DEF ProbeAt
  <2> QED
    BY <2>1, <2>2, <2>3, <2>4 DEF Probed1
<1>2. Probed(v, t, i) = Hop(Hop(Hop(Hop(p))))
  BY DEF Probed
<1> HIDE DEF p
<1>3. ProbeAt(Hop(p), v, o, 2) /\ Probed1(Hop(p), v, o, 2)
  BY <1>1, HopHonest, HopProbes
<1>4. ProbeAt(Hop(Hop(p)), v, o, 3) /\ Probed1(Hop(Hop(p)), v, o, 3)
  BY <1>3, HopHonest, HopProbes
<1>5. ProbeAt(Hop(Hop(Hop(p))), v, o, 4) /\ Probed1(Hop(Hop(Hop(p))), v, o, 4)
  BY <1>4, HopHonest, HopProbes
<1>6. Probed1(Hop(Hop(Hop(Hop(p)))), v, o, 5)
  BY <1>5, HopProbes
<1> QED
  BY <1>2, <1>6 DEF o

-----------------------------------------------------------------------------
(* Why a chain that is counted before it is added is added whole: a          *)
(* transaction joins by an input that has a node, its outputs have nodes     *)
(* unless the report is full, and what only a chain can reach has them       *)
(* always.                                                                   *)

AllOuts(v, t) == \A i \in OutsOf(Body[t]) : <<t, i>> \in DOMAIN v.outs

\* At least two spends behind the last round or Tx0: no other step of the
\* walk than a Ricochet goes so far.
Deep(h) ==
    /\ Detection[h].kind = "unknown"
    /\ \E o : /\ InSet(Body[h]) = {o} /\ Kind(o) = "unknown"
              /\ \E x : InSet(Body[o[1]]) = {x} /\ Kind(x) = "unknown"

Reached(v) == \A h \in v.nodes : h = root \/ InSet(Body[h]) \cap DOMAIN v.outs # {}

Filled(v) ==
    \A t \in v.nodes : AllOuts(v, t) \/ Cardinality(DOMAIN v.outs) >= limits.outputs

DeepWhole(v) == \A h \in v.nodes : Deep(h) => AllOuts(v, h)

\* The spends shown are spends found.
HopsFound(v) ==
    \A e \in Hops(v) : /\ e = <<"spends", e[2], e[3]>> /\ e[2] \in DOMAIN v.found
                       /\ e[3] \in v.found[e[2]]

Sound(v) == Reached(v) /\ Filled(v) /\ DeepWhole(v) /\ HopsFound(v)

LEMMA SoundWith ==
    ASSUME NEW v, NEW u, Sound(v), u.nodes = v.nodes, DOMAIN u.outs = DOMAIN v.outs,
           HopsFound(u)
    PROVE  Sound(u)
<1>1. Reached(u)
  BY DEF Sound, Reached
<1>2. Filled(u)
  BY DEF Sound, Filled, AllOuts
<1>3. DeepWhole(u)
  <2> SUFFICES ASSUME NEW h \in u.nodes, Deep(h) PROVE AllOuts(u, h)
    BY DEF DeepWhole
  <2>1. AllOuts(v, h)
    BY DEF Sound, DeepWhole
  <2> QED
    BY <2>1 DEF AllOuts
<1> QED
  BY <1>1, <1>2, <1>3 DEF Sound

LEMMA SoundStays ==
    ASSUME NEW v, NEW u, Sound(v), u.nodes = v.nodes, DOMAIN u.outs = DOMAIN v.outs,
           Hops(u) = Hops(v), Keeps(v, u)
    PROVE  Sound(u)
<1>1. HopsFound(u)
  BY DEF Sound, HopsFound, Keeps
<1> QED
  BY <1>1, SoundWith

LEMMA QuietSound == ASSUME NEW v, NEW u, Quiet(v, u), Sound(v) PROVE Sound(u)
<1>1. u.nodes = v.nodes /\ DOMAIN u.outs = DOMAIN v.outs /\ Hops(u) = Hops(v) /\ Keeps(v, u)
  BY DEF Quiet, Still, Keeps
<1> QED
  BY <1>1, SoundStays

\* A transaction whose outputs do not all fit fills the report.
LEMMA KeptFull ==
    ASSUME NEW v, Honest(v), Fits(v), Positive, NEW t, t \notin v.nodes,
           Len(Body[t].outs) \in Nat
    PROVE  LET u == WithTx(v, t)
           IN  AllOuts(u, t) \/ Cardinality(DOMAIN u.outs) >= limits.outputs
<1> DEFINE u == WithTx(v, t)
           kept == KeptOutputs(v, t)
           news == {<<t, i>> : i \in kept}
           old == DOMAIN v.outs
           left == limits.outputs - Cardinality(old)
<1>1. Fields \subseteq DOMAIN v
  BY DEF Honest
<1>2. DOMAIN u.outs = old \cup news
  BY <1>1, WithTxGrows
<1>3. /\ left \in Nat /\ IsFiniteSet(old) /\ Cardinality(old) \in Nat
      /\ limits.outputs \in Nat
  BY FS_CardinalityType DEF Fits, Positive
<1>4. CASE kept = OutsOf(Body[t])
  BY <1>2, <1>4 DEF AllOuts
<1>5. CASE kept # OutsOf(Body[t])
  <2>1. kept = 1 .. left
    BY <1>3, <1>5 DEF KeptOutputs, OutsOf
  <2>2. IsFiniteSet(kept) /\ Cardinality(kept) = left
    BY <1>3, <2>1, FS_Interval
  <2>3. IsFiniteSet(news) /\ Cardinality(news) = left
    <3> DEFINE f == [i \in kept |-> <<t, i>>]
    <3>1. f \in Surjection(kept, news)
      BY DEF Surjection
    <3>2. f \in Injection(kept, news)
      BY DEF Injection, IsInjective
    <3> HIDE DEF f, news, left
    <3> QED
      BY <2>2, <3>1, <3>2, FS_Surjection
  <2>4. old \cap news = {}
    <3>1. \A o \in old : o[1] \in v.nodes
      BY DEF Honest, Placed
    <3>2. \A o \in news : o[1] = t
      OBVIOUS
    <3> HIDE DEF old, news
    <3> QED
      BY <3>1, <3>2
  <2> HIDE DEF old, news, kept
  <2>5. Cardinality(old \cup news) = Cardinality(old) + Cardinality(news)
    <3>1. Cardinality(old \cap news) = 0
      BY <2>4, FS_EmptySet
    <3>2. /\ IsFiniteSet(old) /\ Cardinality(old) \in Nat
          /\ IsFiniteSet(news) /\ Cardinality(news) \in Nat
      BY <1>3, <2>3
    <3>3. Cardinality(old \cup news)
             = Cardinality(old) + Cardinality(news) - Cardinality(old \cap news)
      BY <3>2, FS_Union
    <3> QED
      BY <3>1, <3>2, <3>3
  <2>6. Cardinality(old \cup news) = limits.outputs
    BY <1>3, <2>3, <2>5
  <2> QED
    BY <1>2, <1>3, <2>6
<1> QED
  BY <1>4, <1>5

LEMMA AddTxSound ==
    ASSUME NEW v, Honest(v), Fits(v), Positive, Sound(v), NEW t \in Tx,
           t = root \/ InSet(Body[t]) \cap DOMAIN v.outs # {},
           Deep(t) => AllOuts(AddTx(v, t), t)
    PROVE  Sound(AddTx(v, t))
<1> DEFINE u == AddTx(v, t)
<1>1. CASE t \in v.nodes \/ ~TxFits(v, t)
  BY <1>1 DEF AddTx
<1>2. CASE t \notin v.nodes /\ TxFits(v, t)
  <2>1. u = WithTx(v, t)
    BY <1>2 DEF AddTx
  <2>2. Fields \subseteq DOMAIN v /\ Len(Body[t].outs) \in Nat
    BY GraphAssumption DEF Honest
  <2>3. /\ u.found = v.found /\ Hops(u) = Hops(v) /\ u.nodes = v.nodes \cup {t}
        /\ DOMAIN v.outs \subseteq DOMAIN u.outs
    BY <2>1, <2>2, WithTxGrows DEF Grows
  <2>4. AllOuts(u, t) \/ Cardinality(DOMAIN u.outs) >= limits.outputs
    BY <1>2, <2>1, <2>2, KeptFull
  <2>5. Fits(u)
    BY AddTxFits
  <2> HIDE DEF u
  <2>6. \A h : AllOuts(v, h) => AllOuts(u, h)
    BY <2>3 DEF AllOuts
  <2>7. Cardinality(DOMAIN v.outs) >= limits.outputs => Cardinality(DOMAIN u.outs) >= limits.outputs
    <3>1. Cardinality(DOMAIN v.outs) <= Cardinality(DOMAIN u.outs)
          /\ Cardinality(DOMAIN v.outs) \in Nat /\ Cardinality(DOMAIN u.outs) \in Nat
      BY <2>3, <2>5, FS_Subset, FS_CardinalityType DEF Fits
    <3> QED
      BY <3>1 DEF Positive
  <2>8. Reached(u)
    BY <2>3 DEF Sound, Reached
  <2>9. Filled(u)
    BY <2>3, <2>4, <2>6, <2>7 DEF Sound, Filled
  <2>10. DeepWhole(u)
    BY <2>3, <2>6 DEF Sound, DeepWhole, u
  <2>11. HopsFound(u)
    BY <2>3 DEF Sound, HopsFound
  <2> QED
    BY <2>8, <2>9, <2>10, <2>11 DEF Sound, u
<1> QED
  BY <1>1, <1>2

-----------------------------------------------------------------------------
(* Room for a chain: the transactions S, of one output each, still fit.     *)

Room(v, S) ==
    /\ IsFiniteSet(S) /\ S \cap v.nodes = {}
    /\ Cardinality(v.nodes) + Cardinality(S) <= limits.transactions
    /\ Cardinality(DOMAIN v.outs) + Cardinality(S) <= limits.outputs

LEMMA RoomForOne ==
    ASSUME NEW v, Honest(v), Fits(v), Positive, NEW S, Room(v, S),
           NEW t \in S, OutsOf(Body[t]) = {1}
    PROVE  LET u == AddTx(v, t)
           IN  /\ u.nodes = v.nodes \cup {t}
               /\ DOMAIN u.outs = DOMAIN v.outs \cup {<<t, 1>>}
               /\ Room(u, S \ {t})
<1> DEFINE u == AddTx(v, t)
           nodes == v.nodes
           outs == DOMAIN v.outs
           rest == S \ {t}
<1>1. Cardinality(S) \in Nat /\ IsFiniteSet(rest) /\ Cardinality(rest) = Cardinality(S) - 1
      /\ Cardinality(rest) \in Nat
  BY FS_CardinalityType, FS_RemoveElement DEF Room
<1>2. /\ IsFiniteSet(nodes) /\ Cardinality(nodes) \in Nat
      /\ IsFiniteSet(outs) /\ Cardinality(outs) \in Nat
      /\ limits.transactions \in Nat /\ limits.outputs \in Nat
  BY FS_CardinalityType DEF Fits, Positive
<1>3. Cardinality(nodes) + Cardinality(S) <= limits.transactions
      /\ Cardinality(outs) + Cardinality(S) <= limits.outputs /\ t \notin nodes
  BY DEF Room
<1>4. TxFits(v, t)
  BY <1>1, <1>2, <1>3 DEF TxFits
<1>5. u = WithTx(v, t)
  BY <1>3, <1>4 DEF AddTx
<1>6. KeptOutputs(v, t) = {1}
  BY <1>1, <1>2, <1>3 DEF KeptOutputs
<1>7. Fields \subseteq DOMAIN v
  BY DEF Honest
<1>8. u.nodes = nodes \cup {t} /\ DOMAIN u.outs = outs \cup {<<t, 1>>}
  <2>1. /\ u.nodes = v.nodes \cup {t}
        /\ DOMAIN u.outs = DOMAIN v.outs \cup {<<t, i>> : i \in KeptOutputs(v, t)}
    BY <1>5, <1>7, WithTxGrows
  <2> QED
    BY <1>6, <2>1
<1>9. <<t, 1>> \notin outs
  <2>1. <<t, 1>>[1] = t
    OBVIOUS
  <2> QED
    BY <1>3, <2>1 DEF Honest, Placed
<1> HIDE DEF u, nodes, outs
<1>10. Cardinality(u.nodes) = Cardinality(nodes) + 1
       /\ Cardinality(DOMAIN u.outs) = Cardinality(outs) + 1
  BY <1>2, <1>3, <1>8, <1>9, FS_AddElement
<1>11. rest \cap u.nodes = {}
  BY <1>8 DEF Room, nodes
<1> HIDE DEF rest
<1>12. Room(u, rest)
  BY <1>1, <1>2, <1>3, <1>10, <1>11 DEF Room
<1> QED
  BY <1>8, <1>12 DEF u, nodes, outs, rest

\* The transactions of a chain behind its first output.
Later(path) == {path[k][1] : k \in 2 .. 5}

\* What is there of the chain has its outputs, and the rest fits.
Ready(v, path) ==
    /\ path[1] \in DOMAIN v.outs
    /\ \A k \in 2 .. 5 : path[k][1] \in v.nodes => path[k] \in DOMAIN v.outs
    /\ Room(v, Later(path) \ v.nodes)

LEMMA AddTxReady ==
    ASSUME NEW v, Honest(v), Fits(v), Positive, NEW path, Ready(v, path),
           \A j \in 1 .. 4 : Hopped(v, path, j), NEW k \in 1 .. 4
    PROVE  LET u == AddTx(v, path[k + 1][1])
           IN  /\ Ready(u, path) /\ path[k + 1] \in DOMAIN u.outs
               /\ u.nodes = v.nodes \cup {path[k + 1][1]}
<1> DEFINE t == path[k + 1][1]
           u == AddTx(v, t)
           S == Later(path) \ v.nodes
<1>1. Hopped(v, path, k)
  OBVIOUS
<1>2. k + 1 \in 2 .. 5 /\ t \in Later(path) /\ path[k + 1] = <<t, 1>>
      /\ OutsOf(Body[t]) = {1}
  BY <1>1 DEF Hopped, Later
<1>3. CASE t \in v.nodes
  <2>1. u = v
    BY <1>3 DEF AddTx
  <2>2. path[k + 1] \in DOMAIN v.outs
    BY <1>2, <1>3 DEF Ready
  <2> QED
    BY <1>3, <2>1, <2>2
<1>4. CASE t \notin v.nodes
  <2>1. t \in S /\ Room(v, S)
    BY <1>2, <1>4 DEF Ready
  <2> HIDE DEF S, t
  <2>2. /\ u.nodes = v.nodes \cup {t}
        /\ DOMAIN u.outs = DOMAIN v.outs \cup {<<t, 1>>}
        /\ Room(u, S \ {t})
    BY <1>2, <2>1, RoomForOne
  <2> HIDE DEF u
  <2>3. S \ {t} = Later(path) \ u.nodes
    BY <2>2 DEF S
  <2>4. Room(u, Later(path) \ u.nodes)
    BY <2>2, <2>3
  <2>5. path[1] \in DOMAIN u.outs
    BY <2>2 DEF Ready
  <2>6. ASSUME NEW j \in 2 .. 5, path[j][1] \in u.nodes PROVE path[j] \in DOMAIN u.outs
    <3>1. j - 1 \in 1 .. 4 /\ j - 1 + 1 = j
      OBVIOUS
    <3>2. path[j] = <<path[j][1], 1>>
      BY <3>1 DEF Hopped
    <3>3. CASE path[j][1] = t
      BY <2>2, <3>2, <3>3
    <3>4. CASE path[j][1] \in v.nodes
      BY <2>2, <3>4 DEF Ready
    <3> QED
      BY <2>2, <2>6, <3>3, <3>4
  <2>7. Ready(u, path)
    BY <2>4, <2>5, <2>6 DEF Ready
  <2> QED
    BY <1>2, <2>2, <2>7 DEF u, t
<1> QED
  BY <1>3, <1>4

LinkOf(path, k) == <<"spends", path[k], path[k + 1][1]>>

\* The first k hops of a chain are there.
LaidTo(v, path, k) ==
    \A j \in 1 .. 4 : j <= k => LinkOf(path, j) \in Hops(v) /\ path[j + 1] \in DOMAIN v.outs

\* From the walk v, after k hops.
Laying(v, u, path, k) ==
    /\ Honest(u) /\ Fits(u) /\ Strays(v, u) /\ u.found = v.found
    /\ Cons(u) = Cons(v) /\ Chains(u) = Chains(v)
    /\ Sound(u) /\ Hops(v) \subseteq Hops(u)
    /\ u.nodes \subseteq v.nodes \cup Later(path)
    /\ Ready(u, path) /\ LaidTo(u, path, k)

LEMMA AddHopLays ==
    ASSUME NEW v, NEW u, NEW path, NEW k \in 1 .. 4, Laying(v, u, path, k - 1), Positive,
           \A j \in 1 .. 4 : Hopped(v, path, j)
    PROVE  Laying(v, AddHop(u, path, k), path, k)
<1> DEFINE t == path[k + 1][1]
           x == AddHop(u, path, k)
           added == AddTx(u, t)
           e == <<"spends", path[k], t>>
<1>0. /\ Honest(u) /\ Fits(u) /\ Strays(v, u) /\ u.found = v.found
      /\ Cons(u) = Cons(v) /\ Chains(u) = Chains(v)
      /\ Sound(u) /\ Hops(v) \subseteq Hops(u)
      /\ u.nodes \subseteq v.nodes \cup Later(path)
      /\ Ready(u, path) /\ LaidTo(u, path, k - 1)
  BY DEF Laying
<1>1. \A j \in 1 .. 4 : Hopped(u, path, j)
  BY <1>0 DEF Hopped
<1>2. /\ path[k] \in DOMAIN u.found /\ t \in u.found[path[k]] /\ t \in Tx
      /\ Kind(path[k + 1]) = "unknown"
  BY <1>1 DEF Hopped
<1>3. k # 4 => Alone(path[k + 1])
  <2> SUFFICES ASSUME k # 4 PROVE Alone(path[k + 1])
    OBVIOUS
  <2>1. k + 1 \in 1 .. 4
    OBVIOUS
  <2>2. Hopped(u, path, k + 1)
    BY <1>1, <2>1
  <2>3. PICK s \in Tx : InSet(Body[s]) = {path[k + 1]}
    BY <2>2 DEF Hopped
  <2>4. \A r \in Tx : Spends(r, path[k + 1]) => r = s
    BY <2>3, OneSpender DEF Spends
  <2> QED
    BY <1>2, <2>3, <2>4 DEF Alone
<1>4. path[k] \in DOMAIN u.outs
  <2>1. CASE k = 1
    BY <1>0, <2>1 DEF Ready
  <2>2. CASE k # 1
    <3>1. k - 1 \in 1 .. 4 /\ k - 1 <= k - 1 /\ k - 1 + 1 = k
      BY <2>2
    <3> QED
      BY <1>0, <3>1 DEF LaidTo
  <2> QED
    BY <2>1, <2>2
<1>5. /\ Ready(added, path) /\ path[k + 1] \in DOMAIN added.outs
      /\ added.nodes = u.nodes \cup {t}
  BY <1>0, <1>1, AddTxReady
<1>6. Grows(u, added)
  BY <1>0, AddTxGrows DEF Honest
<1>7. /\ Strays(u, x) /\ x.found = u.found
      /\ Cons(x) = Cons(u) /\ Chains(x) = Chains(u)
      /\ x.nodes = added.nodes /\ DOMAIN x.outs = DOMAIN added.outs
      /\ path[k] \in DOMAIN added.outs => Hops(x) = Hops(u) \cup {e}
  <2> HIDE DEF x, added, e
  <2>1. u.found[path[k]] # {}
    BY <1>2
  <2> QED
    BY <1>0, <1>2, <1>3, <2>1, AddHopStrays DEF x, added, e
<1>8. Honest(x) /\ Fits(x)
  <2>1. Chain(u, path)
    BY <1>1 DEF Chain, Linked, Hopped
  <2> QED
    BY <1>0, <2>1, AddHopHonest, AddHopFits
<1> HIDE DEF x, added
<1>9. Hops(x) = Hops(u) \cup {e}
  BY <1>4, <1>6, <1>7 DEF Grows
<1>10. Ready(x, path)
  BY <1>5, <1>7 DEF Ready, Room
<1>11. Sound(x)
  <2>1. e = <<"spends", e[2], e[3]>> /\ e[2] = path[k] /\ e[3] = t
    OBVIOUS
  <2> HIDE DEF e
  <2>2. HopsFound(x)
    BY <1>0, <1>2, <1>7, <1>9, <2>1 DEF HopsFound, Sound
  <2>3. InSet(Body[t]) = {path[k]} /\ OutsOf(Body[t]) = {1} /\ path[k + 1] = <<t, 1>>
    BY <1>1 DEF Hopped
  <2>4. AllOuts(added, t)
    BY <1>5, <2>3 DEF AllOuts
  <2>5. InSet(Body[t]) \cap DOMAIN u.outs # {}
    BY <1>4, <2>3
  <2> HIDE DEF t
  <2>6. Sound(added)
    BY <1>0, <1>2, <2>4, <2>5, AddTxSound DEF added
  <2> QED
    BY <1>7, <2>2, <2>6, SoundWith
<1>12. LaidTo(x, path, k)
  <2> SUFFICES ASSUME NEW j \in 1 .. 4, j <= k
               PROVE  LinkOf(path, j) \in Hops(x) /\ path[j + 1] \in DOMAIN x.outs
    BY DEF LaidTo
  <2>1. CASE j = k
    BY <1>5, <1>7, <1>9, <2>1 DEF LinkOf
  <2>2. CASE j # k
    <3>1. j <= k - 1
      BY <2>2
    <3> QED
      BY <1>0, <1>6, <1>7, <1>9, <3>1 DEF LaidTo, Grows
  <2> QED
    BY <2>1, <2>2
<1>13. x.nodes \subseteq v.nodes \cup Later(path)
  <2>1. t \in Later(path)
    BY DEF Later
  <2> QED
    BY <1>0, <1>5, <1>7, <2>1
<1>14. Strays(v, x)
  BY <1>0, <1>7, StraysOn
<1> QED
  BY <1>0, <1>7, <1>8, <1>9, <1>10, <1>11, <1>12, <1>13, <1>14 DEF Laying, x

RicochetAt(t, fee) == [kind |-> "ricochet", tx |-> t, at |-> {<<t, fee>>}]

LEMMA AddChainLays ==
    ASSUME NEW v, Honest(v), Fits(v), Positive, Sound(v), NEW path,
           \A j \in 1 .. 4 : Hopped(v, path, j), Ready(v, path), NEW t, NEW fee
    PROVE  LET u == AddChain(v, t, fee, path)
           IN  /\ Strays(v, u) /\ Cons(u) = Cons(v)
               /\ Chains(u) = Chains(v) \cup {RicochetAt(t, fee)}
               /\ Sound(u) /\ Hops(v) \subseteq Hops(u)
               /\ u.nodes \subseteq v.nodes \cup Later(path)
               /\ LaidTo(u, path, 4) /\ Ready(u, path) /\ u.found = v.found
<1> DEFINE marked == Marked(v, {<<t, fee>>}, "ricochet_fee", "medium")
           one    == AddHop(marked, path, 1)
           two    == AddHop(one, path, 2)
           three  == AddHop(two, path, 3)
           four   == AddHop(three, path, 4)
           u      == AddChain(v, t, fee, path)
           f      == RicochetAt(t, fee)
<1>0. Fields \subseteq DOMAIN v
  BY DEF Honest
<1>1. u = Find(four, "ricochet", t, {<<t, fee>>}, "medium")
  BY DEF AddChain
<1>2. Quiet(v, marked)
  BY <1>0, MarkedQuiet
<1>3. Honest(marked) /\ Fits(marked)
  BY MarkedHonest, MarkedFits
<1> HIDE DEF marked
<1>4. Laying(v, marked, path, 0)
  <2>1. /\ Still(v, marked) /\ Cons(marked) = Cons(v) /\ Chains(marked) = Chains(v)
        /\ Hops(marked) = Hops(v)
    BY <1>2 DEF Quiet
  <2>2. Strays(v, marked)
    BY <2>1, StillStrays
  <2>3. Ready(marked, path)
    BY <2>1 DEF Ready, Room, Still
  <2>4. Sound(marked)
    BY <1>2, QuietSound
  <2>5. LaidTo(marked, path, 0)
    BY DEF LaidTo
  <2> QED
    BY <1>3, <2>1, <2>2, <2>3, <2>4, <2>5 DEF Laying, Still
<1>5. Laying(v, one, path, 1)
  <2>1. 1 \in 1 .. 4 /\ 1 - 1 = 0
    OBVIOUS
  <2> QED
    BY <1>4, <2>1, AddHopLays
<1> HIDE DEF one
<1>6. Laying(v, two, path, 2)
  <2>1. 2 \in 1 .. 4 /\ 2 - 1 = 1
    OBVIOUS
  <2> QED
    BY <1>5, <2>1, AddHopLays
<1> HIDE DEF two
<1>7. Laying(v, three, path, 3)
  <2>1. 3 \in 1 .. 4 /\ 3 - 1 = 2
    OBVIOUS
  <2> QED
    BY <1>6, <2>1, AddHopLays
<1> HIDE DEF three
<1>8. Laying(v, four, path, 4)
  <2>1. 4 \in 1 .. 4 /\ 4 - 1 = 3
    OBVIOUS
  <2> QED
    BY <1>7, <2>1, AddHopLays
<1> HIDE DEF four
<1>9. Fields \subseteq DOMAIN four
  BY <1>8 DEF Laying, Honest
<1>10. /\ Still(four, u) /\ Hops(u) = Hops(four)
       /\ DOMAIN u.findings = DOMAIN four.findings \cup {f}
  <2> DEFINE at == {<<t, fee>>}
             z  == Find(four, "ricochet", t, at, "medium")
  <2>1. f = [kind |-> "ricochet", tx |-> t, at |-> at] /\ u = z
    BY <1>1 DEF RicochetAt
  <2> HIDE DEF at, f, u
  <2>2. /\ Still(four, z) /\ Hops(z) = Hops(four)
        /\ DOMAIN z.findings = DOMAIN four.findings
                               \cup {[kind |-> "ricochet", tx |-> t, at |-> at]}
    BY <1>9, FindStill
  <2> HIDE DEF z
  <2> QED
    BY <2>1, <2>2
<1>11. f.kind = "ricochet"
  BY DEF RicochetAt
<1> HIDE DEF u, f
<1>12. Cons(u) = Cons(four) /\ Chains(u) = Chains(four) \cup {f}
  BY <1>10, <1>11 DEF Cons, Chains
<1>13. Strays(v, u)
  BY <1>8, <1>10, StillStrays, StraysOn DEF Laying
<1>14. Sound(u)
  <2>1. /\ u.nodes = four.nodes /\ DOMAIN u.outs = DOMAIN four.outs /\ Keeps(four, u)
        /\ Sound(four)
    BY <1>8, <1>10 DEF Still, Keeps, Laying
  <2> QED
    BY <1>10, <2>1, SoundStays
<1>15. LaidTo(u, path, 4)
  BY <1>8, <1>10 DEF LaidTo, Still, Laying
<1>16. Ready(u, path)
  BY <1>8, <1>10 DEF Ready, Room, Still, Laying
<1>17. u.found = v.found /\ u.nodes \subseteq v.nodes \cup Later(path)
       /\ Hops(v) \subseteq Hops(u) /\ Cons(u) = Cons(v) /\ Chains(u) = Chains(v) \cup {f}
  BY <1>8, <1>10, <1>12 DEF Still, Laying
<1> QED
  BY <1>13, <1>14, <1>15, <1>16, <1>17 DEF u, f

\* A path of a probe that stayed open, from an output that the report counts.
FullPath(v, path, t) ==
    /\ DOMAIN path = 1 .. 5 /\ path[1][1] = t /\ path[1] = <<t, path[1][2]>>
    /\ path[1][2] \in OutsOf(Body[t]) /\ Kind(path[1]) = "unknown"
    /\ \A k \in 1 .. 4 : Hopped(v, path, k)

\* A transaction of the chain has one output.
LEMMA ChainCounts ==
    ASSUME NEW S, S \subseteq Tx, IsFiniteSet(S), \A t \in S : OutsOf(Body[t]) = {1}
    PROVE  Cardinality(ChainOutputs(S)) = Cardinality(S)
<1> DEFINE f == [t \in S |-> <<t, 1>>]
           T == ChainOutputs(S)
<1>1. T = {<<t, 1>> : t \in S}
  <2>1. \A t \in S : {<<t, i>> : i \in OutsOf(Body[t])} = {<<t, 1>>}
    OBVIOUS
  <2> QED
    BY <2>1 DEF ChainOutputs
<1>2. f \in Surjection(S, T)
  BY <1>1 DEF Surjection
<1>3. f \in Injection(S, T)
  BY <1>1 DEF Injection, IsInjective
<1> HIDE DEF f, T
<1>4. Cardinality(T) = Cardinality(S)
  BY <1>2, <1>3, FS_Surjection
<1> QED
  BY <1>4 DEF T

LEMMA ChainReady ==
    ASSUME NEW v, Fits(v), Positive, Sound(v), Detection[root].kind # "unknown",
           NEW t \in v.nodes, NEW path, FullPath(v, path, t),
           ChainFits(v, PathTxs(path) \ v.nodes)
    PROVE  Ready(v, path)
<1> DEFINE S == Later(path) \ v.nodes
           n == Cardinality(v.nodes)
           m == Cardinality(DOMAIN v.outs)
<1>1. \A k \in 1 .. 4 :
         /\ InSet(Body[path[k + 1][1]]) = {path[k]} /\ OutsOf(Body[path[k + 1][1]]) = {1}
         /\ path[k + 1] = <<path[k + 1][1], 1>> /\ path[k + 1][1] \in Tx
         /\ Kind(path[k + 1]) = "unknown"
  BY DEF FullPath, Hopped
<1>2. \A k \in 2 .. 5 :
         /\ InSet(Body[path[k][1]]) = {path[k - 1]} /\ OutsOf(Body[path[k][1]]) = {1}
         /\ path[k] = <<path[k][1], 1>> /\ path[k][1] \in Tx
         /\ Kind(path[k]) = "unknown"
  <2> SUFFICES ASSUME NEW k \in 2 .. 5
               PROVE  /\ InSet(Body[path[k][1]]) = {path[k - 1]} /\ OutsOf(Body[path[k][1]]) = {1}
                      /\ path[k] = <<path[k][1], 1>> /\ path[k][1] \in Tx
                      /\ Kind(path[k]) = "unknown"
    OBVIOUS
  <2>1. k - 1 \in 1 .. 4 /\ (k - 1) + 1 = k
    OBVIOUS
  <2> QED
    BY <1>1, <2>1
<1>3. PathTxs(path) \ v.nodes = S
  <2>1. DOMAIN path = 1 .. 5 /\ path[1][1] = t
    BY DEF FullPath
  <2>2. PathTxs(path) = {t} \cup Later(path)
    <3>1. \A k \in 1 .. 5 : path[k][1] \in {t} \cup Later(path)
      BY <2>1 DEF Later
    <3>2. \A k \in 2 .. 5 : k \in 1 .. 5
      OBVIOUS
    <3>3. PathTxs(path) \subseteq {t} \cup Later(path)
      BY <2>1, <3>1 DEF PathTxs
    <3>4. Later(path) \subseteq PathTxs(path)
      BY <2>1, <3>2 DEF PathTxs, Later
    <3>5. t \in PathTxs(path)
      <4>1. 1 \in DOMAIN path
        BY <2>1
      <4>2. path[1][1] \in PathTxs(path)
        BY ONLY <4>1 DEF PathTxs
      <4> QED
        BY <2>1, <4>2
    <3> QED
      BY <3>3, <3>4, <3>5
  <2> QED
    BY <2>2
<1>4. IsFiniteSet(S) /\ Cardinality(ChainOutputs(S)) = Cardinality(S) /\ Cardinality(S) \in Nat
  <2>1. Later(path) = {path[2][1], path[3][1], path[4][1], path[5][1]}
    BY DEF Later
  <2>2. IsFiniteSet({path[2][1]})
    BY FS_Singleton
  <2>3. IsFiniteSet({path[2][1]} \cup {path[3][1]})
    BY <2>2, FS_AddElement
  <2>4. IsFiniteSet(({path[2][1]} \cup {path[3][1]}) \cup {path[4][1]})
    BY <2>3, FS_AddElement
  <2>5. IsFiniteSet((({path[2][1]} \cup {path[3][1]}) \cup {path[4][1]}) \cup {path[5][1]})
    BY <2>4, FS_AddElement
  <2>6. Later(path) = (({path[2][1]} \cup {path[3][1]}) \cup {path[4][1]}) \cup {path[5][1]}
    BY <2>1
  <2>7. IsFiniteSet(Later(path))
    BY <2>5, <2>6
  <2>8. IsFiniteSet(S)
    BY <2>7, FS_Subset
  <2>9. S \subseteq Tx /\ \A s \in S : OutsOf(Body[s]) = {1}
    BY <1>2 DEF Later
  <2> HIDE DEF S
  <2> QED
    BY <2>8, <2>9, ChainCounts, FS_CardinalityType
<1> HIDE DEF S
<1>5. n + Cardinality(S) <= limits.transactions /\ m + Cardinality(S) <= limits.outputs
  BY <1>3, <1>4 DEF ChainFits
<1>6. n \in Nat /\ m \in Nat /\ limits.outputs \in Nat
  BY FS_CardinalityType DEF Fits, Positive
<1>7. CASE S # {}
  <2>1. Cardinality(S) > 0
    BY <1>4, <1>7, FS_EmptySet
  <2>2. ~(m >= limits.outputs)
    BY <1>4, <1>5, <1>6, <2>1
  <2>3. \A h \in v.nodes : AllOuts(v, h)
    BY <2>2 DEF Sound, Filled
  <2>4. path[1] \in DOMAIN v.outs
    BY <2>3 DEF AllOuts, FullPath
  <2>5. ASSUME NEW k \in 2 .. 5, path[k][1] \in v.nodes PROVE path[k] \in DOMAIN v.outs
    <3>1. path[k] = <<path[k][1], 1>> /\ OutsOf(Body[path[k][1]]) = {1}
      BY <1>2
    <3>2. AllOuts(v, path[k][1])
      BY <2>3, <2>5
    <3>3. <<path[k][1], 1>> \in DOMAIN v.outs
      BY <3>1, <3>2 DEF AllOuts
    <3> QED
      BY <3>1, <3>3
  <2>6. S \cap v.nodes = {}
    BY DEF S
  <2>7. Room(v, S)
    BY <1>4, <1>5, <2>6 DEF Room
  <2> QED
    BY <2>4, <2>5, <2>7 DEF Ready, S
<1>8. CASE S = {}
  <2>1. \A k \in 2 .. 5 : path[k][1] \in v.nodes
    BY <1>8 DEF S, Later
  <2>2. \A k \in 2 .. 5 : path[k][1] # root
    BY <1>2 DEF Kind
  <2>3. \A k \in 2 .. 5 : path[k - 1] \in DOMAIN v.outs
    BY <1>2, <2>1, <2>2 DEF Sound, Reached
  <2>4. path[1] \in DOMAIN v.outs /\ path[2] \in DOMAIN v.outs /\ path[3] \in DOMAIN v.outs
        /\ path[4] \in DOMAIN v.outs
    <3>1. 2 - 1 = 1 /\ 3 - 1 = 2 /\ 4 - 1 = 3 /\ 5 - 1 = 4
      OBVIOUS
    <3>2. 2 \in 2 .. 5 /\ 3 \in 2 .. 5 /\ 4 \in 2 .. 5 /\ 5 \in 2 .. 5
      OBVIOUS
    <3> QED
      BY <2>3, <3>1, <3>2
  <2>5. path[5] \in DOMAIN v.outs
    <3>1. /\ 5 \in 2 .. 5 /\ 4 \in 2 .. 5 /\ 3 \in 2 .. 5 /\ 5 - 1 = 4 /\ 4 - 1 = 3
      OBVIOUS
    <3>2. InSet(Body[path[5][1]]) = {path[4]} /\ Kind(path[4]) = "unknown"
          /\ InSet(Body[path[4][1]]) = {path[3]} /\ Kind(path[3]) = "unknown"
      BY <1>2, <3>1
    <3>3. Detection[path[5][1]].kind = "unknown"
      BY <1>2, <3>1 DEF Kind
    <3>4. Deep(path[5][1])
      BY <3>2, <3>3 DEF Deep
    <3>5. AllOuts(v, path[5][1])
      BY <2>1, <3>1, <3>4 DEF Sound, DeepWhole
    <3> QED
      BY <1>2, <3>1, <3>5 DEF AllOuts
  <2>6. \A k \in 2 .. 5 : path[k] \in DOMAIN v.outs
    <3> TAKE k \in 2 .. 5
    <3>1. k = 2 \/ k = 3 \/ k = 4 \/ k = 5
      OBVIOUS
    <3> QED
      BY <2>4, <2>5, <3>1
  <2>7. Room(v, S)
    BY <1>4, <1>5, <1>8 DEF Room
  <2> QED
    BY <2>4, <2>6, <2>7 DEF Ready, S
<1> QED
  BY <1>7, <1>8

\* The chain of a Ricochet that is reported is there as a whole.
Whole(v, f) ==
    \E path : FullPath(v, path, f.tx) /\ {path[1]} # f.at /\ LaidTo(v, path, 4)

LEMMA WholeStays ==
    ASSUME NEW v, NEW u, Keeps(v, u), Hops(v) \subseteq Hops(u),
           DOMAIN v.outs \subseteq DOMAIN u.outs, NEW f, Whole(v, f)
    PROVE  Whole(u, f)
<1>1. PICK path : FullPath(v, path, f.tx) /\ {path[1]} # f.at /\ LaidTo(v, path, 4)
  BY DEF Whole
<1>2. FullPath(u, path, f.tx)
  BY <1>1, HoppedStays DEF FullPath
<1>3. LaidTo(u, path, 4)
  BY <1>1 DEF LaidTo
<1> QED
  BY <1>1, <1>2, <1>3 DEF Whole

\* What following a Ricochet does to the walk.
Chased(v, u) ==
    /\ Strays(v, u) /\ Cons(u) = Cons(v) /\ Sound(u) /\ Hops(v) \subseteq Hops(u)
    /\ \A f \in Chains(u) : f \in Chains(v) \/ Whole(u, f)

LEMMA ChasedOn ==
    ASSUME NEW v, NEW u, NEW x, Chased(v, u), Chased(u, x) PROVE Chased(v, x)
<1>1. Strays(v, x)
  BY StraysOn DEF Chased
<1>2. ASSUME NEW f \in Chains(x) PROVE f \in Chains(v) \/ Whole(x, f)
  <2>1. CASE f \in Chains(u) /\ Whole(u, f)
    <3>1. Keeps(u, x) /\ Hops(u) \subseteq Hops(x) /\ DOMAIN u.outs \subseteq DOMAIN x.outs
      BY DEF Chased, Strays, Grows
    <3> QED
      BY <2>1, <3>1, WholeStays
  <2> QED
    BY <2>1 DEF Chased
<1> QED
  BY <1>1, <1>2 DEF Chased

LEMMA ProbesChase ==
    ASSUME NEW v, NEW u, Probes(v, u), Sound(v) PROVE Chased(v, u)
<1>1. /\ u.nodes = v.nodes /\ DOMAIN u.outs = DOMAIN v.outs /\ Hops(u) = Hops(v)
      /\ Keeps(v, u)
  BY DEF Probes, Strays
<1>2. Sound(u)
  BY <1>1, SoundStays
<1> QED
  BY <1>2 DEF Chased, Probes

LEMMA ChainedChases ==
    ASSUME NEW v, Honest(v), Fits(v), Positive, Sound(v), Detection[root].kind # "unknown",
           NEW t \in v.nodes, NEW path, FullPath(v, path, t), NEW fee, path[1][2] # fee
    PROVE  Chased(v, Chained(v, t, fee, path).w)
<1> DEFINE c == Cut(v, "chain")
           u == AddChain(v, t, fee, path)
           f == RicochetAt(t, fee)
<1>1. CASE ~ChainFits(v, PathTxs(path) \ v.nodes)
  <2>1. Chained(v, t, fee, path).w = c
    BY <1>1 DEF Chained
  <2>2. Fields \subseteq DOMAIN v
    BY DEF Honest
  <2>3. Probes(v, c)
    BY <2>2, CutQuiet, QuietProbes
  <2> HIDE DEF c
  <2>4. Chased(v, c)
    BY <2>3, ProbesChase
  <2> QED
    BY <2>1, <2>4
<1>2. CASE ChainFits(v, PathTxs(path) \ v.nodes)
  <2>1. Chained(v, t, fee, path).w = u
    BY <1>2 DEF Chained
  <2>2. Ready(v, path)
    BY <1>2, ChainReady
  <2>3. \A k \in 1 .. 4 : Hopped(v, path, k)
    BY DEF FullPath
  <2>4. /\ Strays(v, u) /\ Cons(u) = Cons(v) /\ Chains(u) = Chains(v) \cup {f}
        /\ Sound(u) /\ Hops(v) \subseteq Hops(u) /\ LaidTo(u, path, 4)
    BY <2>2, <2>3, AddChainLays
  <2>5. f.tx = t /\ f.at = {<<t, fee>>}
    BY DEF RicochetAt
  <2>6. {path[1]} # f.at
    <3>1. path[1] = <<t, path[1][2]>>
      BY DEF FullPath
    <3>2. <<t, path[1][2]>> # <<t, fee>>
      OBVIOUS
    <3> QED
      BY <2>5, <3>1, <3>2
  <2> HIDE DEF u, f
  <2>7. FullPath(u, path, t)
    BY <2>4, HoppedStays DEF FullPath, Strays
  <2>8. Whole(u, f)
    BY <2>4, <2>5, <2>6, <2>7 DEF Whole
  <2>9. Chased(v, u)
    BY <2>4, <2>8 DEF Chased
  <2> QED
    BY <2>1, <2>9
<1> QED
  BY <1>1, <1>2

\* The entry of a Ricochet: one fee, and one or two outputs besides.
LEMMA EntryFacts ==
    ASSUME NEW t \in Tx, NEW tracked, NEW e \in RicochetEntry(Body[t], tracked)
    PROVE  /\ e.candidates \subseteq OutsOf(Body[t])
           /\ The(e.fees) \notin e.candidates
           /\ Min(e.candidates) \in e.candidates /\ Max(e.candidates) \in e.candidates
<1> DEFINE fees == {i \in OutsOf(Body[t]) : Body[t].outs[i].value = ServiceFee}
           fee  == The(fees)
           C    == OutsOf(Body[t]) \ fees
           n    == Len(Body[t].outs)
<1>1. /\ e = [fees |-> fees, candidates |-> C, conf |-> "medium"]
      /\ n \in {2, 3} /\ Cardinality(fees) = 1
  BY DEF RicochetEntry
<1>2. PICK i : fees = {i}
  <2> HIDE DEF fees
  <2>1. The(fees) \in fees
    BY <1>1, OneIsSome DEF The
  <2>2. IsFiniteSet(fees)
    BY OutsAreFinite DEF fees
  <2> QED
    BY <1>1, <2>1, <2>2, FS_Singleton
<1>3. fee = i /\ i \in OutsOf(Body[t])
  BY <1>2 DEF The
<1>4. OutsOf(Body[t]) = 1 .. n
  BY DEF OutsOf
<1> HIDE DEF fees, fee, n
<1>5. C = (1 .. n) \ {i} /\ C # {} /\ C \subseteq 1 .. 3
  <2>1. n = 2 \/ n = 3
    BY <1>1
  <2>2. 1 \in 1 .. n /\ 2 \in 1 .. n /\ 1 # 2
    BY <2>1
  <2> QED
    BY <1>2, <1>4, <2>1, <2>2
<1> HIDE DEF C
<1>6. Min(C) \in C
  <2>1. \E x \in C : \A y \in C : x =< y
    <3>1. CASE 1 \in C
      BY <1>5, <3>1
    <3>2. CASE 1 \notin C /\ 2 \in C
      BY <1>5, <3>2
    <3>3. CASE 1 \notin C /\ 2 \notin C
      BY <1>5, <3>3
    <3> QED
      BY <3>1, <3>2, <3>3
  <2> QED
    BY Zenon, <2>1 DEF Min
<1>7. Max(C) \in C
  <2>1. \E x \in C : \A y \in C : x >= y
    <3>1. CASE 3 \in C
      BY <1>5, <3>1
    <3>2. CASE 3 \notin C /\ 2 \in C
      BY <1>5, <3>2
    <3>3. CASE 3 \notin C /\ 2 \notin C
      BY <1>5, <3>3
    <3> QED
      BY <3>1, <3>2, <3>3
  <2> QED
    BY Zenon, <2>1 DEF Max
<1>8. e.candidates = C /\ e.fees = fees
  BY <1>1
<1> QED
  BY <1>3, <1>4, <1>5, <1>6, <1>7, <1>8 DEF fee, C

\* A finished probe of an output of t that is not its fee.
ProbedFrom(p, v, t, fee) ==
    \E i \in OutsOf(Body[t]) :
       i # fee /\ ProbeAt(p, v, <<t, i>>, 5) /\ Probed1(p, v, <<t, i>>, 5)

LEMMA ProbedFull ==
    ASSUME NEW p, NEW v, NEW t, NEW fee, ProbedFrom(p, v, t, fee),
           Detection[t].kind = "unknown", p.end = "open"
    PROVE  FullPath(p.w, p.path, t) /\ p.path[1][2] # fee
<1>1. PICK i \in OutsOf(Body[t]) :
         i # fee /\ ProbeAt(p, v, <<t, i>>, 5) /\ Probed1(p, v, <<t, i>>, 5)
  BY DEF ProbedFrom
<1> DEFINE path == p.path
           o == <<t, i>>
<1>2. path \in Seq(Steps(o)) /\ Len(path) = 5
  BY <1>1 DEF ProbeAt
<1>3. path[1] = o /\ \A k \in 1 .. 5 - 1 : Hopped(p.w, path, k)
  BY <1>1 DEF Probed1
<1>4. o[1] = t /\ o[2] = i /\ o = <<o[1], o[2]>> /\ Kind(o) = "unknown"
  BY DEF Kind
<1> HIDE DEF path, o
<1>5. DOMAIN path = 1 .. 5
  BY <1>2
<1>6. \A k \in 1 .. 4 : Hopped(p.w, path, k)
  BY <1>3
<1>7. FullPath(p.w, path, t) /\ path[1][2] # fee
  BY <1>1, <1>3, <1>4, <1>5, <1>6 DEF FullPath
<1> QED
  BY <1>7 DEF path

LEMMA FullPathStays ==
    ASSUME NEW v, NEW u, Keeps(v, u), NEW path, NEW t, FullPath(v, path, t)
    PROVE  FullPath(u, path, t)
BY HoppedStays DEF FullPath

LEMMA JudgedChases ==
    ASSUME NEW v, Sound(v), Positive, Detection[root].kind # "unknown",
           NEW t \in v.nodes, Detection[t].kind = "unknown",
           NEW first, NEW second, NEW e, ProbedFrom(first, v, t, The(e.fees)),
           second = first \/ ProbedFrom(second, first.w, t, The(e.fees)), Fits(second.w)
    PROVE  Chased(v, Judged(first, second, t, e).w)
<1> DEFINE fee   == The(e.fees)
           open  == {p \in {first, second} : p.end = "open"}
           paths == {p.path : p \in open}
           path  == The(paths)
           u     == second.w
<1>1. Probes(v, first.w) /\ Honest(first.w)
  BY DEF ProbedFrom, Probed1, ProbeAt
<1>2. Probes(v, u) /\ Honest(u) /\ Keeps(first.w, u)
  <2>1. CASE second = first
    BY <1>1, <2>1 DEF Keeps
  <2>2. CASE ProbedFrom(second, first.w, t, fee)
    <3>1. Probes(first.w, u) /\ Honest(u)
      BY <2>2 DEF ProbedFrom, Probed1, ProbeAt
    <3> QED
      BY <1>1, <3>1, ProbesOn DEF Probes, Strays
  <2> QED
    BY <2>1, <2>2
<1>3. Chased(v, u) /\ Sound(u) /\ t \in u.nodes
  <2>1. Chased(v, u)
    BY <1>2, ProbesChase
  <2> QED
    BY <1>2, <2>1 DEF Chased, Probes
<1>4. \A p \in open : FullPath(u, p.path, t) /\ p.path[1][2] # fee
  <2> TAKE p \in open
  <2>1. CASE p = first
    <3>1. FullPath(first.w, p.path, t) /\ p.path[1][2] # fee
      BY <2>1, ProbedFull
    <3> QED
      BY <1>2, <3>1, FullPathStays
  <2>2. CASE p = second /\ second # first
    BY <2>2, ProbedFull
  <2> QED
    BY <2>1, <2>2
<1>5. Judged(first, second, t, e) =
         IF second.end = "limit" THEN [w |-> u, taken |-> {}]
         ELSE IF Cardinality(paths) = 1 THEN Chained(u, t, fee, path)
         ELSE [w |-> u, taken |-> {}]
  BY DEF Judged, RicochetVerdict
<1>6. ASSUME Cardinality(paths) = 1 PROVE Chased(v, Chained(u, t, fee, path).w)
  <2> HIDE DEF open
  <2>1. path \in paths
    BY <1>6, OneIsSome DEF The
  <2>2. FullPath(u, path, t) /\ path[1][2] # fee
    BY <1>4, <2>1
  <2> HIDE DEF path, u, fee
  <2>3. Fits(u)
    BY DEF u
  <2>4. Chased(u, Chained(u, t, fee, path).w)
    BY <1>2, <1>3, <2>2, <2>3, ChainedChases
  <2> QED
    BY <1>3, <2>4, ChasedOn
<1> HIDE DEF open, paths, path, fee
<1> QED
  BY <1>3, <1>5, <1>6

LEMMA RicochetChases ==
    ASSUME NEW v, Honest(v), Fits(v), Sound(v), Positive, known \subseteq Tx,
           Detection[root].kind # "unknown", NEW t \in v.nodes, t \in Tx,
           Detection[t].kind = "unknown", NEW tracked, NEW depth
    PROVE  Chased(v, WithRicochet(v, t, RicochetEntry(Body[t], tracked), depth).w)
<1> DEFINE entry == RicochetEntry(Body[t], tracked)
<1>0. Fields \subseteq DOMAIN v
  BY DEF Honest
<1>1. CASE entry = {}
  <2>1. WithRicochet(v, t, entry, depth).w = v
    BY <1>1 DEF WithRicochet
  <2>2. Chased(v, v)
    BY <1>0, QuietSelf, QuietProbes, ProbesChase
  <2> QED
    BY <2>1, <2>2
<1>2. CASE entry # {}
  <2> DEFINE e == The(entry)
             i == Min(e.candidates)
             j == Max(e.candidates)
             fee == The(e.fees)
             first == Probed(v, t, i)
             second == Probed(first.w, t, j)
  <2>1. WithRicochet(v, t, entry, depth) = FollowRicochet(v, t, e, depth)
    BY <1>2 DEF WithRicochet
  <2>2. e \in entry
    BY Zenon, <1>2 DEF The
  <2> HIDE DEF e, entry
  <2>3. /\ e.candidates \subseteq OutsOf(Body[t]) /\ fee \notin e.candidates
        /\ i \in e.candidates /\ j \in e.candidates
    BY <2>2, EntryFacts DEF entry
  <2>4. CASE depth + 4 > limits.depth
    <3>1. FollowRicochet(v, t, e, depth).w = Cut(v, "depth")
      BY <2>4 DEF FollowRicochet
    <3>2. Chased(v, Cut(v, "depth"))
      BY <1>0, CutQuiet, QuietProbes, ProbesChase
    <3> QED
      BY <2>1, <3>1, <3>2 DEF entry
  <2>5. CASE ~(depth + 4 > limits.depth)
    <3>1. FollowRicochet(v, t, e, depth) =
             Judged(first, IF first.end = "limit" THEN first ELSE second, t, e)
      BY <2>5 DEF FollowRicochet, ProbedBoth
    <3> HIDE DEF i, j, fee
    <3>2. Kind(<<t, i>>) = "unknown" /\ Kind(<<t, j>>) = "unknown"
      BY DEF Kind
    <3>3. ProbeAt(first, v, <<t, i>>, 5) /\ Probed1(first, v, <<t, i>>, 5) /\ Fits(first.w)
      BY <3>2, ProbedHonest, ProbedProbes, ProbedFits
    <3>4. ProbedFrom(first, v, t, fee)
      BY <2>3, <3>3 DEF ProbedFrom
    <3> HIDE DEF first
    <3>5. Honest(first.w)
      BY <3>3 DEF ProbeAt
    <3>6. /\ ProbeAt(second, first.w, <<t, j>>, 5) /\ Probed1(second, first.w, <<t, j>>, 5)
          /\ Fits(second.w)
      BY <3>2, <3>3, <3>5, ProbedHonest, ProbedProbes, ProbedFits
    <3>7. ProbedFrom(second, first.w, t, fee)
      BY <2>3, <3>6 DEF ProbedFrom
    <3> HIDE DEF second
    <3>8. Chased(v, Judged(first, first, t, e).w)
      BY <3>3, <3>4, JudgedChases DEF fee
    <3>9. Chased(v, Judged(first, second, t, e).w)
      BY <3>4, <3>6, <3>7, JudgedChases DEF fee
    <3> QED
      BY <2>1, <3>1, <3>8, <3>9 DEF entry
  <2> QED
    BY <2>4, <2>5
<1> QED
  BY <1>1, <1>2

-----------------------------------------------------------------------------
(* One turn of the loop.  The walk under way:                               *)

\* An item that is followed recursively is no output of an ordinary spend,
\* and an ordinary spend is not followed through another one.
AptItem(x) ==
    /\ x.recursive => Kind(x.out) # "unknown"
    /\ Kind(x.out) = "unknown" => \E o \in InSet(Body[x.out[1]]) : Kind(o) # "unknown"

Apt(v) == \A k \in DOMAIN v.frontier : AptItem(v.frontier[k])

UnderWay ==
    /\ known \subseteq Tx /\ root \in Tx /\ Detection[root].kind # "unknown"
    /\ Positive /\ Fits(w) /\ Honest(w) /\ Witnessed(w) /\ Sound(w) /\ Apt(w)

LEMMA VisitingStays ==
    ASSUME Honest(w)
    PROVE  /\ Fields \subseteq DOMAIN Visiting
           /\ Visiting.nodes = w.nodes /\ Visiting.outs = w.outs /\ Visiting.anc = w.anc
           /\ Visiting.cut = w.cut /\ Visiting.findings = w.findings
           /\ Visiting.edges = w.edges /\ Visiting.found = w.found
           /\ Visiting.frontier = Tail(w.frontier)
           /\ Visiting.seen = w.seen \cup {State(Item)}
<1>0. Fields \subseteq DOMAIN w
  BY DEF Honest
<1>1. /\ Fields \subseteq DOMAIN Popped
      /\ Popped.nodes = w.nodes /\ Popped.outs = w.outs /\ Popped.anc = w.anc
      /\ Popped.cut = w.cut /\ Popped.findings = w.findings
      /\ Popped.edges = w.edges /\ Popped.found = w.found
      /\ Popped.frontier = Tail(w.frontier) /\ Popped.seen = w.seen
  BY <1>0 DEF Popped, Fields
<1> QED
  BY <1>1 DEF Visiting, Fields

\* What the lookup of the item changes.
LEMMA FetchedStays ==
    ASSUME UnderWay, w.frontier # << >>
    PROVE  /\ Fields \subseteq DOMAIN Fetched
           /\ Fetched.nodes = w.nodes /\ Fetched.outs = w.outs /\ Fetched.anc = w.anc
           /\ Fetched.cut = w.cut /\ Fetched.findings = w.findings
           /\ Fetched.edges = w.edges
           /\ Fetched.frontier = Tail(w.frontier)
           /\ Fetched.seen = w.seen \cup {State(Item)}
           /\ Keeps(w, Fetched) /\ DOMAIN Fetched.found = DOMAIN w.found \cup {Item.out}
           /\ Witnessed(Fetched) /\ Sound(Fetched)
           /\ Spent => /\ Spender \in Fetched.found[Item.out] /\ Spends(Spender, Item.out)
                       /\ Spender \in known
<1>1. /\ Fields \subseteq DOMAIN Visiting
      /\ Visiting.nodes = w.nodes /\ Visiting.outs = w.outs /\ Visiting.anc = w.anc
      /\ Visiting.cut = w.cut /\ Visiting.findings = w.findings
      /\ Visiting.edges = w.edges /\ Visiting.found = w.found
      /\ Visiting.frontier = Tail(w.frontier)
      /\ Visiting.seen = w.seen \cup {State(Item)}
  BY VisitingStays DEF UnderWay
<1>2. Fetched = Looked(Visiting, Item.out)
  BY DEF Fetched
<1> HIDE DEF Visiting, Fetched, State, Item
<1>3. /\ Grows(Visiting, Fetched) /\ Keeps(Visiting, Fetched) /\ Fetched.anc = Visiting.anc
      /\ Fetched.nodes = Visiting.nodes /\ Fetched.outs = Visiting.outs
      /\ Fetched.findings = Visiting.findings /\ Fetched.edges = Visiting.edges
      /\ DOMAIN Fetched.found = DOMAIN Visiting.found \cup {Item.out}
      /\ Witnessed(Visiting) => Witnessed(Fetched)
  BY <1>1, <1>2, LookedStrays
<1>4. Fetched.cut = Visiting.cut
  BY <1>1, <1>2 DEF Looked, Fields
<1>5. Witnessed(Visiting)
  BY <1>1 DEF Witnessed, UnderWay
<1>6. Keeps(w, Fetched)
  BY <1>1, <1>3 DEF Keeps
<1>7. Hops(Fetched) = Hops(w)
  BY <1>1, <1>3 DEF Hops
<1>8. Sound(Fetched)
  BY <1>1, <1>3, <1>6, <1>7, SoundStays DEF UnderWay
<1>9. ASSUME Spent
      PROVE  /\ Spender \in Fetched.found[Item.out] /\ Spends(Spender, Item.out)
             /\ Spender \in known
  <2>1. Spender \in Fetched.found[Item.out]
    BY Zenon, <1>9 DEF Spent, Spender, SpenderOf
  <2>2. Spender \in Spenders(Item.out)
    BY <1>3, <1>5, <2>1 DEF Witnessed
  <2> QED
    BY <2>1, <2>2 DEF Spenders
<1> QED
  BY <1>1, <1>3, <1>4, <1>5, <1>6, <1>8, <1>9 DEF Grows

\* A spender that the loop adds is not deep.
LEMMA SpenderIsShallow ==
    ASSUME NEW x, AptItem(x), NEW t, Spends(t, x.out) PROVE ~Deep(t)
<1> SUFFICES ASSUME Deep(t) PROVE FALSE
  OBVIOUS
<1>1. PICK o : /\ InSet(Body[t]) = {o} /\ Kind(o) = "unknown"
               /\ \E y : InSet(Body[o[1]]) = {y} /\ Kind(y) = "unknown"
  BY DEF Deep
<1>2. x.out = o
  BY <1>1 DEF Spends
<1>3. PICK y : InSet(Body[o[1]]) = {y} /\ Kind(y) = "unknown"
  BY <1>1
<1>4. PICK z \in InSet(Body[o[1]]) : Kind(z) # "unknown"
  BY <1>1, <1>2 DEF AptItem
<1> QED
  BY <1>3, <1>4

LEMMA ItemFacts ==
    ASSUME UnderWay, w.frontier # << >>
    PROVE  /\ AptItem(Item) /\ Item.out \in DOMAIN w.outs /\ Item.depth \in Int
           /\ Item.out \in Outpoints /\ w.frontier \in Seq(Items(DOMAIN w.outs))
           /\ Item \in Items(DOMAIN w.outs) /\ Justified(Item)
<1> DEFINE I == Items(DOMAIN w.outs)
           queue == w.frontier
<1>1. queue \in Seq(I) /\ queue # << >> /\ Placed(w)
  BY DEF UnderWay, Honest, Placed
<1> HIDE DEF I
<1>2. Item = queue[1] /\ 1 \in DOMAIN queue /\ Item \in I
  BY <1>1 DEF Item
<1>3. AptItem(Item)
  BY <1>2 DEF UnderWay, Apt
<1> HIDE DEF queue
<1>4. Item.out \in DOMAIN w.outs /\ Item.depth \in Int /\ Justified(Item)
  BY <1>2 DEF I, Items
<1> QED
  BY <1>1, <1>2, <1>3, <1>4, NodesAreOutpoints DEF I, queue

LEMMA RecordedStrays ==
    ASSUME UnderWay, Followed
    PROVE  /\ Honest(Recorded) /\ Fits(Recorded) /\ Sound(Recorded)
           /\ Spender \in Tx /\ Spender \in Recorded.nodes
           /\ Strays(Fetched, Recorded) /\ Recorded.found = Fetched.found
           /\ Recorded.anc = w.anc /\ Cons(Recorded) = Cons(w) /\ Chains(Recorded) = Chains(w)
           /\ Hops(w) \subseteq Hops(Recorded)
<1> DEFINE o == Item.out
           t == Spender
           e == <<"spends", o, t>>
           plain == AddTx(Fetched, t)
           added == [plain EXCEPT !.detected = @ \cup {t}]
           confirmed == Confirm(added, o, t)
           bumped == WithCpfp(confirmed, o, t)
<1>0. w.frontier # << >> /\ Spent /\ ~Exhausted(w, o) /\ TxFits(w, t)
  BY DEF Followed, Fetching, Walking
<1>1. known \subseteq Tx /\ Positive /\ Fits(w) /\ Honest(w)
  BY DEF UnderWay
<1>2. Honest(Recorded) /\ Fits(Recorded) /\ t \in Tx
  BY <1>0, <1>1, RecordedHonest, RecordedFits
<1>3. /\ Fields \subseteq DOMAIN Fetched /\ Honest(Fetched) /\ Fits(Fetched)
      /\ Fetched.nodes = w.nodes /\ Fetched.outs = w.outs /\ Fetched.anc = w.anc
      /\ Fetched.findings = w.findings /\ Fetched.edges = w.edges
      /\ o \in DOMAIN Fetched.found /\ t \in Fetched.found[o]
      /\ Sound(Fetched) /\ Spends(t, o)
  BY <1>0, <1>1, FetchedStays, FetchedHonest, FetchedFits
<1>4. AptItem(Item) /\ o \in DOMAIN w.outs
  BY <1>0, ItemFacts
<1>5. Recorded = WithDoxxic(bumped, Item, t)
  BY DEF Recorded
<1>6. ~Deep(t)
  BY <1>3, <1>4, SpenderIsShallow
<1>7. InSet(Body[t]) \cap DOMAIN Fetched.outs # {}
  BY <1>3, <1>4 DEF Spends
<1>8. TxFits(Fetched, t)
  BY <1>0, <1>3 DEF TxFits
<1> HIDE DEF o, t, Fetched, Recorded, Item
<1>9. Sound(plain)
  BY <1>1, <1>2, <1>3, <1>6, <1>7, AddTxSound
<1>10. /\ Grows(Fetched, plain) /\ plain.found = Fetched.found /\ plain.anc = Fetched.anc
       /\ plain.findings = Fetched.findings /\ Hops(plain) = Hops(Fetched)
       /\ t \in plain.nodes
  BY <1>3, <1>8, AddTxGrows
<1> HIDE DEF plain
<1>11. Fields \subseteq DOMAIN plain /\ Strays(Fetched, plain)
  BY <1>10, GrowsStrays DEF Grows
<1>12. Quiet(plain, added)
  BY <1>11, DetectedQuiet
<1> HIDE DEF added
<1>13. Fields \subseteq DOMAIN added /\ o \in DOMAIN added.outs /\ Sound(added)
  BY <1>3, <1>4, <1>9, <1>10, <1>12, QuietSound DEF Quiet, Still, Grows
<1>14. /\ Still(added, confirmed) /\ Cons(confirmed) = Cons(added)
       /\ Chains(confirmed) = Chains(added) /\ Hops(confirmed) = Hops(added) \cup {e}
  BY <1>13, ConfirmStill
<1> HIDE DEF confirmed, e
<1>15. Fields \subseteq DOMAIN confirmed
  BY <1>14 DEF Still
<1>16. Quiet(confirmed, bumped)
  BY <1>15, FindsQuiet
<1> HIDE DEF bumped
<1>17. Fields \subseteq DOMAIN bumped
  BY <1>16 DEF Quiet, Still
<1>18. Quiet(bumped, Recorded)
  BY <1>5, <1>17, FindsQuiet
<1>19. Quiet(confirmed, Recorded)
  BY <1>16, <1>18, QuietOn
<1>20. Cons(plain) = Cons(w) /\ Chains(plain) = Chains(w) /\ Hops(plain) = Hops(w)
  BY <1>3, <1>10 DEF Cons, Chains, Hops
<1>21. Still(plain, Recorded)
  BY <1>12, <1>14, <1>19 DEF Quiet, Still
<1>22. Strays(Fetched, Recorded)
  BY <1>11, <1>21, StillStrays, StraysOn
<1>23. /\ Recorded.found = Fetched.found /\ Recorded.anc = w.anc /\ t \in Recorded.nodes
  BY <1>3, <1>10, <1>21 DEF Still
<1>24. /\ Cons(Recorded) = Cons(w) /\ Chains(Recorded) = Chains(w)
       /\ Hops(Recorded) = Hops(w) \cup {e}
  BY <1>12, <1>14, <1>19, <1>20 DEF Quiet
<1>25. HopsFound(confirmed)
  <2>1. e = <<"spends", e[2], e[3]>> /\ e[2] = o /\ e[3] = t
    BY DEF e
  <2>2. confirmed.found = added.found /\ added.found = Fetched.found
    BY <1>10, <1>12, <1>14 DEF Quiet, Still
  <2>3. HopsFound(added)
    BY <1>13 DEF Sound
  <2> QED
    BY <1>3, <1>14, <2>1, <2>2, <2>3 DEF HopsFound
<1>26. Sound(confirmed)
  BY <1>13, <1>14, <1>25, SoundWith DEF Still
<1>27. Sound(Recorded)
  BY <1>19, <1>26, QuietSound
<1> QED
  BY <1>2, <1>22, <1>23, <1>24, <1>27 DEF t, o

LEMMA QueuesSelf ==
    ASSUME NEW v, Honest(v), NEW d, NEW r PROVE Queues(v, v, {}, d, r)
<1> DEFINE queue == v.frontier
<1>1. Fields \subseteq DOMAIN v /\ queue \in Seq(Items(DOMAIN v.outs))
  BY DEF Honest, Placed
<1>2. DOMAIN queue = 1 .. Len(queue) /\ Len(queue) \in Nat
  BY <1>1
<1> HIDE DEF queue
<1>3. \A k \in DOMAIN queue : ~(k > Len(queue))
  BY <1>2
<1>4. Queued1(v, v, {}, d, r)
  BY <1>2, <1>3 DEF Queued1, queue
<1> QED
  BY <1>1, <1>4 DEF Queues

\* The walk goes on to u: the spend of the item is recorded and analysed, up
\* to x, and then the states A join the frontier.
Follows(u, x, A, r) ==
    /\ Strays(Fetched, x) /\ Sound(x) /\ Hops(w) \subseteq Hops(x)
    /\ \A f \in Chains(x) : f \in Chains(w) \/ Whole(x, f)
    /\ x.found[Item.out] \subseteq x.nodes
    /\ Queues(x, u, A, Item.depth + 1, r)

LEMMA UnspentFollows ==
    ASSUME UnderWay, w.frontier # << >>, ~Spent
    PROVE  LET u == Find(Status(Fetched, Item.out, "unspent"),
                         "unspent", Item.out[1], {Item.out}, Item.conf)
           IN  Follows(u, u, {}, FALSE) /\ Cons(u) = Cons(w)
<1> DEFINE s == Status(Fetched, Item.out, "unspent")
           u == Find(s, "unspent", Item.out[1], {Item.out}, Item.conf)
<1>1. /\ Fields \subseteq DOMAIN Fetched /\ Sound(Fetched)
      /\ Fetched.findings = w.findings /\ Fetched.edges = w.edges
  BY FetchedStays
<1>2. /\ Honest(Fetched) /\ Item.out \in DOMAIN Fetched.outs
      /\ Item.out \in DOMAIN Fetched.found /\ Fetched.found[Item.out] = {}
      /\ Item.conf = "high" => Kind(Item.out) = "tx0"
  BY FetchedHonest DEF UnderWay, Spent, Justified
<1>3. Honest(u)
  BY <1>2, UnspentHonest
<1>4. Quiet(Fetched, s)
  BY <1>1, StatusQuiet
<1> HIDE DEF s, Fetched
<1>5. Fields \subseteq DOMAIN s
  BY <1>4 DEF Quiet, Still
<1>6. Quiet(s, u)
  BY <1>5, FindQuiet
<1> HIDE DEF u
<1>7. Quiet(Fetched, u)
  BY <1>4, <1>6, QuietOn
<1>8. Strays(Fetched, u)
  BY <1>7, StillStrays DEF Quiet
<1>9. Sound(u)
  BY <1>1, <1>7, QuietSound
<1>10. Cons(u) = Cons(w) /\ Chains(u) = Chains(w) /\ Hops(u) = Hops(w)
  BY <1>1, <1>7 DEF Quiet, Cons, Chains, Hops
<1>11. u.found[Item.out] = {}
  BY <1>2, <1>7 DEF Quiet, Still
<1>12. Queues(u, u, {}, Item.depth + 1, FALSE)
  BY <1>3, QueuesSelf
<1> QED
  BY <1>8, <1>9, <1>10, <1>11, <1>12 DEF Follows, u, s

\* The spenders found of the item are the one that was recorded.
LEMMA RecordedSpender ==
    ASSUME UnderWay, Followed
    PROVE  Recorded.found[Item.out] = {Spender}
<1>0. w.frontier # << >> /\ Spent /\ known \subseteq Tx
  BY DEF Followed, Fetching, Walking, UnderWay
<1>1. /\ Spender \in Fetched.found[Item.out] /\ Spends(Spender, Item.out) /\ Spender \in known
      /\ Witnessed(Fetched) /\ Item.out \in DOMAIN Fetched.found
  BY <1>0, FetchedStays
<1>2. Fetched.found[Item.out] \subseteq Spenders(Item.out)
  BY <1>1 DEF Witnessed
<1>3. \A t \in Spenders(Item.out) : t = Spender
  BY <1>0, <1>1, OneSpender DEF Spenders
<1>4. Recorded.found = Fetched.found
  BY RecordedStrays
<1> HIDE DEF Fetched, Recorded, Item, Spender
<1> QED
  BY <1>1, <1>2, <1>3, <1>4

LEMMA LastFollows ==
    ASSUME UnderWay, Followed
    PROVE  Follows(Recorded, Recorded, {}, FALSE) /\ Cons(Recorded) = Cons(w)
<1>1. /\ Honest(Recorded) /\ Sound(Recorded) /\ Spender \in Recorded.nodes
      /\ Strays(Fetched, Recorded) /\ Chains(Recorded) = Chains(w)
      /\ Cons(Recorded) = Cons(w) /\ Hops(w) \subseteq Hops(Recorded)
  BY RecordedStrays
<1>2. Recorded.found[Item.out] \subseteq Recorded.nodes
  BY <1>1, RecordedSpender
<1>3. Queues(Recorded, Recorded, {}, Item.depth + 1, FALSE)
  BY <1>1, QueuesSelf
<1> QED
  BY <1>1, <1>2, <1>3 DEF Follows

\* What may come in between: consolidations apart, what Chased says.
Along(v, u) ==
    /\ Strays(v, u) /\ Sound(u) /\ Hops(v) \subseteq Hops(u)
    /\ \A f \in Chains(u) : f \in Chains(v) \/ Whole(u, f)

LEMMA FollowsBy ==
    ASSUME UnderWay, Followed, NEW x, Along(Recorded, x), NEW u, NEW A, NEW r,
           Queues(x, u, A, Item.depth + 1, r)
    PROVE  Follows(u, x, A, r)
<1>1. /\ Strays(Fetched, Recorded) /\ Chains(Recorded) = Chains(w)
      /\ Hops(w) \subseteq Hops(Recorded) /\ Spender \in Recorded.nodes
  BY RecordedStrays
<1>2. /\ Strays(Recorded, x) /\ Sound(x) /\ Hops(Recorded) \subseteq Hops(x)
      /\ \A f \in Chains(x) : f \in Chains(Recorded) \/ Whole(x, f)
  BY DEF Along
<1>3. Strays(Fetched, x)
  BY <1>1, <1>2, StraysOn
<1>4. x.found[Item.out] \subseteq x.nodes
  <2>1. Recorded.found[Item.out] = {Spender}
    BY RecordedSpender
  <2>2. w.frontier # << >>
    BY DEF Followed, Fetching, Walking
  <2>3. Item.out \in DOMAIN Recorded.found
    BY <2>2, FetchedStays, RecordedStrays
  <2>4. x.found[Item.out] = Recorded.found[Item.out] /\ Recorded.nodes \subseteq x.nodes
    BY <1>2, <2>3 DEF Strays, Keeps, Grows
  <2> QED
    BY <1>1, <2>1, <2>4
<1> QED
  BY <1>1, <1>2, <1>3, <1>4 DEF Follows

LEMMA QuietAlong ==
    ASSUME NEW v, NEW x, Quiet(v, x), Sound(v) PROVE Along(v, x)
BY QuietProbes, ProbesChase DEF Chased, Along

LEMMA RoundFollows ==
    ASSUME UnderWay, Followed
    PROVE  /\ Follows(FollowRound(Recorded, Item, Spender, Item.depth + 1), Recorded,
                      RoundStates(Recorded, Spender), TRUE)
           /\ Cons(Recorded) = Cons(w)
<1>1. /\ Honest(Recorded) /\ Sound(Recorded) /\ Spender \in Tx /\ Cons(Recorded) = Cons(w)
      /\ Fields \subseteq DOMAIN Recorded
  BY RecordedStrays DEF Honest
<1>2. Along(Recorded, Recorded)
  BY <1>1, QuietSelf, QuietAlong
<1>3. Queues(Recorded, FollowRound(Recorded, Item, Spender, Item.depth + 1),
             RoundStates(Recorded, Spender), Item.depth + 1, TRUE)
  BY <1>1, FollowRoundQueues
<1> QED
  BY <1>1, <1>2, <1>3, FollowsBy

LEMMA Tx0Follows ==
    ASSUME UnderWay, Followed
    PROVE  LET x == WithLaterTx0(Recorded, Item, Spender)
           IN  /\ Follows(EnqueueRoles(x, Spender, Tx0Ancestry, "high", Item.depth + 1), x,
                          RoleStates(x, Spender, Tx0Ancestry), TRUE)
               /\ Cons(x) = Cons(w)
<1> DEFINE x == WithLaterTx0(Recorded, Item, Spender)
<1>1. /\ Honest(Recorded) /\ Sound(Recorded) /\ Spender \in Tx /\ Cons(Recorded) = Cons(w)
      /\ Fields \subseteq DOMAIN Recorded
  BY RecordedStrays DEF Honest
<1>2. Quiet(Recorded, x)
  BY <1>1, FindsQuiet
<1>3. Honest(x)
  <2>1. w.frontier # << >>
    BY DEF Followed, Fetching, Walking
  <2>2. Justified(Item)
    BY <2>1, ItemFacts
  <2> QED
    BY <1>1, <2>2, DoxxicHonest
<1> HIDE DEF x
<1>4. Along(Recorded, x)
  BY <1>1, <1>2, QuietAlong
<1>5. Queues(x, EnqueueRoles(x, Spender, Tx0Ancestry, "high", Item.depth + 1),
             RoleStates(x, Spender, Tx0Ancestry), Item.depth + 1, TRUE)
  BY <1>1, <1>3, EnqueueRolesQueues
<1>6. Cons(x) = Cons(w)
  BY <1>1, <1>2 DEF Quiet
<1> QED
  BY <1>4, <1>5, <1>6, FollowsBy DEF x

\* The consolidation that the spend of the item makes, if it makes one.
NewCons(t) ==
    IF Cardinality(TrackedPostmix(w, t)) >= 2 THEN {Consolidation(t, TrackedPostmix(w, t))}
    ELSE {}

LEMMA OrdinaryFollows ==
    ASSUME UnderWay, Followed, Detection[Spender].kind = "unknown"
    PROVE  \E x, taken :
              /\ Follows(FollowOrdinary(Recorded, Spender, Item.depth + 1), x,
                         PaymentStates(x, Spender, taken), FALSE)
              /\ Cons(x) = Cons(w) \cup NewCons(Spender)
<1> DEFINE v == Recorded
           t == Spender
           tracked == TrackedPostmix(v, t)
           depth == Item.depth + 1
           shaped == Shaped(v, t, tracked)
           ricochet == WithRicochet(shaped, t, RicochetEntry(Body[t], tracked), depth)
           x == ricochet.w
           u == FollowOrdinary(v, t, depth)
<1>0. known \subseteq Tx /\ Positive /\ Detection[root].kind # "unknown"
  BY DEF UnderWay
<1>1. /\ Honest(v) /\ Fits(v) /\ Sound(v) /\ t \in Tx /\ t \in v.nodes /\ v.anc = w.anc
      /\ Cons(v) = Cons(w) /\ Fields \subseteq DOMAIN v /\ Detection[t].kind = "unknown"
  BY RecordedStrays DEF Honest
<1>2. u = WithPayments(x, t, ricochet.taken, Protected(v, t), depth)
  BY DEF FollowOrdinary, Continued
<1>3. tracked = TrackedPostmix(w, t)
  BY <1>1 DEF TrackedPostmix
<1> HIDE DEF v, t, depth
<1>4. Honest(shaped) /\ Fits(shaped)
  BY <1>1, ShapedHonest, ShapedFits
<1>5. /\ Still(v, shaped) /\ Hops(shaped) = Hops(v) /\ Chains(shaped) = Chains(v)
      /\ Cardinality(tracked) >= 2 => Cons(shaped) = Cons(v) \cup {Consolidation(t, tracked)}
      /\ ~(Cardinality(tracked) >= 2) => Cons(shaped) = Cons(v)
  BY <1>1, ShapedStays
<1>6. Cons(shaped) = Cons(w) \cup NewCons(t)
  BY <1>1, <1>3, <1>5 DEF NewCons
<1> HIDE DEF shaped, tracked
<1>7. Sound(shaped) /\ t \in shaped.nodes
  BY <1>1, <1>5, SoundStays DEF Still, Keeps
<1>8. Chased(shaped, x) /\ Honest(x)
  BY <1>0, <1>1, <1>4, <1>7, RicochetChases, RicochetHonest
<1>9. Along(v, x)
  <2>1. Strays(v, shaped)
    BY <1>5, StillStrays
  <2>2. Strays(v, x)
    BY <1>8, <2>1, StraysOn DEF Chased
  <2> HIDE DEF x
  <2> QED
    BY <1>5, <1>8, <2>2 DEF Chased, Along
<1>10. Cons(x) = Cons(w) \cup NewCons(t)
  BY <1>6, <1>8 DEF Chased
<1> HIDE DEF u
<1>11. \A taken : Honest(x) => Queues(x, WithPayments(x, t, taken, Protected(v, t), depth),
                                       PaymentStates(x, t, taken), depth, FALSE)
  BY <1>1, PaymentsQueue
<1>12. Queues(x, u, PaymentStates(x, t, ricochet.taken), depth, FALSE)
  BY <1>2, <1>8, <1>11
<1>13. Follows(u, x, PaymentStates(x, t, ricochet.taken), FALSE)
  BY <1>9, <1>12, FollowsBy DEF v, depth
<1> HIDE DEF ricochet
<1> QED
  BY <1>10, <1>13 DEF u, t, v, depth

\* What may join the frontier.
AptState(s, r) ==
    /\ r => Kind(s[1]) # "unknown"
    /\ Kind(s[1]) = "unknown" => \E o \in InSet(Body[s[1][1]]) : Kind(o) # "unknown"

LEMMA QueuesApt ==
    ASSUME NEW v, NEW u, NEW A, NEW d, NEW r, Queues(v, u, A, d, r), Apt(v),
           NEW D, v.frontier \in Seq(Items(D)), Honest(u), \A s \in A : AptState(s, r)
    PROVE  Apt(u)
<1> SUFFICES ASSUME NEW k \in DOMAIN u.frontier PROVE AptItem(u.frontier[k])
  BY DEF Apt
<1> DEFINE old == v.frontier
           new == u.frontier
           x == new[k]
<1>1. old \in Seq(Items(D)) /\ new \in Seq(Items(DOMAIN u.outs))
  BY DEF Honest, Placed
<1>2. DOMAIN old = 1 .. Len(old) /\ Len(old) \in Nat /\ DOMAIN new = 1 .. Len(new)
      /\ Len(new) \in Nat
  BY <1>1
<1>3. Queued1(v, u, A, d, r)
  BY DEF Queues
<1> HIDE DEF x
<1>4. CASE k <= Len(old)
  <2>1. k \in DOMAIN old /\ x = old[k]
    BY <1>2, <1>3, <1>4 DEF Queued1, x
  <2> QED
    BY <2>1 DEF Apt, x
<1>5. CASE k > Len(old)
  <2>1. State(x) \in A /\ x.recursive = r
    BY <1>3, <1>5 DEF Queued1, x
  <2>2. State(x)[1] = x.out
    BY DEF State
  <2> QED
    BY <2>1, <2>2 DEF AptState, AptItem, x
<1> QED
  BY <1>2, <1>4, <1>5

LEMMA TailApt ==
    ASSUME UnderWay, w.frontier # << >>, NEW v, v.frontier = Tail(w.frontier)
    PROVE  Apt(v) /\ v.frontier \in Seq(Items(DOMAIN w.outs))
<1> DEFINE queue == w.frontier
           I == Items(DOMAIN w.outs)
<1>1. queue \in Seq(I) /\ queue # << >>
  BY DEF UnderWay, Honest, Placed
<1> HIDE DEF I
<1>2. /\ \A k \in DOMAIN Tail(queue) : k + 1 \in DOMAIN queue /\ Tail(queue)[k] = queue[k + 1]
      /\ Tail(queue) \in Seq(I)
  BY <1>1
<1> QED
  BY <1>2 DEF UnderWay, Apt, I

\* What the spend of the item leaves of the invariants.
Coursed(v) ==
    Witnessed(v) /\ HopsFound(v) /\ \A f \in Chains(v) : Whole(v, f)

LEMMA FollowsCourse ==
    ASSUME UnderWay, w.frontier # << >>, Coursed(w), NEW u, NEW x, NEW A, NEW r,
           Follows(u, x, A, r), Honest(u), \A s \in A : AptState(s, r)
    PROVE  Coursed(u) /\ Sound(u) /\ Apt(u)
<1>1. /\ Fetched.outs = w.outs /\ Fetched.nodes = w.nodes /\ Fetched.edges = w.edges
      /\ Fetched.frontier = Tail(w.frontier) /\ Keeps(w, Fetched) /\ Witnessed(Fetched)
  BY FetchedStays
<1>2. /\ Strays(Fetched, x) /\ Sound(x) /\ Hops(w) \subseteq Hops(x)
      /\ \A f \in Chains(x) : f \in Chains(w) \/ Whole(x, f)
      /\ Queues(x, u, A, Item.depth + 1, r)
  BY DEF Follows
<1>3. /\ x.frontier = Fetched.frontier /\ Keeps(w, x) /\ Witnessed(x)
      /\ DOMAIN w.outs \subseteq DOMAIN x.outs
  BY <1>1, <1>2 DEF Strays, Grows, Keeps
<1>4. Apt(x) /\ x.frontier \in Seq(Items(DOMAIN w.outs))
  BY <1>1, <1>3, TailApt
<1>5. /\ u.nodes = x.nodes /\ DOMAIN u.outs = DOMAIN x.outs /\ u.found = x.found
      /\ Chains(u) = Chains(x) /\ Hops(u) = Hops(x) /\ Keeps(x, u)
  BY <1>2 DEF Queues, Keeps
<1>6. Witnessed(u)
  BY <1>3, <1>5 DEF Witnessed
<1>7. ASSUME NEW f \in Chains(u) PROVE Whole(u, f)
  <2>1. Whole(x, f)
    BY <1>2, <1>3, <1>5, WholeStays DEF Coursed
  <2> QED
    BY <1>5, <2>1, WholeStays
<1>8. Sound(u)
  BY <1>2, <1>5, SoundStays
<1>9. Apt(u)
  BY <1>2, <1>4, QueuesApt
<1> QED
  BY <1>6, <1>7, <1>8, <1>9 DEF Coursed, Sound

\* The first transaction.
LEMMA BeginSound ==
    ASSUME Positive, root \in Tx, Detection[root].kind # "unknown"
    PROVE  LET v == AddTx([NewWalk EXCEPT !.detected = {root}], root)
           IN  /\ Honest(v) /\ Fits(v) /\ Coursed(v) /\ Sound(v) /\ Apt(v)
               /\ v.frontier = << >> /\ Chains(v) = {} /\ Cons(v) = {}
<1> DEFINE z == [NewWalk EXCEPT !.detected = {root}]
           v == AddTx(z, root)
<1>1. Honest(z) /\ Fits(z)
  BY NewWalkHonest, NewWalkFits
<1>2. /\ z.nodes = {} /\ z.outs = << >> /\ z.edges = << >> /\ z.findings = << >>
      /\ z.found = << >> /\ z.frontier = << >>
  BY DEF NewWalk
<1>3. Fields \subseteq DOMAIN z
  BY DEF NewWalk, Fields
<1> HIDE DEF z
<1>4. /\ DOMAIN z.findings = {} /\ DOMAIN z.edges = {} /\ DOMAIN z.found = {}
      /\ DOMAIN z.frontier = {}
  BY <1>2
<1>5. Sound(z)
  BY <1>2, <1>4 DEF Sound, Reached, Filled, DeepWhole, HopsFound, Hops
<1>6. ~Deep(root)
  BY DEF Deep
<1>7. Sound(v) /\ Honest(v) /\ Fits(v)
  BY <1>1, <1>5, <1>6, AddTxSound, AddTxHonest, AddTxFits
<1>8. Grows(z, v) /\ v.found = z.found /\ v.findings = z.findings
  BY <1>3, AddTxGrows
<1> HIDE DEF v
<1>9. Cons(v) = {} /\ Chains(v) = {}
  BY <1>4, <1>8 DEF Cons, Chains
<1>10. Coursed(v)
  BY <1>4, <1>7, <1>8, <1>9 DEF Coursed, Witnessed, Sound
<1>11. Apt(v) /\ v.frontier = << >>
  BY <1>2, <1>4, <1>8 DEF Apt, Grows
<1> QED
  BY <1>7, <1>9, <1>10, <1>11 DEF v, z

\* The states handed on by the root or by a spend are apt.
LEMMA HandedApt ==
    ASSUME NEW v, NEW t, Detection[t].kind # "unknown", NEW r, NEW ancestry
    PROVE  /\ \A s \in RoleStates(v, t, ancestry) : AptState(s, r)
           /\ \A s \in RoundStates(v, t) : AptState(s, r)
<1>1. \A s \in RoleStates(v, t, ancestry) : s[1][1] = t
  BY DEF RoleStates
<1>2. \A s \in RoundStates(v, t) : s[1][1] = t
  BY DEF RoundStates
<1> QED
  BY <1>1, <1>2 DEF AptState, Kind

LEMMA PaymentsApt ==
    ASSUME NEW v, NEW t, NEW taken, NEW o \in InSet(Body[t]), Kind(o) # "unknown"
    PROVE  \A s \in PaymentStates(v, t, taken) : AptState(s, FALSE)
<1>1. \A s \in PaymentStates(v, t, taken) : s[1][1] = t
  BY DEF PaymentStates
<1> QED
  BY <1>1 DEF AptState, Kind

\* The inductive invariant.
Course ==
    /\ Coursed(w)
    /\ pc = "walk" => Detection[root].kind # "unknown" /\ Sound(w) /\ Apt(w)

CInv == HInv /\ IInv /\ Course

LEMMA InitCourse == Init => CInv
<1> SUFFICES ASSUME Init PROVE CInv
  OBVIOUS
<1>1. HInv /\ IInv
  BY InitHonest, InitFits
<1>2. w = NewWalk /\ pc = "start"
  BY DEF Init
<1>3. /\ DOMAIN NewWalk.found = {} /\ DOMAIN NewWalk.findings = {}
      /\ DOMAIN NewWalk.edges = {}
  BY DEF NewWalk
<1>4. Coursed(w)
  BY <1>2, <1>3 DEF Coursed, Witnessed, Chains, HopsFound, Hops
<1> QED
  BY <1>1, <1>2, <1>4 DEF CInv, Course

LEMMA WalkIsUnderWay == CInv /\ pc = "walk" => UnderWay
BY LimitsArePositive DEF CInv, HInv, IInv, Course, Coursed, UnderWay, Positive

\* What only stops or is relabelled stays on course.
LEMMA StillCoursed ==
    ASSUME NEW v, NEW u, Coursed(v), Keeps(v, u), u.found = v.found, Hops(u) = Hops(v),
           Chains(u) = Chains(v), DOMAIN v.outs \subseteq DOMAIN u.outs
    PROVE  Coursed(u)
<1>1. Witnessed(u)
  BY DEF Coursed, Witnessed
<1>2. \A f \in Chains(u) : Whole(u, f)
  BY WholeStays DEF Coursed
<1>3. HopsFound(u)
  BY DEF Coursed, HopsFound, Keeps
<1> QED
  BY <1>1, <1>2, <1>3 DEF Coursed

LEMMA QuietCoursed ==
    ASSUME NEW v, NEW u, Coursed(v), Quiet(v, u) PROVE Coursed(u)
<1>1. Keeps(v, u) /\ u.found = v.found /\ Hops(u) = Hops(v) /\ Chains(u) = Chains(v)
      /\ DOMAIN v.outs \subseteq DOMAIN u.outs
  BY DEF Quiet, Still, Keeps
<1> QED
  BY <1>1, StillCoursed

\* A walk that is cut short, or goes on with the next item.
LEMMA VisitingCourse ==
    ASSUME UnderWay, w.frontier # << >>, Coursed(w)
    PROVE  /\ Coursed(Popped) /\ Sound(Popped) /\ Apt(Popped)
           /\ Coursed(Visiting) /\ Sound(Visiting) /\ Apt(Visiting)
           /\ Fields \subseteq DOMAIN Visiting
<1> DEFINE p == Popped
           y == Visiting
<1>0. Fields \subseteq DOMAIN w /\ Honest(w) /\ Sound(w)
  BY DEF UnderWay, Honest
<1>1. /\ p.nodes = w.nodes /\ p.outs = w.outs /\ p.findings = w.findings
      /\ p.edges = w.edges /\ p.found = w.found /\ p.frontier = Tail(w.frontier)
  BY <1>0 DEF Popped, Fields
<1>2. /\ Fields \subseteq DOMAIN y
      /\ y.nodes = w.nodes /\ y.outs = w.outs /\ y.findings = w.findings
      /\ y.edges = w.edges /\ y.found = w.found /\ y.frontier = Tail(w.frontier)
  BY <1>0, VisitingStays
<1> HIDE DEF p, y
<1>3. ASSUME NEW u, u.nodes = w.nodes, u.outs = w.outs, u.findings = w.findings,
             u.edges = w.edges, u.found = w.found, u.frontier = Tail(w.frontier)
      PROVE  Coursed(u) /\ Sound(u) /\ Apt(u)
  <2>1. Keeps(w, u) /\ Hops(u) = Hops(w) /\ Chains(u) = Chains(w)
    BY <1>3 DEF Keeps, Hops, Chains
  <2>2. Coursed(u)
    BY <1>3, <2>1, StillCoursed
  <2>3. Sound(u)
    BY <1>0, <1>3, <2>1, SoundStays
  <2>4. Apt(u)
    BY <1>3, TailApt
  <2> QED
    BY <2>2, <2>3, <2>4
<1> QED
  BY <1>1, <1>2, <1>3 DEF p, y

LEMMA CutCourse ==
    ASSUME NEW v, Fields \subseteq DOMAIN v, Coursed(v), NEW cause
    PROVE  /\ Coursed(Cut(v, cause)) /\ Fields \subseteq DOMAIN Cut(v, cause)
           /\ Sound(v) => Sound(Cut(v, cause))
           /\ Apt(v) => Apt(Cut(v, cause))
<1>1. Quiet(v, Cut(v, cause))
  BY CutQuiet
<1> QED
  BY <1>1, QuietCoursed, QuietSound DEF Quiet, Still, Apt

LEMMA FetchedCoursed ==
    ASSUME UnderWay, w.frontier # << >>, Coursed(w) PROVE Coursed(Fetched)
<1>1. /\ Fetched.outs = w.outs /\ Fetched.findings = w.findings /\ Fetched.edges = w.edges
      /\ Keeps(w, Fetched) /\ Witnessed(Fetched) /\ Sound(Fetched)
  BY FetchedStays
<1>2. Hops(Fetched) = Hops(w) /\ Chains(Fetched) = Chains(w)
  BY <1>1 DEF Hops, Chains
<1>3. \A f \in Chains(Fetched) : Whole(Fetched, f)
  BY <1>1, <1>2, WholeStays DEF Coursed
<1> QED
  BY <1>1, <1>3 DEF Coursed, Sound

LEMMA NextCourse == CInv /\ [Next]_vars => CInv'
<1> SUFFICES ASSUME CInv, [Next]_vars PROVE CInv'
  OBVIOUS
<1>0. HInv' /\ IInv'
  BY NextHonest, NextFits DEF CInv
<1> SUFFICES Course'
  BY <1>0 DEF CInv
<1>a. /\ known \subseteq Tx /\ root \in Tx /\ Honest(w) /\ Fits(w) /\ Positive /\ Coursed(w)
      /\ pc = "walk" => UnderWay
  BY WalkIsUnderWay, LimitsArePositive DEF CInv, HInv, IInv, Course, Positive
<1>b. ASSUME NEW u, w' = u, known \subseteq known', root' = root, limits' = limits, Coursed(u),
             pc' = "walk" => Detection[root].kind # "unknown" /\ Sound(u) /\ Apt(u)
      PROVE  Course'
  <2>1. Coursed(w)'
    <3>1. (\A o \in DOMAIN w.found : w.found[o] \subseteq Spenders(o))'
      BY <1>b DEF Coursed, Witnessed, Spenders
    <3>2. (\A f \in Chains(w) : Whole(w, f))'
      <4>1. \A f \in Chains(w') : Whole(w', f)
        BY <1>b DEF Coursed
      <4> QED
        BY Zenon, <4>1 DEF Chains, Whole, FullPath, Hopped, LaidTo, LinkOf, Hops, Kind
    <3>3. HopsFound(w)'
      BY <1>b DEF Coursed, HopsFound, Hops
    <3> QED
      BY <3>1, <3>2, <3>3 DEF Coursed, Witnessed
  <2>2. ASSUME pc' = "walk" PROVE (Detection[root].kind # "unknown" /\ Sound(w) /\ Apt(w))'
    <3>1. (Reached(w) /\ Filled(w))'
      BY <1>b, <2>2 DEF Sound, Reached, Filled, AllOuts
    <3>2. (DeepWhole(w) /\ HopsFound(w))'
      BY <1>b, <2>2 DEF Sound, DeepWhole, Deep, AllOuts, HopsFound, Hops, Kind
    <3>3. Apt(w)'
      BY <1>b, <2>2 DEF Apt, AptItem, Kind
    <3> QED
      BY <1>b, <2>2, <3>1, <3>2, <3>3 DEF Sound
  <2> QED
    BY <2>1, <2>2 DEF Course
<1>c. Walking => UnderWay /\ w.frontier # << >>
  BY <1>a DEF Walking
<1>d. /\ Fetching => Walking
      /\ Followed => Fetching /\ pc' = pc /\ known' = known /\ root' = root /\ limits' = limits
      /\ UnderWay => Detection[root].kind # "unknown"
  BY DEF Fetching, Followed, UnderWay
\* The course of a step that follows the item.
<1>e. ASSUME NEW u, NEW x, NEW A, NEW r, Followed \/ Unspent, Follows(u, x, A, r),
             Honest(u), w' = u, \A s \in A : AptState(s, r)
      PROVE  Course'
  <2>1. UnderWay /\ w.frontier # << >> /\ known' = known /\ root' = root /\ limits' = limits
    BY <1>c, <1>d, <1>e DEF Unspent
  <2>2. Coursed(u) /\ Sound(u) /\ Apt(u)
    BY <1>a, <1>e, <2>1, FollowsCourse
  <2> QED
    BY <1>b, <1>d, <1>e, <2>1, <2>2
<1>1. CASE Begin
  <2> DEFINE v == AddTx([NewWalk EXCEPT !.detected = {root}], root)
             tx0 == EnqueueRoles(v, root, Tx0Ancestry, "high", 0)
             round == EnqueueRoles(v, root, RoundAncestry, "medium", 0)
             kind == Detection[root].kind
  <2>1. /\ w' = CASE kind = "tx0" -> tx0 [] kind = "whirlpool_round" -> round [] OTHER -> v
        /\ pc' = IF kind = "unknown" THEN "report" ELSE "walk"
        /\ known' = known /\ root' = root /\ limits' = limits
    BY <1>1 DEF Begin
  <2>2. Honest(v) /\ Fields \subseteq DOMAIN v
    BY <1>a, NewWalkHonest, AddTxHonest DEF Honest
  <2>3. CASE kind = "unknown"
    <3>1. w' = v /\ pc' = "report"
      BY <2>1, <2>3
    <3>2. Coursed(v)
      <4> DEFINE z == [NewWalk EXCEPT !.detected = {root}]
      <4>1. /\ Fields \subseteq DOMAIN z
            /\ DOMAIN z.found = {} /\ DOMAIN z.findings = {} /\ DOMAIN z.edges = {}
        BY DEF NewWalk, Fields
      <4> HIDE DEF z
      <4>2. v.found = z.found /\ v.findings = z.findings /\ Hops(v) = Hops(z)
        BY <4>1, AddTxGrows DEF z
      <4>3. Hops(z) = {}
        BY <4>1 DEF Hops
      <4> HIDE DEF v
      <4> QED
        BY <4>1, <4>2, <4>3 DEF Coursed, Witnessed, Chains, HopsFound
    <3> HIDE DEF v
    <3> QED
      BY <1>b, <2>1, <3>1, <3>2
  <2>4. CASE kind # "unknown"
    <3>1. /\ Coursed(v) /\ Sound(v) /\ Apt(v) /\ v.frontier = << >>
      BY <1>a, <2>4, BeginSound
    <3>2. v.frontier \in Seq(Items(DOMAIN v.outs))
      BY <2>2 DEF Honest, Placed
    <3> HIDE DEF v
    <3>3. ASSUME NEW u, NEW A, Queues(v, u, A, 0, TRUE), Honest(u), w' = u,
                 \A s \in A : AptState(s, TRUE)
          PROVE  Course'
      <4>1. /\ u.nodes = v.nodes /\ DOMAIN u.outs = DOMAIN v.outs /\ u.found = v.found
            /\ Chains(u) = Chains(v) /\ Hops(u) = Hops(v) /\ Keeps(v, u)
        BY <3>3 DEF Queues, Keeps
      <4>2. Coursed(u) /\ Sound(u)
        BY <3>1, <4>1, StillCoursed, SoundStays
      <4>3. Apt(u)
        BY <3>1, <3>2, <3>3, QueuesApt
      <4> QED
        BY <1>b, <2>1, <2>4, <3>3, <4>2, <4>3
    <3>4. CASE kind = "tx0"
      <4>1. Honest(tx0)
        BY <1>a, <2>2, <3>4, EnqueueRolesHonest
      <4>2. Queues(v, tx0, RoleStates(v, root, Tx0Ancestry), 0, TRUE)
        BY <1>a, <2>2, EnqueueRolesQueues
      <4>3. \A s \in RoleStates(v, root, Tx0Ancestry) : AptState(s, TRUE)
        BY <2>4, HandedApt
      <4>4. w' = tx0
        BY <2>1, <3>4
      <4> HIDE DEF tx0
      <4> QED
        BY <3>3, <4>1, <4>2, <4>3, <4>4
    <3>5. CASE kind = "whirlpool_round"
      <4>1. Honest(round)
        BY <1>a, <2>2, <3>5, EnqueueRolesHonest
      <4>2. Queues(v, round, RoleStates(v, root, RoundAncestry), 0, TRUE)
        BY <1>a, <2>2, EnqueueRolesQueues
      <4>3. \A s \in RoleStates(v, root, RoundAncestry) : AptState(s, TRUE)
        BY <2>4, HandedApt
      <4>4. w' = round
        BY <2>1, <3>5
      <4> HIDE DEF round
      <4> QED
        BY <3>3, <4>1, <4>2, <4>3, <4>4
    <3>6. kind = "tx0" \/ kind = "whirlpool_round"
      BY <1>a, <2>4, Verdict DEF IsTx0Verdict, IsRoundVerdict, IsUnknownVerdict
    <3> QED
      BY <3>4, <3>5, <3>6
  <2> QED
    BY <2>3, <2>4
<1>2. CASE Repeat
  <2>1. Walking /\ w' = Popped /\ known' = known /\ root' = root /\ limits' = limits
    BY <1>2 DEF Repeat
  <2> QED
    BY <1>a, <1>b, <1>c, <1>d, <2>1, VisitingCourse
<1>3. CASE TooDeep
  <2>1. Walking /\ w' = Cut(Visiting, "depth")
        /\ known' = known /\ root' = root /\ limits' = limits
    BY <1>3 DEF TooDeep
  <2>2. Coursed(w') /\ Sound(w') /\ Apt(w')
    BY <1>a, <1>c, <2>1, VisitingCourse, CutCourse
  <2> QED
    BY <1>b, <1>c, <1>d, <2>1, <2>2
<1>4. CASE OutOfLookups
  <2>1. Walking /\ w' = Cut(Visiting, "lookups") /\ pc' = "report"
        /\ known' = known /\ root' = root /\ limits' = limits
    BY <1>4, <1>d DEF OutOfLookups
  <2>2. Coursed(w')
    BY <1>a, <1>c, <2>1, VisitingCourse, CutCourse
  <2> QED
    BY <1>b, <2>1, <2>2
<1>5. CASE Unspent
  <2> DEFINE u == Find(Status(Fetched, Item.out, "unspent"),
                       "unspent", Item.out[1], {Item.out}, Item.conf)
  <2>1. Walking /\ ~Spent /\ w' = u
    BY <1>5, <1>d DEF Unspent
  <2>2. Follows(u, u, {}, FALSE)
    BY <1>c, <2>1, UnspentFollows
  <2>3. Honest(u)
    <3>1. /\ Honest(Fetched) /\ Item.out \in DOMAIN Fetched.outs
          /\ Item.out \in DOMAIN Fetched.found /\ Fetched.found[Item.out] = {}
          /\ Item.conf = "high" => Kind(Item.out) = "tx0"
      BY <1>a, <1>c, <2>1, FetchedHonest DEF Spent, Justified
    <3> QED
      BY <3>1, UnspentHonest
  <2> DEFINE none == {}
  <2>4. Follows(u, u, none, FALSE) /\ \A s \in none : AptState(s, FALSE)
    BY <2>2
  <2> HIDE DEF u, none
  <2> QED
    BY <1>5, <1>e, <2>1, <2>3, <2>4
<1>6. CASE OutOfTransactions
  <2> DEFINE c == Cut(Fetched, "transactions")
  <2>1. Walking /\ w' = [c EXCEPT !.detected = @ \cup {Spender}] /\ pc' = "report"
        /\ known' = known /\ root' = root /\ limits' = limits
    BY <1>6, <1>d DEF OutOfTransactions
  <2>2. Coursed(Fetched) /\ Fields \subseteq DOMAIN Fetched
    BY <1>a, <1>c, <2>1, FetchedCoursed, FetchedStays
  <2>3. Coursed(c) /\ Fields \subseteq DOMAIN c
    BY <2>2, CutCourse
  <2> HIDE DEF c
  <2>4. Coursed(w')
    BY <2>1, <2>3, DetectedQuiet, QuietCoursed
  <2> QED
    BY <1>b, <2>1, <2>4
<1>f. Followed => /\ Honest(Recorded) /\ Spender \in Tx /\ Item.depth + 1 \in Int /\ UnderWay
                  /\ known \subseteq Tx /\ Spends(Spender, Item.out) /\ AptItem(Item)
                  /\ Justified(Item)
  <2> SUFFICES ASSUME Followed
               PROVE  /\ Honest(Recorded) /\ Spender \in Tx /\ Item.depth + 1 \in Int
                      /\ UnderWay /\ known \subseteq Tx /\ Justified(Item)
                      /\ Spends(Spender, Item.out) /\ AptItem(Item)
    OBVIOUS
  <2>1. w.frontier # << >> /\ Spent /\ UnderWay
    BY <1>c, <1>d DEF Followed
  <2>2. Item.depth \in Int /\ AptItem(Item) /\ Justified(Item)
    BY <2>1, ItemFacts
  <2>3. Spends(Spender, Item.out)
    BY <2>1, FetchedStays
  <2> QED
    BY <1>a, <2>1, <2>2, <2>3, RecordedHonest
<1>7. CASE LastSpend
  <2>1. Followed /\ w' = Recorded
    BY <1>7 DEF LastSpend
  <2>2. Follows(Recorded, Recorded, {}, FALSE)
    BY <1>f, <2>1, LastFollows
  <2> DEFINE none == {}
  <2>3. Follows(Recorded, Recorded, none, FALSE) /\ \A s \in none : AptState(s, FALSE)
    BY <2>2
  <2> HIDE DEF Recorded, none
  <2> QED
    BY <1>e, <1>f, <2>1, <2>3
<1>8. CASE EnterRound
  <2> DEFINE u == FollowRound(Recorded, Item, Spender, Item.depth + 1)
  <2>1. Followed /\ w' = u /\ Detection[Spender].kind = "whirlpool_round"
    BY <1>8 DEF EnterRound, Becomes
  <2>2. Honest(u)
    BY <1>f, <2>1, FollowRoundHonest
  <2>3. Follows(u, Recorded, RoundStates(Recorded, Spender), TRUE)
    BY <1>f, <2>1, RoundFollows
  <2>4. \A s \in RoundStates(Recorded, Spender) : AptState(s, TRUE)
    BY <2>1, HandedApt
  <2> HIDE DEF u
  <2> QED
    BY <1>e, <2>1, <2>2, <2>3, <2>4
<1>9. CASE EnterTx0
  <2> DEFINE x == WithLaterTx0(Recorded, Item, Spender)
             u == EnqueueRoles(x, Spender, Tx0Ancestry, "high", Item.depth + 1)
  <2>1. Followed /\ w' = u /\ Detection[Spender].kind = "tx0"
    BY <1>9 DEF EnterTx0, Becomes
  <2>2. Honest(x)
    BY <1>f, <2>1, DoxxicHonest
  <2>3. Follows(u, x, RoleStates(x, Spender, Tx0Ancestry), TRUE)
    BY <1>f, <2>1, Tx0Follows
  <2> HIDE DEF x
  <2>4. Honest(u)
    BY <1>f, <2>1, <2>2, EnqueueRolesHonest
  <2>5. \A s \in RoleStates(x, Spender, Tx0Ancestry) : AptState(s, TRUE)
    BY <2>1, HandedApt
  <2> HIDE DEF u
  <2> QED
    BY <1>e, <2>1, <2>3, <2>4, <2>5
<1>10. CASE OrdinarySpend
  <2> DEFINE u == FollowOrdinary(Recorded, Spender, Item.depth + 1)
  <2>1. Followed /\ Item.recursive /\ w' = u /\ Detection[Spender].kind = "unknown"
    BY <1>10 DEF OrdinarySpend, Becomes
  <2>2. Honest(u)
    BY <1>f, <2>1, FollowOrdinaryHonest
  <2>3. PICK x, taken : Follows(u, x, PaymentStates(x, Spender, taken), FALSE)
    BY <1>f, <2>1, OrdinaryFollows
  <2>4. Item.out \in InSet(Body[Spender]) /\ Kind(Item.out) # "unknown"
    BY <1>f, <2>1 DEF Spends, AptItem
  <2>5. \A s \in PaymentStates(x, Spender, taken) : AptState(s, FALSE)
    BY <2>4, PaymentsApt
  <2> HIDE DEF u
  <2> QED
    BY <1>e, <2>1, <2>2, <2>3, <2>5
<1>11. CASE Drained \/ Fails \/ Finished \/ UNCHANGED vars
  <2>1. /\ w' = w /\ known' = known /\ root' = root /\ limits' = limits
        /\ pc' = "walk" => pc = "walk"
    BY <1>11 DEF Drained, Fails, Finished, vars
  <2> QED
    BY <1>a, <1>b, <2>1 DEF UnderWay
<1>12. CASE Report
  <2>1. w' = WithReuse(w) /\ pc' = "done" /\ known' = known /\ root' = root /\ limits' = limits
    BY <1>12 DEF Report
  <2>2. Coursed(WithReuse(w))
    BY <1>a, ReuseQuiet, QuietCoursed DEF Honest
  <2> QED
    BY <1>b, <2>1, <2>2
<1>13. CASE NodeLearns
  <2>1. w' = w /\ root' = root /\ limits' = limits /\ pc' = pc /\ known \subseteq known'
    BY <1>13 DEF NodeLearns
  <2> QED
    BY <1>a, <1>b, <2>1 DEF UnderWay
<1> QED
  BY <1>1, <1>2, <1>3, <1>4, <1>5, <1>6, <1>7, <1>8, <1>9, <1>10, <1>11, <1>12, <1>13
     DEF Next, Step

LEMMA CourseAlways == Spec => []CInv
BY InitCourse, NextCourse, PTL DEF Spec

\* From an output of a chain the spends shown lead to the next one, and only
\* there.
LEMMA OneWayOn ==
    ASSUME known \subseteq Tx, Coursed(w), NEW path, NEW t, FullPath(w, path, t),
           LaidTo(w, path, 4), NEW k \in 1 .. 4
    PROVE  {<<e[3], 1>> : e \in {x \in DOMAIN w.edges : x[1] = "spends" /\ x[2] = path[k]}}
              = {path[k + 1]}
<1> DEFINE o == path[k]
           s == path[k + 1][1]
           link == LinkOf(path, k)
           from == {x \in DOMAIN w.edges : x[1] = "spends" /\ x[2] = o}
<1>1. Hopped(w, path, k) /\ link \in Hops(w)
  BY DEF FullPath, LaidTo
<1>2. s \in w.found[o] /\ o \in DOMAIN w.found /\ path[k + 1] = <<s, 1>> /\ s \in Tx
  BY <1>1 DEF Hopped
<1>3. w.found[o] \subseteq Spenders(o)
  BY <1>2 DEF Coursed, Witnessed
<1>4. link = <<"spends", o, s>> /\ link[1] = "spends" /\ link[2] = o /\ link[3] = s
  BY DEF LinkOf
<1> HIDE DEF link, o, s
<1>5. link \in from
  BY <1>1, <1>4 DEF Hops
<1>6. ASSUME NEW e \in from PROVE e[3] = s
  <2>1. e \in Hops(w) /\ e[2] = o
    BY DEF Hops
  <2>2. e[3] \in w.found[o]
    BY <2>1 DEF Coursed, HopsFound
  <2>3. e[3] \in known /\ Spends(e[3], o) /\ Spends(s, o)
    BY <1>2, <1>3, <2>2 DEF Spenders
  <2> QED
    BY <1>2, <2>3, OneSpender
<1> HIDE DEF from
<1>7. {<<e[3], 1>> : e \in from} = {<<s, 1>>}
  BY <1>4, <1>5, <1>6
<1> QED
  BY <1>2, <1>7 DEF from, o

(* A Ricochet is reported with its whole chain: from one output of its      *)
(* entry the report shows four spends, one after the other, and the outputs *)
(* they create.  That the chain fits is counted before it is added; what    *)
(* the report has of it already has its outputs (_follow_ricochet).         *)
THEOREM RicochetsReportedWhole == Spec => []RicochetWhole
<1>1. CInv => RicochetWhole
  <2> SUFFICES ASSUME CInv, NEW f \in Findings("ricochet")
               PROVE  \E i \in OutsOf(Body[f.tx]) :
                 LET Next1(o) == {<<e[3], 1>> : e \in {x \in DOMAIN w.edges :
                                                x[1] = "spends" /\ x[2] = o}}
                     Step1(S) == UNION {Next1(o) : o \in S}
                     last     == Step1(Step1(Step1(Step1({<<f.tx, i>>}))))
                 IN  last # {} /\ last \subseteq DOMAIN w.outs /\ {<<f.tx, i>>} # f.at
    BY DEF RicochetWhole
  <2>1. known \subseteq Tx /\ Coursed(w)
    BY DEF CInv, HInv, Course
  <2>2. f \in Chains(w)
    BY DEF Findings, Chains
  <2>3. PICK path : FullPath(w, path, f.tx) /\ {path[1]} # f.at /\ LaidTo(w, path, 4)
    BY <2>1, <2>2 DEF Coursed, Whole
  <2> DEFINE Next1(o) == {<<e[3], 1>> : e \in {x \in DOMAIN w.edges :
                                                x[1] = "spends" /\ x[2] = o}}
             Step1(S) == UNION {Next1(o) : o \in S}
             i == path[1][2]
  <2>4. \A k \in 1 .. 4 : Next1(path[k]) = {path[k + 1]}
    BY <2>1, <2>3, OneWayOn
  <2> HIDE DEF Next1
  <2>5. \A k \in 1 .. 4 : Step1({path[k]}) = {path[k + 1]}
    BY <2>4
  <2>6. /\ Step1({path[1]}) = {path[2]} /\ Step1({path[2]}) = {path[3]}
        /\ Step1({path[3]}) = {path[4]} /\ Step1({path[4]}) = {path[5]}
    <3>1. /\ 1 \in 1 .. 4 /\ 2 \in 1 .. 4 /\ 3 \in 1 .. 4 /\ 4 \in 1 .. 4
          /\ 1 + 1 = 2 /\ 2 + 1 = 3 /\ 3 + 1 = 4 /\ 4 + 1 = 5
      OBVIOUS
    <3> HIDE DEF Step1
    <3> QED
      BY <2>5, <3>1
  <2> HIDE DEF Step1
  <2>7. Step1(Step1(Step1(Step1({path[1]})))) = {path[5]}
    BY <2>6
  <2>8. path[5] \in DOMAIN w.outs
    <3>1. 4 \in 1 .. 4 /\ 4 + 1 = 5 /\ 4 <= 4
      OBVIOUS
    <3> QED
      BY <2>3, <3>1 DEF LaidTo
  <2>9. path[1] = <<f.tx, i>> /\ i \in OutsOf(Body[f.tx])
    BY <2>3 DEF FullPath
  <2> HIDE DEF i
  <2>10. /\ Step1(Step1(Step1(Step1({<<f.tx, i>>})))) # {}
         /\ Step1(Step1(Step1(Step1({<<f.tx, i>>})))) \subseteq DOMAIN w.outs
         /\ {<<f.tx, i>>} # f.at
    BY <2>3, <2>7, <2>8, <2>9
  <2> QED
    BY <2>9, <2>10 DEF Step1, Next1
<1> QED
  BY <1>1, CourseAlways, PTL

-----------------------------------------------------------------------------
(* Consolidations, and the order of visits they depend on.  A spend is       *)
(* analysed again when one more of its inputs is visited, so what matters is *)
(* which inputs are still to be visited.                                     *)

\* What is visited or waits is of an ancestry of its output.
Ancestral(v) ==
    /\ \A s \in v.seen : s[1] \in Outpoints /\ s[2] \in v.anc[s[1]]
    /\ \A k \in DOMAIN v.frontier : v.frontier[k].anc \in v.anc[v.frontier[k].out]

\* The outputs of a round join as postmix and are followed recursively.
RoundItem(x) ==
    /\ Kind(x.out) = "whirlpool_round" => x.anc = "postmix"
    /\ x.anc = "postmix" => x.recursive

\* An output of a round is looked up when it is visited, never before; other
\* outputs that are postmix are spent alone.
Orderly(v) ==
    /\ \A k \in DOMAIN v.frontier : RoundItem(v.frontier[k])
    /\ \A o \in DOMAIN v.found : Kind(o) = "whirlpool_round" => <<o, "postmix">> \in v.seen
    /\ \A o \in Outpoints :
          "postmix" \in v.anc[o] => Kind(o) = "whirlpool_round" \/ Alone(o)

\* The output x is tracked as postmix and still to be visited as such.
Waits(v, x) ==
    /\ <<x, "postmix">> \notin v.seen
    /\ \E k \in DOMAIN v.frontier : State(v.frontier[k]) = <<x, "postmix">>

Plural(S) == \E x, y \in S : x # y

\* Each consolidation names tracked inputs, those of one spend grow, and one
\* names all that are tracked but those whose visit will find another.
Merging(v) ==
    /\ \A f \in Cons(v) :
          /\ f.tx \in known /\ Detection[f.tx].kind = "unknown"
          /\ f.at \subseteq TrackedPostmix(v, f.tx) /\ Plural(f.at)
    /\ \A f, g \in Cons(v) : f.tx = g.tx => f.at \subseteq g.at \/ g.at \subseteq f.at

NoneForgotten(v) ==
    v.cut = {} =>
       \A f \in Cons(v) : \E g \in Cons(v) :
          /\ g.tx = f.tx
          /\ \A x \in TrackedPostmix(v, f.tx) \ g.at : Waits(v, x)

LEMMA TrackedIn ==
    ASSUME NEW v, NEW t \in Tx, NEW x \in TrackedPostmix(v, t)
    PROVE  x \in Outpoints /\ Spends(t, x) /\ "postmix" \in v.anc[x]
BY GraphAssumption DEF TrackedPostmix, Spends, Outpoints

LEMMA TrackedFinite ==
    ASSUME NEW v, NEW t \in Tx
    PROVE  /\ IsFiniteSet(TrackedPostmix(v, t))
           /\ Cardinality(TrackedPostmix(v, t)) \in Nat
<1> DEFINE ins == Body[t].ins
           I == 1 .. Len(ins)
           S == {ins[i] : i \in I}
           f == [i \in I |-> ins[i]]
<1>1. Len(ins) \in Nat
  BY GraphAssumption
<1>2. InSet(Body[t]) = S
  BY DEF InSet, InsOf
<1>3. IsFiniteSet(I)
  BY <1>1, FS_Interval
<1> HIDE DEF I
<1>4. f \in Surjection(I, S)
  BY DEF Surjection
<1> HIDE DEF f, S
<1>5. IsFiniteSet(S)
  BY <1>3, <1>4, FS_Surjection
<1>6. TrackedPostmix(v, t) \subseteq S
  BY <1>2 DEF TrackedPostmix
<1>7. IsFiniteSet(TrackedPostmix(v, t))
  BY <1>5, <1>6, FS_Subset
<1> QED
  BY <1>7, FS_CardinalityType

\* Two elements are counted as two.
LEMMA PluralCounts ==
    ASSUME NEW S, IsFiniteSet(S) PROVE Plural(S) <=> Cardinality(S) >= 2
<1>1. ASSUME NEW x \in S, NEW y \in S, x # y PROVE Cardinality(S) >= 2
  <2> DEFINE one == {x}
             two == one \cup {y}
  <2>1. IsFiniteSet(one) /\ Cardinality(one) = 1 /\ y \notin one
    BY <1>1, FS_Singleton
  <2>2. two \subseteq S
    OBVIOUS
  <2> HIDE DEF one
  <2>3. IsFiniteSet(two) /\ Cardinality(two) = 2
    BY <2>1, FS_AddElement
  <2> HIDE DEF two
  <2>4. Cardinality(two) <= Cardinality(S)
    BY <2>2, FS_Subset
  <2>5. Cardinality(S) \in Nat
    BY FS_CardinalityType
  <2> QED
    BY <2>3, <2>4, <2>5
<1>2. ASSUME Cardinality(S) >= 2, \A x, y \in S : x = y PROVE FALSE
  <2>1. CASE S = {}
    BY <1>2, <2>1, FS_EmptySet
  <2>2. CASE S # {}
    <3>1. PICK x : x \in S
      BY <2>2
    <3>2. S = {x}
      BY <1>2, <3>1
    <3>3. Cardinality(S) = 1
      BY <3>2, FS_Singleton
    <3> QED
      BY <1>2, <3>3
  <2> QED
    BY <2>1, <2>2
<1>3. Plural(S) => Cardinality(S) >= 2
  BY <1>1 DEF Plural
<1>4. Cardinality(S) >= 2 => Plural(S)
  BY <1>2 DEF Plural
<1> QED
  BY <1>3, <1>4

\* What is spent alone is in no consolidation.
LEMMA AloneIsAlone ==
    ASSUME NEW t \in Tx, NEW S, S \subseteq InSet(Body[t]), Plural(S), NEW x, Spends(t, x)
    PROVE  ~Alone(x)
<1> SUFFICES ASSUME Alone(x) PROVE FALSE
  OBVIOUS
<1>1. InSet(Body[t]) = {x}
  BY DEF Alone
<1> QED
  BY <1>1 DEF Plural

LEMMA ItemIsFirst ==
    ASSUME Honest(w), w.frontier # << >>
    PROVE  /\ Item = w.frontier[1] /\ 1 \in DOMAIN w.frontier
           /\ \A k \in DOMAIN w.frontier : k # 1 =>
                 k - 1 \in DOMAIN Tail(w.frontier) /\ Tail(w.frontier)[k - 1] = w.frontier[k]
           /\ \A k \in DOMAIN Tail(w.frontier) :
                 k + 1 \in DOMAIN w.frontier /\ Tail(w.frontier)[k] = w.frontier[k + 1]
<1> DEFINE queue == w.frontier
           I == Items(DOMAIN w.outs)
<1>1. queue \in Seq(I) /\ queue # << >>
  BY DEF Honest, Placed
<1> HIDE DEF I
<1>2. Item = queue[1] /\ 1 \in DOMAIN queue
  BY <1>1 DEF Item
<1> HIDE DEF Item
<1>3. /\ DOMAIN queue = 1 .. Len(queue) /\ Len(queue) \in Nat
      /\ Tail(queue) \in Seq(I) /\ Len(Tail(queue)) = Len(queue) - 1
      /\ \A k \in 1 .. Len(queue) - 1 : Tail(queue)[k] = queue[k + 1]
  BY <1>1
<1>4. DOMAIN Tail(queue) = 1 .. Len(queue) - 1
  BY <1>3
<1> HIDE DEF queue
<1>5. \A k \in DOMAIN queue : k # 1 => k - 1 \in DOMAIN Tail(queue) /\ Tail(queue)[k - 1] = queue[k]
  BY <1>3, <1>4
<1>6. \A k \in DOMAIN Tail(queue) : k + 1 \in DOMAIN queue /\ Tail(queue)[k] = queue[k + 1]
  BY <1>3, <1>4
<1> QED
  BY <1>2, <1>5, <1>6 DEF queue

\* What a step that follows the item does to what waits and what is tracked.
Turns(u, A, r) ==
    /\ u.seen = w.seen \cup {State(Item)}
    /\ \A o \in Outpoints :
          /\ w.anc[o] \subseteq u.anc[o]
          /\ "postmix" \in u.anc[o] =>
                "postmix" \in w.anc[o] \/ Alone(o) \/ <<o, "postmix">> \in A
    /\ \A s \in A : s[1] \in Outpoints => s[2] \in u.anc[s[1]]
    /\ \A k \in DOMAIN u.frontier :
          \/ \E j \in DOMAIN w.frontier : u.frontier[k] = w.frontier[j]
          \/ State(u.frontier[k]) \in A /\ u.frontier[k].recursive = r
    /\ \A j \in DOMAIN w.frontier : j # 1 =>
          \E k \in DOMAIN u.frontier : u.frontier[k] = w.frontier[j]
    /\ \A s \in A : \E k \in DOMAIN u.frontier : State(u.frontier[k]) = s
    /\ \A o \in DOMAIN u.found :
          o \in DOMAIN w.found \/ o = Item.out \/ Kind(o) = "unknown"
    /\ w.cut \subseteq u.cut

LEMMA FollowsTurns ==
    ASSUME UnderWay, w.frontier # << >>, NEW u, NEW x, NEW A, NEW r, Follows(u, x, A, r),
           Honest(u), \A s \in A : s = <<s[1], s[2]>>
    PROVE  Turns(u, A, r) /\ Cons(u) = Cons(x)
<1> DEFINE new == u.frontier
           rest == Tail(w.frontier)
<1>1. /\ Fetched.anc = w.anc /\ Fetched.cut = w.cut /\ Fetched.frontier = Tail(w.frontier)
      /\ Fetched.seen = w.seen \cup {State(Item)}
      /\ DOMAIN Fetched.found = DOMAIN w.found \cup {Item.out}
  BY FetchedStays
<1>2. /\ Strays(Fetched, x) /\ Queues(x, u, A, Item.depth + 1, r)
  BY DEF Follows
<1>3. /\ x.seen = Fetched.seen /\ x.frontier = rest /\ w.cut \subseteq x.cut
      /\ \A o \in DOMAIN x.found : o \in DOMAIN Fetched.found \/ Kind(o) = "unknown"
      /\ \A o \in Outpoints :
            /\ w.anc[o] \subseteq x.anc[o]
            /\ "postmix" \in x.anc[o] => "postmix" \in w.anc[o] \/ Alone(o)
  BY <1>1, <1>2 DEF Strays, Grows
<1>4. /\ u.seen = x.seen /\ u.found = x.found /\ x.cut \subseteq u.cut /\ Cons(u) = Cons(x)
      /\ \A o \in Outpoints : u.anc[o] = x.anc[o] \cup {s[2] : s \in {y \in A : y[1] = o}}
  BY <1>2 DEF Queues
<1>5. /\ Len(rest) <= Len(new)
      /\ \A k \in 1 .. Len(rest) : new[k] = rest[k]
      /\ \A k \in DOMAIN new : k > Len(rest) => State(new[k]) \in A /\ new[k].recursive = r
      /\ \A s \in A : \E k \in DOMAIN new : k > Len(rest) /\ State(new[k]) = s
  BY <1>2, <1>3 DEF Queues, Queued1
<1>6. new \in Seq(Items(DOMAIN u.outs)) /\ rest \in Seq(Items(DOMAIN w.outs))
  <2>1. x.frontier \in Seq(Items(DOMAIN w.outs))
    BY <1>3, TailApt
  <2>2. u.frontier \in Seq(Items(DOMAIN u.outs))
    BY DEF Honest, Placed
  <2> QED
    BY <1>3, <2>1, <2>2
<1>7. /\ DOMAIN new = 1 .. Len(new) /\ Len(new) \in Nat
      /\ DOMAIN rest = 1 .. Len(rest) /\ Len(rest) \in Nat
  BY <1>6
<1>8. /\ \A k \in DOMAIN w.frontier : k # 1 =>
            k - 1 \in DOMAIN rest /\ rest[k - 1] = w.frontier[k]
      /\ \A k \in DOMAIN rest : k + 1 \in DOMAIN w.frontier /\ rest[k] = w.frontier[k + 1]
  BY ItemIsFirst DEF UnderWay
<1> HIDE DEF new, rest, Fetched, Item
<1>9. ASSUME NEW o \in Outpoints
      PROVE  /\ w.anc[o] \subseteq u.anc[o]
             /\ "postmix" \in u.anc[o] =>
                   "postmix" \in w.anc[o] \/ Alone(o) \/ <<o, "postmix">> \in A
  <2>1. u.anc[o] = x.anc[o] \cup {s[2] : s \in {y \in A : y[1] = o}}
    BY <1>4
  <2>2. w.anc[o] \subseteq x.anc[o]
        /\ ("postmix" \in x.anc[o] => "postmix" \in w.anc[o] \/ Alone(o))
    BY <1>3
  <2>3. ASSUME NEW s \in A, s[1] = o, s[2] = "postmix" PROVE <<o, "postmix">> \in A
    BY <2>3
  <2> QED
    BY <2>1, <2>2, <2>3
<1>10. ASSUME NEW s \in A, s[1] \in Outpoints PROVE s[2] \in u.anc[s[1]]
  <2>1. u.anc[s[1]] = x.anc[s[1]] \cup {z[2] : z \in {y \in A : y[1] = s[1]}}
    BY <1>4, <1>10
  <2> QED
    BY <2>1
<1>11. ASSUME NEW k \in DOMAIN new
       PROVE  \/ \E j \in DOMAIN w.frontier : new[k] = w.frontier[j]
              \/ State(new[k]) \in A /\ new[k].recursive = r
  <2>1. CASE k <= Len(rest)
    <3>1. k \in DOMAIN rest /\ new[k] = rest[k]
      BY <1>5, <1>7, <2>1
    <3> QED
      BY <1>8, <3>1
  <2>2. CASE k > Len(rest)
    BY <1>5, <2>2
  <2> QED
    BY <1>7, <2>1, <2>2
<1>12. ASSUME NEW j \in DOMAIN w.frontier, j # 1
       PROVE  \E k \in DOMAIN new : new[k] = w.frontier[j]
  <2>1. j - 1 \in DOMAIN rest /\ rest[j - 1] = w.frontier[j]
    BY <1>8, <1>12
  <2>2. j - 1 \in DOMAIN new /\ new[j - 1] = rest[j - 1]
    BY <1>5, <1>7, <2>1
  <2> QED
    BY <2>1, <2>2
<1>13. \A s \in A : \E k \in DOMAIN new : State(new[k]) = s
  BY <1>5
<1>14. \A o \in DOMAIN u.found : o \in DOMAIN w.found \/ o = Item.out \/ Kind(o) = "unknown"
  BY <1>1, <1>3, <1>4
<1>15. u.seen = w.seen \cup {State(Item)} /\ w.cut \subseteq u.cut
  BY <1>1, <1>3, <1>4
<1> QED
  BY <1>4, <1>9, <1>10, <1>11, <1>12, <1>13, <1>14, <1>15 DEF Turns, new

\* The states that join: those of a round's outputs as postmix, recursively,
\* no others as postmix.
RoundState(s, r) ==
    /\ s = <<s[1], s[2]>> /\ s[1] \in Outpoints
    /\ s[2] = "postmix" <=> Kind(s[1]) = "whirlpool_round"
    /\ s[2] = "postmix" => r

LEMMA TurnsKeep ==
    ASSUME UnderWay, w.frontier # << >>, Ancestral(w), Orderly(w),
           NEW u, NEW A, NEW r, Turns(u, A, r), Honest(u), \A s \in A : RoundState(s, r)
    PROVE  Ancestral(u) /\ Orderly(u)
<1> DEFINE old == w.frontier
           new == u.frontier
<1>1. Item = old[1] /\ 1 \in DOMAIN old
  BY ItemIsFirst DEF UnderWay
<1>2. /\ \A j \in DOMAIN old : old[j].out \in Outpoints
      /\ \A k \in DOMAIN new : new[k].out \in Outpoints
  <2>1. ASSUME NEW v, Honest(v), NEW k \in DOMAIN v.frontier PROVE v.frontier[k].out \in Outpoints
    <3> DEFINE queue == v.frontier
               I == Items(DOMAIN v.outs)
    <3>1. queue \in Seq(I) /\ DOMAIN v.outs \subseteq Outpoints /\ k \in DOMAIN queue
      BY <2>1, NodesAreOutpoints DEF Honest, Placed
    <3>2. \A y \in I : y.out \in DOMAIN v.outs
      BY DEF Items
    <3> HIDE DEF I, queue
    <3>3. queue[k] \in I
      BY <3>1
    <3> QED
      BY <3>1, <3>2, <3>3 DEF queue
  <2> QED
    BY <2>1 DEF UnderWay
<1>3. /\ \A k \in DOMAIN old : old[k].anc \in w.anc[old[k].out] /\ RoundItem(old[k])
      /\ \A s \in w.seen : s[1] \in Outpoints /\ s[2] \in w.anc[s[1]]
      /\ \A o \in Outpoints :
            "postmix" \in w.anc[o] => Kind(o) = "whirlpool_round" \/ Alone(o)
      /\ \A o \in DOMAIN w.found : Kind(o) = "whirlpool_round" => <<o, "postmix">> \in w.seen
  BY DEF Ancestral, Orderly
<1>4. /\ u.seen = w.seen \cup {State(Item)}
      /\ \A o \in Outpoints :
            /\ w.anc[o] \subseteq u.anc[o]
            /\ "postmix" \in u.anc[o] =>
                  "postmix" \in w.anc[o] \/ Alone(o) \/ <<o, "postmix">> \in A
      /\ \A s \in A : s[1] \in Outpoints => s[2] \in u.anc[s[1]]
      /\ \A k \in DOMAIN new :
            \/ \E j \in DOMAIN old : new[k] = old[j]
            \/ State(new[k]) \in A /\ new[k].recursive = r
      /\ \A o \in DOMAIN u.found :
            o \in DOMAIN w.found \/ o = Item.out \/ Kind(o) = "unknown"
  BY DEF Turns
<1> HIDE DEF old, new, Item
<1>5. ASSUME NEW k \in DOMAIN new PROVE new[k].anc \in u.anc[new[k].out] /\ RoundItem(new[k])
  <2>1. CASE \E j \in DOMAIN old : new[k] = old[j]
    BY <1>2, <1>3, <1>4, <2>1
  <2>2. CASE State(new[k]) \in A /\ new[k].recursive = r
    <3> DEFINE s == State(new[k])
    <3>1. s[1] = new[k].out /\ s[2] = new[k].anc
      BY DEF State
    <3> HIDE DEF s
    <3>2. s \in A /\ RoundState(s, r)
      BY <2>2 DEF s
    <3>3. s[2] \in u.anc[s[1]]
      BY <1>4, <3>2 DEF RoundState
    <3> QED
      BY <2>2, <3>1, <3>2, <3>3 DEF RoundState, RoundItem
  <2> QED
    BY <1>4, <2>1, <2>2
<1>6. ASSUME NEW s \in u.seen PROVE s[1] \in Outpoints /\ s[2] \in u.anc[s[1]]
  <2>1. CASE s \in w.seen
    BY <1>3, <1>4, <2>1
  <2>2. CASE s = State(Item)
    <3>1. s[1] = old[1].out /\ s[2] = old[1].anc
      BY <1>1, <2>2 DEF State
    <3> QED
      BY <1>1, <1>2, <1>3, <1>4, <3>1
  <2> QED
    BY <1>4, <2>1, <2>2
<1>7. ASSUME NEW o \in DOMAIN u.found, Kind(o) = "whirlpool_round"
      PROVE  <<o, "postmix">> \in u.seen
  <2>1. CASE o \in DOMAIN w.found
    BY <1>3, <1>4, <1>7, <2>1
  <2>2. CASE o = Item.out
    <3>1. Item.anc = "postmix"
      BY <1>1, <1>3, <1>7, <2>2 DEF RoundItem
    <3> QED
      BY <1>4, <2>2, <3>1 DEF State
  <2> QED
    BY <1>4, <1>7, <2>1, <2>2
<1>8. ASSUME NEW o \in Outpoints, "postmix" \in u.anc[o]
      PROVE  Kind(o) = "whirlpool_round" \/ Alone(o)
  <2>1. CASE <<o, "postmix">> \in A
    BY <2>1 DEF RoundState
  <2> QED
    BY <1>3, <1>4, <1>8, <2>1
<1>9. Ancestral(u)
  BY <1>5, <1>6 DEF Ancestral, new
<1>10. Orderly(u)
  BY <1>5, <1>7, <1>8 DEF Orderly, new
<1> QED
  BY <1>9, <1>10

\* The consolidations C that the spend of the item adds: of all inputs that
\* are tracked when it is analysed.
Gathers(C) ==
    /\ \A f \in C : /\ f.tx \in known /\ Detection[f.tx].kind = "unknown"
                    /\ f.at = TrackedPostmix(w, f.tx) /\ Plural(f.at)
    /\ \A f \in Cons(w) :
          Item.anc = "postmix" /\ Spends(f.tx, Item.out) => \E g \in C : g.tx = f.tx

LEMMA TurnsMerge ==
    ASSUME UnderWay, w.frontier # << >>, Ancestral(w), Orderly(w), Merging(w), NoneForgotten(w),
           NEW u, NEW A, NEW r, Turns(u, A, r), \A s \in A : RoundState(s, r),
           NEW C, Cons(u) = Cons(w) \cup C, Gathers(C)
    PROVE  Merging(u) /\ NoneForgotten(u)
<1> DEFINE old == w.frontier
           new == u.frontier
<1>1. Item = old[1] /\ known \subseteq Tx
  BY ItemIsFirst DEF UnderWay
<1>2. /\ u.seen = w.seen \cup {State(Item)} /\ w.cut \subseteq u.cut
      /\ \A o \in Outpoints :
            /\ w.anc[o] \subseteq u.anc[o]
            /\ "postmix" \in u.anc[o] =>
                  "postmix" \in w.anc[o] \/ Alone(o) \/ <<o, "postmix">> \in A
      /\ \A j \in DOMAIN old : j # 1 => \E k \in DOMAIN new : new[k] = old[j]
      /\ \A s \in A : \E k \in DOMAIN new : State(new[k]) = s
  BY DEF Turns
<1>3. /\ \A f \in Cons(w) :
            /\ f.tx \in known /\ Detection[f.tx].kind = "unknown"
            /\ f.at \subseteq TrackedPostmix(w, f.tx) /\ Plural(f.at)
      /\ \A f, g \in Cons(w) : f.tx = g.tx => f.at \subseteq g.at \/ g.at \subseteq f.at
  BY DEF Merging
<1>4. /\ \A f \in C : /\ f.tx \in known /\ Detection[f.tx].kind = "unknown"
                      /\ f.at = TrackedPostmix(w, f.tx) /\ Plural(f.at)
      /\ \A f \in Cons(w) :
            Item.anc = "postmix" /\ Spends(f.tx, Item.out) => \E g \in C : g.tx = f.tx
  BY DEF Gathers
<1>5. \A s \in w.seen : s[1] \in Outpoints /\ s[2] \in w.anc[s[1]]
  BY DEF Ancestral
<1> HIDE DEF old, new, Item
<1>6. ASSUME NEW t \in Tx PROVE TrackedPostmix(w, t) \subseteq TrackedPostmix(u, t)
  <2> SUFFICES ASSUME NEW x \in TrackedPostmix(w, t) PROVE x \in TrackedPostmix(u, t)
    OBVIOUS
  <2>1. x \in Outpoints
    BY TrackedIn
  <2> QED
    BY <1>2, <2>1 DEF TrackedPostmix
<1>7. ASSUME NEW f \in Cons(u)
      PROVE  /\ f.tx \in known /\ Detection[f.tx].kind = "unknown"
             /\ f.at \subseteq TrackedPostmix(w, f.tx) /\ Plural(f.at)
  BY <1>3, <1>4
<1>8. ASSUME NEW f \in Cons(u), NEW g \in Cons(u), f.tx = g.tx
      PROVE  f.at \subseteq g.at \/ g.at \subseteq f.at
  <2>1. f.at \subseteq TrackedPostmix(w, f.tx) /\ g.at \subseteq TrackedPostmix(w, g.tx)
    BY <1>7
  <2>2. f \in C => f.at = TrackedPostmix(w, f.tx)
    BY <1>4
  <2>3. g \in C => g.at = TrackedPostmix(w, g.tx)
    BY <1>4
  <2> QED
    BY <1>3, <1>8, <2>1, <2>2, <2>3
<1>9. Merging(u)
  <2>1. \A f \in Cons(u) : f.at \subseteq TrackedPostmix(u, f.tx)
    BY <1>1, <1>6, <1>7
  <2> QED
    BY <1>7, <1>8, <2>1 DEF Merging
\* An input that is tracked now and was not waits.
<1>10. ASSUME NEW f \in Cons(u), NEW x \in TrackedPostmix(u, f.tx),
              x \notin TrackedPostmix(w, f.tx)
       PROVE  Waits(u, x)
  <2>1. /\ f.tx \in Tx /\ f.at \subseteq TrackedPostmix(w, f.tx) /\ Plural(f.at)
    BY <1>1, <1>7
  <2>2. f.at \subseteq InSet(Body[f.tx])
    BY <2>1 DEF TrackedPostmix
  <2>3. x \in Outpoints /\ Spends(f.tx, x) /\ "postmix" \in u.anc[x]
    BY <2>1, TrackedIn
  <2>4. "postmix" \notin w.anc[x]
    BY <1>10, <2>3 DEF TrackedPostmix, Spends
  <2>5. ~Alone(x)
    BY <2>1, <2>2, <2>3, AloneIsAlone
  <2>6. <<x, "postmix">> \in A
    BY <1>2, <2>3, <2>4, <2>5
  <2>7. \E k \in DOMAIN new : State(new[k]) = <<x, "postmix">>
    BY <1>2, <2>6
  <2>8. <<x, "postmix">> \notin w.seen
    BY <1>5, <2>4
  <2>9. <<x, "postmix">> # State(Item)
    <3>1. 1 \in DOMAIN old /\ old[1].anc \in w.anc[old[1].out]
      BY ItemIsFirst DEF UnderWay, Ancestral, old
    <3> QED
      BY <1>1, <2>4, <3>1 DEF State
  <2> QED
    BY <1>2, <2>7, <2>8, <2>9 DEF Waits, new
\* What waited still waits, but for the item.
<1>11. ASSUME NEW x, Waits(w, x), <<x, "postmix">> # State(Item) PROVE Waits(u, x)
  <2>1. PICK j \in DOMAIN old : State(old[j]) = <<x, "postmix">>
    BY <1>11 DEF Waits, old
  <2>2. j # 1
    BY <1>1, <1>11, <2>1
  <2>3. \E k \in DOMAIN new : State(new[k]) = <<x, "postmix">>
    BY <1>2, <2>1, <2>2
  <2> QED
    BY <1>2, <1>11, <2>3 DEF Waits, new
<1>12. ASSUME w.cut = {}, NEW f \in Cons(u)
       PROVE  \E g \in Cons(u) :
                 /\ g.tx = f.tx
                 /\ \A x \in TrackedPostmix(u, f.tx) \ g.at : Waits(u, x)
  <2>1. CASE \E g \in C : g.tx = f.tx
    <3>1. PICK g \in C : g.tx = f.tx
      BY <2>1
    <3>2. g \in Cons(u) /\ g.at = TrackedPostmix(w, f.tx)
      BY <1>4, <3>1
    <3> QED
      BY <1>10, <3>1, <3>2
  <2>2. CASE ~(\E g \in C : g.tx = f.tx)
    <3>1. f \in Cons(w)
      BY <2>2
    <3>2. PICK g \in Cons(w) :
             g.tx = f.tx /\ \A x \in TrackedPostmix(w, f.tx) \ g.at : Waits(w, x)
      BY <1>12, <3>1 DEF NoneForgotten
    <3>3. ASSUME NEW x \in TrackedPostmix(u, f.tx) \ g.at PROVE Waits(u, x)
      <4>1. CASE x \notin TrackedPostmix(w, f.tx)
        BY <1>10, <4>1
      <4>2. CASE x \in TrackedPostmix(w, f.tx)
        <5>1. Waits(w, x)
          BY <3>2, <4>2
        <5>2. Spends(f.tx, x)
          BY <4>2 DEF TrackedPostmix, Spends
        <5>3. <<x, "postmix">> # State(Item)
          BY <1>4, <2>2, <3>1, <5>2 DEF State
        <5> QED
          BY <1>11, <5>1, <5>3
      <4> QED
        BY <4>1, <4>2
    <3> QED
      BY <3>2, <3>3
  <2> QED
    BY <2>1, <2>2
<1>13. NoneForgotten(u)
  <2>1. u.cut = {} => w.cut = {}
    BY <1>2
  <2> QED
    BY <1>12, <2>1 DEF NoneForgotten
<1> QED
  BY <1>9, <1>13

LEMMA RoleRounds ==
    ASSUME NEW v, NEW t \in Tx
    PROVE  /\ Detection[t].kind = "whirlpool_round" =>
                 \A s \in RoleStates(v, t, RoundAncestry) : RoundState(s, TRUE)
           /\ Detection[t].kind = "tx0" =>
                 \A s \in RoleStates(v, t, Tx0Ancestry) : RoundState(s, TRUE)
           /\ Detection[t].kind = "whirlpool_round" =>
                 \A s \in RoundStates(v, t) : RoundState(s, TRUE)
           /\ Detection[t].kind = "unknown" =>
                 \A taken : \A s \in PaymentStates(v, t, taken) : RoundState(s, FALSE)
<1>1. \A i \in WithNode(v, t) : <<t, i>> \in Outpoints
  BY GraphAssumption DEF WithNode, Outpoints
<1>2. \A a \in DOMAIN RoundAncestry : RoundAncestry[a] = "postmix"
  BY DEF RoundAncestry
<1>3. \A a \in DOMAIN Tx0Ancestry : Tx0Ancestry[a] # "postmix"
  BY DEF Tx0Ancestry
<1>4. ASSUME Detection[t].kind = "whirlpool_round", NEW s \in RoleStates(v, t, RoundAncestry)
      PROVE  RoundState(s, TRUE)
  <2>1. PICK i \in {j \in WithNode(v, t) : Detection[t].roles[j] \in DOMAIN RoundAncestry} :
             s = <<<<t, i>>, RoundAncestry[Detection[t].roles[i]]>>
    BY <1>4 DEF RoleStates
  <2> QED
    BY <1>1, <1>2, <1>4, <2>1 DEF RoundState, Kind
<1>5. ASSUME Detection[t].kind = "tx0", NEW s \in RoleStates(v, t, Tx0Ancestry)
      PROVE  RoundState(s, TRUE)
  <2>1. PICK i \in {j \in WithNode(v, t) : Detection[t].roles[j] \in DOMAIN Tx0Ancestry} :
             s = <<<<t, i>>, Tx0Ancestry[Detection[t].roles[i]]>>
    BY <1>5 DEF RoleStates
  <2> QED
    BY <1>1, <1>3, <1>5, <2>1 DEF RoundState, Kind
<1>6. ASSUME Detection[t].kind = "whirlpool_round", NEW s \in RoundStates(v, t)
      PROVE  RoundState(s, TRUE)
  BY <1>1, <1>6 DEF RoundStates, RoundState, Kind
<1>7. ASSUME Detection[t].kind = "unknown", NEW taken, NEW s \in PaymentStates(v, t, taken)
      PROVE  RoundState(s, FALSE)
  BY <1>1, <1>7 DEF PaymentStates, RoundState, Kind
<1> QED
  BY <1>4, <1>5, <1>6, <1>7

\* The next item is taken off: it was visited before, or the walk is cut.
LEMMA PoppedMerges ==
    ASSUME UnderWay, w.frontier # << >>, Ancestral(w), Orderly(w), Merging(w), NoneForgotten(w),
           NEW u, u.anc = w.anc, u.frontier = Tail(w.frontier), u.found = w.found,
           u.seen = w.seen \cup {State(Item)}, Cons(u) = Cons(w), w.cut \subseteq u.cut,
           ~New \/ u.cut # {}
    PROVE  Ancestral(u) /\ Orderly(u) /\ Merging(u) /\ NoneForgotten(u)
<1> DEFINE old == w.frontier
           rest == Tail(w.frontier)
<1>1. /\ Item = old[1] /\ 1 \in DOMAIN old /\ Honest(w)
      /\ \A k \in DOMAIN old : k # 1 => k - 1 \in DOMAIN rest /\ rest[k - 1] = old[k]
      /\ \A k \in DOMAIN rest : k + 1 \in DOMAIN old /\ rest[k] = old[k + 1]
  BY ItemIsFirst DEF UnderWay
<1>2. Item.out \in Outpoints
  BY ItemFacts
<1> HIDE DEF old, rest, Item
<1>3. ASSUME NEW s \in u.seen PROVE s[1] \in Outpoints /\ s[2] \in u.anc[s[1]]
  <2>1. CASE s \in w.seen
    BY <2>1 DEF Ancestral
  <2>2. CASE s = State(Item)
    <3>1. s[1] = Item.out /\ s[2] = Item.anc
      BY <2>2 DEF State
    <3>2. old[1].anc \in w.anc[old[1].out]
      BY <1>1 DEF Ancestral, old
    <3> QED
      BY <1>1, <1>2, <3>1, <3>2
  <2> QED
    BY <2>1, <2>2
<1>4. Ancestral(u)
  <2>1. \A k \in DOMAIN rest : rest[k].anc \in w.anc[rest[k].out]
    BY <1>1 DEF Ancestral, old
  <2> QED
    BY <1>3, <2>1 DEF Ancestral, rest
<1>5. Orderly(u)
  <2>1. \A k \in DOMAIN rest : RoundItem(rest[k])
    BY <1>1 DEF Orderly, old
  <2> QED
    BY <2>1 DEF Orderly, rest
<1>6. Merging(u)
  BY DEF Merging, TrackedPostmix
<1>7. ASSUME NEW x, Waits(w, x), ~New PROVE Waits(u, x)
  <2>1. State(Item) \in w.seen
    BY <1>7 DEF New
  <2>2. PICK k \in DOMAIN old : State(old[k]) = <<x, "postmix">>
    BY <1>7 DEF Waits, old
  <2>3. <<x, "postmix">> \notin w.seen
    BY <1>7 DEF Waits
  <2>4. k # 1
    BY <1>1, <2>1, <2>2, <2>3
  <2>5. k - 1 \in DOMAIN rest /\ State(rest[k - 1]) = <<x, "postmix">>
    BY <1>1, <2>2, <2>4
  <2>6. <<x, "postmix">> \notin u.seen
    BY <2>1, <2>3
  <2> QED
    BY <2>5, <2>6 DEF Waits, rest
<1>8. NoneForgotten(u)
  <2>1. ASSUME u.cut = {}, NEW f \in Cons(w)
        PROVE  \E g \in Cons(w) : /\ g.tx = f.tx
                                  /\ \A x \in TrackedPostmix(w, f.tx) \ g.at : Waits(u, x)
    <3>1. w.cut = {} /\ ~New
      BY <2>1
    <3>2. PICK g \in Cons(w) :
             g.tx = f.tx /\ \A x \in TrackedPostmix(w, f.tx) \ g.at : Waits(w, x)
      BY <3>1 DEF NoneForgotten
    <3>3. \A x \in TrackedPostmix(w, f.tx) \ g.at : Waits(u, x)
      BY <1>7, <3>1, <3>2
    <3> QED
      BY <3>2, <3>3
  <2>2. \A t : TrackedPostmix(u, t) = TrackedPostmix(w, t)
    BY DEF TrackedPostmix
  <2> QED
    BY <2>1, <2>2 DEF NoneForgotten
<1> QED
  BY <1>4, <1>5, <1>6, <1>8

\* A walk that stands still, its consolidations too.
LEMMA StillMerges ==
    ASSUME NEW v, NEW u, Merging(v), u.anc = v.anc, Cons(u) = Cons(v), v.cut \subseteq u.cut
    PROVE  /\ Merging(u)
           /\ u.cut # {} => NoneForgotten(u)
           /\ NoneForgotten(v) /\ u.seen = v.seen /\ u.frontier = v.frontier => NoneForgotten(u)
<1>1. \A t : TrackedPostmix(u, t) = TrackedPostmix(v, t)
  BY DEF TrackedPostmix
<1>2. Merging(u)
  BY <1>1 DEF Merging
<1>3. u.cut # {} => NoneForgotten(u)
  BY DEF NoneForgotten
<1>4. ASSUME NoneForgotten(v), u.seen = v.seen, u.frontier = v.frontier
      PROVE  NoneForgotten(u)
  <2>1. \A x : Waits(v, x) => Waits(u, x)
    BY <1>4 DEF Waits
  <2>2. u.cut = {} => v.cut = {}
    OBVIOUS
  <2> QED
    BY <1>1, <1>4, <2>1, <2>2 DEF NoneForgotten
<1> QED
  BY <1>2, <1>3, <1>4

\* What is found unspent is not an input of a consolidation that waits.
LEMMA UnspentGathers ==
    ASSUME UnderWay, w.frontier # << >>, Orderly(w), Ancestral(w), Merging(w), ~Spent, New
    PROVE  Gathers({})
<1> SUFFICES ASSUME NEW f \in Cons(w), Item.anc = "postmix", Spends(f.tx, Item.out)
             PROVE  FALSE
  BY DEF Gathers
<1> DEFINE o == Item.out
<1>1. /\ f.tx \in known /\ f.at \subseteq InSet(Body[f.tx]) /\ Plural(f.at)
  BY DEF Merging, TrackedPostmix
<1>2. f.tx \in Tx
  BY <1>1 DEF UnderWay
<1>3. o \in Outpoints
  BY ItemFacts
<1>4. "postmix" \in w.anc[o]
  <2>1. Item = w.frontier[1] /\ 1 \in DOMAIN w.frontier
    BY ItemIsFirst DEF UnderWay
  <2> QED
    BY <2>1 DEF Ancestral
<1>5. Kind(o) = "whirlpool_round"
  <2>1. ~Alone(o)
    BY <1>1, <1>2, AloneIsAlone
  <2> QED
    BY <1>3, <1>4, <2>1 DEF Orderly
<1>6. o \notin DOMAIN w.found
  BY <1>5 DEF Orderly, New, State
<1>7. Fetched.found[o] = Spenders(o)
  <2>1. Fields \subseteq DOMAIN Visiting /\ Visiting.found = w.found
    BY VisitingStays DEF UnderWay
  <2> HIDE DEF Visiting, o
  <2>2. Looked(Visiting, o).found[o] = Spenders(o)
    BY <1>6, <2>1, LookedStrays
  <2> QED
    BY <2>2 DEF Fetched, o
<1>8. f.tx \in Spenders(o)
  BY <1>1 DEF Spenders
<1> QED
  BY <1>7, <1>8 DEF Spent

\* The spend of a postmix item that is followed as no ordinary spend makes no
\* consolidation, and the spend of another item none that waits for it.
LEMMA OthersGather ==
    ASSUME UnderWay, Followed, Orderly(w), Merging(w),
           ~Item.recursive \/ Detection[Spender].kind # "unknown"
    PROVE  Gathers({})
<1> SUFFICES ASSUME NEW f \in Cons(w), Item.anc = "postmix", Spends(f.tx, Item.out)
             PROVE  FALSE
  BY DEF Gathers
<1>1. w.frontier # << >> /\ Spent
  BY DEF Followed, Fetching, Walking
<1>2. f.tx \in known /\ Detection[f.tx].kind = "unknown" /\ known \subseteq Tx
  BY DEF Merging, UnderWay
<1>3. Spends(Spender, Item.out) /\ Spender \in known
  BY <1>1, FetchedStays
<1>4. Item = w.frontier[1] /\ 1 \in DOMAIN w.frontier
  BY <1>1, ItemIsFirst DEF UnderWay
<1>5. Item.recursive
  BY <1>4 DEF Orderly, RoundItem
<1>6. f.tx = Spender
  BY <1>2, <1>3, OneSpender
<1> QED
  BY <1>2, <1>5, <1>6

LEMMA OrdinaryGathers ==
    ASSUME UnderWay, Followed, Merging(w), Detection[Spender].kind = "unknown"
    PROVE  Gathers(NewCons(Spender))
<1> DEFINE t == Spender
           tracked == TrackedPostmix(w, t)
<1>1. w.frontier # << >> /\ Spent /\ known \subseteq Tx
  BY DEF Followed, Fetching, Walking, UnderWay
<1>2. Spends(t, Item.out) /\ t \in known /\ t \in Tx
  BY <1>1, FetchedStays
<1>3. IsFiniteSet(tracked) /\ (Plural(tracked) <=> Cardinality(tracked) >= 2)
  BY <1>2, TrackedFinite, PluralCounts
<1> HIDE DEF t
<1>4. ASSUME NEW f \in NewCons(t)
      PROVE  /\ f.tx \in known /\ Detection[f.tx].kind = "unknown"
             /\ f.at = TrackedPostmix(w, f.tx) /\ Plural(f.at)
  <2>1. Cardinality(tracked) >= 2 /\ f = Consolidation(t, tracked)
    BY <1>4 DEF NewCons
  <2>2. f.tx = t /\ f.at = tracked
    BY <2>1 DEF Consolidation
  <2> QED
    BY <1>2, <1>3, <2>1, <2>2 DEF t
<1>5. ASSUME NEW f \in Cons(w), Spends(f.tx, Item.out) PROVE \E g \in NewCons(t) : g.tx = f.tx
  <2>1. f.tx \in known /\ f.at \subseteq TrackedPostmix(w, f.tx) /\ Plural(f.at)
    BY DEF Merging
  <2>2. f.tx = t
    BY <1>1, <1>2, <1>5, <2>1, OneSpender
  <2>3. Plural(tracked)
    BY <2>1, <2>2 DEF Plural
  <2>4. NewCons(t) = {Consolidation(t, tracked)}
    BY <1>3, <2>3 DEF NewCons
  <2>5. Consolidation(t, tracked).tx = t
    BY DEF Consolidation
  <2> QED
    BY <2>2, <2>4, <2>5
<1> QED
  BY <1>4, <1>5 DEF Gathers, t

\* The first states of a walk.
LEMMA BeginMerges ==
    ASSUME NEW v, NEW u, NEW A, NEW d, Queues(v, u, A, d, TRUE), Honest(u), Cons(v) = {},
           v.frontier = << >>, v.seen = {}, DOMAIN v.found = {},
           \A o \in Outpoints : v.anc[o] = {}, \A s \in A : RoundState(s, TRUE)
    PROVE  Ancestral(u) /\ Orderly(u) /\ Merging(u) /\ NoneForgotten(u)
<1> DEFINE new == u.frontier
<1>1. /\ u.seen = {} /\ DOMAIN u.found = {} /\ Cons(u) = {}
      /\ \A o \in Outpoints : u.anc[o] = {s[2] : s \in {y \in A : y[1] = o}}
      /\ \A k \in DOMAIN new : k > 0 => State(new[k]) \in A /\ new[k].recursive = TRUE
  BY DEF Queues, Queued1
<1>2. \A k \in DOMAIN new : k > 0
  <2>1. new \in Seq(Items(DOMAIN u.outs))
    BY DEF Honest, Placed
  <2> HIDE DEF new
  <2> QED
    BY <2>1
<1> HIDE DEF new
<1>3. ASSUME NEW k \in DOMAIN new PROVE new[k].anc \in u.anc[new[k].out] /\ RoundItem(new[k])
  <2> DEFINE s == State(new[k])
  <2>1. s[1] = new[k].out /\ s[2] = new[k].anc
    BY DEF State
  <2>2. s \in A /\ RoundState(s, TRUE) /\ new[k].recursive = TRUE
    BY <1>1, <1>2
  <2> HIDE DEF s
  <2>3. s[2] \in u.anc[s[1]]
    BY <1>1, <2>2 DEF RoundState
  <2> QED
    BY <2>1, <2>2, <2>3 DEF RoundState, RoundItem
<1>4. Ancestral(u)
  BY <1>1, <1>3 DEF Ancestral, new
<1>5. ASSUME NEW o \in Outpoints, "postmix" \in u.anc[o] PROVE Kind(o) = "whirlpool_round"
  BY <1>1, <1>5 DEF RoundState
<1>6. Orderly(u)
  BY <1>1, <1>3, <1>5 DEF Orderly, new
<1> QED
  BY <1>1, <1>4, <1>6 DEF Merging, NoneForgotten

\* The inductive invariant.
Joint ==
    /\ Merging(w) /\ NoneForgotten(w)
    /\ pc = "walk" => Ancestral(w) /\ Orderly(w)
    /\ pc \in {"report", "done"} /\ w.cut = {} => w.frontier = << >>

JInv == CInv /\ Joint

LEMMA InitJoint == Init => JInv
<1> SUFFICES ASSUME Init PROVE JInv
  OBVIOUS
<1>1. w = NewWalk /\ pc = "start"
  BY DEF Init
<1>2. DOMAIN NewWalk.findings = {}
  BY DEF NewWalk
<1>3. Cons(w) = {}
  BY <1>1, <1>2 DEF Cons
<1>4. Merging(w) /\ NoneForgotten(w)
  BY <1>3 DEF Merging, NoneForgotten
<1> QED
  BY <1>1, <1>4, InitCourse DEF JInv, Joint

LEMMA NextJoint == JInv /\ [Next]_vars => JInv'
<1> SUFFICES ASSUME JInv, [Next]_vars PROVE JInv'
  OBVIOUS
<1>0. CInv /\ CInv'
  BY NextCourse DEF JInv
<1> SUFFICES Joint'
  BY <1>0 DEF JInv
<1>h. Honest(w')
  BY <1>0 DEF CInv, HInv
<1>a. /\ known \subseteq Tx /\ root \in Tx /\ Honest(w) /\ Fields \subseteq DOMAIN w
      /\ pc = "walk" => UnderWay /\ Ancestral(w) /\ Orderly(w)
      /\ Merging(w) /\ NoneForgotten(w)
      /\ pc \in {"report", "done"} /\ w.cut = {} => w.frontier = << >>
  BY <1>0, WalkIsUnderWay DEF CInv, HInv, JInv, Joint, Honest
<1>b. ASSUME NEW u, w' = u, known \subseteq known', Merging(u), NoneForgotten(u),
             pc' = "walk" => Ancestral(u) /\ Orderly(u),
             pc' \in {"report", "done"} /\ u.cut = {} => u.frontier = << >>
      PROVE  Joint'
  <2>1. Merging(w)'
    BY <1>b DEF Merging, Cons, TrackedPostmix
  <2>2. NoneForgotten(w)'
    BY <1>b DEF NoneForgotten, Cons, TrackedPostmix, Waits, State
  <2>3. pc' = "walk" => (Ancestral(w) /\ Orderly(w))'
    BY <1>b DEF Ancestral, Orderly, RoundItem, Alone, Kind, Spends
  <2> QED
    BY <1>b, <2>1, <2>2, <2>3 DEF Joint
<1>c. Walking => UnderWay /\ w.frontier # << >> /\ Ancestral(w) /\ Orderly(w)
  BY <1>a DEF Walking
<1>d. /\ Fetching => Walking /\ New
      /\ Followed => Fetching /\ pc' = pc /\ known' = known
  BY DEF Fetching, Followed
\* A step that follows the item.
<1>e. ASSUME NEW u, NEW x, NEW A, NEW r, NEW C, Followed \/ Unspent, Follows(u, x, A, r),
             w' = u, \A s \in A : RoundState(s, r), Cons(x) = Cons(w) \cup C, Gathers(C)
      PROVE  Joint'
  <2>1. /\ UnderWay /\ w.frontier # << >> /\ Ancestral(w) /\ Orderly(w) /\ Honest(u)
        /\ known' = known /\ pc' = "walk"
    BY <1>c, <1>d, <1>e, <1>h DEF Unspent, Walking
  <2>2. Turns(u, A, r) /\ Cons(u) = Cons(w) \cup C
    BY <1>e, <2>1, FollowsTurns DEF RoundState
  <2>3. Ancestral(u) /\ Orderly(u)
    BY <1>e, <2>1, <2>2, TurnsKeep
  <2>4. Merging(u) /\ NoneForgotten(u)
    BY <1>a, <1>e, <2>1, <2>2, TurnsMerge
  <2> QED
    BY <1>b, <1>e, <2>1, <2>3, <2>4
<1> DEFINE none == {}
<1>f. /\ \A s \in none : RoundState(s, FALSE)
      /\ \A S : S = S \cup none
  OBVIOUS
<1>g. Followed => /\ UnderWay /\ Merging(w) /\ Orderly(w) /\ Spender \in Tx
  <2> SUFFICES ASSUME Followed PROVE UnderWay /\ Merging(w) /\ Orderly(w) /\ Spender \in Tx
    OBVIOUS
  <2>1. UnderWay /\ Orderly(w)
    BY <1>c, <1>d
  <2> QED
    BY <1>a, <2>1, RecordedStrays
<1>1. CASE Begin
  <2> DEFINE z == [NewWalk EXCEPT !.detected = {root}]
             v == AddTx(z, root)
             tx0 == EnqueueRoles(v, root, Tx0Ancestry, "high", 0)
             round == EnqueueRoles(v, root, RoundAncestry, "medium", 0)
             kind == Detection[root].kind
  <2>1. /\ w' = CASE kind = "tx0" -> tx0 [] kind = "whirlpool_round" -> round [] OTHER -> v
        /\ pc' = IF kind = "unknown" THEN "report" ELSE "walk"
        /\ known' = known
    BY <1>1 DEF Begin
  <2>2. /\ Fields \subseteq DOMAIN z
        /\ z.findings = << >> /\ z.found = << >> /\ z.frontier = << >> /\ z.seen = {}
        /\ \A o \in Outpoints : z.anc[o] = {}
    BY DEF NewWalk, Fields
  <2>3. Honest(v)
    BY <1>a, NewWalkHonest, AddTxHonest
  <2> HIDE DEF z
  <2>4. Grows(z, v) /\ v.found = z.found /\ v.anc = z.anc /\ v.findings = z.findings
    BY <2>2, AddTxGrows
  <2> HIDE DEF v
  <2>5. /\ Cons(v) = {} /\ v.frontier = << >> /\ v.seen = {} /\ DOMAIN v.found = {}
        /\ \A o \in Outpoints : v.anc[o] = {}
    BY <2>2, <2>4 DEF Grows, Cons
  <2>6. CASE kind = "unknown"
    <3>1. w' = v /\ pc' = "report"
      BY <2>1, <2>6
    <3>2. Merging(v) /\ NoneForgotten(v)
      BY <2>5 DEF Merging, NoneForgotten
    <3> QED
      BY <1>b, <2>1, <2>5, <3>1, <3>2
  <2>7. ASSUME NEW u, NEW A, Queues(v, u, A, 0, TRUE), w' = u, kind # "unknown",
               \A s \in A : RoundState(s, TRUE)
        PROVE  Joint'
    <3>1. Ancestral(u) /\ Orderly(u) /\ Merging(u) /\ NoneForgotten(u)
      BY <1>h, <2>5, <2>7, BeginMerges
    <3> QED
      BY <1>b, <2>1, <2>7, <3>1
  <2>8. CASE kind = "tx0"
    <3>1. w' = tx0
      BY <2>1, <2>8
    <3>2. Queues(v, tx0, RoleStates(v, root, Tx0Ancestry), 0, TRUE)
      BY <1>a, <2>3, EnqueueRolesQueues
    <3>3. \A s \in RoleStates(v, root, Tx0Ancestry) : RoundState(s, TRUE)
      BY <1>a, <2>8, RoleRounds
    <3> HIDE DEF tx0
    <3> QED
      BY <2>7, <2>8, <3>1, <3>2, <3>3
  <2>9. CASE kind = "whirlpool_round"
    <3>1. w' = round
      BY <2>1, <2>9
    <3>2. Queues(v, round, RoleStates(v, root, RoundAncestry), 0, TRUE)
      BY <1>a, <2>3, EnqueueRolesQueues
    <3>3. \A s \in RoleStates(v, root, RoundAncestry) : RoundState(s, TRUE)
      BY <1>a, <2>9, RoleRounds
    <3> HIDE DEF round
    <3> QED
      BY <2>7, <2>9, <3>1, <3>2, <3>3
  <2>10. kind = "unknown" \/ kind = "tx0" \/ kind = "whirlpool_round"
    BY <1>a, Verdict DEF IsTx0Verdict, IsRoundVerdict, IsUnknownVerdict
  <2> QED
    BY <2>6, <2>8, <2>9, <2>10
<1>2. CASE Repeat
  <2>1. Walking /\ ~New /\ w' = Popped /\ known' = known /\ pc' = "walk"
    BY <1>2 DEF Repeat, Walking
  <2>2. State(Item) \in w.seen
    BY <2>1 DEF New
  <2>3. /\ Popped.anc = w.anc /\ Popped.frontier = Tail(w.frontier)
        /\ Popped.found = w.found /\ Popped.seen = w.seen /\ Popped.cut = w.cut
        /\ Popped.findings = w.findings
    BY <1>a DEF Popped, Fields
  <2> HIDE DEF Popped, Item
  <2>4. Cons(Popped) = Cons(w) /\ Popped.seen = w.seen \cup {State(Item)}
    BY <2>2, <2>3 DEF Cons
  <2>5. Ancestral(Popped) /\ Orderly(Popped) /\ Merging(Popped) /\ NoneForgotten(Popped)
    BY <1>a, <1>c, <2>1, <2>3, <2>4, PoppedMerges
  <2> QED
    BY <1>b, <2>1, <2>5
<1>i. ASSUME NEW cause, Walking, w' = Cut(Visiting, cause), known' = known
      PROVE  Joint'
  <2>1. /\ Fields \subseteq DOMAIN Visiting
        /\ Visiting.anc = w.anc /\ Visiting.cut = w.cut /\ Visiting.findings = w.findings
        /\ Visiting.found = w.found /\ Visiting.frontier = Tail(w.frontier)
        /\ Visiting.seen = w.seen \cup {State(Item)}
    BY <1>a, <1>c, <1>i, VisitingStays
  <2> DEFINE u == Cut(Visiting, cause)
  <2> HIDE DEF Visiting, Item
  <2>2. Quiet(Visiting, u) /\ cause \in u.cut
    BY <2>1, CutQuiet
  <2> HIDE DEF u
  <2>3. /\ u.anc = w.anc /\ u.frontier = Tail(w.frontier) /\ u.found = w.found
        /\ u.seen = w.seen \cup {State(Item)} /\ Cons(u) = Cons(w) /\ w.cut \subseteq u.cut
        /\ u.cut # {}
    BY <2>1, <2>2 DEF Quiet, Still, Cons
  <2>4. Ancestral(u) /\ Orderly(u) /\ Merging(u) /\ NoneForgotten(u)
    BY <1>a, <1>c, <1>i, <2>3, PoppedMerges
  <2> QED
    BY <1>b, <1>i, <2>3, <2>4 DEF u
<1>3. CASE TooDeep
  BY <1>3, <1>i DEF TooDeep
<1>4. CASE OutOfLookups
  BY <1>4, <1>d, <1>i DEF OutOfLookups
<1>5. CASE Unspent
  <2> DEFINE u == Find(Status(Fetched, Item.out, "unspent"),
                       "unspent", Item.out[1], {Item.out}, Item.conf)
  <2>1. Walking /\ New /\ ~Spent /\ w' = u
    BY <1>5, <1>d DEF Unspent
  <2>2. Follows(u, u, none, FALSE) /\ Cons(u) = Cons(w)
    BY <1>c, <2>1, UnspentFollows
  <2>3. Gathers(none)
    BY <1>a, <1>c, <2>1, UnspentGathers
  <2> HIDE DEF u, none
  <2> QED
    BY <1>5, <1>e, <1>f, <2>1, <2>2, <2>3
<1>6. CASE OutOfTransactions
  <2> DEFINE c == Cut(Fetched, "transactions")
             u == [c EXCEPT !.detected = @ \cup {Spender}]
  <2>1. Walking /\ w' = u /\ pc' = "report" /\ known' = known
    BY <1>6, <1>d DEF OutOfTransactions
  <2>2. /\ Fields \subseteq DOMAIN Fetched /\ Fetched.anc = w.anc /\ Fetched.cut = w.cut
        /\ Fetched.findings = w.findings
    BY <1>c, <2>1, FetchedStays
  <2>3. Quiet(Fetched, c) /\ "transactions" \in c.cut
    BY <2>2, CutQuiet
  <2> HIDE DEF c
  <2>4. Quiet(c, u)
    BY <2>3, DetectedQuiet DEF Quiet, Still
  <2> HIDE DEF u
  <2>5. u.anc = w.anc /\ Cons(u) = Cons(w) /\ w.cut \subseteq u.cut /\ u.cut # {}
    BY <2>2, <2>3, <2>4 DEF Quiet, Still, Cons
  <2>6. Merging(u) /\ NoneForgotten(u)
    BY <1>a, <2>5, StillMerges
  <2> QED
    BY <1>b, <2>1, <2>5, <2>6
<1>7. CASE LastSpend
  <2>1. Followed /\ ~Item.recursive /\ w' = Recorded
    BY <1>7 DEF LastSpend
  <2>2. Follows(Recorded, Recorded, none, FALSE) /\ Cons(Recorded) = Cons(w)
    BY <1>g, <2>1, LastFollows
  <2>3. Gathers(none)
    BY <1>g, <2>1, OthersGather
  <2> HIDE DEF Recorded, none
  <2> QED
    BY <1>e, <1>f, <2>1, <2>2, <2>3
<1>8. CASE EnterRound
  <2> DEFINE u == FollowRound(Recorded, Item, Spender, Item.depth + 1)
  <2>1. Followed /\ w' = u /\ Detection[Spender].kind = "whirlpool_round"
    BY <1>8 DEF EnterRound, Becomes
  <2>2. Follows(u, Recorded, RoundStates(Recorded, Spender), TRUE) /\ Cons(Recorded) = Cons(w)
    BY <1>g, <2>1, RoundFollows
  <2>3. \A s \in RoundStates(Recorded, Spender) : RoundState(s, TRUE)
    BY <1>g, <2>1, RoleRounds
  <2>4. Gathers(none)
    BY <1>g, <2>1, OthersGather
  <2> HIDE DEF u, none
  <2> QED
    BY <1>e, <1>f, <2>1, <2>2, <2>3, <2>4
<1>9. CASE EnterTx0
  <2> DEFINE x == WithLaterTx0(Recorded, Item, Spender)
             u == EnqueueRoles(x, Spender, Tx0Ancestry, "high", Item.depth + 1)
  <2>1. Followed /\ w' = u /\ Detection[Spender].kind = "tx0"
    BY <1>9 DEF EnterTx0, Becomes
  <2>2. Follows(u, x, RoleStates(x, Spender, Tx0Ancestry), TRUE) /\ Cons(x) = Cons(w)
    BY <1>g, <2>1, Tx0Follows
  <2>3. \A s \in RoleStates(x, Spender, Tx0Ancestry) : RoundState(s, TRUE)
    BY <1>g, <2>1, RoleRounds
  <2>4. Gathers(none)
    BY <1>g, <2>1, OthersGather
  <2> HIDE DEF u, x, none
  <2> QED
    BY <1>e, <1>f, <2>1, <2>2, <2>3, <2>4
<1>10. CASE OrdinarySpend
  <2> DEFINE u == FollowOrdinary(Recorded, Spender, Item.depth + 1)
  <2>1. Followed /\ w' = u /\ Detection[Spender].kind = "unknown"
    BY <1>10 DEF OrdinarySpend, Becomes
  <2>2. PICK x, taken : /\ Follows(u, x, PaymentStates(x, Spender, taken), FALSE)
                        /\ Cons(x) = Cons(w) \cup NewCons(Spender)
    BY <1>g, <2>1, OrdinaryFollows
  <2>3. \A s \in PaymentStates(x, Spender, taken) : RoundState(s, FALSE)
    BY <1>g, <2>1, RoleRounds
  <2>4. Gathers(NewCons(Spender))
    BY <1>g, <2>1, OrdinaryGathers
  <2> HIDE DEF u
  <2> QED
    BY <1>e, <2>1, <2>2, <2>3, <2>4
<1>11. CASE Drained \/ Fails \/ Finished \/ UNCHANGED vars
  <2>1. /\ w' = w /\ known' = known
        /\ pc' = "walk" => pc = "walk"
        /\ pc' \in {"report", "done"} => pc \in {"report", "done"} \/ w.frontier = << >>
    BY <1>11 DEF Drained, Fails, Finished, vars
  <2> QED
    BY <1>a, <1>b, <2>1
<1>12. CASE Report
  <2> DEFINE u == WithReuse(w)
  <2>1. w' = u /\ pc' = "done" /\ known' = known /\ pc = "report"
    BY <1>12 DEF Report
  <2>2. Quiet(w, u)
    BY <1>a, ReuseQuiet
  <2> HIDE DEF u
  <2>3. /\ u.anc = w.anc /\ Cons(u) = Cons(w) /\ w.cut \subseteq u.cut
        /\ u.seen = w.seen /\ u.frontier = w.frontier
    BY <2>2 DEF Quiet, Still
  <2>4. Merging(u) /\ NoneForgotten(u)
    BY <1>a, <2>3, StillMerges
  <2>5. u.cut = {} => u.frontier = << >>
    BY <1>a, <2>1, <2>3
  <2> QED
    BY <1>b, <2>1, <2>4, <2>5
<1>13. CASE NodeLearns
  <2>1. w' = w /\ pc' = pc /\ known \subseteq known'
    BY <1>13 DEF NodeLearns
  <2> QED
    BY <1>a, <1>b, <2>1
<1> QED
  BY <1>1, <1>2, <1>3, <1>4, <1>5, <1>6, <1>7, <1>8, <1>9, <1>10, <1>11, <1>12, <1>13
     DEF Next, Step

(* A spend of possible postmix outputs is analysed again when one more of   *)
(* its inputs becomes tracked: of two consolidations reported of one spend  *)
(* one names all the inputs of the other, and a walk that no limit cut      *)
(* short ends with one that names every input tracked                       *)
(* (_follow_ordinary_spend, _add_finding).                                  *)
THEOREM ConsolidationsDoGrow == Spec => []ConsolidationsGrow
<1>1. JInv => ConsolidationsGrow
  <2> SUFFICES ASSUME JInv PROVE ConsolidationsGrow
    OBVIOUS
  <2>1. Findings("postmix_consolidation") = Cons(w)
    BY DEF Findings, Cons
  <2>2. /\ \A f \in Cons(w) : f.at \subseteq TrackedPostmix(w, f.tx)
        /\ \A f, g \in Cons(w) : f.tx = g.tx => f.at \subseteq g.at \/ g.at \subseteq f.at
    BY DEF JInv, Joint, Merging
  <2>3. ASSUME pc = "done", w.cut = {}, NEW f \in Cons(w)
        PROVE  \E g \in Cons(w) : g.tx = f.tx /\ g.at = TrackedPostmix(w, f.tx)
    <3>1. w.frontier = << >>
      BY <2>3 DEF JInv, Joint
    <3>2. \A x : ~Waits(w, x)
      BY <3>1 DEF Waits
    <3>3. PICK g \in Cons(w) :
             g.tx = f.tx /\ \A x \in TrackedPostmix(w, f.tx) \ g.at : Waits(w, x)
      BY <2>3 DEF JInv, Joint, NoneForgotten
    <3> QED
      BY <2>2, <3>2, <3>3
  <2> QED
    BY <2>1, <2>2, <2>3 DEF ConsolidationsGrow
<1> QED
  BY <1>1, InitJoint, NextJoint, PTL DEF Spec
-----------------------------------------------------------------------------
(* Nearest first.  The queue holds what is one spend further behind what is *)
(* nearer, so that the first visit of a state is its nearest.               *)

\* The frontier is in the order of depth, over two depths at most, and the
\* outputs of rounds and Tx0s are followed recursively.
Layered(v) ==
    /\ \A j, k \in DOMAIN v.frontier :
          /\ j < k => v.frontier[j].depth <= v.frontier[k].depth
          /\ v.frontier[k].depth <= v.frontier[j].depth + 1
    /\ \A k \in DOMAIN v.frontier :
          Kind(v.frontier[k].out) # "unknown" => v.frontier[k].recursive

\* The state s was visited, or waits, at the depth d or nearer; D is the depth
\* of each visit.
DueBy(v, D, s, d) ==
    \/ s \in v.seen /\ D[s] <= d
    \/ \E k \in DOMAIN v.frontier : State(v.frontier[k]) = s /\ v.frontier[k].depth <= d

\* A visited state above the limit was looked up, and what its spend hands on
\* is due one spend further.
Expanded(v, D, s) ==
    Kind(s[1]) # "unknown" /\ D[s] < limits.depth =>
        /\ s[1] \in DOMAIN v.found
        /\ \A t \in v.found[s[1]] :
              t \in v.nodes /\ \A y \in HandedOn(t) : DueBy(v, D, y, D[s] + 1)

Depths(v, D) ==
    /\ \A s \in v.seen : D[s] \in Int
    /\ \A s \in v.seen : \A k \in DOMAIN v.frontier : D[s] <= v.frontier[k].depth
    /\ \A s \in HandedOn(root) : DueBy(v, D, s, 0)
    /\ \A s \in v.seen : Expanded(v, D, s)

Spread(v) == v.cut \subseteq {"depth"} => \E D : Depths(v, D)

\* The visit of the item, or its repetition, leaves everything due.
LEMMA DepthsStay ==
    ASSUME UnderWay, w.frontier # << >>, NEW D, Depths(w, D), Layered(w), NEW u,
           u.seen = w.seen \cup {State(Item)},
           \A k \in DOMAIN u.frontier :
              \/ \E j \in DOMAIN w.frontier : u.frontier[k] = w.frontier[j]
              \/ u.frontier[k].depth = Item.depth + 1,
           \A j \in DOMAIN w.frontier : j # 1 =>
              \E k \in DOMAIN u.frontier : u.frontier[k] = w.frontier[j],
           Keeps(w, u), w.nodes \subseteq u.nodes,
           New /\ Kind(Item.out) # "unknown" /\ Item.depth < limits.depth =>
              /\ Item.out \in DOMAIN u.found
              /\ \A t \in u.found[Item.out] :
                    /\ t \in u.nodes
                    /\ \A y \in HandedOn(t) : \E k \in DOMAIN u.frontier :
                          State(u.frontier[k]) = y /\ u.frontier[k].depth = Item.depth + 1
    PROVE  \E E : Depths(u, E)
<1> DEFINE old == w.frontier
           new == u.frontier
           here == State(Item)
           d == Item.depth
           E == [s \in u.seen |-> IF s \in w.seen THEN D[s] ELSE d]
<1>1. /\ Item = old[1] /\ 1 \in DOMAIN old /\ Item.depth \in Int
      /\ \A k \in DOMAIN old : old[k].depth \in Int
  <2>1. Honest(w) /\ old \in Seq(Items(DOMAIN w.outs))
    BY DEF UnderWay, Honest, Placed
  <2>2. \A k \in DOMAIN old : old[k] \in Items(DOMAIN w.outs)
    BY <2>1
  <2>3. \A x \in Items(DOMAIN w.outs) : x.depth \in Int
    BY DEF Items
  <2> QED
    BY <2>1, <2>2, <2>3, ItemIsFirst, ItemFacts
<1>2. /\ \A k \in DOMAIN old : d <= old[k].depth
      /\ \A s \in w.seen : D[s] \in Int /\ D[s] <= d
  <2>1. ASSUME NEW k \in DOMAIN old PROVE d <= old[k].depth
    <3>1. CASE k = 1
      BY <1>1, <3>1
    <3>2. CASE k # 1
      <4>1. k \in Nat /\ 1 < k
        <5>1. old \in Seq(Items(DOMAIN w.outs))
          BY DEF UnderWay, Honest, Placed
        <5> HIDE DEF old
        <5> QED
          BY <3>2, <5>1
      <4> QED
        BY <1>1, <4>1 DEF Layered
    <3> QED
      BY <3>1, <3>2
  <2> QED
    BY <1>1, <2>1 DEF Depths
<1>3. /\ \A s \in w.seen : s \in u.seen /\ E[s] = D[s]
      /\ here \in u.seen /\ (here \notin w.seen => E[here] = d)
      /\ \A s \in u.seen : s \in w.seen \/ s = here
  OBVIOUS
<1>4. d \in Int
  BY <1>1
<1> HIDE DEF E, here, d, old, new
<1>5. /\ \A s \in u.seen : E[s] \in Int /\ E[s] <= d
      /\ E[here] <= d
  BY <1>2, <1>3, <1>4
<1>6. \A s \in u.seen : \A k \in DOMAIN new : E[s] <= new[k].depth
  <2> SUFFICES ASSUME NEW s \in u.seen, NEW k \in DOMAIN new PROVE E[s] <= new[k].depth
    OBVIOUS
  <2>1. E[s] \in Int /\ E[s] <= d
    BY <1>5
  <2>2. CASE new[k].depth = d + 1
    BY <1>4, <2>1, <2>2
  <2>3. CASE \E j \in DOMAIN old : new[k] = old[j]
    BY <1>1, <1>2, <1>4, <2>1, <2>3
  <2> QED
    BY <2>2, <2>3 DEF new, old, d
<1>7. ASSUME NEW s, NEW b \in Int, DueBy(w, D, s, b) PROVE DueBy(u, E, s, b)
  <2>1. CASE s \in w.seen /\ D[s] <= b
    BY <1>3, <2>1 DEF DueBy
  <2>2. ASSUME NEW k \in DOMAIN old, State(old[k]) = s, old[k].depth <= b
        PROVE  DueBy(u, E, s, b)
    <3>1. CASE k = 1
      <4>1. s = here /\ d <= b
        BY <1>1, <2>2, <3>1 DEF here, d
      <4> QED
        BY <1>3, <1>4, <1>5, <4>1 DEF DueBy
    <3>2. CASE k # 1
      <4>1. PICK j \in DOMAIN new : new[j] = old[k]
        BY <3>2 DEF new, old
      <4> QED
        BY <2>2, <4>1 DEF DueBy, new
    <3> QED
      BY <3>1, <3>2
  <2> QED
    BY <1>7, <2>1, <2>2 DEF DueBy, old
<1>8. \A s \in HandedOn(root) : DueBy(u, E, s, 0)
  BY <1>7 DEF Depths
<1>9. ASSUME NEW s \in u.seen PROVE Expanded(u, E, s)
  <2> SUFFICES ASSUME Kind(s[1]) # "unknown", E[s] < limits.depth
               PROVE  /\ s[1] \in DOMAIN u.found
                      /\ \A t \in u.found[s[1]] :
                            t \in u.nodes /\ \A y \in HandedOn(t) : DueBy(u, E, y, E[s] + 1)
    BY DEF Expanded
  <2>1. CASE s \in w.seen
    <3>1. D[s] = E[s] /\ E[s] + 1 \in Int
      BY <1>2, <1>3, <2>1
    <3>2. /\ s[1] \in DOMAIN w.found
          /\ \A t \in w.found[s[1]] :
                t \in w.nodes /\ \A y \in HandedOn(t) : DueBy(w, D, y, D[s] + 1)
      BY <2>1, <3>1 DEF Depths, Expanded
    <3>3. s[1] \in DOMAIN u.found /\ u.found[s[1]] = w.found[s[1]]
      BY <3>2 DEF Keeps
    <3> QED
      BY <1>7, <3>1, <3>2, <3>3
  <2>2. CASE s \notin w.seen
    <3>1. s = here /\ E[s] = d /\ s[1] = Item.out /\ New
      BY <1>3, <2>2 DEF here, State, New
    <3>2. d < limits.depth /\ Kind(Item.out) # "unknown"
      BY <3>1
    <3>3. /\ Item.out \in DOMAIN u.found
          /\ \A t \in u.found[Item.out] :
                /\ t \in u.nodes
                /\ \A y \in HandedOn(t) : \E k \in DOMAIN new :
                      State(new[k]) = y /\ new[k].depth = d + 1
      BY <3>1, <3>2 DEF d, new
    <3>4. ASSUME NEW t \in u.found[Item.out], NEW y \in HandedOn(t)
          PROVE  DueBy(u, E, y, d + 1)
      <4>1. PICK k \in DOMAIN new : State(new[k]) = y /\ new[k].depth = d + 1
        BY <3>3, <3>4
      <4>2. new[k].depth <= d + 1
        BY <1>4, <4>1
      <4> QED
        BY <4>1, <4>2 DEF DueBy, new
    <3> QED
      BY <3>1, <3>3, <3>4
  <2> QED
    BY <2>1, <2>2
<1> QED
  BY <1>5, <1>6, <1>8, <1>9 DEF Depths, new
\* The frontier stays in order when its first item is taken off and others of
\* the next depth join behind.
LEMMA LayeredStays ==
    ASSUME UnderWay, w.frontier # << >>, Layered(w), NEW u, NEW n \in Int,
           \A k \in DOMAIN u.frontier :
              /\ k \in Int
              /\ \/ k <= n /\ k + 1 \in DOMAIN w.frontier /\ u.frontier[k] = w.frontier[k + 1]
                 \/ /\ k > n /\ u.frontier[k].depth = Item.depth + 1
                    /\ Kind(u.frontier[k].out) # "unknown" => u.frontier[k].recursive
    PROVE  Layered(u)
<1> DEFINE old == w.frontier
           new == u.frontier
           d == Item.depth
<1>1. /\ old[1].depth = d /\ 1 \in DOMAIN old /\ d \in Int
      /\ \A k \in DOMAIN old : k \in Int /\ k >= 1 /\ old[k].depth \in Int
  <2>1. Honest(w) /\ old \in Seq(Items(DOMAIN w.outs))
    BY DEF UnderWay, Honest, Placed
  <2>2. \A k \in DOMAIN old : k \in Int /\ k >= 1 /\ old[k] \in Items(DOMAIN w.outs)
    <3> HIDE DEF old
    <3> QED
      BY <2>1
  <2>3. \A x \in Items(DOMAIN w.outs) : x.depth \in Int
    BY DEF Items
  <2>4. Item = old[1] /\ 1 \in DOMAIN old
    BY <2>1, ItemIsFirst
  <2> QED
    BY <2>2, <2>3, <2>4
<1>2. /\ \A j, k \in DOMAIN old :
            /\ j < k => old[j].depth <= old[k].depth
            /\ old[k].depth <= old[j].depth + 1
      /\ \A k \in DOMAIN old : Kind(old[k].out) # "unknown" => old[k].recursive
  BY DEF Layered
<1>3. \A k \in DOMAIN new :
         /\ k \in Int
         /\ \/ k <= n /\ k + 1 \in DOMAIN old /\ new[k] = old[k + 1]
            \/ /\ k > n /\ new[k].depth = d + 1
               /\ Kind(new[k].out) # "unknown" => new[k].recursive
  OBVIOUS
<1> HIDE DEF old, new, d
<1>4. \A k \in DOMAIN old : d <= old[k].depth /\ old[k].depth <= d + 1
  <2> SUFFICES ASSUME NEW k \in DOMAIN old PROVE d <= old[k].depth /\ old[k].depth <= d + 1
    OBVIOUS
  <2>1. CASE k = 1
    BY <1>1, <2>1
  <2>2. CASE k # 1
    BY <1>1, <1>2, <2>2
  <2> QED
    BY <2>1, <2>2
<1>5. ASSUME NEW k \in DOMAIN new
      PROVE  /\ new[k].depth \in Int /\ d <= new[k].depth /\ new[k].depth <= d + 1
             /\ Kind(new[k].out) # "unknown" => new[k].recursive
  BY <1>1, <1>2, <1>3, <1>4
<1>6. ASSUME NEW j \in DOMAIN new, NEW k \in DOMAIN new
      PROVE  /\ j < k => new[j].depth <= new[k].depth
             /\ new[k].depth <= new[j].depth + 1
  <2>1. new[k].depth <= new[j].depth + 1
    BY <1>1, <1>5
  <2>2. ASSUME j < k PROVE new[j].depth <= new[k].depth
    <3>1. CASE k > n /\ new[k].depth = d + 1
      BY <1>1, <1>5, <3>1
    <3>2. CASE k <= n /\ k + 1 \in DOMAIN old /\ new[k] = old[k + 1]
      <4>1. j <= n /\ j + 1 \in DOMAIN old /\ new[j] = old[j + 1]
        BY <1>3, <2>2, <3>2
      <4>2. j + 1 < k + 1
        BY <1>3, <2>2
      <4> QED
        BY <1>2, <3>2, <4>1, <4>2
    <3> QED
      BY <1>3, <3>1, <3>2
  <2> QED
    BY <2>1, <2>2
<1> QED
  BY <1>5, <1>6 DEF Layered, new

\* The frontier after a step that follows the item, place by place.
LEMMA FollowsInOrder ==
    ASSUME UnderWay, w.frontier # << >>, NEW u, NEW x, NEW A, NEW r, Follows(u, x, A, r),
           Honest(u)
    PROVE  LET n == Len(Tail(w.frontier))
           IN  /\ n \in Int
               /\ \A k \in DOMAIN u.frontier :
                     /\ k \in Int
                     /\ \/ /\ k <= n /\ k + 1 \in DOMAIN w.frontier
                           /\ u.frontier[k] = w.frontier[k + 1]
                        \/ /\ k > n /\ State(u.frontier[k]) \in A
                           /\ u.frontier[k].depth = Item.depth + 1
                           /\ u.frontier[k].recursive = r
               /\ \A j \in DOMAIN w.frontier : j # 1 =>
                     \E k \in DOMAIN u.frontier : u.frontier[k] = w.frontier[j]
               /\ \A s \in A : \E k \in DOMAIN u.frontier :
                     State(u.frontier[k]) = s /\ u.frontier[k].depth = Item.depth + 1
<1> DEFINE new == u.frontier
           rest == Tail(w.frontier)
           n == Len(rest)
           d == Item.depth + 1
<1>1. x.frontier = rest /\ Queues(x, u, A, d, r)
  BY FetchedStays DEF Follows, Strays, Grows
<1>2. /\ \A k \in 1 .. n : new[k] = rest[k]
      /\ n <= Len(new)
      /\ \A k \in DOMAIN new : k > n =>
            State(new[k]) \in A /\ new[k].depth = d /\ new[k].recursive = r
      /\ \A s \in A : \E k \in DOMAIN new : k > n /\ State(new[k]) = s
  BY <1>1 DEF Queues, Queued1
<1>3. new \in Seq(Items(DOMAIN u.outs)) /\ rest \in Seq(Items(DOMAIN w.outs))
  <2>1. x.frontier \in Seq(Items(DOMAIN w.outs))
    BY <1>1, TailApt
  <2>2. u.frontier \in Seq(Items(DOMAIN u.outs))
    BY DEF Honest, Placed
  <2> QED
    BY <1>1, <2>1, <2>2
<1>4. /\ DOMAIN new = 1 .. Len(new) /\ Len(new) \in Nat
      /\ DOMAIN rest = 1 .. n /\ n \in Nat
  BY <1>3
<1>5. /\ \A k \in DOMAIN w.frontier : k # 1 =>
            k - 1 \in DOMAIN rest /\ rest[k - 1] = w.frontier[k]
      /\ \A k \in DOMAIN rest : k + 1 \in DOMAIN w.frontier /\ rest[k] = w.frontier[k + 1]
  BY ItemIsFirst DEF UnderWay
<1> HIDE DEF new, rest, n, d
<1>6. ASSUME NEW k \in DOMAIN new
      PROVE  /\ k \in Int
             /\ \/ k <= n /\ k + 1 \in DOMAIN w.frontier /\ new[k] = w.frontier[k + 1]
                \/ k > n /\ State(new[k]) \in A /\ new[k].depth = d /\ new[k].recursive = r
  <2>1. CASE k <= n
    <3>1. k \in DOMAIN rest /\ new[k] = rest[k]
      BY <1>2, <1>4, <2>1
    <3> QED
      BY <1>4, <1>5, <2>1, <3>1
  <2>2. CASE k > n
    BY <1>2, <1>4, <2>2
  <2> QED
    BY <1>4, <2>1, <2>2
<1>7. ASSUME NEW j \in DOMAIN w.frontier, j # 1
      PROVE  \E k \in DOMAIN new : new[k] = w.frontier[j]
  <2>1. j - 1 \in DOMAIN rest /\ rest[j - 1] = w.frontier[j]
    BY <1>5, <1>7
  <2>2. j - 1 \in DOMAIN new /\ new[j - 1] = rest[j - 1]
    BY <1>2, <1>4, <2>1
  <2> QED
    BY <2>1, <2>2
<1>8. \A s \in A : \E k \in DOMAIN new : State(new[k]) = s /\ new[k].depth = d
  BY <1>2
<1> QED
  BY <1>4, <1>6, <1>7, <1>8 DEF new, n, rest, d

\* What a transaction hands on joins the frontier if all its outputs have
\* nodes.
LEMMA HandedJoins ==
    ASSUME NEW v, NEW t, t \in v.nodes, Complete(v), "outputs" \notin v.cut
    PROVE  /\ Detection[t].kind = "whirlpool_round" =>
                 /\ HandedOn(t) \subseteq RoleStates(v, t, RoundAncestry)
                 /\ HandedOn(t) \subseteq RoundStates(v, t)
           /\ Detection[t].kind = "tx0" => HandedOn(t) \subseteq RoleStates(v, t, Tx0Ancestry)
<1>1. WithNode(v, t) = OutsOf(Body[t])
  BY DEF Complete, WithNode
<1>2. \A ancestry : Handed(t, ancestry) = RoleStates(v, t, ancestry)
  BY <1>1 DEF Handed, RoleStates
<1>3. Handed(t, RoundAncestry) \subseteq RoundStates(v, t)
  BY <1>1 DEF Handed, RoundStates, RoundAncestry
<1> QED
  BY <1>2, <1>3 DEF HandedOn
\* A step that follows the item, when what its spend hands on joins.
LEMMA FollowsSpread ==
    ASSUME UnderWay, w.frontier # << >>, Layered(w), Spread(w), Complete(w),
           NEW u, NEW x, NEW A, NEW r, Follows(u, x, A, r), Honest(u),
           \A s \in A : Kind(s[1]) # "unknown" => r,
           Kind(Item.out) # "unknown" /\ Complete(x) /\ "outputs" \notin x.cut =>
              \A t \in x.found[Item.out] : HandedOn(t) \subseteq A
    PROVE  Layered(u) /\ Spread(u) /\ Complete(u)
<1> DEFINE new == u.frontier
           n == Len(Tail(w.frontier))
<1>1. /\ n \in Int
      /\ \A k \in DOMAIN new :
            /\ k \in Int
            /\ \/ k <= n /\ k + 1 \in DOMAIN w.frontier /\ new[k] = w.frontier[k + 1]
               \/ /\ k > n /\ State(new[k]) \in A
                  /\ new[k].depth = Item.depth + 1 /\ new[k].recursive = r
      /\ \A j \in DOMAIN w.frontier : j # 1 => \E k \in DOMAIN new : new[k] = w.frontier[j]
      /\ \A s \in A : \E k \in DOMAIN new :
            State(new[k]) = s /\ new[k].depth = Item.depth + 1
  BY FollowsInOrder
<1>2. /\ Fetched.nodes = w.nodes /\ Fetched.outs = w.outs /\ Fetched.cut = w.cut
      /\ Fetched.seen = w.seen \cup {State(Item)} /\ Keeps(w, Fetched)
      /\ DOMAIN Fetched.found = DOMAIN w.found \cup {Item.out}
  BY FetchedStays
<1>3. /\ x.found[Item.out] \subseteq x.nodes
      /\ Fetched.nodes \subseteq x.nodes /\ Fetched.cut \subseteq x.cut
      /\ x.seen = Fetched.seen /\ Keeps(Fetched, x)
      /\ Complete(Fetched) => Complete(x)
  BY DEF Follows, Strays, Grows
<1>4. /\ u.nodes = x.nodes /\ DOMAIN u.outs = DOMAIN x.outs /\ u.found = x.found
      /\ u.seen = x.seen /\ x.cut \subseteq u.cut
  BY DEF Follows, Queues
<1> HIDE DEF Fetched, Item, State, new, n
<1>5. /\ w.nodes \subseteq u.nodes /\ w.cut \subseteq u.cut /\ u.seen = w.seen \cup {State(Item)}
      /\ Keeps(w, u) /\ Item.out \in DOMAIN u.found /\ u.found[Item.out] \subseteq u.nodes
  BY <1>2, <1>3, <1>4 DEF Keeps
<1>6. Complete(x) /\ Complete(u)
  <2>1. Complete(Fetched)
    BY <1>2 DEF Complete
  <2>2. Complete(x)
    BY <1>3, <2>1
  <2> QED
    BY <1>4, <2>2 DEF Complete
<1>7. Layered(u)
  <2>1. \A k \in DOMAIN new :
           /\ k \in Int
           /\ \/ k <= n /\ k + 1 \in DOMAIN w.frontier /\ new[k] = w.frontier[k + 1]
              \/ /\ k > n /\ new[k].depth = Item.depth + 1
                 /\ Kind(new[k].out) # "unknown" => new[k].recursive
    <3>1. \A k : State(new[k])[1] = new[k].out
      BY DEF State
    <3> QED
      BY <1>1, <3>1
  <2> QED
    BY <1>1, <2>1, LayeredStays DEF new
<1>8. ASSUME u.cut \subseteq {"depth"} PROVE \E E : Depths(u, E)
  <2>1. w.cut \subseteq {"depth"} /\ "outputs" \notin x.cut
    BY <1>4, <1>5, <1>8
  <2>2. PICK D : Depths(w, D)
    BY <2>1 DEF Spread
  <2>3. ASSUME Kind(Item.out) # "unknown", NEW t \in u.found[Item.out], NEW y \in HandedOn(t)
        PROVE  \E k \in DOMAIN new : State(new[k]) = y /\ new[k].depth = Item.depth + 1
    <3>1. y \in A
      BY <1>4, <1>6, <2>1, <2>3
    <3> QED
      BY <1>1, <3>1
  <2>4. \A k \in DOMAIN new :
           \/ \E j \in DOMAIN w.frontier : new[k] = w.frontier[j]
           \/ new[k].depth = Item.depth + 1
    BY <1>1
  <2>5. /\ Item.out \in DOMAIN u.found
        /\ Kind(Item.out) # "unknown" => \A t \in u.found[Item.out] :
              /\ t \in u.nodes
              /\ \A y \in HandedOn(t) : \E k \in DOMAIN new :
                    State(new[k]) = y /\ new[k].depth = Item.depth + 1
    BY <1>5, <2>3
  <2> QED
    BY <1>1, <1>5, <2>2, <2>4, <2>5, DepthsStay DEF new
<1> QED
  BY <1>6, <1>7, <1>8 DEF Spread

\* The item is taken off and nothing comes of it: it was visited before, it
\* is too deep, or a limit is met.
LEMMA PoppedSpread ==
    ASSUME UnderWay, w.frontier # << >>, Layered(w), Spread(w), Complete(w),
           NEW u, u.frontier = Tail(w.frontier), u.found = w.found, u.nodes = w.nodes,
           DOMAIN u.outs = DOMAIN w.outs, u.seen = w.seen \cup {State(Item)},
           w.cut \subseteq u.cut,
           ~New \/ Item.depth >= limits.depth \/ ~(u.cut \subseteq {"depth"})
    PROVE  Layered(u) /\ Spread(u) /\ Complete(u)
<1> DEFINE old == w.frontier
           rest == Tail(w.frontier)
           n == Len(rest)
<1>1. /\ \A k \in DOMAIN old : k # 1 => k - 1 \in DOMAIN rest /\ rest[k - 1] = old[k]
      /\ \A k \in DOMAIN rest : k + 1 \in DOMAIN old /\ rest[k] = old[k + 1]
  BY ItemIsFirst DEF UnderWay
<1>2. rest \in Seq(Items(DOMAIN w.outs))
  BY TailApt
<1>3. n \in Int /\ \A k \in DOMAIN rest : k \in Int /\ k <= n
  <2> HIDE DEF rest
  <2> QED
    BY <1>2
<1>4. limits.depth \in Int /\ Item.depth \in Int
  BY ItemFacts DEF UnderWay, Positive
<1> HIDE DEF old, rest, n, Item, State
<1>5. Layered(u)
  <2>1. \A k \in DOMAIN rest : k \in Int /\ k <= n /\ k + 1 \in DOMAIN old /\ rest[k] = old[k + 1]
    BY <1>1, <1>3
  <2> QED
    BY <1>3, <2>1, LayeredStays DEF old, rest
<1>6. Complete(u)
  BY DEF Complete
<1>7. ASSUME u.cut \subseteq {"depth"} PROVE \E E : Depths(u, E)
  <2>1. PICK D : Depths(w, D)
    BY <1>7 DEF Spread
  <2>2. ~(New /\ Kind(Item.out) # "unknown" /\ Item.depth < limits.depth)
    BY <1>4, <1>7
  <2>3. /\ \A k \in DOMAIN u.frontier : \E j \in DOMAIN w.frontier :
              u.frontier[k] = w.frontier[j]
        /\ \A j \in DOMAIN w.frontier : j # 1 =>
              \E k \in DOMAIN u.frontier : u.frontier[k] = w.frontier[j]
    BY <1>1 DEF old, rest
  <2>4. Keeps(w, u)
    BY DEF Keeps
  <2> QED
    BY <2>1, <2>2, <2>3, <2>4, DepthsStay
<1> QED
  BY <1>5, <1>6, <1>7 DEF Spread
\* What is at most one spend away: the states S themselves and what their
\* spends hand on.
Beyond(S) == S \cup UNION {HandedOn(t) : t \in UNION {SpendersFound(s[1]) : s \in S}}

Onto(s) == {s} \cup UNION {HandedOn(t) : t \in SpendersFound(s[1])}

LEMMA OntoBeyond ==
    ASSUME NEW S, NEW y PROVE y \in Beyond(S) <=> \E s \in S : y \in Onto(s)
<1>1. ASSUME NEW s \in S, y \in Onto(s) PROVE y \in Beyond(S)
  <2>1. CASE y = s
    BY <2>1 DEF Beyond
  <2>2. ASSUME NEW t \in SpendersFound(s[1]), y \in HandedOn(t) PROVE y \in Beyond(S)
    <3>1. t \in UNION {SpendersFound(z[1]) : z \in S}
      BY <2>2
    <3> QED
      BY <2>2, <3>1 DEF Beyond
  <2> QED
    BY <1>1, <2>1, <2>2 DEF Onto
<1>2. ASSUME y \in Beyond(S) PROVE \E s \in S : y \in Onto(s)
  <2>1. CASE y \in S
    BY <2>1 DEF Onto
  <2>2. ASSUME NEW t \in UNION {SpendersFound(z[1]) : z \in S}, y \in HandedOn(t)
        PROVE  \E s \in S : y \in Onto(s)
    <3>1. PICK s \in S : t \in SpendersFound(s[1])
      BY <2>2
    <3>2. y \in Onto(s)
      BY <2>2, <3>1 DEF Onto
    <3> QED
      BY <3>2
  <2> QED
    BY <1>2, <2>1, <2>2 DEF Beyond
<1> QED
  BY <1>1, <1>2

\* Within is what its recursion says: the sets of pairs closed under a spend
\* have a least one, and its levels solve the recursion.
LEMMA WithinStep ==
    /\ Within[0] = HandedOn(root)
    /\ \A n \in Nat : n # 0 => Within[n] = Beyond(Within[n - 1])
<1> DEFINE first == HandedOn(root)
           all == first \cup UNION {HandedOn(t) : t \in UNION {w.found[o] : o \in DOMAIN w.found}}
           Closed(C) ==
              /\ \A s \in first : <<0, s>> \in C
              /\ \A n \in Nat : \A s \in all : <<n, s>> \in C =>
                    \A y \in Onto(s) : <<n + 1, y>> \in C
           least == {p \in Nat \X all : \A C \in SUBSET (Nat \X all) : Closed(C) => p \in C}
           level(n) == {s \in all : <<n, s>> \in least}
           step(f) == [n \in Nat |-> IF n = 0 THEN first ELSE Beyond(f[n - 1])]
           solution == [n \in Nat |-> level(n)]
<1>1. first \subseteq all /\ \A s \in all : Onto(s) \subseteq all
  <2> SUFFICES ASSUME NEW s \in all, NEW t \in SpendersFound(s[1]), NEW y \in HandedOn(t)
               PROVE  y \in all
    BY DEF Onto
  <2>1. PICK o \in DOMAIN w.found : t \in w.found[o]
    BY DEF SpendersFound
  <2> QED
    BY <2>1
<1> HIDE DEF all, first
<1>2. Closed(least)
  <2>1. ASSUME NEW s \in first PROVE <<0, s>> \in least
    BY <1>1
  <2>2. ASSUME NEW n \in Nat, NEW s \in all, <<n, s>> \in least, NEW y \in Onto(s)
        PROVE  <<n + 1, y>> \in least
    <3>1. <<n + 1, y>> \in Nat \X all
      BY <1>1
    <3>2. ASSUME NEW C \in SUBSET (Nat \X all), Closed(C) PROVE <<n + 1, y>> \in C
      <4>1. <<n, s>> \in C
        BY <2>2, <3>2
      <4> QED
        BY <3>2, <4>1
    <3> HIDE DEF Closed
    <3> QED
      BY <3>1, <3>2
  <2> HIDE DEF least
  <2> QED
    BY <2>1, <2>2
<1>3. ASSUME NEW C \in SUBSET (Nat \X all), Closed(C) PROVE least \subseteq C
  BY <1>3
<1>4. least \subseteq Nat \X all
  OBVIOUS
<1> HIDE DEF least
<1>5. level(0) = first
  <2> DEFINE C == {p \in least : p[1] = 0 => p[2] \in first}
  <2>1. C \in SUBSET (Nat \X all)
    BY <1>4
  <2>2. Closed(C)
    <3>1. \A s \in first : <<0, s>> \in C
      BY <1>2
    <3>2. ASSUME NEW n \in Nat, NEW s \in all, <<n, s>> \in C, NEW y \in Onto(s)
          PROVE  <<n + 1, y>> \in C
      <4>1. <<n + 1, y>> \in least /\ n + 1 # 0
        BY <1>2, <3>2
      <4> QED
        BY <4>1
    <3> HIDE DEF C
    <3> QED
      BY <3>1, <3>2
  <2>3. least \subseteq C
    BY <1>3, <2>1, <2>2
  <2>4. level(0) \subseteq first
    BY <2>3
  <2>5. first \subseteq level(0)
    BY <1>1, <1>2
  <2> QED
    BY <2>4, <2>5
<1>6. ASSUME NEW n \in Nat, n # 0 PROVE level(n) = Beyond(level(n - 1))
  <2> DEFINE below == level(n - 1)
             C == {p \in least : p[1] = n => p[2] \in Beyond(below)}
  <2>0. n - 1 \in Nat /\ (n - 1) + 1 = n
    BY <1>6
  <2>1. C \in SUBSET (Nat \X all)
    BY <1>4
  <2>2. Closed(C)
    <3>1. \A s \in first : <<0, s>> \in C
      BY <1>2, <1>6
    <3>2. ASSUME NEW m \in Nat, NEW s \in all, <<m, s>> \in C, NEW y \in Onto(s)
          PROVE  <<m + 1, y>> \in C
      <4>1. <<m + 1, y>> \in least /\ <<m, s>> \in least
        BY <1>2, <3>2
      <4>2. ASSUME m + 1 = n PROVE y \in Beyond(below)
        <5>1. m = n - 1
          BY <2>0, <4>2
        <5>2. s \in below
          BY <4>1, <5>1
        <5> HIDE DEF below
        <5> QED
          BY <3>2, <5>2, OntoBeyond
      <4> HIDE DEF below
      <4> QED
        BY <4>1, <4>2
    <3> HIDE DEF C
    <3> QED
      BY <3>1, <3>2
  <2>3. least \subseteq C
    BY <1>3, <2>1, <2>2
  <2>4. level(n) \subseteq Beyond(below)
    <3> HIDE DEF below
    <3> QED
      BY <2>3
  <2>5. ASSUME NEW y \in Beyond(below) PROVE y \in level(n)
    <3>1. PICK s \in below : y \in Onto(s)
      <4> HIDE DEF below
      <4> QED
        BY <2>5, OntoBeyond
    <3>2. s \in all /\ <<n - 1, s>> \in least
      OBVIOUS
    <3>3. <<(n - 1) + 1, y>> \in least
      BY <1>2, <2>0, <3>1, <3>2
    <3>4. y \in all
      BY <1>1, <3>1, <3>2
    <3> QED
      BY <2>0, <3>3, <3>4
  <2> QED
    BY <2>4, <2>5
<1> HIDE DEF level
<1>7. solution = step(solution)
  <2>1. \A n \in Nat : n # 0 => n - 1 \in Nat /\ solution[n - 1] = level(n - 1)
    OBVIOUS
  <2> QED
    BY <1>5, <1>6, <2>1
<1> HIDE DEF solution
<1>8. Within = CHOOSE f : f = step(f)
  BY DEF Within, Beyond, first
<1>9. Within = step(Within)
  <2> HIDE DEF step
  <2> QED
    BY Zenon, <1>7, <1>8
<1> QED
  <2>1. \A n \in Nat : Within[n] = IF n = 0 THEN first ELSE Beyond(Within[n - 1])
    BY <1>9
  <2> QED
    BY <2>1 DEF first
(* Every set of natural numbers that is not empty has a least element.      *)
LEMMA LeastNatural ==
    ASSUME NEW T, T \subseteq Nat, T # {}
    PROVE  \E x \in T : \A y \in T : x <= y
<1>1. IsWellFoundedOn(OpToRel(<, Nat), Nat)
  BY NatLessThanWellFounded
<1>2. PICK x \in T : \A y \in T : ~ (<<y, x>> \in OpToRel(<, Nat))
  BY <1>1, WFMin
<1>3. \A y \in T : ~ (y < x)
  BY <1>2 DEF OpToRel
<1>4. \A y \in T : x <= y
  <2> SUFFICES ASSUME NEW y \in T PROVE x <= y
    OBVIOUS
  <2>1. x \in Nat /\ y \in Nat
    BY <1>2
  <2> QED
    BY <1>3, <2>1
<1> QED
  BY <1>2, <1>4

(* Induction over the numbers up to N, as a fact about a set of them: the   *)
(* least number that is missing would have to be 0 or follow one that is in.*)
LEMMA CountingUp ==
    ASSUME NEW N \in Nat, NEW T, 0 \in T, \A n \in 1 .. N : n - 1 \in T => n \in T
    PROVE  \A n \in 0 .. N : n \in T
<1> DEFINE Missing == {n \in 0 .. N : n \notin T}
<1> SUFFICES ASSUME Missing # {} PROVE FALSE
  OBVIOUS
<1>1. PICK k \in Missing : \A j \in Missing : k <= j
  <2>1. Missing \subseteq Nat
    OBVIOUS
  <2> HIDE DEF Missing
  <2> QED
    BY <2>1, LeastNatural
<1>2. k \in 1 .. N /\ k - 1 \in 0 .. N /\ ~ (k <= k - 1)
  <2>1. k \in 0 .. N /\ k # 0
    OBVIOUS
  <2> HIDE DEF Missing
  <2> QED
    BY <2>1
<1> QED
  BY <1>1, <1>2

\* At the end of a walk that only its depth cut short, every state that near
\* was visited at its distance or nearer.
LEMMA WithinSeen ==
    ASSUME Positive, NEW D, Depths(w, D), w.frontier = << >>, NEW n \in Nat, n < limits.depth,
           NEW s \in Within[n]
    PROVE  s \in w.seen /\ D[s] \in Int /\ D[s] <= n /\ Kind(s[1]) # "unknown"
<1> DEFINE Good(m, y) == y \in w.seen /\ D[y] \in Int /\ D[y] <= m /\ Kind(y[1]) # "unknown"
           T == {m \in 0 .. n : \A y \in Within[m] : Good(m, y)}
<1>1. ASSUME NEW y, NEW d, DueBy(w, D, y, d) PROVE y \in w.seen /\ D[y] \in Int /\ D[y] <= d
  BY <1>1 DEF DueBy, Depths
<1>2. ASSUME NEW t, NEW y \in HandedOn(t) PROVE Kind(y[1]) # "unknown"
  <2>1. CASE Detection[t].kind = "whirlpool_round" \/ Detection[t].kind = "tx0"
    <3>1. \A ancestry : \A z \in Handed(t, ancestry) : Kind(z[1]) = Detection[t].kind
      BY DEF Handed, Kind
    <3>2. \E ancestry : y \in Handed(t, ancestry)
      BY <1>2, <2>1 DEF HandedOn
    <3> QED
      BY <2>1, <3>1, <3>2
  <2>2. CASE ~(Detection[t].kind = "whirlpool_round" \/ Detection[t].kind = "tx0")
    BY <1>2, <2>2 DEF HandedOn
  <2> QED
    BY <2>1, <2>2
<1>3. 0 \in T
  <2>1. ASSUME NEW y \in Within[0] PROVE Good(0, y)
    BY <1>1, <1>2, <2>1, WithinStep DEF Depths
  <2> HIDE DEF Good
  <2> QED
    BY <2>1
<1>4. ASSUME NEW m \in 1 .. n, m - 1 \in T PROVE m \in T
  <2>0. m \in Nat /\ m # 0 /\ m - 1 \in Nat /\ m \in 0 .. n /\ m - 1 < limits.depth
        /\ limits.depth \in Int
    BY DEF Positive
  <2>1. ASSUME NEW y \in Within[m] PROVE Good(m, y)
    <3>1. PICK z \in Within[m - 1] : y \in Onto(z)
      BY <2>0, <2>1, WithinStep, OntoBeyond
    <3>2. Good(m - 1, z)
      BY <1>4, <3>1
    <3>3. CASE y = z
      BY <2>0, <3>2, <3>3
    <3>4. ASSUME NEW t \in SpendersFound(z[1]), y \in HandedOn(t) PROVE Good(m, y)
      <4>1. D[z] < limits.depth /\ D[z] + 1 <= m /\ D[z] \in Int
        BY <2>0, <3>2
      <4>2. t \in w.found[z[1]] /\ Expanded(w, D, z)
        BY <3>2, <3>4 DEF SpendersFound, Depths
      <4>3. DueBy(w, D, y, D[z] + 1)
        BY <3>2, <3>4, <4>1, <4>2 DEF Expanded
      <4>4. y \in w.seen /\ D[y] \in Int /\ D[y] <= D[z] + 1
        BY <1>1, <4>3
      <4> QED
        BY <1>2, <2>0, <3>4, <4>1, <4>4
    <3> QED
      BY <3>1, <3>3, <3>4 DEF Onto
  <2> HIDE DEF Good
  <2> QED
    BY <2>0, <2>1
<1> HIDE DEF Good
<1>5. \A m \in 0 .. n : m \in T
  <2> HIDE DEF T
  <2> QED
    BY <1>3, <1>4, CountingUp
<1>6. Good(n, s)
  <2>1. n \in T
    BY <1>5
  <2> QED
    BY <2>1
<1> QED
  BY <1>6 DEF Good
\* The inductive invariant.
Nearest ==
    /\ Complete(w)
    /\ pc = "walk" => Layered(w)
    /\ pc \in {"walk", "report", "done"} => Spread(w)
    /\ pc \in {"report", "done"} /\ w.cut \subseteq {"depth"} => w.frontier = << >>

KInv == CInv /\ Nearest

LEMMA InitNearest == Init => KInv
<1> SUFFICES ASSUME Init PROVE KInv
  OBVIOUS
<1>1. w = NewWalk /\ pc = "start"
  BY DEF Init
<1>2. Complete(NewWalk)
  BY DEF NewWalk, Complete
<1> QED
  BY <1>1, <1>2, InitCourse DEF KInv, Nearest

\* The first states join an empty frontier.
LEMMA BeginSpread ==
    ASSUME NEW v, NEW u, NEW A, Queues(v, u, A, 0, TRUE), Honest(u), Complete(v),
           v.frontier = << >>, v.seen = {}, "outputs" \notin v.cut => HandedOn(root) \subseteq A
    PROVE  Layered(u) /\ Spread(u) /\ Complete(u)
<1> DEFINE new == u.frontier
<1>1. /\ u.nodes = v.nodes /\ DOMAIN u.outs = DOMAIN v.outs /\ u.seen = v.seen
      /\ v.cut \subseteq u.cut
      /\ \A k \in DOMAIN new : k > Len(v.frontier) => new[k].depth = 0 /\ new[k].recursive
      /\ \A s \in A : \E k \in DOMAIN new : k > Len(v.frontier) /\ State(new[k]) = s
  BY DEF Queues, Queued1
<1>2. Len(v.frontier) = 0
  OBVIOUS
<1>3. \A k \in DOMAIN new : k > 0
  <2>1. new \in Seq(Items(DOMAIN u.outs))
    BY DEF Honest, Placed
  <2> HIDE DEF new
  <2> QED
    BY <2>1
<1>4. /\ \A k \in DOMAIN new : new[k].depth = 0 /\ new[k].recursive
      /\ \A s \in A : \E k \in DOMAIN new : State(new[k]) = s /\ new[k].depth = 0
  BY <1>1, <1>2, <1>3
<1>5. Complete(u)
  BY <1>1 DEF Complete
<1>6. Layered(u)
  BY <1>4 DEF Layered
<1>7. ASSUME u.cut \subseteq {"depth"} PROVE \E D : Depths(u, D)
  <2> DEFINE D == [s \in {} |-> 0]
  <2>1. "outputs" \notin v.cut
    BY <1>1, <1>7
  <2>2. \A s \in HandedOn(root) : DueBy(u, D, s, 0)
    BY <1>4, <2>1 DEF DueBy
  <2>3. Depths(u, D)
    BY <1>1, <2>2 DEF Depths
  <2> QED
    BY <2>3
<1> QED
  BY <1>5, <1>6, <1>7 DEF Spread

LEMMA NextNearest == KInv /\ [Next]_vars => KInv'
<1> SUFFICES ASSUME KInv, [Next]_vars PROVE KInv'
  OBVIOUS
<1>0. CInv /\ CInv'
  BY NextCourse DEF KInv
<1> SUFFICES Nearest'
  BY <1>0 DEF KInv
<1>h. Honest(w')
  BY <1>0 DEF CInv, HInv
<1>a. /\ known \subseteq Tx /\ root \in Tx /\ Honest(w) /\ Fields \subseteq DOMAIN w
      /\ Complete(w)
      /\ pc = "walk" => UnderWay /\ Layered(w) /\ Spread(w)
      /\ pc \in {"walk", "report", "done"} => Spread(w)
      /\ pc \in {"report", "done"} /\ w.cut \subseteq {"depth"} => w.frontier = << >>
  BY <1>0, WalkIsUnderWay DEF CInv, HInv, KInv, Nearest, Honest
<1>b. ASSUME NEW u, w' = u, limits' = limits, root' = root, Complete(u),
             pc' = "walk" => Layered(u),
             pc' \in {"walk", "report", "done"} => Spread(u),
             pc' \in {"report", "done"} /\ u.cut \subseteq {"depth"} => u.frontier = << >>
      PROVE  Nearest'
  <2>1. Complete(w)' /\ (pc' = "walk" => Layered(w)')
    BY <1>b DEF Complete, Layered, Kind
  <2>2. Spread(u) => Spread(w)'
    BY <1>b DEF Spread, Depths, DueBy, Expanded, State, Kind, HandedOn, Handed
  <2> QED
    BY <1>b, <2>1, <2>2 DEF Nearest
<1>c. Walking => UnderWay /\ w.frontier # << >> /\ Layered(w) /\ Spread(w)
  BY <1>a DEF Walking
<1>d. /\ Fetching => Walking /\ New
      /\ Followed => Fetching /\ pc' = pc /\ limits' = limits /\ root' = root
  BY DEF Fetching, Followed
\* A step that follows the item.
<1>e. ASSUME NEW u, NEW x, NEW A, NEW r, Followed \/ Unspent, Follows(u, x, A, r), w' = u,
             \A s \in A : Kind(s[1]) # "unknown" => r,
             Kind(Item.out) # "unknown" /\ Complete(x) /\ "outputs" \notin x.cut =>
                \A t \in x.found[Item.out] : HandedOn(t) \subseteq A
      PROVE  Nearest'
  <2>1. /\ UnderWay /\ w.frontier # << >> /\ Layered(w) /\ Spread(w) /\ Honest(u)
        /\ limits' = limits /\ root' = root /\ pc' = "walk"
    BY <1>c, <1>d, <1>e, <1>h DEF Unspent, Walking
  <2>2. Layered(u) /\ Spread(u) /\ Complete(u)
    BY <1>a, <1>e, <2>1, FollowsSpread
  <2> QED
    BY <1>b, <1>e, <2>1, <2>2
<1>f. ASSUME Followed, NEW u, NEW x, NEW A, NEW r, Follows(u, x, A, r)
      PROVE  x.found[Item.out] = {Spender} /\ Spender \in x.nodes
  <2>1. UnderWay /\ w.frontier # << >>
    BY <1>c, <1>d, <1>f
  <2>2. Recorded.found[Item.out] = {Spender} /\ Recorded.found = Fetched.found
        /\ Item.out \in DOMAIN Fetched.found
    BY <1>f, <2>1, RecordedSpender, RecordedStrays, FetchedStays
  <2>3. Keeps(Fetched, x) /\ x.found[Item.out] \subseteq x.nodes
    BY <1>f DEF Follows, Strays
  <2> HIDE DEF Fetched, Recorded, Item, Spender
  <2> QED
    BY <2>2, <2>3 DEF Keeps
<1> DEFINE none == {}
<1>g. Followed => UnderWay /\ Spender \in Tx
  <2> SUFFICES ASSUME Followed PROVE UnderWay /\ Spender \in Tx
    OBVIOUS
  <2>1. UnderWay
    BY <1>c, <1>d
  <2> QED
    BY <2>1, RecordedStrays
<1>1. CASE Begin
  <2> DEFINE z == [NewWalk EXCEPT !.detected = {root}]
             v == AddTx(z, root)
             tx0 == EnqueueRoles(v, root, Tx0Ancestry, "high", 0)
             round == EnqueueRoles(v, root, RoundAncestry, "medium", 0)
             kind == Detection[root].kind
  <2>1. /\ w' = CASE kind = "tx0" -> tx0 [] kind = "whirlpool_round" -> round [] OTHER -> v
        /\ pc' = IF kind = "unknown" THEN "report" ELSE "walk"
        /\ limits' = limits /\ root' = root
    BY <1>1 DEF Begin
  <2>2. /\ Fields \subseteq DOMAIN z
        /\ z.frontier = << >> /\ z.seen = {} /\ z.nodes = {}
    BY DEF NewWalk, Fields
  <2>3. Honest(v)
    BY <1>a, NewWalkHonest, AddTxHonest
  <2> HIDE DEF z
  <2>4. Grows(z, v) /\ (TxFits(z, root) => root \in v.nodes)
    BY <2>2, AddTxGrows
  <2>5. TxFits(z, root)
    <3>1. Cardinality({}) = 0
      BY FS_EmptySet
    <3>2. Positive
      BY <1>0, LimitsArePositive DEF CInv, IInv, Positive
    <3> QED
      BY <2>2, <3>1, <3>2 DEF TxFits, Positive
  <2> HIDE DEF v
  <2>6. v.frontier = << >> /\ v.seen = {} /\ Complete(v) /\ root \in v.nodes
    BY <2>2, <2>4, <2>5 DEF Grows, Complete
  <2>7. CASE kind = "unknown"
    <3>1. w' = v /\ pc' = "report"
      BY <2>1, <2>7
    <3>2. Spread(v)
      <4> DEFINE D == [s \in {} |-> 0]
      <4>1. HandedOn(root) = {}
        BY <2>7 DEF HandedOn
      <4>2. Depths(v, D)
        BY <2>6, <4>1 DEF Depths
      <4> QED
        BY <4>2 DEF Spread
    <3> QED
      BY <1>b, <2>1, <2>6, <3>1, <3>2
  <2>8. ASSUME NEW u, NEW A, Queues(v, u, A, 0, TRUE), w' = u, kind # "unknown",
               "outputs" \notin v.cut => HandedOn(root) \subseteq A
        PROVE  Nearest'
    <3>1. Layered(u) /\ Spread(u) /\ Complete(u)
      BY <1>h, <2>6, <2>8, BeginSpread
    <3> QED
      BY <1>b, <2>1, <2>8, <3>1
  <2>9. CASE kind = "tx0"
    <3>1. w' = tx0
      BY <2>1, <2>9
    <3>2. Queues(v, tx0, RoleStates(v, root, Tx0Ancestry), 0, TRUE)
      BY <1>a, <2>3, EnqueueRolesQueues
    <3>3. "outputs" \notin v.cut => HandedOn(root) \subseteq RoleStates(v, root, Tx0Ancestry)
      BY <2>6, <2>9, HandedJoins
    <3> HIDE DEF tx0
    <3> QED
      BY <2>8, <2>9, <3>1, <3>2, <3>3
  <2>10. CASE kind = "whirlpool_round"
    <3>1. w' = round
      BY <2>1, <2>10
    <3>2. Queues(v, round, RoleStates(v, root, RoundAncestry), 0, TRUE)
      BY <1>a, <2>3, EnqueueRolesQueues
    <3>3. "outputs" \notin v.cut => HandedOn(root) \subseteq RoleStates(v, root, RoundAncestry)
      BY <2>6, <2>10, HandedJoins
    <3> HIDE DEF round
    <3> QED
      BY <2>8, <2>10, <3>1, <3>2, <3>3
  <2>11. kind = "unknown" \/ kind = "tx0" \/ kind = "whirlpool_round"
    BY <1>a, Verdict DEF IsTx0Verdict, IsRoundVerdict, IsUnknownVerdict
  <2> QED
    BY <2>7, <2>9, <2>10, <2>11
<1>i. ASSUME Walking, NEW u, w' = u, limits' = limits, root' = root,
             u.frontier = Tail(w.frontier), u.found = w.found, u.nodes = w.nodes,
             DOMAIN u.outs = DOMAIN w.outs, u.seen = w.seen \cup {State(Item)},
             w.cut \subseteq u.cut,
             ~New \/ Item.depth >= limits.depth \/ ~(u.cut \subseteq {"depth"}),
             pc' = "walk" \/ ~(u.cut \subseteq {"depth"})
      PROVE  Nearest'
  <2>1. Layered(u) /\ Spread(u) /\ Complete(u)
    BY <1>a, <1>c, <1>i, PoppedSpread
  <2> QED
    BY <1>a, <1>b, <1>h, <1>i, <2>1 DEF Walking
<1>2. CASE Repeat
  <2>1. Walking /\ ~New /\ w' = Popped /\ limits' = limits /\ root' = root /\ pc' = "walk"
    BY <1>2 DEF Repeat, Walking
  <2>2. State(Item) \in w.seen
    BY <2>1 DEF New
  <2>3. /\ Popped.outs = w.outs /\ Popped.frontier = Tail(w.frontier)
        /\ Popped.found = w.found /\ Popped.seen = w.seen /\ Popped.cut = w.cut
        /\ Popped.nodes = w.nodes
    BY <1>a DEF Popped, Fields
  <2> HIDE DEF Popped, Item
  <2>4. Popped.seen = w.seen \cup {State(Item)}
    BY <2>2, <2>3
  <2> QED
    BY <1>i, <2>1, <2>3, <2>4
<1>j. ASSUME NEW cause, Walking, w' = Cut(Visiting, cause), limits' = limits, root' = root,
             Item.depth >= limits.depth \/ cause # "depth",
             pc' = "walk" \/ cause # "depth"
      PROVE  Nearest'
  <2>1. /\ Fields \subseteq DOMAIN Visiting /\ Visiting.outs = w.outs
        /\ Visiting.cut = w.cut /\ Visiting.nodes = w.nodes
        /\ Visiting.found = w.found /\ Visiting.frontier = Tail(w.frontier)
        /\ Visiting.seen = w.seen \cup {State(Item)}
    BY <1>a, <1>c, <1>j, VisitingStays
  <2> DEFINE u == Cut(Visiting, cause)
  <2> HIDE DEF Visiting, Item
  <2>2. Quiet(Visiting, u) /\ cause \in u.cut
    BY <2>1, CutQuiet
  <2> HIDE DEF u
  <2>3. /\ u.frontier = Tail(w.frontier) /\ u.found = w.found /\ u.nodes = w.nodes
        /\ DOMAIN u.outs = DOMAIN w.outs
        /\ u.seen = w.seen \cup {State(Item)} /\ w.cut \subseteq u.cut
        /\ cause # "depth" => ~(u.cut \subseteq {"depth"})
    BY <2>1, <2>2 DEF Quiet, Still
  <2> QED
    BY <1>i, <1>j, <2>3 DEF u
<1>3. CASE TooDeep
  BY <1>3, <1>j DEF TooDeep, Walking
<1>4. CASE OutOfLookups
  BY <1>4, <1>d, <1>j DEF OutOfLookups
<1>5. CASE Unspent
  <2> DEFINE u == Find(Status(Fetched, Item.out, "unspent"),
                       "unspent", Item.out[1], {Item.out}, Item.conf)
  <2>1. Walking /\ New /\ ~Spent /\ w' = u
    BY <1>5, <1>d DEF Unspent
  <2>2. Follows(u, u, none, FALSE)
    BY <1>c, <2>1, UnspentFollows
  <2>3. u.found[Item.out] = {}
    <3>1. Fetched.found[Item.out] = {} /\ Item.out \in DOMAIN Fetched.found
      BY <1>c, <2>1, FetchedStays DEF Spent
    <3>2. Keeps(Fetched, u)
      BY <2>2 DEF Follows, Strays
    <3> HIDE DEF u, Fetched, Item
    <3> QED
      BY <3>1, <3>2 DEF Keeps
  <2>4. \A s \in none : Kind(s[1]) # "unknown" => FALSE
    OBVIOUS
  <2> HIDE DEF u, none
  <2> QED
    BY <1>5, <1>e, <2>1, <2>2, <2>3, <2>4
<1>6. CASE OutOfTransactions
  <2> DEFINE c == Cut(Fetched, "transactions")
             u == [c EXCEPT !.detected = @ \cup {Spender}]
  <2>1. Walking /\ w' = u /\ pc' = "report" /\ limits' = limits /\ root' = root
    BY <1>6, <1>d DEF OutOfTransactions
  <2>2. /\ Fields \subseteq DOMAIN Fetched /\ Fetched.cut = w.cut
        /\ Fetched.nodes = w.nodes /\ Fetched.outs = w.outs
    BY <1>c, <2>1, FetchedStays
  <2>3. Quiet(Fetched, c) /\ "transactions" \in c.cut
    BY <2>2, CutQuiet
  <2> HIDE DEF c
  <2>4. Quiet(c, u)
    BY <2>3, DetectedQuiet DEF Quiet, Still
  <2> HIDE DEF u
  <2>5. /\ u.nodes = w.nodes /\ DOMAIN u.outs = DOMAIN w.outs /\ w.cut \subseteq u.cut
        /\ "transactions" \in u.cut
    BY <2>2, <2>3, <2>4 DEF Quiet, Still
  <2>6. ~(u.cut \subseteq {"depth"})
    BY <2>5
  <2>7. Complete(u)
    BY <1>a, <2>5 DEF Complete
  <2> QED
    BY <1>b, <2>1, <2>6, <2>7 DEF Spread
<1>7. CASE LastSpend
  <2>1. Followed /\ ~Item.recursive /\ w' = Recorded
    BY <1>7 DEF LastSpend
  <2>2. Follows(Recorded, Recorded, none, FALSE)
    BY <1>g, <2>1, LastFollows
  <2>3. Kind(Item.out) = "unknown"
    <3>1. Item = w.frontier[1] /\ 1 \in DOMAIN w.frontier
      BY <1>a, <1>c, <1>d, <2>1, ItemIsFirst
    <3>2. Layered(w)
      BY <1>c, <1>d, <2>1
    <3> HIDE DEF Item
    <3> QED
      BY <2>1, <3>1, <3>2 DEF Layered
  <2>4. \A s \in none : Kind(s[1]) # "unknown" => FALSE
    OBVIOUS
  <2> HIDE DEF Recorded, none
  <2> QED
    BY <1>e, <2>1, <2>2, <2>3, <2>4
<1>8. CASE EnterRound
  <2> DEFINE u == FollowRound(Recorded, Item, Spender, Item.depth + 1)
             A == RoundStates(Recorded, Spender)
  <2>1. Followed /\ w' = u /\ Detection[Spender].kind = "whirlpool_round"
    BY <1>8 DEF EnterRound, Becomes
  <2>2. Follows(u, Recorded, A, TRUE)
    BY <1>g, <2>1, RoundFollows
  <2>3. Recorded.found[Item.out] = {Spender} /\ Spender \in Recorded.nodes
    BY <1>f, <2>1, <2>2
  <2>4. Complete(Recorded) /\ "outputs" \notin Recorded.cut => HandedOn(Spender) \subseteq A
    BY <2>1, <2>3, HandedJoins
  <2> HIDE DEF u, A, Recorded, Spender
  <2> QED
    BY <1>e, <2>1, <2>2, <2>3, <2>4
<1>9. CASE EnterTx0
  <2> DEFINE x == WithLaterTx0(Recorded, Item, Spender)
             u == EnqueueRoles(x, Spender, Tx0Ancestry, "high", Item.depth + 1)
             A == RoleStates(x, Spender, Tx0Ancestry)
  <2>1. Followed /\ w' = u /\ Detection[Spender].kind = "tx0"
    BY <1>9 DEF EnterTx0, Becomes
  <2>2. Follows(u, x, A, TRUE)
    BY <1>g, <2>1, Tx0Follows
  <2>3. x.found[Item.out] = {Spender} /\ Spender \in x.nodes
    BY <1>f, <2>1, <2>2
  <2>4. Complete(x) /\ "outputs" \notin x.cut => HandedOn(Spender) \subseteq A
    BY <2>1, <2>3, HandedJoins
  <2> HIDE DEF u, x, A, Spender
  <2> QED
    BY <1>e, <2>1, <2>2, <2>3, <2>4
<1>10. CASE OrdinarySpend
  <2> DEFINE u == FollowOrdinary(Recorded, Spender, Item.depth + 1)
  <2>1. Followed /\ w' = u /\ Detection[Spender].kind = "unknown"
    BY <1>10 DEF OrdinarySpend, Becomes
  <2>2. PICK x, taken : Follows(u, x, PaymentStates(x, Spender, taken), FALSE)
    BY <1>g, <2>1, OrdinaryFollows
  <2>3. x.found[Item.out] = {Spender}
    BY <1>f, <2>1, <2>2
  <2>4. HandedOn(Spender) = {}
    BY <2>1 DEF HandedOn
  <2>5. \A s \in PaymentStates(x, Spender, taken) : Kind(s[1]) = "unknown"
    BY <2>1 DEF PaymentStates, Kind
  <2> HIDE DEF u, Spender
  <2> QED
    BY <1>e, <2>1, <2>2, <2>3, <2>4, <2>5
<1>11. CASE Drained \/ Fails \/ Finished \/ NodeLearns \/ UNCHANGED vars
  <2>1. /\ w' = w /\ limits' = limits /\ root' = root
        /\ pc' = "walk" => pc = "walk"
        /\ pc' \in {"walk", "report", "done"} => pc \in {"walk", "report", "done"}
        /\ pc' \in {"report", "done"} => pc \in {"report", "done"} \/ w.frontier = << >>
    BY <1>11 DEF Drained, Fails, Finished, NodeLearns, vars
  <2> QED
    BY <1>a, <1>b, <2>1
<1>12. CASE Report
  <2> DEFINE u == WithReuse(w)
  <2>1. w' = u /\ pc' = "done" /\ limits' = limits /\ root' = root /\ pc = "report"
    BY <1>12 DEF Report
  <2>2. Quiet(w, u)
    BY <1>a, ReuseQuiet
  <2> HIDE DEF u
  <2>3. /\ u.nodes = w.nodes /\ DOMAIN u.outs = DOMAIN w.outs /\ w.cut \subseteq u.cut
        /\ u.found = w.found /\ u.seen = w.seen /\ u.frontier = w.frontier
    BY <2>2 DEF Quiet, Still
  <2>4. Complete(u)
    BY <1>a, <2>3 DEF Complete
  <2>5. u.cut \subseteq {"depth"} => w.cut \subseteq {"depth"}
    BY <2>3
  <2>6. Spread(u)
    <3>1. ASSUME NEW D, Depths(w, D) PROVE Depths(u, D)
      BY <2>3, <3>1 DEF Depths, DueBy, Expanded
    <3> QED
      BY <1>a, <2>1, <2>5, <3>1 DEF Spread
  <2> QED
    BY <1>a, <1>b, <2>1, <2>3, <2>4, <2>5, <2>6
<1> QED
  BY <1>1, <1>2, <1>3, <1>4, <1>5, <1>6, <1>7, <1>8, <1>9, <1>10, <1>11, <1>12
     DEF Next, Step

(* A report that only its depth cut short covers everything nearer than the *)
(* depth: each state was visited, its spend looked up, and the spending     *)
(* transaction is there with all its outputs (trace, the deque).            *)
THEOREM ReportsCoverDepth == Spec => []CoveredToDepth
<1>1. KInv => CoveredToDepth
  <2> SUFFICES ASSUME KInv, pc = "done", w.cut \subseteq {"depth"},
                      NEW s \in Within[limits.depth - 1]
               PROVE  /\ s \in w.seen /\ s[1] \in DOMAIN w.found
                      /\ \A t \in w.found[s[1]] :
                            /\ t \in w.nodes
                            /\ \A i \in OutsOf(Body[t]) : <<t, i>> \in DOMAIN w.outs
    BY DEF CoveredToDepth
  <2>1. Positive /\ Complete(w) /\ w.frontier = << >> /\ Spread(w)
    BY LimitsArePositive DEF KInv, Nearest, CInv, IInv, Positive
  <2>2. PICK D : Depths(w, D)
    BY <2>1 DEF Spread
  <2>3. limits.depth - 1 \in Nat /\ limits.depth - 1 < limits.depth /\ limits.depth \in Int
    BY <2>1 DEF Positive
  <2>4. s \in w.seen /\ D[s] \in Int /\ D[s] <= limits.depth - 1 /\ Kind(s[1]) # "unknown"
    BY <2>1, <2>2, <2>3, WithinSeen
  <2>5. D[s] < limits.depth
    BY <2>3, <2>4
  <2>6. s[1] \in DOMAIN w.found /\ w.found[s[1]] \subseteq w.nodes
    BY <2>2, <2>4, <2>5 DEF Depths, Expanded
  <2> QED
    BY <2>1, <2>4, <2>6 DEF Complete
<1> QED
  BY <1>1, InitNearest, NextNearest, PTL DEF Spec
=============================================================================
