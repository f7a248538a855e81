--------------------------- MODULE DetectorProofs ---------------------------
(***************************************************************************)
(* The verdicts of the detectors, of a transaction of any length and with  *)
(* any amounts: they account for every output, their numbers are true, and *)
(* neither the order of inputs and outputs nor what a trace finds first    *)
(* decides.  What a sum is comes first: SumOf folds over a set in an order *)
(* nobody knows, and no order matters.                                     *)
(***************************************************************************)
EXTENDS MCDetectors, FiniteSetTheorems, WellFoundedInduction, TLAPS

-----------------------------------------------------------------------------
(* Induction, as facts about sets. *)

(* A set of naturals has a least member. *)
LEMMA LeastNatural ==
    ASSUME NEW T, T \subseteq Nat, T # {}
    PROVE  \E x \in T : \A y \in T : x <= y
<1>1. IsWellFoundedOn(OpToRel(<, Nat), Nat)
  BY NatLessThanWellFounded
<1>2. PICK x \in T : \A y \in T : ~ (<<y, x>> \in OpToRel(<, Nat))
  BY <1>1, WFMin
<1>3. \A y \in T : ~ (y < x)
  BY <1>2 DEF OpToRel
<1>4. \A y \in T : x <= y
  <2> SUFFICES ASSUME NEW y \in T PROVE x <= y
    OBVIOUS
  <2>1. x \in Nat /\ y \in Nat
    OBVIOUS
  <2> QED
    BY <2>1, <1>3
<1> QED
  BY <1>4

(* What holds of 0 and passes from each number to the next holds of all.    *)
LEMMA CountingUp ==
    ASSUME NEW T, 0 \in T, \A n \in Nat : n \in T => n + 1 \in T
    PROVE  \A n \in Nat : n \in T
<1> DEFINE Missing == {n \in Nat : n \notin T}
<1> SUFFICES ASSUME Missing # {} PROVE FALSE
  OBVIOUS
<1>1. PICK k \in Missing : \A j \in Missing : k <= j
  <2>1. Missing \subseteq Nat
    OBVIOUS
  <2> HIDE DEF Missing
  <2> QED
    BY <2>1, LeastNatural
<1>2. k \in Nat /\ k # 0
  OBVIOUS
<1>3. k - 1 \in Nat /\ ~ (k <= k - 1) /\ (k - 1) + 1 = k
  BY <1>2
<1>4. k - 1 \notin Missing
  BY <1>1, <1>3
<1>5. k - 1 \in T
  BY <1>3, <1>4
<1> QED
  BY <1>3, <1>5

(* Among sets of some kind within a finite set one has no smaller one       *)
(* within it.                                                               *)
LEMMA SmallestSet ==
    ASSUME NEW S, IsFiniteSet(S), NEW F, F \subseteq SUBSET S, F # {}
    PROVE  \E T \in F : \A U \in SUBSET T : U # T => U \notin F
<1>1. IsWellFoundedOn(StrictSubsetOrdering(S), FiniteSubsetsOf(S))
  BY FS_StrictSubsetOrderingWellFounded
<1>2. F \subseteq FiniteSubsetsOf(S)
  <2> SUFFICES ASSUME NEW T \in F PROVE T \in FiniteSubsetsOf(S)
    OBVIOUS
  <2>1. T \in SUBSET S
    OBVIOUS
  <2>2. IsFiniteSet(T)
    BY <2>1, FS_Subset
  <2> QED
    BY <2>1, <2>2 DEF FiniteSubsetsOf
<1>3. PICK T \in F : \A U \in F : ~ (<<U, T>> \in StrictSubsetOrdering(S))
  BY <1>1, <1>2, WFMin
<1>4. ASSUME NEW U \in SUBSET T, U # T, U \in F PROVE FALSE
  <2>1. <<U, T>> \in StrictSubsetOrdering(S)
    BY <1>4 DEF StrictSubsetOrdering
  <2> QED
    BY <2>1, <1>3, <1>4
<1> QED
  BY <1>4

-----------------------------------------------------------------------------
(* Sums over finite sets. *)

Some(s) == CHOOSE x \in s : TRUE

\* What SumOf computes, one element after the other.
Iterates(f, S, h) ==
    \A s \in S : h[s] = IF s = {} THEN 0 ELSE f[Some(s)] + h[s \ {Some(s)}]

\* The sums of f over the subsets of S, any element first.
Sums(f, S, h) ==
    /\ h \in [SUBSET S -> Int]
    /\ h[{}] = 0
    /\ \A s \in SUBSET S : \A x \in s : h[s] = f[x] + h[s \ {x}]

(* Something is chosen from each set that is not empty.                     *)
LEMMA SomeIn ==
    ASSUME NEW s, s # {} PROVE Some(s) \in s
BY Zenon DEF Some

(* The iteration is well-defined. *)
LEMMA IteratesExists ==
    ASSUME NEW S, IsFiniteSet(S), NEW f \in [S -> Int]
    PROVE  \E h \in [SUBSET S -> Int] : Iterates(f, SUBSET S, h)
<1> DEFINE Upto(n) == {s \in SUBSET S : Cardinality(s) <= n}
<1> DEFINE Has(n) == \E h \in [Upto(n) -> Int] : Iterates(f, Upto(n), h)
<1> DEFINE T == {n \in Nat : Has(n)}
<1>0. \A s \in SUBSET S : IsFiniteSet(s) /\ Cardinality(s) \in Nat /\ Cardinality(s) <= Cardinality(S)
  BY FS_Subset, FS_CardinalityType
<1>a. \A s \in SUBSET S : s # {} =>
        /\ Some(s) \in s /\ s \ {Some(s)} \in SUBSET S
        /\ Cardinality(s \ {Some(s)}) = Cardinality(s) - 1
  <2> SUFFICES ASSUME NEW s \in SUBSET S, s # {}
               PROVE  /\ Some(s) \in s /\ s \ {Some(s)} \in SUBSET S
                      /\ Cardinality(s \ {Some(s)}) = Cardinality(s) - 1
    OBVIOUS
  <2>1. Some(s) \in s
    BY SomeIn
  <2> QED
    BY <2>1, <1>0, FS_RemoveElement
<1>1. 0 \in T
  <2> DEFINE h == [s \in Upto(0) |-> 0]
  <2>1. \A s \in Upto(0) : s = {}
    BY <1>0, FS_EmptySet
  <2>2. h \in [Upto(0) -> Int] /\ Iterates(f, Upto(0), h)
    BY <2>1 DEF Iterates
  <2>3. Has(0)
    BY <2>2
  <2> QED
    BY <2>3
<1>2. ASSUME NEW n \in Nat, n \in T PROVE n + 1 \in T
  <2>1. PICK h \in [Upto(n) -> Int] : Iterates(f, Upto(n), h)
    BY <1>2
  <2> DEFINE g == [s \in Upto(n + 1) |->
                     IF s = {} THEN 0 ELSE f[Some(s)] + h[s \ {Some(s)}]]
  <2>2. \A s \in Upto(n + 1) : s # {} =>
          s \ {Some(s)} \in Upto(n) /\ s \ {Some(s)} \in Upto(n + 1)
    BY <1>a, <1>0
  <2>3. \A s \in Upto(n) : h[s] = g[s]
    <3>1. \A s \in Upto(n) : s \in Upto(n + 1)
      BY <1>0
    <3> QED
      BY <2>1, <3>1 DEF Iterates
  <2>4. g \in [Upto(n + 1) -> Int]
    <3> SUFFICES ASSUME NEW s \in Upto(n + 1), s # {}
                 PROVE  f[Some(s)] + h[s \ {Some(s)}] \in Int
      OBVIOUS
    <3>1. Some(s) \in S
      BY <1>a
    <3>2. h[s \ {Some(s)}] \in Int
      BY <2>2
    <3> QED
      BY <3>1, <3>2
  <2>5. Iterates(f, Upto(n + 1), g)
    BY <2>2, <2>3 DEF Iterates
  <2>6. Has(n + 1)
    BY <2>4, <2>5
  <2>7. n + 1 \in Nat
    OBVIOUS
  <2> HIDE DEF Has
  <2> QED
    BY <2>6, <2>7
<1>3. \A n \in Nat : n \in T
  <2> HIDE DEF T
  <2> QED
    BY <1>1, <1>2, CountingUp
<1>4. Cardinality(S) \in Nat
  BY FS_CardinalityType
<1>5. Upto(Cardinality(S)) = SUBSET S
  BY <1>0
<1>6. Has(Cardinality(S))
  BY <1>3, <1>4
<1> QED
  BY <1>5, <1>6

(* The element to begin with does not matter. *)
LEMMA IteratesSums ==
    ASSUME NEW S, IsFiniteSet(S), NEW f \in [S -> Int],
           NEW h, DOMAIN h = SUBSET S, h = [s \in SUBSET S |-> h[s]],
           Iterates(f, SUBSET S, h)
    PROVE  Sums(f, S, h)
<1>1. h[{}] = 0
  BY DEF Iterates
<1>2. \A s \in SUBSET S : h[s] \in Int
  <2> DEFINE F == {s \in SUBSET S : h[s] \notin Int}
  <2> SUFFICES ASSUME F # {} PROVE FALSE
    OBVIOUS
  <2>1. PICK s \in F : \A U \in SUBSET s : U # s => U \notin F
    <3>1. F \subseteq SUBSET S
      OBVIOUS
    <3> HIDE DEF F
    <3> QED
      BY <3>1, SmallestSet
  <2>2. s \in SUBSET S /\ h[s] \notin Int
    OBVIOUS
  <2>2a. s # {}
    <3> SUFFICES ASSUME s = {} PROVE FALSE
      OBVIOUS
    <3>1. h[s] = 0
      BY <1>1, Zenon
    <3> QED
      BY <2>2, <3>1
  <2> DEFINE y == Some(s)
  <2>3. y \in s
    BY <2>2a, SomeIn
  <2>5. h[s] = f[y] + h[s \ {y}]
    BY <2>2, <2>2a DEF Iterates
  <2> HIDE DEF y
  <2>4. h[s \ {y}] \in Int
    <3>1. s \ {y} \in SUBSET s /\ s \ {y} # s /\ s \ {y} \in SUBSET S
      BY <2>2, <2>3
    <3>2. s \ {y} \notin F
      BY <2>1, <3>1
    <3> QED
      BY <3>1, <3>2
  <2>6. f[y] \in Int
    BY <2>2, <2>3
  <2> QED
    BY <2>4, <2>5, <2>6
<1>3. \A s \in SUBSET S : \A x \in s : h[s] = f[x] + h[s \ {x}]
  <2> DEFINE F == {s \in SUBSET S : \E x \in s : h[s] # f[x] + h[s \ {x}]}
  <2> SUFFICES ASSUME F # {} PROVE FALSE
    OBVIOUS
  <2>1. PICK s \in F : \A U \in SUBSET s : U # s => U \notin F
    <3>1. F \subseteq SUBSET S
      OBVIOUS
    <3> HIDE DEF F
    <3> QED
      BY <3>1, SmallestSet
  <2>2. PICK x \in s : h[s] # f[x] + h[s \ {x}]
    OBVIOUS
  <2>3. s \in SUBSET S /\ s # {} /\ x \in S
    BY <2>2
  <2> DEFINE y == Some(s)
  <2>4. y \in s /\ y \in S
    BY <2>3, SomeIn
  <2>5. h[s] = f[y] + h[s \ {y}]
    BY <2>3 DEF Iterates
  <2> HIDE DEF y
  <2>6. y # x
    BY <2>5, <2>2
  <2>7. h[s \ {y}] = f[x] + h[(s \ {y}) \ {x}]
    <3>1. s \ {y} \in SUBSET s /\ s \ {y} # s /\ s \ {y} \in SUBSET S /\ x \in s \ {y}
      BY <2>4, <2>6, <2>3
    <3>2. s \ {y} \notin F
      BY <2>1, <3>1
    <3> QED
      BY <3>1, <3>2
  <2>8. h[s \ {x}] = f[y] + h[(s \ {x}) \ {y}]
    <3>1. s \ {x} \in SUBSET s /\ s \ {x} # s /\ s \ {x} \in SUBSET S /\ y \in s \ {x}
      BY <2>4, <2>6, <2>3, <2>2
    <3>2. s \ {x} \notin F
      BY <2>1, <3>1
    <3> QED
      BY <3>1, <3>2
  <2>9. (s \ {x}) \ {y} = (s \ {y}) \ {x} /\ (s \ {x}) \ {y} \in SUBSET S
    BY <2>3
  <2>10. f[x] \in Int /\ f[y] \in Int /\ h[(s \ {x}) \ {y}] \in Int
    BY <2>3, <2>4, <2>9, <1>2
  <2> DEFINE rest == h[(s \ {x}) \ {y}]
  <2>11. h[s] = f[y] + (f[x] + rest) /\ f[x] + h[s \ {x}] = f[x] + (f[y] + rest)
    BY <2>5, <2>7, <2>8, <2>9
  <2>12. rest \in Int
    BY <2>10
  <2> HIDE DEF rest
  <2>13. f[y] + (f[x] + rest) = f[x] + (f[y] + rest)
    BY <2>10, <2>12
  <2> QED
    BY <2>2, <2>11, <2>13
<1> QED
  BY <1>1, <1>2, <1>3 DEF Sums

(* SumOf is such a sum. *)
LEMMA SumOfSums ==
    ASSUME NEW S, IsFiniteSet(S), NEW f \in [S -> Int]
    PROVE  \E h : Sums(f, S, h) /\ SumOf(f) = h[S]
<1> DEFINE Is(h) == h = [s \in SUBSET S |->
                           IF s = {} THEN 0
                           ELSE f[CHOOSE x \in s : TRUE] + h[s \ {CHOOSE x \in s : TRUE}]]
<1> DEFINE it == CHOOSE h : Is(h)
<1>1. SumOf(f) = it[S]
  <2>1. DOMAIN f = S
    OBVIOUS
  <2> QED
    BY <2>1, Zenon DEF SumOf, FoldFunction, FoldFunctionOnSet, MapThenFoldSet
<1>2. \E h : Is(h)
  <2>1. PICK h \in [SUBSET S -> Int] : Iterates(f, SUBSET S, h)
    BY IteratesExists
  <2>2. Is(h)
    BY <2>1 DEF Iterates, Some
  <2> QED
    BY <2>2, Zenon
<1>3. Is(it)
  BY <1>2, Zenon
<1>4. DOMAIN it = SUBSET S /\ it = [s \in SUBSET S |-> it[s]] /\ Iterates(f, SUBSET S, it)
  <2> HIDE DEF it
  <2>1. DOMAIN it = SUBSET S
    BY <1>3
  <2>2. \A s \in SUBSET S : it[s] = IF s = {} THEN 0 ELSE f[Some(s)] + it[s \ {Some(s)}]
    BY <1>3 DEF Some
  <2>3. it = [s \in SUBSET S |-> it[s]]
    BY <1>3
  <2> QED
    BY <2>1, <2>2, <2>3 DEF Iterates
<1>5. Sums(f, S, it)
  <2> HIDE DEF it
  <2> QED
    BY <1>4, IteratesSums
<1> QED
  BY <1>1, <1>5

(* Sums over corresponding elements are equal. *)
LEMMA SumsCorrespond ==
    ASSUME NEW S, IsFiniteSet(S), NEW T, NEW f, NEW g, NEW h, NEW k,
           Sums(f, S, h), Sums(g, T, k),
           NEW b \in [S -> T], \A x, y \in S : b[x] = b[y] => x = y,
           \A x \in S : f[x] = g[b[x]]
    PROVE  \A s \in SUBSET S : h[s] = k[{b[x] : x \in s}]
<1> DEFINE Img(s) == {b[x] : x \in s}
<1> DEFINE F == {s \in SUBSET S : h[s] # k[Img(s)]}
<1> SUFFICES ASSUME F # {} PROVE FALSE
  OBVIOUS
<1>1. PICK s \in F : \A U \in SUBSET s : U # s => U \notin F
  <2>1. F \subseteq SUBSET S
    OBVIOUS
  <2> HIDE DEF F
  <2> QED
    BY <2>1, SmallestSet
<1>2. s \in SUBSET S /\ h[s] # k[Img(s)]
  OBVIOUS
<1>3. s # {}
  <2>1. Img({}) = {}
    OBVIOUS
  <2>2. h[{}] = 0 /\ k[{}] = 0
    BY DEF Sums
  <2> HIDE DEF Img
  <2> QED
    BY <1>2, <2>1, <2>2
<1>4. PICK x \in s : TRUE
  BY <1>3
<1>5. h[s] = f[x] + h[s \ {x}]
  BY <1>2 DEF Sums
<1>6. Img(s) \in SUBSET T /\ b[x] \in Img(s) /\ Img(s) \ {b[x]} = Img(s \ {x})
  BY <1>2
<1>7. k[Img(s)] = g[b[x]] + k[Img(s) \ {b[x]}]
  <2> HIDE DEF Img
  <2> QED
    BY <1>6 DEF Sums
<1>8. h[s \ {x}] = k[Img(s \ {x})]
  <2>1. s \ {x} \in SUBSET s /\ s \ {x} # s /\ s \ {x} \in SUBSET S
    BY <1>2
  <2>2. s \ {x} \notin F
    BY <1>1, <2>1
  <2> QED
    BY <2>1, <2>2
<1>9. f[x] = g[b[x]]
  BY <1>2
<1> HIDE DEF Img
<1> QED
  BY <1>2, <1>5, <1>6, <1>7, <1>8, <1>9

(* The sum of integers over a finite set is an integer, and nothing adds up *)
(* to 0.                                                                    *)
LEMMA SumType ==
    ASSUME NEW S, IsFiniteSet(S), NEW f \in [S -> Int]
    PROVE  SumOf(f) \in Int
<1>1. PICK h : Sums(f, S, h) /\ SumOf(f) = h[S]
  BY SumOfSums
<1> QED
  BY <1>1 DEF Sums

(* A sum is the same over corresponding elements (SumOf of two functions).  *)
LEMMA SumReindexed ==
    ASSUME NEW S, IsFiniteSet(S), NEW f \in [S -> Int],
           NEW T, IsFiniteSet(T), NEW g \in [T -> Int],
           NEW b \in [S -> T], \A x, y \in S : b[x] = b[y] => x = y,
           \A y \in T : \E x \in S : b[x] = y,
           \A x \in S : f[x] = g[b[x]]
    PROVE  SumOf(f) = SumOf(g)
<1>1. PICK h : Sums(f, S, h) /\ SumOf(f) = h[S]
  BY SumOfSums
<1>2. PICK k : Sums(g, T, k) /\ SumOf(g) = k[T]
  BY SumOfSums
<1>3. h[S] = k[{b[x] : x \in S}]
  BY <1>1, <1>2, SumsCorrespond
<1>4. {b[x] : x \in S} = T
  OBVIOUS
<1> QED
  BY <1>1, <1>2, <1>3, <1>4

(* The sums over all subsets are in the sums of the whole. *)
LEMMA SumOfPart ==
    ASSUME NEW S, IsFiniteSet(S), NEW f \in [S -> Int], NEW h, Sums(f, S, h),
           NEW Z \in SUBSET S
    PROVE  SumOf([x \in Z |-> f[x]]) = h[Z]
<1> DEFINE g == [x \in Z |-> f[x]]
<1> DEFINE b == [x \in Z |-> x]
<1>1. IsFiniteSet(Z)
  BY FS_Subset
<1>2. g \in [Z -> Int] /\ b \in [Z -> S]
  OBVIOUS
<1>3. \A x \in Z : g[x] = f[b[x]] /\ b[x] = x
  OBVIOUS
<1>4. {b[x] : x \in Z} = Z
  OBVIOUS
<1> HIDE DEF g, b
<1>5. PICK k : Sums(g, Z, k) /\ SumOf(g) = k[Z]
  BY <1>1, <1>2, SumOfSums
<1>6. \A x, y \in Z : b[x] = b[y] => x = y
  BY <1>3
<1>7. \A x \in Z : g[x] = f[b[x]]
  BY <1>3
<1>8. \A s \in SUBSET Z : k[s] = h[{b[x] : x \in s}]
  BY <1>1, <1>2, <1>5, <1>6, <1>7, SumsCorrespond
<1>9. k[Z] = h[{b[x] : x \in Z}]
  BY <1>8
<1> QED
  BY <1>4, <1>5, <1>9 DEF g

(* A sum is one of its terms and the sum of the others.                     *)
LEMMA SumWithout ==
    ASSUME NEW S, IsFiniteSet(S), NEW f \in [S -> Int], NEW x \in S
    PROVE  SumOf(f) = f[x] + SumOf([y \in S \ {x} |-> f[y]])
<1>1. PICK h : Sums(f, S, h) /\ SumOf(f) = h[S]
  BY SumOfSums
<1>2. S \ {x} \in SUBSET S
  OBVIOUS
<1>3. SumOf([y \in S \ {x} |-> f[y]]) = h[S \ {x}]
  BY <1>1, <1>2, SumOfPart
<1>4. h[S] = f[x] + h[S \ {x}]
  BY <1>1 DEF Sums
<1> QED
  BY <1>1, <1>3, <1>4

(* Of two sums over the same set, that of the smaller terms is no larger.   *)
LEMMA SumMonotone ==
    ASSUME NEW S, IsFiniteSet(S), NEW f \in [S -> Int], NEW g \in [S -> Int],
           \A x \in S : f[x] <= g[x]
    PROVE  SumOf(f) <= SumOf(g)
<1>1. PICK h : Sums(f, S, h) /\ SumOf(f) = h[S]
  BY SumOfSums
<1>2. PICK k : Sums(g, S, k) /\ SumOf(g) = k[S]
  BY SumOfSums
<1> DEFINE F == {s \in SUBSET S : ~(h[s] <= k[s])}
<1> SUFFICES ASSUME F # {} PROVE FALSE
  BY <1>1, <1>2
<1>3. PICK s \in F : \A U \in SUBSET s : U # s => U \notin F
  <2>1. F \subseteq SUBSET S
    OBVIOUS
  <2> HIDE DEF F
  <2> QED
    BY <2>1, SmallestSet
<1>4. s \in SUBSET S /\ ~(h[s] <= k[s])
  OBVIOUS
<1>5. s # {}
  <2> SUFFICES ASSUME s = {} PROVE FALSE
    OBVIOUS
  <2>1. h[s] = 0 /\ k[s] = 0
    BY <1>1, <1>2, Zenon DEF Sums
  <2> QED
    BY <1>4, <2>1
<1>6. PICK x \in s : TRUE
  BY <1>5
<1>7. h[s] = f[x] + h[s \ {x}] /\ k[s] = g[x] + k[s \ {x}]
  BY <1>1, <1>2, <1>4 DEF Sums
<1>8. s \ {x} \in SUBSET s /\ s \ {x} # s /\ s \ {x} \in SUBSET S
  BY <1>4
<1>9. h[s \ {x}] <= k[s \ {x}]
  <2>1. s \ {x} \notin F
    BY <1>3, <1>8
  <2> QED
    BY <2>1, <1>8
<1>10. /\ h[s \ {x}] \in Int /\ k[s \ {x}] \in Int
       /\ f[x] \in Int /\ g[x] \in Int /\ f[x] <= g[x]
  BY <1>1, <1>2, <1>4, <1>8 DEF Sums
<1> QED
  BY <1>4, <1>7, <1>9, <1>10

(* Leaving out what is not negative makes no sum larger. *)
LEMMA SumOfFewer ==
    ASSUME NEW S, IsFiniteSet(S), NEW f \in [S -> Int], \A x \in S : f[x] >= 0,
           NEW Z \in SUBSET S
    PROVE  SumOf([x \in Z |-> f[x]]) <= SumOf(f)
<1>1. PICK h : Sums(f, S, h) /\ SumOf(f) = h[S]
  BY SumOfSums
<1>2. \A s \in SUBSET S : h[s] \in Int
  BY <1>1 DEF Sums
<1> DEFINE F == {s \in SUBSET S : Z \subseteq s /\ ~(h[Z] <= h[s])}
<1>3. F = {}
  <2> SUFFICES ASSUME F # {} PROVE FALSE
    OBVIOUS
  <2>3. PICK s \in F : \A U \in SUBSET s : U # s => U \notin F
    <3>1. F \subseteq SUBSET S
      OBVIOUS
    <3> HIDE DEF F
    <3> QED
      BY <3>1, SmallestSet
  <2>4. s \in SUBSET S /\ Z \subseteq s /\ ~(h[Z] <= h[s])
    OBVIOUS
  <2>5. s # Z
    BY <1>2, <2>4
  <2>6. PICK x \in s : x \notin Z
    BY <2>4, <2>5
  <2>7. h[s] = f[x] + h[s \ {x}]
    BY <1>1, <2>4 DEF Sums
  <2>8. /\ s \ {x} \in SUBSET s /\ s \ {x} # s /\ s \ {x} \in SUBSET S
        /\ Z \subseteq s \ {x}
    BY <2>4, <2>6
  <2>9. h[Z] <= h[s \ {x}]
    <3>1. s \ {x} \notin F
      BY <2>3, <2>8
    <3> QED
      BY <3>1, <2>8
  <2>10. h[s \ {x}] \in Int /\ h[Z] \in Int /\ f[x] \in Int /\ f[x] >= 0
    BY <1>2, <2>4, <2>8
  <2> QED
    BY <2>4, <2>7, <2>9, <2>10
<1>4. h[Z] <= h[S]
  BY <1>3
<1>5. SumOf([x \in Z |-> f[x]]) = h[Z]
  BY <1>1, SumOfPart
<1> QED
  BY <1>1, <1>4, <1>5

-----------------------------------------------------------------------------
(* Transactions of any length and amounts. *)

OutTypeNames == Spendable \cup Unspendable \cup {"unknown"}

AnyOut == [value : Nat, type : OutTypeNames]

\* Outputs and inputs are sequences; of the inputs only that they are counts.
Transaction(t) == t.outs \in Seq(AnyOut) /\ Len(t.ins) \in Nat

\* Previous outputs, whichever were resolved.
Previous(pre) == pre \in [DOMAIN pre -> AnyOut]

(* Of a transaction, the places are finite sets and the values of outputs   *)
(* naturals.                                                                *)
LEMMA OutTypes ==
    ASSUME NEW t, Transaction(t)
    PROVE  /\ Len(t.outs) \in Nat
           /\ \A i \in OutsOf(t) : t.outs[i].value \in Nat /\ t.outs[i] \in AnyOut
           /\ IsFiniteSet(OutsOf(t)) /\ IsFiniteSet(InsOf(t))
<1>1. /\ t.outs \in Seq(AnyOut) /\ Len(t.ins) \in Nat
  BY DEF Transaction
<1>2. /\ Len(t.outs) \in Nat
      /\ \A i \in 1 .. Len(t.outs) : t.outs[i] \in AnyOut
  BY <1>1
<1>3. \A i \in OutsOf(t) : t.outs[i].value \in Nat /\ t.outs[i] \in AnyOut
  BY <1>2 DEF OutsOf, AnyOut
<1>4. IsFiniteSet(1 .. Len(t.outs)) /\ IsFiniteSet(1 .. Len(t.ins))
  <2>1. 1 \in Int /\ Len(t.outs) \in Int /\ Len(t.ins) \in Int
    BY <1>1, <1>2
  <2> QED
    BY <2>1, FS_Interval
<1> QED
  BY <1>2, <1>3, <1>4 DEF OutsOf, InsOf

(* Marker, fee, premix and residual outputs are of four kinds.              *)
LEMMA KindsApart ==
    ASSUME NEW t, Transaction(t), NEW p \in PoolDefs, NEW v \in PremixAmounts(t, p)
    PROVE  /\ v \in Nat /\ v > p.denom /\ v - p.denom <= p.maxReserve
           /\ PremixGroup(t, v) # {} /\ PremixGroup(t, v) \subseteq OutsOf(t)
           /\ PremixGroup(t, v) \cap PoolFees(t, p) = {}
           /\ PremixGroup(t, v) \cap Markers(t) = {}
           /\ PoolFees(t, p) \cap Markers(t) = {}
           /\ PoolFees(t, p) \subseteq OutsOf(t) /\ Markers(t) \subseteq OutsOf(t)
           /\ Change(t, p, v) \subseteq Residual(t, p, v)
           /\ Residual(t, p, v) = OutsOf(t) \ (PremixGroup(t, v) \cup Markers(t) \cup PoolFees(t, p))
<1>1. /\ p.denom \in Nat /\ p.maxReserve \in Nat
      /\ \A f \in p.fees : f \in Nat /\ f <= p.denom
  BY PoolDefAssumption
<1>2. PICK j \in OutsOf(t) : IsPremix(t.outs[j], p) /\ v = t.outs[j].value
  BY DEF PremixAmounts
<1>3. v \in Nat /\ Native(t.outs[j]) /\ 0 < v - p.denom /\ v - p.denom <= p.maxReserve
  BY <1>2, OutTypes DEF IsPremix
<1>4. v > p.denom
  BY <1>1, <1>3
<1>5. j \in PremixGroup(t, v)
  BY <1>2, <1>3 DEF PremixGroup
<1>6. \A i \in OutsOf(t) : t.outs[i].value = v => t.outs[i].value \notin p.fees
  BY <1>1, <1>3, <1>4
<1>7. PremixGroup(t, v) \cap PoolFees(t, p) = {}
  BY <1>6 DEF PremixGroup, PoolFees
<1>8. /\ PremixGroup(t, v) \cap Markers(t) = {}
      /\ PoolFees(t, p) \cap Markers(t) = {}
  BY DEF PremixGroup, PoolFees, Markers, Native
<1>9. /\ PoolFees(t, p) \subseteq OutsOf(t) /\ Markers(t) \subseteq OutsOf(t)
      /\ PremixGroup(t, v) \subseteq OutsOf(t)
      /\ Change(t, p, v) \subseteq Residual(t, p, v)
  BY DEF PremixGroup, PoolFees, Markers, Change
<1> QED
  BY <1>3, <1>4, <1>5, <1>7, <1>8, <1>9 DEF Residual

(* Each output has the role of its kind.                                    *)
LEMMA RolesOfKinds ==
    ASSUME NEW t, Transaction(t), NEW p \in PoolDefs, NEW v \in PremixAmounts(t, p),
           NEW i \in OutsOf(t)
    PROVE  /\ Tx0Role(t, p, v, i) = "doxxic_change" <=> i \in Change(t, p, v)
           /\ Tx0Role(t, p, v, i) = "coordinator_fee" <=> i \in PoolFees(t, p)
           /\ Tx0Role(t, p, v, i) = "op_return" <=> i \in Markers(t)
           /\ Tx0Role(t, p, v, i) = "premix" <=> i \in PremixGroup(t, v)
           /\ Tx0Role(t, p, v, i) = "unclassified" <=>
                 i \in Residual(t, p, v) \ Change(t, p, v)
           /\ Tx0Role(t, p, v, i) # "coinjoin"
<1> DEFINE chg == Change(t, p, v)
           fee == PoolFees(t, p)
           mrk == Markers(t)
           grp == PremixGroup(t, v)
           res == Residual(t, p, v)
<1>1. /\ grp \cap fee = {} /\ grp \cap mrk = {} /\ fee \cap mrk = {}
      /\ chg \subseteq res /\ res = OutsOf(t) \ (grp \cup mrk \cup fee)
  BY KindsApart
<1>2. Tx0Role(t, p, v, i) =
        CASE i \in chg   -> "doxxic_change"
          [] i \in fee   -> "coordinator_fee"
          [] i \in mrk   -> "op_return"
          [] i \in grp \ (fee \cup mrk) -> "premix"
          [] OTHER      -> "unclassified"
  BY DEF Tx0Role
<1> HIDE DEF chg, fee, mrk, grp, res
<1>3. CASE i \in chg
  <2>1. Tx0Role(t, p, v, i) = "doxxic_change"
    BY <1>1, <1>2, <1>3
  <2> QED
    BY <2>1, <1>1, <1>3 DEF chg, fee, mrk, grp, res
<1>4. CASE i \in fee
  <2>1. Tx0Role(t, p, v, i) = "coordinator_fee"
    BY <1>1, <1>2, <1>4
  <2> QED
    BY <2>1, <1>1, <1>4 DEF chg, fee, mrk, grp, res
<1>5. CASE i \in mrk
  <2>1. Tx0Role(t, p, v, i) = "op_return"
    BY <1>1, <1>2, <1>5
  <2> QED
    BY <2>1, <1>1, <1>5 DEF chg, fee, mrk, grp, res
<1>6. CASE i \in grp
  <2>1. Tx0Role(t, p, v, i) = "premix"
    BY <1>1, <1>2, <1>6
  <2> QED
    BY <2>1, <1>1, <1>6 DEF chg, fee, mrk, grp, res
<1>7. CASE i \in res \ chg
  <2>1. Tx0Role(t, p, v, i) = "unclassified"
    BY <1>1, <1>2, <1>7
  <2> QED
    BY <2>1, <1>1, <1>7 DEF chg, fee, mrk, grp, res
<1> QED
  BY <1>1, <1>3, <1>4, <1>5, <1>6, <1>7

\* The pairs of a pool and a premix amount that make a candidate.
Tx0Pair(t, pre, p, v) ==
    /\ p \in PoolDefs /\ v \in PremixAmounts(t, p)
    /\ Cardinality(PremixGroup(t, v)) <= p.maxPremix
    /\ Markers(t) \cup PoolFees(t, p) # {}
    /\ Cardinality(PremixGroup(t, v)) * p.denom <= MaxMoney
    /\ ~InvalidAccounting(t, pre)

(* There is a Tx0 candidate for each pair of a pool and an amount, and no   *)
(* other.                                                                   *)
LEMMA Tx0CandidatesAre ==
    ASSUME NEW t, NEW pre
    PROVE  \A c : c \in Tx0Candidates(t, pre) <=>
              \E p, v : Tx0Pair(t, pre, p, v) /\ c = Tx0Candidate(t, pre, p, v)
<1> DEFINE Cand(p, v) == Tx0Candidate(t, pre, p, v)
<1>1. \A c : c \in Tx0Candidates(t, pre) <=>
         /\ ~InvalidAccounting(t, pre)
         /\ \E p \in PoolDefs : \E v \in PremixAmounts(t, p) :
               /\ Cardinality(PremixGroup(t, v)) <= p.maxPremix
               /\ Markers(t) \cup PoolFees(t, p) # {}
               /\ Cardinality(PremixGroup(t, v)) * p.denom <= MaxMoney
               /\ c = Cand(p, v)
  <2> HIDE DEF Cand
  <2> QED
    BY DEF Tx0Candidates, Cand
<1> QED
  BY <1>1 DEF Tx0Pair

(* There is a round candidate for each pool whose round it can be, and no   *)
(* other.                                                                   *)
LEMMA RoundCandidatesAre ==
    ASSUME NEW t, NEW pre
    PROVE  \A c : c \in RoundCandidates(t, pre) <=>
              \E p \in PoolDefs : /\ RoundShape(t, p) /\ ~InvalidAccounting(t, pre)
                                 /\ (Resolved(pre) => RoundInputs(t, pre, p))
                                 /\ c = RoundCandidate(t, pre, p)
BY DEF RoundCandidates

(* The verdict is a candidate or unknown.                                   *)
LEMMA DetectIs ==
    ASSUME NEW t, NEW pre
    PROVE  \/ Detect(t, pre) \in Tx0Candidates(t, pre)
           \/ Detect(t, pre) \in RoundCandidates(t, pre)
           \/ Detect(t, pre) = Unknown(t)
<1> DEFINE tx0s == Best(Tx0Candidates(t, pre))
           rounds == Best(RoundCandidates(t, pre))
<1>1. tx0s \subseteq Tx0Candidates(t, pre) /\ rounds \subseteq RoundCandidates(t, pre)
  BY DEF Best
<1>2. Detect(t, pre) =
        IF Cardinality(tx0s) = 1 THEN CHOOSE c \in tx0s : TRUE
        ELSE IF tx0s = {} /\ Cardinality(rounds) = 1 THEN CHOOSE c \in rounds : TRUE
        ELSE Unknown(t)
  BY DEF Detect
<1> HIDE DEF tx0s, rounds
<1>3. CASE Cardinality(tx0s) = 1
  <2>1. tx0s # {}
    BY <1>3, FS_EmptySet
  <2>2. (CHOOSE c \in tx0s : TRUE) \in tx0s
    BY <2>1, Zenon
  <2> QED
    BY <1>1, <1>2, <1>3, <2>2
<1>4. CASE Cardinality(tx0s) # 1 /\ tx0s = {} /\ Cardinality(rounds) = 1
  <2>1. rounds # {}
    BY <1>4, FS_EmptySet
  <2>2. (CHOOSE c \in rounds : TRUE) \in rounds
    BY <2>1, Zenon
  <2> QED
    BY <1>1, <1>2, <1>4, <2>2 DEF tx0s
<1> QED
  BY <1>2, <1>3, <1>4

(* A Tx0 candidate of high confidence accounts for every output, whatever   *)
(* the transaction (_tx0_candidates).                                       *)
LEMMA CandidatesExplained ==
    ASSUME NEW t, Transaction(t), NEW pre, NEW c \in Tx0Candidates(t, pre)
    PROVE  c.kind = "tx0" /\ Tx0Explained(t, c)
<1>1. PICK p, v : Tx0Pair(t, pre, p, v) /\ c = Tx0Candidate(t, pre, p, v)
  BY Tx0CandidatesAre
<1>2. p \in PoolDefs /\ v \in PremixAmounts(t, p)
  BY <1>1 DEF Tx0Pair
<1>3. /\ c.kind = "tx0" /\ c.pool = p.id
      /\ c.conf = "high" => Explained(t, p, v)
      /\ c.roles = [i \in OutsOf(t) |-> Tx0Role(t, p, v, i)]
      /\ c.entered = Cardinality(PremixGroup(t, v)) * p.denom
  BY <1>1 DEF Tx0Candidate
<1>4. DOMAIN c.roles = OutsOf(t) /\ \A i \in OutsOf(t) : c.roles[i] = Tx0Role(t, p, v, i)
  BY <1>3
<1>5. /\ PremixGroup(t, v) # {} /\ PremixGroup(t, v) \subseteq OutsOf(t)
      /\ PoolFees(t, p) \subseteq OutsOf(t) /\ Markers(t) \subseteq OutsOf(t)
      /\ Change(t, p, v) \subseteq OutsOf(t)
      /\ Residual(t, p, v) \subseteq OutsOf(t)
  BY <1>2, KindsApart
<1>6. /\ WithRole(c, "op_return") = Markers(t)
      /\ WithRole(c, "coordinator_fee") = PoolFees(t, p)
      /\ WithRole(c, "doxxic_change") = Change(t, p, v)
      /\ WithRole(c, "premix") = PremixGroup(t, v)
      /\ WithRole(c, "unclassified") = Residual(t, p, v) \ Change(t, p, v)
  <2>1. \A i \in OutsOf(t) :
          /\ c.roles[i] = "doxxic_change" <=> i \in Change(t, p, v)
          /\ c.roles[i] = "coordinator_fee" <=> i \in PoolFees(t, p)
          /\ c.roles[i] = "op_return" <=> i \in Markers(t)
          /\ c.roles[i] = "premix" <=> i \in PremixGroup(t, v)
          /\ c.roles[i] = "unclassified" <=> i \in Residual(t, p, v) \ Change(t, p, v)
    BY <1>2, <1>4, RolesOfKinds
  <2> QED
    BY <2>1, <1>4, <1>5 DEF WithRole
<1>7. Cardinality(Change(t, p, v)) <= 1
  <2>1. CASE Change(t, p, v) = {}
    BY <2>1, FS_EmptySet
  <2>2. CASE Change(t, p, v) # {}
    <3>1. PICK i : i \in Change(t, p, v)
      BY <2>2
    <3>2. Residual(t, p, v) = {i}
      BY <3>1 DEF Change
    <3>3. Change(t, p, v) = {i}
      BY <3>1, <3>2 DEF Change
    <3>4. Cardinality({i}) = 1
      BY FS_Singleton
    <3> QED
      BY <3>3, <3>4
  <2> QED
    BY <2>1, <2>2
<1>8. Cardinality(PremixGroup(t, v)) \in 1 .. p.maxPremix
  <2>1. IsFiniteSet(PremixGroup(t, v))
    BY <1>5, OutTypes, FS_Subset
  <2>2. Cardinality(PremixGroup(t, v)) \in Nat /\ Cardinality(PremixGroup(t, v)) # 0
    BY <2>1, <1>5, FS_CardinalityType, FS_EmptySet
  <2>3. Cardinality(PremixGroup(t, v)) <= p.maxPremix /\ p.maxPremix \in Nat
    BY <1>1, <1>2, PoolDefAssumption DEF Tx0Pair
  <2> QED
    BY <2>2, <2>3
<1>9. Cardinality({t.outs[i].value : i \in PremixGroup(t, v)}) = 1
  <2>1. {t.outs[i].value : i \in PremixGroup(t, v)} = {v}
    BY <1>5 DEF PremixGroup
  <2> QED
    BY <2>1, FS_Singleton
<1>10. Explained(t, p, v) =>
         /\ Cardinality(Markers(t)) = 1 /\ Cardinality(PoolFees(t, p)) = 1
         /\ Residual(t, p, v) \ Change(t, p, v) = {}
  BY DEF Explained
<1> QED
  BY <1>2, <1>3, <1>6, <1>7, <1>8, <1>9, <1>10 DEF Tx0Explained

(* A candidate for a round is one of the pool whose round the transaction   *)
(* is, as far as the amounts known tell.                                    *)
LEMMA RoundCandidatesMix ==
    ASSUME NEW t, Transaction(t), NEW pre, Previous(pre), NEW p \in PoolDefs
    PROVE  /\ RoundShape(t, p) <=>
                /\ Len(t.ins) = Len(t.outs) /\ Len(t.ins) \in RoundSizes
                /\ \A i \in OutsOf(t) : t.outs[i] = Out(p.denom, "p2wpkh")
           /\ ~InvalidAccounting(t, pre) /\ (Resolved(pre) => RoundInputs(t, pre, p))
              /\ RoundShape(t, p) <=> Mixes(t, pre, p)
<1>1. \A i \in OutsOf(t) : /\ t.outs[i] \in AnyOut
                            /\ t.outs[i] = [value |-> t.outs[i].value, type |-> t.outs[i].type]
                            /\ t.outs[i].value \in Nat
  BY OutTypes DEF AnyOut
<1>2. RoundShape(t, p) <=>
        /\ Len(t.ins) = Len(t.outs) /\ Len(t.ins) \in RoundSizes
        /\ \A i \in OutsOf(t) : t.outs[i] = Out(p.denom, "p2wpkh")
  <2>1. \A i \in OutsOf(t) :
          Native(t.outs[i]) /\ t.outs[i].value = p.denom <=> t.outs[i] = Out(p.denom, "p2wpkh")
    BY <1>1 DEF Native, Out
  <2> QED
    BY <2>1 DEF RoundShape
<1>3. CASE ~Resolved(pre)
  BY <1>2, <1>3 DEF Resolved, InvalidAccounting, Mixes
<1>4. CASE Resolved(pre) /\ RoundShape(t, p)
  <2>1. p.denom \in Nat /\ p.maxReserve \in Nat
    BY PoolDefAssumption
  <2>2. OutsOf(t) = InsOf(t) /\ \A i \in InsOf(t) : t.outs[i].value = p.denom
    BY <1>4 DEF RoundShape, OutsOf, InsOf
  <2>3. \A o \in DOMAIN pre : pre[o].value \in Nat
    BY DEF Previous, AnyOut
  <2>4. RoundInputs(t, pre, p) <=>
          \A i \in InsOf(t) : \/ IsPremix(pre[t.ins[i]], p)
                             \/ /\ Native(pre[t.ins[i]])
                                /\ pre[t.ins[i]].value = p.denom
    BY DEF RoundInputs, PremixIns, RemixIns
  <2>5. ASSUME NEW i \in InsOf(t), t.ins[i] \in DOMAIN pre
        PROVE  (\/ IsPremix(pre[t.ins[i]], p)
                \/ /\ Native(pre[t.ins[i]])
                   /\ pre[t.ins[i]].value = p.denom)
               <=> /\ Native(pre[t.ins[i]])
                   /\ pre[t.ins[i]].value - p.denom \in 0 .. p.maxReserve
    BY <2>1, <2>3, <2>5 DEF IsPremix
  <2>6. CASE \A i \in InsOf(t) : t.ins[i] \in DOMAIN pre
    <3> DEFINE inn == [i \in InsOf(t) |-> pre[t.ins[i]].value]
               out == [i \in OutsOf(t) |-> t.outs[i].value]
    <3>1. /\ inn \in [InsOf(t) -> Int] /\ out \in [InsOf(t) -> Int]
          /\ IsFiniteSet(InsOf(t)) /\ IsFiniteSet(OutsOf(t))
      BY <2>2, <2>3, <2>6, <1>1, OutTypes
    <3>2. InputTotal(t, pre) = SumOf(inn) /\ OutputTotal(t) = SumOf(out)
      BY DEF InputTotal, OutputTotal
    <3>3. \A i \in InsOf(t) : inn[i] = pre[t.ins[i]].value /\ out[i] = p.denom
      BY <2>2
    <3> HIDE DEF inn, out
    <3>4. InputTotal(t, pre) \in Int /\ OutputTotal(t) \in Int
      BY <3>1, <3>2, SumType
    <3>5. InvalidAccounting(t, pre) <=>
            \/ InputTotal(t, pre) > MaxMoney \/ OutputTotal(t) > MaxMoney
            \/ MinerFee(t, pre) < 0
      BY <1>4, <2>3, <2>6 DEF InvalidAccounting
    <3>6. RoundInputs(t, pre, p) => ~(MinerFee(t, pre) < 0)
      <4> SUFFICES ASSUME RoundInputs(t, pre, p) PROVE ~(MinerFee(t, pre) < 0)
        OBVIOUS
      <4>1. \A i \in InsOf(t) : out[i] <= inn[i]
        BY <2>1, <2>3, <2>4, <2>5, <2>6, <3>3
      <4>2. SumOf(out) <= SumOf(inn)
        BY <3>1, <4>1, SumMonotone
      <4> QED
        BY <3>2, <3>4, <4>2 DEF MinerFee
    <3>7. RoundInputs(t, pre, p) <=>
            \A i \in InsOf(t) : /\ Native(pre[t.ins[i]])
                               /\ pre[t.ins[i]].value - p.denom \in 0 .. p.maxReserve
      BY <2>4, <2>5, <2>6
    <3>8. Mixes(t, pre, p) <=>
            /\ \A i \in InsOf(t) : /\ Native(pre[t.ins[i]])
                                  /\ pre[t.ins[i]].value - p.denom \in 0 .. p.maxReserve
            /\ OutputTotal(t) <= MaxMoney /\ InputTotal(t, pre) <= MaxMoney
      BY <1>2, <1>4, <2>6 DEF Mixes, Resolved
    <3>9. /\ ~(InputTotal(t, pre) > MaxMoney) <=> InputTotal(t, pre) <= MaxMoney
          /\ ~(OutputTotal(t) > MaxMoney) <=> OutputTotal(t) <= MaxMoney
      BY <3>4, MoneyAssumption
    <3> QED
      BY <1>2, <1>4, <3>5, <3>6, <3>7, <3>8, <3>9
  <2>7. CASE ~ \A i \in InsOf(t) : t.ins[i] \in DOMAIN pre
    BY <1>2, <1>4, <2>7 DEF InvalidAccounting, Mixes, Resolved
  <2> QED
    BY <2>6, <2>7
<1>5. CASE ~RoundShape(t, p)
  BY <1>2, <1>5 DEF Mixes
<1> QED
  BY <1>2, <1>3, <1>4, <1>5

(* No output at a pool's denomination is a premix output of any pool: a     *)
(* round has no Tx0 candidate that could get in its way.                    *)
LEMMA RoundsAreNoTx0s ==
    ASSUME NEW t, Transaction(t), NEW pre, NEW p \in PoolDefs, RoundShape(t, p)
    PROVE  Tx0Candidates(t, pre) = {}
<1>1. \A i \in OutsOf(t) : t.outs[i].value = p.denom
  BY DEF RoundShape
<1>2. ASSUME NEW q \in PoolDefs PROVE PremixAmounts(t, q) = {}
  BY <1>1, PoolsApart DEF PremixAmounts, IsPremix
<1>3. \A q, v : ~Tx0Pair(t, pre, q, v)
  BY <1>2 DEF Tx0Pair
<1> QED
  BY <1>3, Tx0CandidatesAre

(* What a transaction's verdict is, that has the shape of a round.          *)
LEMMA RoundVerdict ==
    ASSUME NEW t, Transaction(t), NEW pre, Previous(pre),
           NEW p \in PoolDefs, Mixes(t, pre, p)
    PROVE  Detect(t, pre) = RoundCandidate(t, pre, p)
<1>1. /\ RoundShape(t, p) /\ ~InvalidAccounting(t, pre)
      /\ Resolved(pre) => RoundInputs(t, pre, p)
  BY RoundCandidatesMix
<1>2. Tx0Candidates(t, pre) = {}
  BY <1>1, RoundsAreNoTx0s
<1> DEFINE x == RoundCandidate(t, pre, p)
<1>3. RoundCandidates(t, pre) = {x}
  <2>1. x \in RoundCandidates(t, pre)
    BY <1>1, RoundCandidatesAre
  <2>2. ASSUME NEW c \in RoundCandidates(t, pre) PROVE c = x
    <3>1. PICK q \in PoolDefs : RoundShape(t, q) /\ c = RoundCandidate(t, pre, q)
      BY RoundCandidatesAre
    <3>2. 1 \in OutsOf(t)
      <4>1. Len(t.outs) \in RoundSizes
        BY <1>1 DEF RoundShape
      <4>2. Len(t.outs) \in Nat /\ Len(t.outs) >= 1
        BY <4>1, RoundSizeAssumption
      <4> QED
        BY <4>2 DEF OutsOf
    <3>3. t.outs[1].value = q.denom /\ t.outs[1].value = p.denom
      BY <1>1, <3>1, <3>2 DEF RoundShape
    <3>4. q = p
      BY <3>3, PoolsDistinct
    <3> QED
      BY <3>1, <3>4
  <2> HIDE DEF x
  <2> QED
    BY <2>1, <2>2
<1>4. x.score \in Nat
  BY DEF RoundCandidate, If
<1> HIDE DEF x
<1>5. Best(RoundCandidates(t, pre)) = {x}
  BY <1>3, <1>4 DEF Best
<1>6. Best(Tx0Candidates(t, pre)) = {}
  BY <1>2 DEF Best
<1>7. Cardinality({}) # 1 /\ Cardinality({x}) = 1
  BY FS_EmptySet, FS_Singleton
<1>8. (CHOOSE c \in {x} : TRUE) = x
  BY Zenon
<1>9. Detect(t, pre) = x
  <2> DEFINE tx0s == Best(Tx0Candidates(t, pre))
             rounds == Best(RoundCandidates(t, pre))
  <2>1. Detect(t, pre) =
          IF Cardinality(tx0s) = 1 THEN CHOOSE c \in tx0s : TRUE
          ELSE IF tx0s = {} /\ Cardinality(rounds) = 1 THEN CHOOSE c \in rounds : TRUE
          ELSE Unknown(t)
    BY DEF Detect
  <2>2. tx0s = {} /\ rounds = {x}
    BY <1>5, <1>6
  <2> HIDE DEF tx0s, rounds
  <2>3. Cardinality(tx0s) # 1 /\ Cardinality(rounds) = 1
    BY <2>2, <1>7, Zenon
  <2>4. Detect(t, pre) = CHOOSE c \in rounds : TRUE
    BY <2>1, <2>2, <2>3
  <2> QED
    BY <2>2, <2>4, <1>8, Zenon
<1> QED
  BY <1>9 DEF x

(* A transaction is called a round exactly if it is of the shape of a       *)
(* pool's round with nothing known against it, whatever the transaction     *)
(* (detect_whirlpool).                                                      *)
LEMMA RoundsExactAlways ==
    ASSUME NEW t, Transaction(t), NEW pre, Previous(pre)
    PROVE  RoundsExact(t, pre, Detect(t, pre))
<1>1. \A p : /\ RoundCandidate(t, pre, p).kind = "whirlpool_round"
             /\ RoundCandidate(t, pre, p).pool = p.id
  BY DEF RoundCandidate
<1>2. ASSUME NEW p \in PoolDefs, Mixes(t, pre, p)
      PROVE  Detect(t, pre).kind = "whirlpool_round" /\ Detect(t, pre).pool = p.id
  BY <1>1, <1>2, RoundVerdict
<1>3. ASSUME Detect(t, pre).kind = "whirlpool_round"
      PROVE  \E p \in PoolDefs : Mixes(t, pre, p)
  <2>1. Detect(t, pre) \notin Tx0Candidates(t, pre)
    BY <1>3, CandidatesExplained
  <2>2. Detect(t, pre) # Unknown(t)
    <3>1. Unknown(t).kind = "unknown"
      BY DEF Unknown
    <3> QED
      BY <1>3, <3>1
  <2>3. Detect(t, pre) \in RoundCandidates(t, pre)
    BY <2>1, <2>2, DetectIs
  <2> QED
    BY <2>3, RoundCandidatesAre, RoundCandidatesMix
<1> QED
  BY <1>2, <1>3 DEF RoundsExact

(* The verdict accounts for every output if it is a Tx0 of high confidence. *)
LEMMA Tx0ExplainedAlways ==
    ASSUME NEW t, Transaction(t), NEW pre
    PROVE  Tx0Explained(t, Detect(t, pre))
<1>1. \A c : c.kind # "tx0" => Tx0Explained(t, c)
  BY DEF Tx0Explained
<1>2. Unknown(t).kind # "tx0"
  BY DEF Unknown
<1>3. \A p : RoundCandidate(t, pre, p).kind # "tx0"
  BY DEF RoundCandidate
<1>4. \A c \in RoundCandidates(t, pre) : c.kind # "tx0"
  BY <1>3, RoundCandidatesAre
<1> QED
  BY <1>1, <1>2, <1>4, DetectIs, CandidatesExplained

-----------------------------------------------------------------------------
(* The transactions that can be put together. *)

Outpoints == CoinSet \cup {"a", "b", "c", "d", "e"}

Prints == {PrintOf[o] : o \in DOMAIN PrintOf}

DetectorTypes ==
    /\ tx \in [txid : {"W", "T"}, ins : Seq(Outpoints), outs : Seq(AnyOut),
               vsize : Nat \ {0}, prints : Seq(Prints)]
    /\ Len(tx.prints) = Len(tx.ins)
    /\ Previous(prev)
    /\ Spending => DOMAIN prev \subseteq CoinSet

(* The outputs to choose from are outputs.                                  *)
LEMMA OutputsTyped == MixOutputs \cup SpendOutputs \subseteq AnyOut
<1>1. \A v \in Nat : \A type \in OutTypeNames : Out(v, type) \in AnyOut
  BY DEF Out, AnyOut
<1>2. MixOutputs \subseteq AnyOut
  BY <1>1 DEF MixOutputs, MixAmounts, OutTypeNames, Spendable, Unspendable
<1>3. SpendOutputs \subseteq AnyOut
  BY <1>1 DEF SpendOutputs, OutTypeNames, Spendable, Unspendable
<1> QED
  BY <1>2, <1>3

(* So are the coins, each of which has a print.                             *)
LEMMA CoinsTyped ==
    /\ \A o \in CoinSet : Coins[o] \in AnyOut
    /\ DOMAIN PrintOf = CoinSet /\ R(1) \in CoinSet
<1>1. \A v \in Nat : Out(v, "p2wpkh") \in AnyOut /\ Out(v, "p2tr") \in AnyOut
  BY DEF Out, AnyOut, OutTypeNames, Spendable
<1>2. ASSUME NEW o \in CoinSet PROVE Coins[o] \in AnyOut
  <2>1. CASE o \in {R(1), R(2)}
    <3>1. o[1] = "R"
      BY <2>1 DEF R
    <3>2. Coins[o] = Out(5, "p2wpkh")
      BY <3>1 DEF Coins
    <3> QED
      BY <1>1, <3>2
  <2>2. CASE o = <<"Q", 1>>
    <3>1. Coins[o] = Out(7, "p2wpkh")
      BY <2>2 DEF Coins
    <3> QED
      BY <1>1, <3>1
  <2>3. CASE o = <<"Q", 2>>
    <3>1. Coins[o] = Out(2, "p2tr")
      BY <2>3 DEF Coins
    <3> QED
      BY <1>1, <3>1
  <2>4. CASE o = <<"S", 1>>
    <3>1. Coins[o] = Out(1, "p2wpkh")
      BY <2>4 DEF Coins
    <3> QED
      BY <1>1, <3>1
  <2> QED
    BY <2>1, <2>2, <2>3, <2>4 DEF CoinSet
<1>3. DOMAIN PrintOf = CoinSet /\ R(1) \in CoinSet
  BY DEF PrintOf, CoinSet
<1> QED
  BY <1>2, <1>3

(* Initially the transaction has its inputs and no outputs.                 *)
LEMMA TypesInitially == Init => DetectorTypes
<1>1. ASSUME NEW s \in MixInputs,
             tx = [txid |-> "W", ins |-> s[1], outs |-> << >>, vsize |-> 1,
                   prints |-> [i \in DOMAIN s[1] |-> PrintOf[R(1)]]],
             prev = Only(s[2])
      PROVE  DetectorTypes
  <2>1. s[1] \in Seq(Outpoints) /\ s[2] \subseteq {"a", "b", "c", "d", "e"}
    <3>1. /\ s[1] \in {<<"a", "b">>, <<"a", "e">>, <<"a", "b", "c">>, <<"d">>}
          /\ s[2] \subseteq {"a", "b", "c", "d", "e"}
      BY DEF MixInputs
    <3>2. {"a", "b", "c", "d", "e"} \subseteq Outpoints
      BY DEF Outpoints
    <3>3. /\ <<"a", "b">> \in Seq(Outpoints) /\ <<"a", "e">> \in Seq(Outpoints)
          /\ <<"a", "b", "c">> \in Seq(Outpoints) /\ <<"d">> \in Seq(Outpoints)
      BY <3>2
    <3> QED
      BY <3>1, <3>3
  <2>2. Only(s[2]) \in [s[2] -> AnyOut]
    <3>1. \A v \in Nat : Out(v, "p2wpkh") \in AnyOut /\ Out(v, "p2tr") \in AnyOut
      BY DEF Out, AnyOut, OutTypeNames, Spendable
    <3>2. \A o \in {"a", "b", "c", "d", "e"} : Named[o] \in AnyOut
      BY <3>1 DEF Named
    <3> QED
      BY <2>1, <3>2 DEF Only
  <2>3. Previous(prev)
    BY <2>2, <1>1 DEF Previous
  <2>4. PrintOf[R(1)] \in Prints
    BY CoinsTyped DEF Prints
  <2>5. /\ [i \in DOMAIN s[1] |-> PrintOf[R(1)]] \in Seq(Prints)
        /\ Len([i \in DOMAIN s[1] |-> PrintOf[R(1)]]) = Len(s[1])
    <3> DEFINE f == [i \in 1 .. Len(s[1]) |-> PrintOf[R(1)]]
    <3>1. Len(s[1]) \in Nat /\ DOMAIN s[1] = 1 .. Len(s[1])
      BY <2>1
    <3>2. \A i \in 1 .. Len(s[1]) : f[i] \in Prints
      BY <2>4
    <3> QED
      BY <3>1, <3>2
  <2>6. << >> \in Seq(AnyOut) /\ 1 \in Nat \ {0}
    OBVIOUS
  <2> QED
    BY <1>1, <2>1, <2>3, <2>5, <2>6 DEF DetectorTypes, Spending
<1>2. ASSUME NEW size \in {1, 3},
             tx = [txid |-> "T", ins |-> << >>, outs |-> << >>, vsize |-> size,
                   prints |-> << >>],
             prev = << >>
      PROVE  DetectorTypes
  <2>1. /\ << >> \in Seq(AnyOut) /\ << >> \in Seq(Outpoints)
        /\ << >> \in Seq(Prints) /\ size \in Nat \ {0}
        /\ Len(<< >>) = Len(<< >>)
    OBVIOUS
  <2>2. Previous(prev)
    BY <1>2 DEF Previous
  <2> QED
    BY <1>2, <2>1, <2>2 DEF DetectorTypes, Spending
<1> QED
  BY <1>1, <1>2 DEF Init

(* Swapping two neighbours keeps a sequence and all but those two.          *)
LEMMA SwappedTyped ==
    ASSUME NEW S, NEW s \in Seq(S), NEW i \in 1 .. Len(s) - 1
    PROVE  /\ Swapped(s, i) \in Seq(S) /\ Len(Swapped(s, i)) = Len(s)
           /\ Swapped(s, i)[i] = s[i + 1] /\ Swapped(s, i)[i + 1] = s[i]
           /\ \A j \in 1 .. Len(s) : j # i /\ j # i + 1 => Swapped(s, i)[j] = s[j]
<1>1. /\ Len(s) \in Nat /\ i \in 1 .. Len(s) /\ i + 1 \in 1 .. Len(s)
      /\ DOMAIN s = 1 .. Len(s) /\ \A j \in 1 .. Len(s) : s[j] \in S
  OBVIOUS
<1> DEFINE w == Swapped(s, i)
<1>2. w = [[s EXCEPT ![i] = s[i + 1]] EXCEPT ![i + 1] = s[i]]
  BY DEF Swapped
<1>3. /\ DOMAIN w = 1 .. Len(s)
      /\ \A j \in 1 .. Len(s) :
            w[j] = IF j = i + 1 THEN s[i] ELSE IF j = i THEN s[i + 1] ELSE s[j]
      /\ w = [j \in 1 .. Len(s) |-> w[j]]
  BY <1>1, <1>2
<1> HIDE DEF w
<1>4. \A j \in 1 .. Len(s) : w[j] \in S
  BY <1>1, <1>3
<1>5. w \in Seq(S) /\ Len(w) = Len(s)
  BY <1>1, <1>3, <1>4
<1>6. i # i + 1
  BY <1>1
<1> QED
  BY <1>1, <1>3, <1>5, <1>6 DEF w

(* Every step leaves a transaction and previous outputs.                    *)
LEMMA TypesKept == DetectorTypes /\ [Next]_vars => DetectorTypes'
<1> SUFFICES ASSUME DetectorTypes, [Next]_vars PROVE DetectorTypes'
  OBVIOUS
<1> USE DEF Previous
<1>1. /\ tx = [txid |-> tx.txid, ins |-> tx.ins, outs |-> tx.outs,
               vsize |-> tx.vsize, prints |-> tx.prints]
      /\ tx.txid \in {"W", "T"} /\ tx.ins \in Seq(Outpoints) /\ tx.outs \in Seq(AnyOut)
      /\ tx.vsize \in Nat \ {0} /\ tx.prints \in Seq(Prints)
      /\ Len(tx.prints) = Len(tx.ins) /\ prev \in [DOMAIN prev -> AnyOut]
      /\ Spending => DOMAIN prev \subseteq CoinSet
  BY DEF DetectorTypes, Spending
<1>2. ASSUME NEW o \in CoinSet, AddInput(o) PROVE DetectorTypes'
  <2>1. /\ tx' = [tx EXCEPT !.ins = Append(@, o), !.prints = Append(@, PrintOf[o])]
        /\ prev' = [q \in DOMAIN prev \cup {o} |-> Coins[q]] /\ Spending
    BY <1>2 DEF AddInput
  <2>2. o \in Outpoints /\ PrintOf[o] \in Prints
    BY CoinsTyped DEF Outpoints, Prints
  <2> DEFINE in == Append(tx.ins, o)
             pr == Append(tx.prints, PrintOf[o])
  <2>3. in \in Seq(Outpoints) /\ pr \in Seq(Prints) /\ Len(in) = Len(pr)
    BY <1>1, <2>2
  <2>4. tx' = [tx EXCEPT !.ins = in, !.prints = pr]
    BY <2>1
  <2> HIDE DEF in, pr
  <2>5. /\ prev' \in [DOMAIN prev' -> AnyOut] /\ DOMAIN prev' \subseteq CoinSet
    BY <1>1, <2>1, CoinsTyped
  <2> QED
    BY <1>1, <2>3, <2>4, <2>5 DEF DetectorTypes, Spending
<1>3. ASSUME NEW out \in MixOutputs \cup SpendOutputs, AddOutput(out)
      PROVE  DetectorTypes'
  <2>1. tx' = [tx EXCEPT !.outs = Append(@, out)] /\ prev' = prev
    BY <1>3 DEF AddOutput
  <2>2. Append(tx.outs, out) \in Seq(AnyOut)
    BY <1>1, OutputsTyped
  <2> QED
    BY <1>1, <2>1, <2>2 DEF DetectorTypes, Spending
<1>4. ASSUME NEW i \in 1 .. Len(tx.ins) - 1, SwapInputs(i) PROVE DetectorTypes'
  <2>1. /\ tx' = [tx EXCEPT !.ins = Swapped(@, i), !.prints = Swapped(@, i)]
        /\ prev' = prev
    BY <1>4 DEF SwapInputs
  <2>2. /\ Swapped(tx.ins, i) \in Seq(Outpoints) /\ Swapped(tx.prints, i) \in Seq(Prints)
        /\ Len(Swapped(tx.ins, i)) = Len(Swapped(tx.prints, i))
    BY <1>1, SwappedTyped
  <2> QED
    BY <1>1, <2>1, <2>2 DEF DetectorTypes, Spending
<1>5. ASSUME NEW i \in 1 .. Len(tx.outs) - 1, SwapOutputs(i) PROVE DetectorTypes'
  <2>1. tx' = [tx EXCEPT !.outs = Swapped(@, i)] /\ prev' = prev
    BY <1>5 DEF SwapOutputs
  <2>2. Swapped(tx.outs, i) \in Seq(AnyOut)
    BY <1>1, SwappedTyped
  <2> QED
    BY <1>1, <2>1, <2>2 DEF DetectorTypes, Spending
<1>6. ASSUME NEW o, Track(o) PROVE DetectorTypes'
  BY <1>1, <1>6 DEF Track, DetectorTypes, Spending
<1>7. CASE UNCHANGED vars
  BY <1>1, <1>7 DEF vars, DetectorTypes, Spending
<1> QED
  BY <1>2, <1>3, <1>4, <1>5, <1>6, <1>7 DEF Next

(* Whatever was put together is a transaction.                              *)
LEMMA TypesAlways == Spec => []DetectorTypes
BY TypesInitially, TypesKept, PTL DEF Spec

(* A Tx0 verdict of high confidence accounts for every output, and a round  *)
(* is called one exactly when it is (_tx0_candidates, _round_candidates,    *)
(* detect_whirlpool).                                                       *)
THEOREM VerdictsAlwaysExplained == Spec => []VerdictsExplained
<1>1. DetectorTypes => VerdictsExplained
  <2> SUFFICES ASSUME DetectorTypes
               PROVE  Tx0Explained(tx, Detect(tx, prev)) /\ RoundsExact(tx, prev, Detect(tx, prev))
    BY DEF VerdictsExplained, Verdict
  <2>1. Transaction(tx) /\ Previous(prev)
    BY DEF DetectorTypes, Spending, Transaction
  <2> QED
    BY <2>1, Tx0ExplainedAlways, RoundsExactAlways
<1> QED
  BY <1>1, TypesAlways, PTL

-----------------------------------------------------------------------------
(* Unnecessary inputs. *)

(* No input is spent twice by a spend whose inputs are all different.       *)
LEMMA DistinctInputs ==
    ASSUME NEW t, Len(t.ins) \in Nat, Distinct(t)
    PROVE  \A i, j \in InsOf(t) : t.ins[i] = t.ins[j] => i = j
<1> DEFINE N == InsOf(t)
           V == InSet(t)
           f == [i \in N |-> t.ins[i]]
<1>1. IsFiniteSet(N) /\ Cardinality(N) = Len(t.ins)
  <2>1. IsFiniteSet(1 .. Len(t.ins)) /\ Cardinality(1 .. Len(t.ins)) = Len(t.ins)
    BY FS_Interval
  <2> QED
    BY <2>1 DEF InsOf
<1>2. Cardinality(N) = Cardinality(V)
  BY <1>1 DEF Distinct
<1>3. V = {t.ins[i] : i \in N}
  BY DEF InSet
<1>4. /\ f \in [N -> V] /\ \A y \in V : \E i \in N : f[i] = y
      /\ \A i \in N : f[i] = t.ins[i]
  BY <1>3
<1> HIDE DEF f, N, V
<1>5. f \in Surjection(N, V)
  BY <1>4 DEF Surjection
<1>6. f \in Injection(N, V)
  BY <1>1, <1>2, <1>5, FS_SurjSameCardinalityImpliesInj
<1>7. \A i, j \in N : f[i] = f[j] => i = j
  BY <1>6 DEF Injection, IsInjective
<1> QED
  BY <1>4, <1>7 DEF N

(* Of different inputs that are all known, the total is that of the set.    *)
LEMMA TotalOfInputs ==
    ASSUME NEW t, Len(t.ins) \in Nat, Distinct(t), NEW pre, Previous(pre),
           DOMAIN pre = InSet(t)
    PROVE  /\ IsFiniteSet(InSet(t))
           /\ [o \in InSet(t) |-> pre[o].value] \in [InSet(t) -> Nat]
           /\ InputTotal(t, pre) = Total(InSet(t), pre)
           /\ InputTotal(t, pre) \in Int
<1> DEFINE N == InsOf(t)
           V == InSet(t)
           b == [i \in N |-> t.ins[i]]
           f == [i \in N |-> pre[t.ins[i]].value]
           g == [o \in V |-> pre[o].value]
<1>1. IsFiniteSet(N)
  <2>1. IsFiniteSet(1 .. Len(t.ins))
    BY FS_Interval
  <2> QED
    BY <2>1 DEF InsOf
<1>2. V = {t.ins[i] : i \in N}
  BY DEF InSet
<1>3. \A i, j \in N : t.ins[i] = t.ins[j] => i = j
  BY DistinctInputs
<1>4. \A o \in V : pre[o].value \in Nat
  BY DEF Previous, AnyOut
<1>5. g \in [V -> Nat] /\ g \in [V -> Int]
  BY <1>4
<1>6. f \in [N -> Int]
  BY <1>2, <1>4
<1>7. /\ b \in [N -> V] /\ \A i \in N : b[i] = t.ins[i] /\ f[i] = g[b[i]]
      /\ \A o \in V : \E i \in N : b[i] = o
  BY <1>2
<1>8. IsFiniteSet(V)
  <2> HIDE DEF b
  <2>1. b \in Surjection(N, V)
    BY <1>7 DEF Surjection
  <2> QED
    BY <1>1, <2>1, FS_Surjection
<1>9. InputTotal(t, pre) = SumOf(f) /\ Total(V, pre) = SumOf(g)
  BY DEF InputTotal, Total
<1>10. \A i, j \in N : b[i] = b[j] => i = j
  BY <1>3, <1>7
<1>11. SumOf(f) = SumOf(g) /\ SumOf(f) \in Int
  <2>1. \A i \in N : f[i] = g[b[i]]
    BY <1>7
  <2> HIDE DEF b, f, g, N, V
  <2>2. SumOf(f) = SumOf(g)
    <3>1. b \in [N -> V] /\ \A o \in V : \E i \in N : b[i] = o
      BY <1>7
    <3> QED
      BY <1>1, <1>5, <1>6, <1>8, <1>10, <2>1, <3>1, SumReindexed, SMTT(30)
  <2>3. SumOf(f) \in Int
    BY <1>1, <1>6, SumType
  <2> QED
    BY <2>2, <2>3
<1> QED
  BY <1>5, <1>8, <1>9, <1>11

(* All but a smallest of the values is the most that some can be, not all.  *)
LEMMA MostOfSome ==
    ASSUME NEW V, IsFiniteSet(V), V # {}, NEW g \in [V -> Nat], NEW least \in Nat,
           \A o \in V : least <= g[o], \E o \in V : g[o] = least
    PROVE  \A n \in Int :
             (\E S \in (SUBSET V) \ {V} : SumOf(Restrict(g, S)) >= n)
             <=> SumOf(g) - least >= n
<1>1. g \in [V -> Int] /\ \A o \in V : g[o] >= 0
  OBVIOUS
<1>2. SumOf(g) \in Int
  BY <1>1, SumType
<1>3. \A o \in V : /\ SumOf([x \in V \ {o} |-> g[x]]) = SumOf(g) - g[o]
                   /\ SumOf([x \in V \ {o} |-> g[x]]) \in Int
  <2> SUFFICES ASSUME NEW o \in V
               PROVE  /\ SumOf([x \in V \ {o} |-> g[x]]) = SumOf(g) - g[o]
                      /\ SumOf([x \in V \ {o} |-> g[x]]) \in Int
    OBVIOUS
  <2> DEFINE r == [x \in V \ {o} |-> g[x]]
  <2>1. SumOf(g) = g[o] + SumOf(r)
    BY <1>1, SumWithout
  <2>2. r \in [V \ {o} -> Int] /\ IsFiniteSet(V \ {o})
    BY <1>1, FS_Subset
  <2> HIDE DEF r
  <2>3. SumOf(r) \in Int
    BY <2>2, SumType
  <2>4. g[o] \in Int
    BY <1>1
  <2>5. SumOf(r) = SumOf(g) - g[o]
    BY <2>1, <2>3, <2>4
  <2> QED
    BY <2>3, <2>5 DEF r
<1>4. \A S \in (SUBSET V) \ {V} : /\ SumOf([o \in S |-> g[o]]) \in Int
                                /\ SumOf([o \in S |-> g[o]]) <= SumOf(g) - least
  <2> SUFFICES ASSUME NEW S \in SUBSET V, S # V
               PROVE  /\ SumOf([o \in S |-> g[o]]) \in Int
                      /\ SumOf([o \in S |-> g[o]]) <= SumOf(g) - least
    OBVIOUS
  <2>1. PICK o \in V : o \notin S
    OBVIOUS
  <2> DEFINE r == [x \in V \ {o} |-> g[x]]
             q == [x \in S |-> g[x]]
  <2>2. /\ r \in [V \ {o} -> Int] /\ IsFiniteSet(V \ {o}) /\ IsFiniteSet(S)
        /\ \A x \in V \ {o} : r[x] >= 0
    BY <1>1, FS_Subset
  <2>3. S \in SUBSET (V \ {o}) /\ q \in [S -> Int] /\ q = [x \in S |-> r[x]]
    BY <1>1, <2>1
  <2>4. SumOf(r) = SumOf(g) - g[o] /\ SumOf(r) \in Int
    BY <1>3
  <2> HIDE DEF r, q
  <2>5. SumOf(q) <= SumOf(r)
    BY <2>2, <2>3, SumOfFewer
  <2>6. SumOf(q) \in Int
    BY <2>2, <2>3, SumType
  <2>7. g[o] \in Int /\ least <= g[o]
    BY <1>1
  <2>8. SumOf(q) <= SumOf(g) - least
    BY <1>2, <2>4, <2>5, <2>6, <2>7
  <2> QED
    BY <2>6, <2>8 DEF q
<1>5. PICK o \in V : g[o] = least
  OBVIOUS
<1>6. /\ V \ {o} \in (SUBSET V) \ {V}
      /\ SumOf([x \in V \ {o} |-> g[x]]) = SumOf(g) - least
  BY <1>3, <1>5
<1> SUFFICES ASSUME NEW n \in Int
             PROVE  (\E S \in (SUBSET V) \ {V} : SumOf([x \in S |-> g[x]]) >= n)
                    <=> SumOf(g) - least >= n
  BY DEF Restrict
<1>7. ASSUME NEW S \in (SUBSET V) \ {V}, SumOf([x \in S |-> g[x]]) >= n
      PROVE  SumOf(g) - least >= n
  BY <1>2, <1>4, <1>7
<1> QED
  BY <1>6, <1>7

(* The extremes of two amounts. *)
LEMMA ExtremesOfTwo ==
    ASSUME NEW a \in Nat, NEW b \in Nat
    PROVE  /\ Max({a, b}) \in Nat /\ Min({a, b}) \in Nat
           /\ Min({a, b}) <= Max({a, b})
<1> DEFINE IsMax(x) == x \in {a, b} /\ \A y \in {a, b} : x >= y
           IsMin(x) == x \in {a, b} /\ \A y \in {a, b} : x <= y
<1>1. \E x : IsMax(x)
  <2>1. CASE a >= b
    BY <2>1
  <2>2. CASE b >= a
    BY <2>2
  <2> QED
    BY <2>1, <2>2
<1>2. \E x : IsMin(x)
  <2>1. CASE a <= b
    BY <2>1
  <2>2. CASE b <= a
    BY <2>2
  <2> QED
    BY <2>1, <2>2
<1>3. Max({a, b}) = CHOOSE x : IsMax(x)
  BY DEF Max
<1>4. Min({a, b}) = CHOOSE x : IsMin(x)
  BY DEF Min
<1> HIDE DEF IsMax, IsMin
<1>5. IsMax(Max({a, b})) /\ IsMin(Min({a, b}))
  BY <1>1, <1>2, <1>3, <1>4, Zenon
<1> QED
  BY <1>5 DEF IsMax, IsMin

(* A set of naturals has its minimum in it. *)
LEMMA MinOfNaturals ==
    ASSUME NEW T, T \subseteq Nat, T # {}
    PROVE  Min(T) \in T /\ \A y \in T : Min(T) <= y
<1> DEFINE IsMin(x) == x \in T /\ \A y \in T : x <= y
<1>1. \E x : IsMin(x)
  BY LeastNatural
<1>2. Min(T) = CHOOSE x : IsMin(x)
  BY DEF Min
<1> HIDE DEF IsMin
<1>3. IsMin(Min(T))
  BY <1>1, <1>2, Zenon
<1> QED
  BY <1>3 DEF IsMin

(* The verdict on unnecessary inputs is that of the search over all sets.   *)
LEMMA UnnecessaryAlwaysReal ==
    ASSUME NEW t, Transaction(t), NEW pre, Previous(pre), NEW known,
           NEW e \in Payjoin(t, pre, known)
    PROVE  UnnecessaryReal(t, pre, e)
<1> DEFINE V == InSet(t)
           g == [o \in V |-> pre[o].value]
           fee == MinerFee(t, pre)
           values == {pre[t.ins[i]].value : i \in InsOf(t)}
           amounts == {t.outs[i].value : i \in OutsOf(t)}
           capacity == InputTotal(t, pre) - Min(values)
           Pays(v) == \E S \in (SUBSET V) \ {V} : Total(S, pre) >= v + fee
<1>1. /\ JoinsCoins(t, pre) /\ Len(t.outs) = 2 /\ Funded(t, pre)
      /\ e.uih = Unnecessary(t, pre)
  BY DEF Payjoin
<1>2. Len(t.ins) \in Nat /\ Len(t.ins) >= 2 /\ Distinct(t) /\ DOMAIN pre = V
  BY <1>1 DEF JoinsCoins, Transaction
<1>3. /\ IsFiniteSet(V) /\ g \in [V -> Nat]
      /\ InputTotal(t, pre) = Total(V, pre) /\ InputTotal(t, pre) \in Int
  BY <1>2, TotalOfInputs
<1>4. fee \in Int
  <2> DEFINE out == [i \in OutsOf(t) |-> t.outs[i].value]
  <2>1. out \in [OutsOf(t) -> Int] /\ IsFiniteSet(OutsOf(t))
    BY OutTypes
  <2>2. OutputTotal(t) = SumOf(out)
    BY DEF OutputTotal
  <2> HIDE DEF out
  <2>3. OutputTotal(t) \in Int
    BY <2>1, <2>2, SumType
  <2> QED
    BY <1>3, <2>3 DEF MinerFee
<1>5. V = {t.ins[i] : i \in InsOf(t)} /\ V # {}
  <2>1. 1 \in InsOf(t)
    BY <1>2 DEF InsOf
  <2>2. V = {t.ins[i] : i \in InsOf(t)}
    BY Zenon DEF InSet
  <2> HIDE DEF V
  <2>3. t.ins[1] \in V
    BY <2>1, <2>2
  <2> QED
    BY <2>2, <2>3
<1>6. values = {g[o] : o \in V}
  BY <1>5, ZenonT(60)
<1>7. /\ Min(values) \in Nat /\ \A o \in V : Min(values) <= g[o]
      /\ \E o \in V : g[o] = Min(values)
  <2>1. values \subseteq Nat /\ values # {}
    BY <1>3, <1>5, <1>6
  <2> HIDE DEF values, g
  <2>2. Min(values) \in values /\ \A y \in values : Min(values) <= y
    BY <2>1, MinOfNaturals
  <2> QED
    BY <1>6, <2>1, <2>2
<1>8. SumOf(g) = InputTotal(t, pre)
  BY <1>3 DEF Total
<1>9. \A v \in Int : Pays(v) <=> capacity >= v + fee
  <2> SUFFICES ASSUME NEW v \in Int PROVE Pays(v) <=> capacity >= v + fee
    OBVIOUS
  <2>1. \A S \in (SUBSET V) \ {V} : Total(S, pre) = SumOf(Restrict(g, S))
    <3> SUFFICES ASSUME NEW S \in SUBSET V
                 PROVE  Total(S, pre) = SumOf(Restrict(g, S))
      OBVIOUS
    <3>1. [o \in S |-> pre[o].value] = Restrict(g, S)
      BY DEF Restrict
    <3> QED
      BY <3>1 DEF Total
  <2> DEFINE n == v + fee
             least == Min(values)
  <2>2. n \in Int
    BY <1>4
  <2> HIDE DEF n, g, V, values, fee, least
  <2>3. (\E S \in (SUBSET V) \ {V} : SumOf(Restrict(g, S)) >= n)
        <=> SumOf(g) - least >= n
    <3>1. IsFiniteSet(V) /\ V # {} /\ g \in [V -> Nat]
      BY <1>3, <1>5
    <3>2. /\ least \in Nat /\ \A o \in V : least <= g[o]
          /\ \E o \in V : g[o] = least
      BY <1>7 DEF least
    <3> QED
      BY <2>2, <3>1, <3>2, MostOfSome
  <2>4. Pays(v) <=> \E S \in (SUBSET V) \ {V} : SumOf(Restrict(g, S)) >= n
    BY <2>1 DEF n
  <2> QED
    BY <1>8, <2>3, <2>4 DEF n, least
<1>10. /\ Max(amounts) \in Nat /\ Min(amounts) \in Nat /\ Min(amounts) <= Max(amounts)
  <2>1. OutsOf(t) = {1, 2}
    BY <1>1 DEF OutsOf
  <2>2. amounts = {t.outs[1].value, t.outs[2].value}
    BY <2>1
  <2>3. t.outs[1].value \in Nat /\ t.outs[2].value \in Nat
    BY <2>1, OutTypes
  <2> QED
    BY <2>2, <2>3, ExtremesOfTwo
<1>11. e.uih = IF capacity >= Max(amounts) + fee THEN "uih2"
               ELSE IF capacity >= Min(amounts) + fee THEN "uih1"
               ELSE "none"
  BY <1>1 DEF Unnecessary
<1>12. capacity \in Int
  BY <1>3, <1>7
<1>13. UnnecessaryReal(t, pre, e) <=>
         /\ e.uih = "uih2" <=> Pays(Max(amounts))
         /\ e.uih = "uih1" <=> Pays(Min(amounts)) /\ ~Pays(Max(amounts))
  BY DEF UnnecessaryReal
<1> HIDE DEF Pays, capacity, amounts, fee
<1>14. /\ Pays(Max(amounts)) <=> capacity >= Max(amounts) + fee
       /\ Pays(Min(amounts)) <=> capacity >= Min(amounts) + fee
  BY <1>9, <1>10
<1>15. capacity >= Max(amounts) + fee => capacity >= Min(amounts) + fee
  BY <1>4, <1>10, <1>12
<1> QED
  BY <1>11, <1>13, <1>14, <1>15

-----------------------------------------------------------------------------
(* Packages. *)

(* What a spend pays to the miner is an integer.                            *)
LEMMA FeeType ==
    ASSUME NEW t, Transaction(t), Distinct(t), NEW pre, Previous(pre),
           DOMAIN pre = InSet(t)
    PROVE  MinerFee(t, pre) \in Int
<1> DEFINE out == [i \in OutsOf(t) |-> t.outs[i].value]
<1>1. out \in [OutsOf(t) -> Int] /\ IsFiniteSet(OutsOf(t))
  BY OutTypes
<1>2. OutputTotal(t) = SumOf(out)
  BY DEF OutputTotal
<1> HIDE DEF out
<1>3. OutputTotal(t) \in Int
  BY <1>1, <1>2, SumType
<1>4. InputTotal(t, pre) \in Int
  BY TotalOfInputs DEF Transaction
<1> QED
  BY <1>3, <1>4 DEF MinerFee

(* Where the child pays at a higher rate, the package is between the two.   *)
LEMMA BetweenRates ==
    ASSUME NEW pfee \in Int, NEW psize \in Int, NEW cfee \in Int, NEW csize \in Int,
           cfee * psize > pfee * csize
    PROVE  PackageRaised(pfee, psize, cfee, csize)
<1> DEFINE a == cfee * psize
           b == pfee * csize
           c == pfee * psize
           d == cfee * csize
<1>1. a \in Int /\ b \in Int /\ c \in Int /\ d \in Int /\ a > b
  OBVIOUS
<1>2. /\ (pfee + cfee) * psize = c + a /\ pfee * (psize + csize) = c + b
      /\ cfee * (psize + csize) = a + d /\ (pfee + cfee) * csize = b + d
  OBVIOUS
<1> HIDE DEF a, b, c, d
<1>3. c + a > c + b /\ a + d > b + d
  BY <1>1
<1>4. /\ (pfee + cfee) * psize > pfee * (psize + csize)
      /\ cfee * (psize + csize) > (pfee + cfee) * csize
  BY <1>2, <1>3
<1> QED
  BY <1>4 DEF PackageRaised

(* The rates of a verdict are ordered as it says.                           *)
LEMMA PackageAlwaysRaised ==
    ASSUME NEW p, Transaction(p), NEW ppre, Previous(ppre), p.vsize \in Int,
           NEW c, Transaction(c), NEW cpre, Previous(cpre), c.vsize \in Int,
           NEW known, NEW ph, NEW ch, Cpfp(p, ppre, c, cpre, known, ph, ch) # {}
    PROVE  PackageRaised(MinerFee(p, ppre), p.vsize, MinerFee(c, cpre), c.vsize)
<1>1. /\ Distinct(p) /\ DOMAIN ppre = InSet(p) /\ Distinct(c) /\ DOMAIN cpre = InSet(c)
      /\ PaysMore(p, MinerFee(p, ppre), c, MinerFee(c, cpre))
  BY DEF Cpfp
<1>2. MinerFee(p, ppre) \in Int /\ MinerFee(c, cpre) \in Int
  BY <1>1, FeeType
<1> QED
  BY <1>1, <1>2, BetweenRates DEF PaysMore

(* The round is a transaction whose inputs are known.                       *)
LEMMA RoundTyped == Transaction(Round) /\ Previous(RoundPrev) /\ Round.vsize = 2
<1>1. \A v \in Nat : Out(v, "p2wpkh") \in AnyOut
  BY DEF Out, AnyOut, OutTypeNames, Spendable
<1>2. Round.outs \in Seq(AnyOut) /\ Len(Round.ins) = 2 /\ Round.vsize = 2
  BY <1>1 DEF Round
<1>3. Previous(RoundPrev)
  BY <1>1 DEF Previous, RoundPrev
<1> QED
  BY <1>2, <1>3 DEF Transaction

(* Numbers in a verdict are true: of the inputs that could be left out, and *)
(* of the rates of child and parent (detect_payjoin_fingerprints,           *)
(* detect_whirlpool_cpfp).                                                  *)
THEOREM VerdictsAlwaysTrue == Spec => []VerdictsTrue
<1>1. DetectorTypes => VerdictsTrue
  <2> SUFFICES ASSUME DetectorTypes
               PROVE  /\ \A e \in PayjoinNow : UnnecessaryReal(tx, prev, e)
                      /\ CpfpNow # {} => PackageRaised(MinerFee(Round, RoundPrev), Round.vsize,
                                                      MinerFee(tx, prev), tx.vsize)
    BY DEF VerdictsTrue
  <2>1. Transaction(tx) /\ Previous(prev) /\ tx.vsize \in Int
    BY DEF DetectorTypes, Transaction
  <2>2. \A e \in PayjoinNow : UnnecessaryReal(tx, prev, e)
    BY <2>1, UnnecessaryAlwaysReal DEF PayjoinNow
  <2>3. CpfpNow # {} => PackageRaised(MinerFee(Round, RoundPrev), Round.vsize,
                                     MinerFee(tx, prev), tx.vsize)
    <3>1. Round.vsize \in Int
      BY RoundTyped
    <3> QED
      BY <2>1, <3>1, RoundTyped, PackageAlwaysRaised DEF CpfpNow
  <2> QED
    BY <2>2, <2>3
<1> QED
  BY <1>1, TypesAlways, PTL

-----------------------------------------------------------------------------
(* Changed orders. *)

Permutes(b, N) ==
    /\ b \in [N -> N]
    /\ \A i, j \in N : b[i] = b[j] => i = j
    /\ \A i \in N : \E j \in N : b[j] = i

Exchange(n, i) ==
    [j \in 1 .. n |-> IF j = i THEN i + 1 ELSE IF j = i + 1 THEN i ELSE j]

(* Swapping neighbours changes the order by an exchange.                    *)
LEMMA SwappedPermutes ==
    ASSUME NEW S, NEW s \in Seq(S), NEW i \in 1 .. Len(s) - 1
    PROVE  /\ Permutes(Exchange(Len(s), i), 1 .. Len(s))
           /\ \A j \in 1 .. Len(s) : Swapped(s, i)[j] = s[Exchange(Len(s), i)[j]]
           /\ Swapped(s, i) = [j \in 1 .. Len(s) |-> s[Exchange(Len(s), i)[j]]]
<1> DEFINE n == Len(s)
           b == Exchange(n, i)
<1>1. n \in Nat /\ i \in 1 .. n /\ i + 1 \in 1 .. n /\ i # i + 1
  OBVIOUS
<1> HIDE DEF n
<1>2. /\ DOMAIN b = 1 .. n /\ b[i] = i + 1 /\ b[i + 1] = i
      /\ \A j \in 1 .. n : j # i /\ j # i + 1 => b[j] = j
  BY <1>1 DEF Exchange
<1>3. b \in [1 .. n -> 1 .. n]
  BY <1>1 DEF Exchange
<1> HIDE DEF b
<1>4. \A j \in 1 .. n : b[b[j]] = j
  BY <1>1, <1>2
<1>5. Permutes(b, 1 .. n)
  BY <1>3, <1>4 DEF Permutes
<1>6. \A j \in 1 .. n : Swapped(s, i)[j] = s[b[j]]
  BY <1>1, <1>2, SwappedTyped DEF n
<1>7. Swapped(s, i) \in Seq(S) /\ Len(Swapped(s, i)) = n
  BY SwappedTyped DEF n
<1>8. Swapped(s, i) = [j \in 1 .. n |-> Swapped(s, i)[j]]
  BY <1>7
<1>9. Swapped(s, i) = [j \in 1 .. n |-> s[b[j]]]
  BY <1>6, <1>8
<1> QED
  BY <1>5, <1>6, <1>9 DEF b, n

\* The places that an order takes to places of S.
Before(b, N, S) == {j \in N : b[j] \in S}

(* As many places come from S as S has.                                     *)
LEMMA BeforeAsMany ==
    ASSUME NEW N, IsFiniteSet(N), NEW b, Permutes(b, N), NEW S \in SUBSET N
    PROVE  /\ Cardinality(Before(b, N, S)) = Cardinality(S)
           /\ IsFiniteSet(S) /\ IsFiniteSet(Before(b, N, S))
<1> DEFINE P == Before(b, N, S)
           f == [j \in P |-> b[j]]
<1>1. P \subseteq N /\ \A j \in P : b[j] \in S
  BY DEF Before
<1>2. f \in [P -> S] /\ \A j \in P : f[j] = b[j]
  BY <1>1
<1>3. \A i \in S : \E j \in P : f[j] = i
  <2> SUFFICES ASSUME NEW i \in S PROVE \E j \in P : f[j] = i
    OBVIOUS
  <2>1. PICK j \in N : b[j] = i
    BY DEF Permutes
  <2>2. j \in P
    BY <2>1 DEF Before
  <2> QED
    BY <1>2, <2>1, <2>2
<1>4. \A i, j \in P : f[i] = f[j] => i = j
  BY <1>1, <1>2 DEF Permutes
<1>5. IsFiniteSet(P) /\ IsFiniteSet(S)
  BY <1>1, FS_Subset
<1> HIDE DEF f, P
<1>6. f \in Bijection(P, S)
  BY <1>2, <1>3, <1>4 DEF Bijection, Injection, IsInjective, Surjection
<1>7. ExistsBijection(P, S)
  BY <1>6 DEF ExistsBijection
<1>8. Cardinality(S) = Cardinality(P)
  BY <1>5, <1>7, FS_Bijection
<1> QED
  BY <1>5, <1>8 DEF P

(* A sum does not depend on the order of its terms.                         *)
LEMMA SumPermuted ==
    ASSUME NEW N, IsFiniteSet(N), NEW b, Permutes(b, N), NEW S \in SUBSET N,
           NEW f, \A j \in S : f[j] \in Int,
           NEW g, \A j \in Before(b, N, S) : g[j] = f[b[j]]
    PROVE  SumOf(Restrict(g, Before(b, N, S))) = SumOf(Restrict(f, S))
<1> DEFINE P == Before(b, N, S)
           c == [j \in P |-> b[j]]
           left == [j \in P |-> g[j]]
           right == [j \in S |-> f[j]]
<1>1. P \subseteq N /\ \A j \in P : b[j] \in S
  BY DEF Before
<1>2. /\ c \in [P -> S] /\ \A j \in P : c[j] = b[j]
      /\ right \in [S -> Int] /\ left \in [P -> Int]
      /\ \A j \in P : left[j] = right[c[j]]
  BY <1>1
<1>3. \A i \in S : \E j \in P : c[j] = i
  <2> SUFFICES ASSUME NEW i \in S PROVE \E j \in P : c[j] = i
    OBVIOUS
  <2>1. PICK j \in N : b[j] = i
    BY DEF Permutes
  <2>2. j \in P
    BY <2>1 DEF Before
  <2> QED
    BY <1>2, <2>1, <2>2
<1>4. \A i, j \in P : c[i] = c[j] => i = j
  BY <1>1, <1>2 DEF Permutes
<1>5. IsFiniteSet(P) /\ IsFiniteSet(S)
  BY <1>1, FS_Subset
<1> HIDE DEF c, P, left, right
<1>6. SumOf(left) = SumOf(right)
  BY <1>2, <1>3, <1>4, <1>5, SumReindexed
<1> QED
  BY <1>6 DEF left, right, P, Restrict

-----------------------------------------------------------------------------
(* Inputs in another order. *)

\* u has the inputs of t in the order b.
InputsMoved(t, u, b) ==
    /\ u.outs = t.outs /\ u.txid = t.txid /\ u.vsize = t.vsize
    /\ Len(u.ins) = Len(t.ins) /\ Permutes(b, InsOf(t))
    /\ \A j \in InsOf(t) : u.ins[j] = t.ins[b[j]] /\ u.prints[j] = t.prints[b[j]]

(* The sets of inputs and of parents stay, and so do all known amounts.     *)
LEMMA MovedInputs ==
    ASSUME NEW t, NEW u, NEW b, InputsMoved(t, u, b)
    PROVE  /\ InsOf(u) = InsOf(t) /\ OutsOf(u) = OutsOf(t)
           /\ InSet(u) = InSet(t) /\ Distinct(u) = Distinct(t) /\ Parents(u) = Parents(t)
           /\ OutputTotal(u) = OutputTotal(t)
           /\ \A pre : JoinsCoins(u, pre) = JoinsCoins(t, pre)
<1>1. InsOf(u) = InsOf(t) /\ OutsOf(u) = OutsOf(t) /\ u.outs = t.outs
  BY DEF InputsMoved, InsOf, OutsOf
<1>2. InSet(u) = InSet(t)
  <2>1. \A j \in InsOf(t) : b[j] \in InsOf(t) /\ u.ins[j] = t.ins[b[j]]
    BY DEF InputsMoved, Permutes
  <2>2. \A i \in InsOf(t) : \E j \in InsOf(t) : u.ins[j] = t.ins[i]
    BY DEF InputsMoved, Permutes
  <2> QED
    BY <1>1, <2>1, <2>2 DEF InSet
<1>3. Distinct(u) = Distinct(t) /\ Parents(u) = Parents(t)
  BY <1>2 DEF Distinct, Parents, InputsMoved
<1>4. OutputTotal(u) = OutputTotal(t)
  BY <1>1 DEF OutputTotal
<1>5. \A pre : JoinsCoins(u, pre) = JoinsCoins(t, pre)
  BY <1>2, <1>3 DEF JoinsCoins, InputsMoved
<1> QED
  BY <1>1, <1>2, <1>3, <1>4, <1>5

(* What the inputs hold together stays as well, when all are known.         *)
LEMMA MovedTotals ==
    ASSUME NEW t, Transaction(t), NEW u, NEW b, InputsMoved(t, u, b), NEW pre,
           Previous(pre), InSet(t) \subseteq DOMAIN pre
    PROVE  /\ InputTotal(u, pre) = InputTotal(t, pre)
           /\ MinerFee(u, pre) = MinerFee(t, pre)
           /\ Funded(u, pre) = Funded(t, pre)
           /\ Unnecessary(u, pre) = Unnecessary(t, pre)
<1> DEFINE N == InsOf(t)
           f == [j \in N |-> pre[t.ins[j]].value]
           g == [j \in N |-> pre[u.ins[j]].value]
<1>1. /\ InsOf(u) = N /\ OutsOf(u) = OutsOf(t) /\ u.outs = t.outs /\ Permutes(b, N)
      /\ OutputTotal(u) = OutputTotal(t)
      /\ \A j \in N : u.ins[j] = t.ins[b[j]]
  BY MovedInputs DEF InputsMoved
<1>2. \A j \in N : t.ins[j] \in DOMAIN pre
  BY DEF InSet
<1>3. \A j \in N : pre[t.ins[j]].value \in Int
  BY <1>2 DEF Previous, AnyOut
<1>4. b \in [N -> N] /\ \A i \in N : \E j \in N : b[j] = i
  BY <1>1 DEF Permutes
<1>5. InputTotal(u, pre) = InputTotal(t, pre)
  <2>1. IsFiniteSet(N)
    BY OutTypes
  <2>2. /\ f \in [N -> Int] /\ g \in [N -> Int] /\ \A j \in N : g[j] = f[b[j]]
    BY <1>1, <1>3, <1>4
  <2>3. InputTotal(u, pre) = SumOf(g) /\ InputTotal(t, pre) = SumOf(f)
    BY <1>1 DEF InputTotal
  <2>4. \A i, j \in N : b[i] = b[j] => i = j
    BY <1>1 DEF Permutes
  <2> HIDE DEF f, g, N
  <2> QED
    BY <1>4, <2>1, <2>2, <2>3, <2>4, SumReindexed
<1>6. MinerFee(u, pre) = MinerFee(t, pre)
  BY <1>1, <1>5 DEF MinerFee
<1>7. (\A i \in N : pre[u.ins[i]].value \in 0 .. MaxMoney)
      <=> \A i \in N : pre[t.ins[i]].value \in 0 .. MaxMoney
  BY <1>1, <1>4
<1>8. Funded(u, pre) = Funded(t, pre)
  BY <1>1, <1>5, <1>7 DEF Funded
<1>9. {pre[u.ins[i]].value : i \in N} = {pre[t.ins[i]].value : i \in N}
  BY <1>1, <1>4
<1>10. Unnecessary(u, pre) = Unnecessary(t, pre)
  <2>1. {u.outs[i].value : i \in OutsOf(u)} = {t.outs[i].value : i \in OutsOf(t)}
    BY <1>1
  <2>2. {pre[u.ins[i]].value : i \in InsOf(u)} = {pre[t.ins[i]].value : i \in InsOf(t)}
    BY <1>1, <1>9
  <2> QED
    BY <1>5, <1>6, <2>1, <2>2, Zenon DEF Unnecessary
<1> QED
  BY <1>5, <1>6, <1>8, <1>10

\* A dimension with its values in the order b.
Along(d, b, N) == [name |-> d.name, of |-> [j \in N |-> d.of[b[j]]]]

\* The dimensions one by one, and when each can be compared.
ByType(t, pre) ==
    [name |-> "prevout_script_type", of |-> [i \in InsOf(t) |-> pre[t.ins[i]].type]]
BySequence(t) == [name |-> "sequence", of |-> [i \in InsOf(t) |-> t.prints[i].seq]]
ByLength(t) == [name |-> "ecdsa_r_length", of |-> [i \in InsOf(t) |-> t.prints[i].sig.r]]
BySighash(t) == [name |-> "ecdsa_sighash", of |-> [i \in InsOf(t) |-> t.prints[i].sig.hash]]
ByForm(t) ==
    [name |-> "taproot_sighash_form", of |-> [i \in InsOf(t) |-> t.prints[i].sig.form]]

AllSpendable(t, pre) == \A i \in InsOf(t) : pre[t.ins[i]].type \in Spendable
AllEcdsa(t, pre) ==
    \A i \in InsOf(t) : pre[t.ins[i]].type \in {"p2wpkh", "p2pkh"} /\ IsEcdsa(t.prints[i].sig)
AllTaproot(t, pre) ==
    \A i \in InsOf(t) : pre[t.ins[i]].type = "p2tr" /\ IsTaproot(t.prints[i].sig)

(* The dimensions of a spend that were observed, one by one.                *)
LEMMA DimensionsAre ==
    ASSUME NEW t, NEW pre
    PROVE  \A d : d \in Dimensions(t, pre) <=>
              \/ AllSpendable(t, pre) /\ d = ByType(t, pre)
              \/ d = BySequence(t)
              \/ AllEcdsa(t, pre) /\ d \in {ByLength(t), BySighash(t)}
              \/ AllTaproot(t, pre) /\ d = ByForm(t)
<1> DEFINE types == [i \in InsOf(t) |-> pre[t.ins[i]].type]
<1>1. /\ AllSpendable(t, pre) <=> \A i \in InsOf(t) : types[i] \in Spendable
      /\ AllEcdsa(t, pre) <=> \A i \in InsOf(t) :
              types[i] \in {"p2wpkh", "p2pkh"} /\ IsEcdsa(t.prints[i].sig)
      /\ AllTaproot(t, pre) <=> \A i \in InsOf(t) :
              types[i] = "p2tr" /\ IsTaproot(t.prints[i].sig)
  BY DEF AllSpendable, AllEcdsa, AllTaproot
<1> DEFINE Dim(d, known) == {x \in {d} : known}
<1>2. \A name, f, known :
        {[name |-> name, of |-> g] : g \in {x \in {f} : known}}
        = {d \in {[name |-> name, of |-> f]} : known}
  OBVIOUS
<1>3. Dimensions(t, pre) =
        {d \in {ByType(t, pre)} : AllSpendable(t, pre)}
        \cup {d \in {BySequence(t)} : TRUE}
        \cup (IF AllEcdsa(t, pre) THEN {ByLength(t), BySighash(t)} ELSE {})
        \cup {d \in {ByForm(t)} : AllTaproot(t, pre)}
  BY <1>1, <1>2, ZenonT(60) DEF Dimensions, ByType, BySequence, ByLength, BySighash, ByForm
<1> QED
  BY <1>3

(* What was observed moves with the inputs.                                 *)
LEMMA DimensionsMoved ==
    ASSUME NEW t, NEW u, NEW b, InputsMoved(t, u, b), NEW pre
    PROVE  \A d : d \in Dimensions(u, pre) <=>
              \E e \in Dimensions(t, pre) : d = Along(e, b, InsOf(t))
<1> DEFINE N == InsOf(t)
<1>1. /\ InsOf(u) = N
      /\ \A j \in N : /\ u.ins[j] = t.ins[b[j]] /\ u.prints[j] = t.prints[b[j]]
                      /\ b[j] \in N
      /\ \A i \in N : \E j \in N : b[j] = i
  BY MovedInputs DEF InputsMoved, Permutes
<1>2. ByType(u, pre) = Along(ByType(t, pre), b, N)
  BY <1>1 DEF ByType, Along
<1>3. BySequence(u) = Along(BySequence(t), b, N)
  BY <1>1 DEF BySequence, Along
<1>4. ByLength(u) = Along(ByLength(t), b, N) /\ BySighash(u) = Along(BySighash(t), b, N)
  BY <1>1 DEF ByLength, BySighash, Along
<1>5. ByForm(u) = Along(ByForm(t), b, N)
  BY <1>1 DEF ByForm, Along
<1>6. AllSpendable(u, pre) <=> AllSpendable(t, pre)
  BY <1>1 DEF AllSpendable
<1>7. AllEcdsa(u, pre) <=> AllEcdsa(t, pre)
  BY <1>1 DEF AllEcdsa
<1>8. AllTaproot(u, pre) <=> AllTaproot(t, pre)
  BY <1>1 DEF AllTaproot
<1>9. \A d : d \in Dimensions(u, pre) <=>
         \/ AllSpendable(t, pre) /\ d = Along(ByType(t, pre), b, N)
         \/ d = Along(BySequence(t), b, N)
         \/ AllEcdsa(t, pre) /\ (d = Along(ByLength(t), b, N) \/ d = Along(BySighash(t), b, N))
         \/ AllTaproot(t, pre) /\ d = Along(ByForm(t), b, N)
  <2>1. \A d : d \in Dimensions(u, pre) <=>
           \/ AllSpendable(u, pre) /\ d = ByType(u, pre)
           \/ d = BySequence(u)
           \/ AllEcdsa(u, pre) /\ d \in {ByLength(u), BySighash(u)}
           \/ AllTaproot(u, pre) /\ d = ByForm(u)
    BY DimensionsAre
  <2> HIDE DEF N
  <2> QED
    BY <1>2, <1>3, <1>4, <1>5, <1>6, <1>7, <1>8, <2>1
<1>10. \A e : e \in Dimensions(t, pre) <=>
         \/ AllSpendable(t, pre) /\ e = ByType(t, pre)
         \/ e = BySequence(t)
         \/ AllEcdsa(t, pre) /\ (e = ByLength(t) \/ e = BySighash(t))
         \/ AllTaproot(t, pre) /\ e = ByForm(t)
  BY DimensionsAre
<1> QED
  BY <1>9, <1>10

(* The same dimensions differ, and the clusters are the same sets.          *)
LEMMA ClustersMoved ==
    ASSUME NEW t, NEW u, NEW b, InputsMoved(t, u, b), NEW pre
    PROVE  /\ {d.name : d \in Differing(u, pre)} = {d.name : d \in Differing(t, pre)}
           /\ Clusters(u, pre) = Clusters(t, pre)
<1> DEFINE N == InsOf(t)
           A(e) == Along(e, b, N)
<1>1. /\ InsOf(u) = N
      /\ \A j \in N : u.ins[j] = t.ins[b[j]] /\ b[j] \in N
      /\ \A i \in N : \E j \in N : b[j] = i
  BY MovedInputs DEF InputsMoved, Permutes
<1>2. \A e : A(e).name = e.name /\ \A j \in N : A(e).of[j] = e.of[b[j]]
  BY DEF Along
<1> HIDE DEF A, N
<1>3. \A d : d \in Dimensions(u, pre) <=> \E e \in Dimensions(t, pre) : d = A(e)
  BY DimensionsMoved DEF A, N
<1>4. \A d : d \in Differing(u, pre) <=> \E e \in Differing(t, pre) : d = A(e)
  <2>1. \A e : (\E i, j \in N : A(e).of[i] # A(e).of[j]) <=> \E i, j \in N : e.of[i] # e.of[j]
    BY <1>1, <1>2
  <2>2. \A d : d \in Differing(u, pre) <=>
           d \in Dimensions(u, pre) /\ \E i, j \in N : d.of[i] # d.of[j]
    BY <1>1 DEF Differing
  <2>3. \A e : e \in Differing(t, pre) <=>
           e \in Dimensions(t, pre) /\ \E i, j \in N : e.of[i] # e.of[j]
    BY DEF Differing, N
  <2> QED
    BY <1>3, <2>1, <2>2, <2>3
<1>5. {d.name : d \in Differing(u, pre)} = {d.name : d \in Differing(t, pre)}
  BY <1>2, <1>4
<1> DEFINE Alike(i) == {k \in N : \A e \in Differing(t, pre) : e.of[i] = e.of[k]}
           AlikeIn(i) == {k \in N : \A d \in Differing(u, pre) : d.of[i] = d.of[k]}
           Of(i) == {t.ins[j] : j \in Alike(i)}
           In(i) == {u.ins[j] : j \in AlikeIn(i)}
<1>6. \A i, k \in N : (\A d \in Differing(u, pre) : d.of[i] = d.of[k])
                      <=> \A e \in Differing(t, pre) : e.of[b[i]] = e.of[b[k]]
  BY <1>2, <1>4
<1>7. \A i, k \in N : k \in AlikeIn(i) <=> b[k] \in Alike(b[i])
  BY <1>1, <1>6, ZenonT(60)
<1>8. \A i \in N : In(i) = Of(b[i])
  <2> SUFFICES ASSUME NEW i \in N PROVE In(i) = Of(b[i])
    OBVIOUS
  <2> DEFINE L == AlikeIn(i)
             M == Alike(b[i])
  <2>1. /\ \A k \in L : k \in N /\ b[k] \in M /\ u.ins[k] = t.ins[b[k]]
        /\ \A m \in M : \E k \in L : b[k] = m /\ u.ins[k] = t.ins[m]
    <3>1. /\ L \subseteq N /\ M \subseteq N
      OBVIOUS
    <3>2. \A k \in N : k \in L <=> b[k] \in M
      BY <1>7
    <3> HIDE DEF L, M
    <3> QED
      BY <1>1, <3>1, <3>2
  <2>2. In(i) = {u.ins[k] : k \in L} /\ Of(b[i]) = {t.ins[m] : m \in M}
    OBVIOUS
  <2> HIDE DEF L, M, In, Of
  <2> QED
    BY <2>1, <2>2
<1>9. Clusters(u, pre) = {In(i) : i \in N} /\ Clusters(t, pre) = {Of(i) : i \in N}
  BY <1>1 DEF Clusters, N
<1> HIDE DEF In, Of
<1>10. {In(i) : i \in N} = {Of(i) : i \in N}
  BY <1>1, <1>8
<1> QED
  BY <1>5, <1>9, <1>10

(* The verdicts on a spend are those on it with its inputs moved.           *)
LEMMA VerdictsMoved ==
    ASSUME NEW t, Transaction(t), NEW u, NEW b, InputsMoved(t, u, b), NEW pre,
           Previous(pre), NEW known
    PROVE  /\ Payjoin(u, pre, known) = Payjoin(t, pre, known)
           /\ Stonewall(u, pre, known) = Stonewall(t, pre, known)
<1>1. /\ OutsOf(u) = OutsOf(t) /\ u.outs = t.outs /\ InSet(u) = InSet(t)
      /\ JoinsCoins(u, pre) = JoinsCoins(t, pre)
  <2>1. u.outs = t.outs
    BY DEF InputsMoved
  <2> QED
    BY <2>1, MovedInputs
<1>2. JoinsCoins(t, pre) => InSet(t) \subseteq DOMAIN pre
  BY DEF JoinsCoins
<1>3. JoinsCoins(t, pre) => /\ Funded(u, pre) = Funded(t, pre)
                            /\ Unnecessary(u, pre) = Unnecessary(t, pre)
  BY <1>2, MovedTotals
<1>4. /\ {d.name : d \in Differing(u, pre)} = {d.name : d \in Differing(t, pre)}
      /\ Clusters(u, pre) = Clusters(t, pre)
  BY ClustersMoved
<1>5. Payjoin(u, pre, known) = Payjoin(t, pre, known)
  <2>1. CASE JoinsCoins(t, pre)
    BY <1>1, <1>3, <1>4, <2>1, Zenon DEF Payjoin
  <2>2. CASE ~JoinsCoins(t, pre)
    <3>1. Payjoin(u, pre, known) = {} /\ Payjoin(t, pre, known) = {}
      BY <1>1, <2>2 DEF Payjoin
    <3> QED
      BY <3>1
  <2> QED
    BY <2>1, <2>2
<1>6. Paired(u) = Paired(t) /\ \A i : SameAmount(u, i) = SameAmount(t, i)
  BY <1>1 DEF Paired, SameAmount
<1>7. Stonewall(u, pre, known) = Stonewall(t, pre, known)
  <2>1. CASE JoinsCoins(t, pre)
    <3>1. (\A i \in OutsOf(u) : /\ u.outs[i].value > 0
                                /\ u.outs[i].type \notin Unspendable \cup {"unknown"}
                                /\ Cardinality(SameAmount(u, i)) <= 2)
          <=> \A i \in OutsOf(t) : /\ t.outs[i].value > 0
                                   /\ t.outs[i].type \notin Unspendable \cup {"unknown"}
                                   /\ Cardinality(SameAmount(t, i)) <= 2
      BY <1>1, <1>6
    <3>2. /\ InSet(u) \cap known = InSet(t) \cap known
          /\ Len(u.outs) = 4 <=> Len(t.outs) = 4
          /\ Paired(u) = Paired(t)
          /\ Funded(u, pre) <=> Funded(t, pre)
          /\ JoinsCoins(u, pre) <=> JoinsCoins(t, pre)
      BY <1>1, <1>3, <1>6, <2>1
    <3> QED
      BY <3>1, <3>2 DEF Stonewall
  <2>2. CASE ~JoinsCoins(t, pre)
    <3>1. Stonewall(u, pre, known) = {} /\ Stonewall(t, pre, known) = {}
      BY <1>1, <2>2 DEF Stonewall
    <3> QED
      BY <3>1
  <2> QED
    BY <2>1, <2>2
<1> QED
  BY <1>5, <1>7

(* So is the verdict on it as the child of a parent.                        *)
LEMMA PackageMoved ==
    ASSUME NEW t, Transaction(t), NEW u, NEW b, InputsMoved(t, u, b), NEW pre,
           Previous(pre), NEW known, NEW p, NEW ppre, NEW ph, NEW ch,
           t.ins # << >> <=> u.ins # << >>
    PROVE  Cpfp(p, ppre, u, pre, known, ph, ch) = Cpfp(p, ppre, t, pre, known, ph, ch)
<1>1. /\ InSet(u) = InSet(t) /\ Distinct(u) = Distinct(t)
      /\ u.txid = t.txid /\ u.vsize = t.vsize
  <2>1. u.txid = t.txid /\ u.vsize = t.vsize
    BY DEF InputsMoved
  <2> QED
    BY <2>1, MovedInputs
<1>2. CASE DOMAIN pre = InSet(t)
  <2>1. Funded(u, pre) = Funded(t, pre) /\ MinerFee(u, pre) = MinerFee(t, pre)
    BY <1>2, MovedTotals
  <2>2. \A fee, more : PaysMore(p, fee, u, more) = PaysMore(p, fee, t, more)
    BY <1>1 DEF PaysMore
  <2> QED
    BY <1>1, <2>1, <2>2, Zenon DEF Cpfp
<1>3. CASE DOMAIN pre # InSet(t)
  <2>1. /\ Cpfp(p, ppre, u, pre, known, ph, ch) = {}
        /\ Cpfp(p, ppre, t, pre, known, ph, ch) = {}
    BY <1>1, <1>3 DEF Cpfp
  <2> QED
    BY <2>1
<1> QED
  BY <1>2, <1>3

(* A swap of two inputs is such a change of their order.                    *)
LEMMA SwapMovesInputs ==
    ASSUME DetectorTypes, NEW i \in 1 .. Len(tx.ins) - 1, SwapInputs(i)
    PROVE  /\ InputsMoved(tx, tx', Exchange(Len(tx.ins), i))
           /\ tx.ins # << >> /\ tx'.ins # << >>
           /\ prev' = prev /\ tracked' = tracked
<1> DEFINE n == Len(tx.ins)
           b == Exchange(n, i)
<1>1. /\ tx.ins \in Seq(Outpoints) /\ tx.prints \in Seq(Prints) /\ Len(tx.prints) = n
      /\ tx = [txid |-> tx.txid, ins |-> tx.ins, outs |-> tx.outs,
               vsize |-> tx.vsize, prints |-> tx.prints]
  BY DEF DetectorTypes
<1>2. /\ tx' = [tx EXCEPT !.ins = Swapped(@, i), !.prints = Swapped(@, i)]
      /\ prev' = prev /\ tracked' = tracked
  BY DEF SwapInputs
<1>3. /\ Permutes(b, 1 .. n)
      /\ \A j \in 1 .. n : Swapped(tx.ins, i)[j] = tx.ins[b[j]]
      /\ Len(Swapped(tx.ins, i)) = n /\ Swapped(tx.ins, i) \in Seq(Outpoints)
  BY <1>1, SwappedPermutes, SwappedTyped
<1>4. \A j \in 1 .. n : Swapped(tx.prints, i)[j] = tx.prints[b[j]]
  BY <1>1, SwappedPermutes
<1>5. /\ tx'.ins = Swapped(tx.ins, i) /\ tx'.prints = Swapped(tx.prints, i)
      /\ tx'.outs = tx.outs /\ tx'.txid = tx.txid /\ tx'.vsize = tx.vsize
  BY <1>1, <1>2
<1>6. n \in Nat /\ n # 0
  BY <1>1
<1>7. tx.ins # << >> /\ tx'.ins # << >>
  BY <1>3, <1>5, <1>6
<1>8. InputsMoved(tx, tx', b)
  BY <1>3, <1>4, <1>5 DEF InputsMoved, InsOf
<1> QED
  BY <1>2, <1>7, <1>8

(* What a trace finds first does not decide (detect_stonewall,              *)
(* detect_payjoin_fingerprints).                                            *)
THEOREM OrderNeverDecides == Spec => OrderFree
<1>1. ASSUME DetectorTypes, NEW i \in 1 .. Len(tx.ins) - 1, SwapInputs(i)
      PROVE  PayjoinNow' = PayjoinNow /\ StonewallNow' = StonewallNow /\ CpfpNow' = CpfpNow
  <2> DEFINE b == Exchange(Len(tx.ins), i)
  <2>1. Transaction(tx) /\ Previous(prev)
    BY <1>1 DEF DetectorTypes, Transaction
  <2>2. /\ InputsMoved(tx, tx', b) /\ tx.ins # << >> /\ tx'.ins # << >>
        /\ prev' = prev /\ tracked' = tracked
    BY <1>1, SwapMovesInputs
  <2> HIDE DEF b
  <2>3. /\ Payjoin(tx', prev, tracked) = Payjoin(tx, prev, tracked)
        /\ Stonewall(tx', prev, tracked) = Stonewall(tx, prev, tracked)
    BY <2>1, <2>2, VerdictsMoved
  <2>4. Cpfp(Round, RoundPrev, tx', prev, tracked, {100}, {100})
        = Cpfp(Round, RoundPrev, tx, prev, tracked, {100}, {100})
    BY <2>1, <2>2, PackageMoved
  <2> QED
    BY <2>2, <2>3, <2>4 DEF PayjoinNow, StonewallNow, CpfpNow
<1>2. ASSUME NEW o, NEW s \in StonewallNow, Track(o)
      PROVE  StonewallNow' = {[s EXCEPT !.tracked = @ \cup ({o} \cap InSet(tx))]}
  <2>1. tx' = tx /\ prev' = prev /\ tracked' = tracked \cup {o}
    BY <1>2 DEF Track
  <2> DEFINE v == [repeated |-> Paired(tx), tracked |-> InSet(tx) \cap tracked,
                   conf |-> "medium"]
             w == [repeated |-> Paired(tx), tracked |-> InSet(tx) \cap (tracked \cup {o}),
                   conf |-> "medium"]
  <2>2. s = v /\ Stonewall(tx, prev, tracked \cup {o}) = {w}
    <3>1. /\ Stonewall(tx, prev, tracked) # {} => InSet(tx) \cap tracked # {}
          /\ s \in Stonewall(tx, prev, tracked) => s = v
      BY DEF Stonewall
    <3>2. InSet(tx) \cap (tracked \cup {o}) # {}
      BY <1>2, <3>1 DEF StonewallNow
    <3>3. Stonewall(tx, prev, tracked) # {} =>
            Stonewall(tx, prev, tracked \cup {o}) = {w}
      BY <3>2, Zenon DEF Stonewall
    <3> QED
      BY <1>2, <3>1, <3>3 DEF StonewallNow
  <2>3. StonewallNow' = Stonewall(tx, prev, tracked \cup {o})
    BY <2>1 DEF StonewallNow
  <2>4. w = [v EXCEPT !.tracked = @ \cup ({o} \cap InSet(tx))]
    <3> DEFINE pair == Paired(tx)
               old == InSet(tx) \cap tracked
               new == InSet(tx) \cap (tracked \cup {o})
               conf == "medium"
    <3>1. new = old \cup ({o} \cap InSet(tx)) /\ v.tracked = old
      OBVIOUS
    <3>2. [v EXCEPT !.tracked = new] = w
      <4>1. /\ v = [repeated |-> pair, tracked |-> old, conf |-> conf]
            /\ w = [repeated |-> pair, tracked |-> new, conf |-> conf]
        BY Zenon
      <4> HIDE DEF pair, old, new, conf, v, w
      <4> QED
        BY <4>1
    <3> QED
      BY <3>1, <3>2, Zenon
  <2> QED
    BY <2>2, <2>3, <2>4
<1>3. DetectorTypes =>
        [Spending =>
           /\ \A i \in 1 .. Len(tx.ins) - 1 : SwapInputs(i) =>
                 PayjoinNow' = PayjoinNow /\ StonewallNow' = StonewallNow /\ CpfpNow' = CpfpNow
           /\ \A o \in {R(1), R(2)}, s \in StonewallNow : Track(o) =>
                 StonewallNow' = {[s EXCEPT !.tracked = @ \cup ({o} \cap InSet(tx))]}]_vars
  BY <1>1, <1>2
<1> QED
  BY <1>3, TypesAlways, PTL DEF OrderFree

-----------------------------------------------------------------------------
(* Outputs in another order. *)

\* u has the outputs of t in the order b.
OutputsMoved(t, u, b) ==
    /\ u.ins = t.ins /\ Len(u.outs) = Len(t.outs) /\ Permutes(b, OutsOf(t))
    /\ \A j \in OutsOf(t) : u.outs[j] = t.outs[b[j]]

\* A verdict with the roles of its outputs in the order b.
Moved(v, b) == [v EXCEPT !.roles = [j \in DOMAIN b |-> v.roles[b[j]]],
                         !.confs = [j \in DOMAIN b |-> v.confs[b[j]]]]

(* What is made of the outputs moves with them.                             *)
LEMMA MovedOutputs ==
    ASSUME NEW t, Transaction(t), NEW u, NEW b, OutputsMoved(t, u, b)
    PROVE  /\ OutsOf(u) = OutsOf(t) /\ InsOf(u) = InsOf(t) /\ DOMAIN b = OutsOf(t)
           /\ OutputTotal(u) = OutputTotal(t)
           /\ \A pre : InputTotal(u, pre) = InputTotal(t, pre)
           /\ \A pre : MinerFee(u, pre) = MinerFee(t, pre)
           /\ \A pre : InvalidAccounting(u, pre) = InvalidAccounting(t, pre)
           /\ Markers(u) = Before(b, OutsOf(t), Markers(t))
           /\ \A p : PoolFees(u, p) = Before(b, OutsOf(t), PoolFees(t, p))
           /\ \A p : PremixAmounts(u, p) = PremixAmounts(t, p)
           /\ \A v : PremixGroup(u, v) = Before(b, OutsOf(t), PremixGroup(t, v))
<1> DEFINE N == OutsOf(t)
<1>1. OutsOf(u) = N /\ InsOf(u) = InsOf(t) /\ u.ins = t.ins
  BY DEF OutputsMoved, OutsOf, InsOf
<1>2. /\ b \in [N -> N] /\ \A i \in N : \E j \in N : b[j] = i
      /\ \A j \in N : u.outs[j] = t.outs[b[j]]
      /\ Permutes(b, N)
  BY DEF OutputsMoved, Permutes
<1>3. Before(b, N, N) = N
  BY <1>2 DEF Before
<1>4. OutputTotal(u) = OutputTotal(t)
  <2> DEFINE f == [j \in N |-> t.outs[j].value]
             g == [j \in N |-> u.outs[j].value]
  <2>1. IsFiniteSet(N) /\ f \in [N -> Int] /\ g \in [N -> Int]
    BY <1>2, OutTypes
  <2>2. \A j \in N : g[j] = f[b[j]]
    BY <1>2
  <2>3. OutputTotal(u) = SumOf(g) /\ OutputTotal(t) = SumOf(f)
    BY <1>1 DEF OutputTotal
  <2>4. \A i, j \in N : b[i] = b[j] => i = j
    BY <1>2 DEF Permutes
  <2> HIDE DEF f, g, N
  <2> QED
    BY <1>2, <2>1, <2>2, <2>3, <2>4, SumReindexed
<1>5. \A pre : InputTotal(u, pre) = InputTotal(t, pre)
  BY <1>1 DEF InputTotal
<1>6. \A pre : MinerFee(u, pre) = MinerFee(t, pre)
  BY <1>4, <1>5 DEF MinerFee
<1>7. \A pre : InvalidAccounting(u, pre) = InvalidAccounting(t, pre)
  BY <1>1, <1>4, <1>5, <1>6 DEF InvalidAccounting
<1>8. Markers(u) = Before(b, N, Markers(t))
  BY <1>1, <1>2 DEF Markers, Before
<1>9. \A p : PoolFees(u, p) = Before(b, N, PoolFees(t, p))
  BY <1>1, <1>2 DEF PoolFees, Before
<1>10. \A p : PremixAmounts(u, p) = PremixAmounts(t, p)
  <2> SUFFICES ASSUME NEW p PROVE PremixAmounts(u, p) = PremixAmounts(t, p)
    OBVIOUS
  <2>1. \A v : v \in PremixAmounts(u, p) <=>
           \E j \in N : IsPremix(u.outs[j], p) /\ v = u.outs[j].value
    BY <1>1 DEF PremixAmounts
  <2>2. \A v : v \in PremixAmounts(t, p) <=>
           \E j \in N : IsPremix(t.outs[j], p) /\ v = t.outs[j].value
    BY DEF PremixAmounts
  <2>3. \A v : v \in PremixAmounts(u, p) <=> v \in PremixAmounts(t, p)
    BY <1>2, <2>1, <2>2
  <2> QED
    BY <2>3
<1>11. \A v : PremixGroup(u, v) = Before(b, N, PremixGroup(t, v))
  BY <1>1, <1>2 DEF PremixGroup, Before
<1> QED
  BY <1>1, <1>2, <1>4, <1>5, <1>6, <1>7, <1>8, <1>9, <1>10, <1>11

(* So do the kinds of the outputs, their roles and the evidence for them.   *)
LEMMA MovedKinds ==
    ASSUME NEW t, Transaction(t), NEW u, NEW b, OutputsMoved(t, u, b), NEW p, NEW v
    PROVE  /\ Residual(u, p, v) = Before(b, OutsOf(t), Residual(t, p, v))
           /\ Change(u, p, v) = Before(b, OutsOf(t), Change(t, p, v))
           /\ \A j \in OutsOf(t) : Tx0Role(u, p, v, j) = Tx0Role(t, p, v, b[j])
           /\ Explained(u, p, v) = Explained(t, p, v)
           /\ Cardinality(Markers(u)) = Cardinality(Markers(t))
           /\ Cardinality(PoolFees(u, p)) = Cardinality(PoolFees(t, p))
           /\ Cardinality(PremixGroup(u, v)) = Cardinality(PremixGroup(t, v))
           /\ Change(u, p, v) = {} <=> Change(t, p, v) = {}
           /\ Markers(u) \cup PoolFees(u, p) = {} <=> Markers(t) \cup PoolFees(t, p) = {}
           /\ SumOf([i \in PoolFees(u, p) |-> u.outs[i].value])
              = SumOf([i \in PoolFees(t, p) |-> t.outs[i].value])
<1> DEFINE N == OutsOf(t)
           B(S) == Before(b, N, S)
<1>1. /\ OutsOf(u) = N /\ Markers(u) = B(Markers(t)) /\ PoolFees(u, p) = B(PoolFees(t, p))
      /\ PremixGroup(u, v) = B(PremixGroup(t, v))
  BY MovedOutputs
<1>2. /\ b \in [N -> N] /\ \A i \in N : \E j \in N : b[j] = i
      /\ \A j \in N : u.outs[j] = t.outs[b[j]]
      /\ Permutes(b, N) /\ \A i, j \in N : b[i] = b[j] => i = j
  BY DEF OutputsMoved, Permutes
<1>3. \A S : \A j : j \in B(S) <=> j \in N /\ b[j] \in S
  BY DEF Before
<1>4. /\ Markers(t) \subseteq N /\ PoolFees(t, p) \subseteq N /\ PremixGroup(t, v) \subseteq N
      /\ Residual(t, p, v) \subseteq N /\ Change(t, p, v) \subseteq Residual(t, p, v)
  BY DEF Markers, PoolFees, PremixGroup, Residual, Change
<1>5. Residual(u, p, v) = B(Residual(t, p, v))
  <2> HIDE DEF B
  <2> QED
    BY <1>1, <1>2, <1>3 DEF Residual
<1>6. Change(u, p, v) = B(Change(t, p, v))
  <2> DEFINE ru == Residual(u, p, v)
             rt == Residual(t, p, v)
  <2>1. \A j \in N : ru = {j} <=> rt = {b[j]}
    <3>1. \A i : i \in ru <=> i \in N /\ b[i] \in rt
      BY <1>3, <1>5
    <3>2. rt \subseteq N
      BY <1>4
    <3> HIDE DEF ru, rt, N
    <3> QED
      BY <1>2, <3>1, <3>2
  <2>2. \A j : j \in Change(u, p, v) <=>
           /\ j \in ru /\ ru = {j} /\ u.outs[j].value > 0 /\ Native(u.outs[j])
    BY DEF Change
  <2>3. \A j : j \in Change(t, p, v) <=>
           /\ j \in rt /\ rt = {j} /\ t.outs[j].value > 0 /\ Native(t.outs[j])
    BY DEF Change
  <2>4. \A j : j \in ru <=> j \in N /\ b[j] \in rt
    BY <1>3, <1>5
  <2> HIDE DEF ru, rt
  <2>5. \A j : j \in Change(u, p, v) <=> j \in B(Change(t, p, v))
    BY <1>2, <1>3, <2>1, <2>2, <2>3, <2>4
  <2> QED
    BY <2>5
<1> HIDE DEF B
<1>7. \A j \in N : Tx0Role(u, p, v, j) = Tx0Role(t, p, v, b[j])
  <2> SUFFICES ASSUME NEW j \in N PROVE Tx0Role(u, p, v, j) = Tx0Role(t, p, v, b[j])
    OBVIOUS
  <2>1. /\ j \in Change(u, p, v) <=> b[j] \in Change(t, p, v)
        /\ j \in PoolFees(u, p) <=> b[j] \in PoolFees(t, p)
        /\ j \in Markers(u) <=> b[j] \in Markers(t)
        /\ j \in PremixGroup(u, v) <=> b[j] \in PremixGroup(t, v)
    BY <1>1, <1>3, <1>6
  <2> QED
    BY <2>1 DEF Tx0Role
<1>8. IsFiniteSet(N)
  BY OutTypes
<1>9. /\ Cardinality(Markers(u)) = Cardinality(Markers(t))
      /\ Cardinality(PoolFees(u, p)) = Cardinality(PoolFees(t, p))
      /\ Cardinality(PremixGroup(u, v)) = Cardinality(PremixGroup(t, v))
  <2>1. \A S \in SUBSET N : Cardinality(B(S)) = Cardinality(S)
    BY <1>2, <1>8, BeforeAsMany DEF B
  <2> QED
    BY <1>1, <1>4, <2>1
<1>10. \A S \in SUBSET N : B(S) = {} <=> S = {}
  BY <1>2, <1>3
<1>11. /\ Change(u, p, v) = {} <=> Change(t, p, v) = {}
       /\ Markers(u) \cup PoolFees(u, p) = {} <=> Markers(t) \cup PoolFees(t, p) = {}
  <2>1. Change(t, p, v) \in SUBSET N
    BY <1>4
  <2> QED
    BY <1>1, <1>4, <1>6, <1>10, <2>1
<1>12. Explained(u, p, v) = Explained(t, p, v)
  <2>1. Residual(u, p, v) \subseteq Change(u, p, v)
        <=> Residual(t, p, v) \subseteq Change(t, p, v)
    BY <1>2, <1>3, <1>4, <1>5, <1>6
  <2> QED
    BY <1>9, <2>1 DEF Explained
<1>13. SumOf([i \in PoolFees(u, p) |-> u.outs[i].value])
       = SumOf([i \in PoolFees(t, p) |-> t.outs[i].value])
  <2> DEFINE f == [j \in N |-> t.outs[j].value]
             g == [j \in N |-> u.outs[j].value]
             F == PoolFees(t, p)
  <2>1. \A j \in F : f[j] \in Int
    BY <1>4, OutTypes
  <2>2. \A j \in Before(b, N, F) : g[j] = f[b[j]]
    BY <1>2 DEF Before
  <2>3. /\ Restrict(g, Before(b, N, F)) = [i \in PoolFees(u, p) |-> u.outs[i].value]
        /\ Restrict(f, F) = [i \in PoolFees(t, p) |-> t.outs[i].value]
    <3>1. PoolFees(u, p) = Before(b, N, F) /\ Before(b, N, F) \subseteq N
      BY <1>1 DEF B, Before
    <3> QED
      BY <1>4, <3>1 DEF Restrict
  <2> HIDE DEF f, g, N, F
  <2>4. F \in SUBSET N
    BY <1>4 DEF F
  <2> QED
    BY <1>2, <1>8, <2>1, <2>2, <2>3, <2>4, SumPermuted
<1> QED
  BY <1>5, <1>6, <1>7, <1>9, <1>11, <1>12, <1>13 DEF B

\* A verdict, field by field.
Fields(kind, pool, conf, roles, confs, score, entered, cost, premixIns, remixIns) ==
    [kind |-> kind, pool |-> pool, conf |-> conf, roles |-> roles, confs |-> confs,
     score |-> score, entered |-> entered, cost |-> cost,
     premixIns |-> premixIns, remixIns |-> remixIns]

(* Only the roles of a verdict and their confidences move.                  *)
LEMMA MovedFields ==
    ASSUME NEW kind, NEW pool, NEW conf, NEW roles, NEW confs, NEW score, NEW entered,
           NEW cost, NEW m, NEW n, NEW b
    PROVE  Moved(Fields(kind, pool, conf, roles, confs, score, entered, cost, m, n), b)
           = Fields(kind, pool, conf, [j \in DOMAIN b |-> roles[b[j]]],
                    [j \in DOMAIN b |-> confs[b[j]]], score, entered, cost, m, n)
<1> DEFINE c == Fields(kind, pool, conf, roles, confs, score, entered, cost, m, n)
           r == [j \in DOMAIN b |-> roles[b[j]]]
           s == [j \in DOMAIN b |-> confs[b[j]]]
           x == [c EXCEPT !.roles = r, !.confs = s]
<1>1. c.roles = roles /\ c.confs = confs
  BY DEF Fields
<1>2. Moved(c, b) = x
  BY <1>1, Zenon DEF Moved
<1>3. /\ DOMAIN c = {"kind", "pool", "conf", "roles", "confs", "score", "entered",
                     "cost", "premixIns", "remixIns"}
      /\ c.kind = kind /\ c.pool = pool /\ c.conf = conf /\ c.score = score
      /\ c.entered = entered /\ c.cost = cost /\ c.premixIns = m /\ c.remixIns = n
  BY DEF Fields
<1> HIDE DEF r, s, c
<1>4. /\ x.kind = c.kind /\ x.pool = c.pool /\ x.conf = c.conf /\ x.score = c.score
      /\ x.entered = c.entered /\ x.cost = c.cost
      /\ x.premixIns = c.premixIns /\ x.remixIns = c.remixIns
      /\ x.roles = r /\ x.confs = s /\ x = [i \in DOMAIN c |-> x[i]]
  BY <1>3
<1> HIDE DEF x
<1>5. x = Fields(kind, pool, conf, r, s, score, entered, cost, m, n)
  BY <1>3, <1>4 DEF Fields
<1> QED
  BY <1>2, <1>5 DEF r, s, c

(* The candidates are those there were, with their outputs moved.           *)
LEMMA CandidatesMoved ==
    ASSUME NEW t, Transaction(t), NEW u, NEW b, OutputsMoved(t, u, b), NEW pre, NEW p
    PROVE  /\ \A v : Tx0Candidate(u, pre, p, v) = Moved(Tx0Candidate(t, pre, p, v), b)
           /\ \A v : Tx0Pair(u, pre, p, v) <=> Tx0Pair(t, pre, p, v)
           /\ RoundCandidate(u, pre, p) = Moved(RoundCandidate(t, pre, p), b)
           /\ RoundShape(u, p) <=> RoundShape(t, p)
           /\ RoundInputs(u, pre, p) <=> RoundInputs(t, pre, p)
           /\ Unknown(u) = Moved(Unknown(t), b)
<1> DEFINE N == OutsOf(t)
<1>1. /\ OutsOf(u) = N /\ InsOf(u) = InsOf(t) /\ DOMAIN b = N
      /\ MinerFee(u, pre) = MinerFee(t, pre)
      /\ InvalidAccounting(u, pre) = InvalidAccounting(t, pre)
      /\ PremixAmounts(u, p) = PremixAmounts(t, p)
  BY MovedOutputs
<1>2. /\ b \in [N -> N] /\ \A i \in N : \E j \in N : b[j] = i
      /\ \A j \in N : u.outs[j] = t.outs[b[j]]
      /\ u.ins = t.ins /\ Len(u.outs) = Len(t.outs)
  BY DEF OutputsMoved, Permutes
<1>a. ASSUME NEW v
      PROVE  /\ \A j \in OutsOf(t) : Tx0Role(u, p, v, j) = Tx0Role(t, p, v, b[j])
             /\ Explained(u, p, v) = Explained(t, p, v)
             /\ Cardinality(Markers(u)) = Cardinality(Markers(t))
             /\ Cardinality(PoolFees(u, p)) = Cardinality(PoolFees(t, p))
             /\ Cardinality(PremixGroup(u, v)) = Cardinality(PremixGroup(t, v))
             /\ Change(u, p, v) = {} <=> Change(t, p, v) = {}
             /\ Markers(u) \cup PoolFees(u, p) = {} <=> Markers(t) \cup PoolFees(t, p) = {}
             /\ SumOf([i \in PoolFees(u, p) |-> u.outs[i].value])
                = SumOf([i \in PoolFees(t, p) |-> t.outs[i].value])
  BY MovedKinds, SMTT(120)
<1>3. ASSUME NEW v
      PROVE  Tx0Candidate(u, pre, p, v) = Moved(Tx0Candidate(t, pre, p, v), b)
  <2> DEFINE c == Tx0Candidate(t, pre, p, v)
             d == Tx0Candidate(u, pre, p, v)
             conf == IF Explained(t, p, v) THEN "high" ELSE "medium"
             roles == [i \in N |-> Tx0Role(t, p, v, i)]
             rolesIn == [i \in N |-> Tx0Role(u, p, v, i)]
             confs == [i \in N |-> IF roles[i] = "unclassified" THEN "low" ELSE conf]
             confsIn == [i \in N |-> IF rolesIn[i] = "unclassified" THEN "low" ELSE conf]
             fee == SumOf([i \in PoolFees(t, p) |-> t.outs[i].value])
             score == 4 + If(Cardinality(Markers(t)) = 1, 4)
                        + If(Cardinality(PoolFees(t, p)) = 1, 4)
                        + If(Change(t, p, v) # {}, 1)
             entered == Cardinality(PremixGroup(t, v)) * p.denom
             cost == IF Resolved(pre) THEN {MinerFee(t, pre) + fee} ELSE {}
  <2>1. \A j \in N : Tx0Role(u, p, v, j) = Tx0Role(t, p, v, b[j])
    BY <1>a
  <2>2. rolesIn = [j \in N |-> roles[b[j]]]
    BY <1>2, <2>1
  <2>3. confsIn = [j \in N |-> confs[b[j]]]
    BY <1>2, <2>1
  <2>4. c = Fields("tx0", p.id, conf, roles, confs, score, entered, cost, 0, 0)
    BY DEF Tx0Candidate, Fields
  <2>5. d = Fields("tx0", p.id, conf, rolesIn, confsIn, score, entered, cost, 0, 0)
    <3>1. /\ Explained(u, p, v) = Explained(t, p, v)
          /\ Cardinality(Markers(u)) = Cardinality(Markers(t))
          /\ Cardinality(PoolFees(u, p)) = Cardinality(PoolFees(t, p))
          /\ Cardinality(PremixGroup(u, v)) = Cardinality(PremixGroup(t, v))
          /\ (Change(u, p, v) # {}) = (Change(t, p, v) # {})
          /\ SumOf([i \in PoolFees(u, p) |-> u.outs[i].value]) = fee
      BY <1>a
    <3> QED
      BY <1>1, <3>1, ZenonT(60) DEF Tx0Candidate, Fields
  <2> HIDE DEF c, d, conf, roles, rolesIn, confs, confsIn, score, entered, cost
  <2>6. Moved(c, b) = Fields("tx0", p.id, conf, [j \in DOMAIN b |-> roles[b[j]]],
                               [j \in DOMAIN b |-> confs[b[j]]], score, entered, cost, 0, 0)
    BY <2>4, MovedFields
  <2>7. d = Moved(c, b)
    BY <1>1, <2>2, <2>3, <2>5, <2>6, Zenon
  <2> QED
    BY <2>7 DEF c, d
<1>4. ASSUME NEW v PROVE Tx0Pair(u, pre, p, v) <=> Tx0Pair(t, pre, p, v)
  <2>1. /\ Cardinality(PremixGroup(u, v)) = Cardinality(PremixGroup(t, v))
        /\ Markers(u) \cup PoolFees(u, p) = {} <=> Markers(t) \cup PoolFees(t, p) = {}
    BY <1>a
  <2> QED
    BY <1>1, <2>1 DEF Tx0Pair
<1>5. /\ PremixIns(u, pre, p) = PremixIns(t, pre, p)
      /\ RemixIns(u, pre, p) = RemixIns(t, pre, p)
  BY <1>1, <1>2 DEF PremixIns, RemixIns
<1>6. RoundInputs(u, pre, p) <=> RoundInputs(t, pre, p)
  BY <1>1, <1>5 DEF RoundInputs
<1>7. RoundShape(u, p) <=> RoundShape(t, p)
  BY <1>1, <1>2 DEF RoundShape
<1>8. RoundCandidate(u, pre, p) = Moved(RoundCandidate(t, pre, p), b)
  <2> DEFINE c == RoundCandidate(t, pre, p)
             conf == IF Resolved(pre) THEN "high" ELSE "medium"
             same == [i \in N |-> "coinjoin"]
             confs == [i \in N |-> conf]
             score == 5 + If(Resolved(pre), 5)
             m == IF Resolved(pre) THEN Cardinality(PremixIns(t, pre, p)) ELSE 0
             n == IF Resolved(pre) THEN Cardinality(RemixIns(t, pre, p)) ELSE 0
  <2>1. RoundCandidate(u, pre, p) = c
    BY <1>1, <1>5, Zenon DEF RoundCandidate
  <2>2. c = Fields("whirlpool_round", p.id, conf, same, confs, score, 0, {}, m, n)
    BY Zenon DEF RoundCandidate, Fields
  <2>3. [j \in DOMAIN b |-> same[b[j]]] = same /\ [j \in DOMAIN b |-> confs[b[j]]] = confs
    BY <1>1, <1>2
  <2> HIDE DEF c, conf, same, confs, score, m, n
  <2>4. Moved(c, b) = c
    BY <2>2, <2>3, MovedFields
  <2> QED
    BY <2>1, <2>4 DEF c
<1>9. Unknown(u) = Moved(Unknown(t), b)
  <2> DEFINE c == Unknown(t)
             kind == "unknown"
             pool == ""
             low == "low"
             cost == {}
             zero == 0
             same == [i \in N |-> "unclassified"]
             confs == [i \in N |-> low]
  <2>1. Unknown(u) = c
    BY <1>1, Zenon DEF Unknown
  <2>2. c = Fields(kind, pool, low, same, confs, zero, zero, cost, zero, zero)
    BY Zenon DEF Unknown, Fields
  <2>3. [j \in DOMAIN b |-> same[b[j]]] = same /\ [j \in DOMAIN b |-> confs[b[j]]] = confs
    BY <1>1, <1>2
  <2> HIDE DEF c, same, confs, kind, low, pool, cost, zero
  <2>4. Moved(c, b) = c
    BY <2>2, <2>3, MovedFields
  <2> QED
    BY <2>1, <2>4 DEF c
<1> QED
  BY <1>3, <1>4, <1>6, <1>7, <1>8, <1>9

(* Finitely many candidates come from the pools and the outputs.            *)
LEMMA CandidatesFinite ==
    ASSUME NEW t, Transaction(t), NEW pre
    PROVE  IsFiniteSet(Tx0Candidates(t, pre)) /\ IsFiniteSet(RoundCandidates(t, pre))
<1>1. IsFiniteSet(PoolDefs) /\ IsFiniteSet(OutsOf(t))
  BY PoolsDistinct, OutTypes
<1>2. IsFiniteSet(Tx0Candidates(t, pre))
  <2> DEFINE S == PoolDefs \X OutsOf(t)
             Cand(p, v) == Tx0Candidate(t, pre, p, v)
             f == [x \in S |-> Cand(x[1], t.outs[x[2]].value)]
             T == {f[x] : x \in S}
  <2>1. IsFiniteSet(S)
    BY <1>1, FS_Product
  <2>2. f \in Surjection(S, T)
    <3> HIDE DEF S, Cand
    <3> QED
      BY DEF Surjection
  <2>3. IsFiniteSet(T)
    <3> HIDE DEF S, f, T
    <3> QED
      BY <2>1, <2>2, FS_Surjection
  <2>4. Tx0Candidates(t, pre) \subseteq T
    <3> SUFFICES ASSUME NEW c \in Tx0Candidates(t, pre) PROVE c \in T
      OBVIOUS
    <3>1. PICK p, v : Tx0Pair(t, pre, p, v) /\ c = Cand(p, v)
      BY Tx0CandidatesAre
    <3>2. p \in PoolDefs /\ v \in PremixAmounts(t, p)
      BY <3>1 DEF Tx0Pair
    <3>3. PICK i \in OutsOf(t) : v = t.outs[i].value
      BY <3>2 DEF PremixAmounts
    <3> HIDE DEF Cand
    <3>4. <<p, i>> \in S /\ f[<<p, i>>] = Cand(p, v)
      BY <3>2, <3>3
    <3> QED
      BY <3>1, <3>4
  <2> QED
    BY <2>3, <2>4, FS_Subset
<1>3. IsFiniteSet(RoundCandidates(t, pre))
  <2> DEFINE Cand(p) == RoundCandidate(t, pre, p)
             f == [p \in PoolDefs |-> Cand(p)]
             T == {f[p] : p \in PoolDefs}
  <2>1. f \in Surjection(PoolDefs, T)
    <3> HIDE DEF Cand
    <3> QED
      BY DEF Surjection
  <2>2. IsFiniteSet(T)
    <3> HIDE DEF f, T
    <3> QED
      BY <1>1, <2>1, FS_Surjection
  <2>3. RoundCandidates(t, pre) \subseteq T
    <3> HIDE DEF Cand
    <3> QED
      BY RoundCandidatesAre DEF Cand
  <2> QED
    BY <2>2, <2>3, FS_Subset
<1> QED
  BY <1>2, <1>3

(* The best candidate, if it is the only one, is the verdict.               *)
LEMMA DetectOnly ==
    ASSUME NEW t, Transaction(t), NEW pre
    PROVE  LET tx0s   == Best(Tx0Candidates(t, pre))
               rounds == Best(RoundCandidates(t, pre))
           IN  /\ \A c : tx0s = {c} => Detect(t, pre) = c
               /\ \A c : tx0s = {} /\ rounds = {c} => Detect(t, pre) = c
               /\ (/\ ~\E c : tx0s = {c}
                   /\ ~(tx0s = {} /\ \E c : rounds = {c}))
                  => Detect(t, pre) = Unknown(t)
<1> DEFINE tx0s == Best(Tx0Candidates(t, pre))
           rounds == Best(RoundCandidates(t, pre))
<1>1. IsFiniteSet(tx0s) /\ IsFiniteSet(rounds)
  <2>1. tx0s \subseteq Tx0Candidates(t, pre) /\ rounds \subseteq RoundCandidates(t, pre)
    BY DEF Best
  <2> QED
    BY <2>1, CandidatesFinite, FS_Subset
<1>2. Detect(t, pre)
      = IF Cardinality(tx0s) = 1 THEN CHOOSE c \in tx0s : TRUE
        ELSE IF tx0s = {} /\ Cardinality(rounds) = 1 THEN CHOOSE c \in rounds : TRUE
        ELSE Unknown(t)
  BY DEF Detect
<1> HIDE DEF tx0s, rounds
<1>3. /\ Cardinality(tx0s) = 1 <=> \E c : tx0s = {c}
      /\ Cardinality(rounds) = 1 <=> \E c : rounds = {c}
  BY <1>1, FS_Singleton
<1>4. \A c : (CHOOSE x \in {c} : TRUE) = c
  OBVIOUS
<1>5. ASSUME NEW c, tx0s = {c} PROVE Detect(t, pre) = c
  BY <1>2, <1>3, <1>4, <1>5
<1>6. ASSUME NEW c, tx0s = {}, rounds = {c} PROVE Detect(t, pre) = c
  <2>1. ~\E d : tx0s = {d}
    BY <1>6
  <2> QED
    BY <1>2, <1>3, <1>4, <1>6, <2>1
<1>7. ASSUME ~\E c : tx0s = {c}, ~(tx0s = {} /\ \E c : rounds = {c})
      PROVE  Detect(t, pre) = Unknown(t)
  BY <1>2, <1>3, <1>7
<1> QED
  BY <1>5, <1>6, <1>7 DEF tx0s, rounds

(* If a set of candidates moves, so do the best of them.                    *)
LEMMA BestMoved ==
    ASSUME NEW C, NEW D, NEW b,
           \A c \in C : Moved(c, b) \in D /\ Moved(c, b).score = c.score,
           \A d \in D : \E c \in C : d = Moved(c, b)
    PROVE  /\ \A c \in Best(C) : Moved(c, b) \in Best(D)
           /\ \A d \in Best(D) : \E c \in Best(C) : d = Moved(c, b)
           /\ \A c : Best(C) = {c} => Best(D) = {Moved(c, b)}
<1>1. \A c \in Best(C) : Moved(c, b) \in Best(D)
  BY DEF Best
<1>2. \A d \in Best(D) : \E c \in Best(C) : d = Moved(c, b)
  BY DEF Best
<1>3. ASSUME NEW c, Best(C) = {c} PROVE Best(D) = {Moved(c, b)}
  BY <1>1, <1>2, <1>3
<1> QED
  BY <1>1, <1>2, <1>3

(* A candidate has a role and a confidence for each output, and moving its  *)
(* outputs keeps its score.                                                 *)
LEMMA CandidateForm ==
    ASSUME NEW t, NEW pre
    PROVE  /\ \A c \in Tx0Candidates(t, pre) \cup RoundCandidates(t, pre) :
                 \A b : Moved(c, b).score = c.score
           /\ \A c \in Tx0Candidates(t, pre) \cup RoundCandidates(t, pre) \cup {Unknown(t)} :
                 DOMAIN c.roles = OutsOf(t) /\ DOMAIN c.confs = OutsOf(t)
                 /\ c.roles = [j \in OutsOf(t) |-> c.roles[j]]
                 /\ c.confs = [j \in OutsOf(t) |-> c.confs[j]]
<1>1. ASSUME NEW p, NEW v, NEW c, c = Tx0Candidate(t, pre, p, v)
      PROVE  /\ "score" \in DOMAIN c
             /\ DOMAIN c.roles = OutsOf(t) /\ DOMAIN c.confs = OutsOf(t)
             /\ c.roles = [j \in OutsOf(t) |-> c.roles[j]]
             /\ c.confs = [j \in OutsOf(t) |-> c.confs[j]]
  BY <1>1 DEF Tx0Candidate
<1>2. ASSUME NEW p, NEW c, c = RoundCandidate(t, pre, p)
      PROVE  /\ "score" \in DOMAIN c
             /\ DOMAIN c.roles = OutsOf(t) /\ DOMAIN c.confs = OutsOf(t)
             /\ c.roles = [j \in OutsOf(t) |-> c.roles[j]]
             /\ c.confs = [j \in OutsOf(t) |-> c.confs[j]]
  BY <1>2 DEF RoundCandidate
<1>3. ASSUME NEW c, c = Unknown(t)
      PROVE  /\ DOMAIN c.roles = OutsOf(t) /\ DOMAIN c.confs = OutsOf(t)
             /\ c.roles = [j \in OutsOf(t) |-> c.roles[j]]
             /\ c.confs = [j \in OutsOf(t) |-> c.confs[j]]
  BY <1>3 DEF Unknown
<1>4. ASSUME NEW c, "score" \in DOMAIN c, NEW b PROVE Moved(c, b).score = c.score
  BY <1>4 DEF Moved
<1>5. ASSUME NEW c \in Tx0Candidates(t, pre)
      PROVE  /\ "score" \in DOMAIN c
             /\ DOMAIN c.roles = OutsOf(t) /\ DOMAIN c.confs = OutsOf(t)
             /\ c.roles = [j \in OutsOf(t) |-> c.roles[j]]
             /\ c.confs = [j \in OutsOf(t) |-> c.confs[j]]
  <2>1. PICK p, v : c = Tx0Candidate(t, pre, p, v)
    BY Tx0CandidatesAre
  <2> QED
    BY <1>1, <2>1
<1>6. ASSUME NEW c \in RoundCandidates(t, pre)
      PROVE  /\ "score" \in DOMAIN c
             /\ DOMAIN c.roles = OutsOf(t) /\ DOMAIN c.confs = OutsOf(t)
             /\ c.roles = [j \in OutsOf(t) |-> c.roles[j]]
             /\ c.confs = [j \in OutsOf(t) |-> c.confs[j]]
  <2>1. PICK p : c = RoundCandidate(t, pre, p)
    BY RoundCandidatesAre
  <2> QED
    BY <1>2, <2>1
<1> QED
  BY <1>3, <1>4, <1>5, <1>6

(* With its outputs in another order, a transaction has the same verdict,   *)
(* and each output the role it had.                                         *)
LEMMA VerdictMoved ==
    ASSUME NEW t, Transaction(t), NEW u, Transaction(u), NEW a, NEW b,
           OutputsMoved(t, u, b), OutputsMoved(u, t, a), NEW pre
    PROVE  Detect(u, pre) = Moved(Detect(t, pre), b)
<1> DEFINE ct == Tx0Candidates(t, pre)
           cu == Tx0Candidates(u, pre)
           rt == RoundCandidates(t, pre)
           ru == RoundCandidates(u, pre)
<1>1. ASSUME NEW x, Transaction(x), NEW y, NEW d, OutputsMoved(x, y, d)
      PROVE  /\ \A c \in Tx0Candidates(x, pre) :
                   /\ Moved(c, d) \in Tx0Candidates(y, pre)
                   /\ Moved(c, d).score = c.score
             /\ \A e \in Tx0Candidates(y, pre) :
                   \E c \in Tx0Candidates(x, pre) : e = Moved(c, d)
             /\ \A c \in RoundCandidates(x, pre) :
                   /\ Moved(c, d) \in RoundCandidates(y, pre)
                   /\ Moved(c, d).score = c.score
             /\ \A e \in RoundCandidates(y, pre) :
                   \E c \in RoundCandidates(x, pre) : e = Moved(c, d)
  <2>1. \A p : /\ \A v : Tx0Candidate(y, pre, p, v) = Moved(Tx0Candidate(x, pre, p, v), d)
               /\ \A v : Tx0Pair(y, pre, p, v) <=> Tx0Pair(x, pre, p, v)
               /\ RoundCandidate(y, pre, p) = Moved(RoundCandidate(x, pre, p), d)
               /\ RoundShape(y, p) <=> RoundShape(x, p)
               /\ RoundInputs(y, pre, p) <=> RoundInputs(x, pre, p)
    BY <1>1, CandidatesMoved
  <2>2. InvalidAccounting(y, pre) = InvalidAccounting(x, pre)
    BY <1>1, MovedOutputs
  <2>3. /\ \A c : c \in Tx0Candidates(x, pre) <=>
              \E p, v : Tx0Pair(x, pre, p, v) /\ c = Tx0Candidate(x, pre, p, v)
        /\ \A c : c \in Tx0Candidates(y, pre) <=>
              \E p, v : Tx0Pair(y, pre, p, v) /\ c = Tx0Candidate(y, pre, p, v)
    BY Tx0CandidatesAre
  <2>4. /\ \A c : c \in RoundCandidates(x, pre) <=>
              \E p \in PoolDefs : /\ RoundShape(x, p) /\ ~InvalidAccounting(x, pre)
                                 /\ (Resolved(pre) => RoundInputs(x, pre, p))
                                 /\ c = RoundCandidate(x, pre, p)
        /\ \A c : c \in RoundCandidates(y, pre) <=>
              \E p \in PoolDefs : /\ RoundShape(y, p) /\ ~InvalidAccounting(y, pre)
                                 /\ (Resolved(pre) => RoundInputs(y, pre, p))
                                 /\ c = RoundCandidate(y, pre, p)
    BY RoundCandidatesAre
  <2>5. \A c \in Tx0Candidates(x, pre) \cup RoundCandidates(x, pre) :
           Moved(c, d).score = c.score
    BY CandidateForm
  <2>6. /\ \A c \in Tx0Candidates(x, pre) : Moved(c, d) \in Tx0Candidates(y, pre)
        /\ \A e \in Tx0Candidates(y, pre) :
              \E c \in Tx0Candidates(x, pre) : e = Moved(c, d)
    BY <2>1, <2>3
  <2>7. /\ \A c \in RoundCandidates(x, pre) : Moved(c, d) \in RoundCandidates(y, pre)
        /\ \A e \in RoundCandidates(y, pre) :
              \E c \in RoundCandidates(x, pre) : e = Moved(c, d)
    BY <2>1, <2>2, <2>4
  <2> QED
    BY <2>5, <2>6, <2>7
<1>2. /\ \A c \in ct : Moved(c, b) \in cu /\ Moved(c, b).score = c.score
      /\ \A d \in cu : \E c \in ct : d = Moved(c, b)
      /\ \A c \in rt : Moved(c, b) \in ru /\ Moved(c, b).score = c.score
      /\ \A d \in ru : \E c \in rt : d = Moved(c, b)
  BY <1>1
<1>3. /\ \A c \in cu : Moved(c, a) \in ct /\ Moved(c, a).score = c.score
      /\ \A d \in ct : \E c \in cu : d = Moved(c, a)
      /\ \A c \in ru : Moved(c, a) \in rt /\ Moved(c, a).score = c.score
      /\ \A d \in rt : \E c \in ru : d = Moved(c, a)
  BY <1>1
<1> HIDE DEF ct, cu, rt, ru
<1>4. /\ \A c \in Best(ct) : Moved(c, b) \in Best(cu)
      /\ \A c : Best(ct) = {c} => Best(cu) = {Moved(c, b)}
      /\ \A c : Best(rt) = {c} => Best(ru) = {Moved(c, b)}
  <2>1. /\ \A c \in ct : Moved(c, b) \in cu /\ Moved(c, b).score = c.score
        /\ \A d \in cu : \E c \in ct : d = Moved(c, b)
    BY <1>2
  <2>2. /\ \A c \in Best(ct) : Moved(c, b) \in Best(cu)
        /\ \A d \in Best(cu) : \E c \in Best(ct) : d = Moved(c, b)
        /\ \A c : Best(ct) = {c} => Best(cu) = {Moved(c, b)}
    BY <2>1, BestMoved, ZenonT(60)
  <2>3. /\ \A c \in rt : Moved(c, b) \in ru /\ Moved(c, b).score = c.score
        /\ \A d \in ru : \E c \in rt : d = Moved(c, b)
    BY <1>2
  <2>4. /\ \A c \in Best(rt) : Moved(c, b) \in Best(ru)
        /\ \A d \in Best(ru) : \E c \in Best(rt) : d = Moved(c, b)
        /\ \A c : Best(rt) = {c} => Best(ru) = {Moved(c, b)}
    BY <2>3, BestMoved, ZenonT(60)
  <2> QED
    BY <2>2, <2>4
<1>5. /\ \A c \in Best(cu) : Moved(c, a) \in Best(ct)
      /\ \A c : Best(cu) = {c} => Best(ct) = {Moved(c, a)}
      /\ \A c : Best(ru) = {c} => Best(rt) = {Moved(c, a)}
  <2>1. /\ \A c \in cu : Moved(c, a) \in ct /\ Moved(c, a).score = c.score
        /\ \A d \in ct : \E c \in cu : d = Moved(c, a)
    BY <1>3
  <2>2. /\ \A c \in Best(cu) : Moved(c, a) \in Best(ct)
        /\ \A d \in Best(ct) : \E c \in Best(cu) : d = Moved(c, a)
        /\ \A c : Best(cu) = {c} => Best(ct) = {Moved(c, a)}
    BY <2>1, BestMoved, ZenonT(60)
  <2>3. /\ \A c \in ru : Moved(c, a) \in rt /\ Moved(c, a).score = c.score
        /\ \A d \in rt : \E c \in ru : d = Moved(c, a)
    BY <1>3
  <2>4. /\ \A c \in Best(ru) : Moved(c, a) \in Best(rt)
        /\ \A d \in Best(rt) : \E c \in Best(ru) : d = Moved(c, a)
        /\ \A c : Best(ru) = {c} => Best(rt) = {Moved(c, a)}
    BY <2>3, BestMoved, ZenonT(60)
  <2> QED
    BY <2>2, <2>4
<1>6. Best(ct) = {} <=> Best(cu) = {}
  BY <1>4, <1>5
<1>7. /\ \A c : Best(ct) = {c} => Detect(t, pre) = c
      /\ \A c : Best(ct) = {} /\ Best(rt) = {c} => Detect(t, pre) = c
      /\ (/\ ~\E c : Best(ct) = {c}
          /\ ~(Best(ct) = {} /\ \E c : Best(rt) = {c}))
         => Detect(t, pre) = Unknown(t)
  BY DetectOnly DEF ct, rt
<1>8. /\ \A c : Best(cu) = {c} => Detect(u, pre) = c
      /\ \A c : Best(cu) = {} /\ Best(ru) = {c} => Detect(u, pre) = c
      /\ (/\ ~\E c : Best(cu) = {c}
          /\ ~(Best(cu) = {} /\ \E c : Best(ru) = {c}))
         => Detect(u, pre) = Unknown(u)
  BY DetectOnly DEF cu, ru
<1>9. CASE \E c : Best(ct) = {c}
  BY <1>4, <1>7, <1>8, <1>9
<1>10. CASE Best(ct) = {} /\ \E c : Best(rt) = {c}
  BY <1>4, <1>6, <1>7, <1>8, <1>10
<1>11. CASE (~\E c : Best(ct) = {c}) /\ ~(Best(ct) = {} /\ \E c : Best(rt) = {c})
  <2>1. (~\E c : Best(cu) = {c}) /\ ~(Best(cu) = {} /\ \E c : Best(ru) = {c})
    BY <1>5, <1>6, <1>11
  <2>2. Unknown(u) = Moved(Unknown(t), b)
    BY CandidatesMoved
  <2> QED
    BY <1>7, <1>8, <1>11, <2>1, <2>2
<1> QED
  BY <1>9, <1>10, <1>11

(* Exchanging two neighbours again puts them back.                          *)
LEMMA SwapMovesOutputs ==
    ASSUME DetectorTypes, NEW i \in 1 .. Len(tx.outs) - 1, SwapOutputs(i)
    PROVE  LET b == Exchange(Len(tx.outs), i)
           IN  OutputsMoved(tx, tx', b) /\ OutputsMoved(tx', tx, b) /\ prev' = prev
<1> DEFINE n == Len(tx.outs)
           b == Exchange(n, i)
<1>1. /\ tx.outs \in Seq(AnyOut) /\ n \in Nat
      /\ tx = [txid |-> tx.txid, ins |-> tx.ins, outs |-> tx.outs,
               vsize |-> tx.vsize, prints |-> tx.prints]
  BY DEF DetectorTypes
<1>2. tx' = [tx EXCEPT !.outs = Swapped(@, i)] /\ prev' = prev
  BY DEF SwapOutputs
<1>3. /\ Permutes(b, 1 .. n)
      /\ \A j \in 1 .. n : Swapped(tx.outs, i)[j] = tx.outs[b[j]]
      /\ Len(Swapped(tx.outs, i)) = n
  BY <1>1, SwappedPermutes, SwappedTyped
<1>4. tx'.outs = Swapped(tx.outs, i) /\ tx'.ins = tx.ins
  BY <1>1, <1>2
<1>5. \A j \in 1 .. n : b[j] \in 1 .. n /\ b[b[j]] = j
  BY <1>1 DEF Exchange
<1> HIDE DEF b
<1>6. \A j \in 1 .. n : tx'.outs[j] = tx.outs[b[j]] /\ tx.outs[j] = tx'.outs[b[j]]
  BY <1>3, <1>4, <1>5
<1>7. OutputsMoved(tx, tx', b) /\ OutputsMoved(tx', tx, b)
  BY <1>3, <1>4, <1>6 DEF OutputsMoved, OutsOf
<1> QED
  BY <1>2, <1>7 DEF b

(* Swapping the values of a function is looking them up exchanged.          *)
LEMMA SwappedFunction ==
    ASSUME NEW n \in Nat, NEW i \in 1 .. n - 1, NEW f, DOMAIN f = 1 .. n,
           f = [j \in 1 .. n |-> f[j]]
    PROVE  Swapped(f, i) = [j \in DOMAIN Exchange(n, i) |-> f[Exchange(n, i)[j]]]
<1> DEFINE b == Exchange(n, i)
           g == [j \in 1 .. n |-> f[b[j]]]
           h == Swapped(f, i)
<1>1. DOMAIN b = 1 .. n /\ \A j \in 1 .. n :
         b[j] = IF j = i THEN i + 1 ELSE IF j = i + 1 THEN i ELSE j
  BY DEF Exchange
<1>2. i \in 1 .. n /\ i + 1 \in 1 .. n /\ i # i + 1
  OBVIOUS
<1>3. h = [j \in 1 .. n |-> h[j]]
  BY DEF Swapped
<1>4. \A j \in 1 .. n : h[j] = IF j = i THEN f[i + 1] ELSE IF j = i + 1 THEN f[i] ELSE f[j]
  BY <1>2 DEF Swapped
<1> HIDE DEF b, h
<1>5. h = g
  BY <1>1, <1>3, <1>4, SMTT(30)
<1> QED
  BY <1>1, <1>5 DEF b, h

(* With its inputs in another order, a transaction has the same verdict:    *)
(* if one of them is unknown it is none, and otherwise all counts stay.     *)
LEMMA VerdictStays ==
    ASSUME NEW t, Transaction(t), NEW u, NEW b, InputsMoved(t, u, b), NEW pre, Previous(pre)
    PROVE  Detect(u, pre) = Detect(t, pre)
<1> DEFINE N == InsOf(t)
<1>1. /\ InsOf(u) = N /\ OutsOf(u) = OutsOf(t) /\ u.outs = t.outs
      /\ Len(u.ins) = Len(t.ins) /\ Permutes(b, N) /\ InSet(u) = InSet(t)
      /\ OutputTotal(u) = OutputTotal(t)
      /\ \A j \in N : u.ins[j] = t.ins[b[j]]
  BY MovedInputs DEF InputsMoved
<1>2. b \in [N -> N] /\ \A i \in N : \E j \in N : b[j] = i
  BY <1>1 DEF Permutes
<1>3. /\ Markers(u) = Markers(t)
      /\ \A p : PoolFees(u, p) = PoolFees(t, p) /\ PremixAmounts(u, p) = PremixAmounts(t, p)
      /\ \A v : PremixGroup(u, v) = PremixGroup(t, v)
  BY <1>1 DEF Markers, PoolFees, PremixAmounts, PremixGroup
<1>4. \A p, v : /\ Residual(u, p, v) = Residual(t, p, v)
                /\ Change(u, p, v) = Change(t, p, v)
  BY <1>1, <1>3 DEF Residual, Change
<1>5. \A p, v : /\ \A i : Tx0Role(u, p, v, i) = Tx0Role(t, p, v, i)
                /\ Explained(u, p, v) = Explained(t, p, v)
  <2> SUFFICES ASSUME NEW p, NEW v
               PROVE  /\ \A i : Tx0Role(u, p, v, i) = Tx0Role(t, p, v, i)
                      /\ Explained(u, p, v) = Explained(t, p, v)
    OBVIOUS
  <2>1. Explained(u, p, v) = Explained(t, p, v)
    BY <1>3, <1>4 DEF Explained
  <2>2. \A i : Tx0Role(u, p, v, i) = Tx0Role(t, p, v, i)
    BY <1>3, <1>4 DEF Tx0Role
  <2> QED
    BY <2>1, <2>2
<1>6. \A p : RoundShape(u, p) = RoundShape(t, p)
  BY <1>1 DEF RoundShape
<1>7. Unknown(u) = Unknown(t)
  BY <1>1 DEF Unknown
<1>8. ASSUME Resolved(pre), ~(InSet(t) \subseteq DOMAIN pre)
      PROVE  InvalidAccounting(u, pre) /\ InvalidAccounting(t, pre)
  <2>1. /\ \E i \in InsOf(t) : t.ins[i] \notin DOMAIN pre
        /\ \E i \in InsOf(u) : u.ins[i] \notin DOMAIN pre
    BY <1>1, <1>8 DEF InSet
  <2> QED
    BY <1>8, <2>1 DEF InvalidAccounting
<1>9. ASSUME Resolved(pre), InSet(t) \subseteq DOMAIN pre
      PROVE  /\ MinerFee(u, pre) = MinerFee(t, pre)
             /\ InvalidAccounting(u, pre) <=> InvalidAccounting(t, pre)
             /\ \A p : /\ Cardinality(PremixIns(u, pre, p)) = Cardinality(PremixIns(t, pre, p))
                       /\ Cardinality(RemixIns(u, pre, p)) = Cardinality(RemixIns(t, pre, p))
                       /\ RoundInputs(u, pre, p) <=> RoundInputs(t, pre, p)
  <2>1. InputTotal(u, pre) = InputTotal(t, pre) /\ MinerFee(u, pre) = MinerFee(t, pre)
    BY <1>9, MovedTotals
  <2>2. \A i \in N : t.ins[i] \in DOMAIN pre /\ u.ins[i] \in DOMAIN pre
    BY <1>1, <1>9 DEF InSet
  <2>3. (\E i \in N : pre[u.ins[i]].value < 0) <=> (\E i \in N : pre[t.ins[i]].value < 0)
    BY <1>1, <1>2, SMTT(30)
  <2>4. InvalidAccounting(u, pre) <=> InvalidAccounting(t, pre)
    BY <1>1, <2>1, <2>2, <2>3 DEF InvalidAccounting
  <2>5. ASSUME NEW p
        PROVE  /\ PremixIns(u, pre, p) = Before(b, N, PremixIns(t, pre, p))
               /\ RemixIns(u, pre, p) = Before(b, N, RemixIns(t, pre, p))
               /\ PremixIns(t, pre, p) \subseteq N /\ RemixIns(t, pre, p) \subseteq N
    BY <1>1, <1>2 DEF PremixIns, RemixIns, Before
  <2>6. IsFiniteSet(N)
    BY OutTypes
  <2>7. ASSUME NEW p
        PROVE  /\ Cardinality(PremixIns(u, pre, p)) = Cardinality(PremixIns(t, pre, p))
               /\ Cardinality(RemixIns(u, pre, p)) = Cardinality(RemixIns(t, pre, p))
    <3>1. \A S \in SUBSET N : Cardinality(Before(b, N, S)) = Cardinality(S)
      BY <1>1, <2>6, BeforeAsMany
    <3> HIDE DEF N
    <3> QED
      BY <2>5, <3>1
  <2>8. ASSUME NEW p PROVE RoundInputs(u, pre, p) <=> RoundInputs(t, pre, p)
    <3> DEFINE S == PremixIns(t, pre, p) \cup RemixIns(t, pre, p)
    <3>1. PremixIns(u, pre, p) \cup RemixIns(u, pre, p) = {j \in N : b[j] \in S}
      BY <2>5 DEF Before
    <3>2. S \subseteq N
      BY <2>5
    <3>3. RoundInputs(u, pre, p) <=> {j \in N : b[j] \in S} = N
      BY <1>1, <3>1 DEF RoundInputs
    <3>4. RoundInputs(t, pre, p) <=> S = N
      BY DEF RoundInputs
    <3> HIDE DEF S, N
    <3>5. {j \in N : b[j] \in S} = N <=> S = N
      BY <1>2, <3>2
    <3> QED
      BY <3>3, <3>4, <3>5
  <2> QED
    BY <2>1, <2>4, <2>7, <2>8
<1>10. InvalidAccounting(u, pre) <=> InvalidAccounting(t, pre)
  <2>1. ~Resolved(pre) => ~InvalidAccounting(u, pre) /\ ~InvalidAccounting(t, pre)
    BY DEF InvalidAccounting
  <2> QED
    BY <1>8, <1>9, <2>1
<1>11. ASSUME ~InvalidAccounting(t, pre)
       PROVE  /\ \A p, v : Tx0Candidate(u, pre, p, v) = Tx0Candidate(t, pre, p, v)
              /\ \A p : /\ RoundCandidate(u, pre, p) = RoundCandidate(t, pre, p)
                        /\ (Resolved(pre) => RoundInputs(u, pre, p))
                           <=> (Resolved(pre) => RoundInputs(t, pre, p))
  <2>1. Resolved(pre) => InSet(t) \subseteq DOMAIN pre
    BY <1>8, <1>11
  <2>2. Resolved(pre) =>
          /\ MinerFee(u, pre) = MinerFee(t, pre)
          /\ \A p : /\ Cardinality(PremixIns(u, pre, p)) = Cardinality(PremixIns(t, pre, p))
                    /\ Cardinality(RemixIns(u, pre, p)) = Cardinality(RemixIns(t, pre, p))
                    /\ RoundInputs(u, pre, p) <=> RoundInputs(t, pre, p)
    BY <1>9, <2>1
  <2>3. ASSUME NEW p, NEW v PROVE Tx0Candidate(u, pre, p, v) = Tx0Candidate(t, pre, p, v)
    <3>1. ASSUME NEW fee
          PROVE  (IF Resolved(pre) THEN {MinerFee(u, pre) + fee} ELSE {})
                 = (IF Resolved(pre) THEN {MinerFee(t, pre) + fee} ELSE {})
      BY <2>2
    <3>2. /\ [i \in OutsOf(u) |-> Tx0Role(u, p, v, i)] = [i \in OutsOf(t) |-> Tx0Role(t, p, v, i)]
          /\ [i \in OutsOf(u) |-> IF Tx0Role(u, p, v, i) = "unclassified" THEN "low"
                                  ELSE IF Explained(u, p, v) THEN "high" ELSE "medium"]
             = [i \in OutsOf(t) |-> IF Tx0Role(t, p, v, i) = "unclassified" THEN "low"
                                    ELSE IF Explained(t, p, v) THEN "high" ELSE "medium"]
      BY <1>1, <1>5
    <3>3. SumOf([i \in PoolFees(u, p) |-> u.outs[i].value])
          = SumOf([i \in PoolFees(t, p) |-> t.outs[i].value])
      <4>1. [i \in PoolFees(u, p) |-> u.outs[i].value]
            = [i \in PoolFees(t, p) |-> t.outs[i].value]
        BY <1>1, <1>3
      <4> QED
        BY <4>1, Zenon
    <3>4. /\ Explained(u, p, v) = Explained(t, p, v) /\ Markers(u) = Markers(t)
          /\ PoolFees(u, p) = PoolFees(t, p) /\ Change(u, p, v) = Change(t, p, v)
          /\ PremixGroup(u, v) = PremixGroup(t, v)
      BY <1>3, <1>4, <1>5
    <3> QED
      BY <3>1, <3>2, <3>3, <3>4, ZenonT(60) DEF Tx0Candidate
  <2>4. ASSUME NEW p PROVE RoundCandidate(u, pre, p) = RoundCandidate(t, pre, p)
    <3>1. /\ (IF Resolved(pre) THEN Cardinality(PremixIns(u, pre, p)) ELSE 0)
             = (IF Resolved(pre) THEN Cardinality(PremixIns(t, pre, p)) ELSE 0)
          /\ (IF Resolved(pre) THEN Cardinality(RemixIns(u, pre, p)) ELSE 0)
             = (IF Resolved(pre) THEN Cardinality(RemixIns(t, pre, p)) ELSE 0)
      BY <2>2
    <3> QED
      BY <1>1, <3>1, Zenon DEF RoundCandidate
  <2>5. \A p : (Resolved(pre) => RoundInputs(u, pre, p))
               <=> (Resolved(pre) => RoundInputs(t, pre, p))
    BY <2>2
  <2> QED
    BY <2>3, <2>4, <2>5
<1>12. Tx0Candidates(u, pre) = Tx0Candidates(t, pre)
  <2>1. \A p, v : Tx0Pair(u, pre, p, v) <=> Tx0Pair(t, pre, p, v)
    BY <1>3, <1>10 DEF Tx0Pair
  <2>2. \A p, v : Tx0Pair(t, pre, p, v) =>
                    Tx0Candidate(u, pre, p, v) = Tx0Candidate(t, pre, p, v)
    BY <1>11 DEF Tx0Pair
  <2>3. /\ \A c : c \in Tx0Candidates(u, pre) <=>
              \E p, v : Tx0Pair(u, pre, p, v) /\ c = Tx0Candidate(u, pre, p, v)
        /\ \A c : c \in Tx0Candidates(t, pre) <=>
              \E p, v : Tx0Pair(t, pre, p, v) /\ c = Tx0Candidate(t, pre, p, v)
    BY Tx0CandidatesAre
  <2>4. \A c : c \in Tx0Candidates(u, pre) <=> c \in Tx0Candidates(t, pre)
    BY <2>1, <2>2, <2>3
  <2> QED
    BY <2>4
<1>13. RoundCandidates(u, pre) = RoundCandidates(t, pre)
  <2>1. \A c : c \in RoundCandidates(u, pre) <=>
           \E p \in PoolDefs : /\ RoundShape(u, p) /\ ~InvalidAccounting(u, pre)
                              /\ (Resolved(pre) => RoundInputs(u, pre, p))
                              /\ c = RoundCandidate(u, pre, p)
    BY RoundCandidatesAre
  <2>2. \A c : c \in RoundCandidates(t, pre) <=>
           \E p \in PoolDefs : /\ RoundShape(t, p) /\ ~InvalidAccounting(t, pre)
                              /\ (Resolved(pre) => RoundInputs(t, pre, p))
                              /\ c = RoundCandidate(t, pre, p)
    BY RoundCandidatesAre
  <2>3. \A c : c \in RoundCandidates(u, pre) <=> c \in RoundCandidates(t, pre)
    BY <1>6, <1>10, <1>11, <2>1, <2>2
  <2> QED
    BY <2>3
<1> QED
  <2> DEFINE tx0s(x) == Best(Tx0Candidates(x, pre))
             rounds(x) == Best(RoundCandidates(x, pre))
             One(S, D, d) == IF Cardinality(S) = 1 THEN CHOOSE c \in S : TRUE
                             ELSE IF S = {} /\ Cardinality(D) = 1 THEN CHOOSE c \in D : TRUE
                             ELSE d
  <2>1. /\ Detect(u, pre) = One(tx0s(u), rounds(u), Unknown(u))
        /\ Detect(t, pre) = One(tx0s(t), rounds(t), Unknown(t))
    BY DEF Detect
  <2>2. tx0s(u) = tx0s(t) /\ rounds(u) = rounds(t)
    BY <1>12, <1>13
  <2> HIDE DEF tx0s, rounds, One
  <2> QED
    BY <1>7, <2>1, <2>2

(* The order of the outputs and of the inputs decides nothing: each output  *)
(* takes its role along (detect_whirlpool).                                 *)
THEOREM RolesAlwaysFollow == Spec => RolesFollow
<1>1. ASSUME DetectorTypes, DetectorTypes', NEW i \in 1 .. Len(tx.outs) - 1, SwapOutputs(i)
      PROVE  Verdict' = [Verdict EXCEPT !.roles = Swapped(@, i), !.confs = Swapped(@, i)]
  <2> DEFINE n == Len(tx.outs)
             b == Exchange(n, i)
             v == Detect(tx, prev)
             roles == v.roles
             confs == v.confs
  <2>1. Transaction(tx) /\ Transaction(tx')
    BY <1>1 DEF DetectorTypes, Transaction
  <2>2. OutputsMoved(tx, tx', b) /\ OutputsMoved(tx', tx, b) /\ prev' = prev
    BY <1>1, SwapMovesOutputs
  <2>3. Detect(tx', prev) = Moved(v, b)
    <3> HIDE DEF b, v
    <3> QED
      BY <2>1, <2>2, VerdictMoved DEF v
  <2>4. v \in Tx0Candidates(tx, prev) \cup RoundCandidates(tx, prev) \cup {Unknown(tx)}
    BY DetectIs
  <2>5. /\ DOMAIN roles = 1 .. n /\ roles = [j \in 1 .. n |-> roles[j]]
        /\ DOMAIN confs = 1 .. n /\ confs = [j \in 1 .. n |-> confs[j]]
    <3>1. OutsOf(tx) = 1 .. n
      BY DEF OutsOf
    <3> HIDE DEF v, n, b
    <3>2. \A c \in Tx0Candidates(tx, prev) \cup RoundCandidates(tx, prev) \cup {Unknown(tx)} :
             DOMAIN c.roles = OutsOf(tx) /\ DOMAIN c.confs = OutsOf(tx)
             /\ c.roles = [j \in OutsOf(tx) |-> c.roles[j]]
             /\ c.confs = [j \in OutsOf(tx) |-> c.confs[j]]
      BY CandidateForm, ZenonT(60)
    <3>3. /\ DOMAIN roles = OutsOf(tx) /\ roles = [j \in OutsOf(tx) |-> roles[j]]
          /\ DOMAIN confs = OutsOf(tx) /\ confs = [j \in OutsOf(tx) |-> confs[j]]
      BY <2>4, <3>2, Zenon
    <3> QED
      BY <3>1, <3>3
  <2>6. n \in Nat
    BY <2>1, OutTypes
  <2>7. /\ Swapped(roles, i) = [j \in DOMAIN b |-> roles[b[j]]]
        /\ Swapped(confs, i) = [j \in DOMAIN b |-> confs[b[j]]]
    <3> HIDE DEF v, n, roles, confs
    <3>1. i \in 1 .. n - 1
      BY <1>1 DEF n
    <3> QED
      BY <2>5, <2>6, <3>1, SwappedFunction, ZenonT(60)
  <2>8. Moved(v, b) = [v EXCEPT !.roles = Swapped(@, i), !.confs = Swapped(@, i)]
    <3> HIDE DEF b, v
    <3> QED
      BY <2>7, Zenon DEF Moved
  <2> QED
    BY <2>2, <2>3, <2>8 DEF Verdict
<1>2. ASSUME DetectorTypes, NEW i \in 1 .. Len(tx.ins) - 1, SwapInputs(i)
      PROVE  Verdict' = Verdict
  <2>1. Transaction(tx) /\ Previous(prev)
    BY <1>2 DEF DetectorTypes, Transaction
  <2>2. InputsMoved(tx, tx', Exchange(Len(tx.ins), i)) /\ prev' = prev
    BY <1>2, SwapMovesInputs
  <2>3. Detect(tx', prev) = Detect(tx, prev)
    BY <2>1, <2>2, VerdictStays
  <2> QED
    BY <2>2, <2>3 DEF Verdict
<1>3. DetectorTypes /\ DetectorTypes' =>
        [Mixing =>
           /\ \A i \in 1 .. Len(tx.outs) - 1 : SwapOutputs(i) =>
                 Verdict' = [Verdict EXCEPT !.roles = Swapped(@, i), !.confs = Swapped(@, i)]
           /\ \A i \in 1 .. Len(tx.ins) - 1 : SwapInputs(i) => Verdict' = Verdict]_vars
  BY <1>1, <1>2
<1> QED
  BY <1>3, TypesAlways, PTL DEF RolesFollow
=============================================================================
