---------------------------- MODULE SummaryProofs -----------------------------
(***************************************************************************)
(* Theorems about Summary, for every capacity, word and set of writers:    *)
(* which buckets query reads, that it stays inside the vector, that the    *)
(* vector lasts for Capacity seconds, that the totals are exact until two  *)
(* additions overlap, and what a query answers that runs meanwhile.        *)
(***************************************************************************)
EXTENDS Summary, FiniteSetTheorems, WellFoundedInduction, TLAPS

------------------------------------------------------------------------------
(* Sums over finite sets.  Induction is by a least counterexample.          *)

\* The sum that Between is.
Sum(g, T) == MapThenSumSet(LAMBDA s : g[s], T)

\* The element that MapThenFoldSet takes first.
Pick(s) == CHOOSE x \in s : TRUE

\* f adds up g on the subsets of T.
Adds(g, T, f) ==
  f = [s \in SUBSET T |-> IF s = {} THEN 0 ELSE g[Pick(s)] + f[s \ {Pick(s)}]]

\* The function.
SumOn(g, T) == CHOOSE f : Adds(g, T, f)

\* Sum is the value for T of the function that MapThenFoldSet chooses.
LEMMA SumIs ==
  ASSUME NEW g, NEW T
  PROVE  Sum(g, T) = SumOn(g, T)[T]
BY Zenon DEF Sum, MapThenSumSet, MapThenFoldSet, SumOn, Adds, Pick

\* A set of natural numbers has a least member.
LEMMA LeastNatural ==
  ASSUME NEW H \in SUBSET Nat, H # {}
  PROVE  \E i \in H : \A j \in H : i <= j
<1> DEFINE R == {ss \in Nat \X Nat : ss[1] < ss[2]}
<1>1. IsWellFoundedOn(R, Nat)
  BY NatLessThanWellFounded, Zenon DEF OpToRel
<1>2. PICK i \in H : \A j \in H : <<j, i>> \notin R
  <2> HIDE DEF R
  <2> QED
    BY <1>1, WFMin, Zenon
<1>3. ASSUME NEW j \in H
      PROVE  i <= j
  <2>1. i \in Nat /\ j \in Nat /\ <<j, i>> \notin R
    BY <1>2
  <2> QED
    BY <2>1, SMT, SMTT(20)
<1> QED
  BY <1>3

\* A set of subsets of a finite set has one that includes no other.
LEMMA LeastSet ==
  ASSUME NEW T, IsFiniteSet(T), NEW H \in SUBSET SUBSET T, H # {}
  PROVE  \E U \in H : \A V \in H : V \subseteq U => V = U
<1> DEFINE R == StrictSubsetOrdering(T)
<1>1. IsWellFoundedOn(R, SUBSET T)
  BY FS_StrictSubsetOrderingWellFounded, FS_FiniteSubsetsOfFinite, Zenon
<1>2. PICK U \in H : \A V \in H : <<V, U>> \notin R
  <2> HIDE DEF R
  <2> QED
    BY <1>1, WFMin, Zenon
<1>3. ASSUME NEW V \in H, V \subseteq U
      PROVE  V = U
  BY <1>2, <1>3, Zenon DEF StrictSubsetOrdering
<1> QED
  BY <1>3

\* The subsets of T with at most n elements, and f that adds up g on them.
Small(T, n) == {s \in SUBSET T : Cardinality(s) <= n}
AddsSmall(g, T, n, f) ==
  /\ f \in [Small(T, n) -> Nat]
  /\ \A s \in Small(T, n) : f[s] = IF s = {} THEN 0 ELSE g[Pick(s)] + f[s \ {Pick(s)}]

\* Without the element that is picked, a set is smaller.
LEMMA PickParts ==
  ASSUME NEW T, IsFiniteSet(T), NEW s \in SUBSET T
  PROVE  /\ IsFiniteSet(s) /\ Cardinality(s) \in Nat
         /\ s = {} <=> Cardinality(s) = 0
         /\ s # {} => /\ Pick(s) \in s /\ Pick(s) \in T
                      /\ s \ {Pick(s)} \in SUBSET T /\ s \ {Pick(s)} # s
                      /\ Cardinality(s \ {Pick(s)}) = Cardinality(s) - 1
<1>1. IsFiniteSet(s)
  BY FS_Subset
<1>2. Cardinality(s) \in Nat /\ (s = {} <=> Cardinality(s) = 0)
  BY <1>1, FS_CardinalityType, FS_EmptySet
<1>3. ASSUME s # {}
      PROVE  Pick(s) \in s
  <2>1. PICK x : x \in s
    BY <1>3
  <2>2. \E y : y \in s
    BY <2>1
  <2> QED
    BY <2>1, Zenon DEF Pick
<1>4. ASSUME s # {}
      PROVE  Cardinality(s \ {Pick(s)}) = Cardinality(s) - 1
  BY <1>1, <1>3, <1>4, FS_RemoveElement
<1> QED
  BY <1>1, <1>2, <1>3, <1>4

\* From the subsets with at most n elements to those with one more.
LEMMA AddsMore ==
  ASSUME NEW T, IsFiniteSet(T), NEW g, \A x \in T : g[x] \in Nat, NEW n \in Nat,
         NEW h, AddsSmall(g, T, n, h)
  PROVE  \E f : AddsSmall(g, T, n + 1, f)
<1> DEFINE f == [s \in Small(T, n + 1) |-> IF s = {} THEN 0 ELSE g[Pick(s)] + h[s \ {Pick(s)}]]
<1>1. ASSUME NEW s \in Small(T, n + 1)
      PROVE  /\ f[s] = IF s = {} THEN 0 ELSE g[Pick(s)] + h[s \ {Pick(s)}]
             /\ s # {} => s \ {Pick(s)} \in Small(T, n) /\ s \ {Pick(s)} \in Small(T, n + 1)
             /\ f[s] \in Nat
  <2>1. f[s] = IF s = {} THEN 0 ELSE g[Pick(s)] + h[s \ {Pick(s)}]
    OBVIOUS
  <2>2. s \in SUBSET T /\ Cardinality(s) <= n + 1
    BY DEF Small
  <2>3. s # {} => /\ Pick(s) \in T /\ s \ {Pick(s)} \in SUBSET T
                  /\ Cardinality(s) \in Nat
                  /\ Cardinality(s \ {Pick(s)}) = Cardinality(s) - 1
    BY <2>2, PickParts, Zenon
  <2> HIDE DEF f
  <2>4. s # {} => /\ Cardinality(s \ {Pick(s)}) <= n
                  /\ Cardinality(s \ {Pick(s)}) <= n + 1
    BY <2>2, <2>3, SMT, SMTT(20)
  <2>5. s # {} => s \ {Pick(s)} \in Small(T, n) /\ s \ {Pick(s)} \in Small(T, n + 1)
    BY <2>3, <2>4 DEF Small
  <2>6. s # {} => g[Pick(s)] \in Nat /\ h[s \ {Pick(s)}] \in Nat
    BY <2>3, <2>5 DEF AddsSmall
  <2> QED
    BY <2>1, <2>5, <2>6, SMT, SMTT(20)
<1>2. f \in [Small(T, n + 1) -> Nat]
  BY <1>1
<1> HIDE DEF f
<1>3. \A s \in Small(T, n) : s \in Small(T, n + 1)
  <2>1. ASSUME NEW s \in Small(T, n)
        PROVE  s \in Small(T, n + 1)
    <3>1. s \in SUBSET T /\ Cardinality(s) <= n
      BY DEF Small
    <3>2. Cardinality(s) \in Nat
      BY <3>1, PickParts, Zenon
    <3>3. Cardinality(s) <= n + 1
      BY <3>1, <3>2, SMT, SMTT(20)
    <3> QED
      BY <3>1, <3>3 DEF Small
  <2> QED
    BY <2>1
<1>4. \A s \in Small(T, n) : f[s] = h[s]
  BY <1>1, <1>3, Zenon DEF AddsSmall
<1>5. \A s \in Small(T, n + 1) : f[s] = IF s = {} THEN 0 ELSE g[Pick(s)] + f[s \ {Pick(s)}]
  BY <1>1, <1>4, Zenon
<1> QED
  BY <1>2, <1>5, Zenon DEF AddsSmall

\* There is a function that adds up g.
LEMMA AddsExists ==
  ASSUME NEW T, IsFiniteSet(T), NEW g, \A x \in T : g[x] \in Nat
  PROVE  Adds(g, T, SumOn(g, T)) /\ SumOn(g, T) \in [SUBSET T -> Nat]
<1> DEFINE H == {n \in Nat : ~ \E f : AddsSmall(g, T, n, f)}
<1>1. \E f : AddsSmall(g, T, 0, f)
  <2> DEFINE f == [s \in Small(T, 0) |-> 0]
  <2>1. ASSUME NEW s \in Small(T, 0)
        PROVE  s = {}
    <3>1. s \in SUBSET T /\ Cardinality(s) <= 0
      BY DEF Small
    <3>2. Cardinality(s) \in Nat /\ (s = {} <=> Cardinality(s) = 0)
      BY <3>1, PickParts, Zenon
    <3> QED
      BY <3>1, <3>2, SMT, SMTT(20)
  <2>2. f \in [Small(T, 0) -> Nat] /\ \A s \in Small(T, 0) : f[s] = 0
    OBVIOUS
  <2> HIDE DEF f
  <2>3. AddsSmall(g, T, 0, f)
    BY <2>1, <2>2 DEF AddsSmall
  <2> QED
    BY <2>3
<1>2. H = {}
  <2> SUFFICES ASSUME H # {}
               PROVE  FALSE
    OBVIOUS
  <2>1. PICK n \in H : \A m \in H : n <= m
    <3> HIDE DEF H
    <3>1. H \in SUBSET Nat
      BY DEF H
    <3> QED
      BY <3>1, LeastNatural
  <2>2. n \in Nat /\ n # 0
    BY <1>1, <2>1
  <2>3. n - 1 \in Nat /\ n - 1 \notin H /\ (n - 1) + 1 = n
    BY <2>1, <2>2, SMT, SMTT(20)
  <2>4. PICK h : AddsSmall(g, T, n - 1, h)
    BY <2>3
  <2>5. \E f : AddsSmall(g, T, (n - 1) + 1, f)
    BY <2>3, <2>4, AddsMore
  <2> QED
    BY <2>1, <2>3, <2>5
<1>3. Cardinality(T) \in Nat
  BY FS_CardinalityType
<1>4. PICK f : AddsSmall(g, T, Cardinality(T), f)
  BY <1>2, <1>3
<1>5. Small(T, Cardinality(T)) = SUBSET T
  <2>1. \A s \in SUBSET T : Cardinality(s) <= Cardinality(T)
    BY FS_Subset
  <2> QED
    BY <2>1 DEF Small
<1>6. /\ f \in [SUBSET T -> Nat]
      /\ \A s \in SUBSET T : f[s] = IF s = {} THEN 0 ELSE g[Pick(s)] + f[s \ {Pick(s)}]
  BY <1>4, <1>5 DEF AddsSmall
<1>7. Adds(g, T, f)
  BY <1>6 DEF Adds
<1>8. Adds(g, T, SumOn(g, T))
  BY <1>7, Zenon DEF SumOn
<1> HIDE DEF H
<1> DEFINE F == SumOn(g, T)
<1>9. /\ DOMAIN F = SUBSET T /\ F = [s \in SUBSET T |-> F[s]]
      /\ \A s \in SUBSET T : F[s] = IF s = {} THEN 0 ELSE g[Pick(s)] + F[s \ {Pick(s)}]
  BY <1>8, Zenon DEF Adds
<1> HIDE DEF F
<1>10. \A s \in SUBSET T : F[s] = f[s]
  <2> DEFINE G == {s \in SUBSET T : F[s] # f[s]}
  <2> SUFFICES ASSUME G # {}
               PROVE  FALSE
    OBVIOUS
  <2>1. PICK s \in G : \A v \in G : v \subseteq s => v = s
    <3>1. G \in SUBSET SUBSET T
      OBVIOUS
    <3> HIDE DEF G
    <3> QED
      BY <3>1, LeastSet, SMT, SMTT(20)
  <2>2. s \in SUBSET T /\ F[s] # f[s]
    BY <2>1
  <2>3. s # {}
    BY <1>6, <1>9, <2>2, Zenon
  <2>4. s \ {Pick(s)} \in SUBSET T /\ s \ {Pick(s)} # s
    BY <2>2, <2>3, PickParts, Zenon
  <2>5. F[s \ {Pick(s)}] = f[s \ {Pick(s)}]
    BY <2>1, <2>4
  <2> QED
    BY <1>6, <1>9, <2>2, <2>3, <2>5, Zenon
<1>11. F \in [SUBSET T -> Nat]
  BY <1>6, <1>9, <1>10, Zenon
<1> QED
  BY <1>8, <1>11 DEF F

\* g has natural numbers on the finite set T.
Terms(g, T) == IsFiniteSet(T) /\ \A x \in T : g[x] \in Nat

\* On a part of the set too.
LEMMA TermsOf ==
  ASSUME NEW T, NEW g, Terms(g, T), NEW U \in SUBSET T
  PROVE  Terms(g, U)
BY FS_Subset DEF Terms

\* What is added up on the subsets of U does not depend on what U is part of.
LEMMA SumOnSame ==
  ASSUME NEW T, NEW g, Terms(g, T), NEW U \in SUBSET T
  PROVE  SumOn(g, T)[U] = SumOn(g, U)[U]
<1> DEFINE F == SumOn(g, T)
           h == SumOn(g, U)
           G == {s \in SUBSET U : F[s] # h[s]}
<1>1. /\ Adds(g, T, F) /\ IsFiniteSet(T) /\ IsFiniteSet(U)
      /\ Adds(g, U, h)
  BY TermsOf, AddsExists, Zenon DEF Terms
<1> HIDE DEF F, h
<1>2. /\ \A s \in SUBSET T : F[s] = IF s = {} THEN 0 ELSE g[Pick(s)] + F[s \ {Pick(s)}]
      /\ \A s \in SUBSET U : h[s] = IF s = {} THEN 0 ELSE g[Pick(s)] + h[s \ {Pick(s)}]
      /\ SUBSET U \subseteq SUBSET T
  BY <1>1, Zenon DEF Adds
<1>3. G = {}
  <2> SUFFICES ASSUME G # {}
               PROVE  FALSE
    OBVIOUS
  <2>1. PICK s \in G : \A v \in G : v \subseteq s => v = s
    <3>1. G \in SUBSET SUBSET U
      OBVIOUS
    <3> HIDE DEF G
    <3> QED
      BY <1>1, <3>1, LeastSet, SMT, SMTT(20)
  <2>2. s \in SUBSET U /\ s \in SUBSET T /\ F[s] # h[s]
    BY <2>1
  <2>3. s # {}
    BY <1>2, <2>2, Zenon
  <2>4. s \ {Pick(s)} \in SUBSET U /\ s \ {Pick(s)} # s
    BY <1>1, <2>2, <2>3, PickParts, Zenon
  <2>5. F[s \ {Pick(s)}] = h[s \ {Pick(s)}]
    BY <2>1, <2>4
  <2> QED
    BY <1>2, <2>2, <2>3, <2>5
<1>4. U \in SUBSET U
  OBVIOUS
<1> QED
  BY <1>3, <1>4 DEF F, h

\* Sum is a natural number, and is computed by taking the picked element away ...
LEMMA SumPick ==
  ASSUME NEW T, NEW g, Terms(g, T)
  PROVE  /\ Sum(g, T) \in Nat
         /\ T = {} => Sum(g, T) = 0
         /\ T # {} => Sum(g, T) = g[Pick(T)] + Sum(g, T \ {Pick(T)})
<1> DEFINE F == SumOn(g, T)
<1>1. Adds(g, T, F) /\ F \in [SUBSET T -> Nat] /\ T \in SUBSET T
  BY AddsExists, Zenon DEF Terms
<1>2. Sum(g, T) = F[T]
  BY SumIs
<1>3. ASSUME T # {}
      PROVE  F[T \ {Pick(T)}] = Sum(g, T \ {Pick(T)})
  BY SumOnSame, SumIs
<1> HIDE DEF F
<1>4. F[T] = IF T = {} THEN 0 ELSE g[Pick(T)] + F[T \ {Pick(T)}]
  BY <1>1, Zenon DEF Adds
<1> QED
  BY <1>1, <1>2, <1>3, <1>4

\* ... any element.
LEMMA SumRemove ==
  ASSUME NEW T, NEW g, Terms(g, T), NEW y \in T
  PROVE  Sum(g, T) = g[y] + Sum(g, T \ {y})
<1> DEFINE G == {U \in SUBSET T : \E z \in U : Sum(g, U) # g[z] + Sum(g, U \ {z})}
<1>1. IsFiniteSet(T) /\ \A U \in SUBSET T : Terms(g, U)
  BY TermsOf DEF Terms
<1>2. G = {}
  <2> SUFFICES ASSUME G # {}
               PROVE  FALSE
    OBVIOUS
  <2>1. PICK U \in G : \A v \in G : v \subseteq U => v = U
    <3>1. G \in SUBSET SUBSET T
      OBVIOUS
    <3> HIDE DEF G
    <3> QED
      BY <1>1, <3>1, LeastSet, SMT, SMTT(20)
  <2>2. U \in SUBSET T
    BY <2>1
  <2>3. PICK z \in U : Sum(g, U) # g[z] + Sum(g, U \ {z})
    BY <2>1
  <2>4. PICK x : x = Pick(U)
    OBVIOUS
  <2>5. x \in U /\ Sum(g, U) = g[x] + Sum(g, U \ {x})
    BY <1>1, <2>2, <2>3, <2>4, SumPick, PickParts, Zenon
  <2>6. x # z
    BY <2>3, <2>5
  <2>7. /\ U \ {x} \in SUBSET T /\ U \ {x} # U /\ z \in U \ {x}
        /\ U \ {z} \in SUBSET T /\ U \ {z} # U /\ x \in U \ {z}
        /\ (U \ {x}) \ {z} = (U \ {z}) \ {x} /\ (U \ {x}) \ {z} \in SUBSET T
    BY <2>2, <2>3, <2>5, <2>6
  <2>8. U \ {x} \notin G /\ U \ {z} \notin G
    BY <2>1, <2>7, Zenon
  <2>9. /\ Sum(g, U \ {x}) = g[z] + Sum(g, (U \ {x}) \ {z})
        /\ Sum(g, U \ {z}) = g[x] + Sum(g, (U \ {z}) \ {x})
    BY <2>7, <2>8, Zenon
  <2>10. Sum(g, (U \ {x}) \ {z}) \in Nat /\ g[x] \in Nat /\ g[z] \in Nat
    BY <1>1, <2>2, <2>3, <2>5, <2>7, SumPick, Zenon DEF Terms
  <2>11. Sum(g, (U \ {z}) \ {x}) = Sum(g, (U \ {x}) \ {z})
    BY <2>7
  <2> QED
    BY <2>3, <2>5, <2>9, <2>10, <2>11, SMT, SMTT(20)
<1>3. T \in SUBSET T
  OBVIOUS
<1> QED
  BY <1>2, <1>3, Zenon

\* Larger numbers have a larger sum.
LEMMA SumMonotone ==
  ASSUME NEW T, NEW g, NEW h, Terms(g, T), Terms(h, T), \A x \in T : g[x] <= h[x]
  PROVE  Sum(g, T) <= Sum(h, T)
<1> DEFINE G == {U \in SUBSET T : ~(Sum(g, U) <= Sum(h, U))}
<1>1. IsFiniteSet(T) /\ \A U \in SUBSET T : Terms(g, U) /\ Terms(h, U)
  BY TermsOf DEF Terms
<1>2. G = {}
  <2> SUFFICES ASSUME G # {}
               PROVE  FALSE
    OBVIOUS
  <2>1. PICK U \in G : \A v \in G : v \subseteq U => v = U
    <3>1. G \in SUBSET SUBSET T
      OBVIOUS
    <3> HIDE DEF G
    <3> QED
      BY <1>1, <3>1, LeastSet, SMT, SMTT(20)
  <2>2. U \in SUBSET T /\ ~(Sum(g, U) <= Sum(h, U))
    BY <2>1
  <2>3. U # {}
    BY <1>1, <2>2, SumPick, SMT, SMTT(20)
  <2>4. PICK x : x \in U
    BY <2>3
  <2>5. U \ {x} \in SUBSET T /\ U \ {x} # U
    BY <2>2, <2>4
  <2>6. Sum(g, U \ {x}) <= Sum(h, U \ {x})
    BY <2>1, <2>5
  <2>7. Terms(g, U) /\ Terms(h, U) /\ Terms(g, U \ {x}) /\ Terms(h, U \ {x})
    BY <1>1, <2>2, <2>5
  <2>8. Sum(g, U) = g[x] + Sum(g, U \ {x}) /\ Sum(h, U) = h[x] + Sum(h, U \ {x})
    BY <2>4, <2>7, SumRemove
  <2>9. Sum(g, U \ {x}) \in Nat /\ Sum(h, U \ {x}) \in Nat
    BY <2>7, SumPick, Zenon
  <2>10. g[x] \in Nat /\ h[x] \in Nat /\ g[x] <= h[x]
    BY <2>2, <2>4 DEF Terms
  <2> QED
    BY <2>2, <2>6, <2>8, <2>9, <2>10, SMT, SMTT(20)
<1>3. T \in SUBSET T
  OBVIOUS
<1> QED
  BY <1>2, <1>3

\* So do more numbers.
LEMMA SumPart ==
  ASSUME NEW T, NEW g, Terms(g, T), NEW V \in SUBSET T
  PROVE  Sum(g, V) <= Sum(g, T)
<1> DEFINE G == {U \in SUBSET T : V \subseteq U /\ ~(Sum(g, V) <= Sum(g, U))}
<1>1. IsFiniteSet(T) /\ \A U \in SUBSET T : Terms(g, U)
  BY TermsOf DEF Terms
<1>2. G = {}
  <2> SUFFICES ASSUME G # {}
               PROVE  FALSE
    OBVIOUS
  <2>1. PICK U \in G : \A v \in G : v \subseteq U => v = U
    <3>1. G \in SUBSET SUBSET T
      OBVIOUS
    <3> HIDE DEF G
    <3> QED
      BY <1>1, <3>1, LeastSet, SMT, SMTT(20)
  <2>2. U \in SUBSET T /\ V \subseteq U /\ ~(Sum(g, V) <= Sum(g, U))
    BY <2>1
  <2>3. Sum(g, V) \in Nat
    BY <1>1, SumPick, Zenon
  <2>4. U # V
    BY <2>2, <2>3, SMT, SMTT(20)
  <2>5. PICK x : x \in U /\ x \notin V
    BY <2>2, <2>4
  <2>6. U \ {x} \in SUBSET T /\ U \ {x} # U /\ V \subseteq U \ {x}
    BY <2>2, <2>5
  <2>7. Sum(g, V) <= Sum(g, U \ {x})
    BY <2>1, <2>6
  <2>8. Terms(g, U) /\ Terms(g, U \ {x})
    BY <1>1, <2>2, <2>6
  <2>9. Sum(g, U) = g[x] + Sum(g, U \ {x})
    BY <2>5, <2>8, SumRemove
  <2>10. Sum(g, U \ {x}) \in Nat
    BY <2>8, SumPick, Zenon
  <2>11. g[x] \in Nat
    BY <2>2, <2>5 DEF Terms
  <2> QED
    BY <2>2, <2>3, <2>7, <2>9, <2>10, <2>11, SMT, SMTT(20)
<1>3. T \in SUBSET T
  OBVIOUS
<1> QED
  BY <1>2, <1>3

\* Zeros add up to zero.
LEMMA SumZeros ==
  ASSUME NEW T, NEW g, IsFiniteSet(T), \A x \in T : g[x] = 0
  PROVE  Sum(g, T) = 0
<1> DEFINE G == {U \in SUBSET T : Sum(g, U) # 0}
<1>1. Terms(g, T)
  BY SMT, SMTT(20) DEF Terms
<1>2. \A U \in SUBSET T : Terms(g, U)
  BY <1>1, TermsOf
<1>3. G = {}
  <2> SUFFICES ASSUME G # {}
               PROVE  FALSE
    OBVIOUS
  <2>1. PICK U \in G : \A v \in G : v \subseteq U => v = U
    <3>1. G \in SUBSET SUBSET T
      OBVIOUS
    <3> HIDE DEF G
    <3> QED
      BY <3>1, LeastSet, SMT, SMTT(20)
  <2>2. U \in SUBSET T /\ Sum(g, U) # 0
    BY <2>1
  <2>3. U # {}
    BY <1>2, <2>2, SumPick, Zenon
  <2>4. PICK x : x \in U
    BY <2>3
  <2>5. U \ {x} \in SUBSET T /\ U \ {x} # U
    BY <2>2, <2>4
  <2>6. Sum(g, U \ {x}) = 0
    BY <2>1, <2>5
  <2>7. Sum(g, U) = g[x] + Sum(g, U \ {x})
    BY <1>2, <2>2, <2>4, SumRemove
  <2>8. g[x] = 0
    BY <2>2, <2>4
  <2> QED
    BY <2>2, <2>6, <2>7, <2>8, SMT, SMTT(20)
<1>4. T \in SUBSET T
  OBVIOUS
<1> QED
  BY <1>3, <1>4

\* What a query has found so far of the totals g.
Bounds(lo, sum, g, W, L) == lo <= sum + Sum(g, L) /\ sum <= Sum(g, W \ L)

\* A query before it reads anything; at its end; after more was stored.
LEMMA BoundsFacts ==
  ASSUME NEW W, NEW g, Terms(g, W)
  PROVE  /\ Bounds(Sum(g, W), 0, g, W, W)
         /\ \A lo, sum \in Nat, L \in SUBSET W :
              Bounds(lo, sum, g, W, L) /\ (\A x \in L : g[x] = 0)
                => lo <= sum /\ sum <= Sum(g, W)
         /\ \A h, lo, sum, L :
              /\ lo \in Nat /\ sum \in Nat /\ L \in SUBSET W
              /\ Bounds(lo, sum, g, W, L) /\ Terms(h, W) /\ (\A x \in W : g[x] <= h[x])
              => Bounds(lo, sum, h, W, L)
<1>1. Bounds(Sum(g, W), 0, g, W, W)
  <2>1. W \ W = {} /\ {} \in SUBSET W
    OBVIOUS
  <2>2. Terms(g, {})
    BY <2>1, TermsOf
  <2>3. Sum(g, W) \in Nat /\ Sum(g, {}) = 0
    BY <2>2, SumPick, Zenon
  <2>4. Sum(g, W \ W) = 0
    BY <2>1, <2>3
  <2> QED
    BY <2>3, <2>4, SMT, SMTT(20) DEF Bounds
<1>2. ASSUME NEW lo \in Nat, NEW sum \in Nat, NEW L \in SUBSET W, Bounds(lo, sum, g, W, L),
             \A x \in L : g[x] = 0
      PROVE  lo <= sum /\ sum <= Sum(g, W)
  <2>1. Terms(g, L) /\ Terms(g, W \ L) /\ IsFiniteSet(L)
    BY TermsOf DEF Terms
  <2>2. Sum(g, L) = 0
    BY <1>2, <2>1, SumZeros
  <2>3. Sum(g, W \ L) <= Sum(g, W)
    BY SumPart
  <2>4. Sum(g, W \ L) \in Nat /\ Sum(g, W) \in Nat
    BY <2>1, SumPick, Zenon
  <2> QED
    BY <1>2, <2>2, <2>3, <2>4, SMT, SMTT(20) DEF Bounds
<1>3. ASSUME NEW h, NEW lo \in Nat, NEW sum \in Nat, NEW L \in SUBSET W, Bounds(lo, sum, g, W, L),
             Terms(h, W), \A x \in W : g[x] <= h[x]
      PROVE  Bounds(lo, sum, h, W, L)
  <2>1. Terms(g, L) /\ Terms(g, W \ L) /\ Terms(h, L) /\ Terms(h, W \ L)
    BY <1>3, TermsOf
  <2>2. Sum(g, L) <= Sum(h, L)
    BY <1>3, <2>1, SumMonotone
  <2>3. Sum(g, W \ L) <= Sum(h, W \ L)
    BY <1>3, <2>1, SumMonotone
  <2>4. /\ Sum(g, L) \in Nat /\ Sum(g, W \ L) \in Nat
        /\ Sum(h, L) \in Nat /\ Sum(h, W \ L) \in Nat
    BY <2>1, SumPick, Zenon
  <2> QED
    BY <1>3, <2>2, <2>3, <2>4, SMT, SMTT(20) DEF Bounds
<1> QED
  BY <1>1, <1>2, <1>3

\* One more total is read.
LEMMA BoundsRead ==
  ASSUME NEW W, NEW g, Terms(g, W), NEW lo \in Nat, NEW sum \in Nat, NEW L \in SUBSET W,
         Bounds(lo, sum, g, W, L), NEW x \in L
  PROVE  Bounds(lo, sum + g[x], g, W, L \ {x})
<1>1. /\ L \ {x} \in SUBSET W /\ W \ (L \ {x}) \in SUBSET W /\ x \in W \ (L \ {x})
      /\ (W \ (L \ {x})) \ {x} = W \ L /\ W \ L \in SUBSET W
  OBVIOUS
<1>2. Terms(g, L) /\ Terms(g, W \ (L \ {x})) /\ Terms(g, L \ {x}) /\ Terms(g, W \ L)
  BY <1>1, TermsOf
<1>3. Sum(g, L) = g[x] + Sum(g, L \ {x})
  BY <1>2, SumRemove
<1>4. Sum(g, W \ (L \ {x})) = g[x] + Sum(g, W \ L)
  <2>1. Sum(g, W \ (L \ {x})) = g[x] + Sum(g, (W \ (L \ {x})) \ {x})
    BY <1>1, <1>2, SumRemove
  <2>2. Sum(g, (W \ (L \ {x})) \ {x}) = Sum(g, W \ L)
    BY <1>1
  <2> QED
    BY <2>1, <2>2
<1>5. g[x] \in Nat /\ Sum(g, L \ {x}) \in Nat /\ Sum(g, W \ L) \in Nat
  BY <1>2, SumPick, Zenon DEF Terms
<1> QED
  BY <1>3, <1>4, <1>5, SMT, SMTT(20) DEF Bounds
------------------------------------------------------------------------------
(* The buckets that query reads.                                            *)

USE SummaryAssumption

\* The whole seconds in n milliseconds, as the only number they can be.
LEMMA DivMs ==
  ASSUME NEW n \in Nat
  PROVE  /\ n \div Ms \in Nat
         /\ (n \div Ms) * Ms <= n
         /\ n < (n \div Ms) * Ms + Ms
  BY SMT

\* A number that fits a word is its own unsigned and, below half of it, signed
\* value.
LEMMA SmallWord ==
  ASSUME NEW n \in Nat, n < Word \div 2
  PROVE  Unsigned(n) = n /\ Signed(n) = n
  BY SMT DEF Unsigned, Signed

\* A negative difference is kept by the signed conversion.
LEMMA NegativeWord ==
  ASSUME NEW n \in Nat, n < Word \div 2, n > 0
  PROVE  Signed(0 - n) = 0 - n /\ Unsigned(0 - n) >= Word \div 2
  BY SMT DEF Unsigned, Signed

\* Seconds are far from the word's end.
LEMMA SecondsSmall ==
  /\ Seconds \subseteq Nat
  /\ \A s \in Seconds : s < Word \div 2 /\ s - Start \in Nat /\ s - Start < Word \div 2
  /\ LastSecond + 2 <= (LastSecond + 2) * Ms
  <1>1. LastSecond + 2 <= (LastSecond + 2) * Ms
    BY SMT, SMTT(20)
  <1> QED
    BY <1>1, SMT DEF Seconds

\* The arithmetic of FirstIndex: what a bucket at or after it has in common.
LEMMA FirstIndexMeans ==
  ASSUME NEW from \in Times, NEW i \in Nat
  PROVE  /\ FirstIndex(from) \in Nat
         /\ FirstIndex(from) <= i <=> from < (Start + i) * Ms
  <1> DEFINE f == (from + Ms) \div Ms
  <1>1. from \in Nat /\ from + Ms \in Nat /\ i \in Nat /\ Start + i \in Nat
    BY SMT DEF Times
  <1>2. from + Ms <= (LastSecond + 2) * Ms
    BY SMT DEF Times
  <1>3. f \in Nat /\ f * Ms <= from + Ms /\ from < f * Ms
    BY <1>1, DivMs, SMT
  <1>4. f <= from + Ms
    BY <1>1, <1>3, SMT
  <1>5. f < Word \div 2 /\ Signed(f) = f
    BY <1>2, <1>3, <1>4, <1>1, SmallWord, SMT
  <1>6. Start < Word \div 2
    BY SecondsSmall, SMT, SMTT(20) DEF Seconds
  <1>7. Signed(f - Start) = f - Start
    <2>1. CASE f >= Start
      BY <2>1, <1>3, <1>5, SmallWord, SMT, SMTT(20)
    <2>2. CASE f < Start
      <3>1. Start - f \in Nat /\ Start - f > 0 /\ Start - f < Word \div 2
        BY <2>2, <1>3, <1>6, SMT
      <3>2. Signed(0 - (Start - f)) = 0 - (Start - f)
        BY <3>1, NegativeWord
      <3>3. f - Start = 0 - (Start - f)
        BY <1>3, SMT, SMTT(20)
      <3> QED
        BY <3>2, <3>3
    <2> QED
      BY <2>1, <2>2, <1>3, SMT, SMTT(20)
  <1>8. FirstIndex(from) = IF f < Start THEN 0 ELSE f - Start
    BY <1>3, <1>5, <1>7, SMT, SMTT(20) DEF FirstIndex
  <1>9. FirstIndex(from) <= i <=> f <= Start + i
    BY <1>1, <1>3, <1>8, SMT
  <1>10. f <= Start + i => f * Ms <= (Start + i) * Ms
    BY <1>1, <1>3, SMT
  <1>11. Start + i + 1 <= f => (Start + i + 1) * Ms <= f * Ms
    BY <1>1, <1>3, SMT, SMTT(20)
  <1>12. (Start + i + 1) * Ms = (Start + i) * Ms + Ms
    BY <1>1, SMT
  <1>13. f <= Start + i <=> from < (Start + i) * Ms
    BY <1>1, <1>3, <1>10, <1>11, <1>12, SMT, SMTT(20)
  <1> QED
    BY <1>3, <1>8, <1>9, <1>13, SMT

\* The arithmetic of LastIndex, for an interval that ends after the start.
LEMMA LastIndexMeans ==
  ASSUME NEW to \in Times, NEW i \in Buckets, Start * Ms <= to
  PROVE  i <= LastIndex(to) <=> (Start + i) * Ms <= to
  <1> DEFINE s == to \div Ms
  <1>1. to \in Nat /\ i \in Nat /\ Start + i \in Nat
    BY SMT DEF Times, Buckets
  <1>2. s \in Nat /\ s * Ms <= to /\ to < s * Ms + Ms
    BY <1>1, DivMs
  <1>3. (s + 1) * Ms = s * Ms + Ms
    BY <1>2, SMT, SMTT(20)
  <1>4. s + 1 <= Start => (s + 1) * Ms <= Start * Ms
    BY <1>2, SMT
  <1>5. Start <= s
    BY <1>1, <1>2, <1>3, <1>4, SMT
  <1>6. s <= to /\ to < Word \div 2
    BY <1>1, <1>2, SMT, SMTT(20) DEF Times
  <1>7. Unsigned(s - Start) = s - Start
    BY <1>2, <1>5, <1>6, <1>1, SmallWord, SMT, SMTT(20)
  <1>8. i <= LastIndex(to) <=> Start + i <= s
    BY <1>1, <1>2, <1>5, <1>7, SMT DEF LastIndex, Buckets
  <1>9. Start + i <= s => (Start + i) * Ms <= s * Ms
    BY <1>1, <1>2, SMT
  <1>10. s + 1 <= Start + i => (s + 1) * Ms <= (Start + i) * Ms
    BY <1>1, <1>2, SMT, SMTT(20)
  <1> QED
    BY <1>1, <1>2, <1>3, <1>8, <1>9, <1>10, SMT

\* Whatever is asked for, query's last bucket is one of the vector's.
LEMMA LastIndexInBounds ==
  ASSUME NEW to \in Times
  PROVE  LastIndex(to) \in Nat /\ LastIndex(to) < Capacity
  <1>1. to \div Ms \in Nat
    BY DivMs, SMT DEF Times
  <1>2. Unsigned(to \div Ms - Start) \in Nat
    BY <1>1, SMT DEF Unsigned
  <1> QED
    BY <1>2, SMT DEF LastIndex

\* query reads exactly the buckets of the seconds in (from, to], for every
\* interval that does not end before the start of the service: the rounding of
\* from_sec, the unsigned differences and the clamps select no second too many
\* and none too few.
THEOREM QuerySelectsInterval ==
  ASSUME NEW from \in Times, NEW to \in Times, Start * Ms <= to, NEW i \in Buckets
  PROVE  FirstIndex(from) <= i /\ i <= LastIndex(to)
           <=> from < (Start + i) * Ms /\ (Start + i) * Ms <= to
  <1>1. i \in Nat
    BY SMT DEF Buckets
  <1> QED
    BY <1>1, FirstIndexMeans, LastIndexMeans

\* For an interval that ends before the start of the service query reads every
\* bucket, although none of their seconds is in it: to_sec - processed_start
\* wraps, and is clamped to the last bucket.
THEOREM EarlyIntervalReadsAll ==
  ASSUME NEW from \in Times, NEW to \in Times, EndsBeforeStart(from, to)
  PROVE  /\ FirstIndex(from) = 0 /\ LastIndex(to) = Capacity - 1
         /\ \A i \in Buckets : ~((Start + i) * Ms <= to)
  <1> DEFINE q == to \div Ms
  <1>1. from \in Nat /\ to \in Nat /\ from <= to /\ to < Start * Ms
    BY SMT, SMTT(20) DEF Times, EndsBeforeStart
  <1>2. FirstIndex(from) = 0
    <2>1. /\ FirstIndex(from) \in Nat
          /\ FirstIndex(from) <= 0 <=> from < (Start + 0) * Ms
      BY FirstIndexMeans
    <2>2. from < (Start + 0) * Ms
      BY <1>1, SMT, SMTT(20)
    <2> QED
      BY <2>1, <2>2, SMT, SMTT(20)
  <1>3. q \in Nat /\ q * Ms <= to
    BY <1>1, DivMs
  <1>4. q < Start
    <2>1. Start <= q => Start * Ms <= q * Ms
      BY <1>3, SMT, SMTT(20)
    <2> QED
      BY <1>1, <1>3, <2>1, SMT, SMTT(20)
  <1>5. Start < Word \div 2
    BY SecondsSmall, SMT, SMTT(20) DEF Seconds
  <1>6. /\ Start - q \in Nat /\ Start - q > 0 /\ Start - q < Word \div 2
        /\ q - Start = 0 - (Start - q)
    BY <1>3, <1>4, <1>5, SMT, SMTT(20)
  <1>7. Unsigned(q - Start) >= Word \div 2 /\ Unsigned(q - Start) \in Nat
    <2>1. Unsigned(q - Start) >= Word \div 2
      BY <1>6, NegativeWord
    <2>2. Unsigned(q - Start) \in Nat
      BY <1>3, SMT, SMTT(20) DEF Unsigned
    <2> QED
      BY <2>1, <2>2
  <1>8. Unsigned(q - Start) >= Capacity
    BY <1>7, SMT, SMTT(20)
  <1>9. LastIndex(to) = Capacity - 1
    BY <1>8 DEF LastIndex
  <1>10. \A i \in Buckets : ~((Start + i) * Ms <= to)
    <2>1. ASSUME NEW i \in Buckets
          PROVE  Start * Ms <= (Start + i) * Ms /\ (Start + i) * Ms \in Nat /\ Start * Ms \in Nat
      BY SMT, SMTT(20) DEF Buckets
    <2> QED
      BY <1>1, <2>1, SMT, SMTT(20)
  <1> QED
    BY <1>2, <1>9, <1>10
------------------------------------------------------------------------------
(* The inductive invariant.                                                 *)

\* What bucket i should hold of cell c.
Due(c, i) == IF Start + i \in Seconds THEN stored[c][Start + i] ELSE 0

\* A writer inside an addition has a bucket of the vector.
WriterInv ==
  \A t \in Writers :
    /\ ts[t] <= clock
    /\ pc[t] \in {"load", "write"} => ts[t] - Start \in Buckets
    /\ pc[t] = "write" /\ ~outside => tmp[t] <= stored[cell[t]][ts[t]]

\* Until additions overlap or leave the vector, the total a writer has loaded is still the total,
\* and no other writer is inside the same addition.
LoadedInv ==
  ~clash /\ ~outside => \A t \in Writers : pc[t] = "write" =>
    /\ tmp[t] = stored[cell[t]][ts[t]]
    /\ \A u \in Writers \ {t} :
         pc[u] = "write" /\ cell[u] = cell[t] => ts[u] # ts[t]

ExactInv ==
  ~clash /\ ~outside => \A c \in Cells, i \in Buckets : bucket[c][i] = Due(c, i)

AtMostInv == ~outside => \A c \in Cells, i \in Buckets : bucket[c][i] <= Due(c, i)

ScanInv == scan.on => scan.last < Capacity

IInv ==
  TypeOK /\ WriterInv /\ LoadedInv /\ ExactInv /\ AtMostInv /\ BucketsLast /\ ScanInv

\* A writer's bucket is the second of its timestamp.
LEMMA IndexIs ==
  ASSUME TypeOK, NEW t \in Writers
  PROVE  /\ Index(t) = ts[t] - Start
         /\ ts[t] \in Seconds /\ ts[t] \in Nat
  <1>1. ts[t] \in Seconds
    BY DEF TypeOK
  <1>2. ts[t] \in Nat /\ ts[t] - Start \in Nat /\ ts[t] - Start < Word \div 2
    BY <1>1, SecondsSmall, Zenon
  <1> QED
    BY <1>1, <1>2, SmallWord DEF Index

\* No scan under way, as a scan.
LEMMA NoScanType ==
  NoScan \in [on : BOOLEAN, from : Times, to : Times, next : Nat, last : Nat,
              todo : SUBSET Cells, sum : [Cells -> Nat]]
  <1>1. 0 \in Times
    BY SMT DEF Times
  <1>2. Zero \in [Cells -> Nat]
    BY SMT, SMTT(20) DEF Zero
  <1> QED
    BY <1>1, <1>2 DEF NoScan

\* The initial buckets, writers and scan satisfy the invariant.
LEMMA InitInv == Init => IInv
  <1> SUFFICES ASSUME Init PROVE IInv
    OBVIOUS
  <1> USE DEF Init
  <1>1. Start \in Seconds /\ 0 \in Times
    BY SMT, SMTT(20) DEF Seconds, Times
  <1>2. NoCell \in Cells /\ Zero \in [Cells -> Nat]
    BY SMT DEF NoCell, Cells, Processors, Fields, Zero
  <1>4. TypeOK
    <2>1. begun \in 0..MaxStores
      BY SMT
    <2>2. bucket \in [Cells -> [Buckets -> Nat]] /\ stored \in [Cells -> [Seconds -> Nat]]
      BY SMT
    <2>3. pc \in [Writers -> {"idle", "called", "load", "write"}]
      BY SMT
    <2>4. ts \in [Writers -> Seconds] /\ cell \in [Writers -> Cells] /\ tmp \in [Writers -> Nat]
      BY <1>1, <1>2, SMT, SMTT(20)
    <2> QED
      BY <1>1, NoScanType, <2>1, <2>2, <2>3, <2>4, Zenon DEF TypeOK
  <1>5. WriterInv /\ LoadedInv
    BY SMT, SMTT(20) DEF WriterInv, LoadedInv
  <1>6. ExactInv /\ AtMostInv
    BY SMT, SMTT(20) DEF ExactInv, AtMostInv, Due
  <1>7. BucketsLast /\ ScanInv
    BY DEF BucketsLast, ScanInv, NoScan
  <1> QED
    BY <1>4, <1>5, <1>6, <1>7 DEF IInv

\* Leaving store_processed keeps the types of the writer's locals.
LEMMA LeaveType ==
  ASSUME TypeOK, NEW t \in Writers, Leave(t)
  PROVE  /\ pc' \in [Writers -> {"idle", "called", "load", "write"}]
         /\ ts' \in [Writers -> Seconds]
         /\ cell' \in [Writers -> Cells]
         /\ tmp' \in [Writers -> Nat]
  <1>1. Start \in Seconds /\ NoCell \in Cells
    BY SMT, SMTT(20) DEF Seconds, NoCell, Cells, Processors, Fields
  <1> QED
    BY <1>1 DEF TypeOK, Leave

\* What query starts with.
LEMMA QueryType ==
  ASSUME NEW from \in Times, NEW to \in Times, Query(from, to)
  PROVE  /\ scan' \in [on : BOOLEAN, from : Times, to : Times, next : Nat, last : Nat,
                       todo : SUBSET Cells, sum : [Cells -> Nat]]
         /\ scan'.last < Capacity
  <1>1. 0 \in Buckets
    BY SMT, SMTT(20) DEF Buckets
  <1>2. FirstIndex(from) \in Nat /\ LastIndex(to) \in Nat /\ LastIndex(to) < Capacity
    BY <1>1, FirstIndexMeans, LastIndexInBounds
  <1>3. Zero \in [Cells -> Nat]
    BY SMT DEF Zero
  <1>4. DEFINE first == IF to < from THEN 1 ELSE FirstIndex(from)
               last  == IF to < from THEN 0 ELSE LastIndex(to)
  <1>5. first \in Nat /\ last \in Nat /\ last < Capacity
    BY <1>2, SMT, SMTT(20)
  <1>6. scan' = [on |-> TRUE, from |-> from, to |-> to, next |-> first, last |-> last,
                 todo |-> Cells, sum |-> Zero]
    BY DEF Query
  <1> HIDE DEF first, last
  <1> QED
    BY <1>3, <1>5, <1>6

\* An addition keeps the type of what it is made to.
LEMMA AddAtType ==
  ASSUME NEW D, NEW f \in [Cells -> [D -> Nat]], NEW p, NEW i \in D
  PROVE  /\ AddAt(f, p, i) \in [Cells -> [D -> Nat]]
         /\ \A c \in Cells, j \in D : f[c][j] <= AddAt(f, p, i)[c][j]
  <1>1. ASSUME NEW c \in Cells
        PROVE  /\ AddAt(f, p, i)[c] = IF c[1] = p THEN [f[c] EXCEPT ![i] = @ + 1] ELSE f[c]
               /\ f[c] \in [D -> Nat]
    BY Zenon DEF AddAt
  <1>2. ASSUME NEW g \in [D -> Nat]
        PROVE  /\ [g EXCEPT ![i] = @ + 1] \in [D -> Nat]
               /\ \A j \in D : g[j] <= [g EXCEPT ![i] = @ + 1][j] /\ g[j] <= g[j]
    BY SMT, SMTT(20)
  <1>3. ASSUME NEW c \in Cells
        PROVE  AddAt(f, p, i)[c] \in [D -> Nat]
    <2>1. f[c] \in [D -> Nat] /\ [f[c] EXCEPT ![i] = @ + 1] \in [D -> Nat]
      BY <1>1, <1>2, Zenon
    <2>2. AddAt(f, p, i)[c] = f[c] \/ AddAt(f, p, i)[c] = [f[c] EXCEPT ![i] = @ + 1]
      BY <1>1, Zenon
    <2> QED
      BY <2>1, <2>2, Zenon
  <1>4. AddAt(f, p, i) = [c \in Cells |-> AddAt(f, p, i)[c]]
    BY Zenon DEF AddAt
  <1>5. AddAt(f, p, i) \in [Cells -> [D -> Nat]]
    BY <1>3, <1>4, Zenon
  <1>6. \A c \in Cells, j \in D : f[c][j] <= AddAt(f, p, i)[c][j]
    BY <1>1, <1>2, Zenon
  <1> QED
    BY <1>5, <1>6

\* Every step keeps the types.
LEMMA TypeStep == TypeOK /\ WriterInv /\ ScanInv /\ [Next]_vars => TypeOK'
  <1> SUFFICES ASSUME TypeOK, WriterInv, ScanInv, [Next]_vars PROVE TypeOK'
    OBVIOUS
  <1>1. CASE Tick
    <2>1. clock' \in Seconds
      BY <1>1, SMT, SMTT(20) DEF Tick, TypeOK, Seconds
    <2> QED
      BY <1>1, <2>1 DEF Tick, TypeOK, local, hist, query
  <1>2. ASSUME NEW t \in Writers, CreatePayload(t) PROVE TypeOK'
    <2>1. begun' \in 0..MaxStores
      BY <1>2, SMT, SMTT(20) DEF CreatePayload, TypeOK
    <2> QED
      BY <1>2, <2>1 DEF CreatePayload, TypeOK, query
  <1>3. ASSUME NEW t \in Writers, NEW q \in Processors, StoreOutside(t, q) PROVE TypeOK'
    <2>1. bucket' \in [Cells -> [Buckets -> Nat]]
      <3>1. CASE UNCHANGED bucket
        BY <3>1, Zenon DEF TypeOK
      <3>2. ASSUME NEW p \in Processors, NEW i \in Buckets, bucket' = AddAt(bucket, p, i)
            PROVE  bucket' \in [Cells -> [Buckets -> Nat]]
        <4>1. bucket \in [Cells -> [Buckets -> Nat]]
          BY Zenon DEF TypeOK
        <4> QED
          BY <3>2, <4>1, AddAtType, Zenon
      <3> QED
        BY <1>3, <3>1, <3>2, Zenon DEF StoreOutside
    <2>2. stored' \in [Cells -> [Seconds -> Nat]]
      <3>1. stored \in [Cells -> [Seconds -> Nat]] /\ ts[t] \in Seconds
        BY Zenon DEF TypeOK
      <3>2. stored' = AddAt(stored, Booked(q), ts[t])
        BY <1>3, Zenon DEF StoreOutside
      <3> QED
        BY <3>1, <3>2, AddAtType, Zenon
    <2>3. outside' = TRUE /\ UNCHANGED <<clock, begun, clash, query>> /\ Leave(t)
      BY <1>3, Zenon DEF StoreOutside
    <2> QED
      BY <2>1, <2>2, <2>3, LeaveType DEF TypeOK, query
  <1>4. ASSUME NEW t \in Writers, Refused(t) PROVE TypeOK'
    BY <1>4, LeaveType DEF Refused, TypeOK, hist, query
  <1>5. ASSUME NEW t \in Writers, Load(t) PROVE TypeOK'
    <2>1. Index(t) \in Buckets
      BY <1>5, IndexIs DEF Load, WriterInv
    <2>2. bucket[cell[t]][Index(t)] \in Nat
      BY <2>1, SMT, SMTT(20) DEF TypeOK
    <2> QED
      BY <1>5, <2>2 DEF Load, TypeOK, query
  <1>6. ASSUME NEW t \in Writers, NEW q \in Processors, StoreProcessed(t, q) PROVE TypeOK'
    <2>1. <<Booked(q), "requests">> \in Cells
      BY SMT DEF Booked, Cells, Processors, Fields
    <2> QED
      BY <1>6, <2>1 DEF StoreProcessed, TypeOK, hist, query
  <1>7. ASSUME NEW t \in Writers, Write(t) PROVE TypeOK'
    <2>1. Index(t) \in Buckets /\ ts[t] \in Seconds /\ cell[t] \in Cells /\ tmp[t] + 1 \in Nat
      BY <1>7, IndexIs, SMT, SMTT(20) DEF Write, WriterInv, TypeOK
    <2>2. bucket' \in [Cells -> [Buckets -> Nat]]
      BY <1>7, <2>1 DEF Write, TypeOK
    <2>3. stored' \in [Cells -> [Seconds -> Nat]]
      BY <1>7, <2>1, SMT, SMTT(20) DEF Write, TypeOK
    <2>4. CASE Leave(t)
      BY <1>7, <2>2, <2>3, <2>4, LeaveType DEF Write, TypeOK, hist, query
    <2>5. CASE ~Leave(t)
      <3>1. <<cell[t][1], "amount">> \in Cells
        BY <2>1, SMT, SMTT(20) DEF Cells, Processors, Fields
      <3>2. /\ pc' = [pc EXCEPT ![t] = "load"]
            /\ cell' = [cell EXCEPT ![t] = <<cell[t][1], "amount">>]
            /\ tmp' = [tmp EXCEPT ![t] = 0]
            /\ ts' = ts
        BY <1>7, <2>5 DEF Write
      <3>3. /\ pc' \in [Writers -> {"idle", "called", "load", "write"}]
            /\ cell' \in [Writers -> Cells]
            /\ tmp' \in [Writers -> Nat]
            /\ ts' \in [Writers -> Seconds]
        BY <3>1, <3>2 DEF TypeOK
      <3>4. UNCHANGED <<clock, hist, query>>
        BY <1>7, ZenonT(40) DEF Write
      <3> QED
        BY <2>2, <2>3, <3>3, <3>4 DEF TypeOK, hist, query
    <2> QED
      BY <2>4, <2>5, Zenon
  <1>8. ASSUME NEW from \in Times, NEW to \in Times, Query(from, to) PROVE TypeOK'
    BY <1>8, QueryType, SMT, SMTT(20) DEF Query, TypeOK, local, hist
  <1>9. ASSUME NEW c \in Cells, ScanCell(c) PROVE TypeOK'
    <2> DEFINE sum  == [scan.sum EXCEPT ![c] = @ + bucket[c][scan.next]]
               todo == IF scan.todo = {c} THEN Cells ELSE scan.todo \ {c}
               next == IF scan.todo = {c} THEN scan.next + 1 ELSE scan.next
    <2>1. scan.next \in Nat /\ scan.last \in Nat /\ scan.sum \in [Cells -> Nat]
            /\ scan.todo \in SUBSET Cells
      BY DEF TypeOK
    <2>2. scan.next \in Buckets
      BY <1>9, <2>1, SMT, SMTT(20) DEF ScanCell, ScanInv, Buckets
    <2>3. bucket[c][scan.next] \in Nat
      BY <2>2, SMT, SMTT(20) DEF TypeOK
    <2>4. sum \in [Cells -> Nat] /\ todo \in SUBSET Cells /\ next \in Nat
      BY <2>1, <2>3, SMT, SMTT(20)
    <2>5. scan' = [scan EXCEPT !.sum = sum, !.todo = todo, !.next = next]
      BY <1>9 DEF ScanCell, TypeOK
    <2>6. UNCHANGED <<clock, bucket, local, stored, hist>>
      BY <1>9 DEF ScanCell
    <2> HIDE DEF sum, todo, next
    <2> QED
      BY <2>4, <2>5, <2>6, Zenon DEF TypeOK, local, hist
  <1>10. CASE Answer
    BY <1>10, NoScanType DEF Answer, TypeOK, local, hist
  <1>11. CASE UNCHANGED vars
    BY <1>11 DEF vars, local, hist, query, TypeOK
  <1> QED
    BY <1>1, <1>2, <1>3, <1>4, <1>5, <1>6, <1>7, <1>8, <1>9, <1>10, <1>11 DEF Next

\* The invariant but for types and the scan.
Totals == WriterInv /\ LoadedInv /\ ExactInv /\ AtMostInv /\ BucketsLast

\* A step of the clock or of the scan leaves the totals and the writers alone.
LEMMA QuietStep ==
  ASSUME IInv, UNCHANGED <<bucket, local, stored, clash, outside>>,
         clock' = clock \/ clock' = clock + 1
  PROVE  Totals'
  <1>1. clock \in Nat /\ clock' >= clock
    BY SecondsSmall, SMT, SMTT(20) DEF IInv, TypeOK
  <1>2. WriterInv'
    <2> SUFFICES ASSUME NEW t \in Writers
                 PROVE  /\ ts'[t] <= clock'
                        /\ pc'[t] \in {"load", "write"} => ts'[t] - Start \in Buckets
                        /\ pc'[t] = "write" /\ ~outside' => tmp'[t] <= stored'[cell'[t]][ts'[t]]
      BY DEF WriterInv
    <2>1. ts[t] \in Nat
      BY IndexIs, Zenon DEF IInv
    <2>2. ts[t] <= clock
      BY DEF IInv, WriterInv
    <2>3. ts'[t] <= clock'
      BY <1>1, <2>1, <2>2, SMT, SMTT(20) DEF local
    <2> QED
      BY <2>3 DEF IInv, WriterInv, local
  <1>3. LoadedInv' /\ ExactInv' /\ AtMostInv'
    BY DEF IInv, LoadedInv, ExactInv, AtMostInv, Due, local
  <1>4. BucketsLast'
    BY <1>1, SMT, SMTT(20) DEF IInv, BucketsLast
  <1> QED
    BY <1>2, <1>3, <1>4 DEF Totals

\* A writer that is about to load, or has left, disturbs no total.
LEMMA OutsideStep ==
  ASSUME IInv, NEW t \in Writers,
         UNCHANGED <<clock, bucket, stored, clash, outside>>,
         \A u \in Writers \ {t} : /\ pc'[u] = pc[u] /\ ts'[u] = ts[u]
                                  /\ cell'[u] = cell[u] /\ tmp'[u] = tmp[u],
         pc'[t] # "write",
         ts'[t] <= clock,
         pc'[t] = "load" => ts'[t] - Start \in Buckets
  PROVE  Totals'
  <1>1. WriterInv'
    BY DEF IInv, WriterInv
  <1>2. LoadedInv'
    BY SMT, SMTT(20) DEF IInv, LoadedInv
  <1>3. ExactInv' /\ AtMostInv'
    BY DEF IInv, ExactInv, AtMostInv, Due
  <1>4. BucketsLast'
    BY DEF IInv, BucketsLast
  <1> QED
    BY <1>1, <1>2, <1>3, <1>4, Zenon DEF Totals

\* The vector does have the buckets of the first Capacity seconds.
LEMMA OutsideIsLate ==
  ASSUME IInv, NEW t \in Writers, Index(t) \notin Buckets
  PROVE  clock >= Start + Capacity
  <1>1. Index(t) = ts[t] - Start /\ ts[t] \in Seconds /\ ts[t] \in Nat
    BY IndexIs DEF IInv
  <1>2. ts[t] <= clock /\ clock \in Nat
    BY SecondsSmall DEF IInv, WriterInv, TypeOK
  <1>3. ts[t] - Start \in Nat
    BY <1>1, SecondsSmall
  <1> QED
    BY <1>1, <1>2, <1>3, SMT DEF Buckets

\* A store outside the vector: nothing is claimed of the totals from here on.
LEMMA LeavesVector ==
  ASSUME IInv, NEW t \in Writers, NEW q \in Processors, StoreOutside(t, q)
  PROVE  Totals'
  <1>1. outside' = TRUE /\ clock' = clock /\ Leave(t) /\ Index(t) \notin Buckets
    BY Zenon DEF StoreOutside
  <1>2. /\ pc'[t] = "idle" /\ ts'[t] = Start
        /\ \A u \in Writers \ {t} : pc'[u] = pc[u] /\ ts'[u] = ts[u]
    BY <1>1 DEF Leave, IInv, TypeOK
  <1>3. Start <= clock
    BY SMT, SMTT(20) DEF IInv, TypeOK, Seconds
  <1>4. WriterInv'
    BY <1>1, <1>2, <1>3 DEF IInv, WriterInv
  <1>5. LoadedInv' /\ ExactInv' /\ AtMostInv'
    BY <1>1, Zenon DEF LoadedInv, ExactInv, AtMostInv
  <1>6. BucketsLast'
    BY <1>1, OutsideIsLate, Zenon DEF BucketsLast
  <1> QED
    BY <1>4, <1>5, <1>6, Zenon DEF Totals

\* The steps of a writer before and after its additions.
LEMMA AsideStep ==
  ASSUME IInv, NEW t \in Writers,
         \/ CreatePayload(t) \/ Refused(t)
         \/ \E q \in Processors : StoreProcessed(t, q)
  PROVE  Totals'
  <1>1. clock \in Nat /\ Start <= clock
    BY SMT, SMTT(20) DEF IInv, TypeOK, Seconds
  <1> USE DEF IInv, TypeOK
  <1>2. CASE CreatePayload(t)
    <2>1. pc'[t] = "called" /\ ts'[t] = clock
      BY <1>2, ZenonT(40) DEF CreatePayload
    <2>2. ts'[t] <= clock
      BY <1>1, <2>1, SMT, SMTT(20)
    <2>3. \A u \in Writers \ {t} : /\ pc'[u] = pc[u] /\ ts'[u] = ts[u]
                                   /\ cell'[u] = cell[u] /\ tmp'[u] = tmp[u]
      BY <1>2, Zenon DEF CreatePayload
    <2> QED
      BY <1>2, <2>1, <2>2, <2>3, OutsideStep DEF CreatePayload
  <1>4. CASE Refused(t)
    <2>1. pc'[t] = "idle" /\ ts'[t] = Start
      BY <1>4, Zenon DEF Refused, Leave
    <2>2. \A u \in Writers \ {t} : /\ pc'[u] = pc[u] /\ ts'[u] = ts[u]
                                   /\ cell'[u] = cell[u] /\ tmp'[u] = tmp[u]
      BY <1>4, Zenon DEF Refused, Leave
    <2> QED
      BY <1>1, <1>4, <2>1, <2>2, OutsideStep, Zenon DEF Refused, hist
  <1>5. ASSUME NEW q \in Processors, StoreProcessed(t, q) PROVE Totals'
    <2>1. pc'[t] = "load" /\ ts'[t] = ts[t]
      BY <1>5 DEF StoreProcessed
    <2>2. \A u \in Writers \ {t} : /\ pc'[u] = pc[u] /\ ts'[u] = ts[u]
                                   /\ cell'[u] = cell[u] /\ tmp'[u] = tmp[u]
      BY <1>5, Zenon DEF StoreProcessed
    <2>3. ts[t] - Start \in Buckets /\ ts[t] <= clock
      BY <1>5, IndexIs, Zenon DEF StoreProcessed, WriterInv
    <2> QED
      BY <1>5, <2>1, <2>2, <2>3, OutsideStep DEF StoreProcessed, hist
  <1> QED
    BY <1>2, <1>4, <1>5

\* What a writer inside an addition knows of its bucket.
LEMMA InsideFacts ==
  ASSUME IInv, NEW t \in Writers, pc[t] \in {"load", "write"}
  PROVE  /\ Index(t) = ts[t] - Start /\ Index(t) \in Buckets
         /\ cell[t] \in Cells /\ ts[t] \in Seconds /\ ts[t] \in Nat
         /\ Start + Index(t) = ts[t]
         /\ Due(cell[t], Index(t)) = stored[cell[t]][ts[t]]
         /\ stored[cell[t]][ts[t]] \in Nat
         /\ bucket[cell[t]][Index(t)] \in Nat
  <1>1. Index(t) = ts[t] - Start /\ ts[t] \in Seconds /\ ts[t] \in Nat
    BY IndexIs DEF IInv
  <1>2. Index(t) \in Buckets /\ cell[t] \in Cells
    BY <1>1 DEF IInv, WriterInv, TypeOK
  <1>3. Start + Index(t) = ts[t]
    BY <1>1, SMT, SMTT(20)
  <1> QED
    BY <1>1, <1>2, <1>3, SMT, SMTT(20) DEF IInv, TypeOK, Due

\* Loading a total: exact, and alone, unless an addition to it is under way.
LEMMA LoadStep ==
  ASSUME IInv, NEW t \in Writers, Load(t)
  PROVE  Totals'
  <1> USE DEF Load
  <1>1. pc[t] = "load"
    BY Zenon
  <1>2. /\ Index(t) \in Buckets /\ cell[t] \in Cells /\ ts[t] \in Seconds
        /\ Due(cell[t], Index(t)) = stored[cell[t]][ts[t]]
        /\ stored[cell[t]][ts[t]] \in Nat /\ bucket[cell[t]][Index(t)] \in Nat
    BY <1>1, InsideFacts, Zenon
  <1>3. UNCHANGED <<clock, bucket, ts, cell, stored, outside>>
    OBVIOUS
  <1>4. /\ pc'[t] = "write" /\ tmp'[t] = bucket[cell[t]][Index(t)]
        /\ \A u \in Writers \ {t} : pc'[u] = pc[u] /\ tmp'[u] = tmp[u]
    BY Zenon DEF IInv, TypeOK
  <1>5. WriterInv'
    <2>1. ~outside => tmp'[t] <= stored[cell[t]][ts[t]]
      BY <1>2, <1>4, Zenon DEF IInv, AtMostInv
    <2> SUFFICES ASSUME NEW u \in Writers
                 PROVE  /\ ts[u] <= clock
                        /\ pc'[u] \in {"load", "write"} => ts[u] - Start \in Buckets
                        /\ pc'[u] = "write" /\ ~outside => tmp'[u] <= stored[cell[u]][ts[u]]
      BY <1>3, SMT, SMTT(20) DEF WriterInv
    <2>2. CASE u = t
      BY <1>1, <2>1, <2>2, Zenon DEF IInv, WriterInv
    <2>3. CASE u # t
      BY <1>4, <2>3, Zenon DEF IInv, WriterInv
    <2> QED
      BY <2>2, <2>3, Zenon
  <1>6. LoadedInv'
    <2> SUFFICES ASSUME ~clash', ~outside,
                        NEW u \in Writers, pc'[u] = "write"
                 PROVE  /\ tmp'[u] = stored[cell[u]][ts[u]]
                        /\ \A v \in Writers \ {u} :
                             pc'[v] = "write" /\ cell[v] = cell[u] => ts[v] # ts[u]
      BY <1>3, SMT, SMTT(20) DEF LoadedInv
    <2>1. ~clash
      BY Zenon
    <2>2. \A v \in Writers \ {t} :
            pc[v] = "write" /\ cell[v] = cell[t] => ts[v] # ts[t]
      BY Zenon DEF Index
    <2>3. CASE u = t
      <3>1. tmp'[t] = stored[cell[t]][ts[t]]
        BY <1>2, <1>4, <2>1, Zenon DEF IInv, ExactInv
      <3> QED
        BY <1>4, <2>2, <2>3, <3>1, ZenonT(40)
    <2>4. CASE u # t
      BY <1>4, <2>1, <2>2, <2>4, SMT, SMTT(20) DEF IInv, LoadedInv
    <2> QED
      BY <2>3, <2>4, Zenon
  <1>7. ExactInv' /\ AtMostInv' /\ BucketsLast'
    <2>1. ~clash' => ~clash
      BY Zenon
    <2> QED
      BY <1>3, <2>1, SMT, SMTT(20) DEF IInv, ExactInv, AtMostInv, BucketsLast, Due
  <1> QED
    BY <1>5, <1>6, <1>7 DEF Totals

\* Storing a total: one more than the bucket held, unless additions overlapped,
\* and never more than the payments of that second.
LEMMA WriteStep ==
  ASSUME IInv, NEW t \in Writers, Write(t)
  PROVE  Totals'
  <1> DEFINE b == cell[t]
             i == Index(t)
  <1>1. pc[t] = "write"
    BY Zenon DEF Write
  <1>2. /\ i \in Buckets /\ b \in Cells /\ ts[t] \in Seconds /\ ts[t] \in Nat
        /\ Start + i = ts[t] /\ i = ts[t] - Start
        /\ stored[b][ts[t]] \in Nat
    BY <1>1, InsideFacts, Zenon
  <1>3. /\ bucket' = [bucket EXCEPT ![b][i] = tmp[t] + 1]
        /\ stored' = [stored EXCEPT ![b][ts[t]] = @ + 1]
        /\ UNCHANGED <<clock, clash, outside>>
    BY Zenon DEF Write, hist
  <1>4. /\ pc'[t] # "write" /\ (ts'[t] = ts[t] \/ ts'[t] = Start)
        /\ pc'[t] = "load" => ts'[t] = ts[t]
        /\ \A u \in Writers \ {t} : /\ pc'[u] = pc[u] /\ ts'[u] = ts[u]
                                    /\ cell'[u] = cell[u] /\ tmp'[u] = tmp[u]
    BY DEF Write, Leave, IInv, TypeOK
  <1>5. /\ \A c \in Cells, j \in Buckets : bucket[c][j] \in Nat
        /\ \A c \in Cells, s \in Seconds : stored[c][s] \in Nat
        /\ tmp[t] \in Nat
        /\ bucket \in [Cells -> [Buckets -> Nat]] /\ stored \in [Cells -> [Seconds -> Nat]]
    BY SMT, SMTT(20) DEF IInv, TypeOK
  <1> HIDE DEF b, i
  <1>6. \A c \in Cells, s \in Seconds :
          stored'[c][s] = IF c = b /\ s = ts[t] THEN stored[c][s] + 1 ELSE stored[c][s]
    BY <1>2, <1>3, <1>5, Zenon
  <1>7. \A c \in Cells, j \in Buckets :
          bucket'[c][j] = IF c = b /\ j = i THEN tmp[t] + 1 ELSE bucket[c][j]
    BY <1>2, <1>3, <1>5, Zenon
  <1>8. \A c \in Cells, j \in Buckets :
          Due(c, j)' = IF c = b /\ j = i THEN stored[b][ts[t]] + 1 ELSE Due(c, j)
    <2> SUFFICES ASSUME NEW c \in Cells, NEW j \in Buckets
                 PROVE  Due(c, j)' = IF c = b /\ j = i THEN stored[b][ts[t]] + 1 ELSE Due(c, j)
      BY Zenon
    <2>1. j = i <=> Start + j = ts[t]
      BY <1>2, SMT, SMTT(20) DEF Buckets
    <2> QED
      BY <1>2, <1>6, <2>1, Zenon DEF Due
  <1>9. WriterInv'
    <2> SUFFICES ASSUME NEW u \in Writers
                 PROVE  /\ ts'[u] <= clock'
                        /\ pc'[u] \in {"load", "write"} => ts'[u] - Start \in Buckets
                        /\ pc'[u] = "write" /\ ~outside' => tmp'[u] <= stored'[cell'[u]][ts'[u]]
      BY Zenon DEF WriterInv
    <2>1. CASE u = t
      <3>1. ts[t] <= clock /\ Start <= clock
        BY SMT, SMTT(20) DEF IInv, WriterInv, TypeOK, Seconds
      <3> QED
        BY <1>2, <1>3, <1>4, <2>1, <3>1
    <2>2. CASE u # t
      <3>1. /\ ts[u] <= clock
            /\ pc[u] \in {"load", "write"} => ts[u] - Start \in Buckets
            /\ pc[u] = "write" /\ ~outside => tmp[u] <= stored[cell[u]][ts[u]]
        BY DEF IInv, WriterInv
      <3>2. cell[u] \in Cells /\ ts[u] \in Seconds /\ tmp[u] \in Nat
        BY Zenon DEF IInv, TypeOK
      <3>3. stored[cell[u]][ts[u]] \in Nat
              /\ (\/ stored'[cell[u]][ts[u]] = stored[cell[u]][ts[u]]
                  \/ stored'[cell[u]][ts[u]] = stored[cell[u]][ts[u]] + 1)
        BY <1>5, <1>6, <3>2, ZenonT(40)
      <3>4. pc[u] = "write" /\ ~outside => tmp[u] <= stored'[cell[u]][ts[u]]
        BY <3>1, <3>2, <3>3, SMT, SMTT(20)
      <3> QED
        BY <1>3, <1>4, <2>2, <3>1, <3>4, ZenonT(40)
    <2> QED
      BY <2>1, <2>2, Zenon
  <1>10. LoadedInv'
    <2> SUFFICES ASSUME ~clash, ~outside, NEW u \in Writers, pc'[u] = "write"
                 PROVE  /\ tmp'[u] = stored'[cell'[u]][ts'[u]]
                        /\ \A v \in Writers \ {u} :
                             pc'[v] = "write" /\ cell'[v] = cell'[u] => ts'[v] # ts'[u]
      BY <1>3, ZenonT(40) DEF LoadedInv
    <2>1. u # t /\ pc[u] = "write"
      BY <1>4
    <2>2. cell[u] \in Cells /\ ts[u] \in Seconds
      BY DEF IInv, TypeOK
    <2>3. ~(cell[u] = b /\ ts[u] = ts[t])
      BY <1>1, <2>1, Zenon DEF IInv, LoadedInv, b
    <2>4. stored'[cell[u]][ts[u]] = stored[cell[u]][ts[u]]
      BY <1>6, <2>2, <2>3
    <2>5. tmp[u] = stored[cell[u]][ts[u]]
      BY <2>1, Zenon DEF IInv, LoadedInv
    <2>6. \A v \in Writers \ {u} :
            pc'[v] = "write" /\ cell'[v] = cell'[u] => ts'[v] # ts'[u]
      BY <1>4, <2>1, SMT, SMTT(20) DEF IInv, LoadedInv
    <2> QED
      BY <1>4, <2>1, <2>4, <2>5, <2>6
  <1>11. ExactInv'
    <2> SUFFICES ASSUME ~clash, ~outside, NEW c \in Cells, NEW j \in Buckets
                 PROVE  bucket'[c][j] = Due(c, j)'
      BY <1>3, Zenon DEF ExactInv
    <2>1. tmp[t] = stored[b][ts[t]]
      BY <1>1 DEF IInv, LoadedInv, b
    <2>2. bucket[c][j] = Due(c, j)
      BY Zenon DEF IInv, ExactInv
    <2> QED
      BY <1>7, <1>8, <2>1, <2>2
  <1>12. AtMostInv'
    <2> SUFFICES ASSUME ~outside, NEW c \in Cells, NEW j \in Buckets
                 PROVE  bucket'[c][j] <= Due(c, j)'
      BY <1>3, Zenon DEF AtMostInv
    <2>1. tmp[t] + 1 <= stored[b][ts[t]] + 1
      BY <1>1, <1>2, <1>5, SMT, SMTT(20) DEF IInv, WriterInv, b
    <2>2. bucket[c][j] <= Due(c, j)
      BY DEF IInv, AtMostInv
    <2> QED
      BY <1>7, <1>8, <2>1, <2>2
  <1>13. BucketsLast'
    BY <1>3 DEF IInv, BucketsLast
  <1> QED
    BY <1>9, <1>10, <1>11, <1>12, <1>13 DEF Totals

\* The scan's last bucket never changes while it is under way.
LEMMA ScanStep == TypeOK /\ ScanInv /\ [Next]_vars => ScanInv'
  <1> SUFFICES ASSUME TypeOK, ScanInv, [Next]_vars PROVE ScanInv'
    OBVIOUS
  <1>1. ASSUME NEW from \in Times, NEW to \in Times, Query(from, to) PROVE ScanInv'
    BY <1>1, QueryType DEF ScanInv
  <1>2. ASSUME NEW c \in Cells, ScanCell(c) PROVE ScanInv'
    <2>1. scan'.last = scan.last /\ scan.on
      BY <1>2 DEF ScanCell, TypeOK
    <2> QED
      BY <2>1 DEF ScanInv
  <1>3. CASE Answer
    BY <1>3 DEF Answer, ScanInv, NoScan
  <1>4. CASE scan' = scan
    BY <1>4 DEF ScanInv
  <1> QED
    BY <1>1, <1>2, <1>3, <1>4, Zenon
    DEF Next, Tick, CreatePayload, StoreProcessed, StoreOutside, Refused, Load, Write,
        vars, query

\* Every step keeps the invariant.
LEMMA InvStep == IInv /\ [Next]_vars => IInv'
  <1> SUFFICES ASSUME IInv, [Next]_vars PROVE IInv'
    OBVIOUS
  <1>1. TypeOK' /\ ScanInv'
    BY TypeStep, ScanStep DEF IInv
  <1>2. Totals'
    <2>1. CASE Tick
      BY <2>1, QuietStep, Zenon DEF Tick, hist
    <2>2. ASSUME NEW from \in Times, NEW to \in Times, Query(from, to) PROVE Totals'
      BY <2>2, QuietStep DEF Query, hist
    <2>3. ASSUME NEW c \in Cells, ScanCell(c) PROVE Totals'
      BY <2>3, QuietStep DEF ScanCell, hist
    <2>4. CASE Answer
      BY <2>4, QuietStep DEF Answer, hist
    <2>5. CASE UNCHANGED vars
      BY <2>5, QuietStep DEF vars, hist
    <2> QED
      BY <2>1, <2>2, <2>3, <2>4, <2>5, AsideStep, LeavesVector, LoadStep, WriteStep DEF Next
  <1> QED
    BY <1>1, <1>2 DEF IInv, Totals

\* The invariant holds throughout.
THEOREM Invariant == Spec => []IInv
  BY InitInv, InvStep, PTL DEF Spec

\* Buckets, writers and the scan keep their types; in particular Load and
\* ScanCell never read outside the vector.
THEOREM TypeCorrect == Spec => []TypeOK
  <1>1. IInv => TypeOK
    BY DEF IInv
  <1> QED
    BY <1>1, Invariant, PTL

\* Until two additions of store_processed to one total overlap, or one leaves
\* the vector, every bucket holds exactly the payments of its second.
THEOREM TotalsAreExact == Spec => []BucketsExact
  <1>1. IInv => BucketsExact
    BY DEF IInv, ExactInv, Due, BucketsExact
  <1> QED
    BY <1>1, Invariant, PTL

\* Whatever additions overlap, store_processed inside the vector never counts a
\* payment that was not stored.
THEOREM TotalsNeverTooHigh == Spec => []NeverOvercounts
  <1>1. IInv => NeverOvercounts
    BY DEF IInv, AtMostInv, Due, NeverOvercounts
  <1> QED
    BY <1>1, Invariant, PTL

\* store_processed stays inside the vector for the first Capacity seconds: what
\* the theorems say of the totals holds at least that long.
THEOREM VectorLasts == Spec => []BucketsLast
  <1>1. IInv => BucketsLast
    BY DEF IInv
  <1> QED
    BY <1>1, Invariant, PTL

\* query's loop reads only buckets of the vector, whatever interval is asked for.
THEOREM ScanStaysInside == Spec => []ScanInBounds
  <1>1. IInv => ScanInBounds
    BY SMT, SMTT(20) DEF IInv, TypeOK, ScanInv, ScanInBounds, Buckets
  <1> QED
    BY <1>1, Invariant, PTL
------------------------------------------------------------------------------
(* A query that runs while payments are stored.                             *)

\* The seconds that a query is for.
Wanted(from, to) == {s \in Seconds : from < s * Ms /\ s * Ms <= to}

\* Those of them whose total of cell c the scan sc has not read yet.
Left(sc, c) ==
  {s \in Wanted(sc.from, sc.to) :
     sc.next < s - Start \/ (s - Start = sc.next /\ c \in sc.todo)}

\* The scan goes through the buckets of wanted seconds, and misses none.
InRange(sc) ==
  /\ \A s \in Seconds : s - Start \in sc.next..sc.last => s \in Wanted(sc.from, sc.to)
  /\ \A s \in Wanted(sc.from, sc.to) : s - Start > sc.last => s - Start \notin Buckets

\* What was stored when the query began is in what it has read or has still to
\* read; what it has read is stored by now.
QInv ==
  /\ low \in [Cells -> Nat]
  /\ ~outside => \A c \in Cells, s \in Seconds : s - Start \notin Buckets => stored[c][s] = 0
  /\ scan.on /\ ~EndsBeforeStart(scan.from, scan.to) => InRange(scan)
  /\ scan.on /\ ~EndsBeforeStart(scan.from, scan.to) /\ ~clash /\ ~outside =>
       \A c \in Cells : Bounds(low[c], scan.sum[c], stored[c],
                               Wanted(scan.from, scan.to), Left(scan, c))

\* The seconds are finitely many.
LEMMA WantedTerms ==
  ASSUME NEW g \in [Seconds -> Nat], NEW from, NEW to
  PROVE  Terms(g, Wanted(from, to))
<1>1. IsFiniteSet(Seconds)
  BY FS_Interval, SMT, SMTT(20) DEF Seconds
<1>2. Wanted(from, to) \in SUBSET Seconds
  BY DEF Wanted
<1>3. Terms(g, Seconds)
  BY <1>1 DEF Terms
<1> QED
  BY <1>2, <1>3, TermsOf

\* query's first and last bucket are those of the wanted seconds.
LEMMA QueryRange ==
  ASSUME NEW from \in Times, NEW to \in Times, Start * Ms <= to
  PROVE  /\ \A s \in Seconds : s - Start \in FirstIndex(from)..LastIndex(to) => s \in Wanted(from, to)
         /\ \A s \in Wanted(from, to) : s - Start > LastIndex(to) => s - Start \notin Buckets
         /\ \A s \in Wanted(from, to) : FirstIndex(from) <= s - Start
<1> DEFINE a == FirstIndex(from)
           z == LastIndex(to)
<1>1. z \in Nat /\ z < Capacity
  BY LastIndexInBounds
<1>2. a \in Nat
  <2>1. 0 \in Nat
    OBVIOUS
  <2> QED
    BY <2>1, FirstIndexMeans
<1>3. \A s \in Seconds : s \in Nat /\ s - Start \in Nat /\ Start + (s - Start) = s
  BY SecondsSmall, SMT, SMTT(20)
<1>4. \A s \in Seconds : a <= s - Start <=> from < s * Ms
  BY <1>3, FirstIndexMeans
<1> HIDE DEF a, z
<1>5. \A s \in Wanted(from, to) : s \in Seconds /\ a <= s - Start
  BY <1>4 DEF Wanted
<1>6. \A s \in Seconds : s - Start \in Buckets => (s - Start <= z <=> s * Ms <= to)
  BY <1>3, LastIndexMeans DEF z
<1>7. ASSUME NEW s \in Seconds, s - Start \in a..z
      PROVE  s \in Wanted(from, to)
  <2>1. s - Start \in Buckets /\ a <= s - Start /\ s - Start <= z
    BY <1>1, <1>2, <1>3, <1>7, SMT, SMTT(20) DEF Buckets
  <2>2. from < s * Ms /\ s * Ms <= to
    BY <1>4, <1>6, <2>1
  <2> QED
    BY <2>2 DEF Wanted
<1>8. ASSUME NEW s \in Wanted(from, to), s - Start > z, s - Start \in Buckets
      PROVE  FALSE
  <2>1. s \in Seconds /\ s * Ms <= to
    BY DEF Wanted
  <2>2. s - Start <= z
    BY <1>6, <1>8, <2>1
  <2> QED
    BY <1>1, <1>3, <1>8, <2>1, <2>2, SMT, SMTT(20)
<1> QED
  BY <1>5, <1>7, <1>8 DEF a, z

\* What a query begins with.
LEMMA QueryBegins ==
  ASSUME TypeOK, QInv, NEW from \in Times, NEW to \in Times, Query(from, to)
  PROVE  QInv'
<1> DEFINE W == Wanted(from, to)
<1>1. /\ scan'.from = from /\ scan'.to = to /\ scan'.todo = Cells /\ scan'.sum = Zero
      /\ scan'.next = (IF to < from THEN 1 ELSE FirstIndex(from))
      /\ scan'.last = (IF to < from THEN 0 ELSE LastIndex(to))
      /\ low' = [c \in Cells |-> Between(c, from, to)]
      /\ stored' = stored /\ clash' = clash /\ outside' = outside
  BY DEF Query, hist
<1>2. ASSUME ~EndsBeforeStart(from, to)
      PROVE  /\ \A s \in Seconds : s - Start \in scan'.next..scan'.last => s \in W
             /\ \A s \in W : s - Start > scan'.last => s - Start \notin Buckets
             /\ \A s \in W : scan'.next <= s - Start
  <2>1. from \in Nat /\ to \in Nat /\ Start * Ms \in Nat
    BY SMT, SMTT(20) DEF Times
  <2>2. CASE from <= to
    <3>1. scan'.next = FirstIndex(from) /\ scan'.last = LastIndex(to)
      BY <1>1, <2>1, <2>2, SMT, SMTT(20)
    <3>2. Start * Ms <= to
      BY <1>2, <2>1, <2>2, SMT, SMTT(20) DEF EndsBeforeStart
    <3> QED
      BY <3>1, <3>2, QueryRange, Zenon
  <2>3. CASE to < from
    <3>1. scan'.next = 1 /\ scan'.last = 0
      BY <1>1, <2>3
    <3>2. W = {}
      <4>1. \A s \in Seconds : s * Ms \in Nat
        BY SecondsSmall, SMT, SMTT(20)
      <4> QED
        BY <2>1, <2>3, <4>1, SMT, SMTT(20) DEF Wanted
    <3> QED
      BY <3>1, <3>2, SMT, SMTT(20)
  <2> QED
    BY <2>1, <2>2, <2>3, SMT, SMTT(20)
<1>3. W = Wanted(scan'.from, scan'.to)
  BY <1>1, Zenon
<1>4. ASSUME ~EndsBeforeStart(from, to)
      PROVE  \A c \in Cells : Left(scan', c) = W
  <2>1. \A s \in W : s - Start \in Nat
    BY SecondsSmall DEF Wanted
  <2>2. scan'.next \in Nat
    BY QueryType
  <2> HIDE DEF W
  <2> QED
    BY <1>1, <1>2, <1>3, <1>4, <2>1, <2>2, SMT, SMTT(20) DEF Left
<1>5. \A c \in Cells : stored[c] \in [Seconds -> Nat]
  BY Zenon DEF TypeOK
<1>6. \A c \in Cells : Terms(stored[c], W)
  BY <1>5, WantedTerms
<1>7. \A c \in Cells : low'[c] = Sum(stored[c], W) /\ low'[c] \in Nat
  <2>1. \A c \in Cells : Between(c, from, to) = Sum(stored[c], W)
    BY Zenon DEF Between, Sum, Wanted
  <2> HIDE DEF W
  <2> QED
    BY <1>1, <1>6, <2>1, SumPick, Zenon
<1> HIDE DEF W
<1>8. low' \in [Cells -> Nat]
  BY <1>1, <1>7
<1>9. ASSUME ~EndsBeforeStart(from, to)
      PROVE  InRange(scan')
  BY <1>2, <1>3, <1>9, Zenon DEF InRange
<1>10. ASSUME ~EndsBeforeStart(from, to), NEW c \in Cells
       PROVE  Bounds(low'[c], scan'.sum[c], stored[c], W, Left(scan', c))
  <2>1. scan'.sum[c] = 0
    BY <1>1, Zenon DEF Zero
  <2>2. Bounds(Sum(stored[c], W), 0, stored[c], W, W)
    BY <1>6, BoundsFacts, Zenon
  <2> QED
    BY <1>4, <1>7, <1>10, <2>1, <2>2, Zenon
<1> QED
  BY <1>1, <1>3, <1>8, <1>9, <1>10, Zenon DEF QInv

\* One step of query's loop.
LEMMA ScanGoesOn ==
  ASSUME IInv, QInv, NEW d \in Cells, ScanCell(d)
  PROVE  QInv'
<1> DEFINE W == Wanted(scan.from, scan.to)
           x == Start + scan.next
<1>1. /\ scan \in [on : BOOLEAN, from : Times, to : Times, next : Nat, last : Nat,
                   todo : SUBSET Cells, sum : [Cells -> Nat]]
      /\ bucket \in [Cells -> [Buckets -> Nat]] /\ stored \in [Cells -> [Seconds -> Nat]]
      /\ scan.on /\ scan.next <= scan.last /\ d \in scan.todo /\ scan.last < Capacity
      /\ UNCHANGED <<bucket, stored, clash, outside, low>>
  BY DEF IInv, TypeOK, ScanInv, ScanCell, hist
<1>2. /\ scan'.from = scan.from /\ scan'.to = scan.to /\ scan'.last = scan.last
      /\ scan'.sum = [scan.sum EXCEPT ![d] = @ + bucket[d][scan.next]]
      /\ \/ scan.todo = {d} /\ scan'.todo = Cells /\ scan'.next = scan.next + 1
         \/ scan.todo # {d} /\ scan'.todo = scan.todo \ {d} /\ scan'.next = scan.next
  BY <1>1 DEF ScanCell
<1>3. \A s \in Seconds : s \in Nat /\ s - Start \in Nat
  BY SecondsSmall
<1>4. \A s \in W : s \in Seconds
  BY DEF Wanted
<1>5. scan.next \in Nat /\ scan.last \in Nat /\ Start \in Nat /\ scan.next \in Buckets
  BY <1>1, SMT, SMTT(20) DEF Buckets
<1>6. W = Wanted(scan'.from, scan'.to)
  BY <1>2, Zenon
<1> HIDE DEF W
<1> DEFINE proper == ~EndsBeforeStart(scan.from, scan.to)
<1>7. ASSUME proper
      PROVE  InRange(scan')
  <2>1. InRange(scan)
    BY <1>1, <1>7, Zenon DEF QInv
  <2>2. \A s \in Seconds : s - Start \in scan'.next..scan'.last => s - Start \in scan.next..scan.last
    BY <1>2, <1>3, <1>5, SMT, SMTT(20)
  <2> QED
    BY <1>2, <2>1, <2>2 DEF InRange
<1>8. ASSUME NEW c \in Cells, c # d
      PROVE  Left(scan', c) = Left(scan, c)
  <2>1. \A s \in W : (scan'.next < s - Start \/ (s - Start = scan'.next /\ c \in scan'.todo))
                       <=> (scan.next < s - Start \/ (s - Start = scan.next /\ c \in scan.todo))
    BY <1>2, <1>3, <1>4, <1>5, <1>8, SMT, SMTT(20)
  <2> QED
    BY <1>6, <2>1, Zenon DEF Left, W
<1>9. Left(scan', d) = Left(scan, d) \ {x}
  <2>1. ASSUME NEW s \in W
        PROVE  /\ s # x <=> s - Start # scan.next
               /\ (scan'.next < s - Start \/ (s - Start = scan'.next /\ d \in scan'.todo))
                    <=> scan.next < s - Start
    <3>1. s \in Nat /\ s - Start \in Nat
      BY <1>3, <1>4
    <3> QED
      BY <1>2, <1>5, <3>1, SMT, SMTT(20)
  <2>2. \A s \in W : scan.next < s - Start => s - Start # scan.next
    BY <1>3, <1>4, <1>5, SMT, SMTT(20)
  <2> HIDE DEF x
  <2> QED
    BY <1>1, <1>6, <2>1, <2>2, Zenon DEF Left, W
<1>10. ASSUME proper
       PROVE  x \in Seconds => x \in Left(scan, d)
  <2>1. ASSUME x \in Seconds
        PROVE  x \in W /\ x - Start = scan.next
    <3>1. x - Start = scan.next /\ scan.next \in scan.next..scan.last
      BY <1>1, <1>5, SMT, SMTT(20)
    <3> QED
      BY <1>1, <1>10, <2>1, <3>1, Zenon DEF QInv, InRange, W
  <2> QED
    BY <1>1, <2>1, Zenon DEF Left, W
<1>11. ASSUME ~clash, ~outside
       PROVE  bucket[d][scan.next] = IF x \in Seconds THEN stored[d][x] ELSE 0
  BY <1>5, <1>11, Zenon DEF IInv, ExactInv, Due
<1>12. \A c \in Cells : Left(scan, c) \in SUBSET W /\ scan.sum[c] \in Nat /\ low[c] \in Nat
  BY <1>1, Zenon DEF Left, W, QInv
<1>13. \A c \in Cells : Terms(stored[c], W)
  BY <1>1, WantedTerms, Zenon DEF W
<1> HIDE DEF x
<1>14. ASSUME proper, ~clash, ~outside, NEW c \in Cells
       PROVE  Bounds(low[c], scan'.sum[c], stored[c], W, Left(scan', c))
  <2>1. Bounds(low[c], scan.sum[c], stored[c], W, Left(scan, c))
    BY <1>1, <1>14, Zenon DEF QInv, W
  <2>2. CASE c # d
    <3>1. scan'.sum[c] = scan.sum[c]
      BY <1>1, <1>2, <2>2, Zenon
    <3> QED
      BY <1>8, <2>1, <2>2, <3>1, Zenon
  <2>3. CASE c = d /\ x \in Seconds
    <3>1. scan'.sum[c] = scan.sum[c] + stored[c][x]
      BY <1>1, <1>2, <1>11, <1>14, <2>3, SMT, SMTT(20)
    <3>2. x \in Left(scan, c) /\ Left(scan', c) = Left(scan, c) \ {x}
      BY <1>9, <1>10, <1>14, <2>3
    <3>3. Bounds(low[c], scan.sum[c] + stored[c][x], stored[c], W, Left(scan, c) \ {x})
      BY <1>12, <1>13, <2>1, <3>2, BoundsRead, Zenon
    <3> QED
      BY <3>1, <3>2, <3>3, Zenon
  <2>4. CASE c = d /\ x \notin Seconds
    <3>1. scan'.sum[c] = scan.sum[c] + 0
      BY <1>1, <1>2, <1>11, <1>14, <2>4, Zenon
    <3>2. scan'.sum[c] = scan.sum[c]
      BY <1>12, <3>1, SMT, SMTT(20)
    <3>3. Left(scan', c) = Left(scan, c)
      BY <1>4, <1>9, <1>12, <2>4, Zenon
    <3> QED
      BY <2>1, <3>2, <3>3, Zenon
  <2> QED
    BY <2>2, <2>3, <2>4, Zenon
<1> QED
  BY <1>1, <1>2, <1>6, <1>7, <1>14, Zenon DEF QInv

\* Payments are stored, or nothing is: a query under way stays within bounds.
LEMMA StoreKeepsQuery ==
  ASSUME TypeOK, TypeOK', QInv, UNCHANGED query, clash => clash', outside => outside',
         \A c \in Cells, s \in Seconds : stored[c][s] <= stored'[c][s],
         ~outside' => \A c \in Cells, s \in Seconds :
                        s - Start \notin Buckets => stored'[c][s] = stored[c][s]
  PROVE  QInv'
<1> DEFINE W == Wanted(scan.from, scan.to)
<1>1. scan' = scan /\ low' = low
  BY Zenon DEF query
<1>2. /\ scan.sum \in [Cells -> Nat] /\ low \in [Cells -> Nat]
      /\ \A c \in Cells : stored[c] \in [Seconds -> Nat] /\ stored'[c] \in [Seconds -> Nat]
  BY Zenon DEF TypeOK, QInv
<1>3. ASSUME scan.on, ~EndsBeforeStart(scan.from, scan.to), ~clash, ~outside, NEW c \in Cells
      PROVE  Bounds(low[c], scan.sum[c], stored'[c], W, Left(scan, c))
  <2>1. Bounds(low[c], scan.sum[c], stored[c], W, Left(scan, c))
    BY <1>3, Zenon DEF QInv
  <2>2. Terms(stored[c], W) /\ Terms(stored'[c], W)
    BY <1>2, WantedTerms, Zenon
  <2>3. Left(scan, c) \in SUBSET W /\ \A s \in W : stored[c][s] <= stored'[c][s]
    BY Zenon DEF Left, Wanted
  <2>4. low[c] \in Nat /\ scan.sum[c] \in Nat
    BY <1>2, Zenon
  <2> HIDE DEF W
  <2> QED
    BY <2>1, <2>2, <2>3, <2>4, BoundsFacts, Zenon
<1>4. ~outside' => \A c \in Cells, s \in Seconds : s - Start \notin Buckets => stored'[c][s] = 0
  BY Zenon DEF QInv
<1> QED
  BY <1>1, <1>3, <1>4, Zenon DEF QInv

\* Every step keeps QInv.
LEMMA QueryStep == IInv /\ QInv /\ [Next]_vars => QInv'
  <1> SUFFICES ASSUME IInv, QInv, [Next]_vars PROVE QInv'
    OBVIOUS
  <1>1. TypeOK /\ TypeOK'
    BY InvStep, Zenon DEF IInv
  <1>2. \A c \in Cells, s \in Seconds : stored[c][s] \in Nat
    BY <1>1, SMT, SMTT(20) DEF TypeOK
  <1>3. ASSUME UNCHANGED <<query, stored, outside>>, clash => clash' PROVE QInv'
    BY <1>1, <1>2, <1>3, StoreKeepsQuery, SMT, SMTT(20)
  <1>4. ASSUME NEW t \in Writers, Write(t) PROVE QInv'
    <2>1. /\ pc[t] = "write" /\ UNCHANGED <<query, clash, outside>>
          /\ stored' = [stored EXCEPT ![cell[t]][ts[t]] = @ + 1]
      BY <1>4 DEF Write, hist
    <2>2. ts[t] - Start \in Buckets
      BY <2>1, Zenon DEF IInv, WriterInv
    <2>3. stored \in [Cells -> [Seconds -> Nat]]
      BY <1>1, Zenon DEF TypeOK
    <2>4. \A c \in Cells, s \in Seconds :
            stored'[c][s] = IF c = cell[t] /\ s = ts[t] THEN stored[c][s] + 1 ELSE stored[c][s]
      BY <2>1, <2>3, Zenon
    <2>5. \A c \in Cells, s \in Seconds :
            /\ stored[c][s] <= stored'[c][s]
            /\ s - Start \notin Buckets => stored'[c][s] = stored[c][s]
      BY <1>2, <2>2, <2>4, SMT, SMTT(20)
    <2> QED
      BY <1>1, <2>1, <2>5, StoreKeepsQuery, Zenon
  <1>5. CASE Answer
    <2>1. ~scan'.on /\ low' = Zero /\ stored' = stored /\ outside' = outside
      BY <1>5, Zenon DEF Answer, NoScan, hist
    <2>2. low' \in [Cells -> Nat]
      BY <2>1 DEF Zero
    <2> QED
      BY <2>1, <2>2, Zenon DEF QInv
  <1>6. ASSUME NEW t \in Writers,
               \/ CreatePayload(t) \/ Refused(t) \/ Load(t)
               \/ \E q \in Processors : StoreProcessed(t, q)
        PROVE  QInv'
    <2>1. UNCHANGED <<query, stored, outside>>
      BY <1>6, Zenon DEF CreatePayload, Refused, Load, StoreProcessed, hist
    <2>2. ASSUME Load(t), clash PROVE clash'
      BY <2>2, Zenon DEF Load
    <2>3. clash => clash'
      BY <1>6, <2>2, Zenon DEF CreatePayload, Refused, StoreProcessed, hist
    <2> QED
      BY <1>3, <2>1, <2>3, Zenon
  <1>7. CASE Tick \/ UNCHANGED vars
    BY <1>3, <1>7, SMT, SMTT(20) DEF Tick, vars, hist
  <1>8. ASSUME NEW t \in Writers, NEW q \in Processors, StoreOutside(t, q) PROVE QInv'
    <2>1. /\ UNCHANGED <<query, clash>> /\ outside' = TRUE
          /\ stored' = AddAt(stored, Booked(q), ts[t])
      BY <1>8, Zenon DEF StoreOutside
    <2>2. stored \in [Cells -> [Seconds -> Nat]] /\ ts[t] \in Seconds
      BY <1>1, Zenon DEF TypeOK
    <2>3. \A c \in Cells, s \in Seconds : stored[c][s] <= stored'[c][s]
      BY <2>1, <2>2, AddAtType, Zenon
    <2> QED
      BY <1>1, <2>1, <2>3, StoreKeepsQuery, Zenon
  <1> QED
    BY <1>1, <1>4, <1>5, <1>6, <1>7, <1>8, QueryBegins, ScanGoesOn DEF Next

\* A query that runs while payments are stored answers, for every total, no less
\* than what was stored in its interval when it began and no more than what is
\* stored when it ends, although query locks nothing and reads bucket by bucket:
\* until additions overlap or leave the vector, and for every interval but one
\* that ends before the service started.
THEOREM QueriesAnswer == Spec => []QueryAnswers
  <1>1. Init => IInv /\ QInv
    <2>1. Init => QInv
      BY SMT, SMTT(20) DEF Init, QInv, NoScan, Zero
    <2> QED
      BY <2>1, InitInv, Zenon
  <1>2. (IInv /\ QInv) /\ [Next]_vars => (IInv /\ QInv)'
    BY InvStep, QueryStep, Zenon
  <1>3. IInv /\ QInv => QueryAnswers
    <2> SUFFICES ASSUME IInv, QInv, ~outside, ~EndsBeforeStart(scan.from, scan.to),
                        Answered, ~clash, NEW c \in Cells
                 PROVE  low[c] <= scan.sum[c] /\ scan.sum[c] <= Between(c, scan.from, scan.to)
      BY DEF QueryAnswers, SummaryBetween
    <2> DEFINE W == Wanted(scan.from, scan.to)
               L == Left(scan, c)
    <2>1. Between(c, scan.from, scan.to) = Sum(stored[c], W)
      BY Zenon DEF Between, Sum, Wanted
    <2>2. /\ scan.on /\ scan.next > scan.last /\ scan.next \in Nat /\ scan.last \in Nat
          /\ low[c] \in Nat /\ scan.sum[c] \in Nat /\ stored[c] \in [Seconds -> Nat]
      BY Zenon DEF Answered, IInv, TypeOK, QInv
    <2>3. Terms(stored[c], W)
      BY <2>2, WantedTerms
    <2>4. Bounds(low[c], scan.sum[c], stored[c], W, L) /\ L \in SUBSET W
      BY <2>2, Zenon DEF QInv, Left
    <2>5. ASSUME NEW s \in L
          PROVE  stored[c][s] = 0
      <3>1. s \in W /\ s \in Seconds /\ scan.next <= s - Start /\ s - Start \in Nat
        <4>1. s \in W /\ s \in Seconds /\ (scan.next < s - Start \/ s - Start = scan.next)
          BY Zenon DEF Left, Wanted
        <4> QED
          BY <2>2, <4>1, SecondsSmall, SMT, SMTT(20)
      <3>2. s - Start > scan.last
        BY <2>2, <3>1, SMT, SMTT(20)
      <3>3. s - Start \notin Buckets
        BY <2>2, <3>1, <3>2, Zenon DEF QInv, InRange
      <3> QED
        BY <3>1, <3>3, Zenon DEF QInv
    <2> HIDE DEF W, L
    <2>6. low[c] <= scan.sum[c] /\ scan.sum[c] <= Sum(stored[c], W)
      BY <2>2, <2>3, <2>4, <2>5, BoundsFacts
    <2> QED
      BY <2>1, <2>6
  <1> QED
    BY <1>1, <1>2, <1>3, PTL DEF Spec
==============================================================================
