----------------------------- MODULE NumberFacts -----------------------------
(***************************************************************************)
(* Facts about numbers that the proofs cite: a set of natural numbers has  *)
(* a least element, and a set that contains 0 and every successor contains *)
(* them all; the same for the subsets of a finite set; and what the sum of *)
(* a function over a finite set, written with MapThenSumSet, comes to.     *)
(***************************************************************************)
EXTENDS Integers, FiniteSets, FiniteSetsExt, FiniteSetTheorems, WellFoundedInduction, TLAPS

\* Every non-empty set of natural numbers has a least element: among the intervals
\* that start at 0 and end in the set there is one that contains no other.
LEMMA LeastNumber ==
    ASSUME NEW T \in SUBSET Nat, T # {}
    PROVE  \E m \in T : \A k \in T : m <= k
<1> DEFINE F == {0 .. n : n \in T}
<1>1. F \subseteq FiniteSubsetsOf(Nat) /\ F # {}
  <2>1. ASSUME NEW n \in T PROVE 0 .. n \in FiniteSubsetsOf(Nat)
    <3>1. IsFiniteSet(0 .. n)
      BY FS_Interval
    <3> QED
      BY <3>1 DEF FiniteSubsetsOf
  <2> QED
    BY <2>1
<1>2. PICK x \in F : \A y \in F : <<y, x>> \notin StrictSubsetOrdering(Nat)
  BY <1>1, FS_StrictSubsetOrderingWellFounded, WFMin
<1>3. PICK m \in T : x = 0 .. m
  OBVIOUS
<1>4. ASSUME NEW k \in T, k < m PROVE FALSE
  <2>1. 0 .. k \in F /\ 0 .. k \subseteq 0 .. m /\ 0 .. k # 0 .. m
    BY <1>4
  <2>2. <<0 .. k, 0 .. m>> \in StrictSubsetOrdering(Nat)
    BY <2>1 DEF StrictSubsetOrdering
  <2> QED
    BY <2>1, <2>2, <1>2, <1>3
<1> QED
  BY <1>4

\* Induction over the natural numbers, for a set instead of a predicate.
LEMMA SetInduction ==
    ASSUME NEW S, 0 \in S, \A n \in Nat : n \in S => n + 1 \in S
    PROVE  Nat \subseteq S
<1> SUFFICES ASSUME Nat \ S # {} PROVE FALSE
  OBVIOUS
<1>1. PICK m \in Nat \ S : \A k \in Nat \ S : m <= k
  BY LeastNumber
<1>2. m # 0 /\ m - 1 \in Nat
  OBVIOUS
<1>3. m - 1 \in S
  BY <1>1, <1>2
<1> QED
  BY <1>2, <1>3

\* Every non-empty family of subsets of a finite set has a member without a smaller one.
LEMMA LeastSubset ==
    ASSUME NEW S, IsFiniteSet(S), NEW T \in SUBSET SUBSET S, T # {}
    PROVE  \E m \in T : \A k \in T : ~(k \subseteq m /\ k # m)
<1>1. IsWellFoundedOn(StrictSubsetOrdering(S), SUBSET S)
  BY FS_StrictSubsetOrderingWellFounded, FS_FiniteSubsetsOfFinite
<1>2. PICK m \in T : \A k \in T : <<k, m>> \notin StrictSubsetOrdering(S)
  BY <1>1, WFMin
<1>3. ASSUME NEW k \in T, k \subseteq m, k # m PROVE FALSE
  <2>1. <<k, m>> \in StrictSubsetOrdering(S)
    BY <1>3 DEF StrictSubsetOrdering
  <2> QED
    BY <2>1, <1>2
<1> QED
  BY <1>3

\* Induction over the subsets of a finite set, for a family instead of a predicate.
LEMMA SubsetInduction ==
    ASSUME NEW S, IsFiniteSet(S), NEW P, {} \in P,
           \A T \in SUBSET S : \A x \in S \ T : T \in P => T \cup {x} \in P
    PROVE  S \in P
<1> SUFFICES ASSUME (SUBSET S) \ P # {} PROVE FALSE
  OBVIOUS
<1> DEFINE F == (SUBSET S) \ P
<1>0. F \in SUBSET SUBSET S /\ F # {}
  OBVIOUS
<1> HIDE DEF F
<1>1. PICK m \in F : \A k \in F : ~(k \subseteq m /\ k # m)
  BY <1>0, LeastSubset
<1> USE DEF F
<1>2. PICK x \in m : TRUE
  OBVIOUS
<1>3. m \ {x} \in P /\ x \in S \ (m \ {x}) /\ (m \ {x}) \cup {x} = m
  BY <1>1, <1>2
<1> QED
  BY <1>1, <1>3

-----------------------------------------------------------------------------
(* The sum of a function over a finite set.                                *)

Total(f, S) == MapThenSumSet(LAMBDA x : f[x], S)

First(S) == CHOOSE x \in S : TRUE

\* The function that MapThenSumSet is the value of.
Adds(g, f, S) ==
    g = [s \in SUBSET S |-> IF s = {} THEN 0 ELSE f[First(s)] + g[s \ {First(s)}]]

LEMMA TotalIsAdded ==
    ASSUME NEW f, NEW S
    PROVE  Total(f, S) = (CHOOSE g : Adds(g, f, S))[S]
<1> QED
  BY DEF Total, MapThenSumSet, MapThenFoldSet, Adds, First

LEMMA FirstIn == ASSUME NEW S, S # {} PROVE First(S) \in S
<1> QED
  BY DEF First

LEMMA AddsUnique ==
    ASSUME NEW f, NEW S, IsFiniteSet(S), NEW g, NEW h, Adds(g, f, S), Adds(h, f, S)
    PROVE  g = h
<1> SUFFICES ASSUME {s \in SUBSET S : g[s] # h[s]} # {} PROVE FALSE
  BY DEF Adds
<1> DEFINE T == {s \in SUBSET S : g[s] # h[s]}
<1>1. T \in SUBSET SUBSET S /\ T # {}
  OBVIOUS
<1> HIDE DEF T
<1>2. PICK m \in T : \A k \in T : ~(k \subseteq m /\ k # m)
  BY <1>1, LeastSubset
<1>3. m \in SUBSET S /\ g[m] # h[m]
  BY DEF T
<1>4. m # {}
  BY <1>3 DEF Adds
<1>5. First(m) \in m
  BY <1>4, FirstIn
<1>6. g[m \ {First(m)}] = h[m \ {First(m)}]
  BY <1>2, <1>3, <1>5 DEF T
<1> QED
  BY <1>3, <1>4, <1>6 DEF Adds

LEMMA AddsRestrict ==
    ASSUME NEW f, NEW S, NEW g, Adds(g, f, S), NEW U \in SUBSET S
    PROVE  Adds([s \in SUBSET U |-> g[s]], f, U)
<1> DEFINE h == [s \in SUBSET U |-> g[s]]
<1>1. ASSUME NEW s \in SUBSET U
      PROVE  h[s] = IF s = {} THEN 0 ELSE f[First(s)] + h[s \ {First(s)}]
  <2>1. s \in SUBSET S /\ s \ {First(s)} \in SUBSET U
    OBVIOUS
  <2> QED
    BY <2>1 DEF Adds
<1> QED
  BY <1>1 DEF Adds

LEMMA AddsExists ==
    ASSUME NEW f, NEW S, IsFiniteSet(S)
    PROVE  \E g : Adds(g, f, S)
<1> SUFFICES ASSUME {U \in SUBSET S : ~\E g : Adds(g, f, U)} # {} PROVE FALSE
  OBVIOUS
<1> DEFINE T == {U \in SUBSET S : ~\E g : Adds(g, f, U)}
<1>1. T \in SUBSET SUBSET S /\ T # {}
  OBVIOUS
<1> HIDE DEF T
<1>2. PICK m \in T : \A k \in T : ~(k \subseteq m /\ k # m)
  BY <1>1, LeastSubset
<1>3. m \in SUBSET S /\ ~\E g : Adds(g, f, m)
  BY DEF T
<1> DEFINE sum(U) == CHOOSE g : Adds(g, f, U)
           value(U) == sum(U)[U]
           G == [U \in SUBSET m |->
                   IF U = m THEN IF m = {} THEN 0 ELSE f[First(m)] + value(m \ {First(m)})
                   ELSE value(U)]
<1>4. ASSUME NEW U \in SUBSET m, U # m PROVE Adds(sum(U), f, U)
  <2>1. U \notin T /\ U \in SUBSET S
    BY <1>2, <1>3, <1>4
  <2>2. \E g : Adds(g, f, U)
    BY <2>1 DEF T
  <2> QED
    BY <2>2
<1>5. ASSUME NEW U \in SUBSET m, U # m, U # {}
      PROVE  value(U) = f[First(U)] + value(U \ {First(U)})
  <2> DEFINE V == U \ {First(U)}
             h == [s \in SUBSET V |-> sum(U)[s]]
  <2>1. V \in SUBSET m /\ V # m /\ V \in SUBSET U /\ IsFiniteSet(V)
    <3>1. V \in SUBSET S
      BY <1>3
    <3> QED
      BY <1>5, <3>1, FS_Subset
  <2>2. Adds(sum(U), f, U) /\ Adds(sum(V), f, V)
    BY <1>4, <1>5, <2>1
  <2> HIDE DEF sum, V
  <2>3. Adds(h, f, V)
    BY <2>1, <2>2, AddsRestrict
  <2>4. h = sum(V)
    BY <2>1, <2>2, <2>3, AddsUnique
  <2>5. sum(U)[V] = sum(V)[V]
    BY <2>4
  <2>6. sum(U)[U] = f[First(U)] + sum(U)[V]
    <3>1. U \in SUBSET U
      OBVIOUS
    <3> QED
      BY <1>5, <2>2, <3>1 DEF Adds, V
  <2> QED
    BY <2>5, <2>6 DEF V
<1>6. ASSUME NEW U \in SUBSET m, U # m, U = {} PROVE value(U) = 0
  <2>1. Adds(sum(U), f, U) /\ U \in SUBSET U
    BY <1>4, <1>6
  <2> HIDE DEF sum
  <2> QED
    BY <1>6, <2>1 DEF Adds
<1>7. ASSUME NEW U \in SUBSET m
      PROVE  G[U] = IF U = {} THEN 0 ELSE f[First(U)] + G[U \ {First(U)}]
  <2>1. CASE U = {}
    <3> HIDE DEF value
    <3> QED
      BY <2>1, <1>6
  <2>2. CASE U # {}
    <3>1. U \ {First(U)} \in SUBSET m /\ U \ {First(U)} # m
      BY <2>2, FirstIn
    <3>2. G[U \ {First(U)}] = value(U \ {First(U)})
      <4> HIDE DEF value
      <4> QED
        BY <3>1
    <3> HIDE DEF value
    <3>3. G[U] = f[First(U)] + value(U \ {First(U)})
      BY <2>2, <1>5
    <3> QED
      BY <2>2, <3>2, <3>3
  <2> QED
    BY <2>1, <2>2
<1>8. Adds(G, f, m)
  <2>1. G = [U \in SUBSET m |-> G[U]]
    OBVIOUS
  <2> HIDE DEF G
  <2> QED
    BY <1>7, <2>1 DEF Adds
<1> QED
  BY <1>3, <1>8

\* The empty sum, and a sum that takes the first element apart.
LEMMA TotalFirst ==
    ASSUME NEW f, NEW S, IsFiniteSet(S)
    PROVE  /\ S = {} => Total(f, S) = 0
           /\ S # {} => Total(f, S) = f[First(S)] + Total(f, S \ {First(S)})
<1> DEFINE R == S \ {First(S)}
           g == CHOOSE h : Adds(h, f, S)
           k == CHOOSE h : Adds(h, f, R)
<1>1. IsFiniteSet(R)
  BY FS_Subset
<1>2. Adds(g, f, S) /\ Adds(k, f, R)
  <2> HIDE DEF R
  <2> QED
    BY <1>1, AddsExists
<1>3. Total(f, S) = g[S] /\ Total(f, R) = k[R]
  BY TotalIsAdded
<1> HIDE DEF g, k
<1>4. k = [s \in SUBSET R |-> g[s]]
  <2>1. R \in SUBSET S
    OBVIOUS
  <2> HIDE DEF R
  <2>2. Adds([s \in SUBSET R |-> g[s]], f, R)
    BY <1>2, <2>1, AddsRestrict
  <2> QED
    BY <1>1, <1>2, <2>2, AddsUnique
<1>5. S \in SUBSET S /\ R \in SUBSET R
  OBVIOUS
<1>6. k[R] = g[R]
  BY <1>4, <1>5
<1> QED
  BY <1>2, <1>3, <1>5, <1>6 DEF Adds

LEMMA TotalEmpty == ASSUME NEW f PROVE Total(f, {}) = 0
<1> QED
  BY TotalFirst, FS_EmptySet

LEMMA TotalType ==
    ASSUME NEW S, IsFiniteSet(S), NEW f, \A x \in S : f[x] \in Nat
    PROVE  Total(f, S) \in Nat
<1> DEFINE F == {T \in SUBSET S : Total(f, T) \notin Nat}
<1> SUFFICES ASSUME F # {} PROVE FALSE
  BY DEF F
<1>1. F \in SUBSET SUBSET S
  OBVIOUS
<1> HIDE DEF F
<1>2. PICK m \in F : \A k \in F : ~(k \subseteq m /\ k # m)
  BY <1>1, LeastSubset
<1>3. m \in SUBSET S /\ Total(f, m) \notin Nat /\ IsFiniteSet(m)
  BY FS_Subset DEF F
<1>4. m # {}
  BY <1>3, TotalEmpty
<1>5. First(m) \in m /\ Total(f, m) = f[First(m)] + Total(f, m \ {First(m)})
  BY <1>3, <1>4, TotalFirst, FirstIn
<1>6. Total(f, m \ {First(m)}) \in Nat
  BY <1>2, <1>3, <1>5 DEF F
<1> QED
  BY <1>3, <1>5, <1>6

\* Any element may be taken apart.
LEMMA TotalRemove ==
    ASSUME NEW S, IsFiniteSet(S), NEW f, \A x \in S : f[x] \in Nat, NEW x \in S
    PROVE  Total(f, S) = f[x] + Total(f, S \ {x})
<1> DEFINE F == {T \in SUBSET S : \E y \in T : Total(f, T) # f[y] + Total(f, T \ {y})}
<1> SUFFICES ASSUME F # {} PROVE FALSE
  BY DEF F
<1>1. F \in SUBSET SUBSET S
  OBVIOUS
<1> HIDE DEF F
<1>2. PICK m \in F : \A k \in F : ~(k \subseteq m /\ k # m)
  BY <1>1, LeastSubset
<1>3. m \in SUBSET S /\ IsFiniteSet(m)
  BY FS_Subset DEF F
<1>4. PICK y \in m : Total(f, m) # f[y] + Total(f, m \ {y})
  BY DEF F
<1> DEFINE z == First(m)
<1>5. z \in m /\ Total(f, m) = f[z] + Total(f, m \ {z})
  BY <1>3, <1>4, TotalFirst, FirstIn
<1> HIDE DEF z
<1>6. z # y
  BY <1>4, <1>5
<1>7. Total(f, m \ {z}) = f[y] + Total(f, (m \ {z}) \ {y})
  <2>1. m \ {z} \notin F /\ y \in m \ {z} /\ m \ {z} \in SUBSET S
    BY <1>2, <1>3, <1>5, <1>6
  <2> QED
    BY <2>1 DEF F
<1>8. Total(f, m \ {y}) = f[z] + Total(f, (m \ {y}) \ {z})
  <2>1. m \ {y} \notin F /\ z \in m \ {y} /\ m \ {y} \in SUBSET S
    BY <1>2, <1>3, <1>4, <1>5, <1>6
  <2> QED
    BY <2>1 DEF F
<1>9. (m \ {z}) \ {y} = (m \ {y}) \ {z}
  OBVIOUS
<1>10. f[y] \in Nat /\ f[z] \in Nat /\ Total(f, (m \ {y}) \ {z}) \in Nat
  <2>1. (m \ {y}) \ {z} \in SUBSET S
    BY <1>3
  <2>2. IsFiniteSet((m \ {y}) \ {z})
    BY <2>1, FS_Subset
  <2>3. \A v \in (m \ {y}) \ {z} : f[v] \in Nat
    BY <2>1
  <2> QED
    BY <2>2, <2>3, <1>3, <1>5, TotalType
<1> QED
  BY <1>4, <1>5, <1>7, <1>8, <1>9, <1>10

LEMMA TotalInsert ==
    ASSUME NEW S, IsFiniteSet(S), NEW f, NEW x, x \notin S,
           f[x] \in Nat, \A y \in S : f[y] \in Nat
    PROVE  Total(f, S \cup {x}) = f[x] + Total(f, S)
<1> DEFINE T == S \cup {x}
<1>1. IsFiniteSet(T) /\ x \in T /\ T \ {x} = S /\ \A y \in T : f[y] \in Nat
  BY FS_AddElement
<1> HIDE DEF T
<1>2. Total(f, T) = f[x] + Total(f, T \ {x})
  BY <1>1, TotalRemove
<1> QED
  BY <1>1, <1>2 DEF T

\* A sum of smaller numbers over fewer elements is smaller.
LEMMA TotalMonotone ==
    ASSUME NEW S, IsFiniteSet(S), NEW T \in SUBSET S, NEW f, NEW g,
           \A x \in S : f[x] \in Nat /\ g[x] \in Nat, \A x \in T : f[x] <= g[x]
    PROVE  Total(f, T) <= Total(g, S)
<1> DEFINE P == {U \in SUBSET S : Total(f, T \cap U) <= Total(g, U)}
<1>1. {} \in P
  <2>1. T \cap {} = {}
    OBVIOUS
  <2> QED
    BY <2>1, TotalEmpty
<1>2. ASSUME NEW U \in SUBSET S, NEW x \in S \ U, U \in P PROVE U \cup {x} \in P
  <2>1. IsFiniteSet(U) /\ IsFiniteSet(T \cap U)
    BY FS_Subset
  <2>2. Total(g, U \cup {x}) = g[x] + Total(g, U)
    BY <2>1, TotalInsert
  <2>3. Total(f, T \cap U) \in Nat /\ Total(g, U) \in Nat
    BY <2>1, TotalType
  <2>4. CASE x \in T
    <3>1. T \cap (U \cup {x}) = (T \cap U) \cup {x}
      BY <2>4
    <3>2. Total(f, (T \cap U) \cup {x}) = f[x] + Total(f, T \cap U)
      BY <2>1, TotalInsert
    <3>3. f[x] \in Nat /\ g[x] \in Nat /\ f[x] <= g[x] /\ Total(f, T \cap U) <= Total(g, U)
      BY <1>2, <2>4
    <3>4. Total(f, T \cap (U \cup {x})) = f[x] + Total(f, T \cap U)
      BY <3>1, <3>2, Zenon
    <3> DEFINE a == Total(f, T \cap U)
               b == Total(g, U)
               p == Total(f, T \cap (U \cup {x}))
               q == Total(g, U \cup {x})
    <3>5. a \in Nat /\ b \in Nat /\ a <= b /\ p = f[x] + a /\ q = g[x] + b
      BY <2>2, <2>3, <3>3, <3>4, Zenon
    <3> HIDE DEF a, b, p, q
    <3>6. p <= q
      BY <3>3, <3>5
    <3> QED
      BY <3>6 DEF p, q
  <2>5. CASE x \notin T
    <3>1. T \cap (U \cup {x}) = T \cap U
      BY <2>5
    <3>2. g[x] \in Nat /\ Total(f, T \cap U) <= Total(g, U)
      BY <1>2
    <3> DEFINE a == Total(f, T \cap U)
               b == Total(g, U)
               p == Total(f, T \cap (U \cup {x}))
               q == Total(g, U \cup {x})
    <3>3. a \in Nat /\ b \in Nat /\ a <= b /\ p = a /\ q = g[x] + b
      BY <2>2, <2>3, <3>1, <3>2, Zenon
    <3> HIDE DEF a, b, p, q
    <3>4. p <= q
      BY <3>2, <3>3
    <3> QED
      BY <3>4 DEF p, q
  <2> QED
    BY <2>4, <2>5
<1> HIDE DEF P
<1>3. S \in P
  BY <1>1, <1>2, SubsetInduction
<1>4. T \cap S = T
  OBVIOUS
<1> QED
  BY <1>3, <1>4 DEF P

LEMMA TotalSame ==
    ASSUME NEW S, IsFiniteSet(S), NEW f, NEW g, \A x \in S : f[x] \in Nat /\ f[x] = g[x]
    PROVE  Total(f, S) = Total(g, S)
<1>1. Total(f, S) \in Nat /\ Total(g, S) \in Nat
  BY TotalType
<1>2. Total(f, S) <= Total(g, S) /\ Total(g, S) <= Total(f, S)
  BY TotalMonotone
<1> QED
  BY <1>1, <1>2

LEMMA TotalUnion ==
    ASSUME NEW S, NEW T, IsFiniteSet(S), IsFiniteSet(T), S \cap T = {}, NEW f,
           \A x \in S \cup T : f[x] \in Nat
    PROVE  Total(f, S \cup T) = Total(f, S) + Total(f, T)
<1> DEFINE P == {U \in SUBSET T : Total(f, S \cup U) = Total(f, S) + Total(f, U)}
<1>0. Total(f, S) \in Nat
  BY TotalType
<1>1. {} \in P
  <2>1. S \cup {} = S
    OBVIOUS
  <2> QED
    BY <1>0, <2>1, TotalEmpty
<1>2. ASSUME NEW U \in SUBSET T, NEW x \in T \ U, U \in P PROVE U \cup {x} \in P
  <2>1. IsFiniteSet(U) /\ IsFiniteSet(S \cup U)
    BY FS_Subset, FS_Union
  <2>2. Total(f, U \cup {x}) = f[x] + Total(f, U)
    BY <2>1, TotalInsert
  <2>3. S \cup (U \cup {x}) = (S \cup U) \cup {x} /\ x \notin S \cup U
    OBVIOUS
  <2>4. Total(f, (S \cup U) \cup {x}) = f[x] + Total(f, S \cup U)
    BY <2>1, <2>3, TotalInsert
  <2>5. Total(f, U) \in Nat /\ f[x] \in Nat
    BY <2>1, TotalType
  <2>6. Total(f, S \cup (U \cup {x})) = Total(f, S) + Total(f, U \cup {x})
    <3>1. Total(f, S \cup U) = Total(f, S) + Total(f, U)
      BY <1>2
    <3>2. Total(f, S \cup (U \cup {x})) = f[x] + Total(f, S \cup U)
      BY <2>3, <2>4, Zenon
    <3> DEFINE a == Total(f, S)
               b == Total(f, U)
    <3>3. a \in Nat /\ b \in Nat /\ f[x] \in Nat
      BY <1>0, <2>5
    <3>4. Total(f, S \cup (U \cup {x})) = f[x] + (a + b) /\ Total(f, U \cup {x}) = f[x] + b
      BY <2>2, <3>1, <3>2, Zenon
    <3> HIDE DEF a, b
    <3>5. Total(f, S \cup (U \cup {x})) = a + Total(f, U \cup {x})
      BY <3>3, <3>4
    <3> QED
      BY <3>5 DEF a
  <2> QED
    BY <2>6
<1> HIDE DEF P
<1>3. T \in P
  BY <1>1, <1>2, SubsetInduction
<1> QED
  BY <1>3 DEF P

\* A sum of numbers none of which is above b.
LEMMA TotalBounded ==
    ASSUME NEW S, IsFiniteSet(S), NEW b \in Nat, NEW f, \A x \in S : f[x] \in 0 .. b
    PROVE  Total(f, S) <= Cardinality(S) * b
<1> DEFINE P == {U \in SUBSET S : Total(f, U) <= Cardinality(U) * b}
<1>1. {} \in P
  BY TotalEmpty, FS_EmptySet
<1>2. ASSUME NEW U \in SUBSET S, NEW x \in S \ U, U \in P PROVE U \cup {x} \in P
  <2>1. IsFiniteSet(U)
    BY FS_Subset
  <2>2. Total(f, U \cup {x}) = f[x] + Total(f, U)
    BY <2>1, TotalInsert
  <2>3. Cardinality(U \cup {x}) = Cardinality(U) + 1 /\ Cardinality(U) \in Nat
    BY <2>1, FS_AddElement, FS_CardinalityType
  <2>4. Total(f, U) \in Nat /\ f[x] \in Nat /\ f[x] <= b
    BY <2>1, TotalType
  <2> DEFINE n == Cardinality(U)
  <2>5. (n + 1) * b = n * b + b /\ n * b \in Nat
    BY <2>3
  <2> QED
    BY <1>2, <2>2, <2>3, <2>4, <2>5
<1> HIDE DEF P
<1>3. S \in P
  BY <1>1, <1>2, SubsetInduction
<1> QED
  BY <1>3 DEF P

\* A non-empty set of numbers up to n has a greatest element.
LEMMA GreatestNumber ==
    ASSUME NEW n \in Nat, NEW T \in SUBSET (0 .. n), T # {}
    PROVE  Max(T) \in T
<1> DEFINE D == {n - t : t \in T}
<1>0. \A t \in T : t \in Nat /\ t <= n /\ n - t \in Nat
  OBVIOUS
<1>1. D \in SUBSET Nat /\ D # {}
  BY <1>0
<1>2. PICK d \in D : \A k \in D : d <= k
  BY <1>1, LeastNumber
<1>3. PICK m \in T : d = n - m
  OBVIOUS
<1>4. ASSUME NEW k \in T PROVE m >= k
  <2>1. n - k \in D
    OBVIOUS
  <2>2. n - m <= n - k
    BY <1>2, <1>3, <2>1
  <2>3. k \in Nat /\ m \in Nat
    BY <1>0
  <2> QED
    BY <2>2, <2>3
<1> QED
  BY <1>4 DEF Max

\* A sum whose every number is covered by a sum over a part, the parts being apart.
LEMMA TotalCovered ==
    ASSUME NEW S, IsFiniteSet(S), NEW D, IsFiniteSet(D), NEW f, NEW g, NEW part,
           \A x \in S : part[x] \subseteq D, \A d \in D : g[d] \in Nat,
           \A x, y \in S : x # y => part[x] \cap part[y] = {},
           \A x \in S : f[x] \in Nat /\ f[x] <= Total(g, part[x])
    PROVE  Total(f, S) <= Total(g, UNION {part[x] : x \in S})
<1> DEFINE Parts(U) == UNION {part[x] : x \in U}
           P == {U \in SUBSET S : Total(f, U) <= Total(g, Parts(U))}
<1>1. {} \in P
  <2>1. Parts({}) = {}
    OBVIOUS
  <2> HIDE DEF Parts
  <2> QED
    BY <2>1, TotalEmpty
<1>2. ASSUME NEW U \in SUBSET S, NEW x \in S \ U, U \in P PROVE U \cup {x} \in P
  <2>1. Parts(U \cup {x}) = Parts(U) \cup part[x] /\ Parts(U) \cap part[x] = {}
    OBVIOUS
  <2>2. Parts(U) \in SUBSET D /\ part[x] \in SUBSET D
    OBVIOUS
  <2> HIDE DEF Parts
  <2>3. IsFiniteSet(U) /\ IsFiniteSet(Parts(U)) /\ IsFiniteSet(part[x])
    BY <2>2, FS_Subset
  <2>4. \A d \in Parts(U) \cup part[x] : g[d] \in Nat
    BY <2>2
  <2> DEFINE p == Parts(U)
             q == part[x]
  <2>5. Total(g, p \cup q) = Total(g, p) + Total(g, q)
    <3> HIDE DEF p, q
    <3>1. IsFiniteSet(p) /\ IsFiniteSet(q) /\ p \cap q = {} /\ \A d \in p \cup q : g[d] \in Nat
      BY <2>1, <2>3, <2>4 DEF p, q
    <3> QED
      BY <3>1, TotalUnion
  <2>6. Total(g, p) \in Nat /\ Total(g, q) \in Nat
    BY <2>3, <2>4, TotalType
  <2>7. Total(f, U \cup {x}) = f[x] + Total(f, U) /\ Total(f, U) \in Nat
    BY <2>3, TotalInsert, TotalType
  <2>8. Total(f, U) <= Total(g, p) /\ f[x] \in Nat /\ f[x] <= Total(g, q)
    BY <1>2
  <2>9. Total(g, Parts(U \cup {x})) = Total(g, p \cup q)
    BY <2>1
  <2> DEFINE a == Total(g, p)
             b == Total(g, q)
             c == Total(f, U)
             v == Total(f, U \cup {x})
             w == Total(g, Parts(U \cup {x}))
  <2>10. /\ a \in Nat /\ b \in Nat /\ c \in Nat /\ f[x] \in Nat /\ c <= a /\ f[x] <= b
         /\ v = f[x] + c /\ w = a + b
    BY <2>5, <2>6, <2>7, <2>8, <2>9, Zenon
  <2> HIDE DEF a, b, c, v, w
  <2>11. v <= w
    BY <2>10
  <2> QED
    BY <2>11 DEF v, w
<1> HIDE DEF P
<1>3. S \in P
  BY <1>1, <1>2, SubsetInduction
<1> QED
  BY <1>3 DEF P
=============================================================================
