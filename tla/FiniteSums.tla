----------------------------- MODULE FiniteSums -----------------------------
(***************************************************************************)
(* Sums over finite sets, for the proofs about balances.  MapThenSumSet is *)
(* a recursive function: that there is one, that it does not matter in     *)
(* which order the elements are taken, and what one more element adds.     *)
(*                                                                         *)
(* The proofs go by a minimal counterexample (WFMin), as a set of numbers  *)
(* or of subsets.                                                          *)
(***************************************************************************)
EXTENDS Integers, FiniteSets, FiniteSetTheorems, WellFoundedInduction, TLAPS

\* A set of naturals has a least one.
LEMMA NatMinimum ==
  ASSUME NEW B \in SUBSET Nat, B # {}
  PROVE  \E n \in B : \A m \in B : ~(m < n)
<1>1. \E n \in B : \A m \in B : ~(<<m, n>> \in OpToRel(<, Nat))
  BY NatLessThanWellFounded, WFMin
<1>2. QED BY <1>1 DEF OpToRel

\* So has a set of integers from a point on.
LEMMA SubsetMinimum ==
  ASSUME NEW S, IsFiniteSet(S), NEW B \in SUBSET SUBSET S, B # {}
  PROVE  \E T \in B : \A U \in B : ~(U \subseteq T /\ U # T)
<1>1. B \subseteq FiniteSubsetsOf(S)
  BY FS_Subset DEF FiniteSubsetsOf
<1>2. \E T \in B : \A U \in B : ~(<<U, T>> \in StrictSubsetOrdering(S))
  BY <1>1, FS_StrictSubsetOrderingWellFounded, WFMin
<1>3. QED BY <1>2 DEF StrictSubsetOrdering

\* What holds of the empty set, and of a set with one element more, holds of a set.
LEMMA SetInduction ==
  ASSUME NEW S, IsFiniteSet(S), NEW G \in SUBSET SUBSET S, {} \in G,
         \A T \in G : \A x \in S \ T : T \cup {x} \in G
  PROVE  S \in G
<1> DEFINE B == (SUBSET S) \ G
<1>1. SUFFICES ASSUME S \notin G PROVE FALSE
  OBVIOUS
<1>2. B \in SUBSET SUBSET S /\ B # {}
  BY <1>1
<1>3. PICK T \in B : \A U \in B : ~(U \subseteq T /\ U # T)
  <2> HIDE DEF B
  <2>1. QED BY <1>2, SubsetMinimum
<1>4. PICK x \in T : TRUE
  BY <1>3
<1>5. T \ {x} \in G /\ x \in S \ (T \ {x})
  BY <1>3
<1>6. (T \ {x}) \cup {x} \in G
  BY <1>5
<1>7. (T \ {x}) \cup {x} = T
  OBVIOUS
<1>8. QED BY <1>3, <1>6, <1>7

-----------------------------------------------------------------------------
\* The element that is taken next, and g as the sums of f over the sets of D.
Pick(s) == CHOOSE x \in s : TRUE

Sums(g, f, D) == g = [s \in D |-> IF s = {} THEN 0 ELSE f[Pick(s)] + g[s \ {Pick(s)}]]

\* The element taken from a set is one of it.
LEMMA PickIn == \A s : s # {} => Pick(s) \in s
  BY DEF Pick

\* What the sum over a set is made of.
LEMMA SumsValue ==
  ASSUME NEW g, NEW f, NEW D, Sums(g, f, D), NEW s \in D
  PROVE  g[s] = IF s = {} THEN 0 ELSE f[Pick(s)] + g[s \ {Pick(s)}]
<1> DEFINE body(t) == IF t = {} THEN 0 ELSE f[Pick(t)] + g[t \ {Pick(t)}]
<1>1. g = [t \in D |-> body(t)]
  BY DEF Sums
<1>2. [t \in D |-> body(t)][s] = body(s)
  OBVIOUS
<1>3. QED BY <1>1, <1>2

\* The subsets of S of at most n elements.
Upto(S, n) == {s \in SUBSET S : Cardinality(s) <= n}

\* There is a function that sums over every subset.
LEMMA SumsExist ==
  ASSUME NEW S, IsFiniteSet(S), NEW f
  PROVE  \E g : Sums(g, f, SUBSET S)
<1> DEFINE Bad == {n \in Nat : ~ \E g : Sums(g, f, Upto(S, n))}
<1>0. \A s \in SUBSET S : IsFiniteSet(s) /\ Cardinality(s) \in Nat /\ Cardinality(s) <= Cardinality(S)
  BY FS_Subset, FS_CardinalityType
<1>1. Bad = {}
  <2> SUFFICES ASSUME Bad # {} PROVE FALSE
    OBVIOUS
  <2>1. PICK n \in Bad : \A m \in Bad : ~(m < n)
    BY NatMinimum
  <2>2. n # 0
    <3> DEFINE g == [s \in Upto(S, 0) |-> 0]
    <3>1. \A s \in Upto(S, 0) : s = {}
      BY <1>0, FS_EmptySet DEF Upto
    <3>2. g = [s \in Upto(S, 0) |-> IF s = {} THEN 0 ELSE f[Pick(s)] + g[s \ {Pick(s)}]]
      BY <3>1
    <3>3. Sums(g, f, Upto(S, 0))
      BY <3>2 DEF Sums
    <3>4. QED BY <3>3
  <2>3. n \in Nat /\ n - 1 \in Nat /\ n - 1 < n
    BY <2>2
  <2>4. n - 1 \notin Bad
    BY <2>1, <2>3
  <2>5. PICK h : Sums(h, f, Upto(S, n - 1))
    BY <2>3, <2>4
  <2> DEFINE D == Upto(S, n - 1)
             g == [s \in Upto(S, n) |-> IF s \in D THEN h[s] ELSE f[Pick(s)] + h[s \ {Pick(s)}]]
  <2>6. ASSUME NEW s \in Upto(S, n)
        PROVE  g[s] = IF s = {} THEN 0 ELSE f[Pick(s)] + g[s \ {Pick(s)}]
    <3>1. CASE s = {}
      <4>1. s \in D
        BY <3>1, <2>3, FS_EmptySet DEF Upto
      <4>2. g[s] = h[s]
        BY <4>1
      <4>3. h[s] = 0
        BY <4>1, <3>1, <2>5, SumsValue
      <4>4. QED BY <3>1, <4>2, <4>3
    <3>2. CASE s # {}
      <4> DEFINE r == s \ {Pick(s)}
      <4>1. Pick(s) \in s /\ s \in SUBSET S /\ Cardinality(s) <= n
        BY <3>2, PickIn DEF Upto
      <4>2. r \in SUBSET S /\ Cardinality(r) = Cardinality(s) - 1
        BY <4>1, <1>0, FS_RemoveElement
      <4>3. Cardinality(r) <= n - 1
        BY <4>1, <4>2, <1>0, <2>3
      <4>4. r \in D
        BY <4>2, <4>3 DEF Upto
      <4>5. Cardinality(r) <= n
        BY <4>3, <4>2, <1>0, <2>3
      <4>6. r \in Upto(S, n)
        BY <4>2, <4>5 DEF Upto
      <4>7. g[r] = h[r]
        BY <4>4, <4>6
      <4>8. g[s] = f[Pick(s)] + h[r]
        <5>1. CASE s \in D
          <6>1. h[s] = f[Pick(s)] + h[r]
            BY <5>1, <3>2, <2>5, SumsValue
          <6>2. QED BY <5>1, <6>1
        <5>2. CASE s \notin D
          BY <5>2
        <5>3. QED BY <5>1, <5>2
      <4> HIDE DEF g, r
      <4>9. g[s] = f[Pick(s)] + g[r]
        BY <4>7, <4>8
      <4>10. QED BY <3>2, <4>9 DEF r
    <3>3. QED BY <3>1, <3>2
  <2>7. g = [s \in Upto(S, n) |-> g[s]]
    OBVIOUS
  <2> HIDE DEF g
  <2>8. Sums(g, f, Upto(S, n))
    BY <2>6, <2>7 DEF Sums
  <2>9. QED BY <2>1, <2>8
<1>2. Cardinality(S) \in Nat
  BY FS_CardinalityType
<1>3. Upto(S, Cardinality(S)) = SUBSET S
  BY <1>0 DEF Upto
<1>4. \E g : Sums(g, f, Upto(S, Cardinality(S)))
  BY <1>1, <1>2
<1>5. QED BY <1>3, <1>4

\* Two functions of sums agree where what they sum does.
AgreeOn(f, k, T) == \A x \in T : f[x] = k[x]

\* The sums over two sets agree on the subsets of both.
LEMMA SumsAgree ==
  \A S, T, f, k, g, h :
     IsFiniteSet(S) /\ T \subseteq S /\ AgreeOn(f, k, T) /\ Sums(g, f, SUBSET S) /\ Sums(h, k, SUBSET T)
       => g[T] = h[T]
<1> SUFFICES ASSUME NEW S, NEW T, NEW f, NEW k, NEW g, NEW h,
                    IsFiniteSet(S), T \subseteq S, AgreeOn(f, k, T),
                    Sums(g, f, SUBSET S), Sums(h, k, SUBSET T)
             PROVE  g[T] = h[T]
  OBVIOUS
<1> DEFINE B == {s \in SUBSET T : g[s] # h[s]}
<1>1. SUFFICES ASSUME B # {} PROVE FALSE
  OBVIOUS
<1>2. IsFiniteSet(T)
  BY FS_Subset
<1>3. PICK s \in B : \A u \in B : ~(u \subseteq s /\ u # s)
  <2>1. B \in SUBSET SUBSET T
    OBVIOUS
  <2> HIDE DEF B
  <2>2. QED BY <1>1, <1>2, <2>1, SubsetMinimum
<1>4. s \in SUBSET S /\ s \in SUBSET T /\ g[s] # h[s]
  OBVIOUS
<1>5. /\ g[s] = IF s = {} THEN 0 ELSE f[Pick(s)] + g[s \ {Pick(s)}]
      /\ h[s] = IF s = {} THEN 0 ELSE k[Pick(s)] + h[s \ {Pick(s)}]
  BY <1>4, SumsValue
<1>6. s # {} /\ Pick(s) \in s
  BY <1>4, <1>5, PickIn
<1>7. s \ {Pick(s)} \notin B
  BY <1>3, <1>6
<1>8. g[s \ {Pick(s)}] = h[s \ {Pick(s)}]
  BY <1>4, <1>7
<1>9. f[Pick(s)] = k[Pick(s)]
  BY <1>4, <1>6 DEF AgreeOn
<1>10. QED BY <1>4, <1>5, <1>6, <1>8, <1>9

\* A sum of integers is one.
LEMMA SumsInt ==
  ASSUME NEW S, IsFiniteSet(S), NEW f, \A x \in S : f[x] \in Int,
         NEW g, Sums(g, f, SUBSET S), NEW T \in SUBSET S
  PROVE  g[T] \in Int
<1> DEFINE B == {s \in SUBSET S : g[s] \notin Int}
<1>1. SUFFICES ASSUME B # {} PROVE FALSE
  OBVIOUS
<1>2. PICK s \in B : \A u \in B : ~(u \subseteq s /\ u # s)
  <2>1. B \in SUBSET SUBSET S
    OBVIOUS
  <2> HIDE DEF B
  <2>2. QED BY <1>1, <2>1, SubsetMinimum
<1>3. g[s] = IF s = {} THEN 0 ELSE f[Pick(s)] + g[s \ {Pick(s)}]
  BY SumsValue
<1>4. s # {} /\ Pick(s) \in s
  BY <1>3, PickIn
<1>5. g[s \ {Pick(s)}] \in Int
  BY <1>2, <1>4
<1>6. f[Pick(s)] \in Int
  BY <1>4
<1>7. QED BY <1>3, <1>4, <1>5, <1>6

\* Any element may be taken first.
LEMMA SumsAnyOrder ==
  ASSUME NEW S, IsFiniteSet(S), NEW f, \A x \in S : f[x] \in Int,
         NEW g, Sums(g, f, SUBSET S)
  PROVE  \A T \in SUBSET S : \A x \in T : g[T] = f[x] + g[T \ {x}]
<1> DEFINE B == {T \in SUBSET S : \E x \in T : g[T] # f[x] + g[T \ {x}]}
<1>1. SUFFICES ASSUME B # {} PROVE FALSE
  OBVIOUS
<1>2. PICK T \in B : \A u \in B : ~(u \subseteq T /\ u # T)
  <2>1. B \in SUBSET SUBSET S
    OBVIOUS
  <2> HIDE DEF B
  <2>2. QED BY <1>1, <2>1, SubsetMinimum
<1>3. PICK x \in T : g[T] # f[x] + g[T \ {x}]
  BY <1>2
<1> DEFINE y == Pick(T)
<1>4. T \in SUBSET S /\ T # {} /\ y \in T
  BY PickIn
<1>5. g[T] = f[y] + g[T \ {y}]
  <2>1. g[T] = IF T = {} THEN 0 ELSE f[Pick(T)] + g[T \ {Pick(T)}]
    BY <1>4, SumsValue
  <2>2. QED BY <1>4, <2>1
<1> HIDE DEF y
<1>6. x # y
  BY <1>3, <1>5
<1>7. T \ {y} \notin B /\ T \ {x} \notin B
  BY <1>2, <1>4
<1>8. g[T \ {y}] = f[x] + g[(T \ {y}) \ {x}]
  BY <1>4, <1>6, <1>7
<1>9. g[T \ {x}] = f[y] + g[(T \ {x}) \ {y}]
  BY <1>4, <1>6, <1>7
<1>10. (T \ {x}) \ {y} = (T \ {y}) \ {x}
  OBVIOUS
<1>11. f[x] \in Int /\ f[y] \in Int /\ g[(T \ {y}) \ {x}] \in Int
  BY <1>4, SumsInt
<1>12. g[(T \ {x}) \ {y}] = g[(T \ {y}) \ {x}]
  BY <1>10
<1> DEFINE gx == g[T \ {x}]
           gy == g[T \ {y}]
           gxy == g[(T \ {y}) \ {x}]
           fx == f[x]
           fy == f[y]
           gT == g[T]
<1>13. gT # fx + gx /\ gT = fy + gy /\ gy = fx + gxy /\ gx = fy + gxy
  BY <1>3, <1>5, <1>8, <1>9, <1>12
<1>14. fx \in Int /\ fy \in Int /\ gxy \in Int
  BY <1>11
<1> HIDE DEF gx, gy, gxy, fx, fy, gT
<1>15. QED BY <1>13, <1>14

-----------------------------------------------------------------------------
Sum(f, S) == (CHOOSE g : Sums(g, f, SUBSET S))[S]

\* The sum over a set is the one of every set that holds it.
LEMMA SumIsSums ==
  ASSUME NEW S, IsFiniteSet(S), NEW f
  PROVE  Sums(CHOOSE g : Sums(g, f, SUBSET S), f, SUBSET S)
<1>1. \E g : Sums(g, f, SUBSET S)
  BY SumsExist
<1>2. QED BY <1>1

\* A sum is the element taken and the sum of the others.
LEMMA SumOfSums ==
  ASSUME NEW S, IsFiniteSet(S), NEW T \in SUBSET S, NEW f, NEW g, Sums(g, f, SUBSET S)
  PROVE  Sum(f, T) = g[T]
<1>1. IsFiniteSet(T)
  BY FS_Subset
<1> DEFINE h == CHOOSE h : Sums(h, f, SUBSET T)
<1>2. Sums(h, f, SUBSET T)
  BY <1>1, SumIsSums
<1>3. Sum(f, T) = h[T]
  BY DEF Sum
<1> HIDE DEF h
<1>4. g[T] = h[T]
  <2>1. AgreeOn(f, f, T)
    BY DEF AgreeOn
  <2>2. T \subseteq S
    OBVIOUS
  <2>3. QED BY <1>2, <2>1, <2>2, SumsAgree
<1>5. QED BY <1>3, <1>4

\* The sum over no elements.
LEMMA SumEmpty == \A f : Sum(f, {}) = 0
<1> TAKE f
<1>1. IsFiniteSet({})
  BY FS_EmptySet
<1>2. PICK g : Sums(g, f, SUBSET {})
  BY <1>1, SumsExist
<1>3. Sum(f, {}) = g[{}]
  BY <1>1, <1>2, SumOfSums
<1>4. g[{}] = 0
  BY <1>2, SumsValue
<1>5. QED BY <1>3, <1>4

\* The sum of integers over a finite set is one.
LEMMA SumInt ==
  ASSUME NEW S, IsFiniteSet(S), NEW f, \A x \in S : f[x] \in Int
  PROVE  Sum(f, S) \in Int
<1>1. PICK g : Sums(g, f, SUBSET S)
  BY SumsExist
<1>2. Sum(f, S) = g[S]
  BY <1>1, SumOfSums
<1>3. g[S] \in Int
  BY <1>1, SumsInt
<1>4. QED BY <1>2, <1>3

\* One more element adds what it counts for.
LEMMA SumAdd ==
  ASSUME NEW S, IsFiniteSet(S), NEW x, x \notin S, NEW f, \A y \in S \cup {x} : f[y] \in Int
  PROVE  Sum(f, S \cup {x}) = f[x] + Sum(f, S)
<1> DEFINE T == S \cup {x}
<1>1. IsFiniteSet(T)
  BY FS_AddElement
<1>2. \A y \in T : f[y] \in Int
  OBVIOUS
<1>3. T \ {x} = S /\ x \in T /\ S \in SUBSET T
  OBVIOUS
<1> HIDE DEF T
<1>4. PICK g : Sums(g, f, SUBSET T)
  BY <1>1, SumsExist
<1>5. g[T] = f[x] + g[T \ {x}]
  BY <1>1, <1>2, <1>3, <1>4, SumsAnyOrder
<1>6. Sum(f, T) = g[T] /\ Sum(f, S) = g[S]
  BY <1>1, <1>3, <1>4, SumOfSums
<1>7. QED BY <1>3, <1>5, <1>6 DEF T

\* What counts for the same has the same sum.
LEMMA SumSame ==
  ASSUME NEW S, IsFiniteSet(S), NEW f, NEW k, \A x \in S : f[x] = k[x]
  PROVE  Sum(f, S) = Sum(k, S)
<1>1. PICK g : Sums(g, f, SUBSET S)
  BY SumsExist
<1>2. PICK h : Sums(h, k, SUBSET S)
  BY SumsExist
<1>3. Sum(f, S) = g[S] /\ Sum(k, S) = h[S]
  BY <1>1, <1>2, SumOfSums
<1>4. g[S] = h[S]
  <2>1. AgreeOn(f, k, S)
    BY DEF AgreeOn
  <2>2. S \subseteq S
    OBVIOUS
  <2>3. QED BY <1>1, <1>2, <2>1, <2>2, SumsAgree
<1>5. QED BY <1>3, <1>4

\* The sum over two disjoint sets.
LEMMA SumUnion ==
  ASSUME NEW S, IsFiniteSet(S), NEW T, IsFiniteSet(T), S \cap T = {},
         NEW f, \A x \in S \cup T : f[x] \in Int
  PROVE  Sum(f, S \cup T) = Sum(f, S) + Sum(f, T)
<1> DEFINE G == {U \in SUBSET T : Sum(f, S \cup U) = Sum(f, S) + Sum(f, U)}
<1>1. Sum(f, S) \in Int
  BY SumInt
<1>2. {} \in G
  <2>1. S \cup {} = S
    OBVIOUS
  <2>2. Sum(f, S \cup {}) = Sum(f, S) + Sum(f, {})
    BY <1>1, <2>1, SumEmpty
  <2>3. QED BY <2>2
<1>3. ASSUME NEW U \in G, NEW x \in T \ U PROVE U \cup {x} \in G
  <2>1. U \subseteq T /\ Sum(f, S \cup U) = Sum(f, S) + Sum(f, U)
    BY <1>3
  <2>2. IsFiniteSet(U) /\ IsFiniteSet(S \cup U)
    BY <2>1, FS_Subset, FS_Union
  <2>3. x \notin U /\ x \notin S \cup U
    BY <1>3
  <2>4. (\A y \in U \cup {x} : f[y] \in Int) /\ \A y \in (S \cup U) \cup {x} : f[y] \in Int
    BY <2>1
  <2>5. Sum(f, U \cup {x}) = f[x] + Sum(f, U)
    BY <2>2, <2>3, <2>4, SumAdd
  <2>6. Sum(f, (S \cup U) \cup {x}) = f[x] + Sum(f, S \cup U)
    BY <2>2, <2>3, <2>4, SumAdd
  <2>7. Sum(f, U) \in Int /\ f[x] \in Int
    BY <2>2, <2>4, SumInt
  <2>8. (S \cup U) \cup {x} = S \cup (U \cup {x})
    OBVIOUS
  <2>9. Sum(f, S \cup (U \cup {x})) = f[x] + Sum(f, S \cup U)
    BY <2>6, <2>8
  <2>10. Sum(f, S \cup (U \cup {x})) = Sum(f, S) + Sum(f, U \cup {x})
    BY <1>1, <2>1, <2>5, <2>7, <2>9
  <2>11. QED BY <2>1, <2>10
<1>4. T \in G
  <2>1. G \in SUBSET SUBSET T
    OBVIOUS
  <2> HIDE DEF G
  <2>2. QED BY <1>2, <1>3, <2>1, SetInduction
<1>5. QED BY <1>4

\* What counts for nothing.
LEMMA SumZero ==
  ASSUME NEW S, IsFiniteSet(S), NEW f, \A x \in S : f[x] = 0
  PROVE  Sum(f, S) = 0
<1> DEFINE G == {U \in SUBSET S : Sum(f, U) = 0}
<1>1. {} \in G
  BY SumEmpty
<1>2. ASSUME NEW U \in G, NEW x \in S \ U PROVE U \cup {x} \in G
  <2>1. U \subseteq S /\ Sum(f, U) = 0
    BY <1>2
  <2>2. IsFiniteSet(U)
    BY <2>1, FS_Subset
  <2>3. \A y \in U \cup {x} : f[y] \in Int
    BY <2>1
  <2>4. Sum(f, U \cup {x}) = f[x] + Sum(f, U)
    BY <2>2, <2>3, SumAdd
  <2>5. QED BY <2>1, <2>4
<1>3. S \in G
  <2>1. G \in SUBSET SUBSET S
    OBVIOUS
  <2> HIDE DEF G
  <2>2. QED BY <1>1, <1>2, <2>1, SetInduction
<1>4. QED BY <1>3
=============================================================================
