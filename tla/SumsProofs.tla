------------------------------ MODULE SumsProofs ------------------------------
(***************************************************************************)
(* Facts about sums of natural numbers over finite sets, and the products   *)
(* and quotients that prices and charges are made of.                       *)
(***************************************************************************)
EXTENDS Sums, FiniteSetTheorems, WellFoundedInduction, TLAPS

\* The units of finitely many amounts are finitely many, so their number, the
\* sum, is a natural number.
THEOREM SumNat ==
    ASSUME NEW I, IsFiniteSet(I), NEW f, \A i \in I : f[i] \in Nat
    PROVE  /\ IsFiniteSet(Units(f, I))
           /\ SumOver(f, I) \in Nat
<1> DEFINE part == [i \in I |-> {i} \X (1..f[i])]
           Parts == {{i} \X (1..f[i]) : i \in I}
<1>1. part \in Surjection(I, Parts)
  BY DEF Surjection
<1>2. IsFiniteSet(Parts)
  BY <1>1, FS_Surjection
<1>3. ASSUME NEW T \in Parts PROVE IsFiniteSet(T)
  <2>1. PICK i \in I : T = {i} \X (1..f[i])
    BY <1>3
  <2>2. IsFiniteSet({i})
    BY FS_Singleton
  <2>3. 1 \in Int /\ f[i] \in Int
    OBVIOUS
  <2>4. IsFiniteSet(1..f[i])
    BY <2>3, FS_Interval
  <2>5. QED
    BY <2>1, <2>2, <2>4, FS_Product
<1>4. IsFiniteSet(Units(f, I))
  BY <1>2, <1>3, FS_UNION DEF Units
<1>5. QED
  BY <1>4, FS_CardinalityType DEF SumOver

\* Nothing adds up to 0.
THEOREM SumEmpty == \A f : SumOver(f, {}) = 0
BY FS_EmptySet DEF SumOver, Units

\* One more amount adds exactly that amount.
THEOREM SumAdd ==
    ASSUME NEW I, IsFiniteSet(I), NEW i, i \notin I,
           NEW f, \A j \in I \cup {i} : f[j] \in Nat
    PROVE  SumOver(f, I \cup {i}) = SumOver(f, I) + f[i]
<1>1. Units(f, I \cup {i}) = Units(f, I) \cup ({i} \X (1..f[i]))
  BY DEF Units
<1>2. Units(f, I) \cap ({i} \X (1..f[i])) = {}
  BY DEF Units
<1>3. IsFiniteSet(Units(f, I)) /\ SumOver(f, I) \in Nat
  BY SumNat
<1>4. IsFiniteSet({i}) /\ Cardinality({i}) = 1
  BY FS_Singleton
<1>5. IsFiniteSet(1..f[i]) /\ Cardinality(1..f[i]) = f[i]
  BY FS_Interval
<1>6. /\ IsFiniteSet({i} \X (1..f[i]))
      /\ Cardinality({i} \X (1..f[i])) = 1 * f[i]
  BY <1>4, <1>5, FS_Product
<1>7. Cardinality(Units(f, I) \cup ({i} \X (1..f[i])))
        = Cardinality(Units(f, I)) + Cardinality({i} \X (1..f[i])) - 0
  BY <1>2, <1>3, <1>6, FS_Union, FS_EmptySet
<1>8. f[i] \in Nat
  OBVIOUS
<1>9. Cardinality(Units(f, I)) \in Nat
  BY <1>3 DEF SumOver
<1>10. Cardinality({i} \X (1..f[i])) = f[i]
  <2>1. 1 * f[i] = f[i]
    BY <1>8
  <2>2. QED
    BY <1>6, <2>1
<1>11. Cardinality(Units(f, I \cup {i})) = Cardinality(Units(f, I)) + f[i]
  <2>1. \A a, b \in Nat : a + b - 0 = a + b
    OBVIOUS
  <2>2. Cardinality(Units(f, I)) + Cardinality({i} \X (1..f[i])) - 0
          = Cardinality(Units(f, I)) + f[i]
    BY <1>8, <1>9, <1>10, <2>1
  <2>3. QED
    BY <1>1, <1>7, <2>2, Zenon
<1>12. QED
  BY <1>11 DEF SumOver

\* The sum depends on the amounts of I only.
THEOREM SumSame ==
    ASSUME NEW I, NEW f, NEW g, \A i \in I : f[i] = g[i]
    PROVE  SumOver(f, I) = SumOver(g, I)
<1>1. {{i} \X (1..f[i]) : i \in I} = {{i} \X (1..g[i]) : i \in I}
  OBVIOUS
<1>2. QED
  BY <1>1 DEF SumOver, Units

\* One amount taken out of the sum.
THEOREM SumSplit ==
    ASSUME NEW I, IsFiniteSet(I), NEW i \in I, NEW f, \A j \in I : f[j] \in Nat
    PROVE  /\ SumOver(f, I \ {i}) \in Nat
           /\ SumOver(f, I) = SumOver(f, I \ {i}) + f[i]
<1>1. IsFiniteSet(I \ {i}) /\ i \notin I \ {i} /\ (I \ {i}) \cup {i} = I
  BY FS_Difference
<1>2. QED
  BY <1>1, SumAdd, SumNat

\* When the amount of one index changes, the sum changes by as much.
THEOREM SumChange ==
    ASSUME NEW I, IsFiniteSet(I), NEW i \in I,
           NEW f, \A j \in I : f[j] \in Nat,
           NEW g, \A j \in I : g[j] \in Nat,
           \A j \in I \ {i} : f[j] = g[j]
    PROVE  /\ SumOver(f, I) \in Nat
           /\ SumOver(g, I) \in Nat
           /\ SumOver(g, I) = SumOver(f, I) - f[i] + g[i]
<1>1. /\ SumOver(f, I \ {i}) \in Nat
      /\ SumOver(f, I) = SumOver(f, I \ {i}) + f[i]
  BY SumSplit
<1>2. /\ SumOver(g, I \ {i}) \in Nat
      /\ SumOver(g, I) = SumOver(g, I \ {i}) + g[i]
  BY SumSplit
<1>3. SumOver(f, I \ {i}) = SumOver(g, I \ {i})
  BY SumSame
<1>4. f[i] \in Nat /\ g[i] \in Nat
  OBVIOUS
<1>5. QED
  BY <1>1, <1>2, <1>3, <1>4, SumNat

\* A sum is at least each of its amounts.
THEOREM SumAtLeast ==
    ASSUME NEW I, IsFiniteSet(I), NEW i \in I, NEW f, \A j \in I : f[j] \in Nat
    PROVE  SumOver(f, I) >= f[i]
<1>1. f[i] \in Nat
  OBVIOUS
<1>2. /\ SumOver(f, I \ {i}) \in Nat
      /\ SumOver(f, I) = SumOver(f, I \ {i}) + f[i]
  BY SumSplit
<1>3. QED
  BY <1>1, <1>2

\* Amounts that are all 0 add up to 0.
THEOREM SumZero ==
    ASSUME NEW I, NEW f, \A i \in I : f[i] = 0
    PROVE  SumOver(f, I) = 0
<1>1. Units(f, I) = {}
  <2>1. \A i \in I : 1..f[i] = {}
    OBVIOUS
  <2>2. QED
    BY <2>1 DEF Units
<1>2. QED
  BY <1>1, FS_EmptySet DEF SumOver

\* Fewer amounts add up to no more.
THEOREM SumMonotone ==
    ASSUME NEW J, IsFiniteSet(J), NEW I \in SUBSET J, NEW f, \A j \in J : f[j] \in Nat
    PROVE  SumOver(f, I) <= SumOver(f, J)
<1>1. IsFiniteSet(Units(f, J))
  BY SumNat
<1>2. Units(f, I) \subseteq Units(f, J)
  BY DEF Units
<1>3. QED
  BY <1>1, <1>2, FS_Subset DEF SumOver

\* The amounts of two sets together are at most the two sums.
THEOREM SumUnion ==
    ASSUME NEW I, IsFiniteSet(I), NEW J, IsFiniteSet(J), NEW f, \A i \in I \cup J : f[i] \in Nat
    PROVE  SumOver(f, I \cup J) <= SumOver(f, I) + SumOver(f, J)
<1>1. Units(f, I \cup J) = Units(f, I) \cup Units(f, J)
  BY DEF Units
<1>2. IsFiniteSet(Units(f, I)) /\ IsFiniteSet(Units(f, J))
  BY SumNat
<1>3. Cardinality(Units(f, I) \cup Units(f, J))
        = Cardinality(Units(f, I)) + Cardinality(Units(f, J))
            - Cardinality(Units(f, I) \cap Units(f, J))
  BY <1>2, FS_Union
<1>4. /\ Cardinality(Units(f, I)) \in Nat /\ Cardinality(Units(f, J)) \in Nat
      /\ Cardinality(Units(f, I) \cap Units(f, J)) \in Nat
  BY <1>2, FS_Intersection, FS_CardinalityType
<1>5. \A a, b, c, d \in Nat : a = b + c - d => a <= b + c
  OBVIOUS
<1>6. IsFiniteSet(Units(f, I) \cup Units(f, J))
  BY <1>2, FS_Union
<1>7. Cardinality(Units(f, I) \cup Units(f, J)) \in Nat
  BY <1>6, FS_CardinalityType
<1>8. QED
  BY <1>1, <1>3, <1>4, <1>5, <1>7 DEF SumOver

\* Every nonempty set of naturals has a least element.
THEOREM LeastNatural ==
    ASSUME NEW S \in SUBSET Nat, S # {}
    PROVE  \E x \in S : \A y \in S : x <= y
<1> DEFINE R == OpToRel(<, Nat)
<1>1. IsWellFoundedOn(R, Nat)
  BY NatLessThanWellFounded
<1>2. R = {ss \in Nat \X Nat : ss[1] < ss[2]}
  BY DEF OpToRel
<1> HIDE DEF R
<1>3. PICK x \in S : \A y \in S : ~ (<<y, x>> \in R)
  BY <1>1, WFMin
<1>4. ASSUME NEW y \in S PROVE x <= y
  <2>1. x \in Nat /\ y \in Nat
    OBVIOUS
  <2>2. <<y, x>> \in Nat \X Nat => (y < x => <<y, x>> \in R)
    BY <1>2
  <2>3. ~ (y < x)
    BY <1>3, <2>1, <2>2
  <2>4. QED
    BY <2>1, <2>3
<1>5. QED
  BY <1>4

\* Induction over the subsets of a finite set: a family of subsets that is not
\* empty has a member that is in it while none of its parts, one element less, is.
THEOREM SmallestSubset ==
    ASSUME NEW I, IsFiniteSet(I), NEW B \in SUBSET SUBSET I, B # {}
    PROVE  \E J \in B : \A i \in J : J \ {i} \notin B
<1> DEFINE Sizes == {Cardinality(J) : J \in B}
<1>1. \A J \in B : IsFiniteSet(J) /\ Cardinality(J) \in Nat
  BY FS_Subset, FS_CardinalityType
<1>2. Sizes \in SUBSET Nat /\ Sizes # {}
  BY <1>1
<1>3. PICK n \in Sizes : \A m \in Sizes : n <= m
  BY <1>2, LeastNatural
<1>4. PICK J \in B : Cardinality(J) = n
  BY <1>3
<1>5. ASSUME NEW i \in J, J \ {i} \in B PROVE FALSE
  <2>1. Cardinality(J \ {i}) = Cardinality(J) - 1
    BY <1>1, FS_RemoveElement
  <2>2. n <= Cardinality(J \ {i})
    BY <1>3, <1>5
  <2>3. QED
    BY <1>1, <1>4, <2>1, <2>2
<1>6. QED
  BY <1>5

\* Sums add up index by index.
THEOREM SumPlus ==
    ASSUME NEW I, IsFiniteSet(I), NEW f, \A i \in I : f[i] \in Nat,
           NEW g, \A i \in I : g[i] \in Nat,
           NEW h, \A i \in I : h[i] = f[i] + g[i]
    PROVE  SumOver(h, I) = SumOver(f, I) + SumOver(g, I)
<1> DEFINE B == {J \in SUBSET I : SumOver(h, J) # SumOver(f, J) + SumOver(g, J)}
<1> SUFFICES ASSUME B # {} PROVE FALSE
  OBVIOUS
<1>1. PICK J \in B : \A i \in J : J \ {i} \notin B
  <2>1. B \in SUBSET SUBSET I
    OBVIOUS
  <2> HIDE DEF B
  <2>2. QED
    BY <2>1, SmallestSubset
<1>2. J \subseteq I /\ IsFiniteSet(J)
  BY FS_Subset
<1>3. J # {}
  <2>1. 0 = 0 + 0
    OBVIOUS
  <2>2. SumOver(f, {}) = 0 /\ SumOver(g, {}) = 0 /\ SumOver(h, {}) = 0
    BY SumEmpty
  <2>3. QED
    BY <1>1, <2>1, <2>2
<1>4. PICK i \in J : TRUE
  BY <1>3
<1>5. SumOver(h, J \ {i}) = SumOver(f, J \ {i}) + SumOver(g, J \ {i})
  BY <1>1, <1>2
<1>6. \A j \in J : f[j] \in Nat /\ g[j] \in Nat /\ h[j] \in Nat /\ h[j] = f[j] + g[j]
  BY <1>2
<1>7. /\ SumOver(f, J \ {i}) \in Nat /\ SumOver(f, J) = SumOver(f, J \ {i}) + f[i]
      /\ SumOver(g, J \ {i}) \in Nat /\ SumOver(g, J) = SumOver(g, J \ {i}) + g[i]
      /\ SumOver(h, J \ {i}) \in Nat /\ SumOver(h, J) = SumOver(h, J \ {i}) + h[i]
  BY <1>2, <1>6, SumSplit
<1>8. f[i] \in Nat /\ g[i] \in Nat /\ h[i] = f[i] + g[i]
  BY <1>6
<1>9. SumOver(h, J) = SumOver(f, J) + SumOver(g, J)
  BY <1>5, <1>7, <1>8
<1>10. QED
  BY <1>1, <1>9

\* Smaller amounts add up to no more.
THEOREM SumBelow ==
    ASSUME NEW I, IsFiniteSet(I), NEW f, \A i \in I : f[i] \in Nat,
           NEW g, \A i \in I : g[i] \in Nat /\ f[i] <= g[i]
    PROVE  SumOver(f, I) <= SumOver(g, I)
<1> DEFINE d == [i \in I |-> g[i] - f[i]]
<1>1. \A i \in I : d[i] \in Nat /\ g[i] = f[i] + d[i]
  OBVIOUS
<1> HIDE DEF d
<1>2. SumOver(g, I) = SumOver(f, I) + SumOver(d, I)
  BY <1>1, SumPlus
<1>3. SumOver(f, I) \in Nat /\ SumOver(d, I) \in Nat
  BY <1>1, SumNat
<1>4. QED
  BY <1>2, <1>3

\* Amounts that are 1 in J and 0 elsewhere count J.
THEOREM SumCounts ==
    ASSUME NEW I, IsFiniteSet(I), NEW J \in SUBSET I,
           NEW f, \A i \in I : f[i] = IF i \in J THEN 1 ELSE 0
    PROVE  SumOver(f, I) = Cardinality(J)
<1> DEFINE B == {K \in SUBSET I : SumOver(f, K) # Cardinality(K \cap J)}
<1>1. B = {}
  <2> SUFFICES ASSUME B # {} PROVE FALSE
    OBVIOUS
  <2>1. PICK K \in B : \A i \in K : K \ {i} \notin B
    <3>1. B \in SUBSET SUBSET I
      OBVIOUS
    <3> HIDE DEF B
    <3>2. QED
      BY <3>1, SmallestSubset
  <2>2. K \subseteq I /\ IsFiniteSet(K) /\ IsFiniteSet(K \cap J)
    BY FS_Subset, FS_Intersection
  <2>3. PICK i \in K : TRUE
    <3>1. CASE K = {}
      <4>1. K \cap J = {}
        BY <3>1
      <4>2. SumOver(f, K) = 0 /\ Cardinality(K \cap J) = 0
        BY <3>1, <4>1, SumEmpty, FS_EmptySet
      <4>3. QED
        BY <2>1, <4>2
    <3>2. QED
      BY <3>1
  <2>4. SumOver(f, K \ {i}) = Cardinality((K \ {i}) \cap J)
    BY <2>1, <2>2
  <2>5. \A j \in K : f[j] \in Nat
    BY <2>2
  <2>6. SumOver(f, K) = SumOver(f, K \ {i}) + f[i]
    BY <2>2, <2>5, SumSplit
  <2>7. Cardinality(K \cap J) \in Nat
    BY <2>2, FS_CardinalityType
  <2>8. CASE i \in J
    <3>1. (K \ {i}) \cap J = (K \cap J) \ {i} /\ i \in K \cap J /\ f[i] = 1
      BY <2>2, <2>8
    <3>2. Cardinality((K \cap J) \ {i}) = Cardinality(K \cap J) - 1
      BY <2>2, <3>1, FS_RemoveElement
    <3>3. QED
      BY <2>1, <2>4, <2>6, <2>7, <3>1, <3>2
  <2>9. CASE i \notin J
    <3>1. (K \ {i}) \cap J = K \cap J /\ f[i] = 0
      BY <2>2, <2>9
    <3>2. QED
      BY <2>1, <2>4, <2>6, <2>7, <3>1
  <2>10. QED
    BY <2>8, <2>9
<1>2. I \cap J = J
  OBVIOUS
<1>3. QED
  BY <1>1, <1>2

\* Amounts in a proportion of at most r to s add up to a sum in that proportion.
THEOREM SumScaled ==
    ASSUME NEW I, IsFiniteSet(I), NEW f, \A i \in I : f[i] \in Nat,
           NEW g, \A i \in I : g[i] \in Nat,
           NEW r \in Nat, NEW s \in Nat, \A i \in I : g[i] * s <= f[i] * r
    PROVE  SumOver(g, I) * s <= SumOver(f, I) * r
<1> DEFINE B == {J \in SUBSET I : ~(SumOver(g, J) * s <= SumOver(f, J) * r)}
<1> SUFFICES ASSUME B # {} PROVE FALSE
  OBVIOUS
<1>1. PICK J \in B : \A i \in J : J \ {i} \notin B
  <2>1. B \in SUBSET SUBSET I
    OBVIOUS
  <2> HIDE DEF B
  <2>2. QED
    BY <2>1, SmallestSubset
<1>2. J \subseteq I /\ IsFiniteSet(J)
  BY FS_Subset
<1>3. J # {}
  <2>1. 0 * s <= 0 * r
    OBVIOUS
  <2>2. QED
    BY <1>1, <2>1, SumEmpty
<1>4. PICK i \in J : TRUE
  BY <1>3
<1>5. SumOver(g, J \ {i}) * s <= SumOver(f, J \ {i}) * r
  BY <1>1, <1>2
<1>6. \A j \in J : f[j] \in Nat /\ g[j] \in Nat
  BY <1>2
<1>7. /\ SumOver(f, J \ {i}) \in Nat /\ SumOver(f, J) = SumOver(f, J \ {i}) + f[i]
      /\ SumOver(g, J \ {i}) \in Nat /\ SumOver(g, J) = SumOver(g, J \ {i}) + g[i]
  BY <1>2, <1>6, SumSplit
<1>8. f[i] \in Nat /\ g[i] \in Nat /\ g[i] * s <= f[i] * r
  BY <1>2, <1>6
<1>9. \A a, b, c, d \in Nat : a * s <= b * r /\ c * s <= d * r => (a + c) * s <= (b + d) * r
  <2> TAKE a, b, c, d \in Nat
  <2>1. (a + c) * s = a * s + c * s /\ (b + d) * r = b * r + d * r
    OBVIOUS
  <2>2. a * s \in Nat /\ c * s \in Nat /\ b * r \in Nat /\ d * r \in Nat
    OBVIOUS
  <2>3. QED
    BY <2>1, <2>2
<1>10. QED
  BY <1>1, <1>5, <1>7, <1>8, <1>9

-----------------------------------------------------------------------------
(* Products and quotients *)

LEMMA QuotientNat == \A a \in Nat, b \in Nat \ {0} : a \div b \in Nat
OBVIOUS

LEMMA TimesNat == \A a, b \in Nat : a * b \in Nat
OBVIOUS

LEMMA TimesMonotone ==
    ASSUME NEW a \in Nat, NEW b \in Nat, NEW k \in Nat, a <= b
    PROVE  a * k <= b * k
OBVIOUS

LEMMA DivMonotone ==
    ASSUME NEW a \in Nat, NEW b \in Nat, NEW d \in Nat \ {0}, a <= b
    PROVE  a \div d <= b \div d
OBVIOUS

=============================================================================
