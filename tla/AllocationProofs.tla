-------------------------- MODULE AllocationProofs --------------------------
(***************************************************************************)
(* What the split of a refill gives, for every number of legs, every       *)
(* vector of deficits and every amount: no leg more than its deficit, and  *)
(* in all exactly the amount, or every deficit if the amount covers them.  *)
(***************************************************************************)
EXTENDS Allocation, SumsProofs

-----------------------------------------------------------------------------
(* Legs and totals *)

LEMMA LegsFinite == IsFiniteSet(Legs)
BY NLegsAssumption, FS_Interval DEF Legs

LEMMA DivNat == \A a \in Nat, b \in Nat \ {0} : a \div b \in Nat
OBVIOUS

LEMMA TotalNat == \A f \in [Legs -> Nat] : Total(f) \in Nat
BY LegsFinite, SumNat DEF Total

LEMMA PartNat ==
    ASSUME NEW f \in [Legs -> Nat], NEW I \in SUBSET Legs
    PROVE  SumOver(f, I) \in Nat
<1>1. IsFiniteSet(I)
  BY LegsFinite, FS_Subset
<1>2. QED
  BY <1>1, SumNat

-----------------------------------------------------------------------------
(* The order in which legs are served *)

\* Of the legs in J, one comes last in the sort.
LEMMA LastServed ==
    ASSUME NEW key \in [Legs -> Nat], NEW I \in SUBSET Legs, NEW J \in SUBSET I, J # {}
    PROVE  \E i \in J : J \ {i} \subseteq SortedBefore(key, I, i)
<1> DEFINE Keys == {key[j] : j \in J}
<1>1. Keys \in SUBSET Nat /\ Keys # {} /\ NLegs \in Nat /\ J \in SUBSET (1..NLegs)
  BY NLegsAssumption DEF Legs
<1>2. PICK low \in Keys : \A m \in Keys : low <= m
  BY <1>1, LeastNatural
<1> DEFINE Late == {NLegs - j : j \in {l \in J : key[l] = low}}
<1>3. Late \in SUBSET Nat /\ Late # {}
  BY <1>1, <1>2
<1>4. PICK n \in Late : \A m \in Late : n <= m
  BY <1>3, LeastNatural
<1>5. PICK i \in J : key[i] = low /\ n = NLegs - i
  BY <1>4
<1>6. ASSUME NEW j \in J, j # i PROVE j \in SortedBefore(key, I, i)
  <2>1. key[j] \in Nat /\ key[i] \in Nat /\ i \in Nat /\ j \in Nat
    BY <1>1
  <2>2. CASE key[j] = low
    <3>1. NLegs - i <= NLegs - j
      BY <1>4, <1>5, <2>2
    <3>2. j < i
      BY <1>1, <1>6, <2>1, <3>1
    <3>3. QED
      BY <1>5, <2>2, <3>2 DEF SortedBefore
  <2>3. CASE key[j] # low
    <3>1. key[j] > key[i]
      BY <1>2, <1>5, <2>1, <2>3
    <3>2. QED
      BY <3>1 DEF SortedBefore
  <2>4. QED
    BY <2>2, <2>3
<1>7. QED
  BY <1>6

\* Of the legs in J, one comes before all the others.
LEMMA FirstServed ==
    ASSUME NEW key \in [Legs -> Nat], NEW I \in SUBSET Legs, NEW J \in SUBSET I, J # {}
    PROVE  \E i \in J : SortedBefore(key, I, i) \cap J = {}
<1> DEFINE Bad(i) == SortedBefore(key, I, i) \cap J
           B == {K \in SUBSET Legs : \E i \in J : K = Bad(i)}
<1>1. ASSUME NEW i, NEW j, NEW k, i \in J, j \in Bad(i), k \in Bad(j)
      PROVE  k \in Bad(i) /\ j \notin Bad(j)
  <2>1. /\ key[i] \in Nat /\ key[j] \in Nat /\ key[k] \in Nat
        /\ i \in Nat /\ j \in Nat /\ k \in Nat
    <3>1. i \in Legs /\ j \in Legs /\ k \in Legs
      BY <1>1
    <3>2. Legs \subseteq Nat
      BY DEF Legs
    <3>3. QED
      BY <3>1, <3>2
  <2>2. /\ key[j] > key[i] \/ (key[j] = key[i] /\ j < i)
        /\ key[k] > key[j] \/ (key[k] = key[j] /\ k < j)
    BY <1>1 DEF SortedBefore
  <2>3. key[k] > key[i] \/ (key[k] = key[i] /\ k < i)
    BY <2>1, <2>2
  <2>4. QED
    BY <1>1, <2>1, <2>3 DEF SortedBefore
<1> DEFINE Sizes == {Cardinality(Bad(i)) : i \in J}
<1>2. \A i \in J : IsFiniteSet(Bad(i)) /\ Cardinality(Bad(i)) \in Nat
  BY LegsFinite, FS_Subset, FS_CardinalityType
<1>3. Sizes \in SUBSET Nat /\ Sizes # {}
  BY <1>2
<1>4. PICK n \in Sizes : \A m \in Sizes : n <= m
  BY <1>3, LeastNatural
<1>5. PICK i \in J : Cardinality(Bad(i)) = n
  BY <1>4
<1>6. ASSUME NEW j \in Bad(i) PROVE FALSE
  <2>1. j \in J
    OBVIOUS
  <2>2. Bad(j) \subseteq Bad(i) \ {j}
    BY <1>1, <2>1
  <2> HIDE DEF Bad
  <2>3. Cardinality(Bad(i) \ {j}) = Cardinality(Bad(i)) - 1
    BY <1>2, FS_RemoveElement
  <2>4. IsFiniteSet(Bad(i) \ {j})
    BY <1>2, FS_Difference
  <2>5. Cardinality(Bad(j)) <= Cardinality(Bad(i) \ {j})
    BY <2>2, <2>4, FS_Subset
  <2>6. n <= Cardinality(Bad(j))
    BY <1>4, <2>1
  <2>7. Cardinality(Bad(j)) \in Nat /\ Cardinality(Bad(i)) \in Nat
    BY <1>2, <2>1
  <2>8. QED
    BY <1>5, <2>3, <2>5, <2>6, <2>7
<1>7. QED
  BY <1>6

LEMMA SmallerIs ==
    \A a, b, c \in Nat : c <= a /\ (c = b \/ (c >= a /\ c <= b)) => c = Smaller(a, b)
BY DEF Smaller

\* What each leg gets of an amount handed out in that order, each up to its room.
Fill(key, I, room, left) ==
    [i \in Legs |-> Smaller(room[i],
                            Larger(left - SumOver(room, SortedBefore(key, I, i)), 0))]

\* Handing out what is left, leg after leg and up to the room of each, hands out
\* all of it, or fills every room.
LEMMA GreedyFill ==
    ASSUME NEW key \in [Legs -> Nat], NEW I \in SUBSET Legs,
           NEW room \in [Legs -> Nat], \A i \in Legs \ I : room[i] = 0,
           NEW left \in Nat
    PROVE  /\ \A i \in Legs : Fill(key, I, room, left)[i] \in 0..room[i]
           /\ Total(Fill(key, I, room, left)) = Smaller(left, Total(room))
<1> DEFINE fill == Fill(key, I, room, left)
<1> DEFINE Before(i) == SortedBefore(key, I, i)
           taken(i) == SumOver(room, Before(i))
<1>1. \A i \in Legs : /\ Before(i) \in SUBSET Legs /\ IsFiniteSet(Before(i))
                      /\ i \notin Before(i) /\ taken(i) \in Nat
  <2>1. \A i \in Legs : key[i] \in Nat /\ i \in Nat
    BY DEF Legs
  <2>2. ASSUME NEW i \in Legs PROVE Before(i) \in SUBSET Legs /\ i \notin Before(i)
    BY <2>1 DEF SortedBefore
  <2>3. QED
    BY <2>2, LegsFinite, FS_Subset, PartNat
<1>2. \A i \in Legs : fill[i] = Smaller(room[i], Larger(left - taken(i), 0))
  BY DEF Fill
<1> HIDE DEF Before, taken, fill
<1>3. \A i \in Legs : fill[i] \in Nat /\ fill[i] <= room[i]
  BY <1>1, <1>2 DEF Smaller, Larger
<1>4. Total(fill) \in Nat /\ Total(room) \in Nat /\ Total(fill) <= Total(room)
  BY <1>3, LegsFinite, SumNat, SumBelow DEF Total
<1>5. Total(fill) <= left
  <2> DEFINE J == {i \in I : fill[i] > 0}
  <2>1. CASE J = {}
    <3>1. \A i \in Legs : fill[i] = 0
      BY <1>3, <2>1
    <3>2. Total(fill) = 0
      BY <3>1, SumZero DEF Total
    <3>3. QED
      BY <3>2
  <2>2. CASE J # {}
    <3>1. PICK i \in J : J \ {i} \subseteq Before(i)
      <4>1. J \in SUBSET I
        OBVIOUS
      <4> HIDE DEF J
      <4>2. QED
        BY <2>2, <4>1, LastServed DEF Before
    <3>2. i \in Legs /\ fill[i] > 0
      OBVIOUS
    <3>3. \A j \in Legs \ (Before(i) \cup {i}) : fill[j] = 0
      BY <1>3, <3>1
    <3> DEFINE Q == Before(i) \cup {i}
               R == Legs \ Q
    <3>4. /\ IsFiniteSet(Q) /\ IsFiniteSet(R) /\ Q \cup R = Legs
          /\ SumOver(fill, R) = 0
      <4>1. Q \subseteq Legs /\ R \subseteq Legs
        BY <1>1, <3>2
      <4>2. SumOver(fill, R) = 0
        BY <3>3, SumZero
      <4>3. QED
        BY <4>1, <4>2, LegsFinite, FS_Subset
    <3>5. Total(fill) <= SumOver(fill, Q) + SumOver(fill, R)
      BY <1>3, <3>4, SumUnion DEF Total
    <3>6. SumOver(fill, Q) = SumOver(fill, Before(i)) + fill[i]
      BY <1>1, <1>3, <3>2, SumAdd
    <3>7. SumOver(fill, Before(i)) <= taken(i)
      BY <1>1, <1>3, <3>2, SumBelow DEF taken
    <3>8. SumOver(fill, Before(i)) \in Nat /\ taken(i) \in Nat /\ fill[i] \in Nat
      BY <1>1, <1>3, <3>2, SumNat
    <3>9. fill[i] <= left - taken(i)
      BY <1>2, <3>2, <3>8 DEF Smaller, Larger
    <3> HIDE DEF Q, R
    <3>10. QED
      BY <1>4, <3>4, <3>5, <3>6, <3>7, <3>8, <3>9
  <2>3. QED
    BY <2>1, <2>2
<1>6. ASSUME Total(fill) = Total(room) PROVE Total(fill) = Smaller(left, Total(room))
  BY <1>4, <1>5, <1>6, SmallerIs
<1>7. ASSUME Total(fill) # Total(room) PROVE Total(fill) = Smaller(left, Total(room))
  <2> DEFINE J == {i \in I : fill[i] # room[i]}
  <2>1. J # {}
    <3>1. SUFFICES ASSUME J = {} PROVE FALSE
      OBVIOUS
    <3>2. \A i \in Legs : fill[i] = room[i]
      BY <1>3, <3>1
    <3>3. QED
      BY <1>7, <3>2, SumSame DEF Total
  <2>2. PICK i \in J : Before(i) \cap J = {}
    <3>1. J \in SUBSET I
      OBVIOUS
    <3> HIDE DEF J
    <3>2. QED
      BY <2>1, <3>1, FirstServed DEF Before
  <2>3. i \in Legs /\ fill[i] # room[i]
    OBVIOUS
  <2>4. \A j \in Before(i) : fill[j] = room[j]
    BY <1>1, <1>3, <2>2, <2>3
  <2>5. SumOver(fill, Before(i)) = taken(i)
    BY <2>4, SumSame DEF taken
  <2>6. taken(i) \in Nat /\ fill[i] \in Nat /\ fill[i] >= left - taken(i)
    BY <1>1, <1>2, <1>3, <2>3 DEF Smaller, Larger
  <2>7. SumOver(fill, Before(i) \cup {i}) = SumOver(fill, Before(i)) + fill[i]
    BY <1>1, <1>3, <2>3, SumAdd
  <2>8. SumOver(fill, Before(i) \cup {i}) <= Total(fill)
    BY <1>1, <1>3, <2>3, LegsFinite, SumMonotone DEF Total
  <2>9. Total(fill) >= left
    BY <1>4, <2>5, <2>6, <2>7, <2>8
  <2>10. QED
    BY <1>4, <1>5, <2>9, SmallerIs
<1>8. Total(fill) = Smaller(left, Total(room))
  BY <1>6, <1>7
<1>9. \A i \in Legs : fill[i] \in 0..room[i]
  BY <1>3
<1>10. QED
  BY <1>8, <1>9 DEF fill

-----------------------------------------------------------------------------
(* The parts of the proportional split *)

Quotients(need, rem) ==
    [i \in Legs |-> Smaller((need[i] * rem) \div Total(need), need[i])]

Residues(need, rem) == [i \in Legs |-> (need[i] * rem) % Total(need)]

Rooms(need, rem) == [i \in Legs |-> need[i] - Quotients(need, rem)[i]]

Leftover(need, rem) == rem - Total(Quotients(need, rem))

\* One wei for each needy leg, and what is then still needed.
OneEach(deficit) == [i \in Legs |-> IF i \in Needy(deficit) THEN 1 ELSE 0]

Reduced(deficit) == [i \in Legs |-> Larger(deficit[i] - 1, 0)]

LEMMA QuotientFacts ==
    ASSUME NEW need \in [Legs -> Nat], NEW rem \in Nat, Total(need) # 0, NEW i \in Legs
    PROVE  /\ need[i] * rem \in Nat /\ Total(need) \in Nat \ {0}
           /\ (need[i] * rem) \div Total(need) \in Nat
           /\ (need[i] * rem) % Total(need) \in Nat
           /\ (need[i] * rem) % Total(need) < Total(need)
           /\ ((need[i] * rem) \div Total(need)) * Total(need)
                + ((need[i] * rem) % Total(need)) = need[i] * rem
<1> DEFINE S == Total(need)
<1>1. S \in Nat \ {0}
  BY TotalNat
<1>2. need[i] * rem \in Nat
  BY TimesNat
<1>3. \A a \in Nat, b \in Nat \ {0} :
          /\ a \div b \in Nat /\ a % b \in Nat /\ a % b < b
          /\ (a \div b) * b + (a % b) = a
  <2> TAKE a \in Nat, b \in Nat \ {0}
  <2>1. a \div b \in Nat /\ a % b \in Nat /\ a % b < b
    OBVIOUS
  <2>2. b * (a \div b) + (a % b) = a
    OBVIOUS
  <2>3. \A x, y \in Nat : x * y = y * x
    OBVIOUS
  <2>4. QED
    BY <2>1, <2>2, <2>3
<1> HIDE DEF S
<1>4. /\ (need[i] * rem) \div S \in Nat /\ (need[i] * rem) % S \in Nat
      /\ (need[i] * rem) % S < S
      /\ ((need[i] * rem) \div S) * S + ((need[i] * rem) % S) = need[i] * rem
  BY <1>1, <1>2, <1>3
<1>5. QED
  BY <1>1, <1>2, <1>4 DEF S

\* The floors hand out no more than the amount, and no leg more than its need.
LEMMA ProportionalParts ==
    ASSUME NEW need \in [Legs -> Nat], NEW rem \in Nat, Total(need) # 0
    PROVE  /\ Quotients(need, rem) \in [Legs -> Nat]
           /\ Residues(need, rem) \in [Legs -> Nat]
           /\ Rooms(need, rem) \in [Legs -> Nat]
           /\ \A i \in Legs : /\ need[i] = Quotients(need, rem)[i] + Rooms(need, rem)[i]
                              /\ Quotients(need, rem)[i] * Total(need) <= need[i] * rem
           /\ \A i \in Legs \ Needy(need) : Rooms(need, rem)[i] = 0
           /\ Total(Quotients(need, rem)) \in Nat
           /\ Total(Rooms(need, rem)) \in Nat
           /\ Total(need) = Total(Quotients(need, rem)) + Total(Rooms(need, rem))
           /\ Leftover(need, rem) \in Nat
           /\ Proportional(need, rem) =
                  [i \in Legs |-> Quotients(need, rem)[i]
                      + Fill(Residues(need, rem), Needy(need), Rooms(need, rem),
                             Leftover(need, rem))[i]]
<1> DEFINE S == Total(need)
           quota == Quotients(need, rem)
           residue == Residues(need, rem)
           room == Rooms(need, rem)
           left == Leftover(need, rem)
<1>1. S \in Nat \ {0}
  BY TotalNat
<1>2. ASSUME NEW i \in Legs
      PROVE  quota[i] \in Nat /\ quota[i] <= need[i] /\ quota[i] * S <= need[i] * rem
  <2> DEFINE q == (need[i] * rem) \div S
  <2>1. q \in Nat /\ q * S <= need[i] * rem
    <3>1. /\ q \in Nat /\ (need[i] * rem) % S \in Nat /\ need[i] * rem \in Nat
          /\ q * S + ((need[i] * rem) % S) = need[i] * rem
      BY QuotientFacts
    <3> HIDE DEF S, q
    <3>2. q * S \in Nat
      BY <1>1, <3>1, TimesNat
    <3> DEFINE m == (need[i] * rem) % S
               n == need[i] * rem
    <3>3. m \in Nat /\ n \in Nat /\ q * S + m = n
      BY <3>1
    <3>4. \A x, y, z \in Nat : x + y = z => x <= z
      OBVIOUS
    <3> HIDE DEF m, n
    <3>5. q * S <= n
      BY <3>2, <3>3, <3>4
    <3>6. QED
      BY <3>1, <3>5 DEF n
  <2>2. quota[i] = Smaller(q, need[i])
    BY DEF Quotients
  <2> HIDE DEF q, quota, S
  <2>3. quota[i] \in Nat /\ quota[i] <= q /\ quota[i] <= need[i]
    BY <2>1, <2>2 DEF Smaller
  <2>4. quota[i] * S <= q * S
    BY <1>1, <2>1, <2>3, TimesMonotone
  <2>5. quota[i] * S \in Nat /\ q * S \in Nat /\ need[i] * rem \in Nat
    BY <1>1, <2>1, <2>3, TimesNat
  <2>6. QED
    BY <2>1, <2>3, <2>4, <2>5
<1>3. quota \in [Legs -> Nat]
  BY <1>2 DEF Quotients
<1>4. residue \in [Legs -> Nat]
  BY QuotientFacts DEF Residues
<1>5. \A i \in Legs : room[i] = need[i] - quota[i]
  BY DEF Rooms
<1>6. room \in [Legs -> Nat]
  <2>1. \A i \in Legs : need[i] - quota[i] \in Nat
    BY <1>2
  <2>2. QED
    BY <2>1 DEF Rooms
<1> HIDE DEF quota, residue, room
<1>7. /\ \A i \in Legs : need[i] = quota[i] + room[i]
      /\ \A i \in Legs \ Needy(need) : room[i] = 0
  BY <1>2, <1>5 DEF Needy
<1>8. Total(quota) \in Nat /\ Total(room) \in Nat /\ S = Total(quota) + Total(room)
  BY <1>3, <1>6, <1>7, LegsFinite, SumPlus, SumNat DEF Total
<1>9. left \in Nat
  <2>1. Total(quota) * S <= S * rem
    BY <1>1, <1>2, <1>3, LegsFinite, SumScaled DEF Total
  <2>2. left = rem - Total(quota)
    BY DEF Leftover, quota
  <2> HIDE DEF S
  <2>3. \A a \in Nat, b \in Nat \ {0}, c \in Nat : a * b <= b * c => a <= c
    OBVIOUS
  <2>4. Total(quota) <= rem
    BY <1>1, <1>8, <2>1, <2>3
  <2>5. QED
    BY <1>8, <2>2, <2>4
<1>10. Proportional(need, rem) =
           [i \in Legs |-> quota[i] + Fill(residue, Needy(need), room, left)[i]]
  BY DEF Proportional, Fill, Quotients, Residues, Rooms, Leftover, quota, residue, room
<1>11. QED
  BY <1>2, <1>3, <1>4, <1>6, <1>7, <1>8, <1>9, <1>10 DEF quota, residue, room

-----------------------------------------------------------------------------
(* No leg gets more than its deficit *)

\* The proportional part of the split gives every leg at most its need.
LEMMA ProportionalCapped ==
    ASSUME NEW need \in [Legs -> Nat], NEW rem \in Nat, Total(need) # 0
    PROVE  /\ Proportional(need, rem) \in [Legs -> Nat]
           /\ \A i \in Legs : Proportional(need, rem)[i] <= need[i]
<1> DEFINE quota == Quotients(need, rem)
           room == Rooms(need, rem)
           fill == Fill(Residues(need, rem), Needy(need), room, Leftover(need, rem))
<1>1. Needy(need) \in SUBSET Legs
  BY DEF Needy
<1>2. /\ quota \in [Legs -> Nat] /\ room \in [Legs -> Nat]
      /\ \A i \in Legs : need[i] = quota[i] + room[i]
      /\ Proportional(need, rem) = [i \in Legs |-> quota[i] + fill[i]]
  BY ProportionalParts
<1>3. \A i \in Legs : fill[i] \in 0..room[i]
  <2>1. /\ Residues(need, rem) \in [Legs -> Nat] /\ Leftover(need, rem) \in Nat
        /\ \A i \in Legs \ Needy(need) : room[i] = 0
    BY ProportionalParts
  <2> HIDE DEF room
  <2>2. QED
    BY <1>1, <1>2, <2>1, GreedyFill
<1> HIDE DEF quota, room, fill
<1>4. QED
  BY <1>2, <1>3

\* No leg is planned more than its deficit: for any number of legs, any
\* deficits and any amount.
THEOREM AllocateCapped ==
    ASSUME NEW deficit \in [Legs -> Nat], NEW av \in Nat
    PROVE  /\ Allocate(deficit, av) \in [Legs -> Nat]
           /\ \A i \in Legs : Allocate(deficit, av)[i] <= deficit[i]
<1> DEFINE k == Cardinality(Needy(deficit))
           need == [i \in Legs |-> Larger(deficit[i] - 1, 0)]
           one == [i \in Legs |-> IF i \in Needy(deficit) THEN 1 ELSE 0]
           rest == Proportional(need, av - k)
<1>1. k \in Nat
  BY LegsFinite, FS_Subset, FS_CardinalityType DEF Needy
<1>2. /\ need \in [Legs -> Nat] /\ one \in [Legs -> Nat]
      /\ \A i \in Legs : one[i] + need[i] = deficit[i]
  BY DEF Larger, Needy
<1>3. Allocate(deficit, av) =
        IF k = 0 \/ av <= 0 THEN Nothing
        ELSE IF av < k THEN OneWeiToLargest(deficit, av)
        ELSE IF Total(need) = 0 \/ av = k THEN one
        ELSE [i \in Legs |-> one[i] + rest[i]]
  BY DEF Allocate
<1> HIDE DEF k, need, one
<1>4. CASE k = 0 \/ av <= 0
  BY <1>3, <1>4 DEF Nothing
<1>5. CASE ~(k = 0 \/ av <= 0) /\ av < k
  BY <1>3, <1>5 DEF OneWeiToLargest, Needy
<1>6. CASE ~(k = 0 \/ av <= 0) /\ ~(av < k) /\ (Total(need) = 0 \/ av = k)
  BY <1>2, <1>3, <1>6
<1>7. CASE ~(k = 0 \/ av <= 0) /\ ~(av < k) /\ ~(Total(need) = 0 \/ av = k)
  <2>1. av - k \in Nat
    BY <1>1, <1>7
  <2>2. rest \in [Legs -> Nat] /\ \A i \in Legs : rest[i] <= need[i]
    BY <1>2, <1>7, <2>1, ProportionalCapped
  <2>3. QED
    BY <1>2, <1>3, <1>7, <2>2
<1>8. QED
  BY <1>4, <1>5, <1>6, <1>7

-----------------------------------------------------------------------------
(* The split hands out the amount, or covers every deficit *)

LEMMA NeedyFinite ==
    ASSUME NEW deficit \in [Legs -> Nat]
    PROVE  /\ Needy(deficit) \in SUBSET Legs /\ IsFiniteSet(Needy(deficit))
           /\ Cardinality(Needy(deficit)) \in Nat
BY LegsFinite, FS_Subset, FS_CardinalityType DEF Needy

\* Fewer wei than needy legs: as many legs as there are wei get one.
LEMMA ScarceExact ==
    ASSUME NEW deficit \in [Legs -> Nat], NEW av \in Nat,
           av < Cardinality(Needy(deficit))
    PROVE  Total(OneWeiToLargest(deficit, av)) = av
<1> DEFINE I == Needy(deficit)
           Before(i) == SortedBefore(deficit, I, i)
           W == {i \in I : Cardinality(Before(i)) < av}
<1>1. I \in SUBSET Legs /\ IsFiniteSet(I) /\ Cardinality(I) \in Nat
  BY NeedyFinite
<1>2. \A i \in Legs : IsFiniteSet(Before(i)) /\ Cardinality(Before(i)) \in Nat
                      /\ i \notin Before(i)
  <2>1. \A i \in Legs : deficit[i] \in Nat /\ i \in Nat
    BY DEF Legs
  <2>2. ASSUME NEW i \in Legs PROVE Before(i) \subseteq I /\ i \notin Before(i)
    BY <2>1 DEF SortedBefore
  <2> HIDE DEF Before, I
  <2>3. QED
    BY <1>1, <2>2, FS_Subset, FS_CardinalityType
<1>3. Total(OneWeiToLargest(deficit, av)) = Cardinality(W)
  <2>1. W \in SUBSET Legs
    BY <1>1
  <2>2. \A i \in Legs : OneWeiToLargest(deficit, av)[i] = IF i \in W THEN 1 ELSE 0
    BY DEF OneWeiToLargest
  <2> HIDE DEF W
  <2>3. QED
    BY <2>1, <2>2, LegsFinite, SumCounts DEF Total
<1>4. W \subseteq I /\ IsFiniteSet(W) /\ Cardinality(W) \in Nat
  <2>1. W \subseteq I
    OBVIOUS
  <2> HIDE DEF W, I
  <2>2. QED
    BY <1>1, <2>1, FS_Subset, FS_CardinalityType
<1>5. Cardinality(W) <= av
  <2>1. CASE W = {}
    BY <2>1, FS_EmptySet
  <2>2. CASE W # {}
    <3>1. PICK i \in W : W \ {i} \subseteq Before(i)
      <4> HIDE DEF W, I
      <4>1. QED
        BY <1>1, <1>4, <2>2, LastServed
    <3>2. i \in Legs /\ Cardinality(Before(i)) < av
      BY <1>1
    <3>3. Cardinality(W \ {i}) = Cardinality(W) - 1
      BY <1>4, <3>1, FS_RemoveElement
    <3> HIDE DEF W, Before, I
    <3>4. Cardinality(W \ {i}) <= Cardinality(Before(i))
      BY <1>2, <3>1, <3>2, FS_Subset
    <3>5. Cardinality(Before(i)) \in Nat
      BY <1>2, <3>2
    <3>6. QED
      BY <1>4, <3>2, <3>3, <3>4, <3>5
  <2>3. QED
    BY <2>1, <2>2
<1>6. Cardinality(W) >= av
  <2>1. I \ W # {}
    BY <1>1, <1>4, <1>5
  <2>2. PICK i \in I \ W : Before(i) \cap (I \ W) = {}
    <3>1. I \ W \in SUBSET I
      OBVIOUS
    <3> DEFINE J == I \ W
    <3> HIDE DEF J
    <3>2. \E i \in J : Before(i) \cap J = {}
      <4> HIDE DEF I
      <4>1. QED
        BY <1>1, <2>1, <3>1, FirstServed DEF J
    <3>3. QED
      BY <3>2 DEF J
  <2>3. i \in Legs /\ ~(Cardinality(Before(i)) < av)
    BY <1>1
  <2>4. Before(i) \subseteq I
    BY DEF SortedBefore
  <2>5. Before(i) \subseteq W
    BY <2>2, <2>4
  <2> HIDE DEF W, Before, I
  <2>6. Cardinality(Before(i)) <= Cardinality(W)
    BY <1>4, <2>5, FS_Subset
  <2>7. QED
    BY <1>2, <1>4, <2>3, <2>6
<1>7. QED
  BY <1>3, <1>4, <1>5, <1>6

\* The floors and the rounding leftover together are the amount, or every need.
LEMMA ProportionalExact ==
    ASSUME NEW need \in [Legs -> Nat], NEW rem \in Nat, Total(need) # 0
    PROVE  Total(Proportional(need, rem)) = Smaller(rem, Total(need))
<1> DEFINE quota == Quotients(need, rem)
           room == Rooms(need, rem)
           left == Leftover(need, rem)
           fill == Fill(Residues(need, rem), Needy(need), room, left)
           both == [i \in Legs |-> quota[i] + fill[i]]
<1>1. Needy(need) \in SUBSET Legs
  BY DEF Needy
<1>2. /\ quota \in [Legs -> Nat] /\ room \in [Legs -> Nat]
      /\ Total(quota) \in Nat /\ Total(room) \in Nat /\ left \in Nat
      /\ Total(need) = Total(quota) + Total(room)
      /\ Proportional(need, rem) = both
  BY ProportionalParts
<1>3. rem = Total(quota) + left
  BY <1>2 DEF Leftover
<1>4. /\ \A i \in Legs : fill[i] \in 0..room[i]
      /\ Total(fill) = Smaller(left, Total(room))
  <2>1. /\ Residues(need, rem) \in [Legs -> Nat]
        /\ \A i \in Legs \ Needy(need) : room[i] = 0
    BY ProportionalParts
  <2> HIDE DEF room, left
  <2>2. QED
    BY <1>1, <1>2, <2>1, GreedyFill
<1>5. \A i \in Legs : both[i] = quota[i] + fill[i]
  OBVIOUS
<1> HIDE DEF quota, room, left, fill, both
<1>6. \A i \in Legs : fill[i] \in Nat
  BY <1>2, <1>4
<1>7. Total(both) = Total(quota) + Total(fill)
  BY <1>2, <1>5, <1>6, LegsFinite, SumPlus DEF Total
<1>8. \A q, l, r \in Nat : q + Smaller(l, r) = Smaller(q + l, q + r)
  BY DEF Smaller
<1>9. QED
  BY <1>2, <1>3, <1>4, <1>7, <1>8

\* The split is exact: it hands out the whole amount, or covers every deficit, and
\* never more than either.
THEOREM AllocateExact ==
    ASSUME NEW deficit \in [Legs -> Nat], NEW av \in Nat
    PROVE  Total(Allocate(deficit, av)) = Smaller(av, Total(deficit))
<1> DEFINE k == Cardinality(Needy(deficit))
           need == [i \in Legs |-> Larger(deficit[i] - 1, 0)]
           one == [i \in Legs |-> IF i \in Needy(deficit) THEN 1 ELSE 0]
           rest == Proportional(need, av - k)
           sum == [i \in Legs |-> one[i] + rest[i]]
<1>1. k \in Nat
  BY NeedyFinite
<1>2. /\ need \in [Legs -> Nat] /\ one \in [Legs -> Nat]
      /\ \A i \in Legs : deficit[i] = one[i] + need[i]
  BY DEF Larger, Needy
<1>3. Total(one) = k
  <2>1. \A i \in Legs : one[i] = IF i \in Needy(deficit) THEN 1 ELSE 0
    OBVIOUS
  <2>2. Needy(deficit) \in SUBSET Legs
    BY NeedyFinite
  <2> HIDE DEF one
  <2>3. QED
    BY <2>1, <2>2, LegsFinite, SumCounts DEF Total
<1>4. Allocate(deficit, av) =
        IF k = 0 \/ av <= 0 THEN Nothing
        ELSE IF av < k THEN OneWeiToLargest(deficit, av)
        ELSE IF Total(need) = 0 \/ av = k THEN one
        ELSE sum
  BY DEF Allocate
<1> HIDE DEF k, need, one, rest
<1>5. /\ Total(need) \in Nat /\ Total(deficit) \in Nat
      /\ Total(deficit) = k + Total(need)
  BY <1>2, <1>3, LegsFinite, SumPlus, TotalNat DEF Total
<1>6. CASE k = 0 \/ av <= 0
  <2>1. Total(Nothing) = 0
    BY SumZero DEF Total, Nothing
  <2>2. k = 0 => Total(deficit) = 0
    <3>1. k = 0 => Needy(deficit) = {}
      BY NeedyFinite, FS_EmptySet DEF k
    <3>2. Needy(deficit) = {} => \A i \in Legs : deficit[i] = 0
      BY DEF Needy
    <3>3. QED
      BY <3>1, <3>2, SumZero DEF Total
  <2>3. QED
    BY <1>4, <1>5, <1>6, <2>1, <2>2 DEF Smaller
<1>7. CASE ~(k = 0 \/ av <= 0) /\ av < k
  <2>1. Total(OneWeiToLargest(deficit, av)) = av
    BY <1>7, ScarceExact DEF k
  <2>2. QED
    BY <1>1, <1>4, <1>5, <1>7, <2>1 DEF Smaller
<1>8. CASE ~(k = 0 \/ av <= 0) /\ ~(av < k) /\ (Total(need) = 0 \/ av = k)
  BY <1>1, <1>3, <1>4, <1>5, <1>8 DEF Smaller
<1>9. CASE ~(k = 0 \/ av <= 0) /\ ~(av < k) /\ ~(Total(need) = 0 \/ av = k)
  <2>1. av - k \in Nat
    BY <1>1, <1>9
  <2>2. rest \in [Legs -> Nat] /\ Total(rest) = Smaller(av - k, Total(need))
    BY <1>2, <1>9, <2>1, ProportionalCapped, ProportionalExact DEF rest
  <2>3. \A i \in Legs : sum[i] = one[i] + rest[i]
    OBVIOUS
  <2>4. Allocate(deficit, av) = sum
    BY <1>4, <1>9
  <2> HIDE DEF sum
  <2>5. Total(sum) = Total(one) + Total(rest)
    BY <1>2, <2>2, <2>3, LegsFinite, SumPlus DEF Total
  <2>6. \A a, b, n \in Nat : a - b \in Nat => b + Smaller(a - b, n) = Smaller(a, b + n)
    BY DEF Smaller
  <2>7. QED
    BY <1>1, <1>3, <1>5, <2>1, <2>2, <2>4, <2>5, <2>6
<1>10. QED
  BY <1>6, <1>7, <1>8, <1>9

\* With a wei for each, no account in need goes away empty, so that rounding never
\* gives everything to the EntryPoint deposit.
THEOREM AllocateServesAll ==
    ASSUME NEW deficit \in [Legs -> Nat], NEW av \in Nat,
           av >= Cardinality(Needy(deficit)), NEW i \in Needy(deficit)
    PROVE  Allocate(deficit, av)[i] > 0
<1> DEFINE k == Cardinality(Needy(deficit))
           need == [j \in Legs |-> Larger(deficit[j] - 1, 0)]
           one == [j \in Legs |-> IF j \in Needy(deficit) THEN 1 ELSE 0]
           rest == Proportional(need, av - k)
<1>1. k \in Nat /\ k # 0 /\ i \in Legs
  <2>1. k # 0
    BY NeedyFinite, FS_EmptySet
  <2>2. QED
    BY <2>1, NeedyFinite
<1>2. Allocate(deficit, av) =
        IF Total(need) = 0 \/ av = k THEN one ELSE [j \in Legs |-> one[j] + rest[j]]
  <2>1. ~(k = 0 \/ av <= 0) /\ ~(av < k)
    BY <1>1
  <2>2. QED
    BY <2>1 DEF Allocate
<1>3. need \in [Legs -> Nat] /\ av - k \in Nat
  BY <1>1 DEF Larger
<1>4. one[i] = 1
  BY <1>1
<1> HIDE DEF need, one, k, rest
<1>5. ~(Total(need) = 0 \/ av = k) => rest[i] \in Nat
  BY <1>1, <1>3, ProportionalCapped DEF rest
<1>6. QED
  BY <1>1, <1>2, <1>4, <1>5
-----------------------------------------------------------------------------
(* The split is nearly proportional *)

LEMMA TimesOrder ==
    ASSUME NEW a \in Nat, NEW b \in Nat, NEW c \in Nat, NEW d \in Nat, a <= c, b <= d
    PROVE  a * b <= c * d
<1>1. a * b <= c * b
  BY TimesMonotone
<1>2. b * c <= d * c
  BY TimesMonotone
<1>3. b * c = c * b /\ d * c = c * d
  OBVIOUS
<1>4. a * b \in Nat /\ c * b \in Nat /\ c * d \in Nat
  BY TimesNat
<1>5. QED
  BY <1>1, <1>2, <1>3, <1>4

\* One wei in advance and a part of the leftover, on top of a floor, move a leg by
\* less than as many wei as there are legs in need: upwards ...
LEMMA NearFromAbove ==
    ASSUME NEW n \in Nat, NEW q \in Nat, NEW f \in Nat, NEW k \in Nat \ {0}, NEW S \in Nat,
           NEW rem \in Nat, f < k, q <= n, q * S <= n * rem
    PROVE  (1 + q + f) * (k + S) < k * (k + S) + (1 + n) * (k + rem)
<1>1. (1 + q + f) * (k + S) <= (q + k) * (k + S)
  BY TimesOrder
<1>2. (q + k) * (k + S) = q * k + q * S + k * (k + S)
  OBVIOUS
<1>3. (1 + n) * (k + rem) = k + rem + n * k + n * rem
  OBVIOUS
<1>4. q * k <= n * k
  BY TimesMonotone
<1>5. /\ q * k \in Nat /\ q * S \in Nat /\ n * k \in Nat /\ n * rem \in Nat
      /\ k * (k + S) \in Nat /\ (1 + q + f) * (k + S) \in Nat
  OBVIOUS
<1>6. QED
  BY <1>1, <1>2, <1>3, <1>4, <1>5

\* ... and downwards.
LEMMA NearFromBelow ==
    ASSUME NEW n \in Nat, NEW q \in Nat, NEW f \in Nat, NEW k \in Nat \ {0}, NEW S \in Nat,
           NEW rem \in Nat, NEW r \in Nat,
           n * rem = q * S + r, r < S, n <= S, rem < S, q <= n
    PROVE  (1 + n) * (k + rem) < k * (k + S) + (1 + q + f) * (k + S)
<1> DEFINE a == n - q
           b == S - rem
<1>1. a \in Nat /\ b \in Nat \ {0} /\ n = q + a /\ S = rem + b
  OBVIOUS
<1>2. a <= b
  <2> SUFFICES ASSUME b + 1 <= a PROVE FALSE
    BY <1>1
  <2>1. (b + 1) * S <= a * S
    BY <1>1, TimesOrder
  <2>2. (b + 1) * S = b * S + S
    BY <1>1
  <2>3. n * S = q * S + a * S
    BY <1>1
  <2>4. n * S = n * rem + n * b
    BY <1>1
  <2>5. n * b <= S * b
    BY <1>1, TimesMonotone
  <2>6. S * b = b * S
    BY <1>1
  <2>7. /\ q * S \in Nat /\ a * S \in Nat /\ n * S \in Nat /\ n * b \in Nat /\ b * S \in Nat
        /\ n * rem \in Nat
    BY <1>1
  <2> HIDE DEF a, b
  <2>8. QED
    BY <2>1, <2>2, <2>3, <2>4, <2>5, <2>6, <2>7
<1>3. a * k + rem <= S * k
  <2>1. a * k <= b * k
    BY <1>1, <1>2, TimesMonotone
  <2>2. S * k = rem * k + b * k
    BY <1>1
  <2>3. rem * 1 <= rem * k
    BY TimesOrder
  <2>4. a * k \in Nat /\ b * k \in Nat /\ rem * k \in Nat /\ S * k \in Nat /\ rem * 1 = rem
    BY <1>1
  <2> HIDE DEF a, b
  <2>5. QED
    BY <2>1, <2>2, <2>3, <2>4
<1>4. (1 + n) * (k + rem) = k + rem + q * k + a * k + (q * S + r)
  <2>1. (1 + n) * (k + rem) = k + rem + n * k + n * rem
    OBVIOUS
  <2>2. n * k = q * k + a * k
    BY <1>1
  <2> HIDE DEF a
  <2>3. q * k \in Nat /\ a * k \in Nat /\ n * k \in Nat /\ n * rem \in Nat /\ q * S \in Nat
    BY <1>1
  <2>4. QED
    BY <2>1, <2>2, <2>3
<1>5. (1 + q) * (k + S) = k + S + q * k + q * S
  OBVIOUS
<1>6. (1 + q) * (k + S) <= (1 + q + f) * (k + S)
  BY TimesOrder
<1>7. k * (k + S) = k * k + S * k
  OBVIOUS
<1>8. /\ q * k \in Nat /\ q * S \in Nat /\ a * k \in Nat /\ k * k \in Nat /\ S * k \in Nat
      /\ (1 + q + f) * (k + S) \in Nat
  BY <1>1
<1> HIDE DEF a, b
<1>9. QED
  BY <1>3, <1>4, <1>5, <1>6, <1>7, <1>8

\* What rounding leaves over is less than one wei per leg in need.
LEMMA LeftoverSmall ==
    ASSUME NEW deficit \in [Legs -> Nat], NEW rem \in Nat,
           Total(Reduced(deficit)) # 0, rem < Total(Reduced(deficit))
    PROVE  Leftover(Reduced(deficit), rem) < Cardinality(Needy(deficit))
<1> DEFINE need == Reduced(deficit)
           S == Total(need)
           c == OneEach(deficit)
           k == Cardinality(Needy(deficit))
           quota == Quotients(need, rem)
           left == Leftover(need, rem)
           p1 == [i \in Legs |-> quota[i] * S]
           p2 == [i \in Legs |-> c[i] * (S - 1)]
           p == [i \in Legs |-> p1[i] + p2[i]]
<1>1. need \in [Legs -> Nat]
  BY DEF Reduced, Larger
<1>2. /\ S \in Nat \ {0} /\ quota \in [Legs -> Nat] /\ Total(quota) \in Nat
      /\ left \in Nat /\ left = rem - Total(quota)
  BY <1>1, TotalNat, ProportionalParts DEF Leftover
<1>3. c \in [Legs -> Nat] /\ Total(c) = k /\ k \in Nat
  <2>1. \A i \in Legs : c[i] = IF i \in Needy(deficit) THEN 1 ELSE 0
    BY DEF OneEach
  <2>2. Needy(deficit) \in SUBSET Legs /\ k \in Nat
    BY NeedyFinite
  <2>3. c \in [Legs -> Nat]
    BY DEF OneEach
  <2> HIDE DEF c
  <2>4. QED
    BY <2>1, <2>2, <2>3, LegsFinite, SumCounts DEF Total
<1>4. ASSUME NEW i \in Legs PROVE need[i] * rem <= p[i] * 1
  <2> DEFINE q == (need[i] * rem) \div S
             r == (need[i] * rem) % S
  <2>1. /\ q \in Nat /\ r \in Nat /\ r < S /\ q * S + r = need[i] * rem /\ need[i] * rem \in Nat
    BY <1>1, QuotientFacts
  <2>2. need[i] <= S /\ need[i] \in Nat
    BY <1>1, LegsFinite, SumAtLeast DEF Total
  <2>3. quota[i] = Smaller(q, need[i])
    BY DEF Quotients
  <2>4. c[i] = IF deficit[i] > 0 THEN 1 ELSE 0
    BY DEF OneEach, Needy
  <2>5. need[i] = Larger(deficit[i] - 1, 0) /\ deficit[i] \in Nat
    BY DEF Reduced
  <2>6. p[i] = quota[i] * S + c[i] * (S - 1)
    OBVIOUS
  <2> HIDE DEF need, q, r, quota, c, p, S
  <2>7. q <= need[i]
    <3> SUFFICES ASSUME need[i] + 1 <= q PROVE FALSE
      BY <2>1, <2>2
    <3>1. (need[i] + 1) * S <= q * S
      BY <1>2, <2>1, <2>2, TimesOrder
    <3>2. (need[i] + 1) * S = need[i] * S + S
      BY <1>2, <2>2
    <3>3. need[i] * rem <= need[i] * S
      BY <1>2, <2>2, TimesOrder DEF S, need
    <3>4. need[i] * S \in Nat /\ q * S \in Nat
      BY <1>2, <2>1, <2>2
    <3>5. QED
      BY <1>2, <2>1, <3>1, <3>2, <3>3, <3>4
  <2>8. quota[i] = q
    BY <2>1, <2>2, <2>3, <2>7 DEF Smaller
  <2>9. CASE deficit[i] > 0
    <3>1. c[i] * (S - 1) = S - 1
      BY <1>2, <2>4, <2>9
    <3>2. q * S \in Nat
      BY <1>2, <2>1
    <3>3. QED
      BY <1>2, <2>1, <2>6, <2>8, <3>1, <3>2
  <2>10. CASE ~(deficit[i] > 0)
    <3>1. need[i] = 0
      BY <2>5, <2>10 DEF Larger
    <3>2. need[i] * rem = 0
      BY <3>1
    <3>3. quota[i] * S \in Nat /\ c[i] * (S - 1) \in Nat
      BY <1>2, <2>1, <2>4, <2>8
    <3>4. QED
      BY <2>6, <3>2, <3>3
  <2>11. QED
    BY <2>9, <2>10
<1>5. /\ \A i \in Legs : p1[i] \in Nat /\ p2[i] \in Nat /\ p[i] \in Nat
      /\ \A i \in Legs : p[i] = p1[i] + p2[i]
      /\ \A i \in Legs : p1[i] * 1 <= quota[i] * S
      /\ \A i \in Legs : p2[i] * 1 <= c[i] * (S - 1)
  <2> HIDE DEF S, quota, c
  <2>1. ASSUME NEW i \in Legs
        PROVE  /\ quota[i] * S \in Nat /\ c[i] * (S - 1) \in Nat
               /\ quota[i] * S + c[i] * (S - 1) \in Nat
    <3>1. S - 1 \in Nat /\ quota[i] \in Nat /\ c[i] \in Nat
      BY <1>2, <1>3
    <3>2. QED
      BY <1>2, <3>1, TimesNat
  <2>2. QED
    BY <2>1
<1> HIDE DEF p1, p2, p, c, quota, left, k
<1>6. S * rem <= Total(p) * 1
  BY <1>1, <1>4, <1>5, LegsFinite, SumScaled DEF Total
<1>7. Total(p) = Total(p1) + Total(p2) /\ Total(p1) \in Nat /\ Total(p2) \in Nat
  BY <1>5, LegsFinite, SumPlus, SumNat DEF Total
<1> HIDE DEF S, need
<1>8. Total(p1) * 1 <= Total(quota) * S
  BY <1>2, <1>5, LegsFinite, SumScaled DEF Total
<1>9. Total(p2) * 1 <= k * (S - 1)
  <2>1. S - 1 \in Nat
    BY <1>2
  <2>2. Total(p2) * 1 <= Total(c) * (S - 1)
    BY <1>3, <1>5, <2>1, LegsFinite, SumScaled DEF Total
  <2>3. QED
    BY <1>3, <2>2
<1>10. S * rem <= Total(quota) * S + k * (S - 1)
  <2>1. k * (S - 1) \in Nat /\ Total(quota) * S \in Nat /\ S * rem \in Nat
    BY <1>2, <1>3
  <2>2. QED
    BY <1>6, <1>7, <1>8, <1>9, <2>1
<1>11. left * S <= k * (S - 1)
  <2>1. rem = Total(quota) + left
    BY <1>2
  <2>2. S * rem = Total(quota) * S + left * S
    BY <1>2, <2>1
  <2>3. k * (S - 1) \in Nat /\ Total(quota) * S \in Nat /\ left * S \in Nat
    BY <1>2, <1>3
  <2>4. QED
    BY <1>10, <2>2, <2>3
<1>12. k # 0
  <2>1. CASE k = 0
    <3>1. Needy(deficit) = {}
      BY <2>1, NeedyFinite, FS_EmptySet DEF k
    <3>2. \A i \in Legs : need[i] = 0
      BY <3>1 DEF Needy, need, Reduced, Larger
    <3>3. Total(need) = 0
      BY <3>2, SumZero DEF Total
    <3>4. QED
      BY <1>2, <3>3 DEF S
  <2>2. QED
    BY <2>1
<1>13. left < k
  <2> SUFFICES ASSUME k <= left PROVE FALSE
    BY <1>2, <1>3
  <2>1. k * S <= left * S
    BY <1>2, <1>3, TimesMonotone
  <2>2. k * (S - 1) = k * S - k
    BY <1>2, <1>3
  <2>3. k * S \in Nat /\ left * S \in Nat
    BY <1>2, <1>3
  <2>4. QED
    BY <1>3, <1>11, <1>12, <2>1, <2>2, <2>3
<1>14. QED
  BY <1>13 DEF left, k, need
\* The share of leg i is deficit[i] * the amount handed out / the total deficit;
\* the split is within as many wei of it as there are legs.
Near(deficit, av, given) ==
    LET T == Total(deficit)
        m == Smaller(av, T)
    IN  \A i \in Legs : /\ given[i] * T < NLegs * T + deficit[i] * m
                        /\ deficit[i] * m < NLegs * T + given[i] * T

LEMMA LegInTotal ==
    ASSUME NEW deficit \in [Legs -> Nat], NEW i \in Legs
    PROVE  /\ deficit[i] \in Nat /\ Total(deficit) \in Nat /\ deficit[i] <= Total(deficit)
           /\ Cardinality(Needy(deficit)) \in 0..NLegs
<1>1. deficit[i] \in Nat /\ Total(deficit) \in Nat /\ deficit[i] <= Total(deficit)
  BY TotalNat, LegsFinite, SumAtLeast DEF Total
<1>2. NLegs \in Nat /\ 1 \in Int /\ NLegs \in Int
  BY NLegsAssumption
<1>3. Cardinality(Legs) = NLegs
  <2>1. Cardinality(1..NLegs) = IF 1 > NLegs THEN 0 ELSE NLegs - 1 + 1
    BY <1>2, FS_Interval
  <2>2. QED
    BY <1>2, <2>1, NLegsAssumption DEF Legs
<1>4. Cardinality(Needy(deficit)) <= NLegs
  BY <1>3, NeedyFinite, LegsFinite, FS_Subset
<1>5. QED
  BY <1>1, <1>2, <1>4, NeedyFinite

\* No wei for anybody, or each leg's deficit: the split is the exact share.
LEMMA NearExact ==
    ASSUME NEW deficit \in [Legs -> Nat], NEW av \in Nat, Total(deficit) > 0,
           av >= Total(deficit)
    PROVE  Near(deficit, av, deficit)
<1> DEFINE T == Total(deficit)
<1>1. T \in Nat \ {0} /\ Smaller(av, T) = T
  BY TotalNat DEF Smaller
<1>2. NLegs * T \in Nat \ {0}
  BY <1>1, NLegsAssumption
<1>3. ASSUME NEW i \in Legs
      PROVE  deficit[i] * T < NLegs * T + deficit[i] * T
  <2>1. deficit[i] * T \in Nat
    BY <1>1
  <2>2. QED
    BY <1>2, <2>1
<1> HIDE DEF T
<1>4. QED
  BY <1>1, <1>3 DEF Near, T

\* Fewer wei than legs in need.
LEMMA NearScarce ==
    ASSUME NEW deficit \in [Legs -> Nat], NEW av \in Nat,
           0 < av, av < Cardinality(Needy(deficit)), Total(deficit) > 0
    PROVE  Near(deficit, av, OneWeiToLargest(deficit, av))
<1> DEFINE T == Total(deficit)
           given == OneWeiToLargest(deficit, av)
           m == Smaller(av, T)
<1>1. T \in Nat \ {0} /\ NLegs \in Nat
  BY TotalNat, NLegsAssumption
<1>2. ASSUME NEW i \in Legs
      PROVE  /\ given[i] * T < NLegs * T + deficit[i] * m
             /\ deficit[i] * m < NLegs * T + given[i] * T
  <2>1. /\ deficit[i] \in Nat /\ deficit[i] <= T /\ given[i] \in {0, 1}
        /\ Cardinality(Needy(deficit)) \in 0..NLegs
    BY LegInTotal DEF OneWeiToLargest
  <2>2. m \in Nat /\ m <= NLegs - 1 /\ 2 <= NLegs /\ NLegs - 1 \in Nat
    BY <1>1, <2>1 DEF Smaller
  <2> HIDE DEF T, given, m
  <2>3. deficit[i] * m <= T * (NLegs - 1)
    BY <1>1, <2>1, <2>2, TimesOrder
  <2>4. T * (NLegs - 1) = NLegs * T - T
    BY <1>1
  <2>5. 2 * T <= NLegs * T
    BY <1>1, <2>2, TimesMonotone
  <2>6. given[i] * T <= T /\ given[i] * T \in Nat
    BY <1>1, <2>1
  <2>7. deficit[i] * m \in Nat /\ NLegs * T \in Nat
    BY <1>1, <2>1, <2>2
  <2>8. QED
    BY <1>1, <2>3, <2>4, <2>5, <2>6, <2>7
<1>3. QED
  BY <1>2 DEF Near

\* As many wei as legs in need.
LEMMA NearOneEach ==
    ASSUME NEW deficit \in [Legs -> Nat], NEW av \in Nat, 0 < av,
           av = Cardinality(Needy(deficit)), Total(deficit) >= av
    PROVE  Near(deficit, av, OneEach(deficit))
<1> DEFINE T == Total(deficit)
           given == OneEach(deficit)
<1>1. T \in Nat \ {0} /\ NLegs \in Nat \ {0} /\ Smaller(av, T) = av
  BY TotalNat, NLegsAssumption DEF Smaller
<1>2. ASSUME NEW i \in Legs
      PROVE  /\ given[i] * T < NLegs * T + deficit[i] * av
             /\ deficit[i] * av < NLegs * T + given[i] * T
  <2>1. /\ deficit[i] \in Nat /\ deficit[i] <= T /\ av <= NLegs
        /\ given[i] = IF deficit[i] > 0 THEN 1 ELSE 0
    BY LegInTotal DEF OneEach, Needy
  <2>2. NLegs * T \in Nat \ {0} /\ T <= NLegs * T
    <3>1. 1 * T <= NLegs * T
      BY <1>1, TimesMonotone
    <3>2. NLegs * T \in Nat \ {0} /\ 1 * T = T
      BY <1>1
    <3>3. QED
      BY <3>1, <3>2
  <2> HIDE DEF T, given
  <2>3. CASE deficit[i] > 0
    <3>1. deficit[i] * av <= T * NLegs /\ T * NLegs = NLegs * T
      BY <1>1, <2>1, TimesOrder
    <3>2. 1 * 1 <= deficit[i] * av
      BY <2>1, <2>3, TimesOrder
    <3>3. given[i] * T = T /\ deficit[i] * av \in Nat
      BY <1>1, <2>1, <2>3
    <3>4. QED
      BY <1>1, <2>2, <3>1, <3>2, <3>3
  <2>4. CASE ~(deficit[i] > 0)
    <3>1. given[i] * T = 0 /\ deficit[i] * av = 0
      BY <1>1, <2>1, <2>4
    <3>2. QED
      BY <2>2, <3>1
  <2>5. QED
    BY <2>3, <2>4
<1>3. QED
  BY <1>1, <1>2 DEF Near

\* More wei than legs in need, but not enough for every deficit.
LEMMA NearProportional ==
    ASSUME NEW deficit \in [Legs -> Nat], NEW rem \in Nat \ {0},
           rem < Total(Reduced(deficit)),
           Total(deficit) = Cardinality(Needy(deficit)) + Total(Reduced(deficit))
    PROVE  Near(deficit, Cardinality(Needy(deficit)) + rem,
                [i \in Legs |-> OneEach(deficit)[i] + Proportional(Reduced(deficit), rem)[i]])
<1> DEFINE need == Reduced(deficit)
           S == Total(need)
           k == Cardinality(Needy(deficit))
           T == Total(deficit)
           quota == Quotients(need, rem)
           room == Rooms(need, rem)
           left == Leftover(need, rem)
           fill == Fill(Residues(need, rem), Needy(need), room, left)
           share == Proportional(need, rem)
           given == [i \in Legs |-> OneEach(deficit)[i] + share[i]]
<1>1. need \in [Legs -> Nat] /\ S \in Nat \ {0} /\ T \in Nat
  <2>1. need \in [Legs -> Nat]
    BY DEF Reduced, Larger
  <2>2. QED
    BY <2>1, TotalNat
<1>2. k \in Nat /\ T = k + S
  BY NeedyFinite
<1>3. left < k /\ left \in Nat
  BY <1>1, LeftoverSmall, ProportionalParts
<1>4. k \in Nat \ {0} /\ Smaller(k + rem, T) = k + rem
  BY <1>1, <1>2, <1>3 DEF Smaller
<1>5. ASSUME NEW i \in Legs
      PROVE  /\ given[i] * T < NLegs * T + deficit[i] * (k + rem)
             /\ deficit[i] * (k + rem) < NLegs * T + given[i] * T
  <2> DEFINE q == (need[i] * rem) \div S
             r == (need[i] * rem) % S
             n == need[i]
             f == fill[i]
  <2>1. /\ q \in Nat /\ r \in Nat /\ r < S /\ q * S + r = n * rem /\ n * rem \in Nat
    BY <1>1, QuotientFacts
  <2>2. n <= S /\ n \in Nat
    BY <1>1, LegsFinite, SumAtLeast DEF Total
  <2>3. share[i] = quota[i] + f /\ quota[i] = Smaller(q, n)
    <3>1. share = [j \in Legs |-> quota[j] + fill[j]]
      BY <1>1, ProportionalParts
    <3>2. QED
      BY <3>1 DEF Quotients
  <2>4. f \in Nat /\ f <= left
    <3>1. fill[i] = Smaller(room[i],
                        Larger(left - SumOver(room, SortedBefore(Residues(need, rem), Needy(need), i)), 0))
      BY DEF Fill
    <3>2. room \in [Legs -> Nat]
      BY <1>1, ProportionalParts
    <3> DEFINE before == SortedBefore(Residues(need, rem), Needy(need), i)
    <3>3. before \in SUBSET Legs
      BY DEF SortedBefore, Needy
    <3> HIDE DEF before, room, left, fill
    <3>4. SumOver(room, before) \in Nat /\ room[i] \in Nat
      BY <3>2, <3>3, PartNat
    <3>5. fill[i] = Smaller(room[i], Larger(left - SumOver(room, before), 0))
      BY <3>1 DEF before
    <3>6. QED
      BY <1>3, <3>4, <3>5 DEF Smaller, Larger
  <2>5. /\ deficit[i] \in Nat /\ n = Larger(deficit[i] - 1, 0)
        /\ given[i] = (IF deficit[i] > 0 THEN 1 ELSE 0) + share[i]
    BY DEF Reduced, OneEach, Needy
  <2>6. share[i] \in Nat /\ share[i] <= n
    BY <1>1, ProportionalCapped
  <2>7. k <= NLegs /\ NLegs \in Nat
    BY <1>2, LegInTotal, NLegsAssumption
  <2> HIDE DEF need, S, k, T, quota, left, fill, share, given, q, r, n, f
  <2>8. q <= n
    <3> SUFFICES ASSUME n + 1 <= q PROVE FALSE
      BY <2>1, <2>2
    <3>1. (n + 1) * S <= q * S
      BY <1>1, <2>1, <2>2, TimesOrder
    <3>2. (n + 1) * S = n * S + S
      BY <1>1, <2>2
    <3>3. n * rem <= n * S
      BY <1>1, <2>2, TimesOrder DEF S, need
    <3>4. n * S \in Nat /\ q * S \in Nat
      BY <1>1, <2>1, <2>2
    <3>5. QED
      BY <1>1, <2>1, <3>1, <3>2, <3>3, <3>4
  <2>9. quota[i] = q
    BY <2>1, <2>2, <2>3, <2>8 DEF Smaller
  <2>10. k * T <= NLegs * T /\ k * T \in Nat /\ NLegs * T \in Nat
    BY <1>1, <1>2, <2>7, TimesMonotone
  <2>11. rem < S
    BY DEF S, need
  <2>12. CASE deficit[i] > 0
    <3>1. deficit[i] = 1 + n /\ given[i] = 1 + q + f
      BY <2>1, <2>3, <2>4, <2>5, <2>9, <2>12 DEF Larger
    <3>2. q * S <= n * rem
      <4>1. q * S \in Nat
        BY <1>1, <2>1
      <4>2. QED
        BY <2>1, <4>1
    <3>3. f < k
      BY <1>2, <1>3, <2>4
    <3>4. (1 + q + f) * (k + S) < k * (k + S) + (1 + n) * (k + rem)
      BY <1>1, <1>4, <2>1, <2>2, <2>4, <2>8, <3>2, <3>3, NearFromAbove
    <3>5. (1 + n) * (k + rem) < k * (k + S) + (1 + q + f) * (k + S)
      BY <1>1, <1>4, <2>1, <2>2, <2>4, <2>8, <2>11, NearFromBelow
    <3>6. given[i] * T \in Nat /\ deficit[i] * (k + rem) \in Nat
      BY <1>1, <1>2, <2>1, <2>4, <2>5, <3>1
    <3>7. /\ given[i] * T < k * T + deficit[i] * (k + rem)
          /\ deficit[i] * (k + rem) < k * T + given[i] * T
      BY <1>2, <3>1, <3>4, <3>5
    <3>8. QED
      BY <2>10, <3>6, <3>7
  <2>13. CASE ~(deficit[i] > 0)
    <3>1. n = 0 /\ deficit[i] = 0
      BY <2>5, <2>13 DEF Larger
    <3>2. given[i] = 0
      BY <2>5, <2>6, <2>13, <3>1
    <3>3. given[i] * T = 0 /\ deficit[i] * (k + rem) = 0
      BY <1>1, <1>2, <3>1, <3>2
    <3>4. NLegs * T > 0
      BY <1>1, <1>2, NLegsAssumption
    <3>5. QED
      BY <2>10, <3>3, <3>4
  <2>14. QED
    BY <2>12, <2>13
<1>6. QED
  BY <1>4, <1>5 DEF Near

\* With a remainder that covers what is still needed, each leg gets all of it.
LEMMA ProportionalFull ==
    ASSUME NEW need \in [Legs -> Nat], NEW rem \in Nat, Total(need) # 0, rem >= Total(need)
    PROVE  Proportional(need, rem) = need
<1> DEFINE share == Proportional(need, rem)
           gap == [i \in Legs |-> need[i] - share[i]]
<1>1. share \in [Legs -> Nat] /\ \A i \in Legs : share[i] <= need[i]
  BY ProportionalCapped
<1>2. Total(need) \in Nat
  BY TotalNat
<1>3. Total(share) = Total(need)
  BY <1>2, ProportionalExact DEF Smaller
<1> HIDE DEF share
<1>4. \A i \in Legs : gap[i] \in Nat /\ need[i] = share[i] + gap[i]
  BY <1>1
<1> HIDE DEF gap
<1>5. Total(need) = Total(share) + Total(gap) /\ Total(gap) \in Nat
  BY <1>1, <1>4, LegsFinite, SumPlus, SumNat DEF Total
<1>6. \A i \in Legs : gap[i] <= Total(gap)
  BY <1>4, LegsFinite, SumAtLeast DEF Total
<1>7. \A i \in Legs : gap[i] = 0
  BY <1>2, <1>3, <1>4, <1>5, <1>6
<1>8. \A i \in Legs : share[i] = need[i]
  BY <1>1, <1>4, <1>7
<1>9. QED
  BY <1>1, <1>8 DEF share

\* The split is fair: one wei in advance for each account in need, the floors and
\* the rounding leftover move none of them by NLegs wei or more from its exact share
\* of what is handed out; for any number of legs, any deficits and any amount.
THEOREM AllocateFair ==
    ASSUME NEW deficit \in [Legs -> Nat], NEW av \in Nat, Total(deficit) > 0
    PROVE  Near(deficit, av, Allocate(deficit, av))
<1> DEFINE k == Cardinality(Needy(deficit))
           need == Reduced(deficit)
           one == OneEach(deficit)
           rest == Proportional(need, av - k)
           T == Total(deficit)
<1>1. k \in Nat /\ k # 0
  <2>1. k = 0 => Needy(deficit) = {}
    BY NeedyFinite, FS_EmptySet
  <2>2. Needy(deficit) = {} => \A i \in Legs : deficit[i] = 0
    BY DEF Needy
  <2>3. QED
    BY <2>1, <2>2, NeedyFinite, SumZero DEF Total
<1>2. need \in [Legs -> Nat] /\ one \in [Legs -> Nat] /\ \A i \in Legs : deficit[i] = one[i] + need[i]
  BY DEF Reduced, OneEach, Larger, Needy
<1>3. Total(one) = k
  <2>1. \A i \in Legs : one[i] = IF i \in Needy(deficit) THEN 1 ELSE 0
    BY DEF OneEach
  <2>2. Needy(deficit) \in SUBSET Legs
    BY NeedyFinite
  <2> HIDE DEF one
  <2>3. QED
    BY <2>1, <2>2, LegsFinite, SumCounts DEF Total
<1>4. Allocate(deficit, av) =
        IF k = 0 \/ av <= 0 THEN Nothing
        ELSE IF av < k THEN OneWeiToLargest(deficit, av)
        ELSE IF Total(need) = 0 \/ av = k THEN one
        ELSE [i \in Legs |-> one[i] + rest[i]]
  BY DEF Allocate, Reduced, OneEach
<1> HIDE DEF k, need, one
<1>5. Total(need) \in Nat /\ T \in Nat /\ T = k + Total(need)
  BY <1>2, <1>3, LegsFinite, SumPlus, TotalNat DEF Total
<1>6. CASE av = 0
  <2>1. Allocate(deficit, av) = Nothing
    BY <1>4, <1>6
  <2>2. Smaller(av, T) = 0
    BY <1>5, <1>6 DEF Smaller
  <2>3. NLegs * T \in Nat \ {0}
    BY <1>5, NLegsAssumption
  <2>4. ASSUME NEW i \in Legs
        PROVE  Nothing[i] * T = 0 /\ deficit[i] * 0 = 0
    BY <1>5 DEF Nothing
  <2> HIDE DEF T
  <2>5. QED
    BY <2>1, <2>2, <2>3, <2>4 DEF Near, T
<1>7. CASE 0 < av /\ av < k
  BY <1>1, <1>4, <1>7, NearScarce DEF k
<1>8. CASE 0 < av /\ ~(av < k) /\ Total(need) = 0
  <2>1. Allocate(deficit, av) = one
    BY <1>1, <1>4, <1>8
  <2>2. \A i \in Legs : need[i] = 0
    BY <1>2, <1>8, LegsFinite, SumAtLeast DEF Total
  <2>3. one = deficit
    BY <1>2, <2>2
  <2>4. QED
    BY <1>1, <1>5, <1>8, <2>1, <2>3, NearExact
<1>9. CASE 0 < av /\ av = k /\ Total(need) # 0
  BY <1>1, <1>4, <1>5, <1>9, NearOneEach DEF k, one
<1>10. CASE 0 < av /\ k < av /\ Total(need) # 0
  <2>1. Allocate(deficit, av) = [i \in Legs |-> one[i] + rest[i]]
    BY <1>1, <1>4, <1>10
  <2>2. av - k \in Nat \ {0} /\ av = k + (av - k)
    BY <1>1, <1>10
  <2>3. CASE av - k >= Total(need)
    <3>1. rest = need
      BY <1>2, <1>10, <2>2, <2>3, ProportionalFull
    <3>2. Allocate(deficit, av) = deficit
      BY <1>2, <2>1, <3>1
    <3>3. av >= T
      BY <1>1, <1>5, <2>3
    <3>4. QED
      BY <3>2, <3>3, NearExact
  <2>4. CASE av - k < Total(need)
    <3> DEFINE rem == av - k
    <3>1. rem \in Nat \ {0} /\ rem < Total(Reduced(deficit)) /\ av = k + rem
      BY <2>2, <2>4 DEF need
    <3>2. Total(deficit) = Cardinality(Needy(deficit)) + Total(Reduced(deficit))
      BY <1>5 DEF k, need
    <3> HIDE DEF rem
    <3>3. Near(deficit, k + rem,
               [i \in Legs |-> OneEach(deficit)[i] + Proportional(Reduced(deficit), rem)[i]])
      BY <3>1, <3>2, NearProportional DEF k
    <3>4. QED
      BY <2>1, <3>1, <3>3 DEF one, need, rem
  <2>5. QED
    BY <1>5, <2>2, <2>3, <2>4
<1>11. QED
  BY <1>1, <1>6, <1>7, <1>8, <1>9, <1>10


=============================================================================
