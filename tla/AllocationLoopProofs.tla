------------------------ MODULE AllocationLoopProofs ------------------------
(***************************************************************************)
(* The loops of allocateNativeAcrossDeficits end with the closed form, for  *)
(* any number of legs, any deficits and any amount: what each loop has      *)
(* assigned after any number of iterations is the closed form's part of     *)
(* the legs it has visited.                                                 *)
(***************************************************************************)
EXTENDS AllocationLoop, AllocationProofs

-----------------------------------------------------------------------------
(* The inductive invariant *)

LoopTypeOK ==
    /\ deficits \in [Legs -> Nat]
    /\ av \in Nat
    /\ phase \in {"start", "one each", "scarce", "leftover", "done"}
    /\ todo \in SUBSET Legs
    /\ key \in [Legs -> Nat]

\* The legs of I already visited come before those that are not.
InOrder(I) == \A i \in I \ todo, j \in todo : i \in SortedBefore(key, I, j)

InStart ==
    /\ need = deficits
    /\ remaining = av
    /\ raw = Nothing
    /\ out = Nothing

\* One wei for each needy leg visited.
InOneEach ==
    LET I == Needy(deficits)
    IN  /\ I # {} /\ Cardinality(I) <= av
        /\ todo \subseteq I
        /\ out = [i \in Legs |-> IF i \in I \ todo THEN 1 ELSE 0]
        /\ need = [i \in Legs |-> deficits[i] - out[i]]
        /\ remaining = av - Cardinality(I \ todo)
        /\ raw = Nothing

\* The closed form's wei for each leg visited.
InScarce ==
    LET I == Needy(deficits)
    IN  /\ 0 < av /\ av < Cardinality(I)
        /\ todo \subseteq I
        /\ key = deficits
        /\ InOrder(I)
        /\ out = [i \in Legs |-> IF i \in todo THEN 0 ELSE OneWeiToLargest(deficits, av)[i]]
        /\ need = [i \in Legs |-> deficits[i] - out[i]]
        /\ remaining = Larger(av - Cardinality(I \ todo), 0)

\* The floors of all legs, and the leftover's part of each leg visited.
InLeftover ==
    LET rem   == av - Cardinality(Needy(deficits))
        quota == Quotients(need, rem)
        room  == Rooms(need, rem)
        left  == Leftover(need, rem)
    IN  /\ Needy(deficits) # {}
        /\ rem > 0
        /\ need = Reduced(deficits)
        /\ Total(need) # 0
        /\ out = OneEach(deficits)
        /\ key = Residues(need, rem)
        /\ todo \subseteq Needy(need)
        /\ InOrder(Needy(need))
        /\ raw = [i \in Legs |->
                     quota[i] + IF i \in todo THEN 0 ELSE Fill(key, Needy(need), room, left)[i]]
        /\ remaining = Larger(left - SumOver(room, Needy(need) \ todo), 0)

LoopInv ==
    /\ LoopTypeOK
    /\ phase = "start" => InStart
    /\ phase = "one each" => InOneEach
    /\ phase = "scarce" => InScarce
    /\ phase = "leftover" => InLeftover
    /\ phase = "done" => out = Allocate(deficits, av)
-----------------------------------------------------------------------------
(* The order of a loop *)

\* The leg a loop visits next comes right after those it has visited.
LEMMA VisitedBefore ==
    ASSUME LoopTypeOK, NEW I \in SUBSET Legs, todo \subseteq I, InOrder(I),
           NEW i \in Legs, Visits(i)
    PROVE  /\ i \in todo
           /\ SortedBefore(key, I, i) = I \ todo
           /\ \A j \in todo \ {i} : i \in SortedBefore(key, I, j)
<1>1. i \in todo /\ i \in I
  BY DEF Visits
<1>2. \A j \in Legs : key[j] \in Nat /\ j \in Nat
  <2>1. \A j \in Legs : key[j] \in Nat
    BY DEF LoopTypeOK
  <2>2. \A j \in Legs : j \in Nat
    BY DEF Legs
  <2>3. QED
    BY <2>1, <2>2
<1>3. \A j \in todo \ {i} : i \in SortedBefore(key, I, j) /\ j \notin SortedBefore(key, I, i)
  <2> TAKE j \in todo \ {i}
  <2>1. j \in Legs /\ (key[i] > key[j] \/ (key[i] = key[j] /\ i < j))
    BY DEF Visits
  <2>2. ~(key[j] > key[i] \/ (key[j] = key[i] /\ j < i))
    BY <1>2, <2>1
  <2>3. QED
    BY <1>1, <2>1, <2>2 DEF SortedBefore
<1>4. i \notin SortedBefore(key, I, i)
  BY <1>2 DEF SortedBefore
<1>5. I \ todo \subseteq SortedBefore(key, I, i)
  BY <1>1 DEF InOrder
<1>6. SortedBefore(key, I, i) \subseteq I
  BY DEF SortedBefore
<1>7. QED
  BY <1>1, <1>3, <1>4, <1>5, <1>6

\* So the order is kept when that leg has been visited too.
LEMMA OrderKept ==
    ASSUME LoopTypeOK, NEW I \in SUBSET Legs, todo \subseteq I, InOrder(I),
           NEW i \in Legs, Visits(i), todo' = todo \ {i}, key' = key
    PROVE  \A j \in I \ todo', l \in todo' : j \in SortedBefore(key', I, l)
<1> TAKE j \in I \ todo', l \in todo'
<1>1. l \in todo \ {i}
  OBVIOUS
<1>2. CASE j = i
  BY <1>1, <1>2, VisitedBefore
<1>3. CASE j # i
  BY <1>1, <1>3 DEF InOrder
<1>4. QED
  BY <1>2, <1>3

\* One more leg visited.
LEMMA OneMoreVisited ==
    ASSUME NEW I \in SUBSET Legs, todo \subseteq I, NEW i \in todo, todo' = todo \ {i}
    PROVE  /\ I \ todo' = (I \ todo) \cup {i}
           /\ Cardinality(I \ todo) \in Nat
           /\ Cardinality(I \ todo') = Cardinality(I \ todo) + 1
           /\ Cardinality(I \ todo') <= Cardinality(I)
           /\ todo' \subseteq I
<1>1. I \ todo' = (I \ todo) \cup {i} /\ i \notin I \ todo
  OBVIOUS
<1>2. IsFiniteSet(I) /\ IsFiniteSet(I \ todo)
  BY LegsFinite, FS_Subset
<1>3. Cardinality((I \ todo) \cup {i}) = Cardinality(I \ todo) + 1
  BY <1>1, <1>2, FS_AddElement
<1>4. I \ todo' \subseteq I
  OBVIOUS
<1>5. Cardinality(I \ todo') <= Cardinality(I)
  BY <1>2, <1>4, FS_Subset
<1>6. QED
  BY <1>1, <1>2, <1>3, <1>5, FS_CardinalityType

-----------------------------------------------------------------------------
(* Every step keeps the invariant *)

LEMMA LoopInit == Init => LoopInv
<1> SUFFICES ASSUME Init PROVE LoopInv
  OBVIOUS
<1>1. deficits \in [Legs -> Nat] /\ av \in Nat
  BY BoundsAssumption DEF Init
<1>2. Nothing \in [Legs -> Nat]
  BY DEF Nothing
<1>3. QED
  BY <1>1, <1>2 DEF Init, LoopInv, LoopTypeOK, InStart

LEMMA AllocateIs ==
    ASSUME LoopTypeOK
    PROVE  LET k == Cardinality(Needy(deficits))
           IN  Allocate(deficits, av) =
                  IF k = 0 \/ av <= 0 THEN Nothing
                  ELSE IF av < k THEN OneWeiToLargest(deficits, av)
                  ELSE IF Total(Reduced(deficits)) = 0 \/ av = k THEN OneEach(deficits)
                  ELSE [i \in Legs |-> OneEach(deficits)[i]
                                         + Proportional(Reduced(deficits), av - k)[i]]
BY DEF Allocate, Reduced, OneEach

LEMMA StartKeeps == ASSUME LoopInv, Start PROVE LoopInv'
<1> DEFINE I == Needy(deficits)
           k == Cardinality(I)
<1>1. LoopTypeOK /\ InStart /\ phase = "start"
  BY DEF LoopInv, Start
<1>2. I \in SUBSET Legs /\ IsFiniteSet(I) /\ k \in Nat
  BY <1>1, NeedyFinite DEF LoopTypeOK
<1>3. deficits' = deficits /\ av' = av /\ need' = need /\ raw' = raw /\ out' = out
      /\ remaining' = remaining /\ remaining = av /\ need = deficits
  BY <1>1 DEF Start, InStart
<1>4. k # 0 => I # {}
  BY FS_EmptySet
<1>5. I \ I = {} /\ Cardinality(I \ I) = 0
  BY FS_EmptySet
<1>6. CASE k = 0 \/ remaining <= 0
  <2>1. phase' = "done" /\ todo' = todo /\ key' = key
    BY <1>6 DEF Start
  <2>2. LoopTypeOK'
    BY <1>1, <1>3, <2>1 DEF LoopTypeOK
  <2>3. Allocate(deficits, av) = Nothing
    BY <1>1, <1>3, <1>6, AllocateIs
  <2>4. out' = Allocate(deficits', av')
    BY <1>1, <1>3, <2>3 DEF InStart
  <2>5. QED
    BY <2>1, <2>2, <2>4 DEF LoopInv
<1>7. CASE ~(k = 0 \/ remaining <= 0) /\ remaining >= k
  <2>1. phase' = "one each" /\ todo' = I /\ key' = Nothing
    BY <1>7 DEF Start, Walk
  <2>2. Nothing \in [Legs -> Nat]
    BY DEF Nothing
  <2>3. LoopTypeOK'
    BY <1>1, <1>2, <1>3, <2>1, <2>2 DEF LoopTypeOK
  <2>4. out' = [i \in Legs |-> IF i \in I \ todo' THEN 1 ELSE 0]
    BY <1>1, <1>3, <2>1 DEF InStart, Nothing
  <2>5. need' = [i \in Legs |-> deficits[i] - out'[i]]
    <3>1. \A i \in Legs : out'[i] = 0
      BY <1>1, <1>3 DEF InStart, Nothing
    <3>2. \A i \in Legs : deficits[i] - out'[i] = deficits[i]
      BY <1>1, <3>1 DEF LoopTypeOK
    <3>3. QED
      BY <1>1, <1>3, <3>2 DEF LoopTypeOK
  <2>6. remaining' = av - Cardinality(I \ todo')
    <3>1. av \in Nat /\ av - 0 = av
      BY <1>1 DEF LoopTypeOK
    <3>2. QED
      BY <1>3, <1>5, <2>1, <3>1
  <2>7. InOneEach'
    BY <1>1, <1>2, <1>3, <1>4, <1>7, <2>1, <2>4, <2>5, <2>6 DEF InOneEach, InStart
  <2>8. QED
    BY <2>1, <2>3, <2>7 DEF LoopInv
<1>8. CASE ~(k = 0 \/ remaining <= 0) /\ ~(remaining >= k)
  <2>1. phase' = "scarce" /\ todo' = I /\ key' = deficits
    BY <1>3, <1>8 DEF Start, Walk
  <2>2. LoopTypeOK'
    BY <1>1, <1>2, <1>3, <2>1 DEF LoopTypeOK
  <2>3. out' = [i \in Legs |-> IF i \in todo' THEN 0 ELSE OneWeiToLargest(deficits, av)[i]]
    BY <1>1, <1>3, <2>1 DEF InStart, Nothing, OneWeiToLargest
  <2>4. need' = [i \in Legs |-> deficits[i] - out'[i]]
    <3>1. \A i \in Legs : out'[i] = 0
      BY <1>1, <1>3 DEF InStart, Nothing
    <3>2. \A i \in Legs : deficits[i] - out'[i] = deficits[i]
      BY <1>1, <3>1 DEF LoopTypeOK
    <3>3. QED
      BY <1>1, <1>3, <3>2 DEF LoopTypeOK
  <2>5. 0 < av /\ av < k /\ remaining' = Larger(av - Cardinality(I \ todo'), 0)
    BY <1>1, <1>2, <1>3, <1>5, <1>8, <2>1 DEF LoopTypeOK, Larger
  <2>6. InOrder(I)'
    BY <1>3, <2>1 DEF InOrder
  <2>7. InScarce'
    BY <1>3, <2>1, <2>3, <2>4, <2>5, <2>6 DEF InScarce, InOrder
  <2>8. QED
    BY <2>1, <2>2, <2>7 DEF LoopInv
<1>9. QED
  BY <1>6, <1>7, <1>8
LEMMA GiveOneKeeps == ASSUME LoopInv, NEW i \in Legs, GiveOne(i) PROVE LoopInv'
<1> DEFINE I == Needy(deficits)
<1>1. LoopTypeOK /\ InOneEach /\ phase = "one each" /\ i \in todo
  BY DEF LoopInv, GiveOne, Visits
<1>2. I \in SUBSET Legs /\ IsFiniteSet(I) /\ Cardinality(I) \in Nat
  BY <1>1, NeedyFinite DEF LoopTypeOK
<1>3. /\ todo \subseteq I /\ I # {} /\ Cardinality(I) <= av
      /\ out = [j \in Legs |-> IF j \in I \ todo THEN 1 ELSE 0]
      /\ need = [j \in Legs |-> deficits[j] - out[j]]
      /\ remaining = av - Cardinality(I \ todo)
      /\ raw = Nothing
  BY <1>1 DEF InOneEach
<1>4. /\ deficits' = deficits /\ av' = av /\ raw' = raw /\ key' = key /\ phase' = phase
      /\ todo' = todo \ {i}
  BY DEF GiveOne, Give
<1>5. /\ I \ todo' = (I \ todo) \cup {i} /\ Cardinality(I \ todo) \in Nat
      /\ Cardinality(I \ todo') = Cardinality(I \ todo) + 1
      /\ Cardinality(I \ todo') <= Cardinality(I)
      /\ todo' \subseteq I
  BY <1>1, <1>2, <1>3, <1>4, OneMoreVisited
<1>6. deficits[i] \in Nat /\ deficits[i] > 0 /\ av \in Nat
  <2>1. i \in I
    BY <1>1, <1>3
  <2>2. QED
    BY <1>1, <2>1 DEF LoopTypeOK, Needy
<1> HIDE DEF I
<1>7. remaining \in Nat /\ remaining > 0
  BY <1>2, <1>3, <1>5, <1>6
<1>8. out[i] = 0 /\ need[i] = deficits[i]
  <2>1. out[i] = 0
    BY <1>1, <1>3
  <2>2. QED
    BY <1>3, <1>6, <2>1
<1>9. Smaller(need[i], Smaller(1, remaining)) = 1
  BY <1>6, <1>7, <1>8 DEF Smaller
<1>10. /\ out' = [out EXCEPT ![i] = @ + 1] /\ need' = [need EXCEPT ![i] = @ - 1]
       /\ remaining' = remaining - 1
  BY <1>9 DEF GiveOne, Give
<1>11. out' = [j \in Legs |-> IF j \in I \ todo' THEN 1 ELSE 0]
  BY <1>3, <1>5, <1>8, <1>10
<1>12. need' = [j \in Legs |-> deficits[j] - out'[j]]
  BY <1>3, <1>6, <1>8, <1>10
<1>13. remaining' = av - Cardinality(I \ todo')
  BY <1>3, <1>5, <1>6, <1>10
<1>14. InOneEach'
  BY <1>3, <1>4, <1>5, <1>11, <1>12, <1>13 DEF InOneEach, I
<1>15. LoopTypeOK'
  BY <1>1, <1>4 DEF LoopTypeOK
<1>16. QED
  BY <1>1, <1>4, <1>14, <1>15 DEF LoopInv

LEMMA GiveScarceKeeps == ASSUME LoopInv, NEW i \in Legs, GiveScarce(i) PROVE LoopInv'
<1> DEFINE I == Needy(deficits)
           n == Cardinality(I \ todo)
           wei == OneWeiToLargest(deficits, av)
<1>1. LoopTypeOK /\ InScarce /\ phase = "scarce" /\ i \in todo /\ Visits(i)
  BY DEF LoopInv, GiveScarce, Visits
<1>2. I \in SUBSET Legs /\ IsFiniteSet(I) /\ Cardinality(I) \in Nat
  BY <1>1, NeedyFinite DEF LoopTypeOK
<1>3. /\ todo \subseteq I /\ 0 < av /\ av < Cardinality(I) /\ key = deficits /\ InOrder(I)
      /\ out = [j \in Legs |-> IF j \in todo THEN 0 ELSE wei[j]]
      /\ need = [j \in Legs |-> deficits[j] - out[j]]
      /\ remaining = Larger(av - n, 0)
  BY <1>1 DEF InScarce
<1>4. /\ deficits' = deficits /\ av' = av /\ raw' = raw /\ key' = key /\ phase' = phase
      /\ todo' = todo \ {i}
  BY DEF GiveScarce, Give
<1>5. /\ n \in Nat /\ Cardinality(I \ todo') = n + 1 /\ todo' \subseteq I
  BY <1>1, <1>2, <1>3, <1>4, OneMoreVisited
<1>6. deficits[i] \in Nat /\ deficits[i] > 0 /\ av \in Nat /\ i \in I
  <2>1. i \in I
    BY <1>1, <1>3
  <2>2. QED
    BY <1>1, <2>1 DEF LoopTypeOK, Needy
<1>7. wei[i] = IF n < av THEN 1 ELSE 0
  <2>1. SortedBefore(deficits, I, i) = I \ todo
    BY <1>1, <1>2, <1>3, VisitedBefore
  <2>2. QED
    BY <1>6, <2>1 DEF OneWeiToLargest
<1>8. out[i] = 0 /\ need[i] = deficits[i]
  <2>1. out[i] = 0
    BY <1>1, <1>3
  <2>2. QED
    BY <1>3, <1>6, <2>1
<1>9. InOrder(I)'
  BY <1>1, <1>2, <1>3, <1>4, OrderKept DEF InOrder
<1>10. GiveScarce(i) =>
         Give(i, Smaller(IF n < av THEN 1 ELSE 0, Smaller(need[i], remaining)))
  BY DEF GiveScarce, Scarce
<1>11. \A j \in Legs : j # i => wei[j] \in Nat
  BY DEF OneWeiToLargest
<1> HIDE DEF I, n, wei
<1>12. Smaller(IF n < av THEN 1 ELSE 0, Smaller(need[i], remaining)) = wei[i]
  BY <1>3, <1>5, <1>6, <1>7, <1>8 DEF Smaller, Larger
<1>13. /\ out' = [out EXCEPT ![i] = @ + wei[i]] /\ need' = [need EXCEPT ![i] = @ - wei[i]]
       /\ remaining' = remaining - wei[i]
  BY <1>10, <1>12 DEF Give
<1>14. out' = [j \in Legs |-> IF j \in todo' THEN 0 ELSE wei[j]]
  <2>1. 0 + wei[i] = wei[i]
    BY <1>7
  <2>2. QED
    BY <1>3, <1>4, <1>8, <1>13, <2>1
<1>15. need' = [j \in Legs |-> deficits[j] - out'[j]]
  <2>1. out'[i] = wei[i]
    BY <1>4, <1>14
  <2>2. \A j \in Legs \ {i} : out'[j] = out[j]
    BY <1>3, <1>13
  <2>3. need'[i] = deficits[i] - wei[i]
    BY <1>3, <1>8, <1>13
  <2>4. QED
    BY <1>3, <1>13, <2>1, <2>2, <2>3
<1>16. remaining' = Larger(av - Cardinality(I \ todo'), 0)
  BY <1>3, <1>5, <1>6, <1>7, <1>13 DEF Larger
<1>17. InScarce'
  BY <1>3, <1>4, <1>5, <1>9, <1>14, <1>15, <1>16 DEF InScarce, I, wei
<1>18. LoopTypeOK'
  BY <1>1, <1>4 DEF LoopTypeOK
<1>19. QED
  BY <1>1, <1>4, <1>17, <1>18 DEF LoopInv

LEMMA ScarceDoneKeeps == ASSUME LoopInv, ScarceDone PROVE LoopInv'
<1> DEFINE I == Needy(deficits)
<1>1. LoopTypeOK /\ InScarce /\ phase = "scarce" /\ todo = {}
  BY DEF LoopInv, ScarceDone
<1>2. I \in SUBSET Legs /\ IsFiniteSet(I) /\ Cardinality(I) \in Nat
  BY <1>1, NeedyFinite DEF LoopTypeOK
<1>3. out = OneWeiToLargest(deficits, av)
  BY <1>1 DEF InScarce, OneWeiToLargest
<1>4. 0 < av /\ av < Cardinality(I) /\ av \in Nat
  BY <1>1 DEF InScarce, LoopTypeOK
<1>5. Allocate(deficits, av) = OneWeiToLargest(deficits, av)
  <2> DEFINE k == Cardinality(I)
  <2>1. ~(k = 0 \/ av <= 0) /\ av < k
    BY <1>2, <1>4
  <2>2. QED
    BY <1>1, <2>1, AllocateIs
<1>6. LoopTypeOK' /\ phase' = "done" /\ out' = Allocate(deficits', av')
  BY <1>1, <1>3, <1>5 DEF ScarceDone, LoopTypeOK
<1>7. QED
  BY <1>6 DEF LoopInv
\* After one wei for each, what is still needed is each deficit less one.
LEMMA AllOneEach ==
    ASSUME LoopTypeOK, InOneEach, todo = {}
    PROVE  /\ out = OneEach(deficits)
           /\ need = Reduced(deficits)
           /\ remaining = av - Cardinality(Needy(deficits))
           /\ Needy(deficits) # {}
           /\ Cardinality(Needy(deficits)) \in Nat \ {0}
           /\ Cardinality(Needy(deficits)) <= av
           /\ remaining \in Nat
           /\ Reduced(deficits) \in [Legs -> Nat]
<1> DEFINE I == Needy(deficits)
<1>1. LoopTypeOK /\ InOneEach
  OBVIOUS
<1>2. I \in SUBSET Legs /\ IsFiniteSet(I) /\ Cardinality(I) \in Nat
  BY <1>1, NeedyFinite DEF LoopTypeOK
<1>3. /\ I # {} /\ Cardinality(I) <= av
      /\ out = OneEach(deficits)
      /\ need = [j \in Legs |-> deficits[j] - out[j]]
      /\ remaining = av - Cardinality(I)
  <2>1. I \ todo = I
    OBVIOUS
  <2>2. QED
    BY <1>1, <2>1 DEF InOneEach, OneEach
<1>4. \A j \in Legs : deficits[j] \in Nat
  BY <1>1 DEF LoopTypeOK
<1>5. ASSUME NEW j \in Legs
      PROVE  /\ deficits[j] - out[j] = Larger(deficits[j] - 1, 0)
             /\ Larger(deficits[j] - 1, 0) \in Nat
  <2>1. deficits[j] \in Nat /\ out[j] = IF deficits[j] > 0 THEN 1 ELSE 0
    BY <1>3, <1>4 DEF OneEach, Needy
  <2>2. QED
    BY <2>1 DEF Larger
<1>6. need = Reduced(deficits)
  BY <1>3, <1>5 DEF Reduced
<1>7. Reduced(deficits) \in [Legs -> Nat]
  BY <1>5 DEF Reduced
<1>8. Cardinality(I) # 0
  BY <1>2, <1>3, FS_EmptySet
<1>9. av \in Nat
  BY <1>1 DEF LoopTypeOK
<1> HIDE DEF I
<1>10. av - Cardinality(I) \in Nat
  BY <1>2, <1>3, <1>9
<1>11. QED
  BY <1>2, <1>3, <1>6, <1>7, <1>8, <1>10 DEF I

LEMMA QuotasKeeps == ASSUME LoopInv, Quotas PROVE LoopInv'
<1> DEFINE I == Needy(deficits)
           k == Cardinality(I)
           S == Total(need)
           J == Needy(need)
<1>1. LoopTypeOK /\ InOneEach /\ todo = {}
  BY DEF LoopInv, Quotas
<1>2. /\ out = OneEach(deficits) /\ need = Reduced(deficits) /\ remaining = av - k
      /\ I # {} /\ k \in Nat \ {0} /\ k <= av /\ remaining \in Nat
      /\ need \in [Legs -> Nat]
  BY <1>1, AllOneEach
<1>3. av \in Nat
  BY <1>1 DEF LoopTypeOK
<1>4. deficits' = deficits /\ av' = av /\ need' = need /\ out' = out
  BY DEF Quotas
<1>5. CASE S = 0 \/ remaining <= 0
  <2>1. phase' = "done" /\ todo' = todo /\ key' = key
    BY <1>5 DEF Quotas
  <2>2. Allocate(deficits, av) = OneEach(deficits)
    <3>1. ~(k = 0 \/ av <= 0) /\ ~(av < k) /\ (S = 0 \/ av = k)
      BY <1>2, <1>3, <1>5
    <3>2. QED
      BY <1>1, <1>2, <3>1, AllocateIs
  <2>3. LoopTypeOK'
    BY <1>1, <1>4, <2>1 DEF LoopTypeOK
  <2>4. QED
    BY <1>2, <1>4, <2>1, <2>2, <2>3 DEF LoopInv
<1>6. CASE ~(S = 0 \/ remaining <= 0)
  <2> DEFINE quota == Quotients(need, remaining)
             room == Rooms(need, remaining)
             left == Leftover(need, remaining)
             old == [i \in Legs |-> Quota(need[i], remaining, S)]
  <2>1. /\ quota \in [Legs -> Nat] /\ Residues(need, remaining) \in [Legs -> Nat]
        /\ left \in Nat
    BY <1>2, <1>6, ProportionalParts
  <2>2. old = quota
    <3>1. ASSUME NEW i \in Legs, need[i] = 0
          PROVE  Smaller((need[i] * remaining) \div S, need[i]) = 0
      <4>1. (need[i] * remaining) \div S \in Nat
        BY <1>2, <1>6, QuotientFacts
      <4>2. QED
        BY <3>1, <4>1 DEF Smaller
    <3>2. QED
      BY <3>1 DEF Quotients, Quota
  <2>3. /\ phase' = "leftover" /\ raw' = old /\ remaining' = remaining - Total(old)
        /\ todo' = J /\ key' = Residues(need, remaining)
    BY <1>6 DEF Quotas, Walk, Residues
  <2>4. raw' = quota /\ remaining' = left
    BY <2>2, <2>3 DEF Leftover
  <2>5. J \in SUBSET Legs
    BY DEF Needy
  <2>6. LoopTypeOK'
    BY <1>1, <1>4, <2>1, <2>3, <2>5 DEF LoopTypeOK
  <2>7. InOrder(J)'
    BY <2>3, <1>4 DEF InOrder
  <2>8. raw' = [i \in Legs |->
                   quota[i] + IF i \in todo' THEN 0 ELSE Fill(key', J, room, left)[i]]
    <3>1. ASSUME NEW i \in Legs PROVE i \notin J => Fill(key', J, room, left)[i] = 0
      <4>1. i \notin J => room[i] = 0
        BY <1>2, <1>6, ProportionalParts
      <4>2. \A n : Smaller(0, Larger(n, 0)) = 0
        BY DEF Smaller, Larger
      <4>3. Fill(key', J, room, left)[i] =
              Smaller(room[i], Larger(left - SumOver(room, SortedBefore(key', J, i)), 0))
        BY DEF Fill
      <4> HIDE DEF room, left, J
      <4>4. QED
        BY <4>1, <4>2, <4>3
    <3> HIDE DEF J, room, left, quota
    <3>2. \A i \in Legs : quota[i] + 0 = quota[i]
      BY <2>1
    <3>3. \A i \in Legs :
             quota[i] = quota[i] + IF i \in todo' THEN 0 ELSE Fill(key', J, room, left)[i]
      BY <2>3, <3>1, <3>2
    <3>4. QED
      BY <2>1, <2>4, <3>3
  <2>9. remaining' = Larger(left - SumOver(room, J \ todo'), 0)
    <3>1. SumOver(room, J \ todo') = 0
      BY <2>3, SumEmpty
    <3>2. QED
      BY <2>1, <2>4, <3>1 DEF Larger
  <2>10. InLeftover'
    BY <1>2, <1>4, <1>6, <2>3, <2>7, <2>8, <2>9 DEF InLeftover, InOrder
  <2>11. QED
    BY <2>3, <2>6, <2>10 DEF LoopInv
<1>7. QED
  BY <1>5, <1>6

LEMMA GiveLeftoverKeeps == ASSUME LoopInv, NEW i \in Legs, GiveLeftover(i) PROVE LoopInv'
<1> DEFINE rem == av - Cardinality(Needy(deficits))
           J == Needy(need)
           quota == Quotients(need, rem)
           room == Rooms(need, rem)
           left == Leftover(need, rem)
           fill == Fill(key, J, room, left)
           taken == SumOver(room, J \ todo)
<1>1. LoopTypeOK /\ InLeftover /\ phase = "leftover" /\ Visits(i) /\ i \in todo
      /\ remaining > 0
  BY DEF LoopInv, GiveLeftover, Visits
<1>2. /\ Needy(deficits) # {} /\ rem > 0 /\ need = Reduced(deficits) /\ Total(need) # 0
      /\ out = OneEach(deficits) /\ key = Residues(need, rem)
      /\ todo \subseteq J /\ InOrder(J)
      /\ raw = [j \in Legs |-> quota[j] + IF j \in todo THEN 0 ELSE fill[j]]
      /\ remaining = Larger(left - taken, 0)
  BY <1>1 DEF InLeftover
<1>3. /\ deficits' = deficits /\ av' = av /\ need' = need /\ out' = out /\ key' = key
      /\ phase' = phase /\ todo' = todo \ {i}
  BY DEF GiveLeftover
<1>4. J \in SUBSET Legs
  BY DEF Needy
<1>5. /\ need \in [Legs -> Nat] /\ rem \in Nat
  <2>1. deficits \in [Legs -> Nat] /\ av \in Nat
    BY <1>1 DEF LoopTypeOK
  <2>2. Cardinality(Needy(deficits)) \in Nat
    BY <2>1, NeedyFinite
  <2>3. need \in [Legs -> Nat]
    BY <1>2, <2>1 DEF Reduced, Larger
  <2>4. QED
    BY <1>2, <2>1, <2>2, <2>3
<1>6. /\ quota \in [Legs -> Nat] /\ room \in [Legs -> Nat] /\ left \in Nat
      /\ \A j \in Legs : need[j] = quota[j] + room[j]
  BY <1>2, <1>5, ProportionalParts
<1>7. /\ J \ todo' = (J \ todo) \cup {i} /\ todo' \subseteq J /\ i \notin J \ todo
  BY <1>1, <1>2, <1>3, <1>4, OneMoreVisited
<1>8. fill[i] = Smaller(room[i], Larger(left - taken, 0))
  <2>1. SortedBefore(key, J, i) = J \ todo
    BY <1>1, <1>2, <1>4, VisitedBefore
  <2>2. QED
    BY <2>1 DEF Fill
<1>9. InOrder(J)'
  BY <1>1, <1>2, <1>3, <1>4, OrderKept DEF InOrder
<1> HIDE DEF rem, J, quota, room, left, fill
<1>10. taken \in Nat /\ SumOver(room, J \ todo') = taken + room[i]
  <2>1. J \ todo \in SUBSET Legs /\ IsFiniteSet(J \ todo)
    BY <1>4, LegsFinite, FS_Subset
  <2>2. \A j \in (J \ todo) \cup {i} : room[j] \in Nat
    BY <1>4, <1>6
  <2>3. QED
    BY <1>6, <1>7, <2>1, <2>2, PartNat, SumAdd
<1> HIDE DEF taken
<1>11. room[i] \in Nat /\ quota[i] \in Nat /\ need[i] = quota[i] + room[i]
  BY <1>6
<1>12. raw[i] = quota[i]
  <2>1. quota[i] + 0 = quota[i]
    BY <1>11
  <2>2. QED
    BY <1>1, <1>2, <2>1
<1>13. Smaller(remaining, need[i] - raw[i]) = fill[i]
  BY <1>2, <1>6, <1>8, <1>10, <1>11, <1>12 DEF Smaller, Larger
<1>14. raw' = [raw EXCEPT ![i] = @ + fill[i]] /\ remaining' = remaining - fill[i]
  BY <1>13 DEF GiveLeftover
<1>15. raw' = [j \in Legs |-> quota[j] + IF j \in todo' THEN 0 ELSE fill[j]]
  <2>1. raw'[i] = quota[i] + fill[i]
    BY <1>2, <1>12, <1>14
  <2>2. QED
    BY <1>2, <1>3, <1>14, <2>1
<1>16. remaining' = Larger(left - SumOver(room, J \ todo'), 0)
  BY <1>1, <1>2, <1>6, <1>8, <1>10, <1>11, <1>14 DEF Smaller, Larger
<1>17. InLeftover'
  BY <1>2, <1>3, <1>7, <1>9, <1>15, <1>16 DEF InLeftover, rem, J, quota, room, left, fill
<1>18. LoopTypeOK'
  BY <1>1, <1>3 DEF LoopTypeOK
<1>19. QED
  BY <1>1, <1>3, <1>17, <1>18 DEF LoopInv

\* A leg not visited when the leftover is used up has no part of it.
LEMMA ReturnKeeps == ASSUME LoopInv, Return PROVE LoopInv'
<1> DEFINE k == Cardinality(Needy(deficits))
           rem == av - k
           J == Needy(need)
           quota == Quotients(need, rem)
           room == Rooms(need, rem)
           left == Leftover(need, rem)
           fill == Fill(key, J, room, left)
           taken == SumOver(room, J \ todo)
<1>1. LoopTypeOK /\ InLeftover /\ phase = "leftover" /\ (todo = {} \/ remaining <= 0)
  BY DEF LoopInv, Return
<1>2. /\ Needy(deficits) # {} /\ rem > 0 /\ need = Reduced(deficits) /\ Total(need) # 0
      /\ out = OneEach(deficits) /\ key = Residues(need, rem)
      /\ todo \subseteq J /\ InOrder(J)
      /\ raw = [j \in Legs |-> quota[j] + IF j \in todo THEN 0 ELSE fill[j]]
      /\ remaining = Larger(left - taken, 0)
  BY <1>1 DEF InLeftover
<1>3. J \in SUBSET Legs
  BY DEF Needy
<1>4. /\ need \in [Legs -> Nat] /\ rem \in Nat /\ av \in Nat /\ k \in Nat \ {0}
  <2>1. deficits \in [Legs -> Nat] /\ av \in Nat
    BY <1>1 DEF LoopTypeOK
  <2>2. Cardinality(Needy(deficits)) \in Nat \ {0}
    BY <1>2, <2>1, NeedyFinite, FS_EmptySet
  <2>3. need \in [Legs -> Nat]
    BY <1>2, <2>1 DEF Reduced, Larger
  <2>4. QED
    BY <1>2, <2>1, <2>2, <2>3
<1>5. /\ quota \in [Legs -> Nat] /\ room \in [Legs -> Nat] /\ left \in Nat
      /\ Proportional(need, rem) = [j \in Legs |-> quota[j] + fill[j]]
  <2> HIDE DEF rem
  <2>1. /\ quota \in [Legs -> Nat] /\ room \in [Legs -> Nat] /\ left \in Nat
        /\ Proportional(need, rem) =
             [j \in Legs |-> quota[j] + Fill(Residues(need, rem), J, room, left)[j]]
    BY <1>2, <1>4, ProportionalParts
  <2> HIDE DEF quota, room, left, J
  <2>2. QED
    BY <1>2, <2>1
<1>6. Allocate(deficits, av) = [j \in Legs |-> OneEach(deficits)[j] + Proportional(need, rem)[j]]
  <2>1. ~(k = 0 \/ av <= 0) /\ ~(av < k) /\ ~(Total(need) = 0 \/ av = k)
    BY <1>2, <1>4
  <2>2. QED
    BY <1>1, <1>2, <2>1, AllocateIs
<1>7. ASSUME NEW j \in todo PROVE fill[j] = 0
  <2>1. J \ todo \subseteq SortedBefore(key, J, j) /\ SortedBefore(key, J, j) \subseteq Legs
    BY <1>2, <1>3, <1>7 DEF InOrder, SortedBefore
  <2> DEFINE before == SortedBefore(key, J, j)
  <2>2. j \in Legs /\ fill[j] = Smaller(room[j], Larger(left - SumOver(room, before), 0))
    BY <1>2, <1>3, <1>7 DEF Fill
  <2> HIDE DEF before, rem, J, quota, room, left, fill
  <2>3. SumOver(room, before) \in Nat /\ taken \in Nat /\ taken <= SumOver(room, before)
    <3>1. IsFiniteSet(before) /\ J \ todo \in SUBSET before /\ before \in SUBSET Legs
      BY <2>1, LegsFinite, FS_Subset DEF before
    <3>2. \A l \in before : room[l] \in Nat
      BY <1>5, <3>1
    <3>3. J \ todo \in SUBSET Legs
      BY <1>3
    <3>4. QED
      BY <1>5, <3>1, <3>2, <3>3, PartNat, SumMonotone
  <2> HIDE DEF taken
  <2>4. remaining <= 0
    BY <1>1, <1>7
  <2>5. room[j] \in Nat
    BY <1>5, <2>2
  <2>6. QED
    BY <1>2, <1>5, <2>2, <2>3, <2>4, <2>5 DEF Smaller, Larger
<1> HIDE DEF rem, J, quota, room, left, fill, taken
<1>8. raw = Proportional(need, rem)
  BY <1>2, <1>5, <1>7
<1>9. out' = Allocate(deficits, av)
  BY <1>2, <1>6, <1>8 DEF Return
<1>10. LoopTypeOK' /\ phase' = "done" /\ deficits' = deficits /\ av' = av
  BY <1>1 DEF Return, LoopTypeOK
<1>11. QED
  BY <1>9, <1>10 DEF LoopInv

LEMMA LoopStep == LoopInv /\ [Next]_vars => LoopInv'
<1> SUFFICES ASSUME LoopInv, [Next]_vars PROVE LoopInv'
  OBVIOUS
<1>1. CASE Start
  BY <1>1, StartKeeps
<1>2. CASE ScarceDone
  BY <1>2, ScarceDoneKeeps
<1>3. CASE Quotas
  BY <1>3, QuotasKeeps
<1>4. CASE Return
  BY <1>4, ReturnKeeps
<1>5. ASSUME NEW i \in Legs, GiveOne(i) PROVE LoopInv'
  BY <1>5, GiveOneKeeps
<1>6. ASSUME NEW i \in Legs, GiveScarce(i) PROVE LoopInv'
  BY <1>6, GiveScarceKeeps
<1>7. ASSUME NEW i \in Legs, GiveLeftover(i) PROVE LoopInv'
  BY <1>7, GiveLeftoverKeeps
<1>8. CASE UNCHANGED vars
  BY <1>8 DEF vars, LoopInv, LoopTypeOK, InStart, InOneEach, InScarce, InLeftover, InOrder
<1>9. QED
  BY <1>1, <1>2, <1>3, <1>4, <1>5, <1>6, <1>7, <1>8 DEF Next, Done

LEMMA LoopInvHolds == Spec => []LoopInv
<1>1. QED
  BY LoopInit, LoopStep, PTL DEF Spec

-----------------------------------------------------------------------------
(* Theorems *)

\* The loops of allocateNativeAcrossDeficits compute the closed form that the model
\* of a refill uses: for any number of legs, any deficits and any amount.
THEOREM LoopsComputeTheSplit == Spec => []LoopComputesAllocate
<1>1. LoopInv => LoopComputesAllocate
  BY DEF LoopInv, LoopComputesAllocate
<1>2. QED
  BY <1>1, LoopInvHolds, PTL
\* No leg has more than its deficit while one wei each is given,
LEMMA OneEachCapped ==
    ASSUME LoopTypeOK, InOneEach, NEW i \in Legs
    PROVE  out[i] + 0 <= deficits[i]
<1>1. deficits[i] \in Nat
  BY DEF LoopTypeOK
<1>2. out[i] = IF i \in Needy(deficits) \ todo THEN 1 ELSE 0
  BY DEF InOneEach
<1>3. QED
  BY <1>1, <1>2 DEF Needy

\* while the scarce wei are,
LEMMA ScarceCapped ==
    ASSUME LoopTypeOK, InScarce, NEW i \in Legs
    PROVE  out[i] + 0 <= deficits[i]
<1>1. deficits[i] \in Nat
  BY DEF LoopTypeOK
<1>2. out[i] = IF i \in todo THEN 0 ELSE OneWeiToLargest(deficits, av)[i]
  BY DEF InScarce
<1>3. QED
  BY <1>1, <1>2 DEF Needy, OneWeiToLargest

\* and while the leftover is.
LEMMA LeftoverCapped ==
    ASSUME LoopTypeOK, InLeftover, NEW i \in Legs
    PROVE  out[i] + raw[i] <= deficits[i]
<1> DEFINE rem == av - Cardinality(Needy(deficits))
           quota == Quotients(need, rem)
           room == Rooms(need, rem)
           left == Leftover(need, rem)
           fill == Fill(key, Needy(need), room, left)
<1>1. deficits \in [Legs -> Nat] /\ av \in Nat
  BY DEF LoopTypeOK
<1>2. /\ rem > 0 /\ need = Reduced(deficits) /\ Total(need) # 0
      /\ out = OneEach(deficits) /\ key = Residues(need, rem)
      /\ raw[i] = quota[i] + IF i \in todo THEN 0 ELSE fill[i]
  BY DEF InLeftover
<1>3. need \in [Legs -> Nat] /\ rem \in Nat
  <2>1. Cardinality(Needy(deficits)) \in Nat
    BY <1>1, NeedyFinite
  <2>2. need \in [Legs -> Nat]
    BY <1>1, <1>2 DEF Reduced, Larger
  <2>3. QED
    BY <1>1, <1>2, <2>1, <2>2
<1>4. /\ quota \in [Legs -> Nat] /\ room \in [Legs -> Nat] /\ left \in Nat
      /\ key \in [Legs -> Nat]
      /\ need[i] = quota[i] + room[i]
      /\ \A j \in Legs \ Needy(need) : room[j] = 0
  <2> HIDE DEF rem
  <2>1. QED
    BY <1>2, <1>3, ProportionalParts
<1>5. Needy(need) \in SUBSET Legs
  BY DEF Needy
<1> HIDE DEF rem, quota, room, left
<1>6. fill[i] \in 0..room[i]
  BY <1>4, <1>5, GreedyFill
<1>7. deficits[i] \in Nat /\ out[i] = (IF deficits[i] > 0 THEN 1 ELSE 0)
      /\ need[i] = Larger(deficits[i] - 1, 0)
  BY <1>1, <1>2 DEF OneEach, Reduced, Needy
<1> HIDE DEF fill
<1>8. raw[i] \in Nat /\ raw[i] <= need[i]
  BY <1>2, <1>4, <1>6
<1>9. QED
  BY <1>7, <1>8 DEF Larger

\* What the loops return is exact, serves everybody, and is fair.
LEMMA DoneIsFair ==
    ASSUME LoopTypeOK, out = Allocate(deficits, av)
    PROVE  /\ \A i \in Legs : out[i] + 0 <= deficits[i]
           /\ Total(out) = Smaller(av, Total(deficits))
           /\ av >= Cardinality(Needy(deficits)) => \A i \in Needy(deficits) : out[i] > 0
           /\ \A i \in Legs :
                  LET share == deficits[i] * Smaller(av, Total(deficits))
                      exact == out[i] * Total(deficits)
                  IN  Total(deficits) > 0 =>
                          /\ exact - share < NLegs * Total(deficits)
                          /\ share - exact < NLegs * Total(deficits)
<1> DEFINE T == Total(deficits)
           m == Smaller(av, T)
<1>1. deficits \in [Legs -> Nat] /\ av \in Nat
  BY DEF LoopTypeOK
<1>2. out \in [Legs -> Nat] /\ \A i \in Legs : out[i] <= deficits[i]
  BY <1>1, AllocateCapped
<1>3. Total(out) = m
  BY <1>1, AllocateExact
<1>4. av >= Cardinality(Needy(deficits)) => \A i \in Needy(deficits) : out[i] > 0
  BY <1>1, AllocateServesAll
<1>5. ASSUME NEW i \in Legs, T > 0
      PROVE  /\ out[i] * T - deficits[i] * m < NLegs * T
             /\ deficits[i] * m - out[i] * T < NLegs * T
  <2>1. out[i] * T < NLegs * T + deficits[i] * m /\ deficits[i] * m < NLegs * T + out[i] * T
    BY <1>1, <1>5, AllocateFair DEF Near
  <2>2. T \in Nat /\ NLegs \in Nat
    BY <1>1, TotalNat, NLegsAssumption
  <2>3. m \in Nat
    BY <1>1, <2>2 DEF Smaller
  <2> HIDE DEF T, m
  <2>4. out[i] * T \in Nat /\ deficits[i] * m \in Nat /\ NLegs * T \in Nat
    BY <1>1, <1>2, <2>2, <2>3, TimesNat
  <2>5. QED
    BY <2>1, <2>4
<1>6. \A i \in Legs : out[i] + 0 <= deficits[i]
  BY <1>1, <1>2
<1>7. QED
  BY <1>3, <1>4, <1>5, <1>6

\* The split is exact and fair: it hands out the whole amount or covers every
\* deficit, no account ever holds more than its deficit while the loops run, with a
\* wei for each nobody in need goes away empty, and nobody is NLegs wei or more away
\* from its exact share; for any number of legs, any deficits and any amount.
THEOREM SharesAreFair == Spec => []FairShares
<1>1. LoopInv => FairShares
  <2> SUFFICES ASSUME LoopInv PROVE FairShares
    OBVIOUS
  <2>1. LoopTypeOK
    BY DEF LoopInv
  <2>2. ASSUME NEW i \in Legs
        PROVE  out[i] + (IF phase = "leftover" THEN raw[i] ELSE 0) <= deficits[i]
    <3>1. InStart => out[i] + 0 <= deficits[i]
      <4>1. deficits[i] \in Nat
        BY <2>1 DEF LoopTypeOK
      <4>2. QED
        BY <4>1 DEF InStart, Nothing
    <3>2. InOneEach => out[i] + 0 <= deficits[i]
      BY <2>1, OneEachCapped
    <3>3. InScarce => out[i] + 0 <= deficits[i]
      BY <2>1, ScarceCapped
    <3>4. InLeftover => out[i] + raw[i] <= deficits[i]
      BY <2>1, LeftoverCapped
    <3>5. phase = "done" => out[i] + 0 <= deficits[i]
      BY <2>1, DoneIsFair DEF LoopInv
    <3>6. phase \in {"start", "one each", "scarce", "leftover", "done"}
      BY <2>1 DEF LoopTypeOK
    <3>7. QED
      BY <3>1, <3>2, <3>3, <3>4, <3>5, <3>6, Zenon DEF LoopInv
  <2>3. phase = "done" => out = Allocate(deficits, av)
    BY DEF LoopInv
  <2>4. QED
    BY <2>1, <2>2, <2>3, DoneIsFair, Zenon DEF FairShares
<1>2. QED
  BY <1>1, LoopInvHolds, PTL


=============================================================================
