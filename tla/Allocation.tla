----------------------------- MODULE Allocation -----------------------------
(***************************************************************************)
(* The split of the native currency a refill has bought over the accounts  *)
(* that need it: allocateNativeAcrossDeficits of the paymaster-api.        *)
(*                                                                         *)
(* The program walks arrays with mutable counters.  Here the split is a    *)
(* closed form over the legs 1..NLegs (the order in which the refill pays  *)
(* them); module AllocationLoop steps through the program's loops and is   *)
(* checked to end with exactly this value.                                 *)
(***************************************************************************)
EXTENDS Sums

CONSTANT NLegs          \* number of accounts a refill may pay

ASSUME NLegsAssumption == NLegs \in Nat \ {0}

Legs == 1..NLegs

Nothing == [i \in Legs |-> 0]

Total(f) == SumOver(f, Legs)

Smaller(a, b) == IF a < b THEN a ELSE b

Larger(a, b) == IF a > b THEN a ELSE b

\* Legs of I that a stable descending sort by key puts before leg i.
SortedBefore(key, I, i) ==
    {j \in I : key[j] > key[i] \/ (key[j] = key[i] /\ j < i)}

Needy(deficit) == {i \in Legs : deficit[i] > 0}

(***************************************************************************)
(* Fewer wei than needy legs: the legs with the largest deficits get one   *)
(* wei each until the amount is used up.                                   *)
(***************************************************************************)
OneWeiToLargest(deficit, av) ==
    [i \in Legs |->
        IF /\ i \in Needy(deficit)
           /\ Cardinality(SortedBefore(deficit, Needy(deficit), i)) < av
        THEN 1 ELSE 0]

(***************************************************************************)
(* The proportional split of rem over the needs: every leg gets the floor  *)
(* of its share, capped at its need; what rounding leaves over goes to the *)
(* legs in descending order of the remainder, each up to its room.         *)
(***************************************************************************)
Proportional(need, rem) ==
    LET S        == Total(need)
        quota    == [i \in Legs |-> Smaller((need[i] * rem) \div S, need[i])]
        residue  == [i \in Legs |-> (need[i] * rem) % S]
        room     == [i \in Legs |-> need[i] - quota[i]]
        leftover == rem - Total(quota)
        takenBefore(i) == SumOver(room, SortedBefore(residue, Needy(need), i))
    IN  [i \in Legs |->
            quota[i] + Smaller(room[i], Larger(leftover - takenBefore(i), 0))]

Allocate(deficit, av) ==
    LET k    == Cardinality(Needy(deficit))
        need == [i \in Legs |-> Larger(deficit[i] - 1, 0)]
        one  == [i \in Legs |-> IF i \in Needy(deficit) THEN 1 ELSE 0]
        rest == Proportional(need, av - k)
    IN  IF k = 0 \/ av <= 0 THEN Nothing
        ELSE IF av < k THEN OneWeiToLargest(deficit, av)
        ELSE IF Total(need) = 0 \/ av = k THEN one
        ELSE [i \in Legs |-> one[i] + rest[i]]

=============================================================================
