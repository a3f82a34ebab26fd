--------------------------- MODULE AllocationLoop ---------------------------
(***************************************************************************)
(* allocateNativeAcrossDeficits, one loop iteration per step, on every     *)
(* vector of deficits and every amount up to a bound.                      *)
(***************************************************************************)
EXTENDS Allocation

CONSTANTS MaxDeficit,   \* bound: largest deficit tried, in wei
          MaxAv         \* bound: largest amount to split tried, in wei

ASSUME BoundsAssumption == MaxDeficit \in Nat /\ MaxAv \in Nat

VARIABLES
    deficits,           \* the argument: wei each leg is short of
    av,                 \* the argument: wei available
    phase,              \* which of the function's loops is running
    todo,               \* legs the running loop has still to visit
    key,                \* key[i]: what the array it walks was sorted by
    need,               \* need[i], reduced as wei are assigned
    remaining,          \* the counter `remaining`, or `leftover` in the last loop
    raw,                \* the proportional parts
    out                 \* the result

vars == <<deficits, av, phase, todo, key, need, remaining, raw, out>>

\* Variant with a mistake: the comparison turned around.
VisitsSmallest(i) ==
    /\ i \in todo
    /\ \A j \in todo \ {i} : key[i] < key[j] \/ (key[i] = key[j] /\ i < j)

\* JavaScript's sort is stable: of the legs not yet visited, the next in the array
\* is the one with the largest key and, of those, the one of the lowest index.
Visits(i) ==
    /\ i \in todo
    /\ \A j \in todo \ {i} : key[i] > key[j] \/ (key[i] = key[j] /\ i < j)

\* The next loop visits the legs of I, sorted by k.
Walk(I, k) == todo' = I /\ key' = k

Init ==
    /\ deficits \in [Legs -> 0..MaxDeficit]
    /\ av \in 0..MaxAv
    /\ phase = "start"
    /\ todo = {}
    /\ key = Nothing
    /\ need = deficits
    /\ remaining = av
    /\ raw = Nothing
    /\ out = Nothing

\* `if (k === 0n || remaining <= 0n) return out`, else choose the first loop.
Start ==
    LET k == Cardinality(Needy(deficits))
    IN  /\ phase = "start"
        /\ IF k = 0 \/ remaining <= 0 THEN phase' = "done" /\ UNCHANGED <<todo, key>>
           ELSE IF remaining >= k
           THEN phase' = "one each" /\ Walk(Needy(deficits), Nothing)
           ELSE phase' = "scarce" /\ Walk(Needy(deficits), need)
        /\ UNCHANGED <<deficits, av, need, remaining, raw, out>>

Give(i, add) ==
    /\ out' = [out EXCEPT ![i] = @ + add]
    /\ need' = [need EXCEPT ![i] = @ - add]
    /\ remaining' = remaining - add
    /\ todo' = todo \ {i}

\* Body of the loop that pre-allocates one wei per needy leg.
GiveOne(i) ==
    /\ phase = "one each"
    /\ Visits(i)
    /\ Give(i, Smaller(need[i], Smaller(1, remaining)))
    /\ UNCHANGED <<deficits, av, phase, key, raw>>

\* Variant with a mistake: the loop stops one leg early.
ScarceOffByOne(visited) == IF visited < av - 1 THEN 1 ELSE 0

\* Fewer wei than legs: base is 0 and the first `mod` legs visited get one wei.
Scarce(visited) == IF visited < av THEN 1 ELSE 0

GiveScarce(i) ==
    /\ phase = "scarce"
    /\ Visits(i)
    /\ LET visited == Cardinality(Needy(deficits) \ todo)
       IN  Give(i, Smaller(Scarce(visited), Smaller(need[i], remaining)))
    /\ UNCHANGED <<deficits, av, phase, key, raw>>

ScarceDone ==
    /\ phase = "scarce"
    /\ todo = {}
    /\ phase' = "done"
    /\ UNCHANGED <<deficits, av, todo, key, need, remaining, raw, out>>

\* The floor of the share, capped at the need.
Quota(n, rem, S) == IF n = 0 THEN 0 ELSE Smaller((n * rem) \div S, n)

\* The quotas of all legs, which are then put in descending order of the
\* division's remainder.
Quotas ==
    LET S     == Total(need)
        quota == [i \in Legs |-> Quota(need[i], remaining, S)]
        rest  == [i \in Legs |-> (need[i] * remaining) % S]
    IN  /\ phase = "one each"
        /\ todo = {}
        /\ IF S = 0 \/ remaining <= 0
           THEN phase' = "done" /\ UNCHANGED <<todo, key, remaining, raw>>
           ELSE /\ phase' = "leftover"
                /\ raw' = quota
                /\ remaining' = remaining - Total(quota)
                /\ Walk(Needy(need), rest)
        /\ UNCHANGED <<deficits, av, need, out>>

\* Body of the loop over the rounding leftover.
GiveLeftover(i) ==
    /\ phase = "leftover"
    /\ remaining > 0
    /\ Visits(i)
    /\ LET add == Smaller(remaining, need[i] - raw[i])
       IN  /\ raw' = [raw EXCEPT ![i] = @ + add]
           /\ remaining' = remaining - add
    /\ todo' = todo \ {i}
    /\ UNCHANGED <<deficits, av, phase, key, need, out>>

Return ==
    /\ phase = "leftover"
    /\ todo = {} \/ remaining <= 0
    /\ out' = [i \in Legs |-> out[i] + raw[i]]
    /\ phase' = "done"
    /\ UNCHANGED <<deficits, av, todo, key, need, remaining, raw>>

Done == phase = "done" /\ UNCHANGED vars

Next ==
    \/ Start \/ ScarceDone \/ Quotas \/ Return \/ Done
    \/ \E i \in Legs : GiveOne(i) \/ GiveScarce(i) \/ GiveLeftover(i)

Spec == Init /\ [][Next]_vars

-----------------------------------------------------------------------------
(* Properties *)

\* The loops end with the closed form that module Refill uses.
LoopComputesAllocate == phase = "done" => out = Allocate(deficits, av)

\* The split is exact and fair.  It hands out all of av, or every deficit: the
\* floors and the caps lose nothing and invent nothing, and at no point of the
\* loops has a leg been assigned more than its deficit.  With at least one wei
\* per needy leg, no needy leg goes away empty (so that the EntryPoint leg cannot
\* take everything by rounding), and one wei in advance and the rounding leftover
\* move no leg by NLegs wei or more from its exact share.
FairShares ==
    /\ \A i \in Legs :
           out[i] + (IF phase = "leftover" THEN raw[i] ELSE 0) <= deficits[i]
    /\ phase = "done" =>
           /\ Total(out) = Smaller(av, Total(deficits))
           /\ av >= Cardinality(Needy(deficits)) => \A i \in Needy(deficits) : out[i] > 0
           /\ \A i \in Legs :
                  LET share == deficits[i] * Smaller(av, Total(deficits))
                      exact == out[i] * Total(deficits)
                  IN  Total(deficits) > 0 =>
                          /\ exact - share < NLegs * Total(deficits)
                          /\ share - exact < NLegs * Total(deficits)

=============================================================================
