---------------------------- MODULE GasPurchase ----------------------------
(***************************************************************************)
(* What the stages of a refill amount to while nothing fails: USDC is      *)
(* exchanged for native currency, what was paid and got goes into the      *)
(* contract's counters, and the accounts in need get their parts.  Nothing *)
(* is bought that no account needs, or while parts of a purchase are still *)
(* to be given; no account gets two parts of one purchase, or one it does  *)
(* not need, or more than its target; and the owner keeps its reserve.     *)
(***************************************************************************)
EXTENDS Integers

CONSTANTS NLegs, Rates, Reserve, MinChoices, TargetBps

VARIABLES
    usdc,               \* what the paymaster and its owner have
    native,             \* what the owner has, wrapped or not
    books,              \* USDC paid and wei got so far
    bal,                \* bal[i], native balance of account i
    open,               \* the accounts that may get a part of the last purchase
    disturbed           \* something has failed, and nothing is promised

purchaseVars == <<usdc, native, books, bal, open, disturbed>>

Accounts == 1..NLegs

Target(min, i) == (min * TargetBps[i]) \div 10000

Init ==
    /\ usdc \in Nat /\ native \in Nat
    /\ books = [usdc |-> 0, wei |-> 0]
    /\ bal \in [Accounts -> Nat]
    /\ open = {}
    /\ ~disturbed

\* Account i is below a minimum that was set, and goes up to its target at most.
Needs(i, wei) == \E min \in MinChoices : bal[i] < min /\ bal[i] + wei <= Target(min, i)

Buy ==
    /\ open = {} /\ open' = Accounts
    /\ \E i \in Accounts : Needs(i, 1)
    /\ \E paid \in 1..usdc, rate \in Rates :
          /\ usdc' = usdc - paid
          /\ native' = native + paid * rate
          /\ books' = [usdc |-> books.usdc + paid, wei |-> books.wei + paid * rate]
    /\ UNCHANGED <<bal, disturbed>>

Give(i, wei) ==
    /\ i \in open /\ open' = open \ {i}
    /\ Needs(i, wei)
    /\ bal' = [bal EXCEPT ![i] = @ + wei]
    /\ native' = native - wei
    /\ UNCHANGED <<usdc, books, disturbed>>

\* Some accounts need nothing, or nothing is left for them.
PassOver ==
    /\ open' \subseteq open
    /\ UNCHANGED <<usdc, native, books, bal, disturbed>>

\* Sponsored operations bring USDC in and cost the accounts gas.
Operate ==
    /\ usdc' >= usdc
    /\ bal' \in [Accounts -> Nat]
    /\ \A i \in Accounts : bal'[i] <= bal[i]
    /\ UNCHANGED <<native, books, open, disturbed>>

Next ==
    \/ Buy \/ PassOver \/ Operate
    \/ \E i \in Accounts, wei \in 1..native - Reserve : Give(i, wei)
    \/ disturbed'

Spec == Init /\ [][Next]_purchaseVars

=============================================================================
