---------------------------- MODULE RefillProofs ----------------------------
(***************************************************************************)
(* Theorems about module Refill, for every number of legs and runs, every  *)
(* price, cooldown, debounce and bound.                                    *)
(***************************************************************************)
EXTENDS RefillCooldown, AllocationProofs

-----------------------------------------------------------------------------
(* The operators a refill computes with *)

LEMMA DeficitType ==
    ASSUME NEW min \in Nat, bal \in [Legs -> Nat]
    PROVE  Deficit(min) \in [Legs -> Nat]
<1>1. ASSUME NEW i \in Legs PROVE Target(min, i) \in Nat
  BY TargetAssumption, DivNat DEF Target
<1>2. QED
  BY <1>1 DEF Deficit, Larger

LEMMA RequiredNat ==
    ASSUME NEW deficit \in [Legs -> Nat], NEW rate \in Rates
    PROVE  RequiredUsdc(deficit, rate) \in Nat
<1>1. rate \in Nat \ {0}
  BY RatesAssumption
<1>2. (Total(deficit) * 10500) \div 10000 \in Nat
  BY TotalNat, DivNat
<1>3. ASSUME NEW a \in Nat, NEW b \in Nat \ {0} PROVE CeilDiv(a, b) \in Nat
  BY DivNat DEF CeilDiv
<1>4. CeilDiv((Total(deficit) * 10500) \div 10000, rate) \in Nat
  BY <1>1, <1>2, <1>3
<1>5. CeilDiv((Total(deficit) * 10500) \div 10000, rate) * 10100 \in Nat
  BY <1>4
<1>6. QED
  BY <1>3, <1>5 DEF RequiredUsdc

LEMMA MinimumNat ==
    ASSUME NEW usdc \in Nat, NEW rate \in Rates
    PROVE  MinimumOut(usdc, rate) \in Nat
<1>1. usdc * rate * 9900 \in Nat
  BY RatesAssumption
<1>2. QED
  BY <1>1, DivNat DEF MinimumOut, QuotedOut, Larger

\* The loop over the legs finds the next one to pay, or the end.
LEMMA NextLegType ==
    ASSUME NEW plan \in [Legs -> Nat], NEW i \in 0..NLegs
    PROVE  /\ NextLeg(plan, i) \in i + 1..NLegs + 1
           /\ NextLeg(plan, i) = NLegs + 1 \/ plan[NextLeg(plan, i)] > 0
<1> DEFINE Stop == {l \in i + 1..NLegs + 1 : l = NLegs + 1 \/ plan[l] > 0}
<1>1. NLegs \in Nat
  BY NLegsAssumption
<1>2. Stop \in SUBSET Nat /\ Stop # {}
  BY <1>1
<1> HIDE DEF Stop
<1>3. PICK l \in Stop : \A m \in Stop : l <= m
  BY <1>2, LeastNatural
<1> USE DEF Stop
<1>4. ASSUME NEW m \in i + 1..l - 1 PROVE plan[m] = 0
  <2>1. m \in Legs /\ m \in i + 1..NLegs + 1 /\ m # NLegs + 1 /\ m < l
    BY <1>1, <1>3 DEF Legs
  <2>2. m \notin Stop
    BY <1>1, <1>3, <2>1
  <2>3. QED
    BY <2>1, <2>2
<1>5. QED
  BY <1>3, <1>4 DEF NextLeg


-----------------------------------------------------------------------------
(* Type correctness *)

LEMMA NoJobType == NoJob \in Job
BY NLegsAssumption DEF NoJob, Job, Nothing

LEMMA TypeInit == Init => TypeOK
<1> SUFFICES ASSUME Init PROVE TypeOK
  OBVIOUS
<1>1. preflightInFlight \in BOOLEAN /\ refillInFlight \in BOOLEAN
  BY DEF Init, TriggerInit
<1>2. untilAllowed \in 0..Debounce /\ sinceRefill \in 0..Cooldown /\ faults \in 0..MaxFaults
  BY DebounceAssumption, CooldownAssumption, BoundAssumption DEF Init, TriggerInit
<1>3. ChainTypeOK
  BY InitAssumption DEF Init, ChainTypeOK, Receipts
<1>4. /\ pc \in [Runs -> Steps]
      /\ job \in [Runs -> Job]
      /\ \A r \in Runs : pc[r] # "send"
  BY NoJobType DEF Init, Steps
<1>5. minNativeWei \in MinChoices
  BY MinAssumption DEF Init
<1>6. QED
  BY <1>1, <1>2, <1>3, <1>4, <1>5 DEF TypeOK, TriggerTypeOK

\* What returning does to the types: used by every action that can end a run.
LEMMA FinishType ==
    ASSUME TypeOK, NEW r \in Runs, Finish(r) \/ FinishEarly(r)
    PROVE  /\ TriggerTypeOK'
           /\ refillInFlight' \in BOOLEAN
           /\ pc' \in [Runs -> Steps]
           /\ job' \in [Runs -> Job]
           /\ \A s \in Runs : pc'[s] = "send" => job'[s].leg \in Legs
<1>1. Forget(r) /\ refillInFlight' \in BOOLEAN
  BY DEF Finish, FinishEarly, TypeOK
<1>2. TriggerTypeOK'
  BY DEF Finish, FinishEarly, TypeOK, TriggerTypeOK, Settle, triggerVars
<1>3. pc' \in [Runs -> Steps] /\ job' \in [Runs -> Job]
  BY <1>1, NoJobType DEF Forget, Goto, TypeOK, Steps
<1>4. ASSUME NEW s \in Runs, pc'[s] = "send" PROVE job'[s].leg \in Legs
  BY <1>1, <1>4 DEF Forget, Goto, TypeOK
<1>5. QED
  BY <1>1, <1>2, <1>3, <1>4

LEMMA TxOfType ==
    ASSUME TypeOK, NEW r \in Runs, pc[r] \in TxSteps
    PROVE  TxOf(r) \in Tx
<1>1. job[r] \in Job
  BY DEF TypeOK
<1>2. pc[r] \in Kinds
  BY DEF TxSteps, Kinds
<1>3. pc[r] = "send" => job[r].plan[job[r].leg] \in Nat /\ job[r].leg \in Legs
  BY <1>1 DEF TypeOK, Job
<1>4. QED
  BY <1>1, <1>2, <1>3 DEF TxOf, Tx, Job, TxSteps

LEMMA SendFromType ==
    ASSUME TypeOK, NEW r \in Runs, NEW plan \in [Legs -> Nat], NEW i \in 0..NLegs,
           SendFrom(r, plan, i)
    PROVE  /\ TriggerTypeOK'
           /\ refillInFlight' \in BOOLEAN
           /\ sinceRefill' \in 0..Cooldown
           /\ pc' \in [Runs -> Steps]
           /\ job' \in [Runs -> Job]
           /\ \A s \in Runs : pc'[s] = "send" => job'[s].leg \in Legs
<1>1. CASE NextLeg(plan, i) = NLegs + 1
  <2>1. Finish(r) /\ sinceRefill' = 0
    BY <1>1 DEF SendFrom
  <2>2. QED
    BY <2>1, FinishType, CooldownAssumption
<1>2. CASE NextLeg(plan, i) # NLegs + 1
  <2>1. NextLeg(plan, i) \in Legs
    BY <1>2, NextLegType, NLegsAssumption DEF Legs
  <2>2. /\ job' = [job EXCEPT ![r].plan = plan, ![r].leg = NextLeg(plan, i)]
        /\ pc' = [pc EXCEPT ![r] = "send"]
        /\ UNCHANGED <<triggerVars, refillInFlight, sinceRefill>>
    BY <1>2 DEF SendFrom, Goto
  <2>3. job' \in [Runs -> Job]
    <3>1. NextLeg(plan, i) \in 0..NLegs
      BY <2>1, NLegsAssumption DEF Legs
    <3>2. [job[r] EXCEPT !.plan = plan, !.leg = NextLeg(plan, i)] \in Job
      BY <3>1 DEF TypeOK, Job
    <3>3. job' = [job EXCEPT ![r] =
                    [job[r] EXCEPT !.plan = plan, !.leg = NextLeg(plan, i)]]
      BY <2>2 DEF TypeOK
    <3>4. QED
      BY <3>2, <3>3 DEF TypeOK
  <2>4. pc' \in [Runs -> Steps]
    BY <2>2 DEF TypeOK, Steps, TxSteps
  <2>5. ASSUME NEW s \in Runs, pc'[s] = "send" PROVE job'[s].leg \in Legs
    BY <2>1, <2>2, <2>5 DEF TypeOK, Job
  <2>6. QED
    BY <2>2, <2>3, <2>4, <2>5 DEF TypeOK, TriggerTypeOK, triggerVars
<1>3. QED
  BY <1>1, <1>2

\* The types of the chain's state under each kind of transaction.
LEMMA ChainFields ==
    ASSUME ChainTypeOK
    PROVE  /\ owner.usdc \in Nat /\ owner.wrapped \in Nat
           /\ owner.native \in Nat /\ owner.allowance \in Nat
           /\ books.usdc \in Nat /\ books.wei \in Nat
           /\ pool.usdc \in Nat /\ pool.wei \in Nat
BY DEF ChainTypeOK

LEMMA OwnerType ==
    ASSUME ChainTypeOK, NEW a \in Nat, NEW b \in Nat, NEW c \in Nat
    PROVE  LET Owner == [usdc : Nat, wrapped : Nat, native : Nat, allowance : Nat]
           IN  /\ [owner EXCEPT !.usdc = a] \in Owner
               /\ [owner EXCEPT !.allowance = a] \in Owner
               /\ [owner EXCEPT !.native = a] \in Owner
               /\ [owner EXCEPT !.wrapped = a, !.native = b] \in Owner
               /\ [owner EXCEPT !.usdc = a, !.allowance = b, !.wrapped = c] \in Owner
BY DEF ChainTypeOK

LEMMA NatPlus == \A a, b \in Nat : a + b \in Nat
OBVIOUS

LEMMA NatMinus == \A a, b \in Nat : a >= b => a - b \in Nat
OBVIOUS

LEMMA WithdrawType ==
    ASSUME ChainTypeOK, NEW tx \in Tx, WithdrawUsdc(tx),
           mempool' \in Seq(Tx), receipt' \in [Runs -> Receipts]
    PROVE  ChainTypeOK'
<1>1. tx.usdc \in Nat /\ pmUsdc \in Nat
  BY DEF Tx, ChainTypeOK
<1>2. pmUsdc' \in Nat
  BY <1>1 DEF WithdrawUsdc
<1>3. owner.usdc + tx.usdc \in Nat
  BY <1>1, ChainFields
<1>4. owner' = [owner EXCEPT !.usdc = owner.usdc + tx.usdc]
  BY DEF WithdrawUsdc, ChainTypeOK
<1>5. owner' \in [usdc : Nat, wrapped : Nat, native : Nat, allowance : Nat]
  BY <1>3, <1>4, OwnerType
<1>6. QED
  BY <1>2, <1>5 DEF ChainTypeOK, WithdrawUsdc

LEMMA ApproveType ==
    ASSUME ChainTypeOK, NEW tx \in Tx, Approve(tx),
           mempool' \in Seq(Tx), receipt' \in [Runs -> Receipts]
    PROVE  ChainTypeOK'
<1>1. tx.usdc \in Nat
  BY DEF Tx
<1>2. owner' \in [usdc : Nat, wrapped : Nat, native : Nat, allowance : Nat]
  BY <1>1, OwnerType DEF Approve
<1>3. QED
  BY <1>2 DEF ChainTypeOK, Approve

LEMMA SwapType ==
    ASSUME ChainTypeOK, NEW tx \in Tx, NEW rate \in Rates, ExactInputSingle(tx, rate),
           mempool' \in Seq(Tx), receipt' \in [Runs -> Receipts]
    PROVE  ChainTypeOK'
<1>1. tx.usdc \in Nat /\ rate \in Nat
  BY RatesAssumption DEF Tx
<1>2. tx.usdc * rate \in Nat
  BY <1>1
<1>3. owner.usdc >= tx.usdc /\ owner.allowance >= tx.usdc
  BY DEF ExactInputSingle
<1>4. /\ owner.usdc - tx.usdc \in Nat /\ owner.allowance - tx.usdc \in Nat
      /\ owner.wrapped + tx.usdc * rate \in Nat
  BY <1>1, <1>2, <1>3, ChainFields, NatPlus, NatMinus, Zenon
<1>5. owner' = [owner EXCEPT !.usdc = owner.usdc - tx.usdc,
                             !.allowance = owner.allowance - tx.usdc,
                             !.wrapped = owner.wrapped + tx.usdc * rate]
  BY DEF ExactInputSingle, ChainTypeOK
<1>6. owner' \in [usdc : Nat, wrapped : Nat, native : Nat, allowance : Nat]
  BY <1>4, <1>5, OwnerType
<1>7. pool.usdc + tx.usdc \in Nat /\ pool.wei + tx.usdc * rate \in Nat
  BY <1>1, <1>2, ChainFields, NatPlus, Zenon
<1>8. pool' \in [usdc : Nat, wei : Nat]
  BY <1>7 DEF ExactInputSingle
<1>9. QED
  BY <1>6, <1>8 DEF ChainTypeOK, ExactInputSingle

LEMMA RecordType ==
    ASSUME ChainTypeOK, NEW tx \in Tx, RecordGasPurchase(tx),
           mempool' \in Seq(Tx), receipt' \in [Runs -> Receipts]
    PROVE  ChainTypeOK'
<1>1. books.usdc + tx.usdc \in Nat /\ books.wei + tx.wei \in Nat
  BY ChainFields DEF Tx
<1>2. books' \in [usdc : Nat, wei : Nat]
  BY <1>1 DEF RecordGasPurchase
<1>3. QED
  BY <1>2 DEF ChainTypeOK, RecordGasPurchase

LEMMA UnwrapType ==
    ASSUME ChainTypeOK, NEW tx \in Tx, Unwrap(tx),
           mempool' \in Seq(Tx), receipt' \in [Runs -> Receipts]
    PROVE  ChainTypeOK'
<1>1. tx.wei \in Nat /\ owner.wrapped >= tx.wei
  BY DEF Tx, Unwrap
<1>2. owner.wrapped - tx.wei \in Nat /\ owner.native + tx.wei \in Nat
  BY <1>1, ChainFields
<1>3. owner' = [owner EXCEPT !.wrapped = owner.wrapped - tx.wei,
                             !.native = owner.native + tx.wei]
  BY DEF Unwrap, ChainTypeOK
<1>4. owner' \in [usdc : Nat, wrapped : Nat, native : Nat, allowance : Nat]
  BY <1>2, <1>3, OwnerType
<1>5. QED
  BY <1>4 DEF ChainTypeOK, Unwrap

LEMMA SendType ==
    ASSUME ChainTypeOK, NEW tx \in Tx, SendNative(tx),
           mempool' \in Seq(Tx), receipt' \in [Runs -> Receipts]
    PROVE  ChainTypeOK'
<1>1. tx.wei \in Nat /\ owner.native >= tx.wei
  BY DEF Tx, SendNative
<1>2. owner.native - tx.wei \in Nat
  BY <1>1, ChainFields
<1>3. owner' = [owner EXCEPT !.native = owner.native - tx.wei]
  BY DEF SendNative, ChainTypeOK
<1>4. owner' \in [usdc : Nat, wrapped : Nat, native : Nat, allowance : Nat]
  BY <1>2, <1>3, OwnerType
<1>5. bal' \in [Legs -> Nat]
  <2>1. bal \in [Legs -> Nat] /\ bal' = [bal EXCEPT ![tx.leg] = @ + tx.wei]
    BY DEF SendNative, ChainTypeOK
  <2>2. ASSUME NEW i \in Legs PROVE bal[i] + tx.wei \in Nat
    BY <1>1, <2>1
  <2>3. QED
    BY <2>1, <2>2
<1>6. QED
  BY <1>4, <1>5 DEF ChainTypeOK, SendNative

LEMMA MineType ==
    ASSUME ChainTypeOK, mempool # <<>>, Mine \/ Revert
    PROVE  ChainTypeOK'
<1> DEFINE tx == Head(mempool)
<1>1. tx \in Tx /\ Tail(mempool) \in Seq(Tx)
  BY DEF ChainTypeOK
<1>2. mempool' = Tail(mempool) /\ \E status \in Receipts : Receipt(tx, status)
  BY DEF Mine, Revert, Receipts
<1>3. receipt' \in [Runs -> Receipts]
  BY <1>2 DEF ChainTypeOK, Receipt
<1>4. mempool' \in Seq(Tx)
  BY <1>1, <1>2
<1> HIDE DEF tx
<1>5. CASE Succeeds(tx)
  BY <1>1, <1>3, <1>4, <1>5, WithdrawType, ApproveType, SwapType, RecordType,
     UnwrapType, SendType DEF Succeeds
<1>6. CASE Revert
  BY <1>3, <1>4, <1>6 DEF ChainTypeOK, Revert
<1>7. QED
  BY <1>5, <1>6 DEF Mine, tx

LEMMA DisownType ==
    ASSUME ChainTypeOK, NEW R \in SUBSET Runs, Disown(R),
           UNCHANGED <<pmUsdc, owner, books, pool, bal>>
    PROVE  ChainTypeOK'
<1>1. mempool' \in Seq(Tx)
  <2>1. /\ Len(mempool) \in Nat /\ DOMAIN mempool = 1..Len(mempool)
        /\ \A n \in 1..Len(mempool) : mempool[n] \in Tx
    BY DEF ChainTypeOK
  <2>2. ASSUME NEW n \in 1..Len(mempool)
        PROVE  [mempool[n] EXCEPT !.by = NoRun] \in Tx
    BY <2>1 DEF Tx
  <2>3. mempool' \in [1..Len(mempool) -> Tx]
    BY <2>1, <2>2 DEF Disown
  <2>4. QED
    BY <2>1, <2>3
<1>2. receipt' \in [Runs -> Receipts]
  BY DEF Disown, ChainTypeOK, Receipts
<1>3. QED
  BY <1>1, <1>2 DEF ChainTypeOK

\* The types of the policy read.
LEMMA LivePolicyType ==
    ASSUME TypeOK, NEW r \in Runs, NEW fallback \in Nat, LivePolicy(r, fallback)
    PROVE  /\ job' \in [Runs -> Job] /\ faults' \in 0..MaxFaults
           /\ \A s \in Runs : job'[s].leg = job[s].leg
<1>1. minNativeWei \in Nat
  BY MinAssumption DEF TypeOK
<1>2. PICK min \in Nat : job' = [job EXCEPT ![r].min = min]
  BY <1>1 DEF LivePolicy
<1>3. [job[r] EXCEPT !.min = min] \in Job
  BY DEF TypeOK, Job
<1>4. job' = [job EXCEPT ![r] = [job[r] EXCEPT !.min = min]]
  BY <1>2 DEF TypeOK
<1>5. faults' \in 0..MaxFaults
  BY BoundAssumption DEF LivePolicy, Fault, TypeOK
<1>6. QED
  BY <1>3, <1>4, <1>5 DEF TypeOK, Job

LEMMA FaultType == TypeOK /\ Fault => faults' \in 0..MaxFaults
BY BoundAssumption DEF Fault, TypeOK

LEMMA SameChain == ChainTypeOK /\ UNCHANGED chainVars => ChainTypeOK'
BY DEF ChainTypeOK, chainVars

LEMMA SameTrigger == TriggerTypeOK /\ UNCHANGED triggerVars => TriggerTypeOK'
BY DEF TriggerTypeOK, triggerVars

\* A run that goes on, other than to a send, keeps the types of its record.
LEMMA GotoType ==
    ASSUME TypeOK, NEW r \in Runs, NEW step \in Steps \ {"send"}, Goto(r, step),
           NEW j \in Job, job' = job \/ job' = [job EXCEPT ![r] = j]
    PROVE  /\ pc' \in [Runs -> Steps]
           /\ job' \in [Runs -> Job]
           /\ \A s \in Runs : pc'[s] = "send" => job'[s].leg \in Legs
<1>1. pc' \in [Runs -> Steps] /\ job' \in [Runs -> Job]
  BY DEF Goto, TypeOK
<1>2. ASSUME NEW s \in Runs, pc'[s] = "send" PROVE job'[s].leg \in Legs
  <2>1. s # r /\ pc[s] = "send"
    BY <1>2 DEF Goto, TypeOK
  <2>2. job'[s] = job[s]
    BY <2>1 DEF TypeOK
  <2>3. QED
    BY <2>1, <2>2 DEF TypeOK
<1>3. QED
  BY <1>1, <1>2

LEMMA StepNames ==
    /\ {"settle", "preflight policy", "preflight balances", "policy", "snapshot", "size",
        "withdraw", "approve", "swap", "wrapped balance", "record", "unwrap", "split"}
            = Steps \ {"send", "idle"}
    /\ {"idle", "send"} \subseteq Steps
BY DEF Steps, EarlySteps, TxSteps

LEMMA DebounceInRange == Debounce \in 0..Debounce
BY DebounceAssumption

LEMMA ScheduleType ==
    ASSUME TypeOK, NEW r \in Runs, Schedule(r) \/ RequestManual(r)
    PROVE  TypeOK'
<1>1. PICK step \in {"settle", "preflight policy", "policy"} : Goto(r, step)
  BY DEF Schedule, RequestManual
<1>2. step \in Steps \ {"send"}
  BY <1>1, StepNames
<1>3. job' = job /\ UNCHANGED <<chainVars, sinceRefill, minNativeWei, faults>>
  BY DEF Schedule, RequestManual
<1>4. /\ pc' \in [Runs -> Steps] /\ job' \in [Runs -> Job]
      /\ \A s \in Runs : pc'[s] = "send" => job'[s].leg \in Legs
  BY <1>1, <1>2, <1>3, GotoType, NoJobType
<1>5. TriggerTypeOK' /\ refillInFlight' \in BOOLEAN
  <2>1. CASE Schedule(r)
    <3>1. preflightInFlight' \in BOOLEAN /\ refillInFlight' \in BOOLEAN
      BY <2>1 DEF Schedule, Trigger, TypeOK
    <3>2. untilAllowed' \in 0..Debounce
      <4>1. untilAllowed' = Debounce
        BY <2>1 DEF Schedule, Trigger
      <4>2. QED
        BY <4>1, DebounceInRange, Zenon
    <3>3. QED
      BY <3>1, <3>2 DEF TriggerTypeOK
  <2>2. CASE RequestManual(r)
    BY <2>2, SameTrigger DEF RequestManual, TypeOK
  <2>3. QED
    BY <2>1, <2>2
<1>6. ChainTypeOK'
  BY <1>3, SameChain DEF TypeOK
<1>7. QED
  BY <1>3, <1>4, <1>5, <1>6 DEF TypeOK

\* Every step that only ends a run.
LEMMA EndType ==
    ASSUME TypeOK, NEW r \in Runs, Finish(r) \/ FinishEarly(r),
           UNCHANGED <<chainVars, sinceRefill, minNativeWei>>,
           faults' \in 0..MaxFaults
    PROVE  TypeOK'
<1>1. ChainTypeOK'
  BY SameChain DEF TypeOK
<1>2. QED
  BY <1>1, FinishType DEF TypeOK

\* Every step that only moves a run on.
LEMMA MoveType ==
    ASSUME TypeOK, NEW r \in Runs, NEW step \in Steps \ {"send"}, Goto(r, step),
           NEW j \in Job, job' = job \/ job' = [job EXCEPT ![r] = j],
           refillInFlight' \in BOOLEAN,
           UNCHANGED <<triggerVars, chainVars, sinceRefill, minNativeWei>>,
           faults' \in 0..MaxFaults
    PROVE  TypeOK'
<1>1. ChainTypeOK' /\ TriggerTypeOK'
  BY SameChain, SameTrigger DEF TypeOK
<1>2. /\ pc' \in [Runs -> Steps] /\ job' \in [Runs -> Job]
      /\ \A s \in Runs : pc'[s] = "send" => job'[s].leg \in Legs
  BY GotoType
<1>3. QED
  BY <1>1, <1>2 DEF TypeOK

LEMMA PolicyType ==
    ASSUME TypeOK, NEW r \in Runs, PreflightPolicy(r) \/ ReadPolicy(r)
    PROVE  TypeOK'
<1>1. job[r] \in Job /\ BootMin \in Nat /\ minNativeWei \in Nat
  BY MinAssumption DEF TypeOK
<1>2. PICK fallback \in Nat : LivePolicy(r, fallback)
  BY <1>1 DEF PreflightPolicy, ReadPolicy, Job
<1>3. PICK min \in Nat : job' = [job EXCEPT ![r].min = min]
  BY <1>1, <1>2 DEF LivePolicy
<1>4. [job[r] EXCEPT !.min = min] \in Job
  BY <1>1 DEF Job
<1>5. job' = [job EXCEPT ![r] = [job[r] EXCEPT !.min = min]]
  BY <1>3 DEF TypeOK
<1>6. faults' \in 0..MaxFaults
  BY <1>2, LivePolicyType
<1>7. PICK step \in {"preflight balances", "snapshot"} : Goto(r, step)
  BY DEF PreflightPolicy, ReadPolicy
<1>8. step \in Steps \ {"send"}
  BY <1>7, StepNames
<1>9. /\ refillInFlight' \in BOOLEAN
      /\ UNCHANGED <<triggerVars, chainVars, sinceRefill, minNativeWei>>
  BY DEF PreflightPolicy, ReadPolicy, TypeOK
<1>10. QED
  BY <1>4, <1>5, <1>6, <1>7, <1>8, <1>9, MoveType

LEMMA PreflightBalancesType ==
    ASSUME TypeOK, NEW r \in Runs, PreflightBalances(r)
    PROVE  TypeOK'
<1>1. UNCHANGED <<chainVars, sinceRefill, minNativeWei>> /\ faults' \in 0..MaxFaults
  BY DEF PreflightBalances, TypeOK
<1>2. CASE FinishEarly(r)
  BY <1>1, <1>2, EndType
<1>3. CASE ~FinishEarly(r)
  <2>1. /\ refillInFlight' = TRUE /\ Goto(r, "policy")
        /\ UNCHANGED <<job, triggerVars>>
    BY <1>3 DEF PreflightBalances
  <2>2. QED
    BY <1>1, <2>1, NoJobType, StepNames, MoveType
<1>4. QED
  BY <1>2, <1>3

LEMMA SnapshotType ==
    ASSUME TypeOK, NEW r \in Runs, Snapshot(r)
    PROVE  TypeOK'
<1>1. UNCHANGED <<chainVars, sinceRefill, minNativeWei>> /\ faults' \in 0..MaxFaults
  BY DEF Snapshot, TypeOK
<1>2. CASE Finish(r)
  BY <1>1, <1>2, EndType
<1>3. CASE ~Finish(r)
  <2> DEFINE d == Deficit(job[r].min)
  <2>1. /\ job' = [job EXCEPT ![r].deficit = d] /\ Goto(r, "size")
        /\ UNCHANGED <<triggerVars, refillInFlight>>
    BY <1>3 DEF Snapshot
  <2>2. job[r] \in Job /\ job[r].min \in Nat /\ bal \in [Legs -> Nat]
    BY DEF TypeOK, Job, ChainTypeOK
  <2>3. d \in [Legs -> Nat]
    BY <2>2, DeficitType
  <2> HIDE DEF d
  <2>4. [job[r] EXCEPT !.deficit = d] \in Job
    BY <2>2, <2>3 DEF Job
  <2>5. job' = [job EXCEPT ![r] = [job[r] EXCEPT !.deficit = d]]
    BY <2>1 DEF TypeOK
  <2>6. "size" \in Steps \ {"send"} /\ refillInFlight' \in BOOLEAN
    BY <2>1, StepNames DEF TypeOK
  <2>7. QED
    BY <1>1, <2>1, <2>4, <2>5, <2>6, MoveType
<1>4. QED
  BY <1>2, <1>3

\* What Size and SizeWithoutMinimum write into the run's record.
LEMMA SizedJob ==
    ASSUME TypeOK, NEW r \in Runs, NEW rate \in Rates, NEW minOut \in Nat,
           job' = [job EXCEPT
                     ![r].usdc = Smaller(RequiredUsdc(job[r].deficit, rate), pmUsdc),
                     ![r].minOut = minOut]
    PROVE  \E j \in Job : job' = [job EXCEPT ![r] = j]
<1> DEFINE usdc == Smaller(RequiredUsdc(job[r].deficit, rate), pmUsdc)
<1>1. job[r] \in Job /\ job[r].deficit \in [Legs -> Nat] /\ pmUsdc \in Nat
  BY DEF TypeOK, Job, ChainTypeOK
<1>2. usdc \in Nat
  BY <1>1, RequiredNat DEF Smaller
<1> HIDE DEF usdc
<1>3. [job[r] EXCEPT !.usdc = usdc, !.minOut = minOut] \in Job
  BY <1>1, <1>2 DEF Job
<1>4. job' = [job EXCEPT ![r] = [job[r] EXCEPT !.usdc = usdc, !.minOut = minOut]]
  BY DEF TypeOK, usdc
<1>5. QED
  BY <1>3, <1>4

LEMMA SizeType ==
    ASSUME TypeOK, NEW r \in Runs, Size(r) \/ SizeWithoutMinimum(r)
    PROVE  TypeOK'
<1>1. UNCHANGED <<chainVars, sinceRefill, minNativeWei>>
  BY DEF Size, SizeWithoutMinimum
<1>2. faults' \in 0..MaxFaults
  BY FaultType DEF Size, SizeWithoutMinimum, TypeOK
<1>3. CASE Finish(r)
  BY <1>1, <1>2, <1>3, EndType
<1>4. CASE ~Finish(r)
  <2>1. PICK rate \in Rates, minOut \in Nat :
            job' = [job EXCEPT
                      ![r].usdc = Smaller(RequiredUsdc(job[r].deficit, rate), pmUsdc),
                      ![r].minOut = minOut]
    <3>1. CASE Size(r)
      <4>1. PICK rate \in Rates, later \in Rates :
              LET usdc == Smaller(RequiredUsdc(job[r].deficit, rate), pmUsdc)
              IN  job' = [job EXCEPT ![r].usdc = usdc,
                                     ![r].minOut = MinimumOut(usdc, later)]
        BY <1>4, <3>1 DEF Size
      <4>2. job[r].deficit \in [Legs -> Nat] /\ pmUsdc \in Nat
        BY DEF TypeOK, Job, ChainTypeOK
      <4>3. Smaller(RequiredUsdc(job[r].deficit, rate), pmUsdc) \in Nat
        BY <4>2, RequiredNat DEF Smaller
      <4>4. QED
        BY <4>1, <4>3, MinimumNat
    <3>2. CASE SizeWithoutMinimum(r)
      BY <3>2 DEF SizeWithoutMinimum
    <3>3. QED
      BY <3>1, <3>2
  <2>2. PICK j \in Job : job' = [job EXCEPT ![r] = j]
    BY <2>1, SizedJob
  <2>3. Goto(r, "withdraw") /\ UNCHANGED <<triggerVars, refillInFlight>>
    BY <1>4 DEF Size, SizeWithoutMinimum
  <2>4. "withdraw" \in Steps \ {"send"} /\ refillInFlight' \in BOOLEAN
    BY <2>3, StepNames DEF TypeOK
  <2>5. QED
    BY <1>1, <1>2, <2>2, <2>3, <2>4, MoveType
<1>5. QED
  BY <1>3, <1>4

LEMMA SubmitType ==
    ASSUME TypeOK, NEW r \in Runs, SubmitTx(r)
    PROVE  TypeOK'
<1>1. TxOf(r) \in Tx
  BY TxOfType DEF SubmitTx
<1>2. /\ mempool' = Append(mempool, TxOf(r))
      /\ receipt' = [receipt EXCEPT ![r] = "pending"]
      /\ UNCHANGED <<pmUsdc, owner, books, pool, bal>>
      /\ UNCHANGED <<triggerVars, runnerVars, minNativeWei, faults>>
  BY DEF SubmitTx, Submit
<1>3. mempool' \in Seq(Tx)
  BY <1>1, <1>2 DEF TypeOK, ChainTypeOK
<1>4. ChainTypeOK'
  BY <1>2, <1>3 DEF TypeOK, ChainTypeOK, Receipts
<1>5. QED
  BY <1>2, <1>4, SameTrigger DEF TypeOK, runnerVars

LEMMA ReceiveType ==
    ASSUME TypeOK, NEW r \in Runs, Receive(r)
    PROVE  TypeOK'
<1>1. /\ receipt' = [receipt EXCEPT ![r] = "none"]
      /\ UNCHANGED <<pmUsdc, owner, books, pool, bal, mempool, minNativeWei, faults>>
  BY DEF Receive, TakeReceipt
<1>2. ChainTypeOK'
  BY <1>1 DEF TypeOK, ChainTypeOK, Receipts
<1>3. faults' \in 0..MaxFaults /\ minNativeWei' \in MinChoices
  BY <1>1 DEF TypeOK
<1>4. CASE pc[r] \in DOMAIN After /\ Goto(r, After[pc[r]])
            /\ UNCHANGED <<triggerVars, refillInFlight, sinceRefill, job>>
  <2>1. After[pc[r]] \in Steps \ {"send"}
    <3>1. pc[r] \in {"withdraw", "approve", "record", "unwrap"}
      BY <1>4 DEF After
    <3>2. After[pc[r]] \in {"approve", "swap", "unwrap", "split"}
      BY <3>1 DEF After
    <3>3. QED
      BY <3>2, StepNames
  <2>2. /\ pc' \in [Runs -> Steps] /\ job' \in [Runs -> Job]
        /\ \A s \in Runs : pc'[s] = "send" => job'[s].leg \in Legs
    BY <1>4, <2>1, GotoType, NoJobType
  <2>3. TriggerTypeOK'
    BY <1>4, SameTrigger DEF TypeOK
  <2>4. QED
    BY <1>2, <1>3, <1>4, <2>2, <2>3 DEF TypeOK
<1>5. CASE Finish(r) /\ UNCHANGED sinceRefill
  BY <1>2, <1>3, <1>5, FinishType DEF TypeOK
<1>6. CASE Goto(r, "wrapped balance")
            /\ UNCHANGED <<triggerVars, refillInFlight, sinceRefill, job>>
  <2>1. "wrapped balance" \in Steps \ {"send"}
    BY StepNames
  <2>2. /\ pc' \in [Runs -> Steps] /\ job' \in [Runs -> Job]
        /\ \A s \in Runs : pc'[s] = "send" => job'[s].leg \in Legs
    BY <1>6, <2>1, GotoType, NoJobType
  <2>3. TriggerTypeOK'
    BY <1>6, SameTrigger DEF TypeOK
  <2>4. QED
    BY <1>2, <1>3, <1>6, <2>2, <2>3 DEF TypeOK
<1>7. CASE SendFrom(r, job[r].plan, job[r].leg)
  <2>1. job[r].plan \in [Legs -> Nat] /\ job[r].leg \in 0..NLegs
    BY DEF TypeOK, Job
  <2>2. QED
    BY <1>2, <1>3, <1>7, <2>1, SendFromType DEF TypeOK
<1>8. QED
  BY <1>4, <1>5, <1>6, <1>7 DEF Receive

LEMMA ReadWrappedType ==
    ASSUME TypeOK, NEW r \in Runs, ReadWrapped(r)
    PROVE  TypeOK'
<1>1. UNCHANGED <<chainVars, sinceRefill, minNativeWei>> /\ faults' \in 0..MaxFaults
  BY DEF ReadWrapped, TypeOK
<1>2. CASE Finish(r)
  BY <1>1, <1>2, EndType
<1>3. CASE ~Finish(r)
  <2>1. /\ job' = [job EXCEPT ![r].wBal = owner.wrapped] /\ Goto(r, "record")
        /\ UNCHANGED <<triggerVars, refillInFlight>>
    BY <1>3 DEF ReadWrapped
  <2>2. job[r] \in Job /\ owner.wrapped \in Nat
    BY ChainFields DEF TypeOK
  <2>3. [job[r] EXCEPT !.wBal = owner.wrapped] \in Job
    BY <2>2 DEF Job
  <2>4. job' = [job EXCEPT ![r] = [job[r] EXCEPT !.wBal = owner.wrapped]]
    BY <2>1 DEF TypeOK
  <2>5. "record" \in Steps \ {"send"} /\ refillInFlight' \in BOOLEAN
    BY <2>1, StepNames DEF TypeOK
  <2>6. QED
    BY <1>1, <2>1, <2>3, <2>4, <2>5, MoveType
<1>4. QED
  BY <1>2, <1>3

LEMMA SplitType ==
    ASSUME TypeOK, NEW r \in Runs, Split(r)
    PROVE  TypeOK'
<1> DEFINE plan == Allocate(job[r].deficit, Spendable)
<1>1. job[r].deficit \in [Legs -> Nat] /\ owner.native \in Nat
  BY ChainFields DEF TypeOK, Job
<1>2. Spendable \in Nat
  BY <1>1, ReserveAssumption DEF Spendable, Larger
<1>3. plan \in [Legs -> Nat]
  BY <1>1, <1>2, AllocateCapped
<1>4. SendFrom(r, plan, 0) /\ UNCHANGED <<chainVars, minNativeWei, faults>>
  BY DEF Split
<1>5. ChainTypeOK' /\ 0 \in 0..NLegs
  BY <1>4, SameChain, NLegsAssumption DEF TypeOK
<1> HIDE DEF plan
<1>6. QED
  BY <1>3, <1>4, <1>5, SendFromType DEF TypeOK

LEMMA FaultsType ==
    ASSUME TypeOK,
           \/ \E r \in Runs : Throw(r) \/ LoseReceipt(r)
           \/ Crash
    PROVE  TypeOK'
<1>1. faults' \in 0..MaxFaults
  BY FaultType DEF Throw, LoseReceipt, Crash
<1>2. ASSUME NEW r \in Runs, Throw(r) PROVE TypeOK'
  BY <1>1, <1>2, EndType DEF Throw
<1>3. ASSUME NEW r \in Runs, LoseReceipt(r) PROVE TypeOK'
  <2>1. ChainTypeOK'
    BY <1>3, DisownType DEF LoseReceipt, TypeOK
  <2>2. Finish(r) /\ UNCHANGED <<sinceRefill, minNativeWei>>
    BY <1>3 DEF LoseReceipt
  <2>3. QED
    BY <1>1, <2>1, <2>2, FinishType DEF TypeOK
<1>4. CASE Crash
  <2>1. ChainTypeOK'
    BY <1>4, DisownType DEF Crash, TypeOK
  <2>2. /\ TriggerTypeOK' /\ refillInFlight' \in BOOLEAN
        /\ sinceRefill' \in 0..Cooldown /\ minNativeWei' \in MinChoices
    <3>1. preflightInFlight' \in BOOLEAN /\ refillInFlight' \in BOOLEAN
      BY <1>4 DEF Crash, TriggerRestart
    <3>2. untilAllowed' \in 0..Debounce /\ sinceRefill' \in 0..Cooldown
      BY <1>4, DebounceAssumption, CooldownAssumption DEF Crash, TriggerRestart
    <3>3. minNativeWei' \in MinChoices
      BY <1>4 DEF Crash, TypeOK
    <3>4. QED
      BY <3>1, <3>2, <3>3 DEF TriggerTypeOK
  <2>3. /\ pc' \in [Runs -> Steps] /\ job' \in [Runs -> Job]
        /\ \A s \in Runs : pc'[s] # "send"
    BY <1>4, NoJobType, StepNames DEF Crash
  <2>4. QED
    BY <1>1, <2>1, <2>2, <2>3 DEF TypeOK
<1>5. QED
  BY <1>2, <1>3, <1>4

LEMMA EnvironmentType ==
    ASSUME TypeOK, Environment
    PROVE  TypeOK'
<1>1. CASE MineTx
  <2>1. ChainTypeOK'
    BY <1>1, MineType DEF MineTx, Mine, TypeOK
  <2>2. QED
    BY <1>1, <2>1, SameTrigger DEF MineTx, TypeOK, runnerVars
<1>2. CASE RevertTx
  <2>1. ChainTypeOK'
    BY <1>2, MineType DEF RevertTx, TypeOK
  <2>2. faults' \in 0..MaxFaults
    BY <1>2, FaultType DEF RevertTx, TypeOK
  <2>3. QED
    BY <1>2, <2>1, <2>2, SameTrigger DEF RevertTx, TypeOK, runnerVars
<1>3. CASE Tick
  <2>1. ChainTypeOK'
    BY <1>3, SameChain DEF Tick, TypeOK
  <2>2. TriggerTypeOK' /\ sinceRefill' \in 0..Cooldown
    BY <1>3, DebounceAssumption, CooldownAssumption
    DEF Tick, TriggerTick, TypeOK, TriggerTypeOK
  <2>3. QED
    BY <1>3, <2>1, <2>2 DEF Tick, TypeOK
<1>4. ASSUME NEW i \in Legs, NEW d \in Drains, Drain(i, d) PROVE TypeOK'
  <2>1. d \in Nat /\ bal \in [Legs -> Nat] /\ bal[i] >= d
    BY <1>4, FlowAssumption DEF Drain, TypeOK, ChainTypeOK
  <2>2. bal' \in [Legs -> Nat]
    BY <1>4, <2>1 DEF Drain
  <2>3. ChainTypeOK'
    BY <1>4, <2>2 DEF Drain, TypeOK, ChainTypeOK
  <2>4. QED
    BY <1>4, <2>3, SameTrigger DEF Drain, TypeOK, runnerVars
<1>5. ASSUME NEW u \in Incomes, Income(u) PROVE TypeOK'
  <2>1. pmUsdc' \in Nat
    BY <1>5, FlowAssumption DEF Income, TypeOK, ChainTypeOK
  <2>2. ChainTypeOK'
    BY <1>5, <2>1 DEF Income, TypeOK, ChainTypeOK
  <2>3. QED
    BY <1>5, <2>2, SameTrigger DEF Income, TypeOK, runnerVars
<1>6. ASSUME NEW min \in MinChoices, SetPolicy(min) PROVE TypeOK'
  BY <1>6, SameChain, SameTrigger DEF SetPolicy, TypeOK, runnerVars
<1>7. QED
  BY <1>1, <1>2, <1>3, <1>4, <1>5, <1>6 DEF Environment

LEMMA TypeStep == TypeOK /\ [Next]_vars => TypeOK'
<1> SUFFICES ASSUME TypeOK, [Next]_vars PROVE TypeOK'
  OBVIOUS
<1>1. ASSUME NEW r \in Runs, Schedule(r) \/ RequestManual(r) PROVE TypeOK'
  BY <1>1, ScheduleType
<1>2. ASSUME NEW r \in Runs, Continue(r) PROVE TypeOK'
  <2>1. CASE SettleInFlight(r) \/ Refused(r)
    <3>1. faults' \in 0..MaxFaults
      BY <2>1 DEF SettleInFlight, Refused, TypeOK
    <3>2. QED
      BY <2>1, <3>1, EndType DEF SettleInFlight, Refused
  <2>2. CASE PreflightPolicy(r) \/ ReadPolicy(r)
    BY <2>2, PolicyType
  <2>3. CASE PreflightBalances(r)
    BY <2>3, PreflightBalancesType
  <2>4. CASE Snapshot(r)
    BY <2>4, SnapshotType
  <2>5. CASE Size(r) \/ SizeWithoutMinimum(r)
    BY <2>5, SizeType
  <2>6. CASE SubmitTx(r)
    BY <2>6, SubmitType
  <2>7. CASE Receive(r)
    BY <2>7, ReceiveType
  <2>8. CASE ReadWrapped(r)
    BY <2>8, ReadWrappedType
  <2>9. CASE Split(r)
    BY <2>9, SplitType
  <2>10. QED
    BY <1>2, <2>1, <2>2, <2>3, <2>4, <2>5, <2>6, <2>7, <2>8, <2>9 DEF Continue
<1>3. CASE (\E r \in Runs : Throw(r) \/ LoseReceipt(r)) \/ Crash
  BY <1>3, FaultsType
<1>4. CASE Environment
  BY <1>4, EnvironmentType
<1>5. CASE UNCHANGED vars
  BY <1>5, SameChain, SameTrigger DEF vars, runnerVars, TypeOK
<1>6. QED
  BY <1>1, <1>2, <1>3, <1>4, <1>5 DEF Next

\* Every variable keeps its type, for every instance: in particular no
\* subtraction of a balance, an allowance, or a counter ever goes below zero,
\* every planned send is a natural number of wei to an existing leg, and what
\* a run computes of a snapshot is defined whatever the deficits are.
THEOREM TypeCorrect == Spec => []TypeOK
<1>1. Init => TypeOK
  BY TypeInit
<1>2. TypeOK /\ [Next]_vars => TypeOK'
  BY TypeStep
<1>3. QED
  BY <1>1, <1>2, PTL DEF Spec

-----------------------------------------------------------------------------
(***************************************************************************)
(* How runs start and return.  Every step of Refill is one of five kinds,  *)
(* as far as the coordinator, the flag and the set of idle runs go; the    *)
(* mutual exclusion theorems and the refinement follow from this alone.    *)
(***************************************************************************)

Starts(r) ==
    /\ pc[r] = "idle"
    /\ \E step \in Steps \ {"idle"} :
            Goto(r, step) /\ (step \in EarlySteps => r \in Autos)
    /\ \/ r \in Autos /\ Trigger /\ UNCHANGED refillInFlight
       \/ r \in Manuals /\ UNCHANGED triggerVars /\ ~refillInFlight /\ refillInFlight'

Ends(r) ==
    /\ pc[r] # "idle"
    /\ Goto(r, "idle")
    /\ \/ r \in Autos /\ Settle
       \/ r \in Manuals /\ UNCHANGED triggerVars /\ ~refillInFlight'

GoesOn ==
    /\ \A r \in Runs : pc'[r] = "idle" <=> pc[r] = "idle"
    /\ \A r \in Runs : pc'[r] \in EarlySteps => pc[r] \in EarlySteps
    /\ UNCHANGED triggerVars
    /\ UNCHANGED refillInFlight \/ \E r \in Autos : pc[r] # "idle"

Passes == TriggerTick /\ UNCHANGED <<refillInFlight, pc>>

Restarts == TriggerRestart /\ ~refillInFlight' /\ pc' = [r \in Runs |-> "idle"]

\* Only automatic runs have a preflight.
EarlyAutos == \A r \in Runs : pc[r] \in EarlySteps => r \in Autos

LEMMA RunKinds == \A r \in Runs : /\ r \in Autos \/ r \in Manuals
                                  /\ ~(r \in Autos /\ r \in Manuals)
BY RunsAssumption

LEMMA FinishEnds ==
    ASSUME TypeOK, NEW r \in Runs, pc[r] # "idle", Finish(r)
    PROVE  Ends(r)
BY RunKinds DEF Finish, Forget, Ends

LEMMA FinishEarlyEnds ==
    ASSUME TypeOK, EarlyAutos, NEW r \in Runs, pc[r] \in EarlySteps, FinishEarly(r)
    PROVE  Ends(r)
BY DEF FinishEarly, Forget, Ends, EarlyAutos, EarlySteps

LEMMA MovesOn ==
    ASSUME TypeOK, NEW r \in Runs, NEW step \in Steps \ {"idle"}, Goto(r, step),
           pc[r] # "idle", UNCHANGED triggerVars,
           UNCHANGED refillInFlight \/ r \in Autos,
           step \in EarlySteps => pc[r] \in EarlySteps
    PROVE  GoesOn
<1>1. /\ \A s \in Runs : pc'[s] = "idle" <=> pc[s] = "idle"
      /\ \A s \in Runs : pc'[s] \in EarlySteps => pc[s] \in EarlySteps
  BY DEF Goto, TypeOK
<1>2. QED
  BY <1>1 DEF GoesOn

LEMMA SendFromKinds ==
    ASSUME TypeOK, NEW r \in Runs, pc[r] # "idle", NEW plan, NEW i, SendFrom(r, plan, i)
    PROVE  Ends(r) \/ GoesOn
<1>1. CASE NextLeg(plan, i) = NLegs + 1
  BY <1>1, FinishEnds DEF SendFrom
<1>2. CASE NextLeg(plan, i) # NLegs + 1
  <2>1. Goto(r, "send") /\ UNCHANGED triggerVars /\ UNCHANGED refillInFlight
    BY <1>2 DEF SendFrom
  <2>2. "send" \in Steps \ {"idle"} /\ "send" \notin EarlySteps
    BY StepNames DEF EarlySteps
  <2>3. QED
    BY <2>1, <2>2, MovesOn
<1>3. QED
  BY <1>1, <1>2

LEMMA ContinueKinds ==
    ASSUME TypeOK, EarlyAutos, NEW r \in Runs, Continue(r)
    PROVE  Ends(r) \/ GoesOn
<1> USE DEF EarlySteps
<1>1. CASE SettleInFlight(r)
  BY <1>1, FinishEarlyEnds DEF SettleInFlight
<1>2. CASE PreflightPolicy(r)
  BY <1>2, MovesOn, StepNames DEF PreflightPolicy
<1>3. CASE PreflightBalances(r)
  <2>1. pc[r] = "preflight balances" /\ r \in Autos
    BY <1>3 DEF PreflightBalances, EarlyAutos
  <2>2. CASE FinishEarly(r)
    BY <2>1, <2>2, FinishEarlyEnds
  <2>3. CASE Goto(r, "policy") /\ UNCHANGED triggerVars
    BY <2>1, <2>3, MovesOn, StepNames
  <2>4. QED
    BY <1>3, <2>2, <2>3 DEF PreflightBalances
<1>4. CASE ReadPolicy(r)
  BY <1>4, MovesOn, StepNames DEF ReadPolicy
<1>5. CASE Snapshot(r)
  <2>1. pc[r] = "snapshot"
    BY <1>5 DEF Snapshot
  <2>2. CASE Finish(r)
    BY <2>1, <2>2, FinishEnds
  <2>3. CASE Goto(r, "size") /\ UNCHANGED triggerVars /\ UNCHANGED refillInFlight
    BY <2>1, <2>3, MovesOn, StepNames
  <2>4. QED
    BY <1>5, <2>2, <2>3 DEF Snapshot
<1>6. CASE Size(r)
  <2>1. pc[r] = "size"
    BY <1>6 DEF Size
  <2>2. CASE Finish(r)
    BY <2>1, <2>2, FinishEnds
  <2>3. CASE Goto(r, "withdraw") /\ UNCHANGED triggerVars /\ UNCHANGED refillInFlight
    BY <2>1, <2>3, MovesOn, StepNames
  <2>4. QED
    BY <1>6, <2>2, <2>3 DEF Size
<1>7. CASE SizeWithoutMinimum(r)
  BY <1>7, MovesOn, StepNames DEF SizeWithoutMinimum
<1>8. CASE SubmitTx(r)
  BY <1>8 DEF SubmitTx, GoesOn, runnerVars
<1>9. CASE Refused(r)
  BY <1>9, FinishEnds DEF Refused
<1>10. CASE Receive(r)
  <2>1. CASE /\ pc[r] \in DOMAIN After
             /\ Goto(r, After[pc[r]])
             /\ UNCHANGED <<triggerVars, refillInFlight, sinceRefill, job>>
    <3>1. pc[r] \in {"withdraw", "approve", "record", "unwrap"}
      BY <2>1 DEF After
    <3>2. After[pc[r]] \in {"approve", "swap", "unwrap", "split"}
      BY <3>1 DEF After
    <3>3. After[pc[r]] \in Steps \ {"idle"} /\ pc[r] # "idle"
      BY <3>1, <3>2, StepNames
    <3>4. After[pc[r]] \notin EarlySteps
      BY <3>2
    <3>5. QED
      BY <2>1, <3>3, <3>4, MovesOn
  <2>2. CASE pc[r] = "swap" /\ Finish(r)
    BY <2>2, FinishEnds
  <2>3. CASE /\ pc[r] = "swap"
             /\ Goto(r, "wrapped balance")
             /\ UNCHANGED <<triggerVars, refillInFlight, job>>
    BY <2>3, MovesOn, StepNames
  <2>4. CASE pc[r] = "send" /\ SendFrom(r, job[r].plan, job[r].leg)
    BY <2>4, SendFromKinds
  <2>5. QED
    BY <1>10, <2>1, <2>2, <2>3, <2>4 DEF Receive
<1>11. CASE ReadWrapped(r)
  <2>1. pc[r] = "wrapped balance"
    BY <1>11 DEF ReadWrapped
  <2>2. CASE Finish(r)
    BY <2>1, <2>2, FinishEnds
  <2>3. CASE Goto(r, "record") /\ UNCHANGED triggerVars /\ UNCHANGED refillInFlight
    BY <2>1, <2>3, MovesOn, StepNames
  <2>4. QED
    BY <1>11, <2>2, <2>3 DEF ReadWrapped
<1>12. CASE Split(r)
  BY <1>12, SendFromKinds DEF Split
<1>13. QED
  BY <1>1, <1>2, <1>3, <1>4, <1>5, <1>6, <1>7, <1>8, <1>9, <1>10, <1>11, <1>12
  DEF Continue

LEMMA NextKinds ==
    ASSUME TypeOK, EarlyAutos, [Next]_vars
    PROVE  \/ \E r \in Runs : Starts(r) \/ Ends(r)
           \/ GoesOn \/ Passes \/ Restarts
<1>1. ASSUME NEW r \in Runs, Schedule(r) PROVE Starts(r)
  <2>1. PICK step \in {"settle", "preflight policy"} : Goto(r, step)
    BY <1>1 DEF Schedule
  <2>2. step \in Steps \ {"idle"}
    BY <2>1, StepNames
  <2>3. QED
    BY <1>1, <2>1, <2>2 DEF Schedule, Starts
<1>2. ASSUME NEW r \in Runs, RequestManual(r) PROVE Starts(r)
  <2>1. "policy" \in Steps \ {"idle"} /\ "policy" \notin EarlySteps
    BY StepNames DEF EarlySteps
  <2>2. QED
    BY <1>2, <2>1 DEF RequestManual, Starts
<1>3. ASSUME NEW r \in Runs, Continue(r) PROVE Ends(r) \/ GoesOn
  BY <1>3, ContinueKinds
<1>4. ASSUME NEW r \in Runs, Throw(r) PROVE Ends(r)
  <2>1. CASE pc[r] \in EarlySteps
    BY <1>4, <2>1, FinishEarlyEnds DEF Throw
  <2>2. CASE pc[r] \notin EarlySteps
    BY <1>4, <2>2, FinishEnds DEF Throw
  <2>3. QED
    BY <2>1, <2>2
<1>5. ASSUME NEW r \in Runs, LoseReceipt(r) PROVE Ends(r)
  BY <1>5, FinishEnds DEF LoseReceipt, TxSteps
<1>6. CASE Crash
  BY <1>6 DEF Crash, Restarts
<1>7. CASE Tick
  BY <1>7 DEF Tick, Passes
<1>8. CASE Environment /\ ~Tick
  BY <1>8 DEF Environment, MineTx, RevertTx, Drain, Income, SetPolicy, GoesOn, runnerVars
<1>9. CASE UNCHANGED vars
  BY <1>9 DEF vars, runnerVars, GoesOn
<1>10. QED
  BY <1>1, <1>2, <1>3, <1>4, <1>5, <1>6, <1>7, <1>8, <1>9 DEF Next

-----------------------------------------------------------------------------
(* Mutual exclusion *)

\* At most one automatic run is between its trigger and its settling, and the
\* coordinator's flag is set meanwhile.
AutosExclusive ==
    /\ \A r \in Autos : pc[r] # "idle" => preflightInFlight
    /\ \A r, s \in Autos : pc[r] # "idle" /\ pc[s] # "idle" => r = s

\* Without automatic runs, at most one run is active, and refillInFlight is set.
ManualsExclusive ==
    Autos = {} =>
        /\ \A r \in Runs : pc[r] # "idle" => refillInFlight
        /\ \A r, s \in Runs : pc[r] # "idle" /\ pc[s] # "idle" => r = s

RunsInv == TypeOK /\ EarlyAutos /\ AutosExclusive /\ ManualsExclusive

LEMMA RunsInvInit == Init => RunsInv
<1> SUFFICES ASSUME Init PROVE RunsInv
  OBVIOUS
<1>1. TypeOK
  BY TypeInit
<1>2. \A r \in Runs : pc[r] = "idle"
  BY DEF Init
<1>3. QED
  BY <1>1, <1>2, RunsAssumption
  DEF RunsInv, EarlyAutos, EarlySteps, AutosExclusive, ManualsExclusive

LEMMA RunsInvStep == RunsInv /\ [Next]_vars => RunsInv'
<1> SUFFICES ASSUME RunsInv, [Next]_vars PROVE RunsInv'
  OBVIOUS
<1>1. TypeOK'
  BY TypeStep DEF RunsInv
<1>2. pc \in [Runs -> Steps] /\ Autos \subseteq Runs
  BY RunsAssumption DEF RunsInv, TypeOK
<1> USE RunKinds DEF RunsInv, EarlyAutos, AutosExclusive, ManualsExclusive
<1>3. ASSUME NEW r \in Runs, Starts(r) PROVE RunsInv'
  <2>1. PICK step \in Steps \ {"idle"} :
            pc' = [pc EXCEPT ![r] = step] /\ (step \in EarlySteps => r \in Autos)
    BY <1>3 DEF Starts, Goto
  <2>2. EarlyAutos'
    BY <1>2, <2>1
  <2>3. AutosExclusive'
    <3>1. CASE r \in Autos
      <4>1. \A s \in Autos : pc[s] = "idle"
        BY <1>2, <1>3, <3>1 DEF Starts, Trigger
      <4>2. preflightInFlight'
        BY <1>3, <3>1 DEF Starts, Trigger
      <4>3. QED
        BY <1>2, <2>1, <4>1, <4>2
    <3>2. CASE r \in Manuals
      BY <1>2, <1>3, <2>1, <3>2 DEF Starts, triggerVars
    <3>3. QED
      BY <3>1, <3>2
  <2>4. ManualsExclusive'
    <3>1. SUFFICES ASSUME Autos = {} PROVE ManualsExclusive'
      OBVIOUS
    <3>2. ~refillInFlight /\ refillInFlight'
      BY <1>3, <3>1 DEF Starts
    <3>3. \A s \in Runs : pc[s] = "idle"
      BY <3>1, <3>2
    <3>4. QED
      BY <1>2, <2>1, <3>2, <3>3
  <2>5. QED
    BY <1>1, <2>2, <2>3, <2>4
<1>4. ASSUME NEW r \in Runs, Ends(r) PROVE RunsInv'
  <2>1. pc' = [pc EXCEPT ![r] = "idle"] /\ pc[r] # "idle"
    BY <1>4 DEF Ends, Goto
  <2>2. EarlyAutos'
    BY <1>2, <2>1 DEF EarlySteps
  <2>3. AutosExclusive'
    <3>1. CASE r \in Autos
      <4>1. \A s \in Autos : pc'[s] = "idle"
        BY <1>2, <2>1, <3>1
      <4>2. QED
        BY <4>1
    <3>2. CASE r \in Manuals
      BY <1>2, <1>4, <2>1, <3>2 DEF Ends, triggerVars
    <3>3. QED
      BY <3>1, <3>2
  <2>4. ManualsExclusive'
    <3>1. SUFFICES ASSUME Autos = {} PROVE ManualsExclusive'
      OBVIOUS
    <3>2. \A s \in Runs : pc'[s] = "idle"
      BY <1>2, <2>1, <3>1
    <3>3. QED
      BY <3>2
  <2>5. QED
    BY <1>1, <2>2, <2>3, <2>4
<1>5. CASE GoesOn
  <2>1. EarlyAutos'
    BY <1>5 DEF GoesOn
  <2>2. AutosExclusive'
    BY <1>2, <1>5 DEF GoesOn, triggerVars
  <2>3. ManualsExclusive'
    BY <1>5 DEF GoesOn
  <2>4. QED
    BY <1>1, <2>1, <2>2, <2>3
<1>6. CASE Passes
  BY <1>1, <1>6 DEF Passes, TriggerTick
<1>7. CASE Restarts
  <2>1. \A s \in Runs : pc'[s] = "idle"
    BY <1>7 DEF Restarts
  <2>2. QED
    BY <1>1, <1>2, <2>1 DEF EarlySteps
<1>8. QED
  BY <1>3, <1>4, <1>5, <1>6, <1>7, NextKinds

LEMMA RunsInvHolds == Spec => []RunsInv
BY RunsInvInit, RunsInvStep, PTL DEF Spec

\* Each way into a refill excludes itself: with automatic refills only (the
\* coordinator's flag) or with manual refills only (the test and set of
\* refillInFlight), no two refills ever run at a time, whatever throws, times
\* out or restarts.  Together they do not: run RefillOverlap.
THEOREM OneEntryExcludes ==
    Spec => [](Autos = {} \/ Manuals = {} => OneRefillAtATime)
<1>1. RunsInv => (Autos = {} \/ Manuals = {} => OneRefillAtATime)
  <2> SUFFICES ASSUME RunsInv, Autos = {} \/ Manuals = {},
                      NEW r \in Refilling, NEW s \in Refilling
               PROVE  r = s
    BY DEF OneRefillAtATime
  <2>1. r \in Runs /\ s \in Runs /\ pc[r] # "idle" /\ pc[s] # "idle"
    BY DEF Refilling
  <2>2. CASE Autos = {}
    BY <2>1, <2>2 DEF RunsInv, ManualsExclusive
  <2>3. CASE Manuals = {}
    BY <2>1, <2>3, RunKinds DEF RunsInv, AutosExclusive
  <2>4. QED
    BY <2>2, <2>3
<1>2. QED
  BY <1>1, RunsInvHolds, PTL

-----------------------------------------------------------------------------
(* The coordinator's promise *)

\* The automatic runs between their trigger and their settling.
ActiveAutos == {r \in Autos : pc[r] # "idle"}

LEMMA CountActive ==
    /\ ActiveAutos = {} => Cardinality(ActiveAutos) = 0
    /\ \A r : ActiveAutos = {r} => Cardinality(ActiveAutos) = 1
BY FS_EmptySet, FS_Singleton

LEMMA CountActiveNext ==
    /\ ActiveAutos' = {} => Cardinality(ActiveAutos') = 0
    /\ \A r : ActiveAutos' = {r} => Cardinality(ActiveAutos') = 1
BY FS_EmptySet, FS_Singleton

LEMMA CoalescedInit == Init => Coalesced!Init
<1> SUFFICES ASSUME Init PROVE Coalesced!Init
  OBVIOUS
<1>1. ActiveAutos = {}
  BY RunsAssumption DEF ActiveAutos, Init
<1>2. Debounce - untilAllowed = Debounce
  BY DebounceAssumption DEF Init, TriggerInit
<1>3. QED
  BY <1>1, <1>2, CountActive DEF Coalesced!Init, ActiveAutos

LEMMA CoalescedStep ==
    RunsInv /\ [Next]_vars =>
        [Coalesced!Next]_<<Cardinality(ActiveAutos), Debounce - untilAllowed>>
<1> SUFFICES ASSUME RunsInv, [Next]_vars
             PROVE  [Coalesced!Next]_<<Cardinality(ActiveAutos), Debounce - untilAllowed>>
  OBVIOUS
<1>1. pc \in [Runs -> Steps] /\ Autos \subseteq Runs
  BY RunsAssumption DEF RunsInv, TypeOK
<1>2. untilAllowed \in 0..Debounce /\ Debounce \in Nat
  BY DebounceAssumption DEF RunsInv, TypeOK, TriggerTypeOK
<1>3. ASSUME NEW r \in Autos, Starts(r) PROVE Coalesced!Start
  <2>1. ~preflightInFlight /\ untilAllowed = 0 /\ untilAllowed' = Debounce
    BY <1>1, <1>3, RunKinds DEF Starts, Trigger
  <2>2. ActiveAutos = {}
    BY <2>1 DEF RunsInv, AutosExclusive, ActiveAutos
  <2>3. ActiveAutos' = {r}
    BY <1>1, <1>3, <2>2 DEF Starts, Goto, ActiveAutos
  <2>4. Debounce - untilAllowed = Debounce /\ Debounce - untilAllowed' = 0
    BY <1>2, <2>1
  <2>5. QED
    BY <2>2, <2>3, <2>4, CountActive, CountActiveNext DEF Coalesced!Start, ActiveAutos
<1>4. ASSUME NEW r \in Autos, Ends(r) PROVE Coalesced!End
  <2>1. pc[r] # "idle" /\ untilAllowed' = untilAllowed
    BY <1>1, <1>4, RunKinds DEF Ends, Settle
  <2>2. ActiveAutos = {r}
    BY <2>1 DEF RunsInv, AutosExclusive, ActiveAutos
  <2>3. ActiveAutos' = {}
    BY <1>1, <1>4, <2>2 DEF Ends, Goto, ActiveAutos
  <2>4. QED
    BY <2>1, <2>2, <2>3, CountActive, CountActiveNext DEF Coalesced!End, ActiveAutos
<1>5. ASSUME ActiveAutos' = ActiveAutos, untilAllowed' = untilAllowed
      PROVE  UNCHANGED <<Cardinality(ActiveAutos), Debounce - untilAllowed>>
  BY <1>5
<1>6. ASSUME NEW r \in Manuals, Starts(r) \/ Ends(r)
      PROVE  ActiveAutos' = ActiveAutos /\ untilAllowed' = untilAllowed
  BY <1>1, <1>6, RunKinds DEF Starts, Ends, Goto, ActiveAutos, triggerVars
<1>7. CASE GoesOn
  <2>1. ActiveAutos' = ActiveAutos /\ untilAllowed' = untilAllowed
    BY <1>1, <1>7 DEF GoesOn, ActiveAutos, triggerVars
  <2>2. QED
    BY <1>5, <2>1
<1>8. CASE Passes
  <2>1. ActiveAutos' = ActiveAutos
    BY <1>8 DEF Passes, ActiveAutos
  <2>2. CASE untilAllowed = 0
    <3>1. untilAllowed' = untilAllowed
      BY <1>8, <2>2 DEF Passes, TriggerTick
    <3>2. QED
      BY <1>5, <2>1, <3>1
  <2>3. CASE untilAllowed # 0
    <3>1. untilAllowed' = untilAllowed - 1
      BY <1>2, <1>8, <2>3 DEF Passes, TriggerTick
    <3>2. /\ Debounce - untilAllowed < Debounce
          /\ Debounce - untilAllowed' = Debounce - untilAllowed + 1
      BY <1>2, <2>3, <3>1
    <3>3. Coalesced!Tick
      BY <2>1, <3>2 DEF Coalesced!Tick, ActiveAutos
    <3>4. QED
      BY <3>3 DEF Coalesced!Next
  <2>4. QED
    BY <2>2, <2>3
<1>9. CASE Restarts
  <2>1. ActiveAutos' = {} /\ untilAllowed' = 0
    BY <1>1, <1>9 DEF Restarts, TriggerRestart, ActiveAutos
  <2>2. Debounce - untilAllowed' = Debounce
    BY <1>2, <2>1
  <2>3. Coalesced!Restart
    BY <2>1, <2>2, CountActiveNext DEF Coalesced!Restart, ActiveAutos
  <2>4. QED
    BY <2>3 DEF Coalesced!Next
<1>10. QED
  BY <1>3, <1>4, <1>5, <1>6, <1>7, <1>8, <1>9, NextKinds, RunKinds
  DEF RunsInv, Coalesced!Next

\* The refill's automatic runs implement what RefillTriggerCoordinator promises:
\* at most one preflight at a time, whatever the refill behind it does, and
\* starts at least a debounce window apart.
THEOREM PreflightsCoalesce == Spec => CoalescedSpec
<1>1. Init => Coalesced!Init
  BY CoalescedInit
<1>2. RunsInv /\ [Next]_vars =>
        [Coalesced!Next]_<<Cardinality(ActiveAutos), Debounce - untilAllowed>>
  BY CoalescedStep
<1>3. QED
  BY <1>1, <1>2, RunsInvHolds, PTL DEF Spec, CoalescedSpec, Coalesced!Spec, ActiveAutos

-----------------------------------------------------------------------------
(***************************************************************************)
(* The steps of a run, as far as its record, its receipt and the chain go. *)
(* The safety theorems below are proved from these kinds.                  *)
(***************************************************************************)

\* Only run r moves, and nothing on the chain: it does not wait for a receipt, or
\* takes the one that is there.
Alone(r) ==
    /\ \A s \in Runs \ {r} : pc'[s] = pc[s] /\ job'[s] = job[s] /\ receipt'[s] = receipt[s]
    /\ receipt[r] # "pending" /\ receipt'[r] = "none"
    /\ UNCHANGED <<pmUsdc, owner, books, pool, bal, mempool>>
    /\ faults' >= faults

\* Without a fault, a run never leaves between its swap and the unwrapping.
Leaves(r) ==
    /\ pc[r] # "idle" /\ pc'[r] = "idle"
    /\ faults' = faults =>
          \/ pc[r] \in EarlySteps \cup {"snapshot", "size", "split", "send"}
          \/ pc[r] = "swap" /\ receipt[r] = "reverted"
          \/ pc[r] = "wrapped balance" /\ owner.wrapped = 0

Prepares(r) ==
    /\ pc[r] \in {"idle", "policy"} \cup EarlySteps
    /\ pc'[r] \in {"policy", "snapshot"} \cup EarlySteps
    /\ pc'[r] = "snapshot" /\ faults' = faults => job'[r].min \in MinChoices

Measures(r) ==
    /\ pc[r] = "snapshot" /\ pc'[r] = "size"
    /\ job'[r] = [job[r] EXCEPT !.deficit = Deficit(job[r].min)]
    /\ \E i \in Legs : Deficit(job[r].min)[i] > 0
    /\ r \in Autos => sinceRefill = Cooldown

Sizes(r) ==
    /\ pc[r] = "size" /\ pc'[r] = "withdraw"
    /\ \E usdc \in Nat \ {0}, minOut \in Nat :
          job'[r] = [job[r] EXCEPT !.usdc = usdc, !.minOut = minOut]

Advances(r) ==
    /\ receipt[r] # "none"
    /\ pc[r] \in DOMAIN After /\ pc'[r] = After[pc[r]]
    /\ job'[r] = job[r]

Swapped(r) ==
    /\ receipt[r] = "success"
    /\ pc[r] = "swap" /\ pc'[r] = "wrapped balance"
    /\ job'[r] = job[r]

Weighs(r) ==
    /\ pc[r] = "wrapped balance" /\ pc'[r] = "record"
    /\ owner.wrapped # 0
    /\ job'[r] = [job[r] EXCEPT !.wBal = owner.wrapped]

\* The first send, of the plan made of what the owner can spare, or the next one.
PaysAfter(r, plan, i) ==
    /\ pc'[r] = "send"
    /\ NextLeg(plan, i) \in i + 1..NLegs
    /\ job'[r] = [job[r] EXCEPT !.plan = plan, !.leg = NextLeg(plan, i)]

Pays(r) ==
    \/ pc[r] = "split" /\ PaysAfter(r, Allocate(job[r].deficit, Spendable), 0)
    \/ /\ pc[r] = "send" /\ receipt[r] # "none"
       /\ PaysAfter(r, job[r].plan, job[r].leg)

RunMoves(r) ==
    /\ Alone(r)
    /\ \/ Leaves(r) \/ Prepares(r) \/ Measures(r) \/ Sizes(r) \/ Advances(r)
       \/ Swapped(r) \/ Weighs(r) \/ Pays(r)

\* Time, policy and the users: no run and no transaction.
Outside ==
    /\ UNCHANGED <<owner, books, pool, mempool, receipt, pc, job, faults>>
    /\ pmUsdc' >= pmUsdc /\ \A i \in Legs : bal'[i] <= bal[i]

\* Who waits for a receipt is at one of the transactions.
WaitInv == \A r \in Runs : receipt[r] # "none" => pc[r] \in TxSteps

LEMMA GotoMoves ==
    ASSUME TypeOK, NEW r \in Runs, NEW step, Goto(r, step)
    PROVE  pc'[r] = step /\ \A s \in Runs \ {r} : pc'[s] = pc[s]
BY DEF TypeOK, Goto

LEMMA ForgetMoves ==
    ASSUME TypeOK, NEW r \in Runs, Finish(r) \/ FinishEarly(r)
    PROVE  pc'[r] = "idle" /\ \A s \in Runs \ {r} : pc'[s] = pc[s] /\ job'[s] = job[s]
<1>1. Forget(r)
  BY DEF Finish, FinishEarly
<1>2. QED
  BY <1>1 DEF Forget, Goto, TypeOK

\* A run that waits for nothing takes nothing.
LEMMA NotWaiting ==
    ASSUME TypeOK, WaitInv, NEW r \in Runs, pc[r] \notin TxSteps \/ receipt[r] = "none",
           UNCHANGED chainVars, faults' >= faults,
           \A s \in Runs \ {r} : pc'[s] = pc[s] /\ job'[s] = job[s]
    PROVE  Alone(r)
<1>1. receipt[r] = "none"
  BY DEF WaitInv
<1>2. QED
  BY <1>1 DEF Alone, chainVars

LEMMA FaultsGrow ==
    TypeOK => /\ faults \in Nat
              /\ UNCHANGED faults => faults' >= faults
              /\ Fault => faults' >= faults /\ faults' # faults
BY BoundAssumption DEF TypeOK, Fault

\* The steps that end a run, before a transaction or instead of one.
MayLeave(r) ==
    \/ pc[r] \in EarlySteps \cup {"snapshot", "size", "split", "send"}
    \/ pc[r] = "wrapped balance" /\ owner.wrapped = 0

LEMMA LeavingMoves ==
    ASSUME TypeOK, WaitInv, EarlyAutos, NEW r \in Runs,
           Finish(r) \/ FinishEarly(r), UNCHANGED chainVars,
           pc[r] # "idle", pc[r] \notin TxSteps \/ receipt[r] = "none",
           UNCHANGED faults \/ Fault,
           UNCHANGED faults => MayLeave(r)
    PROVE  RunMoves(r)
<1>1. pc'[r] = "idle" /\ \A s \in Runs \ {r} : pc'[s] = pc[s] /\ job'[s] = job[s]
  BY ForgetMoves
<1>2. faults' >= faults /\ (faults' = faults => UNCHANGED faults)
  BY FaultsGrow
<1>3. Alone(r)
  BY <1>1, <1>2, NotWaiting
<1>4. Leaves(r)
  BY <1>1, <1>2 DEF Leaves, MayLeave
<1>5. QED
  BY <1>3, <1>4 DEF RunMoves

LEMMA SendFromMoves ==
    ASSUME TypeOK, NEW r \in Runs, NEW plan \in [Legs -> Nat], NEW i \in 0..NLegs,
           SendFrom(r, plan, i), NextLeg(plan, i) # NLegs + 1
    PROVE  /\ PaysAfter(r, plan, i)
           /\ \A s \in Runs \ {r} : pc'[s] = pc[s] /\ job'[s] = job[s]
<1>1. /\ job' = [job EXCEPT ![r].plan = plan, ![r].leg = NextLeg(plan, i)]
      /\ pc' = [pc EXCEPT ![r] = "send"]
  BY DEF SendFrom, Goto
<1>2. NextLeg(plan, i) \in i + 1..NLegs
  <2>1. NextLeg(plan, i) \in i + 1..NLegs + 1
    BY NextLegType
  <2>2. QED
    BY <2>1, NLegsAssumption
<1>3. job'[r] = [job[r] EXCEPT !.plan = plan, !.leg = NextLeg(plan, i)]
  BY <1>1 DEF TypeOK
<1>4. pc'[r] = "send" /\ \A s \in Runs \ {r} : pc'[s] = pc[s] /\ job'[s] = job[s]
  BY <1>1 DEF TypeOK
<1>5. QED
  BY <1>2, <1>3, <1>4 DEF PaysAfter

LEMMA PolicyMoves ==
    ASSUME TypeOK, WaitInv, NEW r \in Runs, PreflightPolicy(r) \/ ReadPolicy(r)
    PROVE  RunMoves(r)
<1>1. PICK fallback : LivePolicy(r, fallback)
  BY DEF PreflightPolicy, ReadPolicy
<1>2. PICK min : job' = [job EXCEPT ![r].min = min]
  BY <1>1 DEF LivePolicy
<1>3. \A s \in Runs \ {r} : job'[s] = job[s]
  BY <1>2 DEF TypeOK
<1>4. UNCHANGED faults \/ Fault
  BY <1>1 DEF LivePolicy
<1>5. faults' >= faults /\ (faults' = faults => UNCHANGED faults /\ ~Fault)
  BY <1>4, FaultsGrow
<1>6. faults' = faults => job'[r].min \in MinChoices
  <2> SUFFICES ASSUME faults' = faults PROVE job'[r].min \in MinChoices
    OBVIOUS
  <2>1. job' = [job EXCEPT ![r].min = minNativeWei]
    BY <1>1, <1>5 DEF LivePolicy
  <2>2. job'[r].min = minNativeWei
    BY <2>1 DEF TypeOK, Job
  <2>3. QED
    BY <2>2 DEF TypeOK
<1>7. /\ pc[r] \in {"policy"} \cup EarlySteps
      /\ pc'[r] \in {"snapshot"} \cup EarlySteps
      /\ \A s \in Runs \ {r} : pc'[s] = pc[s]
  <2>1. CASE PreflightPolicy(r)
    BY <2>1, GotoMoves DEF PreflightPolicy, EarlySteps
  <2>2. CASE ReadPolicy(r)
    BY <2>2, GotoMoves DEF ReadPolicy
  <2>3. QED
    BY <2>1, <2>2
<1>8. UNCHANGED chainVars /\ pc[r] \notin TxSteps
  BY DEF PreflightPolicy, ReadPolicy, TxSteps
<1>9. Alone(r)
  BY <1>3, <1>5, <1>7, <1>8, NotWaiting
<1>10. QED
  BY <1>6, <1>7, <1>9 DEF RunMoves, Prepares

LEMMA PreflightBalancesMoves ==
    ASSUME TypeOK, WaitInv, EarlyAutos, NEW r \in Runs, PreflightBalances(r)
    PROVE  RunMoves(r)
<1>1. /\ pc[r] = "preflight balances" /\ pc[r] \notin TxSteps /\ pc[r] \in EarlySteps
      /\ pc[r] # "idle" /\ MayLeave(r)
      /\ UNCHANGED chainVars /\ UNCHANGED faults
  BY DEF PreflightBalances, TxSteps, EarlySteps, MayLeave
<1>2. CASE FinishEarly(r)
  BY <1>1, <1>2, LeavingMoves
<1>3. CASE ~FinishEarly(r)
  <2>1. Goto(r, "policy") /\ UNCHANGED job
    BY <1>3 DEF PreflightBalances
  <2>2. pc'[r] = "policy" /\ \A s \in Runs \ {r} : pc'[s] = pc[s] /\ job'[s] = job[s]
    BY <2>1, GotoMoves
  <2>3. Alone(r)
    BY <1>1, <2>2, NotWaiting, FaultsGrow
  <2>4. QED
    BY <1>1, <2>2, <2>3 DEF RunMoves, Prepares
<1>4. QED
  BY <1>2, <1>3

LEMMA SnapshotMoves ==
    ASSUME TypeOK, WaitInv, EarlyAutos, NEW r \in Runs, Snapshot(r)
    PROVE  RunMoves(r)
<1>1. /\ pc[r] = "snapshot" /\ pc[r] \notin TxSteps /\ pc[r] # "idle" /\ MayLeave(r)
      /\ UNCHANGED chainVars /\ UNCHANGED faults
  BY DEF Snapshot, TxSteps, MayLeave
<1>2. CASE Finish(r)
  BY <1>1, <1>2, LeavingMoves
<1>3. CASE ~Finish(r)
  <2>1. Goto(r, "size") /\ job' = [job EXCEPT ![r].deficit = Deficit(job[r].min)]
    BY <1>3 DEF Snapshot
  <2>2. pc'[r] = "size" /\ \A s \in Runs \ {r} : pc'[s] = pc[s]
    BY <2>1, GotoMoves
  <2>3. /\ job'[r] = [job[r] EXCEPT !.deficit = Deficit(job[r].min)]
        /\ \A s \in Runs \ {r} : job'[s] = job[s]
    BY <2>1 DEF TypeOK
  <2>4. Alone(r)
    BY <1>1, <2>2, <2>3, NotWaiting, FaultsGrow
  <2>5. r \in Autos => sinceRefill = Cooldown
    BY <1>3, CooldownAssumption DEF Snapshot, Cooling, TypeOK
  <2>6. \E i \in Legs : Deficit(job[r].min)[i] > 0
    <3>1. Total(Deficit(job[r].min)) # 0
      BY <1>3 DEF Snapshot
    <3>2. PICK i \in Legs : Deficit(job[r].min)[i] # 0
      BY <3>1, SumZero DEF Total
    <3>3. Deficit(job[r].min) \in [Legs -> Nat]
      BY DeficitType DEF TypeOK, Job, ChainTypeOK
    <3>4. QED
      BY <3>2, <3>3
  <2>7. QED
    BY <1>1, <2>2, <2>3, <2>4, <2>5, <2>6 DEF RunMoves, Measures
<1>4. QED
  BY <1>2, <1>3

LEMMA SizeMoves ==
    ASSUME TypeOK, WaitInv, EarlyAutos, NEW r \in Runs, Size(r) \/ SizeWithoutMinimum(r)
    PROVE  RunMoves(r)
<1>1. /\ pc[r] = "size" /\ pc[r] \notin TxSteps /\ pc[r] # "idle" /\ MayLeave(r)
      /\ UNCHANGED chainVars /\ (UNCHANGED faults \/ Fault)
  BY DEF Size, SizeWithoutMinimum, TxSteps, MayLeave
<1>2. CASE Finish(r)
  BY <1>1, <1>2, LeavingMoves
<1>3. CASE ~Finish(r)
  <2>1. PICK usdc \in Nat \ {0}, minOut \in Nat :
            job' = [job EXCEPT ![r].usdc = usdc, ![r].minOut = minOut]
    <3>1. job[r].deficit \in [Legs -> Nat] /\ pmUsdc \in Nat
      BY DEF TypeOK, Job, ChainTypeOK
    <3>2. ASSUME NEW rate \in Rates
          PROVE  Smaller(RequiredUsdc(job[r].deficit, rate), pmUsdc) \in Nat
      BY <3>1, RequiredNat DEF Smaller
    <3>3. CASE Size(r)
      <4>1. PICK rate \in Rates, later \in Rates :
              LET usdc == Smaller(RequiredUsdc(job[r].deficit, rate), pmUsdc)
              IN  /\ usdc # 0
                  /\ job' = [job EXCEPT ![r].usdc = usdc,
                                        ![r].minOut = MinimumOut(usdc, later)]
        BY <1>3, <3>3 DEF Size
      <4> DEFINE usdc == Smaller(RequiredUsdc(job[r].deficit, rate), pmUsdc)
      <4>2. usdc \in Nat \ {0} /\ MinimumOut(usdc, later) \in Nat
        BY <3>2, <4>1, MinimumNat
      <4>3. job' = [job EXCEPT ![r].usdc = usdc, ![r].minOut = MinimumOut(usdc, later)]
        BY <4>1
      <4> DEFINE least == MinimumOut(usdc, later)
      <4>4. least \in Nat /\ job' = [job EXCEPT ![r].usdc = usdc, ![r].minOut = least]
        BY <4>2, <4>3
      <4> HIDE DEF usdc, least
      <4> usdc \in Nat \ {0} /\ least \in Nat
        BY <4>2, <4>4
      <4> WITNESS usdc \in Nat \ {0}, least \in Nat
      <4>5. QED
        BY <4>4
    <3>4. CASE SizeWithoutMinimum(r)
      <4>1. PICK rate \in Rates :
              LET usdc == Smaller(RequiredUsdc(job[r].deficit, rate), pmUsdc)
              IN  usdc > 0 /\ job' = [job EXCEPT ![r].usdc = usdc, ![r].minOut = 1]
        BY <3>4 DEF SizeWithoutMinimum
      <4> DEFINE usdc == Smaller(RequiredUsdc(job[r].deficit, rate), pmUsdc)
      <4>2. usdc \in Nat /\ usdc > 0
        BY <3>2, <4>1
      <4>3. job' = [job EXCEPT ![r].usdc = usdc, ![r].minOut = 1]
        BY <4>1
      <4> HIDE DEF usdc
      <4> usdc \in Nat \ {0} /\ 1 \in Nat
        BY <4>2
      <4> WITNESS usdc \in Nat \ {0}, 1 \in Nat
      <4>4. QED
        BY <4>3
    <3>5. QED
      BY <3>3, <3>4
  <2>2. /\ job'[r] = [job[r] EXCEPT !.usdc = usdc, !.minOut = minOut]
        /\ \A s \in Runs \ {r} : job'[s] = job[s]
    BY <2>1 DEF TypeOK
  <2>3. Goto(r, "withdraw")
    BY <1>3 DEF Size, SizeWithoutMinimum
  <2>4. pc'[r] = "withdraw" /\ \A s \in Runs \ {r} : pc'[s] = pc[s]
    BY <2>3, GotoMoves
  <2>5. faults' >= faults
    BY <1>1, FaultsGrow
  <2>6. \A s \in Runs \ {r} : pc'[s] = pc[s] /\ job'[s] = job[s]
    BY <2>2, <2>4
  <2>7. Alone(r)
    BY <1>1, <2>5, <2>6, NotWaiting, Zenon
  <2>8. QED
    BY <1>1, <2>1, <2>2, <2>4, <2>7 DEF RunMoves, Sizes
<1>4. QED
  BY <1>2, <1>3

LEMMA ReceiveMoves ==
    ASSUME TypeOK, WaitInv, NEW r \in Runs, Receive(r)
    PROVE  RunMoves(r)
<1>1. /\ receipt[r] \in {"success", "reverted"} /\ receipt' = [receipt EXCEPT ![r] = "none"]
      /\ UNCHANGED <<pmUsdc, owner, books, pool, bal, mempool, minNativeWei, faults>>
  BY DEF Receive, TakeReceipt
<1>2. /\ receipt[r] # "pending" /\ receipt[r] # "none" /\ receipt'[r] = "none"
      /\ \A s \in Runs \ {r} : receipt'[s] = receipt[s]
  BY <1>1 DEF TypeOK, ChainTypeOK
<1>3. faults' >= faults /\ faults' = faults
  BY <1>1, FaultsGrow
<1>4. (\A s \in Runs \ {r} : pc'[s] = pc[s] /\ job'[s] = job[s]) => Alone(r)
  BY <1>1, <1>2, <1>3 DEF Alone
<1>5. CASE pc[r] \in DOMAIN After /\ Goto(r, After[pc[r]]) /\ UNCHANGED job
  BY <1>2, <1>4, <1>5, GotoMoves DEF RunMoves, Advances
<1>6. CASE pc[r] = "swap" /\ SwapSucceeded(r) /\ Goto(r, "wrapped balance") /\ UNCHANGED job
  BY <1>4, <1>6, GotoMoves DEF RunMoves, Swapped, SwapSucceeded
<1>7. CASE pc[r] = "swap" /\ ~SwapSucceeded(r) /\ Finish(r)
  BY <1>1, <1>4, <1>7, ForgetMoves DEF RunMoves, Leaves, SwapSucceeded
<1>8. CASE pc[r] = "send" /\ SendFrom(r, job[r].plan, job[r].leg)
  <2>1. job[r].plan \in [Legs -> Nat] /\ job[r].leg \in 0..NLegs
    BY DEF TypeOK, Job
  <2>2. CASE NextLeg(job[r].plan, job[r].leg) = NLegs + 1
    <3>1. Finish(r)
      BY <1>8, <2>2 DEF SendFrom
    <3>2. QED
      BY <1>4, <1>8, <3>1, ForgetMoves DEF RunMoves, Leaves
  <2>3. CASE NextLeg(job[r].plan, job[r].leg) # NLegs + 1
    <3>1. /\ PaysAfter(r, job[r].plan, job[r].leg)
          /\ \A s \in Runs \ {r} : pc'[s] = pc[s] /\ job'[s] = job[s]
      BY <1>8, <2>1, <2>3, SendFromMoves
    <3>2. Pays(r)
      BY <1>2, <1>8, <3>1 DEF Pays
    <3>3. QED
      BY <1>4, <3>1, <3>2 DEF RunMoves
  <2>4. QED
    BY <2>2, <2>3
<1>9. QED
  BY <1>5, <1>6, <1>7, <1>8 DEF Receive

LEMMA ReadWrappedMoves ==
    ASSUME TypeOK, WaitInv, EarlyAutos, NEW r \in Runs, ReadWrapped(r)
    PROVE  RunMoves(r)
<1>1. /\ pc[r] = "wrapped balance" /\ pc[r] \notin TxSteps
      /\ UNCHANGED chainVars /\ UNCHANGED faults
  BY DEF ReadWrapped, TxSteps
<1>2. CASE owner.wrapped = 0
  <2>1. Finish(r) /\ MayLeave(r) /\ pc[r] # "idle"
    BY <1>1, <1>2 DEF ReadWrapped, MayLeave
  <2>2. QED
    BY <1>1, <2>1, LeavingMoves
<1>3. CASE owner.wrapped # 0
  <2>1. Goto(r, "record") /\ job' = [job EXCEPT ![r].wBal = owner.wrapped]
    BY <1>3 DEF ReadWrapped
  <2>2. pc'[r] = "record" /\ \A s \in Runs \ {r} : pc'[s] = pc[s]
    BY <2>1, GotoMoves
  <2>3. /\ job'[r] = [job[r] EXCEPT !.wBal = owner.wrapped]
        /\ \A s \in Runs \ {r} : job'[s] = job[s]
    BY <2>1 DEF TypeOK
  <2>4. Alone(r)
    BY <1>1, <2>2, <2>3, NotWaiting, FaultsGrow
  <2>5. QED
    BY <1>1, <1>3, <2>2, <2>3, <2>4 DEF RunMoves, Weighs
<1>4. QED
  BY <1>2, <1>3

LEMMA SplitMoves ==
    ASSUME TypeOK, WaitInv, EarlyAutos, NEW r \in Runs, Split(r)
    PROVE  RunMoves(r)
<1> DEFINE plan == Allocate(job[r].deficit, Spendable)
<1>1. /\ pc[r] = "split" /\ pc[r] \notin TxSteps /\ pc[r] # "idle" /\ MayLeave(r)
      /\ UNCHANGED chainVars /\ UNCHANGED faults
      /\ SendFrom(r, plan, 0)
  BY DEF Split, TxSteps, MayLeave
<1>2. job[r].deficit \in [Legs -> Nat] /\ Spendable \in Nat
  BY ChainFields, ReserveAssumption DEF TypeOK, Job, Spendable, Larger
<1>3. plan \in [Legs -> Nat] /\ 0 \in 0..NLegs
  <2>1. plan \in [Legs -> Nat]
    BY <1>2, AllocateCapped
  <2>2. QED
    BY <2>1, NLegsAssumption
<1>4. CASE NextLeg(plan, 0) = NLegs + 1
  <2>1. Finish(r)
    BY <1>1, <1>4 DEF SendFrom
  <2>2. QED
    BY <1>1, <2>1, LeavingMoves
<1>5. CASE NextLeg(plan, 0) # NLegs + 1
  <2>1. PICK p \in [Legs -> Nat] : p = plan
    BY <1>3
  <2>2. /\ PaysAfter(r, p, 0)
        /\ \A s \in Runs \ {r} : pc'[s] = pc[s] /\ job'[s] = job[s]
    BY <1>1, <1>3, <1>5, <2>1, SendFromMoves
  <2>3. Alone(r)
    BY <1>1, <2>2, NotWaiting, FaultsGrow
  <2>4. QED
    BY <1>1, <2>1, <2>2, <2>3 DEF RunMoves, Pays
<1>6. QED
  BY <1>4, <1>5

\* Every step is a move of one run, a transaction submitted, executed or left
\* behind, or happens outside.
LEMMA NextSteps ==
    ASSUME TypeOK, WaitInv, EarlyAutos, [Next]_vars
    PROVE  \/ \E r \in Runs : RunMoves(r) \/ SubmitTx(r) \/ LoseReceipt(r)
           \/ MineTx \/ RevertTx \/ Crash \/ Outside
<1>1. ASSUME NEW r \in Runs, Schedule(r) \/ RequestManual(r) PROVE RunMoves(r)
  <2>1. PICK step \in {"settle", "preflight policy", "policy"} : Goto(r, step)
    BY <1>1 DEF Schedule, RequestManual
  <2>2. /\ pc[r] = "idle" /\ pc[r] \notin TxSteps
        /\ UNCHANGED chainVars /\ UNCHANGED faults /\ UNCHANGED job
    BY <1>1 DEF Schedule, RequestManual, TxSteps
  <2>3. pc'[r] = step /\ \A s \in Runs \ {r} : pc'[s] = pc[s] /\ job'[s] = job[s]
    BY <2>1, <2>2, GotoMoves
  <2>4. Alone(r)
    BY <2>2, <2>3, NotWaiting, FaultsGrow
  <2>5. Prepares(r)
    BY <2>1, <2>2, <2>3 DEF Prepares, EarlySteps
  <2>6. QED
    BY <2>4, <2>5 DEF RunMoves
<1>2. ASSUME NEW r \in Runs, Continue(r) PROVE RunMoves(r) \/ SubmitTx(r)
  <2>1. CASE SettleInFlight(r)
    <3>1. pc[r] \notin TxSteps /\ pc[r] # "idle" /\ MayLeave(r)
      BY <2>1 DEF SettleInFlight, EarlySteps, TxSteps, MayLeave
    <3>2. QED
      BY <2>1, <3>1, LeavingMoves DEF SettleInFlight
  <2>2. CASE Refused(r)
    BY <2>2, LeavingMoves DEF Refused, MayLeave
  <2>3. QED
    BY <1>2, <2>1, <2>2, PolicyMoves, PreflightBalancesMoves, SnapshotMoves, SizeMoves,
       ReceiveMoves, ReadWrappedMoves, SplitMoves DEF Continue
<1>3. ASSUME NEW r \in Runs, Throw(r) PROVE RunMoves(r)
  BY <1>3, LeavingMoves, FaultsGrow DEF Throw
<1>4. CASE Environment /\ ~MineTx /\ ~RevertTx
  <2>1. pmUsdc \in Nat /\ \A i \in Legs : bal[i] \in Nat
    BY DEF TypeOK, ChainTypeOK
  <2>2. CASE Tick \/ \E min \in MinChoices : SetPolicy(min)
    BY <2>1, <2>2 DEF Outside, Tick, SetPolicy, chainVars, runnerVars
  <2>3. ASSUME NEW i \in Legs, NEW d \in Drains, Drain(i, d) PROVE Outside
    <3>1. d \in Nat
      BY FlowAssumption
    <3>2. \A j \in Legs : bal'[j] <= bal[j]
      BY <2>1, <2>3, <3>1 DEF Drain, TypeOK, ChainTypeOK
    <3>3. QED
      BY <2>1, <2>3, <3>2 DEF Outside, Drain, runnerVars
  <2>4. ASSUME NEW u \in Incomes, Income(u) PROVE Outside
    BY <2>1, <2>4, FlowAssumption DEF Outside, Income, runnerVars
  <2>5. QED
    BY <1>4, <2>2, <2>3, <2>4 DEF Environment
<1>5. CASE UNCHANGED vars
  <2>1. pmUsdc \in Nat /\ \A i \in Legs : bal[i] \in Nat
    BY DEF TypeOK, ChainTypeOK
  <2>2. QED
    BY <1>5, <2>1 DEF Outside, vars, chainVars, runnerVars
<1>6. QED
  BY <1>1, <1>2, <1>3, <1>4, <1>5 DEF Next

-----------------------------------------------------------------------------
(* The owner's transactions in their queue *)

LEMMA QueueAppend ==
    ASSUME NEW q \in Seq(Tx), NEW tx \in Tx
    PROVE  /\ Len(q) \in Nat /\ DOMAIN q = 1..Len(q)
           /\ DOMAIN Append(q, tx) = 1..Len(q) + 1 /\ Len(Append(q, tx)) = Len(q) + 1
           /\ \A n \in 1..Len(q) : Append(q, tx)[n] = q[n]
           /\ Append(q, tx)[Len(q) + 1] = tx
OBVIOUS

LEMMA QueueTail ==
    ASSUME NEW q \in Seq(Tx), q # <<>>
    PROVE  /\ Len(q) \in Nat \ {0} /\ DOMAIN q = 1..Len(q) /\ Head(q) = q[1] /\ Head(q) \in Tx
           /\ DOMAIN Tail(q) = 1..Len(q) - 1 /\ Len(Tail(q)) = Len(q) - 1
           /\ \A n \in 1..Len(q) - 1 : Tail(q)[n] = q[n + 1]
OBVIOUS

LEMMA QueueEmpty ==
    ASSUME NEW q \in Seq(Tx), Len(q) = 0 \/ DOMAIN q = {}
    PROVE  q = <<>>
OBVIOUS

\* What the transactions of q add up to, each counted at the weight W gives it.
QueueSum(W, q) == SumOver([n \in DOMAIN q |-> W[q[n]]], DOMAIN q)

LEMMA QueueSumNat ==
    ASSUME NEW W \in [Tx -> Nat], NEW q \in Seq(Tx)
    PROVE  QueueSum(W, q) \in Nat
<1>1. IsFiniteSet(DOMAIN q) /\ \A n \in DOMAIN q : W[q[n]] \in Nat
  <2>1. Len(q) \in Nat /\ DOMAIN q = 1..Len(q) /\ \A n \in 1..Len(q) : q[n] \in Tx
    OBVIOUS
  <2>2. QED
    BY <2>1, FS_Interval
<1>2. QED
  BY <1>1, SumNat DEF QueueSum

LEMMA QueueSumEmpty == \A W : QueueSum(W, <<>>) = 0
<1>1. DOMAIN <<>> = {}
  OBVIOUS
<1>2. QED
  BY <1>1, SumEmpty DEF QueueSum

LEMMA PrefixGrows ==
    ASSUME NEW n \in Nat
    PROVE  IsFiniteSet(1..n) /\ n + 1 \notin 1..n /\ 1..n + 1 = (1..n) \cup {n + 1}
<1>1. IsFiniteSet(1..n)
  BY FS_Interval
<1>2. n + 1 \notin 1..n /\ 1..n + 1 = (1..n) \cup {n + 1}
  OBVIOUS
<1>3. QED
  BY <1>1, <1>2

LEMMA PrefixAdd ==
    ASSUME NEW n \in Nat, NEW f, \A m \in 1..n : f[m] \in Nat, f[n + 1] \in Nat
    PROVE  SumOver(f, 1..n + 1) = SumOver(f, 1..n) + f[n + 1]
<1> DEFINE I == 1..n
           i == n + 1
<1>1. IsFiniteSet(I) /\ i \notin I /\ 1..n + 1 = I \cup {i}
  BY PrefixGrows
<1>2. \A m \in I \cup {i} : f[m] \in Nat
  OBVIOUS
<1> HIDE DEF I, i
<1>3. SumOver(f, I \cup {i}) = SumOver(f, I) + f[i]
  BY <1>1, <1>2, SumAdd
<1>4. QED
  BY <1>1, <1>3 DEF I, i

LEMMA QueueSumAppend ==
    ASSUME NEW W \in [Tx -> Nat], NEW q \in Seq(Tx), NEW tx \in Tx
    PROVE  QueueSum(W, Append(q, tx)) = QueueSum(W, q) + W[tx]
<1> DEFINE n == Len(q)
           f == [m \in 1..n + 1 |-> W[Append(q, tx)[m]]]
           g == [m \in 1..n |-> W[q[m]]]
<1>1. /\ n \in Nat /\ DOMAIN q = 1..n /\ DOMAIN Append(q, tx) = 1..n + 1
      /\ \A m \in 1..n : Append(q, tx)[m] = q[m]
      /\ Append(q, tx)[n + 1] = tx
      /\ \A m \in 1..n : q[m] \in Tx
  OBVIOUS
<1>2. QueueSum(W, Append(q, tx)) = SumOver(f, 1..n + 1) /\ QueueSum(W, q) = SumOver(g, 1..n)
  BY <1>1 DEF QueueSum
<1> HIDE DEF n
<1>3. /\ \A m \in 1..n : f[m] = g[m] /\ f[m] \in Nat
      /\ f[n + 1] = W[tx] /\ W[tx] \in Nat
  BY <1>1
<1> HIDE DEF f, g
<1>4. SumOver(f, 1..n + 1) = SumOver(f, 1..n) + f[n + 1]
  BY <1>1, <1>3, PrefixAdd
<1>5. SumOver(f, 1..n) = SumOver(g, 1..n)
  BY <1>3, SumSame
<1>6. QED
  BY <1>2, <1>3, <1>4, <1>5

LEMMA QueueSumTail ==
    ASSUME NEW W \in [Tx -> Nat], NEW q \in Seq(Tx), q # <<>>
    PROVE  QueueSum(W, q) = QueueSum(W, Tail(q)) + W[Head(q)]
<1> DEFINE n == Len(q)
           f == [m \in 1..n |-> W[q[m]]]
           g == [m \in 1..n - 1 |-> W[Tail(q)[m]]]
           Bad == {m \in 0..n - 1 : SumOver(f, 1..m + 1) # SumOver(g, 1..m) + f[1]}
<1>1. /\ n \in Nat \ {0} /\ DOMAIN q = 1..n /\ DOMAIN Tail(q) = 1..n - 1
      /\ \A m \in 1..n - 1 : Tail(q)[m] = q[m + 1]
      /\ Head(q) = q[1]
      /\ \A m \in 1..n : q[m] \in Tx
  OBVIOUS
<1>2. QueueSum(W, Tail(q)) = SumOver(g, 1..n - 1) /\ QueueSum(W, q) = SumOver(f, 1..n)
  BY <1>1 DEF QueueSum
<1> HIDE DEF n
<1>3. /\ \A m \in 1..n : f[m] \in Nat
      /\ \A m \in 1..n - 1 : g[m] = f[m + 1] /\ g[m] \in Nat
      /\ f[1] = W[Head(q)]
  BY <1>1
<1> HIDE DEF f, g
<1>4. ASSUME NEW m \in Nat PROVE IsFiniteSet(1..m)
  BY PrefixGrows
<1>5. Bad = {}
  <2> SUFFICES ASSUME Bad # {} PROVE FALSE
    OBVIOUS
  <2>1. Bad \in SUBSET Nat
    BY <1>1
  <2>2. PICK m \in Bad : \A k \in Bad : m <= k
    <3> HIDE DEF Bad
    <3>1. QED
      BY <2>1, LeastNatural
  <2>3. m \in 0..n - 1 /\ m \in Nat
    BY <1>1
  <2>4. CASE m = 0
    <3>1. 1..0 = {} /\ 1..0 + 1 = {1} /\ {} \cup {1} = {1}
      OBVIOUS
    <3>2. SumOver(g, {}) = 0 /\ SumOver(f, {}) = 0 /\ IsFiniteSet({})
      BY SumEmpty, FS_EmptySet
    <3>3. f[1] \in Nat
      BY <1>1, <1>3
    <3>4. SumOver(f, {} \cup {1}) = SumOver(f, {}) + f[1]
      BY <3>2, <3>3, SumAdd
    <3>5. QED
      BY <2>2, <2>4, <3>1, <3>2, <3>3, <3>4
  <2>5. CASE m # 0
    <3> DEFINE k == m - 1
    <3>1. k \in Nat /\ k + 1 = m /\ k \in 0..n - 1 /\ ~(m <= k)
      BY <1>1, <2>3, <2>5
    <3>2. SumOver(f, 1..m) = SumOver(g, 1..k) + f[1]
      BY <2>2, <3>1
    <3>3. SumOver(f, 1..m + 1) = SumOver(f, 1..m) + f[m + 1]
      <4>1. (\A j \in 1..m : f[j] \in Nat) /\ f[m + 1] \in Nat
        BY <1>1, <1>3, <2>3
      <4>2. QED
        BY <2>3, <4>1, PrefixAdd
    <3>4. SumOver(g, 1..m) = SumOver(g, 1..k) + g[m]
      <4>1. (\A j \in 1..k : g[j] \in Nat) /\ g[k + 1] \in Nat
        BY <1>1, <1>3, <2>3, <3>1
      <4> HIDE DEF k
      <4>2. SumOver(g, 1..k + 1) = SumOver(g, 1..k) + g[k + 1]
        BY <3>1, <4>1, PrefixAdd
      <4>3. QED
        BY <3>1, <4>2
    <3>5. g[m] = f[m + 1] /\ g[m] \in Nat /\ f[1] \in Nat
      BY <1>1, <1>3, <2>3, <2>5
    <3>6. SumOver(g, 1..k) \in Nat
      <4>1. \A j \in 1..k : g[j] \in Nat
        BY <1>1, <1>3, <2>3, <3>1
      <4>2. QED
        BY <1>4, <3>1, <4>1, SumNat
    <3> HIDE DEF k
    <3>7. QED
      BY <2>2, <3>2, <3>3, <3>4, <3>5, <3>6
  <2>6. QED
    BY <2>4, <2>5
<1>6. SumOver(f, 1..n) = SumOver(g, 1..n - 1) + f[1]
  <2>1. n - 1 \in 0..n - 1 /\ n - 1 + 1 = n
    BY <1>1
  <2>2. QED
    BY <1>5, <2>1
<1>7. QED
  BY <1>2, <1>3, <1>6

\* Transactions that only change hands weigh the same.
LEMMA QueueSumSame ==
    ASSUME NEW W, NEW q, NEW p, DOMAIN p = DOMAIN q, \A n \in DOMAIN q : W[p[n]] = W[q[n]]
    PROVE  QueueSum(W, p) = QueueSum(W, q)
<1>1. [n \in DOMAIN p |-> W[p[n]]] = [n \in DOMAIN q |-> W[q[n]]]
  OBVIOUS
<1>2. QED
  BY <1>1 DEF QueueSum

\* A transaction somebody waits for is the one its run submitted.
OwnTx ==
    \A n \in DOMAIN mempool, r \in Runs :
        mempool[n].by = r => receipt[r] = "pending" /\ mempool[n] = TxOf(r)

\* A run has at most one transaction in the queue.
OneTxEach ==
    \A m, n \in DOMAIN mempool :
        mempool[m].by = mempool[n].by /\ mempool[n].by # NoRun => m = n

QueueInv == RunsInv /\ WaitInv /\ OwnTx /\ OneTxEach

LEMMA TxOfSays ==
    ASSUME NEW r, pc[r] \in TxSteps
    PROVE  TxOf(r).by = r /\ TxOf(r).kind = pc[r]
BY DEF TxOf, TxSteps

LEMMA TxOfSame ==
    ASSUME NEW r, pc'[r] = pc[r], job'[r] = job[r]
    PROVE  TxOf(r)' = TxOf(r)
BY DEF TxOf

LEMMA QueueType ==
    TypeOK => /\ mempool \in Seq(Tx) /\ Len(mempool) \in Nat /\ DOMAIN mempool = 1..Len(mempool)
              /\ \A n \in DOMAIN mempool : mempool[n] \in Tx /\ mempool[n].by \in Runs \cup {NoRun}
<1> SUFFICES ASSUME TypeOK
             PROVE  /\ mempool \in Seq(Tx) /\ Len(mempool) \in Nat
                    /\ DOMAIN mempool = 1..Len(mempool)
                    /\ \A n \in DOMAIN mempool :
                          mempool[n] \in Tx /\ mempool[n].by \in Runs \cup {NoRun}
  OBVIOUS
<1>1. mempool \in Seq(Tx)
  BY DEF TypeOK, ChainTypeOK
<1>2. Len(mempool) \in Nat /\ DOMAIN mempool = 1..Len(mempool) /\ \A n \in 1..Len(mempool) : mempool[n] \in Tx
  BY <1>1
<1>3. \A tx \in Tx : tx.by \in Runs \cup {NoRun}
  BY DEF Tx
<1>4. QED
  BY <1>1, <1>2, <1>3

\* What a run submits.
LEMMA SubmitSays ==
    ASSUME TypeOK, NEW r \in Runs, SubmitTx(r)
    PROVE  /\ pc[r] \in TxSteps /\ receipt[r] = "none" /\ receipt'[r] = "pending"
           /\ \A s \in Runs \ {r} : receipt'[s] = receipt[s]
           /\ TxOf(r) \in Tx /\ TxOf(r).by = r /\ TxOf(r).kind = pc[r]
           /\ mempool' = Append(mempool, TxOf(r))
           /\ UNCHANGED <<pmUsdc, owner, books, pool, bal, pc, job, faults>>
<1>1. /\ pc[r] \in TxSteps /\ receipt[r] = "none"
      /\ receipt' = [receipt EXCEPT ![r] = "pending"]
      /\ mempool' = Append(mempool, TxOf(r))
      /\ UNCHANGED <<pmUsdc, owner, books, pool, bal, pc, job, faults>>
  BY DEF SubmitTx, Submit, runnerVars
<1>2. receipt'[r] = "pending" /\ \A s \in Runs \ {r} : receipt'[s] = receipt[s]
  BY <1>1 DEF TypeOK, ChainTypeOK
<1>3. TxOf(r) \in Tx
  BY <1>1, TxOfType
<1>4. QED
  BY <1>1, <1>2, <1>3, TxOfSays

\* What a block does to the queue and the receipts.
LEMMA BlockSays ==
    ASSUME TypeOK, MineTx \/ RevertTx
    PROVE  /\ mempool # <<>> /\ mempool' = Tail(mempool)
           /\ \E status \in {"success", "reverted"} :
                 /\ receipt' = [r \in Runs |-> IF r = Head(mempool).by THEN status ELSE receipt[r]]
                 /\ MineTx => status = "success"
                 /\ ~MineTx => status = "reverted"
           /\ UNCHANGED <<pc, job>>
           /\ faults' >= faults
<1>1. CASE MineTx
  BY <1>1, FaultsGrow DEF MineTx, Mine, Receipt, runnerVars
<1>2. CASE RevertTx /\ ~MineTx
  <2>1. faults' >= faults
    BY <1>2, FaultsGrow DEF RevertTx
  <2>2. QED
    BY <1>2, <2>1 DEF RevertTx, Revert, Receipt, runnerVars
<1>3. QED
  BY <1>1, <1>2

\* What becomes of the queue when the runs in R are gone.
LEMMA DisownSays ==
    ASSUME TypeOK, NEW R \in SUBSET Runs, Disown(R)
    PROVE  /\ DOMAIN mempool' = DOMAIN mempool
           /\ \A n \in DOMAIN mempool :
                 /\ mempool[n].by \in R => mempool'[n] = [mempool[n] EXCEPT !.by = NoRun]
                 /\ mempool[n].by \notin R => mempool'[n] = mempool[n]
                 /\ mempool'[n].kind = mempool[n].kind /\ mempool'[n].by \notin R
                 /\ mempool'[n].usdc = mempool[n].usdc /\ mempool'[n].wei = mempool[n].wei
                 /\ mempool'[n].by = IF mempool[n].by \in R THEN NoRun ELSE mempool[n].by
           /\ \A r \in Runs : receipt'[r] = IF r \in R THEN "none" ELSE receipt[r]
<1>1. /\ DOMAIN mempool' = DOMAIN mempool
      /\ \A n \in DOMAIN mempool :
            mempool'[n] = IF mempool[n].by \in R THEN [mempool[n] EXCEPT !.by = NoRun]
                          ELSE mempool[n]
      /\ \A r \in Runs : receipt'[r] = IF r \in R THEN "none" ELSE receipt[r]
  BY DEF Disown
<1>2. \A tx \in Tx : LET gone == [tx EXCEPT !.by = NoRun]
                     IN  gone.by = NoRun /\ gone.kind = tx.kind /\ gone.usdc = tx.usdc
                         /\ gone.wei = tx.wei
  BY DEF Tx
<1>3. NoRun \notin R
  BY NoRunAssumption
<1>4. ASSUME NEW n \in DOMAIN mempool
      PROVE  /\ mempool[n].by \in R => mempool'[n] = [mempool[n] EXCEPT !.by = NoRun]
             /\ mempool[n].by \notin R => mempool'[n] = mempool[n]
             /\ mempool'[n].kind = mempool[n].kind /\ mempool'[n].by \notin R
             /\ mempool'[n].usdc = mempool[n].usdc /\ mempool'[n].wei = mempool[n].wei
             /\ mempool'[n].by = IF mempool[n].by \in R THEN NoRun ELSE mempool[n].by
  <2>1. mempool[n] \in Tx
    BY QueueType
  <2>2. CASE mempool[n].by \in R
    <3>1. PICK tx \in Tx : tx = mempool[n]
      BY <2>1
    <3>2. mempool'[n] = [tx EXCEPT !.by = NoRun]
      BY <1>1, <2>2, <3>1
    <3>3. /\ mempool'[n].by = NoRun /\ mempool'[n].kind = tx.kind
          /\ mempool'[n].usdc = tx.usdc /\ mempool'[n].wei = tx.wei
      BY <1>2, <3>2
    <3>4. QED
      BY <1>3, <2>2, <3>1, <3>2, <3>3
  <2>3. CASE mempool[n].by \notin R
    BY <1>1, <2>3
  <2>4. QED
    BY <2>2, <2>3
<1>5. QED
  BY <1>1, <1>4

LEMMA QueueInvInit == Init => QueueInv
<1> SUFFICES ASSUME Init PROVE QueueInv
  OBVIOUS
<1>1. RunsInv
  BY RunsInvInit
<1>2. mempool = <<>> /\ \A r \in Runs : receipt[r] = "none"
  BY DEF Init
<1>3. DOMAIN mempool = {}
  BY <1>2
<1>4. QED
  BY <1>1, <1>2, <1>3 DEF QueueInv, WaitInv, OwnTx, OneTxEach

LEMMA QueueInvStep == QueueInv /\ [Next]_vars => QueueInv'
<1> SUFFICES ASSUME QueueInv, [Next]_vars PROVE QueueInv'
  OBVIOUS
<1>1. RunsInv' /\ TypeOK /\ EarlyAutos
  BY RunsInvStep DEF QueueInv, RunsInv
<1>2. /\ Len(mempool) \in Nat /\ DOMAIN mempool = 1..Len(mempool) /\ mempool \in Seq(Tx)
      /\ \A n \in DOMAIN mempool : mempool[n] \in Tx /\ mempool[n].by \in Runs \cup {NoRun}
  BY <1>1, QueueType
<1>3. ASSUME NEW r \in Runs, RunMoves(r) PROVE WaitInv' /\ OwnTx' /\ OneTxEach'
  <2>1. /\ \A s \in Runs \ {r} : pc'[s] = pc[s] /\ job'[s] = job[s] /\ receipt'[s] = receipt[s]
        /\ receipt[r] # "pending" /\ receipt'[r] = "none" /\ mempool' = mempool
    BY <1>3 DEF RunMoves, Alone
  <2>2. WaitInv'
    BY <2>1 DEF QueueInv, WaitInv
  <2>3. ASSUME NEW n \in DOMAIN mempool', NEW s \in Runs, mempool'[n].by = s
        PROVE  receipt'[s] = "pending" /\ mempool'[n] = TxOf(s)'
    <3>1. receipt[s] = "pending" /\ mempool[n] = TxOf(s)
      BY <2>1, <2>3 DEF QueueInv, OwnTx
    <3>2. s # r
      BY <2>1, <3>1
    <3>3. TxOf(s)' = TxOf(s)
      BY <2>1, <3>1, <3>2, TxOfSame
    <3>4. QED
      BY <2>1, <3>1, <3>2, <3>3
  <2>4. OwnTx' /\ OneTxEach'
    BY <2>1, <2>3 DEF OwnTx, QueueInv, OneTxEach
  <2>5. QED
    BY <2>2, <2>4
<1>4. ASSUME NEW r \in Runs, SubmitTx(r) PROVE WaitInv' /\ OwnTx' /\ OneTxEach'
  <2>1. /\ pc[r] \in TxSteps /\ receipt[r] = "none" /\ receipt'[r] = "pending"
        /\ \A s \in Runs \ {r} : receipt'[s] = receipt[s]
        /\ TxOf(r) \in Tx /\ TxOf(r).by = r
        /\ mempool' = Append(mempool, TxOf(r)) /\ pc' = pc /\ job' = job
    BY <1>1, <1>4, SubmitSays
  <2>2. WaitInv'
    BY <2>1 DEF QueueInv, WaitInv
  <2>3. /\ DOMAIN mempool' = 1..Len(mempool) + 1
        /\ \A n \in DOMAIN mempool : mempool'[n] = mempool[n]
        /\ mempool'[Len(mempool) + 1] = TxOf(r)
    BY <1>2, <2>1, QueueAppend
  <2>4. \A n \in DOMAIN mempool' : n \in DOMAIN mempool \/ n = Len(mempool) + 1
    BY <1>2, <2>3
  <2>5. \A s \in Runs : TxOf(s)' = TxOf(s)
    BY <2>1, TxOfSame
  <2>6. \A n \in DOMAIN mempool : mempool[n].by # r
    BY <2>1, NoRunAssumption DEF QueueInv, OwnTx
  <2>7. OwnTx'
    <3> SUFFICES ASSUME NEW n \in DOMAIN mempool', NEW s \in Runs, mempool'[n].by = s
                 PROVE  receipt'[s] = "pending" /\ mempool'[n] = TxOf(s)'
      BY DEF OwnTx
    <3>1. CASE n = Len(mempool) + 1
      BY <2>1, <2>3, <2>5, <3>1
    <3>2. CASE n \in DOMAIN mempool
      <4>1. s # r /\ receipt[s] = "pending" /\ mempool[n] = TxOf(s)
        BY <2>3, <2>6, <3>2 DEF QueueInv, OwnTx
      <4>2. QED
        BY <2>1, <2>3, <2>5, <3>2, <4>1
    <3>3. QED
      BY <2>4, <3>1, <3>2
  <2>8. OneTxEach'
    BY <2>1, <2>3, <2>4, <2>6 DEF QueueInv, OneTxEach
  <2>9. QED
    BY <2>2, <2>7, <2>8
<1>5.ASSUME MineTx \/ RevertTx PROVE WaitInv' /\ OwnTx' /\ OneTxEach'
  <2>1. /\ mempool # <<>> /\ mempool' = Tail(mempool) /\ pc' = pc /\ job' = job
        /\ \A r \in Runs : r # Head(mempool).by => receipt'[r] = receipt[r]
    BY <1>1, <1>5, BlockSays
  <2>2. /\ Len(mempool) \in Nat \ {0} /\ Head(mempool) = mempool[1]
        /\ DOMAIN mempool' = 1..Len(mempool) - 1
        /\ \A n \in DOMAIN mempool' : mempool'[n] = mempool[n + 1]
    BY <1>2, <2>1, QueueTail
  <2>3. \A n \in DOMAIN mempool' : n + 1 \in DOMAIN mempool /\ n + 1 # 1
    BY <1>2, <2>2
  <2>4. 1 \in DOMAIN mempool
    BY <1>2, <2>2
  <2>5. WaitInv'
    <3> SUFFICES ASSUME NEW r \in Runs, receipt'[r] # "none" PROVE pc[r] \in TxSteps
      BY <2>1 DEF WaitInv
    <3>1. CASE r = Head(mempool).by
      BY <2>2, <2>4, <3>1, NoRunAssumption DEF QueueInv, OwnTx, WaitInv
    <3>2. CASE r # Head(mempool).by
      BY <2>1, <3>2 DEF QueueInv, WaitInv
    <3>3. QED
      BY <3>1, <3>2
  <2>6. OwnTx'
    <3> SUFFICES ASSUME NEW n \in DOMAIN mempool', NEW s \in Runs, mempool'[n].by = s
                 PROVE  receipt'[s] = "pending" /\ mempool'[n] = TxOf(s)'
      BY DEF OwnTx
    <3>1. /\ receipt[s] = "pending" /\ mempool[n + 1] = TxOf(s)
          /\ s # mempool[1].by
      BY <2>2, <2>3, <2>4, NoRunAssumption DEF QueueInv, OwnTx, OneTxEach
    <3>2. TxOf(s)' = TxOf(s)
      BY <2>1, TxOfSame
    <3>3. QED
      BY <2>1, <2>2, <3>1, <3>2
  <2>7. OneTxEach'
    <3> SUFFICES ASSUME NEW m \in DOMAIN mempool', NEW n \in DOMAIN mempool',
                        mempool'[m].by = mempool'[n].by, mempool'[n].by # NoRun
                 PROVE  m = n
      BY DEF OneTxEach
    <3>1. m + 1 = n + 1
      BY <2>2, <2>3 DEF QueueInv, OneTxEach
    <3>2. m \in Int /\ n \in Int
      BY <2>2
    <3>3. QED
      BY <3>1, <3>2
  <2>8. QED
    BY <2>5, <2>6, <2>7
<1>6. ASSUME NEW R \in SUBSET Runs, Disown(R),
             \A s \in Runs \ R : pc'[s] = pc[s] /\ job'[s] = job[s]
      PROVE  WaitInv' /\ OwnTx' /\ OneTxEach'
  <2>1. /\ DOMAIN mempool' = DOMAIN mempool
        /\ \A n \in DOMAIN mempool :
              /\ mempool[n].by \notin R => mempool'[n] = mempool[n]
              /\ mempool'[n].by = IF mempool[n].by \in R THEN NoRun ELSE mempool[n].by
        /\ \A r \in Runs : receipt'[r] = IF r \in R THEN "none" ELSE receipt[r]
    <3>1. DOMAIN mempool' = DOMAIN mempool
      BY <1>1, <1>6, DisownSays
    <3>2. \A r \in Runs : receipt'[r] = IF r \in R THEN "none" ELSE receipt[r]
      BY <1>1, <1>6, DisownSays
    <3>3. \A n \in DOMAIN mempool :
              /\ mempool[n].by \notin R => mempool'[n] = mempool[n]
              /\ mempool'[n].by = IF mempool[n].by \in R THEN NoRun ELSE mempool[n].by
      BY <1>1, <1>6, DisownSays, ZenonT(60)
    <3>4. QED
      BY <3>1, <3>2, <3>3
  <2>2. WaitInv'
    BY <1>6, <2>1 DEF QueueInv, WaitInv
  <2>3. OwnTx'
    <3> SUFFICES ASSUME NEW n \in DOMAIN mempool', NEW s \in Runs, mempool'[n].by = s
                 PROVE  receipt'[s] = "pending" /\ mempool'[n] = TxOf(s)'
      BY DEF OwnTx
    <3>1. s \in Runs \ R /\ mempool'[n] = mempool[n] /\ mempool[n].by = s
      BY <2>1, NoRunAssumption
    <3>2. receipt[s] = "pending" /\ mempool[n] = TxOf(s)
      BY <2>1, <3>1 DEF QueueInv, OwnTx
    <3>3. TxOf(s)' = TxOf(s)
      BY <1>6, <3>1, TxOfSame
    <3>4. QED
      BY <2>1, <3>1, <3>2, <3>3
  <2>4. OneTxEach'
    BY <2>1 DEF QueueInv, OneTxEach
  <2>5. QED
    BY <2>2, <2>3, <2>4
<1>7. ASSUME NEW r \in Runs, LoseReceipt(r) PROVE WaitInv' /\ OwnTx' /\ OneTxEach'
  <2>1. Disown({r}) /\ \A s \in Runs \ {r} : pc'[s] = pc[s] /\ job'[s] = job[s]
    BY <1>1, <1>7, ForgetMoves DEF LoseReceipt
  <2>2. QED
    BY <1>6, <2>1
<1>8.ASSUME Crash PROVE WaitInv' /\ OwnTx' /\ OneTxEach'
  BY <1>6, <1>8 DEF Crash
<1>9.ASSUME Outside PROVE WaitInv' /\ OwnTx' /\ OneTxEach'
  <2>1. UNCHANGED <<mempool, receipt, pc, job>>
    BY <1>9 DEF Outside
  <2>2. \A s \in Runs : TxOf(s)' = TxOf(s)
    BY <2>1, TxOfSame
  <2>3. OwnTx'
    BY <1>2, <2>1, <2>2 DEF QueueInv, OwnTx
  <2>4. QED
    BY <2>1, <2>3 DEF QueueInv, WaitInv, OneTxEach
<1>10. WaitInv' /\ OwnTx' /\ OneTxEach'
  BY <1>1, <1>3, <1>4, <1>5, <1>7, <1>8, <1>9, NextSteps DEF QueueInv
<1>11. QED
  BY <1>1, <1>10 DEF QueueInv

LEMMA QueueInvHolds == Spec => []QueueInv
BY QueueInvInit, QueueInvStep, PTL DEF Spec

-----------------------------------------------------------------------------
(* No purchase is recorded that was not paid *)

\* Run r has swapped and not yet submitted its record.
Unbooked(r) ==
    \/ pc[r] = "swap" /\ receipt[r] = "success"
    \/ pc[r] = "wrapped balance"
    \/ pc[r] = "record" /\ receipt[r] = "none"

Bookers == {r \in Runs : Unbooked(r)}

RecordUsdc == [tx \in Tx |-> IF tx.kind = "record" THEN tx.usdc ELSE 0]

\* USDC that records in the queue will claim.
QueuedUsdc == QueueSum(RecordUsdc, mempool)

\* USDC that runs will still claim.
UnbookedUsdc == SumOver([r \in Runs |-> job[r].usdc], Bookers)

\* What is claimed, with what will be, was paid by a swap.
BackedInv ==
    /\ IsFiniteSet(Bookers)
    /\ books.usdc + QueuedUsdc + UnbookedUsdc <= pool.usdc

LEMMA SumPart ==
    ASSUME NEW S, IsFiniteSet(S), NEW R \in SUBSET S,
           NEW f, \A s \in S : f[s] \in Nat, NEW g, \A s \in R : g[s] = f[s]
    PROVE  IsFiniteSet(R) /\ SumOver(g, R) \in Nat /\ SumOver(f, S) \in Nat
           /\ SumOver(g, R) <= SumOver(f, S)
<1>1. IsFiniteSet(R)
  BY FS_Subset
<1>2. SumOver(g, R) = SumOver(f, R)
  BY SumSame
<1>3. SumOver(f, R) <= SumOver(f, S)
  BY SumMonotone
<1>4. SumOver(f, R) \in Nat /\ SumOver(f, S) \in Nat
  <2>1. \A s \in R : f[s] \in Nat
    OBVIOUS
  <2>2. QED
    BY <1>1, <2>1, SumNat
<1>5. QED
  BY <1>1, <1>2, <1>3, <1>4

LEMMA RecordUsdcType == RecordUsdc \in [Tx -> Nat]
<1>1. \A tx \in Tx : tx.usdc \in Nat
  BY DEF Tx
<1>2. QED
  BY <1>1 DEF RecordUsdc

LEMMA UsdcType ==
    TypeOK => \A r \in Runs : job[r].usdc \in Nat /\ [s \in Runs |-> job[s].usdc][r] = job[r].usdc
BY DEF TypeOK, Job

\* Runs that leave the set of bookers, or stay in it as they are.
LEMMA FewerBookers ==
    ASSUME TypeOK, IsFiniteSet(Bookers), Bookers' \subseteq Bookers,
           \A r \in Bookers' : job'[r].usdc = job[r].usdc
    PROVE  /\ IsFiniteSet(Bookers') /\ UnbookedUsdc' \in Nat /\ UnbookedUsdc \in Nat
           /\ UnbookedUsdc' <= UnbookedUsdc
<1> DEFINE f == [r \in Runs |-> job[r].usdc]
           g == [r \in Runs |-> job'[r].usdc]
           S == Bookers
           R == Bookers'
<1>1. R \in SUBSET S /\ R \subseteq Runs /\ S \subseteq Runs
  BY DEF Bookers
<1>2. \A r \in S : f[r] \in Nat
  BY <1>1, UsdcType
<1>3. \A r \in R : g[r] = f[r]
  BY <1>1
<1>4. UnbookedUsdc = SumOver(f, S) /\ UnbookedUsdc' = SumOver(g, R)
  BY DEF UnbookedUsdc
<1> HIDE DEF f, g, S, R
<1>5. IsFiniteSet(S)
  BY DEF S
<1>6. /\ IsFiniteSet(R) /\ SumOver(g, R) \in Nat /\ SumOver(f, S) \in Nat
      /\ SumOver(g, R) <= SumOver(f, S)
  BY <1>1, <1>2, <1>3, <1>5, SumPart
<1>7. QED
  BY <1>4, <1>6 DEF R

LEMMA BackedInit == Init => BackedInv
<1> SUFFICES ASSUME Init PROVE BackedInv
  OBVIOUS
<1>1. Bookers = {}
  BY DEF Init, Bookers, Unbooked
<1>2. UnbookedUsdc = 0 /\ QueuedUsdc = 0
  BY <1>1, SumEmpty, QueueSumEmpty DEF UnbookedUsdc, QueuedUsdc, Init
<1>3. QED
  BY <1>1, <1>2, FS_EmptySet DEF BackedInv, Init

LEMMA RunBacked ==
    ASSUME TypeOK, BackedInv, NEW r \in Runs, RunMoves(r)
    PROVE  BackedInv'
<1>1. /\ \A s \in Runs \ {r} : pc'[s] = pc[s] /\ job'[s] = job[s] /\ receipt'[s] = receipt[s]
      /\ receipt'[r] = "none" /\ UNCHANGED <<books, pool, mempool>>
  BY DEF RunMoves, Alone
<1>2. Unbooked(r)' => Unbooked(r) /\ job'[r].usdc = job[r].usdc
  <2>1. job[r] \in Job
    BY DEF TypeOK
  <2>2. CASE Swapped(r)
    BY <1>1, <2>2 DEF Swapped, Unbooked
  <2>3. CASE Weighs(r)
    BY <1>1, <2>1, <2>3 DEF Weighs, Unbooked, Job
  <2>4. CASE Advances(r)
    <3>1. pc'[r] \in {"approve", "swap", "unwrap", "split"}
      BY <2>4 DEF Advances, After
    <3>2. QED
      BY <1>1, <3>1 DEF Unbooked
  <2>5. CASE Pays(r)
    BY <1>1, <2>5 DEF Pays, PaysAfter, Unbooked
  <2>6. CASE Leaves(r) \/ Prepares(r) \/ Measures(r) \/ Sizes(r)
    BY <1>1, <2>6 DEF Leaves, Prepares, Measures, Sizes, Unbooked, EarlySteps
  <2>7. QED
    BY <2>2, <2>3, <2>4, <2>5, <2>6 DEF RunMoves
<1>3. \A s \in Runs \ {r} : Unbooked(s)' <=> Unbooked(s)
  BY <1>1 DEF Unbooked
<1>4. Bookers' \subseteq Bookers /\ \A s \in Bookers' : job'[s].usdc = job[s].usdc
  BY <1>1, <1>2, <1>3 DEF Bookers
<1>5. /\ IsFiniteSet(Bookers') /\ UnbookedUsdc' \in Nat /\ UnbookedUsdc \in Nat
      /\ UnbookedUsdc' <= UnbookedUsdc
  BY <1>4, FewerBookers DEF BackedInv
<1>6. QueuedUsdc' = QueuedUsdc
  BY <1>1 DEF QueuedUsdc
<1>7. QueuedUsdc \in Nat /\ books.usdc \in Nat /\ pool.usdc \in Nat
  BY QueueType, QueueSumNat, RecordUsdcType, ChainFields DEF QueuedUsdc, TypeOK
<1>8. QED
  BY <1>1, <1>5, <1>6, <1>7 DEF BackedInv

LEMMA SubmitBacked ==
    ASSUME TypeOK, BackedInv, NEW r \in Runs, SubmitTx(r)
    PROVE  BackedInv'
<1>1. /\ receipt[r] = "none" /\ receipt'[r] = "pending"
      /\ \A s \in Runs \ {r} : receipt'[s] = receipt[s]
      /\ TxOf(r) \in Tx /\ TxOf(r).kind = pc[r]
      /\ mempool' = Append(mempool, TxOf(r))
      /\ UNCHANGED <<books, pool, pc, job>>
  BY SubmitSays
<1>2. Bookers' = Bookers \ {r} /\ (r \in Bookers <=> pc[r] = "record")
  <2>1. Bookers' = {s \in Runs : Unbooked(s)'}
    BY DEF Bookers
  <2>2. ~Unbooked(r)' \/ pc[r] = "wrapped balance"
    BY <1>1 DEF Unbooked
  <2>3. pc[r] \in TxSteps /\ pc[r] # "wrapped balance"
    BY SubmitSays DEF TxSteps
  <2>4. \A s \in Runs \ {r} : Unbooked(s)' <=> Unbooked(s)
    BY <1>1 DEF Unbooked
  <2>5. Unbooked(r) <=> pc[r] = "record"
    BY <1>1, <2>3 DEF Unbooked
  <2>6. QED
    BY <2>1, <2>2, <2>3, <2>4, <2>5 DEF Bookers
<1>3. QueuedUsdc' = QueuedUsdc + RecordUsdc[TxOf(r)]
  BY <1>1, QueueType, RecordUsdcType, QueueSumAppend DEF QueuedUsdc
<1>4. RecordUsdc[TxOf(r)] = IF pc[r] = "record" THEN job[r].usdc ELSE 0
  <2>1. pc[r] = "record" => TxOf(r).usdc = job[r].usdc
    BY DEF TxOf
  <2>2. QED
    BY <1>1, <2>1 DEF RecordUsdc
<1>5. QueuedUsdc \in Nat /\ books.usdc \in Nat /\ pool.usdc \in Nat /\ job[r].usdc \in Nat
  BY QueueType, QueueSumNat, RecordUsdcType, ChainFields, UsdcType DEF QueuedUsdc, TypeOK
<1>6. UnbookedUsdc' = SumOver([s \in Runs |-> job[s].usdc], Bookers \ {r})
  BY <1>1, <1>2 DEF UnbookedUsdc
<1>7. CASE pc[r] = "record"
  <2> DEFINE f == [s \in Runs |-> job[s].usdc]
             S == Bookers
  <2>1. r \in S /\ IsFiniteSet(S) /\ \A s \in S : f[s] \in Nat
    BY <1>2, <1>7, UsdcType DEF Bookers, BackedInv
  <2>2. f[r] = job[r].usdc
    OBVIOUS
  <2>3. UnbookedUsdc = SumOver(f, S) /\ UnbookedUsdc' = SumOver(f, S \ {r})
    BY <1>6 DEF UnbookedUsdc
  <2> HIDE DEF f, S
  <2>4. SumOver(f, S \ {r}) \in Nat /\ SumOver(f, S) = SumOver(f, S \ {r}) + f[r]
    BY <2>1, SumSplit
  <2>5. UnbookedUsdc = UnbookedUsdc' + job[r].usdc /\ UnbookedUsdc' \in Nat
    BY <2>2, <2>3, <2>4
  <2>6. QueuedUsdc' = QueuedUsdc + job[r].usdc
    BY <1>3, <1>4, <1>7
  <2>7. IsFiniteSet(Bookers')
    BY <1>2, FS_Difference DEF BackedInv
  <2>8. books' = books /\ pool' = pool
    BY <1>1
  <2>9. QED
    BY <1>5, <2>5, <2>6, <2>7, <2>8 DEF BackedInv
<1>8. CASE pc[r] # "record"
  <2>1. Bookers' = Bookers
    BY <1>2, <1>8
  <2>2. UnbookedUsdc' = UnbookedUsdc
    BY <1>1, <2>1 DEF UnbookedUsdc
  <2>3. QueuedUsdc' = QueuedUsdc
    BY <1>3, <1>4, <1>5, <1>8
  <2>4. QED
    BY <1>1, <2>1, <2>2, <2>3 DEF BackedInv
<1>9. QED
  BY <1>7, <1>8

\* What is true of the transaction a block takes, if a run waits for it.
LEMMA HeadOwned ==
    ASSUME QueueInv, mempool # <<>>
    PROVE  /\ Head(mempool) \in Tx
           /\ \A r \in Runs : Head(mempool).by = r =>
                 receipt[r] = "pending" /\ Head(mempool) = TxOf(r) /\ pc[r] \in TxSteps
                 /\ Head(mempool).kind = pc[r]
<1>1. TypeOK
  BY DEF QueueInv, RunsInv
<1>2. Head(mempool) = mempool[1] /\ Head(mempool) \in Tx /\ 1 \in DOMAIN mempool
  BY <1>1, QueueType, QueueTail
<1>3. ASSUME NEW r \in Runs, Head(mempool).by = r
      PROVE  receipt[r] = "pending" /\ Head(mempool) = TxOf(r) /\ pc[r] \in TxSteps
  BY <1>2, <1>3 DEF QueueInv, OwnTx, WaitInv
<1>4. QED
  BY <1>2, <1>3, TxOfSays

\* A transaction that succeeds does what its kind says.
LEMMA SucceedsAs ==
    ASSUME NEW tx, Succeeds(tx)
    PROVE  /\ tx.kind = "withdraw" => WithdrawUsdc(tx)
           /\ tx.kind = "approve" => Approve(tx)
           /\ tx.kind = "swap" => \E rate \in Rates : ExactInputSingle(tx, rate)
           /\ tx.kind = "record" => RecordGasPurchase(tx)
           /\ tx.kind = "unwrap" => Unwrap(tx)
           /\ tx.kind = "send" => SendNative(tx)
<1>1. /\ WithdrawUsdc(tx) => tx.kind = "withdraw"
      /\ Approve(tx) => tx.kind = "approve"
      /\ \A rate \in Rates : ExactInputSingle(tx, rate) => tx.kind = "swap"
      /\ RecordGasPurchase(tx) => tx.kind = "record"
      /\ Unwrap(tx) => tx.kind = "unwrap"
      /\ SendNative(tx) => tx.kind = "send"
  BY DEF WithdrawUsdc, Approve, ExactInputSingle, RecordGasPurchase, Unwrap, SendNative
<1>2. QED
  BY <1>1 DEF Succeeds

LEMMA BlockBacked ==
    ASSUME QueueInv, BackedInv, MineTx \/ RevertTx
    PROVE  BackedInv'
<1> DEFINE tx == Head(mempool)
<1>1. TypeOK
  BY DEF QueueInv, RunsInv
<1>2. /\ mempool # <<>> /\ mempool' = Tail(mempool) /\ UNCHANGED <<pc, job>>
      /\ \A r \in Runs : r # tx.by => receipt'[r] = receipt[r]
      /\ \A r \in Runs : r = tx.by => receipt'[r] = IF MineTx THEN "success" ELSE "reverted"
  BY <1>1, BlockSays
<1>3. /\ tx \in Tx
      /\ \A r \in Runs : tx.by = r =>
            receipt[r] = "pending" /\ tx = TxOf(r) /\ pc[r] \in TxSteps /\ tx.kind = pc[r]
  BY <1>2, HeadOwned
<1>4. QueuedUsdc = QueuedUsdc' + RecordUsdc[tx]
  BY <1>1, <1>2, QueueType, RecordUsdcType, QueueSumTail DEF QueuedUsdc
<1>5. QueuedUsdc' \in Nat
  <2>1. Tail(mempool) \in Seq(Tx)
    BY <1>1, <1>2, QueueType
  <2>2. QED
    BY <1>2, <2>1, QueueSumNat, RecordUsdcType DEF QueuedUsdc
<1>6. /\ books.usdc \in Nat /\ pool.usdc \in Nat /\ tx.usdc \in Nat
      /\ RecordUsdc[tx] = IF tx.kind = "record" THEN tx.usdc ELSE 0
  BY <1>1, <1>3, ChainFields DEF TypeOK, RecordUsdc, Tx
<1>7. \A r \in Runs : r # tx.by => (Unbooked(r)' <=> Unbooked(r))
  BY <1>2 DEF Unbooked
<1>8. \A r \in Runs : r = tx.by => ~Unbooked(r) /\ (Unbooked(r)' <=> MineTx /\ tx.kind = "swap")
  BY <1>2, <1>3 DEF Unbooked, TxSteps
<1> HIDE DEF tx
<1>9. ASSUME ~(MineTx /\ tx.kind = "swap")
      PROVE  /\ IsFiniteSet(Bookers') /\ UnbookedUsdc' \in Nat /\ UnbookedUsdc \in Nat
             /\ UnbookedUsdc' <= UnbookedUsdc
  <2>1. Bookers' \subseteq Bookers /\ \A r \in Bookers' : job'[r].usdc = job[r].usdc
    BY <1>2, <1>7, <1>8, <1>9 DEF Bookers
  <2>2. QED
    BY <1>1, <2>1, FewerBookers DEF BackedInv
<1>10. CASE MineTx /\ tx.kind = "swap"
  <2>1. books' = books /\ pool'.usdc = pool.usdc + tx.usdc
    <3>1. PICK rate \in Rates : ExactInputSingle(tx, rate)
      BY <1>10, SucceedsAs DEF MineTx, Mine, tx
    <3>2. books' = books /\ pool' = [usdc |-> pool.usdc + tx.usdc, wei |-> pool.wei + tx.usdc * rate]
      BY <3>1 DEF ExactInputSingle
    <3>3. QED
      BY <3>2
  <2>2. IsFiniteSet(Bookers') /\ UnbookedUsdc' \in Nat /\ UnbookedUsdc \in Nat
        /\ UnbookedUsdc' <= UnbookedUsdc + tx.usdc
    <3>1. CASE tx.by \in Runs
      <4> DEFINE b == tx.by
                 f == [r \in Runs |-> job[r].usdc]
                 S == Bookers
      <4>1. b \in Runs /\ b \notin S /\ Bookers' = S \cup {b}
        BY <1>7, <1>8, <1>10, <3>1 DEF Bookers
      <4>2. tx.usdc = job[b].usdc
        BY <1>3, <1>10, <3>1 DEF TxOf
      <4>3. UnbookedUsdc = SumOver(f, S) /\ UnbookedUsdc' = SumOver(f, S \cup {b})
        BY <1>2, <4>1 DEF UnbookedUsdc
      <4>4. IsFiniteSet(S) /\ \A r \in S \cup {b} : f[r] \in Nat /\ f[b] = tx.usdc
        BY <1>1, <4>1, <4>2, UsdcType DEF BackedInv, Bookers
      <4>5. f[b] = tx.usdc /\ f[b] \in Nat
        BY <4>4
      <4> HIDE DEF f, S, b
      <4>6. SumOver(f, S \cup {b}) = SumOver(f, S) + f[b] /\ SumOver(f, S) \in Nat
        BY <4>1, <4>4, SumAdd, SumNat
      <4>7. IsFiniteSet(S \cup {b})
        BY <4>4, FS_AddElement
      <4>8. QED
        BY <4>1, <4>3, <4>5, <4>6, <4>7
    <3>2. CASE tx.by \notin Runs
      <4>1. Bookers' \subseteq Bookers /\ \A r \in Bookers' : job'[r].usdc = job[r].usdc
        BY <1>2, <1>7, <3>2 DEF Bookers
      <4>2. /\ IsFiniteSet(Bookers') /\ UnbookedUsdc' \in Nat /\ UnbookedUsdc \in Nat
            /\ UnbookedUsdc' <= UnbookedUsdc
        BY <1>1, <4>1, FewerBookers DEF BackedInv
      <4>3. QED
        BY <1>6, <4>2
    <3>3. QED
      BY <3>1, <3>2
  <2>3. QueuedUsdc = QueuedUsdc'
    BY <1>4, <1>5, <1>6, <1>10
  <2>4. QED
    BY <1>5, <1>6, <2>1, <2>2, <2>3 DEF BackedInv
<1>11. CASE MineTx /\ tx.kind = "record"
  <2>1. books'.usdc = books.usdc + tx.usdc /\ pool' = pool
    <3>1. RecordGasPurchase(tx)
      BY <1>11, SucceedsAs DEF MineTx, Mine, tx
    <3>2. QED
      BY <3>1 DEF RecordGasPurchase
  <2>2. QED
    BY <1>4, <1>5, <1>6, <1>9, <1>11, <2>1 DEF BackedInv
<1>12. CASE ~MineTx \/ tx.kind \notin {"swap", "record"}
  <2>1. books' = books /\ pool' = pool
    <3>1. CASE MineTx
      BY <1>12, <3>1 DEF MineTx, Mine, Succeeds, WithdrawUsdc, Approve, ExactInputSingle,
                         RecordGasPurchase, Unwrap, SendNative, tx
    <3>2. CASE RevertTx
      BY <3>2 DEF RevertTx, Revert
    <3>3. QED
      BY <3>1, <3>2
  <2>2. QED
    BY <1>4, <1>5, <1>6, <1>9, <1>12, <2>1 DEF BackedInv
<1>13. QED
  BY <1>10, <1>11, <1>12

LEMMA GoneBacked ==
    ASSUME TypeOK, TypeOK', BackedInv, NEW R \in SUBSET Runs, Disown(R),
           UNCHANGED <<books, pool>>,
           \A s \in Runs \ R : pc'[s] = pc[s] /\ job'[s] = job[s],
           \A s \in R : pc'[s] = "idle"
    PROVE  BackedInv'
<1>1. /\ DOMAIN mempool' = DOMAIN mempool
      /\ \A n \in DOMAIN mempool :
            mempool'[n].kind = mempool[n].kind /\ mempool'[n].usdc = mempool[n].usdc
      /\ \A r \in Runs : receipt'[r] = IF r \in R THEN "none" ELSE receipt[r]
  BY DisownSays, Zenon
<1>2. (\A n \in DOMAIN mempool : mempool[n] \in Tx) /\ \A n \in DOMAIN mempool' : mempool'[n] \in Tx
  <2>1. \A n \in DOMAIN mempool : mempool[n] \in Tx
    BY QueueType
  <2>2. mempool' \in Seq(Tx)
    BY DEF TypeOK, ChainTypeOK
  <2>3. \A n \in DOMAIN mempool' : mempool'[n] \in Tx
    BY <2>2
  <2>4. QED
    BY <2>1, <2>3
<1>3. \A n \in DOMAIN mempool : RecordUsdc[mempool'[n]] = RecordUsdc[mempool[n]]
  BY <1>1, <1>2 DEF RecordUsdc
<1>4. QueuedUsdc' = QueuedUsdc
  <2>1. QueueSum(RecordUsdc, mempool') = QueueSum(RecordUsdc, mempool)
    BY <1>1, <1>3, QueueSumSame
  <2>2. QED
    BY <2>1 DEF QueuedUsdc
<1>5. \A r \in R : ~Unbooked(r)'
  BY DEF Unbooked
<1>6. \A r \in Runs \ R : Unbooked(r)' <=> Unbooked(r)
  BY <1>1 DEF Unbooked
<1>7. Bookers' \subseteq Bookers /\ \A r \in Bookers' : job'[r].usdc = job[r].usdc
  BY <1>5, <1>6 DEF Bookers
<1>8. /\ IsFiniteSet(Bookers') /\ UnbookedUsdc' \in Nat /\ UnbookedUsdc \in Nat
      /\ UnbookedUsdc' <= UnbookedUsdc
  BY <1>7, FewerBookers DEF BackedInv
<1>9. QueuedUsdc \in Nat /\ books.usdc \in Nat /\ pool.usdc \in Nat
  BY QueueType, QueueSumNat, RecordUsdcType, ChainFields DEF QueuedUsdc, TypeOK
<1>10. QED
  BY <1>4, <1>8, <1>9 DEF BackedInv

LEMMA BackedStep == QueueInv /\ BackedInv /\ [Next]_vars => BackedInv'
<1> SUFFICES ASSUME QueueInv, BackedInv, [Next]_vars PROVE BackedInv'
  OBVIOUS
<1>1. TypeOK /\ EarlyAutos /\ WaitInv /\ TypeOK'
  BY TypeStep DEF QueueInv, RunsInv
<1>2. ASSUME NEW r \in Runs, LoseReceipt(r) PROVE BackedInv'
  <2>1. /\ Disown({r}) /\ UNCHANGED <<books, pool>> /\ pc'[r] = "idle"
        /\ \A s \in Runs \ {r} : pc'[s] = pc[s] /\ job'[s] = job[s]
    BY <1>1, <1>2, ForgetMoves DEF LoseReceipt
  <2>2. QED
    BY <1>1, <2>1, GoneBacked
<1>3. CASE Crash
  BY <1>1, <1>3, GoneBacked DEF Crash
<1>4. CASE Outside
  <2>1. UNCHANGED <<books, pool, mempool, receipt, pc, job>>
    BY <1>4 DEF Outside
  <2>2. Bookers' = Bookers
    BY <2>1 DEF Bookers, Unbooked
  <2>3. QED
    BY <2>1, <2>2 DEF BackedInv, QueuedUsdc, UnbookedUsdc
<1>5. QED
  BY <1>1, <1>2, <1>3, <1>4, NextSteps, RunBacked, SubmitBacked, BlockBacked

\* The contract never counts USDC as spent on gas that no swap paid, whatever
\* fails, restarts or runs beside the run that swaps and records.
THEOREM PurchasesAreBacked == Spec => []PurchasesBacked
<1>1. Init => BackedInv
  BY BackedInit
<1>2. QueueInv /\ BackedInv /\ [Next]_vars => BackedInv'
  BY BackedStep
<1>3. QueueInv /\ BackedInv => PurchasesBacked
  <2> SUFFICES ASSUME TypeOK, BackedInv PROVE PurchasesBacked
    BY DEF QueueInv, RunsInv
  <2>1. /\ IsFiniteSet(Bookers) /\ UnbookedUsdc \in Nat
    BY FewerBookers, UsdcType, SumNat DEF BackedInv, UnbookedUsdc, Bookers
  <2>2. QueuedUsdc \in Nat /\ books.usdc \in Nat /\ pool.usdc \in Nat
    BY QueueType, QueueSumNat, RecordUsdcType, ChainFields DEF QueuedUsdc, TypeOK
  <2>3. QED
    BY <2>1, <2>2 DEF BackedInv, PurchasesBacked
<1>4. QED
  BY <1>1, <1>2, <1>3, QueueInvHolds, PTL DEF Spec

-----------------------------------------------------------------------------
(***************************************************************************)
(* One way into a refill only: automatic runs, or manual ones.  Then a run *)
(* is alone with the owner's queue, and its own transaction is the last.   *)
(***************************************************************************)
OneEntry == Autos = {} \/ Manuals = {}

Exclusive == \A r, s \in Runs : pc[r] # "idle" /\ pc[s] # "idle" => r = s

LEMMA OneEntryExclusive == RunsInv /\ OneEntry => Exclusive
<1> SUFFICES ASSUME RunsInv, OneEntry, NEW r \in Runs, NEW s \in Runs,
                    pc[r] # "idle", pc[s] # "idle"
             PROVE  r = s
  BY DEF Exclusive
<1>1. CASE Autos = {}
  BY <1>1 DEF RunsInv, ManualsExclusive
<1>2. CASE Manuals = {}
  BY <1>2, RunKinds DEF RunsInv, AutosExclusive
<1>3. QED
  BY <1>1, <1>2 DEF OneEntry

\* The steps of a run whose withdrawal has been executed.
PastWithdraw == {"approve", "swap", "wrapped balance", "record", "unwrap", "split", "send"}

\* The queue is empty whenever run r looks at a receipt or goes on after one, and
\* ends with the transaction that r waits for.
Fifo(r) ==
    /\ pc[r] \in PastWithdraw /\ receipt[r] = "none" => mempool = <<>>
    /\ receipt[r] \in {"success", "reverted"} => mempool = <<>>
    /\ receipt[r] = "pending" => mempool # <<>> /\ mempool[Len(mempool)].by = r

\* Only a fault leaves a transaction nobody waits for.
NoOrphans == faults = 0 => \A n \in DOMAIN mempool : mempool[n].by # NoRun

FifoInv == /\ OneEntry => \A r \in Runs : Fifo(r)
           /\ NoOrphans

LEMMA IdleFifo ==
    ASSUME WaitInv, NEW r \in Runs, pc[r] = "idle"
    PROVE  Fifo(r)
BY DEF WaitInv, Fifo, PastWithdraw, TxSteps

LEMMA FifoInit == Init => FifoInv
<1> SUFFICES ASSUME Init PROVE FifoInv
  OBVIOUS
<1>1. mempool = <<>> /\ \A r \in Runs : receipt[r] = "none"
  BY DEF Init
<1>2. DOMAIN mempool = {}
  BY <1>1
<1>3. QED
  BY <1>1, <1>2 DEF FifoInv, Fifo, NoOrphans

LEMMA RunFifo ==
    ASSUME TypeOK, WaitInv, NEW r \in Runs, RunMoves(r), \A s \in Runs : Fifo(s)
    PROVE  \A s \in Runs : Fifo(s)'
<1>1. /\ \A s \in Runs \ {r} : pc'[s] = pc[s] /\ receipt'[s] = receipt[s]
      /\ receipt[r] # "pending" /\ receipt'[r] = "none" /\ mempool' = mempool
  BY DEF RunMoves, Alone
<1>2. \A s \in Runs \ {r} : Fifo(s)'
  BY <1>1 DEF Fifo
<1>3. pc'[r] \in PastWithdraw => pc[r] \in PastWithdraw \/ receipt[r] # "none"
  <2>1. CASE Advances(r) \/ Swapped(r)
    BY <2>1 DEF Advances, Swapped
  <2>2. CASE Weighs(r) \/ Pays(r)
    BY <2>2 DEF Weighs, Pays, PastWithdraw
  <2>3. CASE Leaves(r) \/ Prepares(r) \/ Measures(r) \/ Sizes(r)
    BY <2>3 DEF Leaves, Prepares, Measures, Sizes, EarlySteps, PastWithdraw
  <2>4. QED
    BY <2>1, <2>2, <2>3 DEF RunMoves
<1>4. receipt[r] \in {"none", "success", "reverted"}
  BY <1>1 DEF TypeOK, ChainTypeOK, Receipts
<1>5. Fifo(r)'
  BY <1>1, <1>3, <1>4 DEF Fifo
<1>6. QED
  BY <1>2, <1>5

LEMMA SubmitFifo ==
    ASSUME TypeOK, WaitInv, Exclusive, NEW r \in Runs, SubmitTx(r)
    PROVE  \A s \in Runs : Fifo(s)'
<1>1. /\ pc[r] \in TxSteps /\ receipt[r] = "none" /\ receipt'[r] = "pending"
      /\ \A s \in Runs \ {r} : receipt'[s] = receipt[s]
      /\ TxOf(r) \in Tx /\ TxOf(r).by = r
      /\ mempool' = Append(mempool, TxOf(r)) /\ pc' = pc
  BY SubmitSays
<1>2. mempool' # <<>> /\ mempool'[Len(mempool')] = TxOf(r)
  BY <1>1, QueueType, QueueAppend
<1>3. Fifo(r)'
  BY <1>1, <1>2 DEF Fifo
<1>4. ASSUME NEW s \in Runs \ {r} PROVE Fifo(s)'
  <2>1. pc[s] = "idle"
    BY <1>1 DEF Exclusive, TxSteps
  <2>2. pc'[s] = "idle" /\ receipt'[s] = "none"
    BY <1>1, <2>1 DEF WaitInv, TxSteps
  <2>3. QED
    BY <2>2 DEF Fifo, PastWithdraw
<1>5. QED
  BY <1>3, <1>4

LEMMA BlockFifo ==
    ASSUME QueueInv, \A r \in Runs : Fifo(r), MineTx \/ RevertTx, NEW s \in Runs
    PROVE  Fifo(s)'
<1>1. TypeOK
  BY DEF QueueInv, RunsInv
<1>2. /\ mempool # <<>> /\ mempool' = Tail(mempool) /\ pc' = pc
      /\ s # Head(mempool).by => receipt'[s] = receipt[s]
      /\ s = Head(mempool).by => receipt'[s] \in {"success", "reverted"}
  BY <1>1, BlockSays
<1>3. /\ Len(mempool) \in Nat \ {0} /\ Head(mempool) = mempool[1]
      /\ DOMAIN mempool = 1..Len(mempool) /\ Len(mempool') = Len(mempool) - 1
      /\ \A n \in 1..Len(mempool) - 1 : mempool'[n] = mempool[n + 1]
      /\ mempool' \in Seq(Tx)
  BY <1>1, <1>2, QueueType, QueueTail
<1>4. CASE s = Head(mempool).by
  <2>1. receipt[s] = "pending"
    BY <1>2, <1>4, HeadOwned
  <2>2. mempool[Len(mempool)].by = s
    BY <2>1 DEF Fifo
  <2>3. s # NoRun /\ 1 \in DOMAIN mempool /\ Len(mempool) \in DOMAIN mempool
    BY <1>3, NoRunAssumption
  <2>4. Len(mempool) = 1
    BY <1>3, <1>4, <2>2, <2>3 DEF QueueInv, OneTxEach
  <2>5. mempool' = <<>>
    <3>1. Len(mempool') = 0
      BY <1>3, <2>4
    <3>2. QED
      BY <1>3, <3>1, QueueEmpty
  <2>6. QED
    BY <1>2, <1>4, <2>5 DEF Fifo
<1>5. CASE s # Head(mempool).by /\ receipt[s] = "pending"
  <2>1. mempool[Len(mempool)].by = s
    BY <1>5 DEF Fifo
  <2>2. Len(mempool) # 1
    BY <1>3, <1>5, <2>1
  <2>3. Len(mempool) - 1 \in 1..Len(mempool) - 1 /\ Len(mempool) - 1 + 1 = Len(mempool)
    BY <1>3, <2>2
  <2>4. mempool'[Len(mempool')].by = s
    BY <1>3, <2>1, <2>3
  <2>5. mempool' # <<>>
    BY <1>3, <2>3
  <2>6. QED
    BY <1>2, <1>5, <2>4, <2>5 DEF Fifo
<1>6. CASE s # Head(mempool).by /\ receipt[s] # "pending"
  <2>1. receipt[s] \in {"none", "success", "reverted"}
    BY <1>1, <1>6 DEF TypeOK, ChainTypeOK, Receipts
  <2>2. QED
    BY <1>2, <1>6, <2>1 DEF Fifo
<1>7. QED
  BY <1>4, <1>5, <1>6

\* A run that is gone leaves the others where they are: idle.
LEMMA GoneFifo ==
    ASSUME WaitInv', NEW r \in Runs, \A s \in Runs \ {r} : pc[s] = "idle" /\ pc'[s] = pc[s],
           pc'[r] = "idle"
    PROVE  \A s \in Runs : Fifo(s)'
<1>1. ASSUME NEW s \in Runs PROVE Fifo(s)'
  <2>1. pc'[s] = "idle"
    OBVIOUS
  <2>2. QED
    BY <2>1 DEF WaitInv, Fifo, PastWithdraw, TxSteps
<1>2. QED
  BY <1>1

LEMMA OrphansStep ==
    ASSUME TypeOK, WaitInv, EarlyAutos, NoOrphans, [Next]_vars
    PROVE  NoOrphans'
<1>1. /\ Len(mempool) \in Nat /\ DOMAIN mempool = 1..Len(mempool) /\ mempool \in Seq(Tx)
  BY QueueType
<1>2. ASSUME NEW r \in Runs, RunMoves(r) PROVE NoOrphans'
  BY <1>2, FaultsGrow DEF RunMoves, Alone, NoOrphans, TypeOK
<1>3. ASSUME NEW r \in Runs, SubmitTx(r) PROVE NoOrphans'
  <2>1. /\ TxOf(r) \in Tx /\ TxOf(r).by = r /\ mempool' = Append(mempool, TxOf(r))
        /\ faults' = faults
    BY <1>3, SubmitSays
  <2>2. /\ DOMAIN mempool' = 1..Len(mempool) + 1 /\ mempool'[Len(mempool) + 1] = TxOf(r)
        /\ \A n \in 1..Len(mempool) : mempool'[n] = mempool[n]
    BY <1>1, <2>1, QueueAppend
  <2>3. QED
    BY <1>1, <2>1, <2>2, NoRunAssumption DEF NoOrphans
<1>4. CASE MineTx \/ RevertTx
  <2>1. mempool # <<>> /\ mempool' = Tail(mempool) /\ faults' >= faults
    BY <1>4, BlockSays
  <2>2. /\ DOMAIN mempool' = 1..Len(mempool) - 1
        /\ \A n \in 1..Len(mempool) - 1 : mempool'[n] = mempool[n + 1]
    BY <1>1, <2>1, QueueTail
  <2>3. faults \in Nat
    BY FaultsGrow
  <2>4. faults' = 0 => faults = 0
    BY <2>1, <2>3, BoundAssumption, <1>4 DEF MineTx, RevertTx, Fault
  <2>5. \A n \in DOMAIN mempool' : n + 1 \in DOMAIN mempool /\ mempool'[n] = mempool[n + 1]
    BY <1>1, <2>2
  <2>6. QED
    BY <2>4, <2>5 DEF NoOrphans
<1>5. ASSUME Fault PROVE NoOrphans'
  BY <1>5, FaultsGrow DEF Fault, NoOrphans
<1>6. CASE Outside
  BY <1>6 DEF Outside, NoOrphans
<1>7. QED
  BY <1>2, <1>3, <1>4, <1>5, <1>6, NextSteps DEF LoseReceipt, Crash

LEMMA FifoStep == QueueInv /\ QueueInv' /\ FifoInv /\ [Next]_vars => FifoInv'
<1> SUFFICES ASSUME QueueInv, QueueInv', FifoInv, [Next]_vars PROVE FifoInv'
  OBVIOUS
<1>1. TypeOK /\ EarlyAutos /\ WaitInv /\ WaitInv'
  BY DEF QueueInv, RunsInv
<1>2. NoOrphans'
  BY <1>1, OrphansStep DEF FifoInv
<1>3. ASSUME OneEntry PROVE \A s \in Runs : Fifo(s)'
  <2>1. Exclusive /\ \A s \in Runs : Fifo(s)
    BY <1>3, OneEntryExclusive DEF QueueInv, FifoInv
  <2>2. ASSUME NEW r \in Runs, LoseReceipt(r) PROVE \A s \in Runs : Fifo(s)'
    <3>1. /\ pc[r] # "idle" /\ pc'[r] = "idle"
          /\ \A s \in Runs \ {r} : pc'[s] = pc[s]
      BY <1>1, <2>2, ForgetMoves DEF LoseReceipt, TxSteps
    <3>2. \A s \in Runs \ {r} : pc[s] = "idle"
      BY <2>1, <3>1 DEF Exclusive
    <3>3. QED
      BY <1>1, <3>1, <3>2, GoneFifo
  <2>3. CASE Crash
    BY <1>1, <2>3 DEF Crash, WaitInv, Fifo, PastWithdraw, TxSteps
  <2>4. CASE Outside
    BY <2>1, <2>4 DEF Outside, Fifo
  <2>5. QED
    BY <1>1, <2>1, <2>2, <2>3, <2>4, NextSteps, RunFifo, SubmitFifo, BlockFifo
<1>4. QED
  BY <1>2, <1>3 DEF FifoInv

LEMMA FifoHolds == Spec => [](QueueInv /\ FifoInv)
<1>1. Init => FifoInv
  BY FifoInit
<1>2. QueueInv /\ QueueInv' /\ FifoInv /\ [Next]_vars => FifoInv'
  BY FifoStep
<1>3. QED
  BY <1>1, <1>2, QueueInvHolds, PTL DEF Spec

-----------------------------------------------------------------------------
(* The reserve *)

SendWei == [tx \in Tx |-> IF tx.kind = "send" THEN tx.wei ELSE 0]

\* The legs run r has still to submit a send for.
Unsent(r) == {i \in Legs : i > job[r].leg \/ (i = job[r].leg /\ receipt[r] = "none")}

Rest(r) == SumOver(job[r].plan, Unsent(r))

\* The owner can pay the sends that are pending, those a run has planned and not
\* submitted, and keep the reserve.
ReserveInv ==
    /\ owner.native >= Reserve + PendingSends
    /\ \A r \in Runs : pc[r] = "send" => owner.native >= Reserve + PendingSends + Rest(r)

LEMMA SendWeiType == SendWei \in [Tx -> Nat]
BY DEF SendWei, Tx

LEMMA SendsOf ==
    ASSUME NEW q \in Seq(Tx)
    PROVE  /\ QueueSum(SendWei, q) \in Nat
           /\ SumOver([n \in DOMAIN q |-> IF q[n].kind = "send" THEN q[n].wei ELSE 0], DOMAIN q)
                = QueueSum(SendWei, q)
<1>1. \A n \in DOMAIN q : q[n] \in Tx
  OBVIOUS
<1>2. [n \in DOMAIN q |-> IF q[n].kind = "send" THEN q[n].wei ELSE 0]
        = [n \in DOMAIN q |-> SendWei[q[n]]]
  BY <1>1 DEF SendWei
<1>3. QED
  BY <1>2, QueueSumNat, SendWeiType DEF QueueSum

LEMMA PendingIs ==
    TypeOK => PendingSends = QueueSum(SendWei, mempool) /\ PendingSends \in Nat
BY QueueType, SendsOf DEF PendingSends

LEMMA PendingNext ==
    TypeOK' => PendingSends' = QueueSum(SendWei, mempool') /\ PendingSends' \in Nat
<1> SUFFICES ASSUME TypeOK'
             PROVE  PendingSends' = QueueSum(SendWei, mempool') /\ PendingSends' \in Nat
  OBVIOUS
<1>1. mempool' \in Seq(Tx)
  BY DEF TypeOK, ChainTypeOK
<1>2. QED
  BY <1>1, SendsOf DEF PendingSends

LEMMA RestNat ==
    ASSUME TypeOK, NEW r \in Runs
    PROVE  /\ job[r].plan \in [Legs -> Nat] /\ job[r].leg \in Nat
           /\ Unsent(r) \in SUBSET Legs /\ Rest(r) \in Nat
<1>1. job[r].plan \in [Legs -> Nat] /\ job[r].leg \in Nat /\ Unsent(r) \in SUBSET Legs
  BY NLegsAssumption DEF TypeOK, Job, Unsent
<1>2. QED
  BY <1>1, PartNat DEF Rest

LEMMA ReserveInit ==
    ASSUME Init, InitOwner.native >= Reserve
    PROVE  ReserveInv
<1>1. mempool = <<>> /\ owner = InitOwner /\ \A r \in Runs : pc[r] # "send"
  BY DEF Init
<1>2. PendingSends = 0
  BY <1>1, TypeInit, PendingIs, QueueSumEmpty
<1>3. QED
  BY <1>1, <1>2, ReserveAssumption, InitAssumption DEF ReserveInv

\* The split gives away no more than the owner can spare.
LEMMA SplitSpares ==
    ASSUME TypeOK, NEW r \in Runs, NEW I \in SUBSET Legs, owner.native >= Reserve
    PROVE  /\ SumOver(Allocate(job[r].deficit, Spendable), I) \in Nat
           /\ owner.native >= Reserve + SumOver(Allocate(job[r].deficit, Spendable), I)
<1>1. owner.native \in Nat /\ job[r].deficit \in [Legs -> Nat] /\ Reserve \in Nat
  BY ChainFields, ReserveAssumption DEF TypeOK, Job
<1>2. Spendable \in Nat /\ owner.native = Reserve + Spendable
  BY <1>1 DEF Spendable, Larger
<1>3. PICK p \in [Legs -> Nat] : p = Allocate(job[r].deficit, Spendable)
  BY <1>1, <1>2, AllocateCapped
<1>4. Total(p) <= Spendable
  <2>1. Total(p) = Smaller(Spendable, Total(job[r].deficit))
    BY <1>1, <1>2, <1>3, AllocateExact
  <2>2. QED
    BY <1>1, <1>2, <2>1, TotalNat DEF Smaller
<1>5. SumOver(p, I) <= Total(p)
  BY LegsFinite, SumMonotone DEF Total
<1>6. SumOver(p, I) \in Nat /\ Total(p) \in Nat
  BY PartNat, TotalNat
<1>7. QED
  BY <1>1, <1>2, <1>3, <1>4, <1>5, <1>6

LEMMA PaysReserve ==
    ASSUME TypeOK, TypeOK', WaitInv, ReserveInv, NEW r \in Runs, Fifo(r),
           Alone(r), Pays(r)
    PROVE  owner.native >= Reserve + PendingSends + Rest(r)'
<1>1. receipt'[r] = "none" /\ owner.native \in Nat /\ Reserve \in Nat
  BY ChainFields, ReserveAssumption DEF Alone, TypeOK
<1>2. job[r] \in Job /\ job[r].leg \in Nat /\ job[r].plan \in [Legs -> Nat] /\ Rest(r) \in Nat
  BY RestNat DEF TypeOK
<1>3. PendingSends \in Nat
  BY PendingIs
<1>4. CASE pc[r] = "split" /\ PaysAfter(r, Allocate(job[r].deficit, Spendable), 0)
  <2>1. mempool = <<>>
    BY <1>4 DEF WaitInv, Fifo, PastWithdraw, TxSteps
  <2>2. PendingSends = 0
    BY <2>1, PendingIs, QueueSumEmpty
  <2>3. job'[r].plan = Allocate(job[r].deficit, Spendable)
    BY <1>2, <1>4 DEF PaysAfter, Job
  <2>4. Unsent(r)' \in SUBSET Legs
    BY DEF Unsent
  <2>5. PICK I \in SUBSET Legs : I = Unsent(r)'
    BY <2>4
  <2>6. owner.native >= Reserve
    BY <1>1, <2>2 DEF ReserveInv
  <2>7. Rest(r)' = SumOver(Allocate(job[r].deficit, Spendable), I)
    BY <2>3, <2>5 DEF Rest
  <2>8. Rest(r)' \in Nat /\ owner.native >= Reserve + Rest(r)'
    BY <2>6, <2>7, SplitSpares
  <2>9. QED
    BY <1>1, <2>2, <2>8
<1>5. CASE pc[r] = "send" /\ receipt[r] # "none" /\ PaysAfter(r, job[r].plan, job[r].leg)
  <2>1. /\ NextLeg(job[r].plan, job[r].leg) \in job[r].leg + 1..NLegs
        /\ job'[r].plan = job[r].plan /\ job'[r].leg = NextLeg(job[r].plan, job[r].leg)
    BY <1>2, <1>5 DEF PaysAfter, Job
  <2>2. Unsent(r)' = {i \in Legs : i >= job'[r].leg} /\ job'[r].leg > job[r].leg
    BY SMTT(20), <1>1, <1>2, <2>1, NLegsAssumption DEF Unsent, Legs
  <2>3. Unsent(r) = {i \in Legs : i > job[r].leg}
    BY <1>2, <1>5, NLegsAssumption DEF Unsent, Legs
  <2>4. job'[r].leg \in Nat
    BY <1>2, <2>1, NLegsAssumption
  <2>5. Unsent(r)' \subseteq Unsent(r)
    BY <1>2, <2>2, <2>3, <2>4, NLegsAssumption DEF Legs
  <2>6. IsFiniteSet(Unsent(r)) /\ Unsent(r) \in SUBSET Legs
    BY LegsFinite, FS_Subset DEF Unsent
  <2>7. PICK I \in SUBSET Unsent(r) : I = Unsent(r)'
    BY <2>5
  <2>8. SumOver(job[r].plan, I) <= Rest(r)
    <3>1. \A j \in Unsent(r) : job[r].plan[j] \in Nat
      BY <1>2, <2>6
    <3>2. QED
      BY <2>6, <3>1, SumMonotone DEF Rest
  <2>9. Rest(r)' = SumOver(job[r].plan, I)
    BY <2>1, <2>7 DEF Rest
  <2>10. Rest(r)' <= Rest(r) /\ Rest(r)' \in Nat
    BY <1>2, <2>6, <2>8, <2>9, PartNat
  <2>11. owner.native >= Reserve + PendingSends + Rest(r)
    BY <1>5 DEF ReserveInv
  <2>12. QED
    BY <1>1, <1>2, <1>3, <2>10, <2>11
<1>6. QED
  BY <1>4, <1>5 DEF Pays

LEMMA RunReserve ==
    ASSUME TypeOK, TypeOK', WaitInv, ReserveInv, NEW r \in Runs, Fifo(r), RunMoves(r)
    PROVE  ReserveInv'
<1>1. /\ \A s \in Runs \ {r} : pc'[s] = pc[s] /\ job'[s] = job[s] /\ receipt'[s] = receipt[s]
      /\ owner' = owner /\ mempool' = mempool
  BY DEF RunMoves, Alone
<1>2. PendingSends' = PendingSends
  BY <1>1 DEF PendingSends
<1>3. ASSUME NEW s \in Runs \ {r}, pc'[s] = "send"
      PROVE  owner.native >= Reserve + PendingSends + Rest(s)'
  <2>1. Rest(s)' = Rest(s)
    BY <1>1 DEF Rest, Unsent
  <2>2. QED
    BY <1>1, <1>3, <2>1 DEF ReserveInv
<1>4. pc'[r] = "send" => Pays(r)
  <2>1. CASE Advances(r)
    BY <2>1 DEF Advances, After
  <2>2. CASE Leaves(r) \/ Prepares(r) \/ Measures(r) \/ Sizes(r) \/ Swapped(r) \/ Weighs(r)
    BY <2>2 DEF Leaves, Prepares, Measures, Sizes, EarlySteps, Swapped, Weighs
  <2>3. QED
    BY <2>1, <2>2 DEF RunMoves
<1>5. pc'[r] = "send" => owner.native >= Reserve + PendingSends + Rest(r)'
  BY <1>4, PaysReserve DEF RunMoves
<1>6. \A s \in Runs : pc'[s] = "send" => owner.native >= Reserve + PendingSends + Rest(s)'
  BY <1>3, <1>5
<1>7. owner.native >= Reserve + PendingSends
  BY DEF ReserveInv
<1>8. QED
  BY <1>1, <1>2, <1>6, <1>7 DEF ReserveInv

LEMMA SubmitReserve ==
    ASSUME TypeOK, TypeOK', Exclusive, ReserveInv, NEW r \in Runs, SubmitTx(r)
    PROVE  ReserveInv'
<1>1. /\ pc[r] \in TxSteps /\ receipt[r] = "none" /\ receipt'[r] = "pending"
      /\ TxOf(r) \in Tx /\ TxOf(r).kind = pc[r]
      /\ mempool' = Append(mempool, TxOf(r))
      /\ owner' = owner /\ pc' = pc /\ job' = job
  BY SubmitSays
<1>2. /\ PendingSends' = PendingSends + SendWei[TxOf(r)]
      /\ PendingSends \in Nat /\ PendingSends' \in Nat
  BY <1>1, PendingIs, PendingNext, QueueType, SendWeiType, QueueSumAppend
<1>3. \A s \in Runs \ {r} : pc'[s] # "send"
  BY <1>1 DEF Exclusive, TxSteps
<1>4. owner.native \in Nat /\ Reserve \in Nat
  BY ChainFields, ReserveAssumption DEF TypeOK
<1>5. CASE pc[r] # "send"
  <2>1. SendWei[TxOf(r)] = 0
    BY <1>1, <1>5 DEF SendWei
  <2>2. QED
    BY <1>1, <1>2, <1>3, <1>4, <1>5, <2>1 DEF ReserveInv
<1>6. CASE pc[r] = "send"
  <2> DEFINE p == job[r].plan
             l == job[r].leg
  <2>1. SendWei[TxOf(r)] = p[l]
    BY <1>1, <1>6 DEF SendWei, TxOf
  <2>2. l \in Legs /\ p \in [Legs -> Nat] /\ Rest(r) \in Nat
    BY <1>6, RestNat DEF TypeOK
  <2>3. Unsent(r) \in SUBSET Legs /\ IsFiniteSet(Unsent(r)) /\ l \in Unsent(r)
    BY <1>1, <2>2, LegsFinite, FS_Subset DEF Unsent
  <2>4. Unsent(r)' = Unsent(r) \ {l}
    BY <1>1, <2>2, NLegsAssumption DEF Unsent, Legs
  <2>5. Rest(r)' = SumOver(p, Unsent(r) \ {l}) /\ Rest(r) = SumOver(p, Unsent(r))
    BY <1>1, <2>4 DEF Rest
  <2>6. \A j \in Unsent(r) : p[j] \in Nat
    BY <2>2, <2>3
  <2>7. p[l] \in Nat
    BY <2>2
  <2> HIDE DEF p, l
  <2>8. Rest(r)' \in Nat /\ Rest(r) = Rest(r)' + p[l]
    BY <2>3, <2>5, <2>6, SumSplit
  <2>9. owner.native >= Reserve + PendingSends + Rest(r)
    BY <1>6 DEF ReserveInv
  <2>10. /\ owner.native >= Reserve + PendingSends' + Rest(r)'
         /\ owner.native >= Reserve + PendingSends'
    BY <1>2, <1>4, <2>1, <2>2, <2>7, <2>8, <2>9
  <2>11. QED
    BY <1>1, <1>3, <2>10 DEF ReserveInv
<1>7. QED
  BY <1>5, <1>6

LEMMA BlockReserve ==
    ASSUME QueueInv, TypeOK', ReserveInv, MineTx \/ RevertTx
    PROVE  ReserveInv'
<1> DEFINE tx == Head(mempool)
<1>1. TypeOK
  BY DEF QueueInv, RunsInv
<1>2. /\ mempool # <<>> /\ mempool' = Tail(mempool) /\ pc' = pc /\ job' = job
      /\ \A r \in Runs : r # tx.by => receipt'[r] = receipt[r]
      /\ \A r \in Runs : r = tx.by => receipt'[r] \in {"success", "reverted"}
  BY <1>1, BlockSays
<1>3. tx \in Tx /\ \A r \in Runs : tx.by = r => receipt[r] = "pending"
  BY <1>2, HeadOwned
<1>4. /\ PendingSends = PendingSends' + SendWei[tx]
      /\ PendingSends \in Nat /\ PendingSends' \in Nat
  BY <1>1, <1>2, PendingIs, PendingNext, QueueType, SendWeiType, QueueSumTail
<1>5. \A r \in Runs : Rest(r)' = Rest(r) /\ Rest(r) \in Nat
  <2> SUFFICES ASSUME NEW r \in Runs PROVE Rest(r)' = Rest(r) /\ Rest(r) \in Nat
    OBVIOUS
  <2>1. receipt'[r] = "none" <=> receipt[r] = "none"
    BY <1>2, <1>3
  <2>2. QED
    BY <1>1, <1>2, <2>1, RestNat DEF Rest, Unsent
<1>6. /\ owner.native \in Nat /\ owner'.native \in Nat /\ Reserve \in Nat
      /\ owner \in [usdc : Nat, wrapped : Nat, native : Nat, allowance : Nat]
  BY <1>1, ChainFields, ReserveAssumption DEF TypeOK, ChainTypeOK
<1>7. SendWei[tx] = (IF tx.kind = "send" THEN tx.wei ELSE 0) /\ tx.wei \in Nat
  BY <1>3 DEF SendWei, Tx
<1>8. owner'.native + SendWei[tx] >= owner.native
  <2>1. CASE RevertTx /\ ~MineTx
    <3>1. owner' = owner
      BY <2>1 DEF RevertTx, Revert
    <3>2. QED
      BY <1>6, <1>7, <3>1
  <2>2. CASE MineTx
    <3>1. Succeeds(tx)
      BY <2>2 DEF MineTx, Mine
    <3> HIDE DEF tx
    <3>2. CASE tx.kind = "send"
      BY <1>6, <1>7, <3>1, <3>2, SucceedsAs DEF SendNative
    <3>3. CASE tx.kind = "unwrap"
      <4>1. Unwrap(tx)
        BY <3>1, <3>3, SucceedsAs
      <4>2. owner' = [owner EXCEPT !.wrapped = @ - tx.wei, !.native = @ + tx.wei]
        BY <4>1 DEF Unwrap
      <4>3. owner'.native = owner.native + tx.wei
        BY <1>6, <4>2
      <4>4. QED
        BY <1>6, <1>7, <3>3, <4>3
    <3>4. CASE tx.kind \in {"withdraw", "approve", "record"}
      BY <1>6, <1>7, <3>1, <3>4, SucceedsAs DEF WithdrawUsdc, Approve, RecordGasPurchase
    <3>5. CASE tx.kind = "swap"
      <4>1. PICK rate \in Rates : ExactInputSingle(tx, rate)
        BY <3>1, <3>5, SucceedsAs
      <4>2. owner'.native = owner.native
        BY <1>6, <4>1 DEF ExactInputSingle
      <4>3. QED
        BY <1>6, <1>7, <4>2
    <3>6. tx.kind \in Kinds
      BY <1>3 DEF Tx
    <3>7. QED
      BY <3>2, <3>3, <3>4, <3>5, <3>6 DEF Kinds
  <2>3. QED
    BY <2>1, <2>2
<1> HIDE DEF tx
<1>9. owner.native >= Reserve + PendingSends
  BY DEF ReserveInv
<1>10. owner'.native >= Reserve + PendingSends'
  BY <1>4, <1>6, <1>7, <1>8, <1>9
<1>11. ASSUME NEW r \in Runs, pc'[r] = "send"
       PROVE  owner'.native >= Reserve + PendingSends' + Rest(r)'
  <2>1. owner.native >= Reserve + PendingSends + Rest(r) /\ Rest(r) \in Nat /\ Rest(r)' = Rest(r)
    BY <1>2, <1>5, <1>11 DEF ReserveInv
  <2>2. QED
    BY <1>4, <1>6, <1>7, <1>8, <2>1
<1>12. QED
  BY <1>10, <1>11 DEF ReserveInv

\* Transactions that nobody waits for any more are still paid for.
LEMMA GoneReserve ==
    ASSUME TypeOK, TypeOK', ReserveInv, NEW R \in SUBSET Runs, Disown(R),
           owner' = owner,
           \A s \in Runs \ R : pc'[s] = pc[s] /\ job'[s] = job[s],
           \A s \in R : pc'[s] = "idle"
    PROVE  ReserveInv'
<1>1. /\ DOMAIN mempool' = DOMAIN mempool
      /\ \A n \in DOMAIN mempool :
            mempool'[n].kind = mempool[n].kind /\ mempool'[n].wei = mempool[n].wei
      /\ \A r \in Runs : receipt'[r] = IF r \in R THEN "none" ELSE receipt[r]
  BY DisownSays, Zenon
<1>2. [n \in DOMAIN mempool' |-> IF mempool'[n].kind = "send" THEN mempool'[n].wei ELSE 0]
        = [n \in DOMAIN mempool |-> IF mempool[n].kind = "send" THEN mempool[n].wei ELSE 0]
  BY <1>1
<1>3. PendingSends' = PendingSends
  BY <1>1, <1>2 DEF PendingSends
<1>4. ASSUME NEW s \in Runs, pc'[s] = "send"
      PROVE  pc[s] = "send" /\ Rest(s)' = Rest(s)
  BY <1>1, <1>4 DEF Rest, Unsent
<1>5. QED
  BY <1>3, <1>4 DEF ReserveInv

LEMMA ReserveStep ==
    QueueInv /\ QueueInv' /\ FifoInv /\ OneEntry /\ ReserveInv /\ [Next]_vars => ReserveInv'
<1> SUFFICES ASSUME QueueInv, QueueInv', FifoInv, OneEntry, ReserveInv, [Next]_vars
             PROVE  ReserveInv'
  OBVIOUS
<1>1. /\ TypeOK /\ EarlyAutos /\ WaitInv /\ TypeOK'
      /\ Exclusive /\ \A r \in Runs : Fifo(r)
  BY OneEntryExclusive DEF QueueInv, RunsInv, FifoInv
<1>2. ASSUME NEW r \in Runs, LoseReceipt(r) PROVE ReserveInv'
  <2>1. /\ Disown({r}) /\ owner' = owner /\ pc'[r] = "idle"
        /\ \A s \in Runs \ {r} : pc'[s] = pc[s] /\ job'[s] = job[s]
    BY <1>1, <1>2, ForgetMoves DEF LoseReceipt
  <2>2. QED
    BY <1>1, <2>1, GoneReserve
<1>3. CASE Crash
  BY <1>1, <1>3, GoneReserve DEF Crash
<1>4. CASE Outside
  <2>1. UNCHANGED <<owner, mempool, receipt, pc, job>>
    BY <1>4 DEF Outside
  <2>2. PendingSends' = PendingSends /\ \A r \in Runs : Rest(r)' = Rest(r)
    BY <2>1 DEF PendingSends, Rest, Unsent
  <2>3. QED
    BY <2>1, <2>2 DEF ReserveInv
<1>5. QED
  BY <1>1, <1>2, <1>3, <1>4, NextSteps, RunReserve, SubmitReserve, BlockReserve

\* Where refills start one way only, the owner's reserve is never given away: an
\* owner that starts with the reserve can pay every send it has submitted, those
\* of failed and restarted runs included, and keep it.
THEOREM ReserveIsKept ==
    Spec => [](OneEntry /\ InitOwner.native >= Reserve => ReserveKept)
<1> DEFINE Kept == OneEntry /\ InitOwner.native >= Reserve => ReserveInv
<1>1. Init => Kept
  BY ReserveInit
<1>2. QueueInv /\ QueueInv' /\ FifoInv /\ Kept /\ [Next]_vars => Kept'
  BY ReserveStep DEF OneEntry
<1>3. QueueInv /\ Kept => (OneEntry /\ InitOwner.native >= Reserve => ReserveKept)
  <2> SUFFICES ASSUME TypeOK, ReserveInv PROVE ReserveKept
    BY DEF QueueInv, RunsInv
  <2>1. owner.native \in Nat /\ PendingSends \in Nat /\ Reserve \in Nat
    BY ChainFields, ReserveAssumption, PendingIs DEF TypeOK
  <2>2. QED
    BY <2>1 DEF ReserveInv, ReserveKept
<1>4. QED
  BY <1>1, <1>2, <1>3, FifoHolds, PTL DEF Spec

-----------------------------------------------------------------------------
(* The books *)

\* Between the recording and the unwrapping.
Booked(r) ==
    \/ pc[r] = "record" /\ receipt[r] = "success"
    \/ pc[r] = "unwrap" /\ receipt[r] \in {"none", "pending"}

\* The swap of run r is all that the books miss, and all that is wrapped.
Missing(r) ==
    /\ pool.usdc = books.usdc + job[r].usdc
    /\ pool.wei = books.wei + owner.wrapped
    /\ owner.wrapped > 0

\* What holds of run r, at each of its steps, when there was no fault.
RunBooks(r) ==
    /\ pc[r] \in {"withdraw", "approve", "swap"} => job[r].usdc > 0
    /\ Bought(r) => Missing(r)
    /\ Booked(r) => books = pool
    /\ pc[r] \in {"record", "unwrap"} => receipt[r] # "reverted"
    /\ pc[r] = "record" \/ Booked(r) => job[r].wBal = owner.wrapped

Closed == books = pool /\ owner.wrapped = 0

BooksInv ==
    faults = 0 =>
        /\ \A r \in Runs : RunBooks(r)
        /\ Closed \/ \E r \in Runs : Bought(r) \/ Booked(r)

LEMMA BooksInit ==
    ASSUME Init, InitOwner.wrapped = 0
    PROVE  BooksInv
<1>1. /\ books = pool /\ owner = InitOwner
      /\ \A r \in Runs : pc[r] = "idle"
  BY DEF Init
<1>2. QED
  BY <1>1 DEF BooksInv, RunBooks, Bought, Booked, Closed

\* A run that is idle has nothing to answer for.
LEMMA IdleBooks ==
    ASSUME NEW r \in Runs, pc[r] = "idle"
    PROVE  RunBooks(r) /\ ~Bought(r) /\ ~Booked(r)
BY DEF RunBooks, Bought, Booked

LEMMA RunBooksStep ==
    ASSUME TypeOK, WaitInv, BooksInv, NEW r \in Runs, RunMoves(r), faults' = 0
    PROVE  BooksInv'
<1>1. /\ \A s \in Runs \ {r} : pc'[s] = pc[s] /\ job'[s] = job[s] /\ receipt'[s] = receipt[s]
      /\ receipt[r] # "pending" /\ receipt'[r] = "none"
      /\ UNCHANGED <<owner, books, pool>>
      /\ faults' >= faults
  BY DEF RunMoves, Alone
<1>2. faults = 0 /\ faults' = faults
  BY <1>1, FaultsGrow
<1>3. /\ \A s \in Runs : RunBooks(s)
      /\ Closed \/ \E s \in Runs : Bought(s) \/ Booked(s)
  BY <1>2 DEF BooksInv
<1>4. ASSUME NEW s \in Runs \ {r}
      PROVE  RunBooks(s)' /\ (Bought(s)' <=> Bought(s)) /\ (Booked(s)' <=> Booked(s))
  <2>1. pc'[s] = pc[s] /\ job'[s] = job[s] /\ receipt'[s] = receipt[s]
    BY <1>1
  <2>2. (Bought(s)' <=> Bought(s)) /\ (Booked(s)' <=> Booked(s))
    BY <2>1 DEF Bought, Booked
  <2>3. Missing(s)' <=> Missing(s)
    BY <1>1, <2>1 DEF Missing
  <2>4. RunBooks(s)
    BY <1>3
  <2>5. QED
    BY <1>1, <2>1, <2>2, <2>3, <2>4 DEF RunBooks
<1>5. /\ job[r] \in Job /\ RunBooks(r) /\ owner.wrapped \in Nat
      /\ receipt[r] \in {"none", "success", "reverted"}
      /\ (receipt[r] # "none" => pc[r] \in TxSteps)
  BY <1>1, <1>3, ChainFields DEF TypeOK, ChainTypeOK, Receipts, WaitInv
<1>6. RunBooks(r)' /\ (Bought(r) \/ Booked(r) => Bought(r)' \/ Booked(r)')
  <2>1. CASE Leaves(r)
    <3>1. /\ pc'[r] = "idle"
          /\ \/ pc[r] \in EarlySteps \cup {"snapshot", "size", "split", "send"}
             \/ pc[r] = "swap" /\ receipt[r] = "reverted"
             \/ pc[r] = "wrapped balance" /\ owner.wrapped = 0
      BY <1>2, <2>1 DEF Leaves
    <3>2. ASSUME pc[r] = "wrapped balance" PROVE owner.wrapped # 0
      <4>1. owner.wrapped > 0
        BY <1>5, <3>2 DEF RunBooks, Bought, Missing
      <4>2. QED
        BY <4>1
    <3>3. ~Bought(r) /\ ~Booked(r)
      <4>1. pc[r] # "wrapped balance"
        BY <3>1, <3>2 DEF EarlySteps
      <4>2. pc[r] \notin {"record", "unwrap"} /\ (pc[r] = "swap" => receipt[r] = "reverted")
        BY <3>1 DEF EarlySteps
      <4>3. QED
        BY <4>1, <4>2 DEF Bought, Booked
    <3>4. QED
      BY <3>1, <3>3 DEF RunBooks, Bought, Booked
  <2>2. CASE Prepares(r) \/ Measures(r)
    BY <1>1, <2>2 DEF Prepares, Measures, EarlySteps, RunBooks, Bought, Booked
  <2>3. CASE Sizes(r)
    <3>1. job'[r].usdc > 0
      BY <1>5, <2>3 DEF Sizes, Job
    <3>2. QED
      BY <1>1, <2>3, <3>1 DEF Sizes, RunBooks, Bought, Booked
  <2>4. CASE Advances(r) /\ pc[r] \in {"withdraw", "approve", "unwrap"}
    <3>1. pc'[r] \in {"approve", "swap", "split"} /\ job'[r] = job[r]
          /\ (pc'[r] \in {"approve", "swap"} => pc[r] \in {"withdraw", "approve"})
          /\ receipt[r] # "none"
      BY <2>4 DEF Advances, After
    <3>2. ~Bought(r) /\ ~Booked(r)
      BY <1>5, <2>4, <3>1 DEF Bought, Booked
    <3>3. QED
      BY <1>1, <1>5, <3>1, <3>2 DEF RunBooks, Bought, Booked
  <2>5. CASE Advances(r) /\ pc[r] = "record"
    <3>1. pc'[r] = "unwrap" /\ job'[r] = job[r] /\ receipt[r] = "success"
      BY <1>5, <2>5 DEF Advances, After, RunBooks
    <3>2. Booked(r) /\ Booked(r)' /\ ~Bought(r)'
      BY <1>1, <2>5, <3>1 DEF Booked, Bought
    <3>3. QED
      BY <1>1, <1>5, <3>1, <3>2 DEF RunBooks
  <2>6. CASE Swapped(r)
    <3>1. Bought(r) /\ Bought(r)' /\ ~Booked(r)' /\ pc'[r] = "wrapped balance" /\ job'[r] = job[r]
      BY <2>6 DEF Swapped, Bought, Booked
    <3>2. Missing(r)'
      BY <1>1, <1>5, <3>1 DEF RunBooks, Missing
    <3>3. QED
      BY <3>1, <3>2 DEF RunBooks
  <2>7. CASE Weighs(r)
    <3>1. /\ pc[r] = "wrapped balance" /\ pc'[r] = "record"
          /\ job'[r].wBal = owner.wrapped /\ job'[r].usdc = job[r].usdc
      BY <1>5, <2>7 DEF Weighs, Job
    <3>2. Bought(r) /\ Bought(r)' /\ ~Booked(r)'
      BY <1>1, <3>1 DEF Bought, Booked
    <3>3. Missing(r)'
      BY <1>1, <1>5, <3>1, <3>2 DEF RunBooks, Missing
    <3>4. QED
      BY <1>1, <3>1, <3>2, <3>3 DEF RunBooks
  <2>8. CASE Pays(r)
    BY <1>1, <2>8 DEF Pays, PaysAfter, RunBooks, Bought, Booked
  <2>9. Advances(r) => pc[r] \in {"withdraw", "approve", "unwrap", "record"}
    BY DEF Advances, After
  <2>10. QED
    BY <2>1, <2>2, <2>3, <2>4, <2>5, <2>6, <2>7, <2>8, <2>9 DEF RunMoves
<1>7. Closed' <=> Closed
  BY <1>1 DEF Closed
<1>8. QED
  BY <1>3, <1>4, <1>6, <1>7 DEF BooksInv

LEMMA SubmitBooks ==
    ASSUME TypeOK, BooksInv, NEW r \in Runs, SubmitTx(r), faults' = 0
    PROVE  BooksInv'
<1>1. /\ receipt[r] = "none" /\ receipt'[r] = "pending" /\ pc[r] \in TxSteps
      /\ \A s \in Runs \ {r} : receipt'[s] = receipt[s]
      /\ UNCHANGED <<owner, books, pool, pc, job, faults>>
  BY SubmitSays
<1>2. \A s \in Runs : (Bought(s)' <=> Bought(s)) /\ (Booked(s)' <=> Booked(s))
  BY <1>1 DEF Bought, Booked
<1>3. \A s \in Runs : (Missing(s)' <=> Missing(s)) /\ (receipt'[s] # "reverted" <=> receipt[s] # "reverted")
  BY <1>1 DEF Missing
<1>4. \A s \in Runs : RunBooks(s) => RunBooks(s)'
  BY <1>1, <1>2, <1>3 DEF RunBooks
<1>5. Closed' <=> Closed
  BY <1>1 DEF Closed
<1>6. QED
  BY <1>1, <1>2, <1>4, <1>5 DEF BooksInv

\* A block executes the transaction of the one run there is.
LEMMA BlockBooks ==
    ASSUME QueueInv, Exclusive, NoOrphans, BooksInv, MineTx \/ RevertTx, faults' = 0
    PROVE  BooksInv'
<1>1. TypeOK
  BY DEF QueueInv, RunsInv
<1>2. mempool # <<>> /\ UNCHANGED <<pc, job>> /\ faults = 0
  BY <1>1, BlockSays, FaultsGrow
<1>3. Head(mempool) \in Tx /\ Head(mempool).by # NoRun
  <2>1. Head(mempool) = mempool[1] /\ 1 \in DOMAIN mempool /\ Head(mempool) \in Tx
    BY <1>1, <1>2, QueueType, QueueTail
  <2>2. QED
    BY <1>2, <2>1 DEF NoOrphans
<1>4. PICK r \in Runs : Head(mempool).by = r
  BY <1>3 DEF Tx
<1>5. PICK tx \in Tx : tx = Head(mempool)
  BY <1>3
<1>6. tx = TxOf(r) /\ receipt[r] = "pending" /\ pc[r] \in TxSteps /\ tx.kind = pc[r]
  BY <1>2, <1>4, <1>5, HeadOwned
<1>7. ASSUME NEW s \in Runs \ {r}
      PROVE  RunBooks(s)' /\ ~Bought(s) /\ ~Booked(s) /\ ~Bought(s)' /\ ~Booked(s)'
  <2>1. pc[s] = "idle" /\ pc'[s] = "idle"
    BY <1>2, <1>6 DEF Exclusive, TxSteps
  <2>2. QED
    BY <2>1 DEF RunBooks, Bought, Booked
<1>8. RunBooks(r) /\ (Closed \/ Bought(r) \/ Booked(r))
  BY <1>2, <1>7 DEF BooksInv
<1>9. /\ owner \in [usdc : Nat, wrapped : Nat, native : Nat, allowance : Nat]
      /\ books \in [usdc : Nat, wei : Nat] /\ pool \in [usdc : Nat, wei : Nat]
      /\ job[r].usdc \in Nat /\ job[r].wBal \in Nat
  BY <1>1 DEF TypeOK, ChainTypeOK, Job
<1>10. receipt'[r] = (IF MineTx THEN "success" ELSE "reverted")
  BY <1>1, <1>4, BlockSays
<1>11. CASE RevertTx /\ ~MineTx
  <2>1. MustRevert(tx) /\ UNCHANGED <<owner, books, pool>>
    BY <1>2, <1>5, <1>11, FaultsGrow, <1>1 DEF RevertTx, Revert
  <2>2. pc[r] \notin {"record"}
    BY <1>6, <2>1 DEF MustRevert
  <2>3. pc[r] # "unwrap"
    <3>1. pc[r] = "unwrap" => Booked(r) /\ tx.wei = job[r].wBal
      BY <1>6 DEF Booked, TxOf
    <3>2. pc[r] = "unwrap" => owner.wrapped < tx.wei
      BY <1>6, <2>1 DEF MustRevert
    <3>3. QED
      BY <1>8, <1>9, <3>1, <3>2 DEF RunBooks
  <2>4. ~Bought(r) /\ ~Booked(r) /\ ~Bought(r)' /\ ~Booked(r)'
    BY <1>2, <1>6, <1>10, <1>11, <2>2, <2>3 DEF Bought, Booked, TxSteps
  <2>5. RunBooks(r)'
    BY <1>2, <1>8, <2>1, <2>2, <2>3, <2>4 DEF RunBooks
  <2>6. Closed'
    BY <1>8, <2>1, <2>4 DEF Closed
  <2>7. QED
    BY <1>7, <2>5, <2>6 DEF BooksInv
<1>12. CASE MineTx
  <2>1. Succeeds(tx) /\ receipt'[r] = "success"
    BY <1>5, <1>10, <1>12 DEF MineTx, Mine
  <2>2. CASE pc[r] \in {"withdraw", "approve", "send"}
    <3>1. books' = books /\ pool' = pool /\ owner'.wrapped = owner.wrapped
      <4>1. CASE pc[r] = "withdraw"
        BY <1>6, <1>9, <2>1, <4>1, SucceedsAs DEF WithdrawUsdc
      <4>2. CASE pc[r] = "approve"
        BY <1>6, <1>9, <2>1, <4>2, SucceedsAs DEF Approve
      <4>3. CASE pc[r] = "send"
        <5>1. SendNative(tx)
          BY <1>6, <2>1, <4>3, SucceedsAs
        <5>2. owner' = [owner EXCEPT !.native = @ - tx.wei] /\ books' = books /\ pool' = pool
          BY <5>1 DEF SendNative
        <5>3. QED
          BY <1>9, <5>2
      <4>4. QED
        BY <2>2, <4>1, <4>2, <4>3
    <3>2. ~Bought(r) /\ ~Booked(r) /\ ~Bought(r)' /\ ~Booked(r)'
      BY <1>2, <2>2 DEF Bought, Booked
    <3>3. RunBooks(r)'
      BY <1>2, <1>8, <2>1, <2>2, <3>2 DEF RunBooks
    <3>4. Closed'
      BY <1>8, <3>1, <3>2 DEF Closed
    <3>5. QED
      BY <1>7, <3>3, <3>4 DEF BooksInv
  <2>3. CASE pc[r] = "swap"
    <3>1. PICK rate \in Rates : ExactInputSingle(tx, rate)
      BY <1>6, <2>1, <2>3, SucceedsAs
    <3>2. tx.usdc = job[r].usdc /\ job[r].usdc > 0 /\ rate \in Nat \ {0}
      BY <1>6, <1>8, <2>3, RatesAssumption DEF TxOf, RunBooks
    <3>3. ~Bought(r) /\ ~Booked(r) /\ Bought(r)' /\ ~Booked(r)'
      BY <1>2, <1>6, <2>1, <2>3 DEF Bought, Booked
    <3>4. PICK out \in Nat \ {0} : out = tx.usdc * rate
      BY <1>9, <3>2
    <3>5. /\ owner'.wrapped = owner.wrapped + out
          /\ pool'.usdc = pool.usdc + tx.usdc /\ pool'.wei = pool.wei + out
          /\ books' = books
      <4>1. /\ owner' = [owner EXCEPT !.usdc = @ - tx.usdc, !.allowance = @ - tx.usdc,
                                      !.wrapped = @ + out]
            /\ pool' = [usdc |-> pool.usdc + tx.usdc, wei |-> pool.wei + out]
            /\ books' = books
        BY <3>1, <3>4 DEF ExactInputSingle
      <4>2. owner'.wrapped = owner.wrapped + out
        BY <1>9, <4>1
      <4>3. QED
        BY <4>1, <4>2
    <3>6. Closed
      BY <1>8, <3>3
    <3>7. Missing(r)'
      BY <1>2, <1>9, <3>2, <3>4, <3>5, <3>6 DEF Missing, Closed
    <3>8. RunBooks(r)'
      BY <1>2, <1>8, <2>1, <2>3, <3>3, <3>7 DEF RunBooks
    <3>9. QED
      BY <1>7, <3>3, <3>8 DEF BooksInv
  <2>4. CASE pc[r] = "record"
    <3>1. RecordGasPurchase(tx)
      BY <1>6, <2>1, <2>4, SucceedsAs
    <3>2. tx.usdc = job[r].usdc /\ tx.wei = job[r].wBal
      BY <1>6, <2>4 DEF TxOf
    <3>3. Bought(r) /\ Booked(r)' /\ ~Bought(r)'
      BY <1>2, <1>6, <2>1, <2>4 DEF Bought, Booked
    <3>4. Missing(r) /\ job[r].wBal = owner.wrapped
      BY <1>8, <2>4, <3>3 DEF RunBooks
    <3>5. books' = pool' /\ owner' = owner
      <4>1. /\ books' = [usdc |-> books.usdc + tx.usdc, wei |-> books.wei + tx.wei]
            /\ pool' = pool /\ owner' = owner
        BY <3>1 DEF RecordGasPurchase
      <4>2. books'.usdc = pool.usdc /\ books'.wei = pool.wei
        BY <3>2, <3>4, <4>1 DEF Missing
      <4>3. QED
        BY <1>9, <4>1, <4>2
    <3>6. RunBooks(r)'
      BY <1>2, <2>1, <2>4, <3>3, <3>4, <3>5 DEF RunBooks
    <3>7. QED
      BY <1>7, <3>3, <3>6 DEF BooksInv
  <2>5. CASE pc[r] = "unwrap"
    <3>1. Unwrap(tx) /\ tx.wei = job[r].wBal
      BY <1>6, <2>1, <2>5, SucceedsAs DEF TxOf
    <3>2. Booked(r) /\ ~Booked(r)' /\ ~Bought(r)'
      BY <1>2, <1>6, <2>1, <2>5 DEF Bought, Booked
    <3>3. books = pool /\ job[r].wBal = owner.wrapped
      BY <1>8, <3>2 DEF RunBooks
    <3>4. Closed'
      <4>1. /\ owner' = [owner EXCEPT !.wrapped = @ - tx.wei, !.native = @ + tx.wei]
            /\ books' = books /\ pool' = pool
        BY <3>1 DEF Unwrap
      <4>2. owner'.wrapped = owner.wrapped - tx.wei
        BY <1>9, <4>1
      <4>3. QED
        BY <1>9, <3>1, <3>3, <4>1, <4>2 DEF Closed
    <3>5. RunBooks(r)'
      BY <1>2, <2>1, <2>5, <3>2 DEF RunBooks
    <3>6. QED
      BY <1>7, <3>4, <3>5 DEF BooksInv
  <2>6. QED
    BY <1>6, <2>2, <2>3, <2>4, <2>5 DEF TxSteps
<1>13. QED
  BY <1>11, <1>12

LEMMA BooksStep ==
    QueueInv /\ FifoInv /\ OneEntry /\ BooksInv /\ [Next]_vars => BooksInv'
<1> SUFFICES ASSUME QueueInv, FifoInv, OneEntry, BooksInv, [Next]_vars, faults' = 0
             PROVE  BooksInv'
  BY DEF BooksInv
<1>1. /\ TypeOK /\ EarlyAutos /\ WaitInv /\ Exclusive /\ NoOrphans
  BY OneEntryExclusive DEF QueueInv, RunsInv, FifoInv
<1>2. ~Fault
  BY <1>1, FaultsGrow DEF Fault
<1>3. CASE Outside
  <2>1. UNCHANGED <<owner, books, pool, receipt, pc, job, faults>>
    BY <1>3 DEF Outside
  <2>2. \A r \in Runs : RunBooks(r)' <=> RunBooks(r)
    BY <2>1 DEF RunBooks, Bought, Booked, Missing
  <2>3. QED
    BY <2>1, <2>2 DEF BooksInv, Closed, Bought, Booked
<1>4. QED
  BY <1>1, <1>2, <1>3, NextSteps, RunBooksStep, SubmitBooks, BlockBooks
  DEF LoseReceipt, Crash

\* Without faults and with one way into a refill, all that was bought is recorded
\* and unwrapped when no refill is at work: the receipts alone keep the stages of
\* a run apart.  An owner with wrapped native of before would have it recorded as
\* bought.
THEOREM BooksAreClosed ==
    Spec => [](OneEntry /\ InitOwner.wrapped = 0 => BooksClosedAtRest)
<1> DEFINE Kept == OneEntry /\ InitOwner.wrapped = 0 => BooksInv
<1>1. Init => Kept
  BY BooksInit
<1>2. QueueInv /\ FifoInv /\ Kept /\ [Next]_vars => Kept'
  BY BooksStep DEF OneEntry
<1>3. Kept => (OneEntry /\ InitOwner.wrapped = 0 => BooksClosedAtRest)
  <2> SUFFICES ASSUME BooksInv, faults = 0, Refilling = {}
               PROVE  books = pool /\ owner.wrapped = 0
    BY DEF BooksClosedAtRest
  <2>1. \A r \in Runs : pc[r] \in {"idle"} \cup EarlySteps
    BY DEF Refilling
  <2>2. \A r \in Runs : ~Bought(r) /\ ~Booked(r)
    BY <2>1 DEF EarlySteps, Bought, Booked
  <2>3. QED
    BY <2>2 DEF BooksInv, Closed
<1>4. QED
  BY <1>1, <1>2, <1>3, FifoHolds, PTL DEF Spec

-----------------------------------------------------------------------------
(* The target *)

\* What run r may still send to leg i: the deficit it measured, and after the
\* split what is planned and not executed.
Due(r, i) ==
    IF pc[r] \in {"size", "split"} \cup (TxSteps \ {"send"}) \cup {"wrapped balance"}
    THEN job[r].deficit[i]
    ELSE IF pc[r] = "send" /\ (i > job[r].leg \/ (i = job[r].leg /\ receipt[r] \in {"none", "pending"}))
    THEN job[r].plan[i]
    ELSE 0

\* The steps of a run that has read its policy.
Measured == {"snapshot", "size", "wrapped balance", "split"} \cup TxSteps

\* What the run may still send to a leg is needed and fits under the target.
Fits(r) ==
    /\ pc[r] \in Measured => job[r].min \in MinChoices
    /\ \A i \in Legs : Due(r, i) > 0 =>
          bal[i] < job[r].min /\ bal[i] + Due(r, i) <= Target(job[r].min, i)

UnderTarget == \A i \in Legs : \E min \in MinChoices : bal[i] <= Larger(Target(min, i), InitBal[i])

TargetInv == faults = 0 => UnderTarget /\ \A r \in Runs : Fits(r)

LEMMA TargetNat ==
    ASSUME NEW min \in MinChoices, NEW i \in Legs
    PROVE  Target(min, i) \in Nat
BY MinAssumption, TargetAssumption, DivNat DEF Target

\* A run that is idle owes nothing.
LEMMA IdleFits ==
    ASSUME NEW r \in Runs, pc[r] = "idle"
    PROVE  Fits(r)
<1>1. \A i \in Legs : Due(r, i) = 0
  BY DEF Due, TxSteps
<1>2. \A i \in Legs : ~(Due(r, i) > 0)
  BY <1>1
<1>3. QED
  BY <1>2 DEF Fits, Measured, TxSteps

LEMMA TargetInit == Init => TargetInv
<1> SUFFICES ASSUME Init PROVE TargetInv
  OBVIOUS
<1>1. bal = InitBal /\ \A r \in Runs : pc[r] = "idle"
  BY DEF Init
<1>2. \A r \in Runs : Fits(r)
  BY <1>1, IdleFits
<1>3. ASSUME NEW i \in Legs
      PROVE  \E min \in MinChoices : bal[i] <= Larger(Target(min, i), InitBal[i])
  <2>1. BootMin \in MinChoices /\ Target(BootMin, i) \in Nat /\ InitBal[i] \in Nat
    BY MinAssumption, InitAssumption, TargetNat
  <2>2. bal[i] <= Larger(Target(BootMin, i), InitBal[i])
    BY <1>1, <2>1 DEF Larger
  <2>3. QED
    BY <2>1, <2>2
<1>4. QED
  BY <1>2, <1>3 DEF TargetInv, UnderTarget

LEMMA DueNat ==
    ASSUME TypeOK, NEW r \in Runs, NEW i \in Legs
    PROVE  Due(r, i) \in Nat
BY ZenonT(30) DEF TypeOK, Job, Due

\* A run that keeps its policy and may send no more than before still fits.
LEMMA StillFits ==
    ASSUME TypeOK, TypeOK', NEW r \in Runs, Fits(r),
           job'[r].min = job[r].min,
           pc'[r] \in Measured => pc[r] \in Measured,
           \A i \in Legs : bal'[i] <= bal[i] /\ (Due(r, i)' <= Due(r, i) \/ Due(r, i)' = 0)
    PROVE  Fits(r)'
<1>1. ASSUME NEW i \in Legs, Due(r, i)' > 0
      PROVE  bal'[i] < job[r].min /\ bal'[i] + Due(r, i)' <= Target(job[r].min, i)
  <2>1. /\ bal[i] \in Nat /\ bal'[i] \in Nat /\ Due(r, i) \in Nat /\ bal'[i] <= bal[i]
    BY DueNat DEF TypeOK, ChainTypeOK
  <2>2. Due(r, i)' \in Nat
    <3>1. job'[r].deficit[i] \in Nat /\ job'[r].plan[i] \in Nat
      BY DEF TypeOK, Job
    <3>2. QED
      BY <3>1 DEF Due
  <2>3. Due(r, i)' <= Due(r, i) /\ Due(r, i) > 0
    BY <1>1, <2>1, <2>2
  <2>4. bal[i] < job[r].min /\ bal[i] + Due(r, i) <= Target(job[r].min, i)
    BY <2>3 DEF Fits
  <2>5. Target(job[r].min, i) \in Nat /\ job[r].min \in Nat
    <3>1. job[r].min \in Nat /\ TargetBps[i] \in Nat
      BY TargetAssumption DEF TypeOK, Job
    <3>2. QED
      BY <3>1, DivNat DEF Target
  <2>6. QED
    BY <2>1, <2>2, <2>3, <2>4, <2>5
<1>2. \A i \in Legs : Target(job[r].min, i)' = Target(job[r].min, i)
  BY DEF Target
<1>3. QED
  BY <1>1, <1>2 DEF Fits

LEMMA PaysDue ==
    ASSUME TypeOK, NEW r \in Runs, Alone(r), Pays(r)
    PROVE  /\ pc[r] \in Measured /\ job'[r].min = job[r].min
           /\ \A i \in Legs : Due(r, i)' <= Due(r, i) \/ Due(r, i)' = 0
<1>1. job[r] \in Job /\ receipt'[r] = "none"
  BY DEF TypeOK, Alone
<1>2. job[r].leg \in Nat /\ job[r].deficit \in [Legs -> Nat] /\ job[r].plan \in [Legs -> Nat]
  BY <1>1, NLegsAssumption DEF Job
<1>3. CASE pc[r] = "split" /\ PaysAfter(r, Allocate(job[r].deficit, Spendable), 0)
  <2>1. PICK p : p = Allocate(job[r].deficit, Spendable)
    OBVIOUS
  <2>2. p \in [Legs -> Nat] /\ \A i \in Legs : p[i] <= job[r].deficit[i]
    <3>1. Spendable \in Nat
      BY ChainFields, ReserveAssumption DEF TypeOK, Spendable, Larger
    <3>2. QED
      BY <1>2, <2>1, <3>1, AllocateCapped
  <2>3. job'[r].plan = p /\ job'[r].min = job[r].min /\ pc'[r] = "send"
    BY <1>1, <1>3, <2>1 DEF PaysAfter, Job
  <2>4. \A i \in Legs : Due(r, i) = job[r].deficit[i]
    BY <1>3 DEF Due
  <2>5. \A i \in Legs : Due(r, i)' \in {p[i], 0}
    BY <2>3 DEF Due, TxSteps
  <2>6. QED
    BY <1>3, <2>2, <2>3, <2>4, <2>5 DEF Measured
<1>4. CASE pc[r] = "send" /\ receipt[r] # "none" /\ PaysAfter(r, job[r].plan, job[r].leg)
  <2>1. /\ job'[r].leg \in job[r].leg + 1..NLegs /\ pc'[r] = "send"
        /\ job'[r].plan = job[r].plan /\ job'[r].min = job[r].min
    BY <1>1, <1>4 DEF PaysAfter, Job
  <2>2. ASSUME NEW i \in Legs PROVE Due(r, i)' = Due(r, i) \/ Due(r, i)' = 0
    <3>1. i >= job'[r].leg => i > job[r].leg
      BY <1>2, <2>1, NLegsAssumption DEF Legs
    <3>2. i > job'[r].leg \/ i = job'[r].leg => i >= job'[r].leg
      BY <1>2, <2>1, NLegsAssumption DEF Legs
    <3>3. i > job[r].leg => Due(r, i) = job[r].plan[i]
      BY <1>4 DEF Due, TxSteps
    <3>4. Due(r, i)' \in {0, job[r].plan[i]}
          /\ (~(i > job'[r].leg \/ i = job'[r].leg) => Due(r, i)' = 0)
      BY <2>1 DEF Due, TxSteps
    <3>5. QED
      BY <3>1, <3>2, <3>3, <3>4
  <2>3. \A i \in Legs : Due(r, i) \in Nat
    BY DueNat
  <2>4. \A i \in Legs : Due(r, i)' <= Due(r, i) \/ Due(r, i)' = 0
    BY <2>2, <2>3
  <2>5. QED
    BY <1>4, <2>1, <2>4 DEF Measured, TxSteps
<1>5. QED
  BY <1>3, <1>4 DEF Pays

LEMMA RunTarget ==
    ASSUME TypeOK, TypeOK', WaitInv, TargetInv, NEW r \in Runs, RunMoves(r), faults' = 0
    PROVE  TargetInv'
<1>1. /\ \A s \in Runs \ {r} : pc'[s] = pc[s] /\ job'[s] = job[s] /\ receipt'[s] = receipt[s]
      /\ receipt[r] # "pending" /\ receipt'[r] = "none"
      /\ bal' = bal /\ faults' >= faults
  BY DEF RunMoves, Alone
<1>2. faults = 0 /\ faults' = faults
  BY <1>1, FaultsGrow
<1>3. UnderTarget /\ \A s \in Runs : Fits(s)
  BY <1>2 DEF TargetInv
<1>4. \A i \in Legs : bal[i] \in Nat /\ bal'[i] <= bal[i]
  <2>1. \A i \in Legs : bal[i] \in Nat
    BY DEF TypeOK, ChainTypeOK
  <2>2. QED
    BY <1>1, <2>1
<1>5. ASSUME NEW s \in Runs \ {r} PROVE Fits(s)'
  <2>1. \A i \in Legs : Due(s, i)' = Due(s, i)
    BY <1>1 DEF Due
  <2>2. QED
    BY <1>1, <1>3, <2>1 DEF Fits, Target
<1>6. job[r] \in Job /\ job[r].deficit \in [Legs -> Nat]
  BY DEF TypeOK, Job
<1>7. Fits(r)'
  <2>1. CASE Leaves(r)
    <3>1. pc'[r] = "idle"
      BY <2>1 DEF Leaves
    <3>2. \A i \in Legs : Due(r, i)' = 0
      BY <3>1 DEF Due, TxSteps
    <3>3. \A i \in Legs : ~(Due(r, i)' > 0)
      BY <3>2
    <3>4. QED
      BY <3>1, <3>3 DEF Fits, Measured, TxSteps
  <2>2. CASE Prepares(r)
    <3>1. pc'[r] \in {"policy", "snapshot"} \cup EarlySteps /\ (pc'[r] = "snapshot" => job'[r].min \in MinChoices)
      BY <1>2, <2>2 DEF Prepares
    <3>2. pc'[r] \in Measured => job'[r].min \in MinChoices
      BY <3>1 DEF Measured, TxSteps, EarlySteps
    <3>3. \A i \in Legs : Due(r, i)' = 0
      BY <3>1 DEF Due, TxSteps, EarlySteps
    <3>4. QED
      BY <3>2, <3>3 DEF Fits
  <2>3. CASE Measures(r)
    <3>1. pc[r] = "snapshot" /\ pc'[r] = "size" /\ job'[r].min = job[r].min
          /\ job'[r].deficit = Deficit(job[r].min)
      BY <1>6, <2>3 DEF Measures, Job
    <3>2. job[r].min \in MinChoices
      BY <1>3, <3>1 DEF Fits, Measured
    <3>3. ASSUME NEW i \in Legs, Due(r, i)' > 0
          PROVE  bal'[i] < job[r].min /\ bal'[i] + Due(r, i)' <= Target(job[r].min, i)
      <4>1. Due(r, i)' = Deficit(job[r].min)[i]
        BY <3>1 DEF Due
      <4>2. Target(job[r].min, i) \in Nat /\ bal[i] \in Nat /\ job[r].min \in Nat
        BY <1>4, <3>2, TargetNat, MinAssumption
      <4>3. /\ Deficit(job[r].min)[i] \in {0, Target(job[r].min, i) - bal[i]}
            /\ bal[i] >= job[r].min => Deficit(job[r].min)[i] = 0
        BY DEF Deficit, Larger
      <4>4. Due(r, i)' = Target(job[r].min, i) - bal[i] /\ ~(bal[i] >= job[r].min)
        BY <3>3, <4>1, <4>3
      <4>5. QED
        BY <1>1, <4>2, <4>4
    <3>4. \A i \in Legs : Target(job[r].min, i)' = Target(job[r].min, i)
      BY <3>1 DEF Target
    <3>5. QED
      BY <3>1, <3>2, <3>3, <3>4 DEF Fits
  <2>4. CASE Sizes(r) \/ Advances(r) \/ Swapped(r) \/ Weighs(r)
    <3>1. job'[r].deficit = job[r].deficit /\ job'[r].min = job[r].min
      BY <1>6, <2>4 DEF Sizes, Advances, Swapped, Weighs, Job
    <3>2. /\ pc[r] \in {"size", "withdraw", "approve", "swap", "wrapped balance", "record", "unwrap"}
          /\ pc'[r] \in {"withdraw", "approve", "swap", "wrapped balance", "record", "unwrap", "split"}
      <4>1. Advances(r) => pc[r] \in {"withdraw", "approve", "record", "unwrap"}
                           /\ pc'[r] \in {"approve", "swap", "unwrap", "split"}
        BY DEF Advances, After
      <4>2. QED
        BY <2>4, <4>1 DEF Sizes, Swapped, Weighs
    <3>3. \A i \in Legs : Due(r, i)' = Due(r, i)
      BY <3>1, <3>2 DEF Due, TxSteps
    <3>4. \A i \in Legs : Due(r, i)' <= Due(r, i)
      BY <3>3, DueNat
    <3>5. pc[r] \in Measured
      BY <3>2 DEF Measured, TxSteps
    <3>6. QED
      BY <1>3, <1>4, <3>1, <3>4, <3>5, StillFits
  <2>5. CASE Pays(r)
    <3>1. Alone(r)
      BY DEF RunMoves
    <3>2. /\ pc[r] \in Measured /\ job'[r].min = job[r].min
          /\ \A i \in Legs : Due(r, i)' <= Due(r, i) \/ Due(r, i)' = 0
      BY <2>5, <3>1, PaysDue
    <3>3. QED
      BY <1>3, <1>4, <3>2, StillFits
  <2>6. QED
    BY <2>1, <2>2, <2>3, <2>4, <2>5 DEF RunMoves
<1>8. UnderTarget'
  BY <1>1, <1>3 DEF UnderTarget
<1>9. QED
  BY <1>5, <1>7, <1>8 DEF TargetInv

LEMMA SubmitTarget ==
    ASSUME TypeOK, TargetInv, NEW r \in Runs, SubmitTx(r), faults' = 0
    PROVE  TargetInv'
<1>1. /\ receipt[r] = "none" /\ receipt'[r] = "pending"
      /\ \A s \in Runs \ {r} : receipt'[s] = receipt[s]
      /\ UNCHANGED <<bal, pc, job, faults>>
  BY SubmitSays
<1>2. \A s \in Runs : receipt'[s] \in {"none", "pending"} <=> receipt[s] \in {"none", "pending"}
  BY <1>1
<1>3. \A s \in Runs, i \in Legs : Due(s, i)' = Due(s, i)
  BY <1>1, <1>2 DEF Due
<1>4. \A s \in Runs : Fits(s)' <=> Fits(s)
  BY <1>1, <1>3 DEF Fits, Target
<1>5. QED
  BY <1>1, <1>4 DEF TargetInv, UnderTarget

\* Only the balance of the leg it pays moves when a send is executed.
LEMMA BlockTarget ==
    ASSUME QueueInv, TypeOK', Exclusive, NoOrphans, TargetInv, MineTx \/ RevertTx, faults' = 0
    PROVE  TargetInv'
<1>1. TypeOK
  BY DEF QueueInv, RunsInv
<1>2. mempool # <<>> /\ UNCHANGED <<pc, job>> /\ faults = 0
  BY <1>1, BlockSays, FaultsGrow
<1>3. Head(mempool) \in Tx /\ Head(mempool).by # NoRun
  <2>1. Head(mempool) = mempool[1] /\ 1 \in DOMAIN mempool /\ Head(mempool) \in Tx
    BY <1>1, <1>2, QueueType, QueueTail
  <2>2. QED
    BY <1>2, <2>1 DEF NoOrphans
<1>4. PICK r \in Runs : Head(mempool).by = r
  BY <1>3 DEF Tx
<1>5. PICK tx \in Tx : tx = Head(mempool)
  BY <1>3
<1>6. tx = TxOf(r) /\ receipt[r] = "pending" /\ pc[r] \in TxSteps /\ tx.kind = pc[r]
  BY <1>2, <1>4, <1>5, HeadOwned
<1>7. ASSUME NEW s \in Runs \ {r} PROVE Fits(s)'
  <2>1. pc'[s] = "idle"
    BY <1>2, <1>6 DEF Exclusive, TxSteps
  <2>2. QED
    BY <2>1 DEF Fits, Due, Measured, TxSteps
<1>8. UnderTarget /\ Fits(r)
  BY <1>2 DEF TargetInv
<1>9. receipt'[r] \in {"success", "reverted"}
  BY <1>1, <1>4, BlockSays
<1>10. \A i \in Legs : Due(r, i)' = Due(r, i) \/ Due(r, i)' = 0
  BY <1>2, <1>6, <1>9 DEF Due
<1>11. \A i \in Legs : bal[i] \in Nat /\ Due(r, i) \in Nat
  BY <1>1, DueNat DEF TypeOK, ChainTypeOK
<1>12. \A i \in Legs : Due(r, i)' <= Due(r, i) \/ Due(r, i)' = 0
  BY <1>10, <1>11
<1>13. CASE bal' = bal
  <2>1. \A i \in Legs : bal'[i] <= bal[i]
    BY <1>11, <1>13
  <2>2. job'[r].min = job[r].min /\ (pc'[r] \in Measured => pc[r] \in Measured)
    BY <1>2
  <2>3. Fits(r)'
    BY <1>1, <1>8, <1>12, <2>1, <2>2, StillFits
  <2>4. QED
    BY <1>7, <1>8, <1>13, <2>3 DEF TargetInv, UnderTarget
<1>14. CASE pc[r] = "send" /\ SendNative(tx)
  <2> DEFINE l == job[r].leg
             p == job[r].plan
  <2>1. l \in Legs /\ p \in [Legs -> Nat] /\ tx.leg = l /\ tx.wei = p[l]
    BY <1>1, <1>6, <1>14 DEF TypeOK, Job, TxOf
  <2>2. bal'[l] = bal[l] + p[l] /\ \A i \in Legs \ {l} : bal'[i] = bal[i]
    BY <1>1, <1>14, <2>1 DEF SendNative, TypeOK, ChainTypeOK
  <2>3. Due(r, l) = p[l]
    BY <1>6, <1>14 DEF Due, TxSteps
  <2>4. job[r].min \in MinChoices
    BY <1>8, <1>14 DEF Fits, Measured, TxSteps
  <2>5. \A i \in Legs : i = l => Due(r, i)' = 0
    <3>1. ~(l > l) /\ job'[r].leg = l /\ pc'[r] = "send"
      BY <1>2, <1>14, <2>1, NLegsAssumption DEF Legs
    <3>2. QED
      BY <1>9, <3>1 DEF Due, TxSteps
  <2>6. \A i \in Legs : Target(job[r].min, i)' = Target(job[r].min, i)
    BY <1>2 DEF Target
  <2>7. ASSUME NEW i \in Legs, Due(r, i)' > 0
        PROVE  bal'[i] < job[r].min /\ bal'[i] + Due(r, i)' <= Target(job[r].min, i)
    <3>1. i # l
      BY <2>5, <2>7
    <3>2. Due(r, i)' = Due(r, i) /\ bal'[i] = bal[i]
      BY <1>10, <2>2, <2>7, <3>1
    <3>3. QED
      BY <1>8, <2>7, <3>2 DEF Fits
  <2>8. Fits(r)'
    BY <1>2, <2>4, <2>6, <2>7 DEF Fits
  <2>9. ASSUME NEW i \in Legs
        PROVE  \E min \in MinChoices : bal'[i] <= Larger(Target(min, i), InitBal[i])
    <3>1. CASE bal'[i] = bal[i]
      BY <1>8, <3>1 DEF UnderTarget
    <3>2. CASE bal'[i] # bal[i]
      <4>1. i = l /\ p[l] \in Nat /\ bal[l] \in Nat
        BY <1>11, <2>1, <2>2, <3>2
      <4>2. p[l] > 0
        BY <2>2, <3>2, <4>1
      <4>3. bal'[i] <= Target(job[r].min, i)
        BY <1>8, <2>1, <2>2, <2>3, <4>1, <4>2 DEF Fits
      <4>4. Target(job[r].min, i) \in Nat /\ InitBal[i] \in Nat /\ bal'[i] \in Nat
        BY <2>2, <2>4, <4>1, TargetNat, InitAssumption
      <4>5. bal'[i] <= Larger(Target(job[r].min, i), InitBal[i])
        BY <4>3, <4>4 DEF Larger
      <4>6. QED
        BY <2>4, <4>5
    <3>3. QED
      BY <3>1, <3>2
  <2>10. QED
    BY <1>7, <2>8, <2>9 DEF TargetInv, UnderTarget
<1>15. bal' = bal \/ (pc[r] = "send" /\ SendNative(tx))
  <2>1. CASE MineTx
    <3>1. Succeeds(tx)
      BY <1>5, <2>1 DEF MineTx, Mine
    <3>2. SendNative(tx) => tx.kind = "send"
      BY DEF SendNative
    <3>3. ~SendNative(tx) => bal' = bal
      BY <3>1 DEF Succeeds, WithdrawUsdc, Approve, ExactInputSingle, RecordGasPurchase, Unwrap
    <3>4. QED
      BY <1>6, <3>2, <3>3
  <2>2. CASE RevertTx
    BY <2>2 DEF RevertTx, Revert
  <2>3. QED
    BY <2>1, <2>2
<1>16. QED
  BY <1>13, <1>14, <1>15

LEMMA TargetStep ==
    QueueInv /\ QueueInv' /\ FifoInv /\ OneEntry /\ TargetInv /\ [Next]_vars => TargetInv'
<1> SUFFICES ASSUME QueueInv, QueueInv', FifoInv, OneEntry, TargetInv, [Next]_vars, faults' = 0
             PROVE  TargetInv'
  BY DEF TargetInv
<1>1. /\ TypeOK /\ EarlyAutos /\ WaitInv /\ TypeOK' /\ Exclusive /\ NoOrphans
  BY OneEntryExclusive DEF QueueInv, RunsInv, FifoInv
<1>2. ~Fault
  BY <1>1, FaultsGrow DEF Fault
<1>3. CASE Outside
  <2>1. UNCHANGED <<receipt, pc, job, faults>> /\ \A i \in Legs : bal'[i] <= bal[i]
    BY <1>3 DEF Outside
  <2>2. UnderTarget /\ \A r \in Runs : Fits(r)
    BY <2>1 DEF TargetInv
  <2>3. ASSUME NEW r \in Runs PROVE Fits(r)'
    <3>1. \A i \in Legs : Due(r, i)' = Due(r, i)
      BY <2>1 DEF Due
    <3>2. \A i \in Legs : Due(r, i)' <= Due(r, i)
      BY <1>1, <3>1, DueNat
    <3>3. QED
      BY <1>1, <2>1, <2>2, <3>2, StillFits
  <2>4. ASSUME NEW i \in Legs
        PROVE  \E min \in MinChoices : bal'[i] <= Larger(Target(min, i), InitBal[i])
    <3>1. PICK min \in MinChoices : bal[i] <= Larger(Target(min, i), InitBal[i])
      BY <2>2 DEF UnderTarget
    <3>2. /\ bal[i] \in Nat /\ bal'[i] \in Nat /\ bal'[i] <= bal[i]
          /\ Larger(Target(min, i), InitBal[i]) \in Nat
      BY <1>1, <2>1, TargetNat, InitAssumption DEF TypeOK, ChainTypeOK, Larger
    <3>3. bal'[i] <= Larger(Target(min, i), InitBal[i])
      BY <3>1, <3>2
    <3>4. QED
      BY <3>3
  <2>5. QED
    BY <2>3, <2>4 DEF TargetInv, UnderTarget
<1>4. QED
  BY <1>1, <1>2, <1>3, NextSteps, RunTarget, SubmitTarget, BlockTarget
  DEF LoseReceipt, Crash

\* Without faults and with one way into a refill, no leg is ever filled above its
\* target, although what is sent was measured long before, the policy may have
\* changed since and user operations have drained the legs meanwhile.
THEOREM NoLegOverfilled == Spec => [](OneEntry => NeverAboveTarget)
<1> DEFINE Kept == OneEntry => TargetInv
<1>1. Init => Kept
  BY TargetInit
<1>2. QueueInv /\ QueueInv' /\ FifoInv /\ Kept /\ [Next]_vars => Kept'
  BY TargetStep DEF OneEntry
<1>3. Kept => (OneEntry => NeverAboveTarget)
  BY DEF TargetInv, UnderTarget, NeverAboveTarget
<1>4. QED
  BY <1>1, <1>2, <1>3, FifoHolds, PTL DEF Spec
-----------------------------------------------------------------------------
(* The cooldown *)

\* Until the service restarts its clock shows the real time, and an automatic run that is
\* about to take USDC from the paymaster has found the cooldown over.
CoolInv ==
    /\ ~restarted => sinceRefill = sinceCompleted
    /\ \A r \in Decided : sinceCompleted = Cooldown \/ restarted \/ r \in overtaken

LEMMA CooldownNextNext == [CooldownNext]_cooldownVars => [Next]_vars
<1>1. CooldownNext => Next
  BY DEF CooldownNext, Work, World, Next, Environment
<1>2. UNCHANGED cooldownVars => UNCHANGED vars
  BY DEF cooldownVars
<1>3. QED
  BY <1>1, <1>2

\* A run sets the clock back when its refill completes, and only then.
LEMMA ClockSet ==
    ASSUME TypeOK, NEW r \in Runs, Work(r)
    PROVE  IF Completes(r) THEN sinceRefill' = 0 /\ Finish(r) ELSE UNCHANGED sinceRefill
<1>1. ASSUME NEW plan, NEW i, SendFrom(r, plan, i), UNCHANGED faults,
             pc[r] = "split" \/ (pc[r] = "send" /\ receipt[r] # "none")
      PROVE  IF Completes(r) THEN sinceRefill' = 0 /\ Finish(r) ELSE UNCHANGED sinceRefill
  <2>1. CASE NextLeg(plan, i) = NLegs + 1
    <3>1. sinceRefill' = 0 /\ Finish(r)
      BY <1>1, <2>1 DEF SendFrom
    <3>2. pc'[r] = "idle"
      BY <3>1, ForgetMoves
    <3>3. QED
      BY <1>1, <3>1, <3>2 DEF Completes
  <2>2. CASE NextLeg(plan, i) # NLegs + 1
    <3>1. Goto(r, "send") /\ UNCHANGED sinceRefill
      BY <1>1, <2>2 DEF SendFrom
    <3>2. pc'[r] = "send"
      BY <3>1, GotoMoves
    <3>3. QED
      BY <3>1, <3>2 DEF Completes
  <2>3. QED
    BY <2>1, <2>2
<1>2. CASE Receive(r)
  <2>1. receipt[r] # "none" /\ UNCHANGED faults
    BY <1>2 DEF Receive
  <2>2. CASE pc[r] = "send" /\ SendFrom(r, job[r].plan, job[r].leg)
    BY <1>1, <2>1, <2>2
  <2>3. CASE pc[r] # "send" \/ ~SendFrom(r, job[r].plan, job[r].leg)
    <3>1. UNCHANGED sinceRefill /\ pc[r] \in {"withdraw", "approve", "swap", "record", "unwrap"}
      BY <1>2, <2>3 DEF Receive, After
    <3>2. QED
      BY <3>1 DEF Completes
  <2>4. QED
    BY <2>2, <2>3
<1>3. CASE Split(r)
  BY <1>1, <1>3 DEF Split
<1>4. CASE Throw(r) \/ LoseReceipt(r)
  <2>1. UNCHANGED sinceRefill /\ Fault
    BY <1>4 DEF Throw, LoseReceipt
  <2>2. QED
    BY <2>1, FaultsGrow DEF Completes
<1>5. CASE Schedule(r) \/ RequestManual(r)
  <2>1. UNCHANGED sinceRefill /\ pc[r] = "idle"
    BY <1>5 DEF Schedule, RequestManual
  <2>2. QED
    BY <2>1 DEF Completes
<1>6. CASE Continue(r) /\ ~Receive(r) /\ ~Split(r)
  <2>1. CASE SettleInFlight(r) \/ PreflightPolicy(r) \/ PreflightBalances(r) \/ ReadPolicy(r)
    <3>1. UNCHANGED sinceRefill /\ pc[r] \notin {"split", "send"}
      BY <2>1 DEF SettleInFlight, PreflightPolicy, PreflightBalances, ReadPolicy
    <3>2. QED
      BY <3>1 DEF Completes
  <2>2. CASE Snapshot(r) \/ Size(r) \/ SizeWithoutMinimum(r) \/ ReadWrapped(r)
    <3>1. UNCHANGED sinceRefill /\ pc[r] \notin {"split", "send"}
      BY <2>2 DEF Snapshot, Size, SizeWithoutMinimum, ReadWrapped
    <3>2. QED
      BY <3>1 DEF Completes
  <2>3. CASE SubmitTx(r) \/ Refused(r)
    <3>1. UNCHANGED sinceRefill /\ pc[r] # "split" /\ receipt[r] = "none"
      BY <2>3 DEF SubmitTx, Refused, TxSteps, runnerVars
    <3>2. QED
      BY <3>1 DEF Completes
  <2>4. QED
    BY <1>6, <2>1, <2>2, <2>3 DEF Continue
<1>7. QED
  BY <1>2, <1>3, <1>4, <1>5, <1>6 DEF Work

\* A run that was not about to withdraw is so only after it has measured.
LEMMA ComesToWithdraw ==
    ASSUME TypeOK, WaitInv, EarlyAutos, [Next]_vars, NEW r \in Runs,
           pc'[r] = "size" \/ (pc'[r] = "withdraw" /\ receipt'[r] = "none")
    PROVE  \/ pc[r] = "size" \/ (pc[r] = "withdraw" /\ receipt[r] = "none")
           \/ Measures(r)
<1>1. pc \in [Runs -> Steps] /\ DOMAIN receipt = Runs
  BY DEF TypeOK, ChainTypeOK
<1>2. ASSUME NEW s \in Runs, RunMoves(s)
      PROVE  \/ pc[r] = "size" \/ (pc[r] = "withdraw" /\ receipt[r] = "none")
             \/ Measures(r)
  <2>1. CASE s # r
    BY <1>2, <2>1 DEF RunMoves, Alone
  <2>2. CASE s = r
    <3>1. CASE Leaves(r) \/ Prepares(r) \/ Swapped(r) \/ Weighs(r) \/ Pays(r)
      <4>1. pc'[r] # "size" /\ pc'[r] # "withdraw"
        <5>1. CASE Leaves(r)
          BY <5>1, Zenon DEF Leaves
        <5>2. CASE Prepares(r)
          <6>1. "size" \notin EarlySteps /\ "withdraw" \notin EarlySteps
            BY Zenon DEF EarlySteps
          <6>2. pc'[r] = "policy" \/ pc'[r] = "snapshot" \/ pc'[r] \in EarlySteps
            BY <5>2, Zenon DEF Prepares
          <6>3. QED
            BY <6>1, <6>2
        <5>3. CASE Swapped(r)
          BY <5>3, Zenon DEF Swapped
        <5>4. CASE Weighs(r)
          BY <5>4, Zenon DEF Weighs
        <5>5. CASE Pays(r)
          BY <5>5 DEF Pays, PaysAfter
        <5>6. QED
          BY <3>1, <5>1, <5>2, <5>3, <5>4, <5>5
      <4>2. QED
        BY <4>1
    <3>2. CASE Advances(r)
      <4>1. pc[r] \in {"withdraw", "approve", "record", "unwrap"} /\ pc'[r] = After[pc[r]]
        BY <3>2 DEF Advances, After
      <4>2. pc'[r] \in {"approve", "swap", "unwrap", "split"}
        BY <4>1 DEF After
      <4>3. QED
        BY <4>2
    <3>3. CASE Sizes(r)
      BY <3>3 DEF Sizes
    <3>4. QED
      BY <1>2, <2>2, <3>1, <3>2, <3>3 DEF RunMoves
  <2>3. QED
    BY <2>1, <2>2
<1>3. ASSUME NEW s \in Runs, SubmitTx(s)
      PROVE  pc[r] = "size" \/ (pc[r] = "withdraw" /\ receipt[r] = "none")
  BY <1>1, <1>3 DEF SubmitTx, Submit, runnerVars
<1>4. ASSUME NEW s \in Runs, LoseReceipt(s)
      PROVE  pc[r] = "size" \/ (pc[r] = "withdraw" /\ receipt[r] = "none")
  <2>1. pc'[s] = "idle" /\ \A q \in Runs \ {s} : pc'[q] = pc[q]
    BY <1>4, ForgetMoves DEF LoseReceipt
  <2>2. \A q \in Runs \ {s} : receipt'[q] = receipt[q]
    BY <1>4 DEF LoseReceipt, Disown
  <2>3. QED
    BY <2>1, <2>2
<1>5. CASE MineTx \/ RevertTx
  <2>1. pc' = pc /\ receipt'[r] \in {receipt[r], "success", "reverted"}
    BY <1>5 DEF MineTx, RevertTx, Mine, Revert, Receipt, runnerVars
  <2>2. QED
    BY <2>1
<1>6. CASE Crash
  BY <1>6 DEF Crash
<1>7. CASE Outside
  BY <1>7 DEF Outside
<1>8. QED
  BY <1>2, <1>3, <1>4, <1>5, <1>6, <1>7, NextSteps

LEMMA ComesToDecide ==
    ASSUME QueueInv, [Next]_vars, NEW q \in Decided'
    PROVE  /\ q \in Autos /\ q \in Runs /\ pc[q] # "idle" /\ pc'[q] # "idle"
           /\ q \in Decided \/ (Measures(q) /\ pc[q] # pc'[q])
<1>1. /\ q \in Autos /\ q \in Runs
      /\ pc'[q] = "size" \/ (pc'[q] = "withdraw" /\ receipt'[q] = "none")
  BY RunsAssumption DEF Decided
<1>2. TypeOK /\ WaitInv /\ EarlyAutos
  BY DEF QueueInv, RunsInv
<1>3. pc[q] = "size" \/ (pc[q] = "withdraw" /\ receipt[q] = "none") \/ Measures(q)
  BY <1>1, <1>2, ComesToWithdraw
<1>4. QED
  BY <1>1, <1>3 DEF Decided, Measures

LEMMA RunCool ==
    ASSUME QueueInv, CoolInv, [Next]_vars, NEW r \in Runs, Work(r), Remember(r)
    PROVE  CoolInv'
<1>1. TypeOK /\ AutosExclusive
  BY DEF QueueInv, RunsInv
<1>2. CASE Completes(r)
  <2>1. /\ sinceRefill' = 0 /\ Finish(r)
        /\ sinceCompleted' = 0 /\ restarted' = FALSE
        /\ overtaken' = (IF r \in Manuals THEN overtaken \cup Decided ELSE overtaken) \ {r}
    BY <1>1, <1>2, ClockSet DEF Remember
  <2>2. pc'[r] = "idle" /\ \A q \in Runs \ {r} : pc'[q] = pc[q]
    BY <1>1, <2>1, ForgetMoves
  <2>3. ASSUME NEW q \in Decided' PROVE q \in overtaken'
    <3>1. q \in Autos /\ q # r /\ pc[q] # "idle" /\ q \in Decided
      BY <2>2, ComesToDecide
    <3>2. pc[r] # "idle"
      BY <1>2 DEF Completes
    <3>3. r \in Manuals
      BY <1>1, <3>1, <3>2, RunKinds DEF AutosExclusive
    <3>4. QED
      BY <2>1, <3>1, <3>3
  <2>4. QED
    BY <2>1, <2>3 DEF CoolInv
<1>3. CASE ~Completes(r)
  <2>1. /\ UNCHANGED <<sinceRefill, sinceCompleted, restarted>>
        /\ overtaken' = IF pc'[r] = "idle" THEN overtaken \ {r} ELSE overtaken
    BY <1>1, <1>3, ClockSet DEF Remember
  <2>2. ASSUME NEW q \in Decided'
        PROVE  sinceCompleted' = Cooldown \/ restarted' \/ q \in overtaken'
    <3>1. CASE q \in Decided
      <4>1. sinceCompleted = Cooldown \/ restarted \/ q \in overtaken
        BY <3>1 DEF CoolInv
      <4>2. q \in overtaken => q \in overtaken'
        BY <2>1, ComesToDecide
      <4>3. QED
        BY <2>1, <4>1, <4>2
    <3>2. CASE Measures(q)
      <4>1. sinceRefill = Cooldown
        BY <3>2, ComesToDecide DEF Measures
      <4>2. QED
        BY <2>1, <4>1 DEF CoolInv
    <3>3. QED
      BY <3>1, <3>2, ComesToDecide
  <2>3. QED
    BY <2>1, <2>2 DEF CoolInv
<1>4. QED
  BY <1>2, <1>3

LEMMA CoolStep ==
    QueueInv /\ CoolInv /\ [CooldownNext]_cooldownVars => CoolInv'
<1> SUFFICES ASSUME QueueInv, CoolInv, [CooldownNext]_cooldownVars PROVE CoolInv'
  OBVIOUS
<1>1. [Next]_vars
  BY CooldownNextNext
<1>2. ASSUME NEW r \in Runs, Work(r), Remember(r) PROVE CoolInv'
  BY <1>1, <1>2, RunCool
<1>3. CASE Crash /\ RememberRestart
  <2>1. restarted' = TRUE
    BY <1>3 DEF RememberRestart
  <2>2. QED
    BY <2>1 DEF CoolInv
<1>4. CASE Tick /\ RememberTick
  <2>1. /\ sinceRefill' = IF sinceRefill < Cooldown THEN sinceRefill + 1 ELSE sinceRefill
        /\ sinceCompleted' = IF sinceCompleted < Cooldown THEN sinceCompleted + 1
                             ELSE sinceCompleted
        /\ UNCHANGED <<restarted, overtaken, pc, receipt>>
    BY <1>4 DEF Tick, RememberTick, chainVars
  <2>2. Decided' = Decided
    BY <2>1 DEF Decided
  <2>3. ~restarted' => sinceRefill' = sinceCompleted'
    BY <2>1 DEF CoolInv
  <2>4. sinceCompleted = Cooldown => sinceCompleted' = Cooldown
    BY <2>1, CooldownAssumption
  <2>5. QED
    BY <2>1, <2>2, <2>3, <2>4 DEF CoolInv
<1>5. CASE (World /\ UNCHANGED historyVars) \/ UNCHANGED cooldownVars
  <2>1. UNCHANGED <<sinceRefill, pc, sinceCompleted, restarted, overtaken>>
    BY <1>5 DEF World, MineTx, RevertTx, Drain, Income, SetPolicy, runnerVars,
                historyVars, cooldownVars, vars
  <2>2. Decided' \subseteq Decided
    BY <1>1, <2>1, ComesToDecide
  <2>3. QED
    BY <2>1, <2>2 DEF CoolInv
<1>6. QED
  BY <1>2, <1>3, <1>4, <1>5 DEF CooldownNext

\* However automatic and manual refills interleave, and whatever fails between them, an
\* automatic one spends USDC inside a cooldown of the last completed refill only when
\* the service has restarted since, or when a manual refill that ran beside it has
\* completed after its look at the clock.
THEOREM RefillsCoolDown == CooldownSpec => AutomaticRefillsCoolDown
<1>1. CooldownInit => Init /\ CoolInv
  BY RunsAssumption DEF CooldownInit, Init, CoolInv, Decided
<1>2. [CooldownNext]_cooldownVars => [Next]_vars
  BY CooldownNextNext
<1>3. QueueInv /\ CoolInv /\ [CooldownNext]_cooldownVars => CoolInv'
  BY CoolStep
<1>4. CoolInv =>
        \A r \in Autos : Withdraws(r) /\ sinceCompleted < Cooldown
                           => restarted \/ r \in overtaken
  BY CooldownAssumption DEF CoolInv, Decided, Withdraws
<1>5. QED
  BY <1>1, <1>2, <1>3, <1>4, QueueInvInit, QueueInvStep, PTL
  DEF CooldownSpec, AutomaticRefillsCoolDown

-----------------------------------------------------------------------------
(***************************************************************************)
(* A refill that nothing disturbs is one purchase.                         *)
(***************************************************************************)

\* A run that sends has something to send.
PlanInv == \A r \in Runs : pc[r] = "send" => job[r].plan[job[r].leg] > 0

LEMMA PlanInit == Init => PlanInv
BY DEF Init, PlanInv

LEMMA PlanStep == QueueInv /\ PlanInv /\ [Next]_vars => PlanInv'
<1> SUFFICES ASSUME QueueInv, PlanInv, [Next]_vars, NEW s \in Runs, pc'[s] = "send"
             PROVE  job'[s].plan[job'[s].leg] > 0
  BY DEF PlanInv
<1>1. TypeOK /\ EarlyAutos /\ WaitInv
  BY DEF QueueInv, RunsInv
<1>2. CASE pc'[s] = pc[s] /\ job'[s] = job[s]
  BY <1>2 DEF PlanInv
<1>3. ASSUME NEW r \in Runs, RunMoves(r) PROVE job'[s].plan[job'[s].leg] > 0
  <2>1. CASE s # r
    BY <1>2, <1>3, <2>1 DEF RunMoves, Alone
  <2>2. CASE s = r
    <3>1. Pays(r)
      <4>1. Advances(r) => pc'[r] # "send"
        BY DEF Advances, After
      <4>2. QED
        BY <1>3, <2>2, <4>1 DEF RunMoves, Leaves, Prepares, Measures, Sizes, EarlySteps, Swapped, Weighs
    <3>2. PICK plan \in [Legs -> Nat], i \in 0..NLegs : PaysAfter(r, plan, i)
      <4>1. job[r] \in Job /\ job[r].deficit \in [Legs -> Nat] /\ 0 \in 0..NLegs
        BY <1>1, NLegsAssumption DEF TypeOK, Job
      <4>2. Spendable \in Nat
        BY <1>1, ChainFields, ReserveAssumption DEF TypeOK, Spendable, Larger
      <4>3. Allocate(job[r].deficit, Spendable) \in [Legs -> Nat]
        BY <4>1, <4>2, AllocateCapped
      <4>4. job[r].plan \in [Legs -> Nat] /\ job[r].leg \in 0..NLegs
        BY <4>1 DEF Job
      <4>5. QED
        BY <3>1, <4>1, <4>3, <4>4 DEF Pays
    <3>3. /\ job'[r].plan = plan /\ job'[r].leg = NextLeg(plan, i)
          /\ NextLeg(plan, i) \in i + 1..NLegs
      BY <1>1, <3>2 DEF PaysAfter, TypeOK, Job
    <3>4. plan[NextLeg(plan, i)] > 0
      BY <3>3, NextLegType, NLegsAssumption
    <3>5. QED
      BY <2>2, <3>3, <3>4
  <2>3. QED
    BY <2>1, <2>2
<1>4. ASSUME NEW r \in Runs, SubmitTx(r) PROVE job'[s].plan[job'[s].leg] > 0
  BY <1>1, <1>2, <1>4, SubmitSays
<1>5. ASSUME NEW r \in Runs, LoseReceipt(r) PROVE job'[s].plan[job'[s].leg] > 0
  BY <1>1, <1>2, <1>5, ForgetMoves DEF LoseReceipt
<1>6. CASE MineTx \/ RevertTx
  BY <1>1, <1>2, <1>6, BlockSays
<1>7. CASE Crash
  BY <1>7 DEF Crash
<1>8. CASE Outside
  BY <1>2, <1>8 DEF Outside
<1>9. QED
  BY <1>1, <1>3, <1>4, <1>5, <1>6, <1>7, <1>8, NextSteps

LEMMA PlanHolds == Spec => []PlanInv
BY PlanInit, PlanStep, QueueInvHolds, PTL DEF Spec

\* A run on its way to the swap has found an account in need.
Buying == {"size", "withdraw", "approve", "swap"}

NeedInv == \A r \in Runs : pc[r] \in Buying => \E i \in Legs : job[r].deficit[i] > 0

LEMMA NeedInit == Init => NeedInv
BY DEF Init, NeedInv, Buying

LEMMA NeedStep == QueueInv /\ NeedInv /\ [Next]_vars => NeedInv'
<1> SUFFICES ASSUME QueueInv, NeedInv, [Next]_vars, NEW s \in Runs, pc'[s] \in Buying
             PROVE  \E i \in Legs : job'[s].deficit[i] > 0
  BY DEF NeedInv
<1>1. TypeOK /\ EarlyAutos /\ WaitInv
  BY DEF QueueInv, RunsInv
<1>2. CASE pc[s] \in Buying /\ job'[s].deficit = job[s].deficit
  BY <1>2 DEF NeedInv
<1>3. CASE pc'[s] = pc[s] /\ job'[s] = job[s]
  BY <1>2, <1>3
<1>4. ASSUME NEW r \in Runs, RunMoves(r) PROVE \E i \in Legs : job'[s].deficit[i] > 0
  <2>1. CASE s # r
    BY <1>3, <1>4, <2>1 DEF RunMoves, Alone
  <2>2. CASE s = r
    <3>1. job[r] \in Job
      BY <1>1 DEF TypeOK
    <3>2. CASE Measures(r)
      <4>1. job'[r].deficit = Deficit(job[r].min)
        BY <3>1, <3>2 DEF Measures, Job
      <4>2. QED
        BY <2>2, <3>2, <4>1 DEF Measures
    <3>3. CASE Sizes(r)
      BY <1>2, <2>2, <3>1, <3>3 DEF Sizes, Buying, Job
    <3>4. CASE Advances(r)
      BY <1>2, <2>2, <3>4 DEF Advances, After, Buying
    <3>5. QED
      BY <1>4, <2>2, <3>2, <3>3, <3>4
      DEF RunMoves, Leaves, Prepares, EarlySteps, Swapped, Weighs, Pays, PaysAfter, Buying
  <2>3. QED
    BY <2>1, <2>2
<1>5. ASSUME NEW r \in Runs, SubmitTx(r) PROVE \E i \in Legs : job'[s].deficit[i] > 0
  BY <1>1, <1>3, <1>5, SubmitSays
<1>6. ASSUME NEW r \in Runs, LoseReceipt(r) PROVE \E i \in Legs : job'[s].deficit[i] > 0
  BY <1>1, <1>3, <1>6, ForgetMoves DEF LoseReceipt, Buying
<1>7. CASE MineTx \/ RevertTx
  BY <1>1, <1>3, <1>7, BlockSays
<1>8. CASE Crash
  BY <1>8 DEF Crash, Buying
<1>9. CASE Outside
  BY <1>3, <1>9 DEF Outside
<1>10. QED
  BY <1>1, <1>4, <1>5, <1>6, <1>7, <1>8, <1>9, NextSteps

LEMMA NeedHolds == Spec => []NeedInv
BY NeedInit, NeedStep, QueueInvHolds, PTL DEF Spec

\* The books with what the last swap returned.
WithSwap(r) == [usdc |-> books.usdc + job[r].usdc, wei |-> books.wei + owner.wrapped]

\* Where only run r is active, the purchase is that run's.
LEMMA OnlyRun ==
    ASSUME TypeOK, NEW r \in Runs, \A s \in Runs \ {r} : pc[s] = "idle"
    PROVE  /\ StillOpen = Open(r)
           /\ Bought(r) => Purchases = WithSwap(r)
           /\ ~Bought(r) => Purchases = books
<1>1. \A s \in Runs \ {r} : Open(s) = {} /\ ~Bought(s)
  BY DEF Open, Bought
<1>2. StillOpen = Open(r)
  BY <1>1 DEF StillOpen
<1>3. books \in [usdc : Nat, wei : Nat] /\ owner.wrapped \in Nat /\ job[r].usdc \in Nat
  BY ChainFields DEF TypeOK, ChainTypeOK, Job
<1>4. ASSUME Bought(r) PROVE Purchases = WithSwap(r)
  <2>1. Buyers = {r} /\ Buyers # {}
    BY <1>1, <1>4 DEF Buyers
  <2>2. SumOver([s \in Runs |-> job[s].usdc], {r}) = job[r].usdc
    <3> DEFINE f == [s \in Runs |-> job[s].usdc]
    <3>1. f[r] = job[r].usdc
      OBVIOUS
    <3>2. IsFiniteSet({}) /\ r \notin {} /\ {} \cup {r} = {r} /\ \A j \in {r} : f[j] \in Nat
      BY <1>3, FS_EmptySet
    <3> HIDE DEF f
    <3>3. SumOver(f, {} \cup {r}) = SumOver(f, {}) + f[r]
      BY <3>2, SumAdd
    <3>4. QED
      BY <1>3, <3>1, <3>2, <3>3, SumEmpty DEF f
  <2>3. QED
    BY <2>1, <2>2 DEF Purchases, WithSwap
<1>5. ASSUME ~Bought(r) PROVE Purchases = books
  <2>1. Buyers = {}
    BY <1>1, <1>5 DEF Buyers
  <2>2. Purchases = [usdc |-> books.usdc + 0, wei |-> books.wei + 0]
    BY <2>1, SumEmpty DEF Purchases
  <2>3. QED
    BY <1>3, <2>2
<1>6. QED
  BY <1>2, <1>4, <1>5

LEMMA OneEntryExclusiveNext == (RunsInv /\ OneEntry => Exclusive)'
BY OneEntryExclusive, PTL

OnlyRuns == TypeOK => \A r \in Runs :
    (\A s \in Runs \ {r} : pc[s] = "idle") =>
        /\ StillOpen = Open(r)
        /\ Bought(r) => Purchases = WithSwap(r)
        /\ ~Bought(r) => Purchases = books

LEMMA OnlyRunsAlways == OnlyRuns
BY OnlyRun DEF OnlyRuns

LEMMA OnlyRunsNext == OnlyRuns'
BY OnlyRunsAlways, PTL

\* The same in the next state.
LEMMA OnlyRunNext ==
    ASSUME TypeOK', NEW r \in Runs, \A s \in Runs \ {r} : pc'[s] = "idle"
    PROVE  /\ StillOpen' = Open(r)'
           /\ Bought(r)' => Purchases' = WithSwap(r)'
           /\ ~Bought(r)' => Purchases' = books'
BY OnlyRunsNext DEF OnlyRuns

LEMMA PurchaseInit ==
    ASSUME Init, OneEntry
    PROVE  Purchase!Init
<1>1. TypeOK
  BY TypeInit
<1>2. /\ pmUsdc \in Nat /\ bal \in [Legs -> Nat]
      /\ owner.usdc \in Nat /\ owner.native \in Nat /\ owner.wrapped \in Nat
      /\ books = [usdc |-> 0, wei |-> 0]
  BY <1>1, ChainFields DEF Init, TypeOK, ChainTypeOK
<1>3. \A r \in Runs : Open(r) = {} /\ ~Bought(r)
  BY DEF Init, Open, Bought
<1>4. StillOpen = {} /\ Buyers = {}
  BY <1>3 DEF StillOpen, Buyers
<1>5. Purchases = [usdc |-> 0, wei |-> 0]
  BY <1>2, <1>4, SumEmpty DEF Purchases
<1>6. ~(faults > 0)
  BY DEF Init
<1>7. QED
  BY <1>2, <1>4, <1>5, <1>6 DEF Purchase!Init, Purchase!Accounts, Legs

\* Nothing moves but the legs a run may still pay.
LEMMA PassesOver ==
    ASSUME UNCHANGED <<pmUsdc, owner, bal, faults>>, StillOpen' \subseteq StillOpen, Purchases' = Purchases
    PROVE  Purchase!Next
BY DEF Purchase!Next, Purchase!PassOver

\* A run's own steps.
LEMMA RunPurchase ==
    ASSUME TypeOK, TypeOK', WaitInv, Exclusive, Exclusive', BooksInv,
           NEW r \in Runs, RunMoves(r), faults' = 0
    PROVE  Purchase!Next
<1>1. /\ \A s \in Runs \ {r} : pc'[s] = pc[s] /\ job'[s] = job[s] /\ receipt'[s] = receipt[s]
      /\ receipt[r] # "pending" /\ receipt'[r] = "none"
      /\ UNCHANGED <<pmUsdc, owner, books, bal>>
      /\ faults' >= faults
  BY DEF RunMoves, Alone
<1>2. faults = 0 /\ faults' = faults
  BY <1>1, FaultsGrow
<1>3. RunBooks(r)
  BY <1>2 DEF BooksInv
<1>4. pc[r] # "idle" \/ pc'[r] # "idle"
  BY DEF RunMoves, Leaves, Prepares, Measures, Sizes, EarlySteps, Advances, After, Swapped,
     Weighs, Pays
<1>5. \A s \in Runs \ {r} : pc[s] = "idle" /\ pc'[s] = "idle"
  BY <1>1, <1>4 DEF Exclusive
<1>6. job[r] \in Job /\ (receipt[r] # "none" => pc[r] \in TxSteps)
  BY DEF TypeOK, WaitInv
<1>7. /\ Open(r)' \subseteq Open(r)
      /\ Bought(r)' <=> Bought(r)
      /\ Bought(r) => job'[r].usdc = job[r].usdc
  <2>1. CASE Leaves(r)
    <3>1. pc'[r] = "idle" /\ (pc[r] = "swap" => receipt[r] = "reverted") /\ pc[r] # "record"
      BY <1>2, <2>1 DEF Leaves, EarlySteps
    <3>2. pc[r] # "wrapped balance"
      <4>1. ASSUME pc[r] = "wrapped balance" PROVE owner.wrapped # 0
        <5>1. owner.wrapped > 0
          BY <1>3, <4>1 DEF RunBooks, Bought, Missing
        <5>2. QED
          BY <5>1
      <4>2. pc[r] = "wrapped balance" => owner.wrapped = 0
        BY <1>2, <2>1 DEF Leaves, EarlySteps
      <4>3. QED
        BY <4>1, <4>2
    <3>3. ~Bought(r) /\ ~Bought(r)' /\ Open(r)' = {}
      BY <3>1, <3>2 DEF Bought, Open
    <3>4. QED
      BY <3>3
  <2>2. CASE Prepares(r) \/ Measures(r) \/ Sizes(r)
    <3>1. /\ pc[r] \in {"idle", "policy", "snapshot", "size"} \cup EarlySteps
          /\ pc'[r] \in {"policy", "snapshot", "size", "withdraw"} \cup EarlySteps
      BY <2>2 DEF Prepares, Measures, Sizes
    <3>2. ~Bought(r) /\ ~Bought(r)' /\ Open(r)' = {}
      BY <3>1 DEF Bought, Open, EarlySteps
    <3>3. QED
      BY <3>2
  <2>3. CASE Advances(r)
    <3>1. /\ receipt[r] \notin {"none", "pending"} /\ receipt'[r] = "none" /\ job'[r] = job[r]
          /\ \/ pc[r] = "withdraw" /\ pc'[r] = "approve"
             \/ pc[r] = "approve" /\ pc'[r] = "swap"
             \/ pc[r] = "record" /\ pc'[r] = "unwrap"
             \/ pc[r] = "unwrap" /\ pc'[r] = "split"
      BY <1>1, <2>3 DEF Advances, After
    <3>2. QED
      BY <3>1 DEF Bought, Open
  <2>4. CASE Swapped(r)
    BY <2>4 DEF Swapped, Bought, Open
  <2>5. CASE Weighs(r)
    <3>1. /\ pc[r] = "wrapped balance" /\ pc'[r] = "record" /\ receipt'[r] = "none"
          /\ job'[r].usdc = job[r].usdc
      BY <1>1, <1>6, <2>5 DEF Weighs, Job
    <3>2. Bought(r) /\ Bought(r)'
      BY <3>1 DEF Bought
    <3>3. Open(r) = Legs
      BY <3>2 DEF Open
    <3>4. QED
      BY <3>1, <3>2, <3>3 DEF Open
  <2>6. CASE Pays(r)
    <3>1. pc[r] \in {"split", "send"} /\ pc'[r] = "send" /\ ~Bought(r) /\ ~Bought(r)'
      BY <2>6 DEF Pays, PaysAfter, Bought
    <3>2. CASE pc[r] = "split"
      <4>1. Open(r) = Legs
        BY <3>2 DEF Open
      <4>2. QED
        BY <3>1, <4>1 DEF Open
    <3>3. CASE pc[r] = "send"
      <4>1. job'[r].leg \in job[r].leg + 1..NLegs /\ job[r].leg \in Nat
        <5>1. PaysAfter(r, job[r].plan, job[r].leg)
          BY <2>6, <3>3 DEF Pays
        <5>2. /\ job'[r].leg = NextLeg(job[r].plan, job[r].leg)
              /\ NextLeg(job[r].plan, job[r].leg) \in job[r].leg + 1..NLegs
          BY <1>6, <5>1 DEF PaysAfter, Job
        <5>3. job[r].leg \in 0..NLegs
          BY <1>6 DEF Job
        <5>4. QED
          BY <5>2, <5>3, NLegsAssumption
      <4>2. \A i \in Legs : i > job'[r].leg \/ i = job'[r].leg => i > job[r].leg
        BY <4>1, NLegsAssumption DEF Legs
      <4>3. \A i \in Open(r)' : i \in Legs /\ (i > job'[r].leg \/ i = job'[r].leg)
        BY <3>1 DEF Open, Bought
      <4>4. \A i \in Legs : i > job[r].leg => i \in Open(r)
        BY <3>3 DEF Open
      <4>5. QED
        BY <3>1, <4>2, <4>3, <4>4
    <3>4. QED
      BY <3>1, <3>2, <3>3
  <2>7. QED
    BY <2>1, <2>2, <2>3, <2>4, <2>5, <2>6 DEF RunMoves
<1>8. StillOpen' \subseteq StillOpen
  BY <1>5, <1>7, OnlyRun, OnlyRunNext
<1>9. Purchases' = Purchases
  <2>1. WithSwap(r)' = WithSwap(r) \/ ~Bought(r)
    BY <1>1, <1>7 DEF WithSwap
  <2>2. QED
    BY <1>1, <1>5, <1>7, <2>1, OnlyRun, OnlyRunNext
<1>10. QED
  BY <1>1, <1>2, <1>8, <1>9, PassesOver

LEMMA SubmitPurchase ==
    ASSUME TypeOK, NEW r \in Runs, SubmitTx(r)
    PROVE  Purchase!Next
<1>1. /\ receipt[r] = "none" /\ receipt'[r] = "pending"
      /\ \A s \in Runs \ {r} : receipt'[s] = receipt[s]
      /\ UNCHANGED <<pmUsdc, owner, books, bal, pc, job, faults>>
  BY SubmitSays
<1>2. \A s \in Runs : (Bought(s)' <=> Bought(s)) /\ Open(s)' = Open(s)
  BY <1>1 DEF Bought, Open
<1>3. Buyers' = Buyers /\ StillOpen' = StillOpen
  BY <1>2 DEF Buyers, StillOpen
<1>4. Purchases' = Purchases
  BY <1>1, <1>3 DEF Purchases
<1>5. QED
  BY <1>1, <1>3, <1>4, PassesOver

LEMMA OutsidePurchase ==
    ASSUME TypeOK, TypeOK', Outside
    PROVE  Purchase!Next
<1>1. /\ UNCHANGED <<owner, books, receipt, pc, job, faults>>
      /\ pmUsdc' >= pmUsdc /\ \A i \in Legs : bal'[i] <= bal[i]
  BY DEF Outside
<1>2. \A s \in Runs : (Bought(s)' <=> Bought(s)) /\ Open(s)' = Open(s)
  BY <1>1 DEF Bought, Open
<1>3. Buyers' = Buyers /\ StillOpen' = StillOpen
  BY <1>2 DEF Buyers, StillOpen
<1>4. Purchases' = Purchases
  BY <1>1, <1>3 DEF Purchases
<1>5. pmUsdc' + owner'.usdc >= pmUsdc + owner.usdc
  <2>1. pmUsdc \in Nat /\ pmUsdc' \in Nat /\ owner.usdc \in Nat
    BY ChainFields DEF TypeOK, ChainTypeOK
  <2>2. owner'.usdc = owner.usdc /\ pmUsdc' >= pmUsdc
    BY <1>1
  <2>3. QED
    BY <2>1, <2>2
<1>6. bal' \in [Legs -> Nat]
  BY DEF TypeOK, ChainTypeOK
<1>7. Purchase!Operate
  BY <1>1, <1>3, <1>4, <1>5, <1>6 DEF Purchase!Operate, Purchase!Accounts, Legs
<1>8. QED
  BY <1>7 DEF Purchase!Next

\* The swap buys.
LEMMA SwapBuys ==
    ASSUME TypeOK, NEW r \in Runs, NEW tx \in Tx, tx.usdc = job[r].usdc, job[r].usdc > 0,
           NEW rate \in Rates, ExactInputSingle(tx, rate), Closed,
           StillOpen = {}, StillOpen' = Legs,
           Purchases = books, Purchases' = WithSwap(r)', UNCHANGED <<job, faults>>,
           NEW l \in Legs, Purchase!Needs(l, 1)
    PROVE  Purchase!Buy
<1>1. /\ owner \in [usdc : Nat, wrapped : Nat, native : Nat, allowance : Nat]
      /\ pmUsdc \in Nat /\ books \in [usdc : Nat, wei : Nat] /\ job[r].usdc \in Nat
  BY DEF TypeOK, ChainTypeOK, Job
<1>2. rate \in Nat
  BY RatesAssumption
<1>3. PICK paid \in Nat : paid = tx.usdc
  BY <1>1
<1>4. PICK out \in Nat : out = paid * rate
  BY <1>2, <1>3
<1>5. /\ owner.usdc >= paid /\ UNCHANGED <<pmUsdc, books, bal>>
      /\ owner' = [owner EXCEPT !.usdc = @ - paid, !.allowance = @ - paid, !.wrapped = @ + out]
  BY <1>3, <1>4 DEF ExactInputSingle
<1>6. owner'.usdc = owner.usdc - paid /\ owner'.wrapped = out /\ owner'.native = owner.native
  <2>1. owner.wrapped = 0
    BY DEF Closed
  <2>2. /\ owner'.usdc = owner.usdc - paid /\ owner'.wrapped = owner.wrapped + out
        /\ owner'.native = owner.native
    BY <1>1, <1>5
  <2>3. QED
    BY <2>1, <2>2
<1>7. paid \in 1..pmUsdc + owner.usdc
  BY <1>1, <1>3, <1>5, ChainFields
<1>8. (pmUsdc + owner.usdc)' = (pmUsdc + owner.usdc) - paid
  BY <1>1, <1>5, <1>6
<1>9. (owner.native + owner.wrapped)' = (owner.native + owner.wrapped) + paid * rate
  BY <1>1, <1>4, <1>6 DEF Closed
<1>10. Purchases' = [usdc |-> Purchases.usdc + paid, wei |-> Purchases.wei + paid * rate]
  BY <1>3, <1>4, <1>5, <1>6 DEF WithSwap
<1>11. \E p \in 1..pmUsdc + owner.usdc, q \in Rates :
          /\ (pmUsdc + owner.usdc)' = (pmUsdc + owner.usdc) - p
          /\ (owner.native + owner.wrapped)' = (owner.native + owner.wrapped) + p * q
          /\ Purchases' = [usdc |-> Purchases.usdc + p, wei |-> Purchases.wei + p * q]
  BY <1>7, <1>8, <1>9, <1>10, Zenon
<1>12. StillOpen' = 1..NLegs
  BY DEF Legs
<1>13. UNCHANGED <<bal, faults > 0>>
  BY <1>5
<1>14. \E i \in 1..NLegs : Purchase!Needs(i, 1)
  BY Zenon DEF Legs
<1>15. QED
  BY <1>11, <1>12, <1>13, <1>14 DEF Purchase!Buy, Purchase!Accounts

\* A send gives.
LEMMA SendGives ==
    ASSUME TypeOK, NEW r \in Runs, NEW l \in Legs, NEW wei \in Nat \ {0},
           NEW tx, tx.leg = l, tx.wei = wei, SendNative(tx),
           Fits(r), job[r].min \in MinChoices, Due(r, l) = wei,
           owner.wrapped = 0, owner'.native >= Reserve,
           l \in StillOpen, StillOpen' = StillOpen \ {l},
           Purchases' = Purchases, faults' = faults
    PROVE  Purchase!Next
<1>1. /\ owner \in [usdc : Nat, wrapped : Nat, native : Nat, allowance : Nat]
      /\ bal \in [Legs -> Nat] /\ Reserve \in Nat
  BY ReserveAssumption DEF TypeOK, ChainTypeOK
<1>2. /\ owner.native >= wei /\ owner' = [owner EXCEPT !.native = @ - wei]
      /\ bal' = [bal EXCEPT ![l] = @ + wei] /\ pmUsdc' = pmUsdc
  BY DEF SendNative
<1>3. owner'.native = owner.native - wei /\ owner'.wrapped = 0 /\ owner'.usdc = owner.usdc
  BY <1>1, <1>2
<1>4. wei \in 1..(owner.native + owner.wrapped) - Reserve
  BY <1>1, <1>3
<1>5. (owner.native + owner.wrapped)' = (owner.native + owner.wrapped) - wei
  BY <1>1, <1>3
<1>6. bal[l] < job[r].min /\ bal[l] + wei <= Target(job[r].min, l)
  BY DEF Fits
<1>7. Purchase!Needs(l, wei)
  BY <1>6 DEF Purchase!Needs, Purchase!Target, Target
<1>8. UNCHANGED <<pmUsdc + owner.usdc, Purchases, faults > 0>>
  BY <1>2, <1>3
<1>9. Purchase!Give(l, wei)
  BY <1>2, <1>5, <1>7, <1>8 DEF Purchase!Give
<1>10. l \in Purchase!Accounts
  BY DEF Purchase!Accounts, Legs
<1>11. \E i \in Purchase!Accounts, w \in 1..(owner.native + owner.wrapped) - Reserve :
          Purchase!Give(i, w)
  BY <1>4, <1>9, <1>10, Zenon
<1>12. QED
  BY <1>11, Zenon DEF Purchase!Next

\* A block executes the transaction of the one run there is.
LEMMA BlockPurchase ==
    ASSUME QueueInv, TypeOK', Exclusive, NoOrphans, ReserveInv', BooksInv, BooksInv', TargetInv,
           PlanInv, NeedInv, MineTx \/ RevertTx, faults' = 0
    PROVE  Purchase!Next
<1>1. TypeOK
  BY DEF QueueInv, RunsInv
<1>2. mempool # <<>> /\ UNCHANGED <<pc, job>> /\ faults = 0 /\ faults' = faults
  BY <1>1, BlockSays, FaultsGrow
<1>3. Head(mempool) \in Tx /\ Head(mempool).by # NoRun
  <2>1. Head(mempool) = mempool[1] /\ 1 \in DOMAIN mempool /\ Head(mempool) \in Tx
    BY <1>1, <1>2, QueueType, QueueTail
  <2>2. QED
    BY <1>2, <2>1 DEF NoOrphans
<1>4. PICK r \in Runs : Head(mempool).by = r
  BY <1>3 DEF Tx
<1>5. PICK tx \in Tx : tx = Head(mempool)
  BY <1>3
<1>6. tx = TxOf(r) /\ receipt[r] = "pending" /\ pc[r] \in TxSteps /\ tx.kind = pc[r]
  BY <1>2, <1>4, <1>5, HeadOwned
<1>7. \A s \in Runs \ {r} : pc[s] = "idle" /\ pc'[s] = "idle" /\ ~Bought(s) /\ ~Booked(s)
  BY <1>2, <1>6 DEF Exclusive, TxSteps, Bought, Booked
<1>8. /\ RunBooks(r) /\ RunBooks(r)' /\ (Closed \/ Bought(r) \/ Booked(r))
      /\ Fits(r)
  BY <1>2, <1>7 DEF BooksInv, TargetInv
<1>9. /\ StillOpen = Open(r) /\ (Bought(r) => Purchases = WithSwap(r))
      /\ (~Bought(r) => Purchases = books)
      /\ StillOpen' = Open(r)' /\ (Bought(r)' => Purchases' = WithSwap(r)')
      /\ (~Bought(r)' => Purchases' = books')
  BY <1>1, <1>7, OnlyRun, OnlyRunNext
<1>10. receipt'[r] = (IF MineTx THEN "success" ELSE "reverted")
  BY <1>1, <1>4, BlockSays
<1>11. /\ owner \in [usdc : Nat, wrapped : Nat, native : Nat, allowance : Nat]
       /\ owner' \in [usdc : Nat, wrapped : Nat, native : Nat, allowance : Nat]
       /\ books \in [usdc : Nat, wei : Nat] /\ pmUsdc \in Nat /\ pmUsdc' \in Nat
       /\ bal \in [Legs -> Nat]
       /\ job[r] \in Job
  BY <1>1 DEF TypeOK, ChainTypeOK
<1>12. CASE RevertTx /\ ~MineTx
  <2>1. MustRevert(tx) /\ UNCHANGED <<pmUsdc, owner, books, bal>> /\ receipt'[r] = "reverted"
    BY <1>1, <1>2, <1>5, <1>10, <1>12, FaultsGrow DEF RevertTx, Revert
  <2>2. pc[r] \notin {"record", "unwrap"}
    BY <1>2, <1>8, <2>1 DEF RunBooks
  <2>3. pc[r] \in {"withdraw", "approve", "swap"}
    BY <1>6, <2>1, <2>2 DEF MustRevert, TxSteps
  <2>4. ~Bought(r) /\ ~Bought(r)' /\ Open(r)' = {}
    BY <1>2, <1>6, <2>1, <2>3 DEF Bought, Open
  <2>5. QED
    BY <1>2, <1>9, <2>1, <2>4, PassesOver
<1>13. CASE MineTx
  <2>1. Succeeds(tx) /\ receipt'[r] = "success"
    BY <1>5, <1>10, <1>13 DEF MineTx, Mine
  <2>2. ASSUME pc[r] \in {"withdraw", "approve", "unwrap"}
        PROVE  Open(r)' = Open(r) /\ ~Bought(r) /\ ~Bought(r)'
    BY <1>2, <1>6, <2>1, <2>2 DEF Open, Bought
  <2>3. ASSUME UNCHANGED <<pmUsdc + owner.usdc, owner.native + owner.wrapped, Purchases, bal>>,
               StillOpen' \subseteq StillOpen
        PROVE  Purchase!Next
    BY <1>2, <2>3 DEF Purchase!Next, Purchase!PassOver
  <2>4. CASE pc[r] = "withdraw"
    <3>1. WithdrawUsdc(tx) /\ tx.usdc \in Nat
      BY <1>6, <2>1, <2>4, SucceedsAs DEF Tx
    <3>2. /\ pmUsdc' = pmUsdc - tx.usdc /\ owner'.usdc = owner.usdc + tx.usdc
          /\ owner'.native = owner.native /\ owner'.wrapped = owner.wrapped
          /\ bal' = bal /\ books' = books
      BY <1>11, <3>1 DEF WithdrawUsdc
    <3>3. UNCHANGED <<pmUsdc + owner.usdc, owner.native + owner.wrapped>>
      BY <1>11, <3>1, <3>2
    <3>4. QED
      BY <1>9, <2>2, <2>3, <2>4, <3>2, <3>3
  <2>5. CASE pc[r] = "approve"
    <3>1. /\ pmUsdc' = pmUsdc /\ owner'.usdc = owner.usdc
          /\ owner'.native = owner.native /\ owner'.wrapped = owner.wrapped
          /\ bal' = bal /\ books' = books
      BY <1>6, <1>11, <2>1, <2>5, SucceedsAs DEF Approve
    <3>2. UNCHANGED <<pmUsdc + owner.usdc, owner.native + owner.wrapped>>
      BY <3>1
    <3>3. QED
      BY <1>9, <2>2, <2>3, <2>5, <3>1, <3>2
  <2>6. CASE pc[r] = "swap"
    <3>1. PICK rate \in Rates : ExactInputSingle(tx, rate)
      BY <1>6, <2>1, <2>6, SucceedsAs
    <3>2. tx.usdc = job[r].usdc /\ job[r].usdc > 0
      BY <1>6, <1>8, <2>6 DEF TxOf, RunBooks
    <3>3. ~Bought(r) /\ ~Booked(r) /\ Bought(r)' /\ Open(r) = {} /\ Open(r)' = Legs
      BY <1>2, <1>6, <2>1, <2>6 DEF Bought, Booked, Open
    <3>4. PICK l \in Legs : job[r].deficit[l] > 0
      BY <2>6 DEF NeedInv, Buying
    <3>5. Due(r, l) = job[r].deficit[l] /\ job[r].min \in MinChoices
      BY <1>8, <2>6 DEF Due, TxSteps, Fits, Measured
    <3>6. bal[l] < job[r].min /\ bal[l] + Due(r, l) <= Target(job[r].min, l)
      BY <1>8, <3>4, <3>5 DEF Fits
    <3>7. bal[l] \in Nat /\ Due(r, l) \in Nat /\ Target(job[r].min, l) \in Nat
      BY <1>1, <1>11, <3>5, DueNat, TargetNat
    <3>8. bal[l] + 1 <= Target(job[r].min, l)
      BY <3>4, <3>5, <3>6, <3>7
    <3>9. Purchase!Needs(l, 1)
      BY <3>5, <3>6, <3>8 DEF Purchase!Needs, Purchase!Target, Target
    <3>10. Purchase!Buy
      BY <1>1, <1>2, <1>8, <1>9, <3>1, <3>2, <3>3, <3>9, SwapBuys
    <3>11. QED
      BY <3>10 DEF Purchase!Next
  <2>7. CASE pc[r] = "record"
    <3>1. RecordGasPurchase(tx) /\ tx.usdc = job[r].usdc /\ tx.wei = job[r].wBal
      BY <1>6, <2>1, <2>7, SucceedsAs DEF TxOf
    <3>2. Bought(r) /\ ~Bought(r)' /\ Open(r)' = Open(r)
      BY <1>2, <1>6, <2>1, <2>7 DEF Bought, Open
    <3>3. job[r].wBal = owner.wrapped
      BY <1>8, <2>7 DEF RunBooks
    <3>4. UNCHANGED <<pmUsdc, owner, bal>> /\ Purchases' = Purchases
      BY <1>9, <3>1, <3>2, <3>3 DEF RecordGasPurchase, WithSwap
    <3>5. QED
      BY <1>2, <1>9, <3>2, <3>4, PassesOver
  <2>8. CASE pc[r] = "unwrap"
    <3>1. Unwrap(tx) /\ tx.wei \in Nat
      BY <1>6, <2>1, <2>8, SucceedsAs DEF Tx
    <3>2. /\ pmUsdc' = pmUsdc /\ owner'.usdc = owner.usdc
          /\ owner'.wrapped = owner.wrapped - tx.wei /\ owner'.native = owner.native + tx.wei
          /\ bal' = bal /\ books' = books
      BY <1>11, <3>1 DEF Unwrap
    <3>3. UNCHANGED <<pmUsdc + owner.usdc, owner.native + owner.wrapped>>
      BY <1>11, <3>1, <3>2
    <3>4. QED
      BY <1>9, <2>2, <2>3, <2>8, <3>2, <3>3
  <2>9. CASE pc[r] = "send"
    <3> DEFINE l == job[r].leg
               wei == job[r].plan[l]
    <3>1. l \in Legs /\ wei \in Nat \ {0}
      <4>1. l \in Legs /\ job[r].plan \in [Legs -> Nat]
        BY <1>1, <1>11, <2>9 DEF TypeOK, Job
      <4>2. wei > 0
        BY <2>9 DEF PlanInv
      <4>3. QED
        BY <4>1, <4>2
    <3>2. SendNative(tx) /\ tx.leg = l /\ tx.wei = wei
      BY <1>6, <2>1, <2>9, SucceedsAs DEF TxOf
    <3>3. job[r].min \in MinChoices /\ Due(r, l) = wei
      BY <1>6, <1>8, <2>9 DEF Fits, Measured, TxSteps, Due
    <3>4. ~Bought(r) /\ ~Booked(r) /\ ~Bought(r)'
      BY <1>2, <2>9 DEF Bought, Booked
    <3>5. owner.wrapped = 0
      BY <1>8, <3>4 DEF Closed
    <3>6. owner'.native >= Reserve
      <4>1. PendingSends' \in Nat /\ Reserve \in Nat /\ owner'.native \in Nat
        BY <1>11, PendingNext, ReserveAssumption
      <4>2. owner'.native >= Reserve + PendingSends'
        BY DEF ReserveInv
      <4>3. QED
        BY <4>1, <4>2
    <3>7. l \in Open(r) /\ Open(r)' = Open(r) \ {l}
      <4>1. Open(r) = {i \in Legs : i > l \/ i = l}
        BY <1>6, <2>9, <3>4 DEF Open
      <4>2. Open(r)' = {i \in Legs : i > l}
        BY <1>2, <2>1, <2>9, <3>4 DEF Open
      <4>3. l \in Nat /\ ~(l > l)
        BY <3>1, NLegsAssumption DEF Legs
      <4>4. QED
        BY <3>1, <4>1, <4>2, <4>3
    <3>8. Purchases' = Purchases
      BY <1>9, <3>2, <3>4 DEF SendNative
    <3> HIDE DEF l, wei
    <3>9. QED
      BY <1>1, <1>2, <1>8, <1>9, <3>1, <3>2, <3>3, <3>5, <3>6, <3>7, <3>8, SendGives
  <2>10. QED
    BY <1>6, <2>4, <2>5, <2>6, <2>7, <2>8, <2>9 DEF TxSteps
<1>14. QED
  BY <1>12, <1>13

LEMMA PurchaseStep ==
    ASSUME QueueInv, QueueInv', FifoInv, OneEntry, ReserveInv', BooksInv, BooksInv',
           TargetInv, PlanInv, NeedInv, [Next]_vars
    PROVE  Purchase!Next
<1>1. /\ TypeOK /\ EarlyAutos /\ WaitInv /\ TypeOK' /\ NoOrphans
  BY DEF QueueInv, RunsInv, FifoInv
<1>2. Exclusive /\ Exclusive'
  BY OneEntryExclusive, OneEntryExclusiveNext DEF QueueInv
<1>3. CASE faults' > 0
  BY <1>3 DEF Purchase!Next
<1>4. CASE faults' = 0
  <2>1. ~Fault
    BY <1>1, <1>4, FaultsGrow DEF Fault
  <2>2. QED
    BY <1>1, <1>2, <1>4, <2>1, NextSteps, RunPurchase, SubmitPurchase, BlockPurchase, OutsidePurchase
    DEF LoseReceipt, Crash
<1>5. faults' \in Nat
  BY <1>1, BoundAssumption DEF TypeOK
<1>6. QED
  BY <1>3, <1>4, <1>5

\* Where refills start one way only, and until something fails: each refill,
\* for all its transactions and the awaits between them, amounts to one purchase
\* that some account needs, at one price, entered in the books as it was, and of
\* which each account gets one part at most, one that it needs and has room for.
THEOREM RefillIsOnePurchase ==
    ASSUME OneEntry, InitOwner.wrapped = 0, InitOwner.native >= Reserve
    PROVE  Spec => PurchaseSpec
<1>1. Init => Purchase!Init /\ ReserveInv /\ BooksInv /\ TargetInv
  BY PurchaseInit, ReserveInit, BooksInit, TargetInit
<1>2. QueueInv /\ QueueInv' /\ FifoInv /\ ReserveInv /\ [Next]_vars => ReserveInv'
  BY ReserveStep
<1>3. QueueInv /\ FifoInv /\ BooksInv /\ [Next]_vars => BooksInv'
  BY BooksStep
<1>4. QueueInv /\ QueueInv' /\ FifoInv /\ TargetInv /\ [Next]_vars => TargetInv'
  BY TargetStep
<1>5. /\ QueueInv /\ QueueInv' /\ FifoInv /\ ReserveInv' /\ BooksInv /\ BooksInv'
      /\ TargetInv /\ PlanInv /\ NeedInv /\ [Next]_vars
      => [Purchase!Next]_(Purchase!purchaseVars)
  BY PurchaseStep
<1>6. QED
  BY <1>1, <1>2, <1>3, <1>4, <1>5, FifoHolds, PlanHolds, NeedHolds, PTL
  DEF Spec, PurchaseSpec, Purchase!Spec

=============================================================================
