--------------------------- MODULE PaymasterProofs ---------------------------
(***************************************************************************)
(* Proofs about the paymaster contract under the EntryPoint, for every set  *)
(* of senders and of operations, every price of gas and every limit: what   *)
(* an unpaid operation is due to, and what the gas limits bound.            *)
(***************************************************************************)
EXTENDS PaymasterBundle, SumsProofs

-----------------------------------------------------------------------------
(* Operations and what they are charged *)

LEMMA OpFields ==
    ASSUME NEW op \in Op
    PROVE  /\ op.sender \in Senders /\ op.initCode \in BOOLEAN /\ op.seal \in Terms
           /\ op.price \in Nat /\ op.minFee \in Nat /\ op.normal \in Nat /\ op.deploy \in Nat
           /\ op.gasLimit \in Nat /\ op.maxFee \in Nat /\ op.refBps \in Nat
           /\ op.spend \in Nat /\ op.approve \in Nat /\ op.signer \in Keys
BY DEF Op

LEMMA TermFields ==
    ASSUME NEW terms \in Terms
    PROVE  terms.price \in Nat /\ terms.normal \in Nat /\ terms.deploy \in Nat
BY DEF Terms

LEMMA PrefundNat == \A op \in Op : Prefund(op) \in Nat
BY OpFields, TimesNat DEF Prefund

LEMMA QuotedNat == ASSUME NEW op \in Op PROVE Quoted(op) \in Nat
<1> DEFINE units == IF op.initCode THEN op.seal.deploy ELSE op.seal.normal
<1>1. units \in Nat /\ op.maxFee \in Nat /\ op.seal.price \in Nat
  BY OpFields, TermFields
<1>2. units * op.maxFee * op.seal.price \in Nat
  BY <1>1, TimesNat
<1>3. QED
  BY <1>2, QuotientNat, ScaleAssumption DEF Quoted

LEMMA ChargeNat ==
    ASSUME NEW op \in Op, NEW cost \in Nat
    PROVE  /\ BaseCharge(op, cost) \in Nat
           /\ ReferralCharge(op, cost) \in Nat
           /\ Due(op, cost) \in Nat
<1>1. op.price \in Nat /\ op.minFee \in Nat /\ op.refBps \in Nat
  BY OpFields
<1>2. (cost * op.price) \div Scale \in Nat
  BY <1>1, TimesNat, QuotientNat, ScaleAssumption
<1>3. BaseCharge(op, cost) \in Nat
  BY <1>1, <1>2 DEF BaseCharge
<1>4. (BaseCharge(op, cost) * op.refBps) \div 10000 \in Nat
  BY <1>1, <1>3, TimesNat, QuotientNat
<1>5. ReferralCharge(op, cost) \in Nat
  BY <1>4 DEF ReferralCharge
<1>6. QED
  BY <1>3, <1>5 DEF Due

\* The deposit was charged for at least what the operation costs.
LEMMA CostWithinPrefund ==
    ASSUME NEW op \in Op, NEW gas \in Nat, NEW fee \in Nat,
           gas <= op.gasLimit, fee <= op.maxFee
    PROVE  gas * fee \in Nat /\ gas * fee <= Prefund(op)
<1>1. op.gasLimit \in Nat /\ op.maxFee \in Nat
  BY OpFields
<1>2. gas * fee <= op.gasLimit * fee
  BY <1>1, TimesMonotone
<1>3. fee * op.gasLimit <= op.maxFee * op.gasLimit
  BY <1>1, TimesMonotone
<1>4. op.gasLimit * fee = fee * op.gasLimit /\ op.maxFee * op.gasLimit = op.gasLimit * op.maxFee
  BY <1>1
<1>5. gas * fee \in Nat /\ op.gasLimit * fee \in Nat /\ op.gasLimit * op.maxFee \in Nat
  BY <1>1, TimesNat
<1>6. QED
  BY <1>2, <1>3, <1>4, <1>5 DEF Prefund

\* The contract works the gas out of the cost, and gets it right unless it is free.
LEMMA UnitsAreGas ==
    ASSUME NEW gas \in Nat, NEW fee \in Nat
    PROVE  GasUnits(gas * fee, fee) = IF fee > 0 THEN gas ELSE 0
<1>1. CASE fee = 0
  <2>1. gas * fee = 0
    BY <1>1
  <2>2. QED
    BY <1>1, <2>1 DEF GasUnits
<1>2. CASE fee > 0
  <2>1. gas * fee \in Nat
    BY TimesNat
  <2>2. (gas * fee + fee - 1) \div fee = gas
    <3> DEFINE q == (gas * fee + fee - 1) \div fee
               r == (gas * fee + fee - 1) % fee
    <3>1. gas * fee + fee - 1 \in Nat
      BY <1>2, <2>1
    <3>2. gas * fee + (fee - 1) = gas * fee + fee - 1
      BY <1>2, <2>1
    <3>3. \A n, d, k \in Nat : d > k => (n * d + k) \div d = n
      OBVIOUS
    <3>4. fee - 1 \in Nat /\ fee > fee - 1
      BY <1>2
    <3>5. (gas * fee + (fee - 1)) \div fee = gas
      BY <3>3, <3>4
    <3>6. QED
      BY <3>2, <3>5
  <2>3. QED
    BY <1>2, <2>2 DEF GasUnits
<1>3. QED
  BY <1>1, <1>2

-----------------------------------------------------------------------------
(* Types *)

Item(menu) == [op : menu, shared : BOOLEAN]

\* Only a bundle with an operation in it executes.
TypeInv ==
    /\ PaymasterTypeOK
    /\ scene \in Scenes /\ deposit \in Nat /\ deployed \in SUBSET Senders
    /\ bundle \in Seq(Item(scene.menu)) /\ log \in Seq(Entry)
    /\ executing \in BOOLEAN /\ (executing => bundle # <<>>)
    /\ since \in 0..Len(log) /\ changes \in 0..MaxChanges

LEMMA TypeInvImplies == TypeInv => TypeOK
<1> SUFFICES ASSUME TypeInv PROVE TypeOK
  OBVIOUS
<1>1. \A i \in DOMAIN bundle : bundle[i] \in Item(scene.menu)
  BY DEF TypeInv
<1>2. \A i \in DOMAIN log : log[i] \in Entry
  BY DEF TypeInv
<1>3. QED
  BY <1>1, <1>2 DEF TypeInv, TypeOK, Item

LEMMA SceneFields ==
    ASSUME TypeInv
    PROVE  /\ scene.menu \in SUBSET Op /\ scene.deposit \in Nat
           /\ scene.deployed \in SUBSET Senders
BY ScenesAssumption DEF TypeInv

LEMMA ItemsAreOps ==
    ASSUME TypeInv, NEW i \in DOMAIN bundle
    PROVE  bundle[i].op \in Op /\ bundle[i].shared \in BOOLEAN
<1>1. bundle[i] \in Item(scene.menu)
  BY DEF TypeInv
<1>2. QED
  BY <1>1, SceneFields DEF Item

LEMMA HeadItem ==
    ASSUME TypeInv, executing
    PROVE  /\ Len(bundle) \in Nat \ {0} /\ 1 \in DOMAIN bundle /\ Head(bundle) = bundle[1]
           /\ Head(bundle).op \in Op /\ Head(bundle).shared \in BOOLEAN
           /\ Head(bundle).op \in scene.menu
<1>1. Len(bundle) \in Nat \ {0} /\ 1 \in DOMAIN bundle /\ Head(bundle) = bundle[1]
  BY DEF TypeInv
<1>2. bundle[1] \in Item(scene.menu)
  BY <1>1 DEF TypeInv
<1>3. QED
  BY <1>1, <1>2, SceneFields DEF Item

LEMMA TypeInit == Init => TypeInv
<1> SUFFICES ASSUME Init PROVE TypeInv
  OBVIOUS
<1>1. scene.deposit \in Nat /\ scene.deployed \in SUBSET Senders
  BY ScenesAssumption DEF Init
<1>2. usdc \in [Accounts -> Nat] /\ allowance \in [Senders -> Nat]
  BY MoneyAssumption DEF Init
<1>3. PaymasterTypeOK
  BY <1>2, LimitsAssumption, VerifierAssumption DEF Init, PaymasterInit, PaymasterTypeOK
<1>4. <<>> \in Seq(Item(scene.menu)) /\ <<>> \in Seq(Entry) /\ Len(<<>>) = 0
  OBVIOUS
<1>5. executing \in BOOLEAN /\ ~executing
  BY DEF Init
<1>6. bundle \in Seq(Item(scene.menu)) /\ log \in Seq(Entry) /\ since \in 0..Len(log)
  BY <1>4 DEF Init
<1>7. changes \in 0..MaxChanges /\ scene \in Scenes /\ deposit \in Nat /\ deployed \in SUBSET Senders
  BY <1>1, BundleBoundsAssumption DEF Init
<1>8. QED
  BY <1>3, <1>5, <1>6, <1>7 DEF TypeInv

LEMMA ValidateType ==
    ASSUME TypeInv, NEW op \in scene.menu, Validate(op)
    PROVE  TypeInv'
<1>1. op \in Op
  BY SceneFields
<1>2. op.sender \in Senders /\ Prefund(op) \in Nat
  BY <1>1, OpFields, PrefundNat
<1>3. deposit' \in Nat /\ deployed' \in SUBSET Senders
  BY <1>2 DEF Validate, TypeInv
<1>4. bundle' \in Seq(Item(scene'.menu)) /\ bundle' # <<>>
  <2> DEFINE shared == \E i \in DOMAIN bundle : bundle[i].op.sender = op.sender
             item == [op |-> op, shared |-> shared]
  <2>1. item \in Item(scene.menu)
    BY DEF Item
  <2>2. bundle' = Append(bundle, item) /\ scene' = scene
    BY DEF Validate
  <2> HIDE DEF item
  <2>3. QED
    BY <2>1, <2>2 DEF TypeInv
<1>5. PaymasterTypeOK'
  BY DEF Validate, TypeInv, PaymasterTypeOK, contractVars
<1>6. QED
  BY <1>3, <1>4, <1>5 DEF Validate, TypeInv, contractVars

LEMMA StartExecutionType == ASSUME TypeInv, StartExecution PROVE TypeInv'
<1>1. PaymasterTypeOK'
  BY DEF StartExecution, TypeInv, PaymasterTypeOK, contractVars
<1>2. QED
  BY <1>1 DEF StartExecution, TypeInv, contractVars

\* What concluding the head of the bundle does to the bundle, the deposit and the log.
LEMMA ConcludeType ==
    ASSUME TypeInv, executing, NEW gas \in Nat, NEW fee \in Nat,
           gas <= Head(bundle).op.gasLimit, fee <= Head(bundle).op.maxFee,
           NEW outcome \in Outcomes, NEW due \in Nat, NEW allowed \in Nat,
           Conclude(gas, fee, outcome, due, allowed)
    PROVE  /\ bundle' \in Seq(Item(scene'.menu)) /\ deposit' \in Nat
           /\ executing' \in BOOLEAN /\ (executing' => bundle' # <<>>)
           /\ log' \in Seq(Entry) /\ since' \in 0..Len(log')
           /\ scene' \in Scenes /\ deployed' \in SUBSET Senders /\ changes' \in 0..MaxChanges
           /\ now' \in Nat
<1> DEFINE head == Head(bundle)
<1>1. head.op \in Op /\ head.shared \in BOOLEAN /\ Len(bundle) \in Nat \ {0}
  BY HeadItem
<1>2. head.op.sender \in Senders /\ head.op.spend \in Nat /\ Quoted(head.op) \in Nat
  BY <1>1, OpFields, QuotedNat
<1>3. deposit' \in Nat
  <2>1. gas * fee \in Nat /\ gas * fee <= Prefund(head.op) /\ Prefund(head.op) \in Nat
    BY <1>1, CostWithinPrefund, PrefundNat
  <2>2. deposit' = deposit + Prefund(head.op) - gas * fee /\ deposit \in Nat
    BY DEF Conclude, TypeInv
  <2>3. QED
    BY <2>1, <2>2
<1>4. bundle' \in Seq(Item(scene'.menu)) /\ (executing' => bundle' # <<>>)
  <2>1. scene' = scene /\ bundle' = Tail(bundle) /\ (executing' => Len(bundle) > 1)
    BY DEF Conclude
  <2>2. bundle \in Seq(Item(scene.menu))
    BY DEF TypeInv
  <2>3. Tail(bundle) \in Seq(Item(scene.menu)) /\ Len(Tail(bundle)) = Len(bundle) - 1
    BY <1>1, <2>2
  <2>4. Tail(bundle) = <<>> => Len(Tail(bundle)) = 0
    BY Len(<<>>) = 0, Zenon
  <2>5. Len(bundle) > 1 => Len(Tail(bundle)) # 0
    BY <1>1, <2>3
  <2>6. executing' => bundle' # <<>>
    BY <2>1, <2>4, <2>5
  <2>7. QED
    BY <2>1, <2>3, <2>6
<1>5. log' \in Seq(Entry) /\ Len(log') = Len(log) + 1
  <2> DEFINE entry == [sender |-> head.op.sender, quoted |-> Quoted(head.op),
                       moved |-> head.shared \/ head.op.spend > 0,
                       time |-> now, gas |-> IF fee > 0 THEN gas ELSE 0,
                       outcome |-> outcome, due |-> due, allowed |-> allowed]
  <2>1. now \in Nat
    BY DEF TypeInv, PaymasterTypeOK
  <2>2. entry \in Entry
    BY <1>1, <1>2, <2>1 DEF Entry
  <2>3. log' = Append(log, entry)
    BY DEF Conclude
  <2> HIDE DEF entry
  <2>4. QED
    BY <2>2, <2>3 DEF TypeInv
<1>6. executing' \in BOOLEAN
  BY DEF Conclude
<1>7. since' \in 0..Len(log')
  BY <1>5 DEF Conclude, TypeInv
<1>8. QED
  BY <1>3, <1>4, <1>5, <1>6, <1>7 DEF Conclude, TypeInv, PaymasterTypeOK

\* The balances after the operation's own payment.
LEMMA SpentType ==
    ASSUME PaymasterTypeOK, NEW op \in Op, usdc[op.sender] >= op.spend
    PROVE  /\ Spent(op) \in [Accounts -> Nat]
           /\ Spent(op)[op.sender] = usdc[op.sender] - op.spend
           /\ \A s \in Senders \ {op.sender} : Spent(op)[s] = usdc[s]
           /\ Approval(op) \in Nat
<1>1. op.sender \in Senders /\ op.spend \in Nat /\ op.approve \in Nat
  BY OpFields
<1>2. op.sender \in Accounts /\ Other \in Accounts /\ op.sender # Other /\ Senders \subseteq Accounts
  BY <1>1, AccountsAssumption DEF Accounts
<1>3. Other \notin Senders
  BY AccountsAssumption
<1>4. usdc \in [Accounts -> Nat] /\ allowance \in [Senders -> Nat]
  BY DEF PaymasterTypeOK
<1>5. Approval(op) \in Nat
  BY <1>1, <1>4 DEF Approval
<1>6. usdc[op.sender] - op.spend \in Nat /\ usdc[Other] + op.spend \in Nat
  BY <1>1, <1>2, <1>4
<1>7. QED
  BY <1>2, <1>3, <1>4, <1>5, <1>6 DEF Spent

LEMMA RolledType ==
    ASSUME PaymasterTypeOK, NEW s \in Senders
    PROVE  /\ Rolled(s) \in [used : [Senders -> Nat], last : [Senders -> Nat],
                             total : Nat, reset : Nat]
           /\ Rolled(s).last = usage.last
           /\ Rolled(s).used = [usage.used EXCEPT ![s] = IF SenderIdle(s) THEN 0 ELSE @]
           /\ Rolled(s).total = IF PeriodOver THEN 0 ELSE usage.total
           /\ Rolled(s).reset = IF PeriodOver THEN now ELSE usage.reset
BY DEF PaymasterTypeOK, Rolled

\* The counters after a charge.
LEMMA CountGasType ==
    ASSUME PaymasterTypeOK, NEW s \in Senders, NEW units \in Nat, CountGas(s, units)
    PROVE  /\ usage' \in [used : [Senders -> Nat], last : [Senders -> Nat],
                          total : Nat, reset : Nat]
           /\ stats' \in [gas : [Senders -> Nat], count : [Senders -> Nat],
                          ops : Nat, units : Nat]
           /\ usage'.used = [Rolled(s).used EXCEPT ![s] = @ + units]
           /\ usage'.last = [usage.last EXCEPT ![s] = now]
           /\ usage'.total = Rolled(s).total + units
           /\ usage'.reset = Rolled(s).reset
<1>1. now \in Nat
  BY DEF PaymasterTypeOK
<1>2. stats' \in [gas : [Senders -> Nat], count : [Senders -> Nat], ops : Nat, units : Nat]
  <2>1. /\ stats \in [gas : [Senders -> Nat], count : [Senders -> Nat], ops : Nat, units : Nat]
        /\ stats' = [stats EXCEPT !.gas[s] = @ + units, !.count[s] = @ + 1,
                                  !.ops = @ + 1, !.units = @ + units]
    BY DEF PaymasterTypeOK, CountGas
  <2>2. stats' = [gas |-> [stats.gas EXCEPT ![s] = @ + units],
                  count |-> [stats.count EXCEPT ![s] = @ + 1],
                  ops |-> stats.ops + 1, units |-> stats.units + units]
    BY <2>1
  <2>3. /\ [stats.gas EXCEPT ![s] = @ + units] \in [Senders -> Nat]
        /\ [stats.count EXCEPT ![s] = @ + 1] \in [Senders -> Nat]
        /\ stats.ops + 1 \in Nat /\ stats.units + units \in Nat
    BY <2>1
  <2>4. QED
    BY <2>2, <2>3
<1>3. usage' = [Rolled(s) EXCEPT !.used[s] = @ + units, !.last[s] = now, !.total = @ + units]
  BY DEF CountGas
<1> DEFINE rolled == Rolled(s)
<1>4. /\ rolled \in [used : [Senders -> Nat], last : [Senders -> Nat], total : Nat, reset : Nat]
      /\ rolled.last = usage.last
  BY RolledType
<1>5. usage' = [rolled EXCEPT !.used[s] = @ + units, !.last[s] = now, !.total = @ + units]
  BY <1>3
<1> HIDE DEF rolled
<1>6. /\ usage' \in [used : [Senders -> Nat], last : [Senders -> Nat], total : Nat, reset : Nat]
      /\ usage'.used = [rolled.used EXCEPT ![s] = @ + units]
      /\ usage'.last = [rolled.last EXCEPT ![s] = now]
      /\ usage'.total = rolled.total + units
      /\ usage'.reset = rolled.reset
  <2>1. usage' = [used |-> [rolled.used EXCEPT ![s] = @ + units],
                  last |-> [rolled.last EXCEPT ![s] = now],
                  total |-> rolled.total + units, reset |-> rolled.reset]
    BY <1>4, <1>5
  <2>2. /\ [rolled.used EXCEPT ![s] = @ + units] \in [Senders -> Nat]
        /\ [rolled.last EXCEPT ![s] = now] \in [Senders -> Nat]
        /\ rolled.total + units \in Nat /\ rolled.reset \in Nat
    BY <1>1, <1>4
  <2>3. QED
    BY <2>1, <2>2
<1>7. QED
  BY <1>2, <1>4, <1>6 DEF rolled

\* The price of gas and the gas of an execution.
LEMMA ExecuteFields ==
    ASSUME TypeInv, executing, NEW gas \in 1..Head(bundle).op.gasLimit,
           NEW fee \in {f \in Fees : f <= Head(bundle).op.maxFee}
    PROVE  /\ gas \in Nat /\ gas <= Head(bundle).op.gasLimit
           /\ fee \in Nat /\ fee <= Head(bundle).op.maxFee
           /\ gas * fee \in Nat
<1>1. Head(bundle).op.gasLimit \in Nat
  BY HeadItem, OpFields
<1>2. gas \in Nat /\ gas <= Head(bundle).op.gasLimit /\ fee \in Nat /\ fee <= Head(bundle).op.maxFee
  BY <1>1, MoneyAssumption
<1>3. QED
  BY <1>2, TimesNat

LEMMA UnitsNat ==
    ASSUME NEW gas \in Nat, NEW fee \in Nat PROVE GasUnits(gas * fee, fee) \in Nat
<1>1. GasUnits(gas * fee, fee) = IF fee > 0 THEN gas ELSE 0
  BY UnitsAreGas, Zenon
<1>2. QED
  BY <1>1

\* A charge takes from the sender what postOp made sure it has.
LEMMA PaidType ==
    ASSUME PaymasterTypeOK, NEW op \in Op, NEW cost \in Nat, usdc[op.sender] >= op.spend,
           Pays(op, cost)
    PROVE  /\ [a \in Accounts |->
                 Spent(op)[a] - (IF a = op.sender THEN BaseCharge(op, cost) + ReferralCharge(op, cost)
                                 ELSE 0)
                              + (IF a = treasury THEN BaseCharge(op, cost) ELSE 0)
                              + (IF a = Other THEN ReferralCharge(op, cost) ELSE 0)]
              \in [Accounts -> Nat]
           /\ Approval(op) - Due(op, cost) \in Nat
<1> DEFINE base == BaseCharge(op, cost)
           referral == ReferralCharge(op, cost)
           paid(a) == Spent(op)[a] - (IF a = op.sender THEN base + referral ELSE 0)
                                   + (IF a = treasury THEN base ELSE 0)
                                   + (IF a = Other THEN referral ELSE 0)
<1>1. /\ Spent(op) \in [Accounts -> Nat] /\ Approval(op) \in Nat
      /\ base \in Nat /\ referral \in Nat /\ Due(op, cost) \in Nat
  BY SpentType, ChargeNat
<1>2. Spent(op)[op.sender] >= base + referral /\ Approval(op) >= Due(op, cost)
  BY DEF Pays, Due
<1>3. ASSUME NEW a \in Accounts PROVE paid(a) \in Nat
  <2>1. Spent(op)[a] \in Nat
    BY <1>1
  <2> HIDE DEF base, referral
  <2>2. a = op.sender => Spent(op)[a] >= base + referral
    BY <1>2
  <2>3. QED
    BY <1>1, <2>1, <2>2
<1>4. Approval(op) - Due(op, cost) \in Nat
  BY <1>1, <1>2
<1>5. QED
  BY <1>3, <1>4

LEMMA ExecuteRevertedType ==
    ASSUME TypeInv, executing, NEW gas \in 1..Head(bundle).op.gasLimit,
           NEW fee \in {f \in Fees : f <= Head(bundle).op.maxFee},
           ExecuteReverted(gas, fee)
    PROVE  TypeInv'
<1>1. Conclude(gas, fee, "reverted", 0, 0) /\ UNCHANGED <<contractVars, usdc, allowance>>
  BY DEF ExecuteReverted
<1>2. "reverted" \in Outcomes /\ now' = now
  BY <1>1 DEF Outcomes, Conclude
<1>3. PaymasterTypeOK'
  BY <1>1, <1>2 DEF TypeInv, PaymasterTypeOK, contractVars
<1>4. QED
  BY <1>1, <1>2, <1>3, ExecuteFields, ConcludeType DEF TypeInv

LEMMA ExecuteFreeType ==
    ASSUME TypeInv, executing, NEW gas \in 1..Head(bundle).op.gasLimit,
           NEW fee \in {f \in Fees : f <= Head(bundle).op.maxFee},
           ExecuteFree(Head(bundle).op, gas, fee)
    PROVE  TypeInv'
<1> DEFINE op == Head(bundle).op
<1>1. Conclude(gas, fee, "free", 0, 0) /\ usdc[op.sender] >= op.spend
  BY DEF ExecuteFree
<1>2. "free" \in Outcomes /\ now' = now
  BY <1>1 DEF Outcomes, Conclude
<1>3. op \in Op /\ PaymasterTypeOK
  BY HeadItem DEF TypeInv
<1>4. usdc' \in [Accounts -> Nat] /\ Approval(op) \in Nat
  BY <1>1, <1>3, SpentType DEF ExecuteFree
<1>5. allowance' \in [Senders -> Nat]
  BY <1>3, <1>4 DEF ExecuteFree, PaymasterTypeOK
<1>6. UNCHANGED <<verifier, treasury, paused, allowAllTargets, targetAllowed, limits, usage,
                  stats, purchases>>
  BY DEF ExecuteFree, contractVars
<1>7. PaymasterTypeOK'
  BY <1>2, <1>3, <1>4, <1>5, <1>6 DEF PaymasterTypeOK
<1>8. QED
  BY <1>1, <1>2, <1>7, ExecuteFields, ConcludeType DEF TypeInv

LEMMA ExecuteChargedType ==
    ASSUME TypeInv, executing, NEW gas \in 1..Head(bundle).op.gasLimit,
           NEW fee \in {f \in Fees : f <= Head(bundle).op.maxFee},
           ExecuteCharged(Head(bundle).op, gas, fee)
    PROVE  TypeInv'
<1> DEFINE op == Head(bundle).op
           cost == gas * fee
           units == GasUnits(cost, fee)
<1>1. /\ usdc[op.sender] >= op.spend /\ Pays(op, cost)
      /\ Conclude(gas, fee, "charged", Due(op, cost), Approval(op))
      /\ CountGas(op.sender, units)
  BY DEF ExecuteCharged, PostOpReverts
<1>2. "charged" \in Outcomes /\ now' = now
  BY <1>1 DEF Outcomes, Conclude
<1>3. op \in Op /\ PaymasterTypeOK /\ cost \in Nat /\ units \in Nat
  BY HeadItem, ExecuteFields, UnitsNat DEF TypeInv
<1>4. op.sender \in Senders /\ Due(op, cost) \in Nat /\ Approval(op) \in Nat
  BY <1>1, <1>3, OpFields, ChargeNat, SpentType
<1>5. usdc' \in [Accounts -> Nat] /\ Approval(op) - Due(op, cost) \in Nat
  BY <1>1, <1>3, PaidType DEF ExecuteCharged
<1>6. allowance' \in [Senders -> Nat]
  BY <1>3, <1>5 DEF ExecuteCharged, PaymasterTypeOK
<1>7. /\ usage' \in [used : [Senders -> Nat], last : [Senders -> Nat], total : Nat, reset : Nat]
      /\ stats' \in [gas : [Senders -> Nat], count : [Senders -> Nat], ops : Nat, units : Nat]
  BY <1>1, <1>3, <1>4, CountGasType
<1>8. UNCHANGED <<verifier, treasury, paused, allowAllTargets, targetAllowed, limits, purchases>>
  BY DEF ExecuteCharged
<1>9. PaymasterTypeOK'
  BY <1>2, <1>3, <1>5, <1>6, <1>7, <1>8 DEF PaymasterTypeOK
<1>10. QED
  BY <1>1, <1>2, <1>4, <1>9, ExecuteFields, ConcludeType DEF TypeInv

LEMMA ExecuteUnchargedType ==
    ASSUME TypeInv, executing, NEW gas \in 1..Head(bundle).op.gasLimit,
           NEW fee \in {f \in Fees : f <= Head(bundle).op.maxFee},
           ExecuteUncharged(Head(bundle).op, gas, fee)
    PROVE  TypeInv'
<1> DEFINE op == Head(bundle).op
           cost == gas * fee
<1>1. PICK outcome \in {"sender limit", "breaker", "unpaid"} :
          Conclude(gas, fee, outcome, Due(op, cost), Approval(op))
  BY DEF ExecuteUncharged
<1>2. usdc[op.sender] >= op.spend /\ UNCHANGED <<contractVars, usdc, allowance>>
  BY DEF ExecuteUncharged
<1>3. outcome \in Outcomes /\ now' = now
  BY <1>1 DEF Outcomes, Conclude
<1>4. op \in Op /\ PaymasterTypeOK /\ cost \in Nat
  BY HeadItem, ExecuteFields DEF TypeInv
<1>5. Due(op, cost) \in Nat /\ Approval(op) \in Nat
  BY <1>2, <1>4, ChargeNat, SpentType
<1>6. PaymasterTypeOK'
  BY <1>2, <1>3 DEF TypeInv, PaymasterTypeOK, contractVars
<1>7. QED
  BY <1>1, <1>3, <1>5, <1>6, ExecuteFields, ConcludeType DEF TypeInv

LEMMA ExecuteType == ASSUME TypeInv, Execute PROVE TypeInv'
<1>1. executing
  BY DEF Execute
<1>2. PICK gas \in 1..Head(bundle).op.gasLimit, fee \in {f \in Fees : f <= Head(bundle).op.maxFee} :
          \/ ExecuteReverted(gas, fee)
          \/ ExecuteFree(Head(bundle).op, gas, fee)
          \/ ExecuteCharged(Head(bundle).op, gas, fee)
          \/ ExecuteUncharged(Head(bundle).op, gas, fee)
  BY DEF Execute
<1>3. QED
  BY <1>1, <1>2, ExecuteRevertedType, ExecuteFreeType, ExecuteChargedType, ExecuteUnchargedType

\* What a call of the owner leaves alone.
LEMMA OwnerCallType ==
    ASSUME TypeInv, OwnerCall
    PROVE  /\ now' = now /\ allowance' = allowance /\ scene' = scene /\ deployed' = deployed
           /\ bundle' = bundle /\ executing' = executing /\ log' = log
           /\ changes' \in 0..MaxChanges /\ bundle = <<>> /\ ~executing
BY BundleBoundsAssumption DEF TypeInv, OwnerCall, Between

LEMMA ConfigureType == ASSUME TypeInv, Configure PROVE TypeInv'
<1>1. OwnerCall /\ usdc' = usdc /\ deposit' = deposit /\ since' = since
  BY DEF Configure
<1>2. \/ \E key \in Keys : SetVerifier(key)
      \/ \E account \in {Self, Other} : SetTreasury(account)
      \/ \E value \in BOOLEAN : SetPaused(value) \/ SetAllowAllTargets(value)
      \/ \E target \in Targets, allowed \in BOOLEAN : SetTargetAllowed(target, allowed)
  BY DEF Configure
<1>3. /\ verifier' \in Keys /\ treasury' \in {Self, Other}
      /\ paused' \in BOOLEAN /\ allowAllTargets' \in BOOLEAN /\ targetAllowed' \in SUBSET Targets
  BY <1>2 DEF TypeInv, PaymasterTypeOK, SetVerifier, SetTreasury, SetPaused,
              SetAllowAllTargets, SetTargetAllowed
<1>4. limits' = limits /\ usage' = usage /\ stats' = stats /\ purchases' = purchases
  BY <1>2 DEF SetVerifier, SetTreasury, SetPaused, SetAllowAllTargets, SetTargetAllowed
<1>5. PaymasterTypeOK'
  BY <1>1, <1>3, <1>4, OwnerCallType DEF TypeInv, PaymasterTypeOK
<1>6. QED
  BY <1>1, <1>5, OwnerCallType DEF TypeInv

LEMMA ChangeLimitsType == ASSUME TypeInv, ChangeLimits PROVE TypeInv'
<1>1. OwnerCall /\ usdc' = usdc /\ deposit' = deposit /\ since' = Len(log)
  BY DEF ChangeLimits
<1>2. /\ limits' \in [period : Nat, maxGas : Nat, threshold : Nat]
      /\ usage' \in [used : [Senders -> Nat], last : [Senders -> Nat], total : Nat, reset : Nat]
  <2> USE DEF TypeInv, PaymasterTypeOK
  <2>1. CASE \E period \in {InitPeriod, InitPeriod + 1}, maxGas \in {InitMaxGas, InitMaxGas + 1} :
                 SetLimits([limits EXCEPT !.period = period, !.maxGas = maxGas])
    <3>1. PICK period \in {InitPeriod, InitPeriod + 1}, maxGas \in {InitMaxGas, InitMaxGas + 1} :
              SetLimits([limits EXCEPT !.period = period, !.maxGas = maxGas])
      BY <2>1
    <3>2. period \in Nat /\ maxGas \in Nat
      BY LimitsAssumption
    <3>3. QED
      BY <3>1, <3>2 DEF SetLimits
  <2>2. CASE \E threshold \in {InitThreshold, InitThreshold - 1} \cap Nat :
                 SetLimits([limits EXCEPT !.threshold = threshold])
    BY <2>2 DEF SetLimits
  <2>3. CASE ResetGasUsage
    BY <2>3 DEF ResetGasUsage
  <2>4. QED
    BY <2>1, <2>2, <2>3 DEF ChangeLimits
<1>3. UNCHANGED <<verifier, treasury, paused, allowAllTargets, targetAllowed, stats, purchases>>
  BY DEF ChangeLimits, SetLimits, ResetGasUsage
<1>4. PaymasterTypeOK'
  BY <1>1, <1>2, <1>3, OwnerCallType DEF TypeInv, PaymasterTypeOK
<1>5. since' \in 0..Len(log')
  BY <1>1, OwnerCallType DEF TypeInv
<1>6. QED
  BY <1>1, <1>4, <1>5, OwnerCallType DEF TypeInv

LEMMA WithdrawUsdcType == ASSUME TypeInv, WithdrawUsdc PROVE TypeInv'
<1>1. OwnerCall /\ UNCHANGED <<contractVars, deposit, since>>
  BY DEF WithdrawUsdc
<1>2. PICK amount \in 1..usdc[Self] :
          usdc' = [usdc EXCEPT ![Self] = @ - amount, ![Other] = @ + amount]
  BY DEF WithdrawUsdc
<1>3. Self \in Accounts /\ Other \in Accounts /\ Self # Other
  BY AccountsAssumption DEF Accounts
<1>4. usdc' \in [Accounts -> Nat]
  <2>1. usdc \in [Accounts -> Nat]
    BY DEF TypeInv, PaymasterTypeOK
  <2>2. amount \in Nat /\ amount <= usdc[Self] /\ usdc[Self] \in Nat /\ usdc[Other] \in Nat
    BY <1>3, <2>1
  <2>3. usdc[Self] - amount \in Nat /\ usdc[Other] + amount \in Nat
    BY <2>2
  <2>4. QED
    BY <1>2, <1>3, <2>1, <2>3
<1>5. PaymasterTypeOK'
  BY <1>1, <1>4, OwnerCallType DEF TypeInv, PaymasterTypeOK, contractVars
<1>6. QED
  BY <1>1, <1>5, OwnerCallType DEF TypeInv

LEMMA RecordGasPurchaseType == ASSUME TypeInv, RecordGasPurchase PROVE TypeInv'
<1>1. OwnerCall /\ UNCHANGED <<usdc, deposit, since>> /\ RecordPurchase(1, 1)
  BY DEF RecordGasPurchase
<1>2. purchases' \in [usdc : Nat, wei : Nat]
  BY <1>1 DEF TypeInv, PaymasterTypeOK, RecordPurchase
<1>3. PaymasterTypeOK'
  BY <1>1, <1>2, OwnerCallType DEF TypeInv, PaymasterTypeOK, RecordPurchase
<1>4. QED
  BY <1>1, <1>3, OwnerCallType DEF TypeInv

LEMMA MoveDepositType == ASSUME TypeInv, MoveDeposit PROVE TypeInv'
<1>1. OwnerCall /\ UNCHANGED <<contractVars, usdc, since>>
  BY DEF MoveDeposit
<1>2. deposit' \in Nat
  BY SceneFields DEF TypeInv, MoveDeposit
<1>3. PaymasterTypeOK'
  BY <1>1, OwnerCallType DEF TypeInv, PaymasterTypeOK, contractVars
<1>4. QED
  BY <1>1, <1>2, <1>3, OwnerCallType DEF TypeInv

LEMMA TickType == ASSUME TypeInv, Tick PROVE TypeInv'
<1>1. now' \in Nat
  BY DEF TypeInv, PaymasterTypeOK, Tick
<1>2. PaymasterTypeOK'
  BY <1>1 DEF TypeInv, PaymasterTypeOK, Tick, contractVars
<1>3. QED
  BY <1>2 DEF TypeInv, Tick, bundleVars

LEMMA TypeStep == TypeInv /\ [Next]_vars => TypeInv'
<1> SUFFICES ASSUME TypeInv, [Next]_vars PROVE TypeInv'
  OBVIOUS
<1>1. CASE Next
  BY <1>1, ValidateType, StartExecutionType, ExecuteType, ConfigureType, ChangeLimitsType,
     WithdrawUsdcType, RecordGasPurchaseType, MoveDepositType, TickType DEF Next
<1>2. CASE UNCHANGED vars
  <2>1. PaymasterTypeOK'
    BY <1>2 DEF TypeInv, PaymasterTypeOK, vars, contractVars
  <2>2. QED
    BY <1>2, <2>1 DEF TypeInv, vars, bundleVars
<1>3. QED
  BY <1>1, <1>2

LEMMA TypeHolds == Spec => []TypeInv
<1>1. QED
  BY TypeInit, TypeStep, PTL DEF Spec

\* Every reachable state is type correct: no balance, allowance, deposit or counter
\* ever falls below zero, whatever the operations, the gas and the prices, and whatever
\* the owner does between two bundles.
THEOREM PaymasterTypeCorrect == Spec => []TypeOK
<1>1. QED
  BY TypeHolds, TypeInvImplies, PTL

-----------------------------------------------------------------------------
(* Unpaid operations *)

\* What is still true of an operation that was accepted: its terms are the ones that
\* were signed, and the first one of its sender finds the balance it was accepted for.
AcceptedInv ==
    \A i \in DOMAIN bundle :
        /\ bundle[i].op.seal = BuildPaymasterDigest(bundle[i].op)
        /\ ~bundle[i].shared =>
              /\ usdc[bundle[i].op.sender] >= Reserve(bundle[i].op)
              /\ \A j \in DOMAIN bundle : j < i => bundle[j].op.sender # bundle[i].op.sender

LossInv == TypeInv /\ AcceptedInv /\ LossExplained

LEMMA QuotedIsReserve ==
    ASSUME NEW op \in Op, op.seal = BuildPaymasterDigest(op) PROVE Quoted(op) = Reserve(op)
BY DEF Quoted, Reserve, BuildPaymasterDigest

LEMMA ValidatesSigned ==
    ASSUME TypeInv, NEW op \in Op, Validates(op)
    PROVE  op.seal = BuildPaymasterDigest(op) /\ usdc[op.sender] >= Reserve(op)
<1>1. RecoverSigner(op) = verifier /\ verifier \in Keys /\ NoKey \notin Keys
  BY VerifierAssumption DEF Validates, TypeInv, PaymasterTypeOK
<1>2. QED
  BY <1>1 DEF RecoverSigner, Validates

LEMMA ValidateAccepts ==
    ASSUME LossInv, NEW op \in scene.menu, Validate(op)
    PROVE  LossInv'
<1>1. TypeInv /\ op \in Op /\ TypeInv'
  BY SceneFields, ValidateType DEF LossInv
<1>2. op.seal = BuildPaymasterDigest(op) /\ usdc[op.sender] >= Reserve(op)
  BY <1>1, ValidatesSigned DEF Validate
<1> DEFINE item == [op |-> op, shared |-> \E i \in DOMAIN bundle : bundle[i].op.sender = op.sender]
<1>3. bundle' = Append(bundle, item) /\ usdc' = usdc /\ log' = log
  BY DEF Validate
<1>4. item.op = op /\ (~item.shared => \A i \in DOMAIN bundle : bundle[i].op.sender # op.sender)
  OBVIOUS
<1> HIDE DEF item
<1>5. bundle \in Seq(Item(scene.menu))
  BY <1>1 DEF TypeInv
<1>6. /\ Len(bundle) \in Nat /\ DOMAIN bundle = 1..Len(bundle)
      /\ DOMAIN bundle' = 1..(Len(bundle) + 1)
      /\ \A i \in 1..Len(bundle) : bundle'[i] = bundle[i]
      /\ bundle'[Len(bundle) + 1] = item
  BY <1>3, <1>5
<1>7. ASSUME NEW i \in DOMAIN bundle'
      PROVE  /\ bundle'[i].op.seal = BuildPaymasterDigest(bundle'[i].op)
             /\ ~bundle'[i].shared =>
                   /\ usdc'[bundle'[i].op.sender] >= Reserve(bundle'[i].op)
                   /\ \A j \in DOMAIN bundle' : j < i =>
                          bundle'[j].op.sender # bundle'[i].op.sender
  <2>1. CASE i = Len(bundle) + 1
    BY <1>2, <1>3, <1>4, <1>6, <2>1
  <2>2. CASE i \in 1..Len(bundle)
    <3>1. bundle'[i] = bundle[i] /\ i \in DOMAIN bundle
      BY <1>6, <2>2
    <3>2. \A j \in DOMAIN bundle' : j < i => j \in DOMAIN bundle /\ bundle'[j] = bundle[j]
      BY <1>6, <2>2
    <3>3. QED
      BY <1>3, <3>1, <3>2 DEF LossInv, AcceptedInv
  <2>3. QED
    BY <1>6, <2>1, <2>2
<1>8. AcceptedInv'
  BY <1>7 DEF AcceptedInv, BuildPaymasterDigest, Reserve
<1>9. QED
  BY <1>1, <1>3, <1>8 DEF LossInv, LossExplained

\* What was accepted stays so while the bundle's head is executed, if that takes
\* nothing from the others.
LEMMA TailAccepted ==
    ASSUME TypeInv, AcceptedInv, executing, bundle' = Tail(bundle),
           usdc' \in [Accounts -> Nat],
           \A s \in Senders \ {Head(bundle).op.sender} : usdc'[s] >= usdc[s]
    PROVE  AcceptedInv'
<1>1. bundle \in Seq(Item(scene.menu)) /\ Len(bundle) \in Nat \ {0} /\ Head(bundle) = bundle[1]
  BY HeadItem DEF TypeInv
<1>2. /\ DOMAIN bundle = 1..Len(bundle) /\ DOMAIN bundle' = 1..(Len(bundle) - 1)
      /\ \A i \in 1..(Len(bundle) - 1) : bundle'[i] = bundle[i + 1]
  BY <1>1
<1>3. ASSUME NEW i \in DOMAIN bundle'
      PROVE  /\ bundle'[i].op.seal = BuildPaymasterDigest(bundle'[i].op)
             /\ ~bundle'[i].shared =>
                   /\ usdc'[bundle'[i].op.sender] >= Reserve(bundle'[i].op)
                   /\ \A j \in DOMAIN bundle' : j < i =>
                          bundle'[j].op.sender # bundle'[i].op.sender
  <2>1. /\ i + 1 \in DOMAIN bundle /\ 1 \in DOMAIN bundle /\ 1 < i + 1
        /\ bundle'[i] = bundle[i + 1]
    BY <1>1, <1>2
  <2>2. bundle[i + 1].op.seal = BuildPaymasterDigest(bundle[i + 1].op)
    BY <2>1 DEF AcceptedInv
  <2>3. ASSUME ~bundle[i + 1].shared
        PROVE  /\ usdc'[bundle[i + 1].op.sender] >= Reserve(bundle[i + 1].op)
               /\ \A j \in DOMAIN bundle' : j < i =>
                      bundle'[j].op.sender # bundle[i + 1].op.sender
    <3> DEFINE op == bundle[i + 1].op
    <3>1. usdc[op.sender] >= Reserve(op) /\ bundle[1].op.sender # op.sender
      BY <2>1, <2>3 DEF AcceptedInv
    <3>2. op \in Op /\ op.sender \in Senders
      BY <2>1, ItemsAreOps, OpFields
    <3>3. usdc'[op.sender] >= usdc[op.sender]
      BY <1>1, <3>1, <3>2
    <3>4. Reserve(op) \in Nat
      <4> DEFINE units == IF op.initCode THEN op.deploy ELSE op.normal
      <4>1. units \in Nat /\ op.maxFee \in Nat /\ op.price \in Nat
        BY <3>2, OpFields
      <4>2. units * op.maxFee * op.price \in Nat
        BY <4>1, TimesNat
      <4>3. QED
        BY <4>2, QuotientNat, ScaleAssumption DEF Reserve
    <3>5. usdc[op.sender] \in Nat /\ usdc'[op.sender] \in Nat
      BY <3>2 DEF TypeInv, PaymasterTypeOK, Accounts
    <3>6. usdc'[op.sender] >= Reserve(op)
      BY <3>1, <3>3, <3>4, <3>5
    <3>7. ASSUME NEW j \in DOMAIN bundle', j < i
          PROVE  bundle'[j].op.sender # op.sender
      <4>1. j + 1 \in DOMAIN bundle /\ j + 1 < i + 1 /\ bundle'[j] = bundle[j + 1]
        BY <1>1, <1>2, <3>7
      <4>2. QED
        BY <2>1, <2>3, <4>1 DEF AcceptedInv
    <3>8. QED
      BY <3>6, <3>7
  <2>4. QED
    BY <2>1, <2>2, <2>3
<1>4. QED
  BY <1>3 DEF AcceptedInv, BuildPaymasterDigest, Reserve

\* The entries of the log after the head was concluded.
LEMMA LogGrows ==
    ASSUME TypeInv, NEW gas, NEW fee, NEW outcome, NEW due, NEW allowed,
           Conclude(gas, fee, outcome, due, allowed)
    PROVE  /\ Len(log) \in Nat /\ Len(log') = Len(log) + 1
           /\ DOMAIN log = 1..Len(log) /\ DOMAIN log' = 1..(Len(log) + 1)
           /\ \A i \in 1..Len(log) : log'[i] = log[i]
           /\ log'[Len(log) + 1] =
                 [sender |-> Head(bundle).op.sender, quoted |-> Quoted(Head(bundle).op),
                  moved |-> Head(bundle).shared \/ Head(bundle).op.spend > 0,
                  time |-> now, gas |-> IF fee > 0 THEN gas ELSE 0,
                  outcome |-> outcome, due |-> due, allowed |-> allowed]
<1> DEFINE entry == [sender |-> Head(bundle).op.sender, quoted |-> Quoted(Head(bundle).op),
                     moved |-> Head(bundle).shared \/ Head(bundle).op.spend > 0,
                     time |-> now, gas |-> IF fee > 0 THEN gas ELSE 0,
                     outcome |-> outcome, due |-> due, allowed |-> allowed]
<1>1. log' = Append(log, entry) /\ log \in Seq(Entry)
  BY DEF Conclude, TypeInv
<1> HIDE DEF entry
<1>2. /\ Len(log) \in Nat /\ Len(log') = Len(log) + 1
      /\ DOMAIN log = 1..Len(log) /\ DOMAIN log' = 1..(Len(log) + 1)
      /\ \A i \in 1..Len(log) : log'[i] = log[i]
      /\ log'[Len(log) + 1] = entry
  BY <1>1
<1>3. QED
  BY <1>2 DEF entry

\* Only what was not paid needs explaining.
LEMMA PaidNeedsNothing ==
    ASSUME TypeInv, LossExplained, NEW gas, NEW fee, NEW outcome, NEW due, NEW allowed,
           Conclude(gas, fee, outcome, due, allowed), outcome # "unpaid"
    PROVE  LossExplained'
<1>1. /\ Len(log) \in Nat /\ DOMAIN log = 1..Len(log) /\ DOMAIN log' = 1..(Len(log) + 1)
      /\ \A i \in 1..Len(log) : log'[i] = log[i]
  BY LogGrows
<1>2. log'[Len(log) + 1].outcome = outcome
  <2>1. log'[Len(log) + 1] =
            [sender |-> Head(bundle).op.sender, quoted |-> Quoted(Head(bundle).op),
             moved |-> Head(bundle).shared \/ Head(bundle).op.spend > 0,
             time |-> now, gas |-> IF fee > 0 THEN gas ELSE 0,
             outcome |-> outcome, due |-> due, allowed |-> allowed]
    BY LogGrows
  <2>2. QED
    BY <2>1
<1>3. \A i \in DOMAIN log' : (i \in DOMAIN log /\ log'[i] = log[i]) \/ log'[i].outcome = outcome
  BY <1>1, <1>2
<1>4. QED
  BY <1>3 DEF LossExplained

LEMMA ExecuteRevertedExplained ==
    ASSUME LossInv, executing, NEW gas, NEW fee, ExecuteReverted(gas, fee)
    PROVE  AcceptedInv' /\ LossExplained'
<1>1. Conclude(gas, fee, "reverted", 0, 0) /\ usdc' = usdc /\ TypeInv
  BY DEF ExecuteReverted, LossInv
<1>2. usdc \in [Accounts -> Nat] /\ \A s \in Senders : usdc[s] \in Nat
  BY <1>1 DEF TypeInv, PaymasterTypeOK, Accounts
<1>3. AcceptedInv'
  BY <1>1, <1>2, TailAccepted DEF Conclude, LossInv
<1>4. QED
  BY <1>1, <1>3, PaidNeedsNothing DEF LossInv

LEMMA ExecuteFreeExplained ==
    ASSUME LossInv, TypeInv', executing, NEW gas, NEW fee,
           ExecuteFree(Head(bundle).op, gas, fee)
    PROVE  AcceptedInv' /\ LossExplained'
<1> DEFINE op == Head(bundle).op
<1>1. /\ Conclude(gas, fee, "free", 0, 0) /\ usdc' = Spent(op) /\ TypeInv
      /\ usdc[op.sender] >= op.spend
  BY DEF ExecuteFree, LossInv
<1>2. op \in Op /\ PaymasterTypeOK /\ usdc' \in [Accounts -> Nat]
  BY <1>1, HeadItem DEF TypeInv, PaymasterTypeOK
<1>3. \A s \in Senders \ {op.sender} : usdc'[s] = usdc[s] /\ usdc[s] \in Nat
  BY <1>1, <1>2, SpentType DEF PaymasterTypeOK, Accounts
<1>4. AcceptedInv'
  BY <1>1, <1>2, <1>3, TailAccepted DEF Conclude, LossInv
<1>5. QED
  BY <1>1, <1>4, PaidNeedsNothing DEF LossInv

LEMMA ExecuteChargedExplained ==
    ASSUME LossInv, TypeInv', executing, NEW gas, NEW fee,
           ExecuteCharged(Head(bundle).op, gas, fee)
    PROVE  AcceptedInv' /\ LossExplained'
<1> DEFINE op == Head(bundle).op
           cost == gas * fee
           base == BaseCharge(op, cost)
           referral == ReferralCharge(op, cost)
<1>1. /\ Conclude(gas, fee, "charged", Due(op, cost), Approval(op)) /\ TypeInv
      /\ usdc[op.sender] >= op.spend
      /\ usdc' = [a \in Accounts |->
               Spent(op)[a] - (IF a = op.sender THEN base + referral ELSE 0)
                            + (IF a = treasury THEN base ELSE 0)
                            + (IF a = Other THEN referral ELSE 0)]
  BY DEF ExecuteCharged, LossInv
<1>2. op \in Op /\ PaymasterTypeOK /\ usdc' \in [Accounts -> Nat]
  BY <1>1, HeadItem DEF TypeInv, PaymasterTypeOK
<1>3. ASSUME NEW s \in Senders \ {op.sender} PROVE usdc'[s] >= usdc[s]
  <2>1. s # Other /\ s # treasury /\ s \in Accounts
    BY <1>2, AccountsAssumption DEF PaymasterTypeOK, Accounts
  <2>2. Spent(op)[s] = usdc[s] /\ usdc[s] \in Nat
    BY <1>1, <1>2, <2>1, SpentType DEF PaymasterTypeOK
  <2>3. usdc'[s] = Spent(op)[s] - 0 + 0 + 0
    BY <1>1, <2>1
  <2>4. QED
    BY <2>2, <2>3
<1>4. AcceptedInv'
  BY <1>1, <1>2, <1>3, TailAccepted DEF Conclude, LossInv
<1>5. QED
  BY <1>1, <1>4, PaidNeedsNothing DEF LossInv

\* An operation that pays nobody itself, is the first of its sender, approves the
\* charge and stays within its estimates finds the balance it was accepted for.
LEMMA ExecuteUnchargedExplained ==
    ASSUME LossInv, executing, NEW gas \in 1..Head(bundle).op.gasLimit,
           NEW fee \in {f \in Fees : f <= Head(bundle).op.maxFee},
           ExecuteUncharged(Head(bundle).op, gas, fee)
    PROVE  AcceptedInv' /\ LossExplained'
<1> DEFINE op == Head(bundle).op
           cost == gas * fee
           units == GasUnits(cost, fee)
<1>0. PICK outcome :
          /\ Conclude(gas, fee, outcome, Due(op, cost), Approval(op))
          /\ outcome = "unpaid" => /\ ~SenderLimitExceeded(op.sender, units)
                                   /\ ~BreakerExceeded(op.sender, units)
  <2> DEFINE became == IF SenderLimitExceeded(op.sender, units) THEN "sender limit"
                       ELSE IF BreakerExceeded(op.sender, units) THEN "breaker"
                       ELSE "unpaid"
  <2>1. Conclude(gas, fee, became, Due(op, cost), Approval(op))
    BY DEF ExecuteUncharged
  <2>2. became = "unpaid" => /\ ~SenderLimitExceeded(op.sender, units)
                            /\ ~BreakerExceeded(op.sender, units)
    OBVIOUS
  <2> HIDE DEF became
  <2>3. QED
    BY <2>1, <2>2
<1>1. usdc' = usdc /\ TypeInv /\ usdc[op.sender] >= op.spend /\ PostOpReverts(op, units, cost)
  BY DEF ExecuteUncharged, LossInv
<1>2. usdc \in [Accounts -> Nat] /\ \A s \in Senders : usdc[s] \in Nat
  BY <1>1 DEF TypeInv, PaymasterTypeOK, Accounts
<1>3. AcceptedInv'
  <2>1. bundle' = Tail(bundle) /\ AcceptedInv /\ \A s \in Senders : usdc'[s] >= usdc[s]
    BY <1>0, <1>1, <1>2 DEF Conclude, LossInv
  <2>2. QED
    BY <1>1, <1>2, <2>1, TailAccepted
<1>4. ASSUME outcome = "unpaid", ~(Head(bundle).shared \/ op.spend > 0),
             ~(Approval(op) < Due(op, cost)), ~(Due(op, cost) > Quoted(op))
      PROVE  FALSE
  <2>0. op \in Op
    BY <1>1, HeadItem
  <2>1. op.sender \in Senders /\ op.spend = 0
    BY <1>4, <2>0, OpFields
  <2>2. cost \in Nat /\ Due(op, cost) \in Nat /\ Approval(op) \in Nat /\ Quoted(op) \in Nat
    BY <1>1, <2>0, ExecuteFields, ChargeNat, SpentType, QuotedNat DEF TypeInv
  <2>3. Approval(op) >= Due(op, cost) /\ Due(op, cost) <= Quoted(op)
    BY <1>4, <2>2
  <2>4. ~Pays(op, cost)
    BY <1>0, <1>1, <1>4 DEF PostOpReverts
  <2>5. ~(Spent(op)[op.sender] >= Due(op, cost))
    BY <2>3, <2>4 DEF Pays
  <2>6. Spent(op)[op.sender] = usdc[op.sender] - op.spend
    BY <1>1, <2>0, SpentType DEF TypeInv
  <2>7. usdc[op.sender] >= Reserve(op) /\ Quoted(op) = Reserve(op)
    BY <1>1, <1>4, <2>0, HeadItem, QuotedIsReserve DEF LossInv, AcceptedInv
  <2>8. QED
    BY <1>2, <2>1, <2>2, <2>3, <2>5, <2>6, <2>7
<1>5. LossExplained'
  <2>1. /\ DOMAIN log = 1..Len(log) /\ DOMAIN log' = 1..(Len(log) + 1) /\ Len(log) \in Nat
        /\ \A i \in 1..Len(log) : log'[i] = log[i]
        /\ log'[Len(log) + 1] =
              [sender |-> op.sender, quoted |-> Quoted(op),
               moved |-> Head(bundle).shared \/ op.spend > 0,
               time |-> now, gas |-> IF fee > 0 THEN gas ELSE 0,
               outcome |-> outcome, due |-> Due(op, cost), allowed |-> Approval(op)]
    BY <1>0, <1>1, LogGrows
  <2> DEFINE last == log'[Len(log) + 1]
  <2>2. /\ last.outcome = outcome /\ last.moved = (Head(bundle).shared \/ op.spend > 0)
        /\ last.allowed = Approval(op) /\ last.due = Due(op, cost) /\ last.quoted = Quoted(op)
    BY <2>1
  <2> HIDE DEF last, op, cost
  <2>3. last.outcome = "unpaid" =>
            last.moved \/ last.allowed < last.due \/ last.due > last.quoted
    BY <1>4, <2>2
  <2>4. ASSUME NEW i \in DOMAIN log', log'[i].outcome = "unpaid"
        PROVE  log'[i].moved \/ log'[i].allowed < log'[i].due \/ log'[i].due > log'[i].quoted
    <3>1. CASE i = Len(log) + 1
      BY <2>3, <2>4, <3>1 DEF last
    <3>2. CASE i \in 1..Len(log)
      BY <2>1, <2>4, <3>2 DEF LossInv, LossExplained
    <3>3. QED
      BY <2>1, <3>1, <3>2
  <2>5. QED
    BY <2>4 DEF LossExplained
<1>6. QED
  BY <1>3, <1>5

LEMMA LossStep == LossInv /\ [Next]_vars => LossInv'
<1> SUFFICES ASSUME LossInv, [Next]_vars PROVE LossInv'
  OBVIOUS
<1>1. TypeInv /\ TypeInv'
  BY TypeStep DEF LossInv
<1>2. ASSUME NEW op \in scene.menu, Validate(op) PROVE LossInv'
  BY <1>2, ValidateAccepts
<1>3. ASSUME StartExecution PROVE AcceptedInv' /\ LossExplained'
  BY <1>3 DEF StartExecution, LossInv, AcceptedInv, LossExplained, BuildPaymasterDigest, Reserve
<1>4. ASSUME Execute PROVE AcceptedInv' /\ LossExplained'
  <2>1. executing
    BY <1>4 DEF Execute
  <2>2. PICK gas \in 1..Head(bundle).op.gasLimit, fee \in {f \in Fees : f <= Head(bundle).op.maxFee} :
            \/ ExecuteReverted(gas, fee)
            \/ ExecuteFree(Head(bundle).op, gas, fee)
            \/ ExecuteCharged(Head(bundle).op, gas, fee)
            \/ ExecuteUncharged(Head(bundle).op, gas, fee)
    BY <1>4 DEF Execute
  <2>3. QED
    BY <1>1, <2>1, <2>2, ExecuteRevertedExplained, ExecuteFreeExplained, ExecuteChargedExplained,
       ExecuteUnchargedExplained
<1>5. ASSUME OwnerCall PROVE AcceptedInv' /\ LossExplained'
  BY <1>1, <1>5, OwnerCallType DEF AcceptedInv, LossExplained, LossInv
<1>6. ASSUME Tick PROVE AcceptedInv' /\ LossExplained'
  BY <1>6 DEF Tick, Between, bundleVars, AcceptedInv, LossExplained, LossInv
<1>7. ASSUME UNCHANGED vars PROVE AcceptedInv' /\ LossExplained'
  BY <1>7 DEF vars, bundleVars, LossInv, AcceptedInv, LossExplained, BuildPaymasterDigest, Reserve
<1>8. Configure \/ ChangeLimits \/ WithdrawUsdc \/ RecordGasPurchase \/ MoveDeposit => OwnerCall
  BY DEF Configure, ChangeLimits, WithdrawUsdc, RecordGasPurchase, MoveDeposit
<1>9. QED
  BY <1>1, <1>2, <1>3, <1>4, <1>5, <1>6, <1>7, <1>8 DEF Next, LossInv

\* validatePaymasterUserOp and postOp together: for every bundle, price, fee and
\* estimate, the paymaster pays an operation itself only if the sender moved the money
\* meanwhile, did not approve the charge, or owes more than its signed estimates cover.
THEOREM LossesAreExplained == Spec => []LossExplained
<1>1. Init => LossInv
  BY TypeInit DEF Init, LossInv, AcceptedInv, LossExplained
<1>2. LossInv => LossExplained
  BY DEF LossInv
<1>3. QED
  BY <1>1, <1>2, LossStep, PTL DEF Spec

-----------------------------------------------------------------------------
(* The gas of a window of time *)

\* The operations of the senders S that were charged in the time from a to b, among
\* those of the log l after the n-th; and their gas.
Charges(l, n, S, a, b) ==
    {i \in (n + 1)..Len(l) :
        l[i].outcome = "charged" /\ l[i].sender \in S /\ l[i].time \in a..b}

Gas(l, n, S, a, b) == SumOver([i \in DOMAIN l |-> l[i].gas], Charges(l, n, S, a, b))

LEMMA GasInIsGas ==
    ASSUME TypeInv, NEW S, NEW t \in Int
    PROVE  GasIn(S, t) = Gas(log, since, S, t, t + limits.period - 1)
<1> DEFINE C == Charges(log, since, S, t, t + limits.period - 1)
<1>1. GasIn(S, t) = SumOver([i \in C |-> log[i].gas], C)
  BY DEF GasIn, Charges
<1>2. C \subseteq DOMAIN log
  BY DEF Charges, TypeInv
<1> HIDE DEF C
<1>3. \A i \in C : [j \in C |-> log[j].gas][i] = [j \in DOMAIN log |-> log[j].gas][i]
  BY <1>2
<1>4. SumOver([i \in C |-> log[i].gas], C) = SumOver([i \in DOMAIN log |-> log[i].gas], C)
  BY <1>3, SumSame
<1>5. QED
  BY <1>1, <1>4 DEF Gas, C

LEMMA ChargesFinite ==
    ASSUME NEW l \in Seq(Entry), NEW n \in Nat, NEW S, NEW a \in Int, NEW b \in Int
    PROVE  /\ IsFiniteSet(Charges(l, n, S, a, b))
           /\ Charges(l, n, S, a, b) \subseteq DOMAIN l
           /\ \A i \in DOMAIN l : [j \in DOMAIN l |-> l[j].gas][i] \in Nat
           /\ Gas(l, n, S, a, b) \in Nat
<1>1. Len(l) \in Nat /\ DOMAIN l = 1..Len(l)
  OBVIOUS
<1>2. Charges(l, n, S, a, b) \subseteq (n + 1)..Len(l)
  BY DEF Charges
<1>3. IsFiniteSet((n + 1)..Len(l))
  BY <1>1, FS_Interval
<1>4. IsFiniteSet(Charges(l, n, S, a, b))
  BY <1>2, <1>3, FS_Subset
<1>5. Charges(l, n, S, a, b) \subseteq DOMAIN l
  BY <1>1, <1>2
<1>6. \A i \in DOMAIN l : l[i].gas \in Nat
  <2>1. \A i \in DOMAIN l : l[i] \in Entry
    OBVIOUS
  <2>2. \A x \in Entry : x.gas \in Nat
    BY DEF Entry
  <2>3. QED
    BY <2>1, <2>2
<1>7. \A i \in DOMAIN l : [j \in DOMAIN l |-> l[j].gas][i] \in Nat
  BY <1>6
<1>8. Gas(l, n, S, a, b) \in Nat
  BY <1>4, <1>5, <1>7, SumNat DEF Gas
<1>9. QED
  BY <1>4, <1>5, <1>7, <1>8

LEMMA GasNone ==
    ASSUME NEW l, NEW n, NEW S, NEW a, NEW b, Charges(l, n, S, a, b) = {}
    PROVE  Gas(l, n, S, a, b) = 0
BY SumEmpty DEF Gas

\* A window that holds what another one holds.
LEMMA GasWithin ==
    ASSUME NEW l \in Seq(Entry), NEW n \in Nat, NEW S, NEW a \in Int, NEW b \in Int,
           NEW c \in Int, NEW d \in Int,
           Charges(l, n, S, a, b) \subseteq Charges(l, n, S, c, d)
    PROVE  Gas(l, n, S, a, b) <= Gas(l, n, S, c, d)
<1> DEFINE f == [i \in DOMAIN l |-> l[i].gas]
<1>1. /\ IsFiniteSet(Charges(l, n, S, c, d)) /\ Charges(l, n, S, c, d) \subseteq DOMAIN l
      /\ \A i \in DOMAIN l : f[i] \in Nat
  BY ChargesFinite
<1> HIDE DEF f
<1>2. SumOver(f, Charges(l, n, S, a, b)) <= SumOver(f, Charges(l, n, S, c, d))
  BY <1>1, SumMonotone
<1>3. QED
  BY <1>2 DEF Gas, f

\* A window that two others cover.
LEMMA GasCovered ==
    ASSUME NEW l \in Seq(Entry), NEW n \in Nat, NEW S, NEW a \in Int, NEW b \in Int,
           NEW c \in Int, NEW d \in Int, NEW e \in Int, NEW g \in Int,
           Charges(l, n, S, a, b) \subseteq Charges(l, n, S, c, d) \cup Charges(l, n, S, e, g)
    PROVE  Gas(l, n, S, a, b) <= Gas(l, n, S, c, d) + Gas(l, n, S, e, g)
<1> DEFINE f == [i \in DOMAIN l |-> l[i].gas]
           A == Charges(l, n, S, a, b)
           B == Charges(l, n, S, c, d)
           C == Charges(l, n, S, e, g)
<1>1. /\ IsFiniteSet(B) /\ B \subseteq DOMAIN l /\ IsFiniteSet(C) /\ C \subseteq DOMAIN l
      /\ \A i \in DOMAIN l : f[i] \in Nat
  BY ChargesFinite
<1>2. SumOver(f, B) \in Nat /\ SumOver(f, C) \in Nat /\ SumOver(f, A) \in Nat
  BY ChargesFinite DEF Gas
<1> HIDE DEF f, A, B, C
<1>3. IsFiniteSet(B \cup C) /\ A \subseteq B \cup C /\ \A i \in B \cup C : f[i] \in Nat
  BY <1>1, FS_Union DEF A, B, C
<1>4. SumOver(f, B \cup C) \in Nat
  BY <1>3, SumNat
<1>5. SumOver(f, A) <= SumOver(f, B \cup C) /\ SumOver(f, B \cup C) <= SumOver(f, B) + SumOver(f, C)
  BY <1>1, <1>3, SumMonotone, SumUnion
<1>6. SumOver(f, A) <= SumOver(f, B) + SumOver(f, C)
  BY <1>2, <1>4, <1>5
<1>7. QED
  BY <1>6 DEF Gas, f, A, B, C

\* The log after one more operation.
LEMMA ChargesGrow ==
    ASSUME NEW l \in Seq(Entry), NEW n \in 0..Len(l), NEW S, NEW a \in Int, NEW b \in Int,
           NEW e \in Entry
    PROVE  Charges(Append(l, e), n, S, a, b) =
              IF e.outcome = "charged" /\ e.sender \in S /\ e.time \in a..b
              THEN Charges(l, n, S, a, b) \cup {Len(l) + 1}
              ELSE Charges(l, n, S, a, b)
<1> DEFINE m == Append(l, e)
<1>1. /\ Len(l) \in Nat /\ Len(m) = Len(l) + 1
      /\ \A i \in 1..Len(l) : m[i] = l[i]
      /\ m[Len(l) + 1] = e
  OBVIOUS
<1>2. (n + 1)..Len(m) = ((n + 1)..Len(l)) \cup {Len(l) + 1}
  BY <1>1
<1>3. \A i \in (n + 1)..Len(l) : m[i] = l[i]
  BY <1>1
<1> HIDE DEF m
<1>4. Charges(m, n, S, a, b) =
              IF e.outcome = "charged" /\ e.sender \in S /\ e.time \in a..b
              THEN Charges(l, n, S, a, b) \cup {Len(l) + 1}
              ELSE Charges(l, n, S, a, b)
  BY <1>1, <1>2, <1>3 DEF Charges
<1>5. QED
  BY <1>4 DEF m

LEMMA GasGrows ==
    ASSUME NEW l \in Seq(Entry), NEW n \in 0..Len(l), NEW S, NEW a \in Int, NEW b \in Int,
           NEW e \in Entry
    PROVE  Gas(Append(l, e), n, S, a, b) =
              IF e.outcome = "charged" /\ e.sender \in S /\ e.time \in a..b
              THEN Gas(l, n, S, a, b) + e.gas
              ELSE Gas(l, n, S, a, b)
<1> DEFINE m == Append(l, e)
           f == [i \in DOMAIN l |-> l[i].gas]
           g == [i \in DOMAIN m |-> m[i].gas]
           C == Charges(l, n, S, a, b)
<1>1. /\ Len(l) \in Nat /\ DOMAIN l = 1..Len(l) /\ DOMAIN m = 1..(Len(l) + 1)
      /\ \A i \in 1..Len(l) : m[i] = l[i]
      /\ m[Len(l) + 1] = e
  OBVIOUS
<1>2. C \subseteq DOMAIN l /\ IsFiniteSet(C) /\ \A i \in DOMAIN l : f[i] \in Nat
  BY ChargesFinite
<1>3. \A i \in C : f[i] = g[i]
  BY <1>1, <1>2
<1>4. g[Len(l) + 1] = e.gas /\ e.gas \in Nat
  BY <1>1 DEF Entry
<1>5. SumOver(f, C) = SumOver(g, C)
  BY <1>3, SumSame
<1>6. Len(l) + 1 \notin C
  BY <1>1, <1>2
<1>7. \A i \in C \cup {Len(l) + 1} : g[i] \in Nat
  BY <1>2, <1>3, <1>4
<1> HIDE DEF f, g, C
<1>8. SumOver(g, C \cup {Len(l) + 1}) = SumOver(f, C) + e.gas
  <2>1. SumOver(g, C \cup {Len(l) + 1}) = SumOver(g, C) + g[Len(l) + 1]
    BY <1>2, <1>6, <1>7, SumAdd
  <2>2. QED
    BY <1>4, <1>5, <2>1
<1>9. Gas(l, n, S, a, b) = SumOver(f, C) /\ Gas(m, n, S, a, b) = SumOver(g, Charges(m, n, S, a, b))
  BY DEF Gas, f, g, C
<1>10. Charges(m, n, S, a, b) =
              IF e.outcome = "charged" /\ e.sender \in S /\ e.time \in a..b
              THEN C \cup {Len(l) + 1} ELSE C
  BY ChargesGrow DEF C
<1> HIDE DEF m
<1>11. Gas(m, n, S, a, b) =
              IF e.outcome = "charged" /\ e.sender \in S /\ e.time \in a..b
              THEN Gas(l, n, S, a, b) + e.gas
              ELSE Gas(l, n, S, a, b)
  BY <1>5, <1>8, <1>9, <1>10
<1>12. QED
  BY <1>11 DEF m

-----------------------------------------------------------------------------
(* What the gas limits bound *)

UsageRecord == [used : [Senders -> Nat], last : [Senders -> Nat], total : Nat, reset : Nat]

LimitRecord == [period : Nat, maxGas : Nat, threshold : Nat]

\* No charge is later than its sender's last one, and none is after the global period.
ChargesBefore(l, n, u, lim) ==
    \A i \in (n + 1)..Len(l) : l[i].outcome = "charged" =>
        /\ l[i].time <= u.last[l[i].sender]
        /\ lim.period > 0 => l[i].time < u.reset + lim.period

\* A sender's counter covers every window that reaches to its last operation: the
\* windows before were over when the counter started anew.
SenderBounds(l, n, u, lim) ==
    \A s \in Senders, t \in Int :
        /\ u.last[s] < t + lim.period =>
              Gas(l, n, {s}, t, t + lim.period - 1) <= u.used[s]
        /\ Gas(l, n, {s}, t, t + lim.period - 1) <= lim.maxGas

\* The global counter covers the running period.  What was charged shortly before it
\* was charged in the period before, which had a counter of its own.
GlobalBounds(l, n, u, lim) ==
    /\ lim.period > 0 =>
          /\ Gas(l, n, Senders, u.reset, u.reset + lim.period - 1) <= u.total
          /\ Gas(l, n, Senders, u.reset, u.reset + lim.period - 1) <= lim.threshold
          /\ \A a \in Int : a > u.reset - lim.period =>
                Gas(l, n, Senders, a, u.reset - 1) <= lim.threshold
    /\ \A t \in Int : Gas(l, n, Senders, t, t + lim.period - 1) <= 2 * lim.threshold

WindowInv ==
    /\ usage.reset <= now /\ \A s \in Senders : usage.last[s] <= now
    /\ ChargesBefore(log, since, usage, limits)
    /\ SenderBounds(log, since, usage, limits)
    /\ GlobalBounds(log, since, usage, limits)

LEMMA EntrySender == \A e \in Entry : e.sender \in Senders /\ e.time \in Nat /\ e.gas \in Nat
BY DEF Entry

\* An operation of s of so much gas is charged at the time now: the counters before
\* (u) and after (v).
Counts(u, v, lim, time, s, gas) ==
    /\ v.used = [u.used EXCEPT ![s] = (IF time >= u.last[s] + lim.period THEN 0 ELSE @) + gas]
    /\ v.last = [u.last EXCEPT ![s] = time]
    /\ v.total = (IF time >= u.reset + lim.period THEN 0 ELSE u.total) + gas
    /\ v.reset = IF time >= u.reset + lim.period THEN time ELSE u.reset
    /\ v.used[s] <= lim.maxGas /\ v.total <= lim.threshold

LEMMA ChargeKeepsBefore ==
    ASSUME NEW l \in Seq(Entry), NEW n \in 0..Len(l), NEW u \in UsageRecord,
           NEW v \in UsageRecord, NEW lim \in LimitRecord, NEW time \in Nat, NEW e \in Entry,
           u.reset <= time, \A s \in Senders : u.last[s] <= time,
           e.time = time, Counts(u, v, lim, time, e.sender, e.gas),
           ChargesBefore(l, n, u, lim)
    PROVE  ChargesBefore(Append(l, e), n, v, lim)
<1> DEFINE m == Append(l, e)
<1>1. /\ Len(l) \in Nat /\ Len(m) = Len(l) + 1
      /\ \A i \in 1..Len(l) : m[i] = l[i] /\ l[i] \in Entry
      /\ m[Len(l) + 1] = e
  OBVIOUS
<1> HIDE DEF m
<1>2. /\ u.last \in [Senders -> Nat] /\ v.last = [u.last EXCEPT ![e.sender] = time]
      /\ u.reset \in Nat /\ lim.period \in Nat /\ e.sender \in Senders
      /\ v.reset = IF time >= u.reset + lim.period THEN time ELSE u.reset
  BY EntrySender DEF UsageRecord, LimitRecord, Counts
<1>3. ASSUME NEW i \in (n + 1)..Len(m), m[i].outcome = "charged"
      PROVE  /\ m[i].time <= v.last[m[i].sender]
             /\ lim.period > 0 => m[i].time < v.reset + lim.period
  <2>1. CASE i = Len(l) + 1
    BY <1>1, <1>2, <2>1
  <2>2. CASE i \in (n + 1)..Len(l)
    <3>1. m[i] = l[i] /\ l[i] \in Entry
      BY <1>1, <2>2
    <3>2. l[i].sender \in Senders /\ l[i].time \in Nat
      BY <3>1, EntrySender
    <3>3. /\ l[i].time <= u.last[l[i].sender]
          /\ lim.period > 0 => l[i].time < u.reset + lim.period
      BY <1>3, <2>2, <3>1 DEF ChargesBefore
    <3>4. u.last[l[i].sender] \in Nat /\ v.last[l[i].sender] >= u.last[l[i].sender]
      BY <1>2, <3>2
    <3>5. QED
      BY <1>2, <3>1, <3>2, <3>3, <3>4
  <2>3. QED
    BY <1>1, <2>1, <2>2
<1>4. QED
  BY <1>3 DEF ChargesBefore, m

\* The counter of the sender.
LEMMA ChargeKeepsSender ==
    ASSUME NEW l \in Seq(Entry), NEW n \in 0..Len(l), NEW u \in UsageRecord,
           NEW v \in UsageRecord, NEW lim \in LimitRecord, NEW time \in Nat, NEW e \in Entry,
           \A s \in Senders : u.last[s] <= time,
           e.outcome = "charged", e.time = time, Counts(u, v, lim, time, e.sender, e.gas),
           ChargesBefore(l, n, u, lim), SenderBounds(l, n, u, lim)
    PROVE  SenderBounds(Append(l, e), n, v, lim)
<1> DEFINE m == Append(l, e)
<1>1. /\ u.last \in [Senders -> Nat] /\ u.used \in [Senders -> Nat] /\ lim.period \in Nat
      /\ lim.maxGas \in Nat /\ e.sender \in Senders /\ e.gas \in Nat
      /\ v.used = [u.used EXCEPT ![e.sender] =
                      (IF time >= u.last[e.sender] + lim.period THEN 0 ELSE @) + e.gas]
      /\ v.last = [u.last EXCEPT ![e.sender] = time]
      /\ v.used[e.sender] <= lim.maxGas
  BY EntrySender DEF UsageRecord, LimitRecord, Counts
<1>2. ASSUME NEW s \in Senders, NEW t \in Int
      PROVE  /\ v.last[s] < t + lim.period =>
                    Gas(m, n, {s}, t, t + lim.period - 1) <= v.used[s]
             /\ Gas(m, n, {s}, t, t + lim.period - 1) <= lim.maxGas
  <2> DEFINE end == t + lim.period - 1
             before == Gas(l, n, {s}, t, end)
             after == Gas(m, n, {s}, t, end)
  <2>1. end \in Int /\ before \in Nat
    BY <1>1, ChargesFinite
  <2>2. after = IF s = e.sender /\ time \in t..end THEN before + e.gas ELSE before
    BY <2>1, GasGrows
  <2>3. /\ u.last[s] < t + lim.period => before <= u.used[s]
        /\ before <= lim.maxGas
    BY DEF SenderBounds
  <2>4. CASE s # e.sender
    BY <1>1, <2>2, <2>3, <2>4
  <2>5. CASE s = e.sender /\ time >= u.last[s] + lim.period /\ time < t + lim.period
    <3>1. u.last[s] \in Nat /\ u.last[s] < t
      BY <1>1, <2>5
    <3>2. ASSUME NEW i \in Charges(l, n, {s}, t, end) PROVE FALSE
      <4>1. /\ i \in (n + 1)..Len(l) /\ l[i].outcome = "charged" /\ l[i].sender = s
            /\ l[i].time >= t
        BY <1>1, <3>2 DEF Charges
      <4>2. l[i].time <= u.last[s]
        BY <4>1 DEF ChargesBefore
      <4>3. i \in 1..Len(l) /\ l[i] \in Entry
        BY <4>1
      <4>4. QED
        BY <3>1, <4>1, <4>2, <4>3, EntrySender
    <3>3. before = 0
      BY <3>2, GasNone
    <3>4. v.used[s] = e.gas
      BY <1>1, <2>5
    <3>5. QED
      BY <1>1, <2>2, <2>5, <3>3, <3>4
  <2>6. CASE s = e.sender /\ ~(time >= u.last[s] + lim.period) /\ time < t + lim.period
    <3>1. u.last[s] <= time /\ u.last[s] \in Nat /\ u.used[s] \in Nat
      BY <1>1
    <3>2. before <= u.used[s]
      BY <1>1, <2>3, <2>6, <3>1
    <3>3. v.used[s] = u.used[s] + e.gas
      BY <1>1, <2>6
    <3>4. after <= before + e.gas /\ v.used[s] <= lim.maxGas /\ after \in Nat
      BY <1>1, <2>1, <2>2, <2>6
    <3>5. after <= v.used[s]
      <4> HIDE DEF before, after
      <4>1. QED
        BY <1>1, <2>1, <3>1, <3>2, <3>3, <3>4
    <3>6. after <= lim.maxGas
      <4> HIDE DEF before, after
      <4>1. QED
        BY <1>1, <3>1, <3>3, <3>4, <3>5
    <3>7. QED
      BY <3>5, <3>6
  <2>7. CASE s = e.sender /\ ~(time < t + lim.period)
    <3>1. v.last[s] = time /\ time \notin t..end
      BY <1>1, <2>7
    <3>2. QED
      BY <1>1, <2>2, <2>3, <2>7, <3>1
  <2>8. QED
    BY <2>4, <2>5, <2>6, <2>7
<1>3. QED
  BY <1>2 DEF SenderBounds

\* The global counter.
LEMMA ChargeKeepsGlobal ==
    ASSUME NEW l \in Seq(Entry), NEW n \in 0..Len(l), NEW u \in UsageRecord,
           NEW v \in UsageRecord, NEW lim \in LimitRecord, NEW time \in Nat, NEW e \in Entry,
           u.reset <= time, \A s \in Senders : u.last[s] <= time,
           e.outcome = "charged", e.time = time, Counts(u, v, lim, time, e.sender, e.gas),
           ChargesBefore(l, n, u, lim), GlobalBounds(l, n, u, lim)
    PROVE  GlobalBounds(Append(l, e), n, v, lim)
<1> DEFINE m == Append(l, e)
           P == lim.period
           th == lim.threshold
           r == u.reset
           q == v.reset
           total == v.total
           gas == e.gas
           InL(a, b) == Gas(l, n, Senders, a, b)
           InM(a, b) == Gas(m, n, Senders, a, b)
<1>1. /\ u.total \in Nat /\ r \in Nat /\ P \in Nat /\ th \in Nat
      /\ total \in Nat /\ q \in Nat /\ e.sender \in Senders /\ gas \in Nat
      /\ time >= r + P => total = gas /\ q = time
      /\ time < r + P => total = u.total + gas /\ q = r
      /\ total <= th /\ q <= time /\ r <= time
  <2>1. /\ u.total \in Nat /\ r \in Nat /\ P \in Nat /\ th \in Nat /\ total \in Nat /\ q \in Nat
    BY DEF UsageRecord, LimitRecord
  <2>2. e.sender \in Senders /\ gas \in Nat
    BY EntrySender
  <2>3. /\ total = (IF time >= r + P THEN 0 ELSE u.total) + gas
        /\ q = IF time >= r + P THEN time ELSE r
        /\ total <= th
    BY DEF Counts
  <2> HIDE DEF P, th, r, q, total, gas
  <2>4. r <= time
    BY DEF r
  <2>5. QED
    BY <2>1, <2>2, <2>3, <2>4
<1>2. ASSUME NEW a \in Int, NEW b \in Int
      PROVE  /\ InL(a, b) \in Nat /\ InM(a, b) \in Nat
             /\ time \in a..b => InM(a, b) = InL(a, b) + gas
             /\ time \notin a..b => InM(a, b) = InL(a, b)
  <2>1. InL(a, b) \in Nat
    <3>1. n \in Nat
      OBVIOUS
    <3>2. QED
      BY <3>1, ChargesFinite
  <2>2. InM(a, b) = IF e.outcome = "charged" /\ e.sender \in Senders /\ e.time \in a..b
                    THEN InL(a, b) + e.gas ELSE InL(a, b)
    BY GasGrows
  <2> HIDE DEF InL, InM
  <2>3. QED
    BY SMTT(20), <1>1, <2>1, <2>2
<1>3. m \in Seq(Entry) /\ n \in Nat /\ ChargesBefore(m, n, v, lim)
  BY ChargeKeepsBefore
<1>4. \A i \in (n + 1)..Len(l) : l[i].outcome = "charged" =>
          l[i].time \in Nat /\ (P > 0 => l[i].time < r + P)
  <2>1. \A i \in (n + 1)..Len(l) : l[i] \in Entry
    OBVIOUS
  <2>2. QED
    BY <2>1, EntrySender DEF ChargesBefore
<1>5. \A i \in (n + 1)..Len(m) : m[i].outcome = "charged" /\ P > 0 => m[i].time < q + P
  BY <1>3 DEF ChargesBefore
<1>6. /\ P > 0 => /\ InL(r, r + P - 1) <= u.total
                  /\ InL(r, r + P - 1) <= th
                  /\ \A a \in Int : a > r - P => InL(a, r - 1) <= th
      /\ \A t \in Int : InL(t, t + P - 1) <= 2 * th
  BY DEF GlobalBounds
<1> HIDE DEF m, P, th, r, q, total, gas, InL, InM
<1>7. ASSUME P > 0
      PROVE  /\ InM(q, q + P - 1) <= total
             /\ \A a \in Int : a > q - P => InM(a, q - 1) <= th
  <2>1. CASE time >= r + P
    <3>1. q = time /\ total = gas
      BY <1>1, <2>1
    <3>2. Charges(l, n, Senders, time, time + P - 1) = {}
      BY <1>1, <1>4, <1>7, <2>1 DEF Charges
    <3>3. InL(time, time + P - 1) = 0
      BY <3>2, GasNone DEF InL
    <3>4. InM(time, time + P - 1) = gas
      <4>1. time + P - 1 \in Int /\ time \in time..(time + P - 1)
        BY <1>1, <1>7
      <4>2. InM(time, time + P - 1) = InL(time, time + P - 1) + gas
        BY <1>2, <4>1
      <4>3. QED
        BY <1>1, <3>3, <4>2
    <3>5. ASSUME NEW a \in Int, a > time - P
          PROVE  InM(a, time - 1) <= th
      <4>1. r + P - 1 \in Int /\ time - 1 \in Int /\ r \in Int /\ time \notin a..(time - 1)
        BY <1>1
      <4>2. InM(a, time - 1) = InL(a, time - 1)
        BY <1>2, <4>1
      <4>3. ASSUME NEW i \in Charges(l, n, Senders, a, time - 1)
            PROVE  i \in Charges(l, n, Senders, r, r + P - 1)
        <5>1. /\ i \in (n + 1)..Len(l) /\ l[i].outcome = "charged" /\ l[i].sender \in Senders
              /\ l[i].time \in a..(time - 1)
          BY <4>3 DEF Charges
        <5>2. l[i].time \in Nat /\ l[i].time < r + P
          BY <1>4, <1>7, <5>1
        <5>3. l[i].time \in r..(r + P - 1)
          BY <1>1, <2>1, <3>5, <5>1, <5>2
        <5>4. QED
          BY <5>1, <5>3 DEF Charges
      <4>4. InL(a, time - 1) <= InL(r, r + P - 1)
        BY <1>3, <4>1, <4>3, GasWithin DEF InL
      <4>5. InL(r, r + P - 1) \in Nat /\ InL(a, time - 1) \in Nat
        BY <1>2, <4>1
      <4>6. InL(r, r + P - 1) <= th
        BY <1>6, <1>7
      <4>7. InL(a, time - 1) <= th
        BY <1>1, <4>4, <4>5, <4>6
      <4>8. QED
        BY <4>2, <4>7
    <3>6. InM(q, q + P - 1) <= total
      <4>1. InM(time, time + P - 1) <= gas
        BY <1>1, <3>4
      <4>2. QED
        BY <3>1, <4>1, Zenon
    <3>7. \A a \in Int : a > q - P => InM(a, q - 1) <= th
      BY <3>1, <3>5
    <3>8. QED
      BY <3>6, <3>7
  <2>2. CASE time < r + P
    <3>1. q = r /\ total = u.total + gas
      BY <1>1, <2>2
    <3>2. r + P - 1 \in Int /\ r - 1 \in Int /\ r \in Int /\ time \in r..(r + P - 1)
      BY <1>1, <2>2
    <3>3. InM(r, r + P - 1) = InL(r, r + P - 1) + gas /\ InL(r, r + P - 1) \in Nat
      BY <1>2, <3>2
    <3>4. InM(r, r + P - 1) <= total
      <4>1. InL(r, r + P - 1) <= u.total
        BY <1>6, <1>7
      <4>2. QED
        BY <1>1, <3>1, <3>3, <4>1
    <3>5. ASSUME NEW a \in Int, a > r - P PROVE InM(a, r - 1) <= th
      <4>1. time \notin a..(r - 1)
        BY <1>1
      <4>2. InM(a, r - 1) = InL(a, r - 1)
        BY <1>2, <3>2, <4>1
      <4>3. QED
        BY <1>6, <1>7, <3>5, <4>2
    <3>6. QED
      BY <3>1, <3>4, <3>5
  <2>3. QED
    BY <1>1, <2>1, <2>2
<1>8. ASSUME P > 0 PROVE InM(q, q + P - 1) <= th
  <2>1. q \in Int /\ q + P - 1 \in Int
    BY <1>1
  <2>2. InM(q, q + P - 1) \in Nat
    BY <1>2, <2>1
  <2>3. QED
    BY <1>1, <1>7, <1>8, <2>2
<1>9. ASSUME NEW t \in Int PROVE InM(t, t + P - 1) <= 2 * th
  <2>1. t + P - 1 \in Int /\ q - 1 \in Int /\ q + P - 1 \in Int /\ q \in Int
    BY <1>1
  <2>2. CASE time \notin t..(t + P - 1)
    <3>1. InM(t, t + P - 1) = InL(t, t + P - 1)
      BY <1>2, <2>1, <2>2
    <3>2. QED
      BY <1>6, <3>1
  <2>3. CASE time \in t..(t + P - 1)
    <3>1. P > 0 /\ t > q - P
      BY <1>1, <2>3
    <3>2. ASSUME NEW i \in Charges(m, n, Senders, t, t + P - 1)
          PROVE  i \in Charges(m, n, Senders, t, q - 1)
                       \cup Charges(m, n, Senders, q, q + P - 1)
      <4>1. /\ i \in (n + 1)..Len(m) /\ m[i].outcome = "charged" /\ m[i].sender \in Senders
            /\ m[i].time \in t..(t + P - 1)
        BY <3>2 DEF Charges
      <4>2. m[i].time < q + P /\ m[i].time \in Int
        BY <1>5, <2>1, <3>1, <4>1
      <4>3. m[i].time \in t..(q - 1) \/ m[i].time \in q..(q + P - 1)
        BY <1>1, <4>1, <4>2
      <4>4. QED
        BY <4>1, <4>3 DEF Charges
    <3>3. InM(t, t + P - 1) <= InM(t, q - 1) + InM(q, q + P - 1)
      BY <1>3, <2>1, <3>2, GasCovered DEF InM
    <3>4. InM(t, q - 1) <= th /\ InM(q, q + P - 1) <= th
      BY <1>7, <1>8, <3>1
    <3>5. InM(t, t + P - 1) \in Nat /\ InM(t, q - 1) \in Nat /\ InM(q, q + P - 1) \in Nat
      BY <1>2, <2>1
    <3>6. QED
      BY <1>1, <3>3, <3>4, <3>5
  <2>4. QED
    BY <2>2, <2>3
<1>10. QED
  BY <1>7, <1>8, <1>9 DEF GlobalBounds, m, P, th, r, q, total, InM

\* What is refused or free leaves every window as it was.
LEMMA UnchargedKeeps ==
    ASSUME NEW l \in Seq(Entry), NEW n \in 0..Len(l), NEW u \in UsageRecord,
           NEW lim \in LimitRecord, NEW e \in Entry, e.outcome # "charged",
           ChargesBefore(l, n, u, lim), SenderBounds(l, n, u, lim), GlobalBounds(l, n, u, lim)
    PROVE  /\ ChargesBefore(Append(l, e), n, u, lim)
           /\ SenderBounds(Append(l, e), n, u, lim)
           /\ GlobalBounds(Append(l, e), n, u, lim)
<1> DEFINE m == Append(l, e)
<1>1. /\ Len(l) \in Nat /\ Len(m) = Len(l) + 1 /\ n \in Nat
      /\ \A i \in 1..Len(l) : m[i] = l[i]
      /\ m[Len(l) + 1] = e
  OBVIOUS
<1>2. \A S : \A a, b \in Int : Gas(m, n, S, a, b) = Gas(l, n, S, a, b)
  BY GasGrows
<1>3. u.reset \in Int /\ lim.period \in Int
  BY DEF UsageRecord, LimitRecord
<1> HIDE DEF m
<1>4. ChargesBefore(m, n, u, lim)
  <2>1. \A i \in (n + 1)..Len(m) : m[i].outcome = "charged" =>
            i \in (n + 1)..Len(l) /\ m[i] = l[i]
    BY <1>1
  <2>2. QED
    BY <2>1 DEF ChargesBefore
<1>5. SenderBounds(m, n, u, lim)
  <2>1. \A t \in Int : t + lim.period - 1 \in Int
    BY <1>3
  <2>2. \A s \in Senders, t \in Int :
            Gas(m, n, {s}, t, t + lim.period - 1) = Gas(l, n, {s}, t, t + lim.period - 1)
    BY <1>2, <2>1
  <2>3. QED
    BY <2>2 DEF SenderBounds
<1>6. GlobalBounds(m, n, u, lim)
  <2>1. /\ \A t \in Int : t + lim.period - 1 \in Int
        /\ u.reset - 1 \in Int
    BY <1>3
  <2>2. /\ \A t \in Int : Gas(m, n, Senders, t, t + lim.period - 1)
                              = Gas(l, n, Senders, t, t + lim.period - 1)
        /\ \A t \in Int : Gas(m, n, Senders, t, u.reset - 1) = Gas(l, n, Senders, t, u.reset - 1)
    BY <1>2, <2>1
  <2>3. QED
    BY <1>3, <2>2 DEF GlobalBounds
<1>7. QED
  BY <1>4, <1>5, <1>6 DEF m

\* New limits count from now on.
LEMMA NothingCounted ==
    ASSUME NEW l \in Seq(Entry), NEW u \in UsageRecord, NEW lim \in LimitRecord
    PROVE  /\ ChargesBefore(l, Len(l), u, lim)
           /\ SenderBounds(l, Len(l), u, lim)
           /\ GlobalBounds(l, Len(l), u, lim)
<1>1. (Len(l) + 1)..Len(l) = {}
  OBVIOUS
<1>2. \A S, a, b : Gas(l, Len(l), S, a, b) = 0
  BY <1>1, GasNone DEF Charges
<1>3. /\ u.total \in Nat /\ \A s \in Senders : u.used[s] \in Nat
      /\ lim.maxGas \in Nat /\ lim.threshold \in Nat
  BY DEF UsageRecord, LimitRecord
<1>4. ChargesBefore(l, Len(l), u, lim)
  BY <1>1 DEF ChargesBefore
<1>5. SenderBounds(l, Len(l), u, lim)
  BY <1>2, <1>3 DEF SenderBounds
<1>6. GlobalBounds(l, Len(l), u, lim)
  BY <1>2, <1>3 DEF GlobalBounds
<1>7. QED
  BY <1>4, <1>5, <1>6

LEMMA WindowTypes ==
    ASSUME TypeInv
    PROVE  /\ log \in Seq(Entry) /\ since \in 0..Len(log) /\ now \in Nat
           /\ usage \in UsageRecord /\ limits \in LimitRecord
BY DEF TypeInv, PaymasterTypeOK, UsageRecord, LimitRecord

LEMMA WindowInit == Init => WindowInv
<1> SUFFICES ASSUME Init PROVE WindowInv
  OBVIOUS
<1>1. TypeInv
  BY TypeInit
<1>2. log = <<>> /\ Len(<<>>) = 0 /\ since = 0
  BY DEF Init
<1>3. ChargesBefore(log, since, usage, limits) /\ SenderBounds(log, since, usage, limits)
         /\ GlobalBounds(log, since, usage, limits)
  <2>1. since = Len(log)
    BY <1>2
  <2>2. QED
    BY <1>1, <2>1, WindowTypes, NothingCounted
<1>4. usage.reset <= now /\ \A s \in Senders : usage.last[s] <= now
  BY LimitsAssumption DEF Init, PaymasterInit
<1>5. QED
  BY <1>3, <1>4 DEF WindowInv

\* Nothing counts: the log grows by an operation that was not charged.
LEMMA ConcludeKeepsWindows ==
    ASSUME TypeInv, TypeInv', WindowInv, NEW gas, NEW fee, NEW outcome, NEW due, NEW allowed,
           Conclude(gas, fee, outcome, due, allowed), outcome # "charged",
           UNCHANGED contractVars
    PROVE  WindowInv'
<1>1. PICK e : log' = Append(log, e) /\ e.outcome = outcome
  <2> DEFINE e == [sender |-> Head(bundle).op.sender, quoted |-> Quoted(Head(bundle).op),
                   moved |-> Head(bundle).shared \/ Head(bundle).op.spend > 0,
                   time |-> now, gas |-> IF fee > 0 THEN gas ELSE 0,
                   outcome |-> outcome, due |-> due, allowed |-> allowed]
  <2>1. log' = Append(log, e) /\ e.outcome = outcome
    BY DEF Conclude
  <2> HIDE DEF e
  <2>2. QED
    BY <2>1
<1>2. e \in Entry
  <2>1. log' \in Seq(Entry) /\ log \in Seq(Entry)
    BY DEF TypeInv
  <2>2. log'[Len(log) + 1] = e /\ Len(log) + 1 \in DOMAIN log'
    BY <1>1, <2>1
  <2>3. QED
    BY <2>1, <2>2
<1>3. usage' = usage /\ limits' = limits /\ since' = since /\ now' = now
  BY DEF Conclude, contractVars
<1>4. /\ log \in Seq(Entry) /\ since \in 0..Len(log)
      /\ usage \in UsageRecord /\ limits \in LimitRecord
  BY WindowTypes
<1>5. /\ ChargesBefore(Append(log, e), since, usage, limits)
      /\ SenderBounds(Append(log, e), since, usage, limits)
      /\ GlobalBounds(Append(log, e), since, usage, limits)
  BY <1>1, <1>2, <1>4, UnchargedKeeps DEF WindowInv
<1>6. QED
  BY <1>1, <1>3, <1>5 DEF WindowInv

LEMMA ChargeKeepsWindows ==
    ASSUME TypeInv, TypeInv', WindowInv, executing,
           NEW gas \in 1..Head(bundle).op.gasLimit,
           NEW fee \in {f \in Fees : f <= Head(bundle).op.maxFee},
           ExecuteCharged(Head(bundle).op, gas, fee)
    PROVE  WindowInv'
<1> DEFINE op == Head(bundle).op
           cost == gas * fee
           units == GasUnits(cost, fee)
<1>1. /\ Conclude(gas, fee, "charged", Due(op, cost), Approval(op))
      /\ CountGas(op.sender, units) /\ limits' = limits
      /\ ~SenderLimitExceeded(op.sender, units) /\ ~BreakerExceeded(op.sender, units)
  BY DEF ExecuteCharged, PostOpReverts
<1>2. op \in Op /\ op.sender \in Senders /\ PaymasterTypeOK
  BY HeadItem, OpFields DEF TypeInv
<1>3. units = (IF fee > 0 THEN gas ELSE 0) /\ units \in Nat
  BY ExecuteFields, UnitsAreGas, UnitsNat
<1>4. PICK e : log' = Append(log, e) /\ e.outcome = "charged" /\ e.sender = op.sender
               /\ e.time = now /\ e.gas = units
  <2> DEFINE e == [sender |-> op.sender, quoted |-> Quoted(op),
                   moved |-> Head(bundle).shared \/ op.spend > 0,
                   time |-> now, gas |-> IF fee > 0 THEN gas ELSE 0,
                   outcome |-> "charged", due |-> Due(op, cost), allowed |-> Approval(op)]
  <2>1. log' = Append(log, e)
    BY <1>1 DEF Conclude
  <2>2. e.outcome = "charged" /\ e.sender = op.sender /\ e.time = now /\ e.gas = units
    BY <1>3
  <2> HIDE DEF e
  <2>3. QED
    BY <2>1, <2>2
<1> HIDE DEF op, cost, units
<1>5. e \in Entry
  <2>1. log' \in Seq(Entry) /\ log \in Seq(Entry)
    BY DEF TypeInv
  <2>2. log'[Len(log) + 1] = e /\ Len(log) + 1 \in DOMAIN log'
    BY <1>4, <2>1
  <2>3. QED
    BY <2>1, <2>2
<1>6. since' = since /\ now' = now
  BY <1>1 DEF Conclude
<1>7. /\ log \in Seq(Entry) /\ since \in 0..Len(log) /\ now \in Nat
      /\ usage \in UsageRecord /\ limits \in LimitRecord /\ usage' \in UsageRecord
  BY WindowTypes DEF TypeInv, PaymasterTypeOK, UsageRecord
<1>8. Counts(usage, usage', limits, now, e.sender, e.gas)
  <2> DEFINE s == op.sender
  <2>1. /\ Rolled(s).used = [usage.used EXCEPT ![s] = IF SenderIdle(s) THEN 0 ELSE @]
        /\ Rolled(s).total = IF PeriodOver THEN 0 ELSE usage.total
        /\ Rolled(s).reset = IF PeriodOver THEN now ELSE usage.reset
    BY <1>2, RolledType
  <2>2. /\ usage'.used = [Rolled(s).used EXCEPT ![s] = @ + units]
        /\ usage'.last = [usage.last EXCEPT ![s] = now]
        /\ usage'.total = Rolled(s).total + units
        /\ usage'.reset = Rolled(s).reset
    BY <1>1, <1>2, <1>3, CountGasType
  <2>3. usage.used \in [Senders -> Nat]
    BY <1>7 DEF UsageRecord
  <2>4. usage'.used = [usage.used EXCEPT ![s] =
                          (IF now >= usage.last[s] + limits.period THEN 0 ELSE @) + units]
    BY <1>2, <2>1, <2>2, <2>3 DEF SenderIdle
  <2>5. /\ usage'.total = (IF now >= usage.reset + limits.period THEN 0 ELSE usage.total) + units
        /\ usage'.reset = IF now >= usage.reset + limits.period THEN now ELSE usage.reset
    BY <2>1, <2>2 DEF PeriodOver
  <2>6. ~(Rolled(s).used[s] + units > limits.maxGas) /\ ~(Rolled(s).total + units > limits.threshold)
    BY <1>1 DEF SenderLimitExceeded, BreakerExceeded
  <2>7. /\ usage'.used[s] = Rolled(s).used[s] + units /\ usage'.used[s] \in Nat
        /\ usage'.total \in Nat /\ limits.maxGas \in Nat /\ limits.threshold \in Nat
    <3>1. usage'.used[s] = Rolled(s).used[s] + units
      BY <1>2, <2>1, <2>2, <2>3
    <3>2. QED
      BY <1>2, <1>7, <3>1 DEF UsageRecord, LimitRecord
  <2>8. usage'.used[s] <= limits.maxGas /\ usage'.total <= limits.threshold
    BY <2>2, <2>6, <2>7
  <2>9. QED
    BY <1>4, <2>2, <2>4, <2>5, <2>8 DEF Counts
<1>9. /\ ChargesBefore(Append(log, e), since, usage', limits)
      /\ SenderBounds(Append(log, e), since, usage', limits)
      /\ GlobalBounds(Append(log, e), since, usage', limits)
  BY <1>4, <1>5, <1>7, <1>8, ChargeKeepsBefore, ChargeKeepsSender, ChargeKeepsGlobal DEF WindowInv
<1>10. usage'.reset <= now /\ \A s \in Senders : usage'.last[s] <= now
  <2>1. /\ usage'.last = [usage.last EXCEPT ![e.sender] = now] /\ usage.last \in [Senders -> Nat]
        /\ usage'.reset = now \/ usage'.reset = usage.reset
    BY <1>7, <1>8 DEF Counts, UsageRecord
  <2>2. QED
    BY <1>7, <2>1 DEF WindowInv
<1>11. QED
  BY <1>1, <1>4, <1>6, <1>9, <1>10 DEF WindowInv

LEMMA ExecuteKeepsWindows == ASSUME TypeInv, TypeInv', WindowInv, Execute PROVE WindowInv'
<1>1. executing
  BY DEF Execute
<1>2. PICK gas \in 1..Head(bundle).op.gasLimit, fee \in {f \in Fees : f <= Head(bundle).op.maxFee} :
          \/ ExecuteReverted(gas, fee)
          \/ ExecuteFree(Head(bundle).op, gas, fee)
          \/ ExecuteCharged(Head(bundle).op, gas, fee)
          \/ ExecuteUncharged(Head(bundle).op, gas, fee)
  BY DEF Execute
<1> DEFINE op == Head(bundle).op
<1>3. CASE ExecuteReverted(gas, fee)
  <2>1. Conclude(gas, fee, "reverted", 0, 0) /\ UNCHANGED contractVars
    BY <1>3 DEF ExecuteReverted
  <2>2. QED
    BY <2>1, ConcludeKeepsWindows
<1>4. CASE ExecuteFree(op, gas, fee)
  <2>1. Conclude(gas, fee, "free", 0, 0) /\ UNCHANGED contractVars
    BY <1>4 DEF ExecuteFree
  <2>2. QED
    BY <2>1, ConcludeKeepsWindows
<1>5. CASE ExecuteCharged(op, gas, fee)
  BY <1>1, <1>5, ChargeKeepsWindows
<1>6. CASE ExecuteUncharged(op, gas, fee)
  <2>1. PICK outcome \in {"sender limit", "breaker", "unpaid"} :
            Conclude(gas, fee, outcome, Due(op, gas * fee), Approval(op))
    BY <1>6 DEF ExecuteUncharged
  <2>2. UNCHANGED contractVars /\ outcome # "charged"
    BY <1>6, <2>1 DEF ExecuteUncharged
  <2>3. QED
    BY <2>1, <2>2, ConcludeKeepsWindows
<1>7. QED
  BY <1>2, <1>3, <1>4, <1>5, <1>6

LEMMA ChangeLimitsKeepsWindows ==
    ASSUME TypeInv, TypeInv', WindowInv, ChangeLimits PROVE WindowInv'
<1>1. log' = log /\ since' = Len(log') /\ now' = now
  BY OwnerCallType DEF ChangeLimits
<1>2. log' \in Seq(Entry) /\ usage' \in UsageRecord /\ limits' \in LimitRecord
  BY DEF TypeInv, PaymasterTypeOK, UsageRecord, LimitRecord
<1>3. /\ ChargesBefore(log', since', usage', limits')
      /\ SenderBounds(log', since', usage', limits')
      /\ GlobalBounds(log', since', usage', limits')
  BY <1>1, <1>2, NothingCounted
<1>4. usage'.last = usage.last /\ (usage'.reset = usage.reset \/ usage'.reset = now)
  BY DEF ChangeLimits, SetLimits, ResetGasUsage, TypeInv, PaymasterTypeOK
<1>5. now \in Nat
  BY DEF TypeInv, PaymasterTypeOK
<1>6. usage'.reset <= now' /\ \A s \in Senders : usage'.last[s] <= now'
  BY <1>1, <1>4, <1>5 DEF WindowInv
<1>7. QED
  BY <1>3, <1>6 DEF WindowInv

\* Steps that charge nothing and change no limit.
LEMMA OthersKeepWindows ==
    ASSUME TypeInv, WindowInv, UNCHANGED <<log, since, usage, limits>>, now' \in {now, now + 1}
    PROVE  WindowInv'
<1>1. now \in Nat /\ usage \in UsageRecord
  BY WindowTypes
<1>2. usage'.reset <= now' /\ \A s \in Senders : usage'.last[s] <= now'
  BY <1>1 DEF WindowInv, UsageRecord
<1>3. QED
  BY <1>2 DEF WindowInv

LEMMA WindowStep == TypeInv /\ WindowInv /\ [Next]_vars => WindowInv'
<1> SUFFICES ASSUME TypeInv, WindowInv, [Next]_vars PROVE WindowInv'
  OBVIOUS
<1>1. TypeInv'
  BY TypeStep
<1>2. ASSUME NEW op \in scene.menu, Validate(op) PROVE WindowInv'
  BY <1>2, OthersKeepWindows DEF Validate, contractVars
<1>3. ASSUME StartExecution PROVE WindowInv'
  BY <1>3, OthersKeepWindows DEF StartExecution, contractVars
<1>4. ASSUME Execute PROVE WindowInv'
  BY <1>1, <1>4, ExecuteKeepsWindows
<1>5. ASSUME Configure PROVE WindowInv'
  <2>1. log' = log /\ since' = since /\ now' = now /\ limits' = limits /\ usage' = usage
    BY <1>5 DEF Configure, OwnerCall, SetVerifier, SetTreasury, SetPaused, SetAllowAllTargets,
                SetTargetAllowed
  <2>2. QED
    BY <2>1, OthersKeepWindows
<1>6. ASSUME ChangeLimits PROVE WindowInv'
  BY <1>1, <1>6, ChangeLimitsKeepsWindows
<1>7. ASSUME WithdrawUsdc PROVE WindowInv'
  BY <1>7, OthersKeepWindows DEF WithdrawUsdc, OwnerCall, contractVars
<1>8. ASSUME RecordGasPurchase PROVE WindowInv'
  BY <1>8, OthersKeepWindows DEF RecordGasPurchase, OwnerCall, RecordPurchase
<1>9. ASSUME MoveDeposit PROVE WindowInv'
  BY <1>9, OthersKeepWindows DEF MoveDeposit, OwnerCall, contractVars
<1>10. ASSUME Tick PROVE WindowInv'
  BY <1>10, OthersKeepWindows DEF Tick, contractVars, bundleVars
<1>11. CASE UNCHANGED vars
  BY <1>11, OthersKeepWindows DEF vars, contractVars, bundleVars
<1>12. QED
  BY <1>2, <1>3, <1>4, <1>5, <1>6, <1>7, <1>8, <1>9, <1>10, <1>11 DEF Next

LEMMA WindowsHold == TypeInv /\ WindowInv => GasWindows
<1> SUFFICES ASSUME TypeInv, WindowInv PROVE GasWindows
  OBVIOUS
<1>1. StartTime..now \subseteq Int
  BY LimitsAssumption DEF TypeInv, PaymasterTypeOK
<1>2. ASSUME NEW s \in Senders, NEW t \in StartTime..now PROVE GasIn({s}, t) <= limits.maxGas
  <2>1. t \in Int
    BY <1>1
  <2>2. GasIn({s}, t) = Gas(log, since, {s}, t, t + limits.period - 1)
    BY <2>1, GasInIsGas
  <2>3. Gas(log, since, {s}, t, t + limits.period - 1) <= limits.maxGas
    BY <2>1 DEF WindowInv, SenderBounds
  <2>4. QED
    BY <2>2, <2>3
<1>3. ASSUME NEW t \in StartTime..now PROVE GasIn(Senders, t) <= 2 * limits.threshold
  <2>1. t \in Int
    BY <1>1
  <2>2. GasIn(Senders, t) = Gas(log, since, Senders, t, t + limits.period - 1)
    BY <2>1, GasInIsGas
  <2>3. Gas(log, since, Senders, t, t + limits.period - 1) <= 2 * limits.threshold
    BY <2>1 DEF WindowInv, GlobalBounds
  <2>4. QED
    BY <2>2, <2>3
<1>4. QED
  BY <1>2, <1>3 DEF GasWindows, SenderWindow, GlobalWindow

\* _enforceGasLimits: for every period, limit and threshold, and however operations are
\* spread over bundles and time, no sender is charged for more than the rate limit in
\* any window of one period, and all together for no more than twice the threshold.
THEOREM GasLimitsBound == Spec => []GasWindows
<1>1. TypeInv /\ [Next]_vars => TypeInv'
  BY TypeStep
<1>2. QED
  BY <1>1, TypeInit, WindowInit, WindowStep, WindowsHold, PTL DEF Spec

=============================================================================
