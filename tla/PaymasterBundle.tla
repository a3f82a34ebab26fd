--------------------------- MODULE PaymasterBundle ---------------------------
(***************************************************************************)
(* Project4Paymaster under the EntryPoint: a bundle of user operations is   *)
(* one transaction, which validates every operation of the bundle before   *)
(* it executes the first.  What the contract saw when it accepted an       *)
(* operation may be stale when postOp charges it.                          *)
(*                                                                         *)
(* The EntryPoint, the USDC token and the senders' accounts are external.  *)
(* A bundle with an operation that does not validate reverts as a whole,   *)
(* so only operations that do are added.  When postOp reverts, the         *)
(* EntryPoint undoes it with the operation's own effects and charges the   *)
(* paymaster's deposit all the same.                                       *)
(***************************************************************************)
EXTENDS Paymaster, Sequences

CONSTANTS
    Scenes,                     \* bound: the operations users may ask for in one
                                \* behaviour, the senders whose account exists, the
                                \* paymaster's deposit, the last block.timestamp
    Fees,                       \* gas prices a block may have
    InitUsers,                  \* USDC of each sender
    MaxBundle,                  \* bound: operations in a bundle
    MaxOps,                     \* bound: operations in a behaviour
    MaxChanges                  \* bound: calls of the owner

ASSUME ScenesAssumption ==
    Scenes \subseteq [menu : SUBSET Op, deployed : SUBSET Senders, deposit : Nat, until : Nat]
ASSUME MoneyAssumption == Fees \subseteq Nat /\ InitUsers \in [Senders -> Nat]
ASSUME BundleBoundsAssumption ==
    MaxBundle \in Nat /\ MaxOps \in Nat /\ MaxChanges \in Nat

VARIABLES
    scene,
    deposit,                    \* balanceOf[paymaster] at the EntryPoint
    deployed,                   \* senders whose account exists
    bundle,                     \* operations validated and not executed
    executing,                  \* the bundle's second phase
    log,                        \* history: what became of each operation
    since,                      \* history: Len(log) when the limits last changed
    changes                     \* calls of the owner so far (bound)

bundleVars == <<scene, deposit, deployed, bundle, executing, log, since, changes>>
vars == <<contractVars, now, usdc, allowance, bundleVars>>

Outcomes == {"charged", "free", "reverted", "sender limit", "breaker", "unpaid"}

\* moved: the operation pays somebody, or another of its sender went before it in the
\* bundle.
\* quoted: what the terms that were signed say the operation may cost.
\* gas: what the operation used, if gas had a price.
\* allowed: what the sender let the paymaster take, when it was charged.
Entry == [sender : Senders, moved : BOOLEAN, quoted : Nat, time : Nat, gas : Nat,
          outcome : Outcomes, due : Nat, allowed : Nat]

TypeOK ==
    /\ PaymasterTypeOK
    /\ scene \in Scenes
    /\ deposit \in Nat
    /\ deployed \in SUBSET Senders
    /\ \A i \in DOMAIN bundle : bundle[i] \in [op : scene.menu, shared : BOOLEAN]
    /\ executing \in BOOLEAN
    /\ \A i \in DOMAIN log : log[i] \in Entry
    /\ since \in 0..Len(log)
    /\ changes \in 0..MaxChanges

Init ==
    /\ PaymasterInit
    /\ scene \in Scenes
    /\ usdc = [a \in Accounts |-> IF a \in Senders THEN InitUsers[a] ELSE 0]
    /\ allowance = [s \in Senders |-> 0]
    /\ deposit = scene.deposit
    /\ deployed = scene.deployed
    /\ bundle = <<>>
    /\ executing = FALSE
    /\ log = <<>>
    /\ since = 0
    /\ changes = 0

Between == bundle = <<>> /\ ~executing

-----------------------------------------------------------------------------
(* handleOps *)

\* The most an operation can cost, taken from the deposit when it validates.
Prefund(op) == op.gasLimit * op.maxFee

\* The sender's account is created on the way if it does not exist.
Validate(op) ==
    /\ ~executing
    /\ Len(bundle) < MaxBundle /\ Len(log) + Len(bundle) < MaxOps
    /\ op.initCode <=> op.sender \notin deployed
    /\ deployed' = deployed \cup {op.sender}
    /\ Validates(op)
    /\ PackValidationData(op)
    /\ deposit >= Prefund(op)
    /\ deposit' = deposit - Prefund(op)
    /\ bundle' = Append(bundle, [op |-> op,
           shared |-> \E i \in DOMAIN bundle : bundle[i].op.sender = op.sender])
    /\ UNCHANGED <<contractVars, now, usdc, allowance, scene, executing, log, since,
                   changes>>

StartExecution ==
    /\ ~executing
    /\ bundle # <<>>
    /\ executing' = TRUE
    /\ UNCHANGED <<contractVars, now, usdc, allowance, scene, deposit, deployed, bundle,
                   log, since, changes>>

\* What the estimates the api signed say the operation may cost at the fee it bids.
Quoted(op) ==
    LET units == IF op.initCode THEN op.seal.deploy ELSE op.seal.normal
    IN  (units * op.maxFee * op.seal.price) \div Scale

\* The head of the bundle is done with; the deposit gets back what it did not cost.
Conclude(gas, fee, outcome, due, allowed) ==
    LET head == Head(bundle) IN
    /\ bundle' = Tail(bundle)
    /\ executing' = (Len(bundle) > 1)
    /\ deposit' = deposit + Prefund(head.op) - gas * fee
    /\ log' = Append(log, [sender |-> head.op.sender, quoted |-> Quoted(head.op),
                           moved |-> head.shared \/ head.op.spend > 0,
                           time |-> now, gas |-> IF fee > 0 THEN gas ELSE 0,
                           outcome |-> outcome,
                           due |-> due, allowed |-> allowed])
    /\ UNCHANGED <<now, scene, deployed, since, changes>>

\* The operation's own effects: it pays somebody, and may set its approval.
Spent(op) == [usdc EXCEPT ![op.sender] = @ - op.spend, ![Other] = @ + op.spend]

Approval(op) == IF op.keep THEN allowance[op.sender] ELSE op.approve

\* The operation itself reverts: postOp returns at once.
ExecuteReverted(gas, fee) ==
    /\ Conclude(gas, fee, "reverted", 0, 0)
    /\ UNCHANGED <<contractVars, usdc, allowance>>

\* The signed price is zero: there is no context, so postOp is not called.
ExecuteFree(op, gas, fee) ==
    /\ usdc[op.sender] >= op.spend
    /\ op.price = 0
    /\ Conclude(gas, fee, "free", 0, 0)
    /\ usdc' = Spent(op)
    /\ allowance' = [allowance EXCEPT ![op.sender] = Approval(op)]
    /\ UNCHANGED contractVars

\* Variant with a mistake: only the transfer to the treasury is looked at.
PaysTreasury(op, cost) ==
    /\ Spent(op)[op.sender] >= BaseCharge(op, cost)
    /\ Approval(op) >= BaseCharge(op, cost)

\* Both transfers of postOp go through: to the treasury and to the referrer.
Pays(op, cost) ==
    /\ Spent(op)[op.sender] >= Due(op, cost)
    /\ Approval(op) >= Due(op, cost)

PostOpReverts(op, units, cost) ==
    \/ SenderLimitExceeded(op.sender, units)
    \/ BreakerExceeded(op.sender, units)
    \/ ~Pays(op, cost)

ExecuteCharged(op, gas, fee) ==
    LET cost == gas * fee
        units == GasUnits(cost, fee)
        base == BaseCharge(op, cost)
        referral == ReferralCharge(op, cost)
    IN  /\ usdc[op.sender] >= op.spend
        /\ op.price > 0
        /\ ~PostOpReverts(op, units, cost)
        /\ Conclude(gas, fee, "charged", Due(op, cost), Approval(op))
        /\ usdc' = [a \in Accounts |->
               Spent(op)[a] - (IF a = op.sender THEN base + referral ELSE 0)
                            + (IF a = treasury THEN base ELSE 0)
                            + (IF a = Other THEN referral ELSE 0)]
        /\ allowance' = [allowance EXCEPT
               ![op.sender] = Approval(op) - Due(op, cost)]
        /\ CountGas(op.sender, units)
        /\ UNCHANGED <<verifier, treasury, paused, allowAllTargets, targetAllowed,
                       limits, purchases>>

\* postOp reverts: nothing it did remains, paused = true included.
ExecuteUncharged(op, gas, fee) ==
    LET cost == gas * fee
        units == GasUnits(cost, fee)
        outcome == IF SenderLimitExceeded(op.sender, units) THEN "sender limit"
                   ELSE IF BreakerExceeded(op.sender, units) THEN "breaker"
                   ELSE "unpaid"
    IN  /\ usdc[op.sender] >= op.spend
        /\ op.price > 0
        /\ PostOpReverts(op, units, cost)
        /\ Conclude(gas, fee, outcome, Due(op, cost), Approval(op))
        /\ UNCHANGED <<contractVars, usdc, allowance>>

Execute ==
    /\ executing
    /\ LET op == Head(bundle).op IN
       \E gas \in 1..op.gasLimit, fee \in {f \in Fees : f <= op.maxFee} :
           \/ ExecuteReverted(gas, fee)
           \/ ExecuteFree(op, gas, fee)
           \/ ExecuteCharged(op, gas, fee)
           \/ ExecuteUncharged(op, gas, fee)

-----------------------------------------------------------------------------
(* The owner, and time *)

\* Each call is a transaction of its own, between two bundles.
OwnerCall ==
    /\ Between
    /\ changes < MaxChanges
    /\ changes' = changes + 1
    /\ UNCHANGED <<now, allowance, scene, deployed, bundle, executing, log>>

Configure ==
    /\ OwnerCall
    /\ \/ \E key \in Keys : SetVerifier(key)
       \/ \E account \in {Self, Other} : SetTreasury(account)
       \/ \E value \in BOOLEAN : SetPaused(value) \/ SetAllowAllTargets(value)
       \/ \E target \in Targets, allowed \in BOOLEAN : SetTargetAllowed(target, allowed)
    /\ UNCHANGED <<usdc, deposit, since>>

ChangeLimits ==
    /\ OwnerCall
    /\ \/ \E period \in {InitPeriod, InitPeriod + 1}, maxGas \in {InitMaxGas, InitMaxGas + 1} :
              SetLimits([limits EXCEPT !.period = period, !.maxGas = maxGas])
       \/ \E threshold \in {InitThreshold, InitThreshold - 1} \cap Nat :
              SetLimits([limits EXCEPT !.threshold = threshold])
       \/ ResetGasUsage
    /\ since' = Len(log)
    /\ UNCHANGED <<usdc, deposit>>

\* The refill's two calls: USDC leaves for the owner's wallet, and what it
\* bought is recorded.
WithdrawUsdc ==
    /\ OwnerCall
    /\ \E amount \in 1..usdc[Self] :
           usdc' = [usdc EXCEPT ![Self] = @ - amount, ![Other] = @ + amount]
    /\ UNCHANGED <<contractVars, deposit, since>>

RecordGasPurchase ==
    /\ OwnerCall
    /\ RecordPurchase(1, 1)
    /\ UNCHANGED <<usdc, deposit, since>>

\* deposit and withdrawTo.
MoveDeposit ==
    /\ OwnerCall
    /\ \/ deposit' = deposit + scene.deposit
       \/ deposit >= scene.deposit /\ deposit' = deposit - scene.deposit
    /\ UNCHANGED <<contractVars, usdc, since>>

Tick ==
    /\ Between
    /\ now < scene.until
    /\ now' = now + 1
    /\ UNCHANGED <<contractVars, usdc, allowance, bundleVars>>

Next ==
    \/ \E op \in scene.menu : Validate(op)
    \/ StartExecution
    \/ Execute
    \/ Configure
    \/ ChangeLimits
    \/ WithdrawUsdc
    \/ RecordGasPurchase
    \/ MoveDeposit
    \/ Tick

Spec == Init /\ [][Next]_vars

-----------------------------------------------------------------------------
(* Properties *)

\* The gas charged to the senders S in the window of one period from time t on,
\* under the limits of now.
GasIn(S, t) ==
    LET Counted == {i \in (since + 1)..Len(log) :
                       /\ log[i].outcome = "charged"
                       /\ log[i].sender \in S
                       /\ log[i].time \in t..(t + limits.period - 1)}
    IN  SumOver([i \in Counted |-> log[i].gas], Counted)

\* However its operations are spread over bundles and time, no sender is charged
\* for more than rateLimitMaxGasPerPeriod in any window of one period.
SenderWindow ==
    \A s \in Senders, t \in StartTime..now : GasIn({s}, t) <= limits.maxGas

\* The global counter starts anew at fixed moments, not with the window: in any
\* window of one period all senders together can use the threshold twice, and
\* no more.
GlobalWindow ==
    \A t \in StartTime..now : GasIn(Senders, t) <= 2 * limits.threshold

\* The limits mean what they say in whatever window one looks, each in its own way.
GasWindows == SenderWindow /\ GlobalWindow

\* The paymaster is left with the bill of an operation that had the balance
\* when it was accepted only if the sender moved the money meanwhile (in the
\* operation or in an earlier one of the bundle), did not approve the charge,
\* or owes more than the signed estimates cover.
LossExplained ==
    \A i \in DOMAIN log : log[i].outcome = "unpaid" =>
        \/ log[i].moved
        \/ log[i].allowed < log[i].due
        \/ log[i].due > log[i].quoted

\* README.md:341: exceeding a gas threshold pauses the paymaster.
BreakerPauses ==
    [][\A i \in DOMAIN log' \ DOMAIN log :
          log'[i].outcome \in {"sender limit", "breaker"} => paused']_vars

\* README.md:186: the rate limit is one of gas per period, so that a refused
\* operation would have taken its sender over the limit in the period that
\* ends with it.
RefusedOverLimit ==
    \A i \in DOMAIN log : log[i].outcome = "sender limit" =>
        GasIn({log[i].sender}, log[i].time - limits.period + 1) + log[i].gas
            > limits.maxGas

=============================================================================
