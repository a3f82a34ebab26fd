------------------------------ MODULE Paymaster ------------------------------
(***************************************************************************)
(* The state of contract Project4Paymaster and what its functions compute   *)
(* from it: which user operations it sponsors, what it charges for them,   *)
(* and the gas limits it keeps per sender and for everybody.               *)
(*                                                                         *)
(* A user operation is a record of what the contract looks at: the terms   *)
(* it carries, and what it will do.  Its signature is the key that made it *)
(* (signer) and what was signed (seal), which are not the operation's own  *)
(* terms if these were changed afterwards.  The nonce is left out: every   *)
(* operation the EntryPoint takes has a new one.                           *)
(***************************************************************************)
EXTENDS Sums, Charge

CONSTANTS
    Senders,                    \* smart accounts that ask for sponsorship
    Self, Other,                \* the paymaster's and one other USDC account
    Keys,                       \* keys that may be the verifier's
    NoKey,                      \* whoever else a signature may seem to be from
    Targets,                    \* contracts an operation may call
    NoTarget,                   \* the target of a call that is not execute()
    StartTime, InitPeriod, InitMaxGas, InitThreshold,
    FirstVerifier

ASSUME AccountsAssumption == Self \notin Senders /\ Other \notin Senders \cup {Self}
ASSUME TargetsAssumption == NoTarget \notin Targets
ASSUME VerifierAssumption == FirstVerifier \in Keys /\ NoKey \notin Keys
ASSUME LimitsAssumption ==
    /\ InitPeriod \in Nat /\ InitMaxGas \in Nat /\ InitThreshold \in Nat
    /\ StartTime \in Nat /\ StartTime >= InitPeriod

Accounts == Senders \cup {Self, Other}

VARIABLES
    now,                        \* block.timestamp
    verifier, treasury, paused, allowAllTargets,
    targetAllowed,              \* the targets on the allow list
    limits,                     \* rateLimitPeriodSeconds, rateLimitMaxGasPerPeriod,
                                \* circuitBreakerGasThreshold
    usage,                      \* gas of the running periods and their starts
    stats,                      \* observed gas and operation counts
    purchases,                  \* totals of recordGasPurchase
    usdc, allowance             \* balances, and what senders approved for us

contractVars == <<verifier, treasury, paused, allowAllTargets, targetAllowed,
                  limits, usage, stats, purchases>>

\* What is signed: not the gas fees, the gas limit or the initCode; but the calldata,
\* which says what the operation does.  keep: it does not touch its sender's approval.
Terms == [sender : Senders, target : Targets \cup {NoTarget},
          spend : Nat, approve : Nat, keep : BOOLEAN,
          price : Nat, minFee : Nat, normal : Nat, deploy : Nat, validUntil : Nat,
          referrer : BOOLEAN, refBps : Nat, capProfile : 0..255]

\* data: whether the bytes of paymasterAndData are whole, too short, or whole with an
\* impossible signature.
Op == [sender : Senders, target : Targets \cup {NoTarget}, initCode : BOOLEAN,
       signer : Keys, seal : Terms, data : {"whole", "short", "impossible"},
       validUntil : Nat, price : Nat, minFee : Nat,
       normal : Nat, deploy : Nat, gasLimit : Nat, maxFee : Nat, referrer : BOOLEAN, refBps : Nat,
       capProfile : 0..255, spend : Nat, approve : Nat, keep : BOOLEAN]

PaymasterTypeOK ==
    /\ now \in Nat
    /\ verifier \in Keys
    /\ treasury \in {Self, Other}
    /\ paused \in BOOLEAN /\ allowAllTargets \in BOOLEAN
    /\ targetAllowed \in SUBSET Targets
    /\ limits \in [period : Nat, maxGas : Nat, threshold : Nat]
    /\ usage \in [used : [Senders -> Nat], last : [Senders -> Nat],
                  total : Nat, reset : Nat]
    /\ stats \in [gas : [Senders -> Nat], count : [Senders -> Nat],
                  ops : Nat, units : Nat]
    /\ purchases \in [usdc : Nat, wei : Nat]
    /\ usdc \in [Accounts -> Nat]
    /\ allowance \in [Senders -> Nat]

PaymasterInit ==
    /\ now = StartTime
    /\ verifier = FirstVerifier
    /\ treasury = Self
    /\ paused = FALSE /\ allowAllTargets = TRUE
    /\ targetAllowed = {}
    /\ limits = [period |-> InitPeriod, maxGas |-> InitMaxGas,
                 threshold |-> InitThreshold]
    /\ usage = [used |-> [s \in Senders |-> 0], last |-> [s \in Senders |-> 0],
                total |-> 0, reset |-> StartTime]
    /\ stats = [gas |-> [s \in Senders |-> 0], count |-> [s \in Senders |-> 0],
                ops |-> 0, units |-> 0]
    /\ purchases = [usdc |-> 0, wei |-> 0]

-----------------------------------------------------------------------------
(* validatePaymasterUserOp *)

DecodePaymasterData(op) == op.data # "short"

\* CAP_PROFILE_NORMAL and CAP_PROFILE_DEPLOY.
CapProfiles == {0, 1}

\* The contract called by execute(), if it is that.
ExtractTarget(op) == {op.target} \ {NoTarget}

BuildPaymasterDigest(op) ==
    [sender |-> op.sender, target |-> op.target,
     spend |-> op.spend, approve |-> op.approve, keep |-> op.keep,
     price |-> op.price, minFee |-> op.minFee, normal |-> op.normal, deploy |-> op.deploy,
     validUntil |-> op.validUntil, referrer |-> op.referrer, refBps |-> op.refBps,
     capProfile |-> op.capProfile]

\* Variant with a mistake: the estimates are not signed.
RecoverFromFewerTerms(op) ==
    LET signed == [BuildPaymasterDigest(op) EXCEPT !.normal = op.seal.normal,
                                                   !.deploy = op.seal.deploy]
    IN  IF op.data = "impossible" \/ signed # op.seal THEN NoKey ELSE op.signer

\* Another digest than the one that was signed gives anybody's address.
RecoverSigner(op) ==
    IF op.data = "impossible" \/ BuildPaymasterDigest(op) # op.seal THEN NoKey ELSE op.signer

\* What the EntryPoint makes of the validation data.
PackValidationData(op) == now <= op.validUntil

\* Every check passes; otherwise the call reverts.
Validates(op) ==
    /\ ~paused
    /\ DecodePaymasterData(op)
    /\ op.refBps <= ReferralBpsMax
    /\ op.refBps > 0 => op.referrer
    /\ op.capProfile \in CapProfiles
    /\ ~allowAllTargets => ExtractTarget(op) \cap targetAllowed # {}
    /\ RecoverSigner(op) = verifier
    /\ usdc[op.sender] >= Reserve(op)

-----------------------------------------------------------------------------
(* postOp *)

\* Variants with a mistake: the length of the period is forgotten.
PeriodOverAtOnce == now >= usage.reset
SenderIdleAtOnce(s) == now >= usage.last[s]

\* Everybody's period runs from the last reset, the sender's from its last
\* operation.
PeriodOver == now >= usage.reset + limits.period

SenderIdle(s) == now >= usage.last[s] + limits.period

\* The periods that are over start anew.
Rolled(s) ==
    [usage EXCEPT !.reset = IF PeriodOver THEN now ELSE @,
                  !.total = IF PeriodOver THEN 0 ELSE @,
                  !.used[s] = IF SenderIdle(s) THEN 0 ELSE @]

SenderLimitExceeded(s, units) == Rolled(s).used[s] + units > limits.maxGas

BreakerExceeded(s, units) == Rolled(s).total + units > limits.threshold

\* The charge goes through: the gas counts against the limits, and in the stats.
CountGas(s, units) ==
    /\ usage' = [Rolled(s) EXCEPT !.used[s] = @ + units,
                                  !.last[s] = now,
                                  !.total = @ + units]
    /\ stats' = [stats EXCEPT !.gas[s] = @ + units, !.count[s] = @ + 1,
                              !.ops = @ + 1, !.units = @ + units]

-----------------------------------------------------------------------------
(* Functions of the owner *)

SetVerifier(key) ==
    /\ verifier' = key
    /\ UNCHANGED <<treasury, paused, allowAllTargets, targetAllowed,
                   limits, usage, stats, purchases>>

SetTreasury(account) ==
    /\ treasury' = account
    /\ UNCHANGED <<verifier, paused, allowAllTargets, targetAllowed,
                   limits, usage, stats, purchases>>

SetPaused(value) ==
    /\ paused' = value
    /\ UNCHANGED <<verifier, treasury, allowAllTargets, targetAllowed,
                   limits, usage, stats, purchases>>

SetAllowAllTargets(value) ==
    /\ allowAllTargets' = value
    /\ UNCHANGED <<verifier, treasury, paused, targetAllowed,
                   limits, usage, stats, purchases>>

SetTargetAllowed(target, allowed) ==
    /\ targetAllowed' = IF allowed THEN targetAllowed \cup {target}
                        ELSE targetAllowed \ {target}
    /\ UNCHANGED <<verifier, treasury, paused, allowAllTargets,
                   limits, usage, stats, purchases>>

\* setRateLimit and setCircuitBreakerThreshold.
SetLimits(new) ==
    /\ limits' = new
    /\ UNCHANGED <<verifier, treasury, paused, allowAllTargets, targetAllowed,
                   usage, stats, purchases>>

ResetGasUsage ==
    /\ usage' = [usage EXCEPT !.reset = now, !.total = 0]
    /\ UNCHANGED <<verifier, treasury, paused, allowAllTargets, targetAllowed,
                   limits, stats, purchases>>

RecordPurchase(spent, bought) ==
    /\ purchases' = [usdc |-> purchases.usdc + spent, wei |-> purchases.wei + bought]
    /\ UNCHANGED <<verifier, treasury, paused, allowAllTargets, targetAllowed,
                   limits, usage, stats>>

=============================================================================
