-------------------------------- MODULE Charge --------------------------------
(***************************************************************************)
(* What contract Project4Paymaster asks of a user operation's sender: the   *)
(* USDC it must hold before, and what it is charged after.  An operation is *)
(* a record with the terms the paymaster-api signed (price, minFee, normal, *)
(* deploy, referrer, refBps) and the operation's own initCode and maxFee.   *)
(***************************************************************************)
EXTENDS Naturals

CONSTANTS
    Scale                       \* 1e18: prices are USDC units per Scale wei

ASSUME ScaleAssumption == Scale \in Nat \ {0}

\* The contract and the paymaster-api have the same limit.
ReferralBpsMax == 500

\* The USDC the sender must hold: its estimated gas at the fee it bids.
Reserve(op) ==
    ((IF op.initCode THEN op.deploy ELSE op.normal) * op.maxFee * op.price) \div Scale

-----------------------------------------------------------------------------
\* The gas units a cost comes to, rounded up.
GasUnits(cost, fee) ==
    IF fee > 0 THEN (cost + fee - 1) \div fee
    ELSE IF cost > 0 THEN 1 ELSE 0

\* postOp charges the cost at the signed price, and at least the minimum fee.
BaseCharge(op, cost) ==
    LET metered == (cost * op.price) \div Scale
    IN  IF metered < op.minFee THEN op.minFee ELSE metered

\* The referrer's share comes on top.
ReferralCharge(op, cost) ==
    IF op.refBps > 0 /\ op.referrer THEN (BaseCharge(op, cost) * op.refBps) \div 10000
    ELSE 0

Due(op, cost) == BaseCharge(op, cost) + ReferralCharge(op, cost)

-----------------------------------------------------------------------------
(* The price: the paymaster-api signs it, the dashboard shows it. *)

\* The amplifier and the service fee, in basis points.
Marked(unit, amplifier, serviceFee) ==
    (((unit * (10000 + amplifier)) \div 10000) * (10000 + serviceFee)) \div 10000

\* computeUsdcPerWeiE6FromCounters, and when its result is of use.
Average(c) == (c.usdc * Scale) \div c.wei

Priced(c) == c.usdc > 0 /\ c.wei > 0 /\ Average(c) > 0

AtLeastOne(n) == IF n > 0 THEN n ELSE 1

=============================================================================
