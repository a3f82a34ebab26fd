----------------------------- MODULE SponsorQuote -----------------------------
(***************************************************************************)
(* How the paymaster-api answers pm_sponsorUserOperation and               *)
(* pm_getPaymasterStubData: it reads what gas has cost so far, makes a      *)
(* price of it, and signs the price with a time until which the contract    *)
(* accepts it.  Between its reads of the chain refills are recorded, the    *)
(* market and the gas price move, and time passes.                          *)
(*                                                                         *)
(* The signature, addresses and hashes are left out, and so are the rough   *)
(* estimates that are only shown.                                           *)
(***************************************************************************)
EXTENDS Naturals, Charge

CONSTANTS
    Quotes,                     \* requests for terms
    Asks,                       \* what a request may ask for
    Validity,                   \* PAYMASTER_API_VALIDITY_SECONDS, in ticks
    AmplifierBps, ServiceFeeBps,
    MinFee,                     \* minPostopFeeUsdcE6
    NormalUnits, DeployUnits,   \* gas caps of the two profiles
    Pools,                      \* the fee tiers that are quoted, 1..Pools
    QuoteIn,                    \* the USDC a live quote is asked for
    FallbackPerUnit,            \* fallbackUsdcPerGasUnitE6
    Counters, MaxPurchases,     \* bound: what one refill records, and how often
    Outs, GasPrices             \* bound: answers of a pool (0: none), of the node

\* maxFee 0: the operation does not say it yet.
Ask == [stub : BOOLEAN, initCode : BOOLEAN, maxFee : Nat, refBps : Nat]

ASSUME AsksAssumption == Asks \subseteq Ask
ASSUME PricingAssumption ==
    /\ {Validity, AmplifierBps, ServiceFeeBps, MinFee, NormalUnits, DeployUnits,
        Pools, FallbackPerUnit, MaxPurchases} \subseteq Nat
    /\ QuoteIn \in Nat \ {0}
    /\ Counters \subseteq [usdc : Nat, wei : Nat]
    /\ Outs \subseteq Nat /\ GasPrices \subseteq Nat

VARIABLES
    counters,                   \* getPricingCounters of the contract
    recorded,                   \* bound: refills recorded
    market,                     \* the wei each pool would give for QuoteIn
    gasPrice,                   \* eth_gasPrice
    quote                       \* the requests: at, what was asked, the best answer
                                \* of the pools, the price, the answer (reserves of
                                \* the two profiles and the total); left: time until
                                \* validUntil has passed; age: of the oldest read
                                \* that went into the price

quoteVars == <<counters, recorded, market, gasPrice, quote>>

NoAnswer == [normal |-> 0, deploy |-> 0, total |-> 0]

NoAsk == [stub |-> FALSE, initCode |-> FALSE, maxFee |-> 0, refBps |-> 0]

NoQuote == [at |-> "idle", ask |-> NoAsk, pool |-> 1, best |-> 0,
            price |-> 0, answer |-> NoAnswer, left |-> 0, age |-> 0]

QuoteStages == {"idle", "counters", "pools", "fallback", "gas", "sign", "answered", "failed"}

QuoteRecord == [at : QuoteStages, ask : Ask, pool : 1..(Pools + 1), best : Nat, price : Nat,
                answer : [normal : Nat, deploy : Nat, total : Nat],
                left : 0..(Validity + 1), age : 0..(Validity + 1)]

QuoteTypeOK ==
    /\ counters \in [usdc : Nat, wei : Nat] /\ recorded \in 0..MaxPurchases
    /\ market \in [1..Pools -> Outs] /\ gasPrice \in GasPrices
    /\ quote \in [Quotes -> QuoteRecord]

\* Where a behaviour may start: the contract has recorded nothing, or the
\* purchases of earlier refills.
Worlds == [counters : {[usdc |-> 0, wei |-> 0]} \cup Counters,
           market : [1..Pools -> Outs], gasPrice : GasPrices]

QuoteInit(worlds) ==
    /\ \E world \in worlds :
           /\ counters = world.counters
           /\ market = world.market
           /\ gasPrice = world.gasPrice
    /\ recorded = 0
    /\ quote = [q \in Quotes |-> NoQuote]

\* The request goes from one await to the next.
Step(q, from, new) == quote[q].at = from /\ quote' = [quote EXCEPT ![q] = new]

-----------------------------------------------------------------------------
(* The price *)

WithFees(unit) == Marked(unit, AmplifierBps, ServiceFeeBps)

-----------------------------------------------------------------------------
(* buildSponsorPayload and buildStubPayload *)

\* A referral over the limit is refused; a stub has none.
BeginQuote(q, ask) ==
    /\ ask.refBps <= ReferralBpsMax
    /\ Step(q, "idle", [quote[q] EXCEPT
           !.at = "counters", !.left = Validity + 1,
           !.ask = IF ask.stub THEN [ask EXCEPT !.refBps = 0] ELSE ask])
    /\ UNCHANGED <<counters, recorded, market, gasPrice>>

\* What follows the price: the sponsor's answer needs the gas price as well.
AfterPrice(q) == IF quote[q].ask.stub THEN "sign" ELSE "gas"

ReadCounters(q) ==
    /\ Step(q, "counters",
            IF Priced(counters)
            THEN [quote[q] EXCEPT !.at = AfterPrice(q), !.age = 0,
                                  !.price = WithFees(Average(counters))]
            ELSE [quote[q] EXCEPT !.at = "pools", !.age = 0])
    /\ UNCHANGED <<counters, recorded, market, gasPrice>>

\* The pools are asked one after the other; the best answer is kept.
AskPool(q) ==
    /\ quote[q].pool <= Pools
    /\ Step(q, "pools", [quote[q] EXCEPT
           !.best = IF market[quote[q].pool] > @ THEN market[quote[q].pool] ELSE @,
           !.pool = @ + 1])
    /\ UNCHANGED <<counters, recorded, market, gasPrice>>

PriceFromPools(q) ==
    /\ quote[q].pool > Pools
    /\ Step(q, "pools",
            IF quote[q].best > 0
            THEN [quote[q] EXCEPT !.at = AfterPrice(q),
                      !.price = WithFees(AtLeastOne((QuoteIn * Scale) \div quote[q].best))]
            ELSE [quote[q] EXCEPT !.at = "fallback"])
    /\ UNCHANGED <<counters, recorded, market, gasPrice>>

\* No pool answers: the configured price of a gas unit, at the node's gas price.
Fallback(q) ==
    /\ gasPrice > 0
    /\ Step(q, "fallback", [quote[q] EXCEPT
           !.at = AfterPrice(q),
           !.price = WithFees(AtLeastOne((FallbackPerUnit * Scale) \div gasPrice))])
    /\ UNCHANGED <<counters, recorded, market, gasPrice>>

\* The most that so much gas costs: at the operation's fee, or the node's price.
MaxCost(ask, units) == (units * IF ask.maxFee > 0 THEN ask.maxFee ELSE gasPrice)

\* Variant with a mistake: the referrer's share is forgotten.
AnswerWithoutReferral(q) ==
    LET ask == quote[q].ask
        usdcFor(units) == (MaxCost(ask, units) * quote[q].price) \div Scale
    IN  [normal |-> usdcFor(NormalUnits), deploy |-> usdcFor(DeployUnits),
         total |-> usdcFor(IF ask.initCode THEN DeployUnits ELSE NormalUnits)]

\* The reserves, and the estimated total cost.
Answer(q) ==
    LET ask == quote[q].ask
        usdcFor(units) == (MaxCost(ask, units) * quote[q].price) \div Scale
        base == usdcFor(IF ask.initCode THEN DeployUnits ELSE NormalUnits)
    IN  [normal |-> usdcFor(NormalUnits), deploy |-> usdcFor(DeployUnits),
         total |-> base + (base * ask.refBps) \div 10000]

FetchGasPrice(q) ==
    /\ gasPrice > 0
    /\ Step(q, "gas", [quote[q] EXCEPT !.at = "sign", !.answer = Answer(q)])
    /\ UNCHANGED <<counters, recorded, market, gasPrice>>

\* Variant with a mistake: validUntil is counted from the moment of signing.
SignAndDate(q) ==
    /\ Step(q, "sign", [quote[q] EXCEPT !.at = "answered", !.left = Validity + 1])
    /\ UNCHANGED <<counters, recorded, market, gasPrice>>

Sign(q) ==
    /\ Step(q, "sign", [quote[q] EXCEPT !.at = "answered"])
    /\ UNCHANGED <<counters, recorded, market, gasPrice>>

\* The node does not answer; a pool that does not counts as one with no quote.
QuoteFails(q) ==
    /\ \E at \in {"counters", "fallback", "gas", "sign"} :
           Step(q, at, [quote[q] EXCEPT !.at = "failed", !.left = 0])
    /\ UNCHANGED <<counters, recorded, market, gasPrice>>

QuoteStep(q) ==
    \/ ReadCounters(q) \/ AskPool(q) \/ PriceFromPools(q) \/ Fallback(q)
    \/ FetchGasPrice(q) \/ Sign(q) \/ QuoteFails(q)

-----------------------------------------------------------------------------
(* The world changes *)

\* recordGasPurchase.
Record(c) ==
    /\ recorded < MaxPurchases
    /\ recorded' = recorded + 1
    /\ counters' = [usdc |-> counters.usdc + c.usdc, wei |-> counters.wei + c.wei]

MarketMoves ==
    /\ \E p \in 1..Pools, out \in Outs : market' = [market EXCEPT ![p] = out]
    /\ UNCHANGED <<counters, recorded, gasPrice, quote>>

GasPriceMoves ==
    /\ gasPrice' \in GasPrices
    /\ UNCHANGED <<counters, recorded, market, quote>>

\* Nothing depends on ages beyond Validity + 1.
QuotesAge ==
    quote' = [q \in Quotes |->
        [quote[q] EXCEPT !.left = IF @ > 0 THEN @ - 1 ELSE 0,
                         !.age = IF @ <= Validity THEN @ + 1 ELSE @]]

-----------------------------------------------------------------------------
(* Properties *)

\* The operation with the signed terms, as the contract sees it.
Signed(q) ==
    LET ask == quote[q].ask IN
    [initCode |-> ask.initCode, maxFee |-> ask.maxFee, price |-> quote[q].price,
     minFee |-> MinFee, normal |-> NormalUnits, deploy |-> DeployUnits,
     referrer |-> ask.refBps > 0, refBps |-> ask.refBps]

\* Terms the EntryPoint still accepts.
Valid(q) == quote[q].at = "answered" /\ quote[q].left > 0

\* However slow the node is while a request is answered, an operation is never
\* charged at a price made from reads older than the validity: refills recorded
\* before that are in it.
PriceIsFresh == \A q \in Quotes : Valid(q) => quote[q].age <= Validity

\* For an operation that says its fee: the reserve advertised for its profile is
\* what the contract asks for, and what the contract charges for any cost within
\* the gas cap is within the estimated total, unless it is the minimum fee.
ChargeWithinEstimate ==
    \A q \in Quotes :
        Valid(q) /\ ~quote[q].ask.stub /\ quote[q].ask.maxFee > 0 =>
            LET op == Signed(q)
                answer == quote[q].answer
                cap == IF op.initCode THEN op.deploy ELSE op.normal
            IN  /\ Reserve(op) <= IF op.initCode THEN answer.deploy ELSE answer.normal
                /\ \A cost \in 0..(cap * op.maxFee) :
                       Due(op, cost) <= answer.total \/ BaseCharge(op, cost) = op.minFee

=============================================================================
