------------------------------- MODULE Metrics --------------------------------
(***************************************************************************)
(* A request for the dashboard's metrics (collectMetrics): calls of the     *)
(* node, of Redis and of the paymaster-api, one after the other, each of    *)
(* which may fail by itself.  The price of gas it answers is made of the    *)
(* counters of the paymaster it finds, of the paymaster-api's settings in   *)
(* Redis, and of the gas price the api reports; the paymaster-api itself    *)
(* signs with the settings it was started with.  In between a refill is     *)
(* recorded, the gas price moves and an operator changes the settings.      *)
(*                                                                         *)
(* A balance is answered or not; how much it is, is left out.               *)
(***************************************************************************)
EXTENDS Naturals, Sequences, Charge, Places

CONSTANTS
    Purchases,                  \* bound: what a refill may record
    NodePrices,                 \* bound: gas prices of the node
    Settings                    \* bound: settings an operator may write

\* Settings in Redis are text: one of them may be no number.
Setting == [amplifier : Nat, serviceFee : Nat, hasServiceFee : BOOLEAN, fallback : Nat,
            numbers : BOOLEAN]

ASSUME MetricsAssumption ==
    /\ Purchases \subseteq [usdc : Nat, wei : Nat]
    /\ NodePrices \subseteq Nat
    /\ Settings \subseteq Setting

VARIABLES
    served,                     \* the paymaster the api serves
    counters,                   \* getPricingCounters of each paymaster
    nodePrice,                  \* eth_gasPrice
    setting,                    \* the settings in Redis
    started,                    \* those the api was started with
    keys,                       \* whose private keys the dashboard has
    spare,                      \* bound: calls that may still fail
    metric                      \* the request: its next call (at), 0 if there is none;
                                \* the paymaster it is about (of); the counters and the
                                \* settings it read, if it could; what it answers, and
                                \* the price per gas; threw: it broke off; failed: the
                                \* calls that failed; stale: what it read has changed

metricsVars == <<served, counters, nodePrice, setting, started, keys, spare, metric>>

NoCounters == [usdc |-> 0, wei |-> 0]

NoMetric == [at |-> 0, of |-> "none", counters |-> NoCounters, settings |-> {},
             answered |-> {}, perGas |-> 0, threw |-> FALSE, failed |-> {}, stale |-> FALSE]

MetricsInit(apis, prices, startings, known, failing) ==
    /\ served \in apis
    /\ counters = [p \in Paymasters |-> NoCounters]
    /\ nodePrice \in prices
    /\ setting \in startings /\ started = setting
    /\ keys \in known
    /\ spare = failing
    /\ metric = NoMetric

-----------------------------------------------------------------------------
(* The world *)

Changes == metric' = [metric EXCEPT !.stale = TRUE] /\ UNCHANGED <<served, keys, spare>>

Purchase(p, bought) ==
    /\ counters[p] = NoCounters
    /\ counters' = [counters EXCEPT ![p] = bought]
    /\ Changes /\ UNCHANGED <<nodePrice, setting, started>>

NodePriceMoves(new) ==
    /\ nodePrice # new /\ nodePrice' = new
    /\ Changes /\ UNCHANGED <<counters, setting, started>>

Configure(new) ==
    /\ setting # new /\ setting' = new
    /\ Changes /\ UNCHANGED <<counters, nodePrice, started>>

\* The api does not start with settings it cannot read.
Restart ==
    /\ started # setting /\ setting.numbers /\ started' = setting
    /\ UNCHANGED <<served, counters, nodePrice, setting, keys, spare, metric>>

-----------------------------------------------------------------------------
(* The calls of a request, in their order, and which of them are made *)

Calls == <<"deposit", "native", "usdc", "owner", "ownerUsdc", "utility", "executor",
           "lastExecutor", "counters", "settings", "gas", "apiHealth", "bundlerHealth">>

\* The executors are asked one by one, until one does not answer.
Made(call, m) ==
    CASE call \in {"deposit", "native", "usdc", "counters"} -> m.of # "none"
      [] call \in {"owner", "utility", "executor"}          -> call \in keys
      [] call = "ownerUsdc"                                 -> "owner" \in keys \ m.failed
      [] call = "lastExecutor"                              -> "executor" \in keys \ m.failed
      [] OTHER                                              -> TRUE

Goto(m) ==
    LET next == {i \in DOMAIN Calls : i > m.at /\ Made(Calls[i], m)}
    IN  [m EXCEPT !.at = IF next = {} THEN 0 ELSE CHOOSE i \in next : \A j \in next : i <= j]

At(call) == metric.at # 0 /\ Calls[metric.at] = call

Asks(new) ==
    metric' = new /\ UNCHANGED <<served, counters, nodePrice, setting, started, keys>>

\* What is in the answer once the call has been answered: an executor's balance
\* only with the last one's.
Gives ==
    [deposit       |-> {"entryPointDeposit"},
     native        |-> {"paymasterContractNativeReserve"},
     usdc          |-> {"paymasterContractUsdcReserve"},
     owner         |-> {"refillOwnerNativeBalance"},
     ownerUsdc     |-> {"refillOwnerUsdcBalance"},
     utility       |-> {"bundlerUtilityBalance"},
     executor      |-> {},
     lastExecutor  |-> {"bundlerExecutorBalances"},
     counters      |-> {"paymasterGasUnitsProcessed", "paymasterGasBoughtWei",
                        "paymasterUsdcSpentForGasE6"},
     apiHealth     |-> {"paymasterApi"},
     bundlerHealth |-> {"bundler"}]

With(cards) == [metric EXCEPT !.answered = @ \cup cards]

-----------------------------------------------------------------------------
(* collectMetrics *)

\* Without its settings from Redis the dashboard answers, but nothing.
LoadDashboardConfig ==
    /\ metric.at = 0
    /\ \/ UNCHANGED spare /\ Asks(Goto([NoMetric EXCEPT !.of = AddressForMetrics]))
       \/ spare > 0 /\ spare' = spare - 1 /\ Asks([NoMetric EXCEPT !.failed = {"config"}])

\* Any call may fail.  What it was to give is missing, and the next is made.
CallFails ==
    /\ metric.at # 0 /\ spare > 0 /\ spare' = spare - 1
    /\ Asks(Goto([metric EXCEPT !.failed = @ \cup {Calls[metric.at]}]))

Balances == {"deposit", "native", "usdc", "owner", "ownerUsdc", "utility", "executor",
             "lastExecutor"}

ReadBalance ==
    /\ \E call \in Balances : At(call) /\ Asks(Goto(With(Gives[call])))
    /\ UNCHANGED spare

ReadPricingCounters ==
    /\ At("counters")
    /\ Asks(Goto([With(Gives.counters) EXCEPT !.counters = counters[metric.of]]))
    /\ UNCHANGED spare

\* A setting that is no number is not caught: the whole request breaks off.
ReadSettings ==
    /\ At("settings")
    /\ IF setting.numbers
       THEN Asks(Goto([With({"paymasterAmplifierBps"} \cup
                            (IF setting.hasServiceFee THEN {"paymasterServiceFeeBps"} ELSE {}))
                       EXCEPT !.settings = {setting}]))
       ELSE Asks([metric EXCEPT !.at = 0, !.threw = TRUE])
    /\ UNCHANGED spare

\* Variant with a mistake: the service fee is forgotten.
UnitWithoutFee(c, s, gas) ==
    Marked(IF c.usdc > 0 /\ c.wei > 0 THEN AtLeastOne(Average(c))
           ELSE AtLeastOne(IF gas > 0 THEN (s.fallback * Scale) \div gas ELSE 1),
           s.amplifier, 0)

\* Without counters the fallback takes their place, whatever the pools would give.
UnitFor(c, s, gas) ==
    Marked(IF c.usdc > 0 /\ c.wei > 0 THEN AtLeastOne(Average(c))
           ELSE AtLeastOne(IF gas > 0 THEN (s.fallback * Scale) \div gas ELSE 1),
           s.amplifier, s.serviceFee)

\* Variant with a mistake: no price without the counters.
PriceNeedsCounters(gas) ==
    IF "paymasterGasUnitsProcessed" \in metric.answered
       /\ "paymasterServiceFeeBps" \in metric.answered
    THEN {(UnitFor(metric.counters, s, gas) * gas) \div Scale : s \in metric.settings}
    ELSE {}

\* The price per gas, if the settings are there.
PerGas(gas) ==
    IF "paymasterServiceFeeBps" \in metric.answered
    THEN {(UnitFor(metric.counters, s, gas) * gas) \div Scale : s \in metric.settings}
    ELSE {}

\* The gas price, and what it comes to, worked out at once.
FetchGasPriceOfApi ==
    /\ At("gas")
    /\ IF PerGas(nodePrice) = {} THEN Asks(Goto(With({"gasPriceWei"})))
       ELSE \E price \in PerGas(nodePrice) :
                Asks(Goto([With({"gasPriceWei", "paymasterUsdcPerGas"}) EXCEPT !.perGas = price]))
    /\ UNCHANGED spare

CheckHealth ==
    /\ \E call \in {"apiHealth", "bundlerHealth"} : At(call) /\ Asks(Goto(With(Gives[call])))
    /\ UNCHANGED spare

MetricsGoOn == ReadBalance \/ ReadPricingCounters \/ ReadSettings \/ FetchGasPriceOfApi
               \/ CheckHealth \/ CallFails

-----------------------------------------------------------------------------
(* Properties *)

\* What the api signs now, if no pool answers.
SignedPrice ==
    LET c == counters[served]
    IN  Marked(IF Priced(c) THEN Average(c)
               ELSE AtLeastOne((started.fallback * Scale) \div nodePrice),
               started.amplifier, started.serviceFee)

\* A price on the page of the paymaster the api serves, from counters it could
\* read, while nothing it was made of has changed and the api was started with the
\* settings in Redis, is what the contract charges for a gas, to the unit that is
\* rounded away; but not if no refill was recorded and a pool answers, or if the
\* recorded price is below one.
ShownPriceIsCharged ==
    metric.at = 0 /\ ~metric.stale
    /\ {"paymasterUsdcPerGas", "paymasterGasUnitsProcessed"} \subseteq metric.answered
    /\ metric.of = served /\ setting = started /\ nodePrice > 0
    /\ (Priced(counters[served]) \/ counters[served] = NoCounters) =>
        \A units \in 1..3 :
            LET charged == BaseCharge([price |-> SignedPrice, minFee |-> 0], units * nodePrice)
            IN  charged \in (units * metric.perGas)..(units * metric.perGas + units - 1)

=============================================================================
